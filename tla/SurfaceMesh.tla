----------------------------- MODULE SurfaceMesh -----------------------------
(***************************************************************************)
(* The surface of a chunk: VoxelMapper merges the exposed faces of every   *)
(* slice into rectangles, which surface_mesh.rs turns into corners of      *)
(* triangles and face_instances.rs into capped pieces that a shader        *)
(* spreads out again.  A voxel is one unit; colour follows from material.  *)
(***************************************************************************)
EXTENDS Integers, Sequences, FiniteSets

CONSTANTS
  Chunks,     \* [size, padding, material, light, shade], the latter three
              \* functions on the voxels with their lateral padding
  Policies,   \* "exact", "low spec"
  MaxCells    \* MAX_FACE_EXTENT_UNITS in voxels

Up == 0  Down == 1  North == 2  South == 3  East == 4  West == 5
Directions == 0..5

\* The axis a face is perpendicular to, which way, and the axes its slice
\* is merged along.
PlaneAxis(d) == CASE d \in {Up, Down} -> 2 [] d \in {North, South} -> 3 [] OTHER -> 1
Ahead(d) == IF d \in {Up, South, East} THEN 1 ELSE -1
SliceAxes(d) ==
  CASE d \in {Up, Down} -> <<1, 3>> [] d \in {North, South} -> <<1, 2>> [] OTHER -> <<3, 2>>

Padded(size, n) == ((-n)..(size[1] - 1 + n)) \X (0..(size[2] - 1)) \X ((-n)..(size[3] - 1 + n))

ASSUME MeshAssumption ==
  /\ MaxCells \in Nat \ {0}
  /\ \A c \in Chunks : /\ c.size \in [1..3 -> Nat] /\ c.padding \in Nat
                      /\ DOMAIN c.material = Padded(c.size, c.padding)

VARIABLES
  chunk, policy,
  slice,     \* how many slices are merged
  visited,   \* cells <<u, v>> of the slice that are
  quads

meshVars == <<chunk, policy, slice, visited, quads>>

\* GridNeighborhood: what is unknown beside a padded chunk is solid.
Material(p) ==
  CASE p \in DOMAIN chunk.material -> chunk.material[p]
    [] p[2] \notin 0..(chunk.size[2] - 1) -> "air"
    [] OTHER -> IF chunk.padding > 0 THEN "wall" ELSE "air"

Next3(p, d) == [p EXCEPT ![PlaneAxis(d)] = @ + Ahead(d)]
IsExposed(d, p) == Material(p) # "air" /\ Material(Next3(p, d)) = "air"

FaceKey(d, p) == [material |-> Material(p), light |-> chunk.light[p], ao |-> d \in chunk.shade[p]]
Matches(k, l) == IF policy = "exact" THEN k = l ELSE k.material = l.material

-----------------------------------------------------------------------------
(* map_voxel_region_with_policy(): the slices in their order               *)

Across == 2 * chunk.size[2]
Facing == 2 * chunk.size[3]
SliceCount == Across + Facing + 2 * chunk.size[1]

Dir ==
  CASE slice < Across -> slice % 2
    [] slice \in Across..(Across + Facing - 1) -> 2 + ((slice - Across) % 2)
    [] OTHER -> 4 + ((slice - Across - Facing) % 2)
Plane ==
  CASE slice < Across -> slice \div 2
    [] slice \in Across..(Across + Facing - 1) -> (slice - Across) \div 2
    [] OTHER -> (slice - Across - Facing) \div 2

Wide == chunk.size[SliceAxes(Dir)[1]]
High == chunk.size[SliceAxes(Dir)[2]]

Position(u, v) ==
  [i \in 1..3 |-> CASE i = PlaneAxis(Dir) -> Plane [] i = SliceAxes(Dir)[1] -> u [] OTHER -> v]

-----------------------------------------------------------------------------
(* greedy_mesh_2d(): one rectangle at a time                               *)

Face(u, v) == IsExposed(Dir, Position(u, v))
KeyAt(u, v) == FaceKey(Dir, Position(u, v))

Open(u, v) == <<u, v>> \notin visited /\ Face(u, v)

\* Mutant: cells of a rectangle from the rows above are taken again.
JoinsVisited(key, u, v) == Face(u, v) /\ Matches(key, KeyAt(u, v))

Joins(key, u, v) == Open(u, v) /\ Matches(key, KeyAt(u, v))

IsFirst(u, v) ==
  /\ Open(u, v)
  /\ \A s \in 0..(Wide - 1), t \in 0..v : Open(s, t) => t = v /\ s >= u

IsWidth(w, u, v) ==
  /\ \A i \in 1..(w - 1) : Joins(KeyAt(u, v), u + i, v)
  /\ u + w < Wide => ~Joins(KeyAt(u, v), u + w, v)

RowJoins(w, u, v, j) == \A i \in 0..(w - 1) : Joins(KeyAt(u, v), u + i, v + j)
IsHeight(h, w, u, v) ==
  /\ \A j \in 1..(h - 1) : RowJoins(w, u, v, j)
  /\ v + h < High => ~RowJoins(w, u, v, h)

MergeQuad ==
  /\ slice < SliceCount
  /\ \E u \in 0..(Wide - 1), v \in 0..(High - 1) :
       /\ IsFirst(u, v)
       /\ \E w \in 1..(Wide - u), h \in 1..(High - v) :
            /\ IsWidth(w, u, v) /\ IsHeight(h, w, u, v)
            /\ visited' = visited \cup ((u..(u + w - 1)) \X (v..(v + h - 1)))
            /\ quads' = quads \cup
                 {[dir |-> Dir, at |-> Position(u, v), w |-> w, h |-> h, key |-> KeyAt(u, v)]}
  /\ UNCHANGED <<chunk, policy, slice>>

EndSlice ==
  /\ slice < SliceCount
  /\ \A u \in 0..(Wide - 1), v \in 0..(High - 1) : ~Open(u, v)
  /\ slice' = slice + 1 /\ visited' = {}
  /\ UNCHANGED <<chunk, policy, quads>>

MeshInit ==
  /\ chunk \in Chunks /\ policy \in Policies
  /\ slice = 0 /\ visited = {} /\ quads = {}

MeshNext == MergeQuad \/ EndSlice
MeshSpec == MeshInit /\ [][MeshNext]_meshVars

-----------------------------------------------------------------------------
(* What is drawn of them, in half voxels: corners in the order of their    *)
(* triangles.                                                              *)

Front(q) == 2 * q.at[PlaneAxis(q.dir)] + (IF Ahead(q.dir) = 1 THEN 2 ELSE 0)

\* append_quad()
Turn(d) == IF d \in {Up, North, East} THEN <<<<0, 0>>, <<0, 1>>, <<1, 1>>, <<1, 0>>>>
                                      ELSE <<<<0, 0>>, <<1, 0>>, <<1, 1>>, <<0, 1>>>>
Corner(q, t) ==
  [i \in 1..3 |-> CASE i = PlaneAxis(q.dir) -> Front(q)
                    [] i = SliceAxes(q.dir)[1] -> 2 * (q.at[i] + t[1] * q.w)
                    [] OTHER -> 2 * (q.at[i] + t[2] * q.h)]
Indexed(q) == [corners |-> [n \in 1..4 |-> Corner(q, Turn(q.dir)[n])], key |-> q.key]

\* face_frame(): u is x but for faces along x, where it is y.
FrameAxes(d) ==
  CASE d \in {Up, Down} -> <<1, 3>> [] d \in {North, South} -> <<1, 2>> [] OTHER -> <<2, 3>>
CellsU(q) == IF q.dir \in {East, West} THEN q.h ELSE q.w
CellsV(q) == IF q.dir \in {East, West} THEN q.w ELSE q.h

\* emit_capped(): where pieces start and how long they are.
Cuts(n) == {[from |-> o, long |-> IF MaxCells < n - o THEN MaxCells ELSE n - o] :
              o \in {i \in 0..(n - 1) : i % MaxCells = 0}}
PieceOf(q, s, t) ==
  [dir |-> q.dir, u |-> s.long, v |-> t.long, key |-> q.key,
   centre |-> [i \in 1..3 |-> CASE i = PlaneAxis(q.dir) -> Front(q)
                                [] i = FrameAxes(q.dir)[1] -> 2 * (q.at[i] + s.from) + s.long
                                [] OTHER -> 2 * (q.at[i] + t.from) + t.long]]
Capped(q) == {PieceOf(q, s, t) : s \in Cuts(CellsU(q)), t \in Cuts(CellsV(q))}

\* faceBasis() of the shader.
FaceU(d) == IF d \in {East, West} THEN <<0, 1, 0>> ELSE <<1, 0, 0>>
FaceV(d) ==
  CASE d = Up -> <<0, 0, -1>> [] d = Down -> <<0, 0, 1>> [] d = North -> <<0, -1, 0>>
    [] d = South -> <<0, 1, 0>> [] d = East -> <<0, 0, 1>> [] OTHER -> <<0, 0, -1>>
Reaching(g, s, t) == [i \in 1..3 |-> g.centre[i] + s * g.u * FaceU(g.dir)[i] + t * g.v * FaceV(g.dir)[i]]
Splat(g) ==
  [corners |-> <<Reaching(g, -1, -1), Reaching(g, 1, -1), Reaching(g, 1, 1), Reaching(g, -1, 1)>>,
   key |-> g.key]

-----------------------------------------------------------------------------
Inside == Padded(chunk.size, 0)

\* Seen from its front a triangle turns counter-clockwise, or it is culled.
Normal(k) ==
  LET a == [i \in 1..3 |-> k[2][i] - k[1][i]]
      b == [i \in 1..3 |-> k[3][i] - k[1][i]]
  IN  <<a[2] * b[3] - a[3] * b[2], a[3] * b[1] - a[1] * b[3], a[1] * b[2] - a[2] * b[1]>>

\* The middle of the face lies in the rectangle and looks the same way.
Shows(g, d, p) ==
  LET middle == [i \in 1..3 |-> 2 * p[i] + 1 + (IF i = PlaneAxis(d) THEN Ahead(d) ELSE 0)]
  IN  /\ Normal(g.corners)[PlaneAxis(d)] * Ahead(d) > 0
      /\ \A i \in 1..3 : \E m, n \in 1..4 :
           g.corners[m][i] <= middle[i] /\ middle[i] <= g.corners[n][i]

\* These rectangles are the surface: one shows every exposed face, as it is.
IsSurface(shapes) ==
  /\ \A d \in Directions, p \in Inside :
       LET showing == {g \in shapes : Shows(g, d, p)}
       IN  IF IsExposed(d, p) THEN \E g \in showing : showing = {g} /\ Matches(g.key, FaceKey(d, p))
                            ELSE showing = {}
  /\ \A g \in shapes, n \in 1..4, i \in 1..3 : g.corners[n][i] \in 0..(2 * chunk.size[i])

(* Both outputs show every exposed face exactly once, with its own material*)
(* and light, looking outward, and nothing else: not what a neighbouring   *)
(* chunk hides.  "The splat renderer's visible boundary and the mesh-based *)
(* shadow caster can never disagree" (face_instances.rs:5-6).  No piece is *)
(* longer than one sample of light is good for.                            *)
MeshIsTheSurface ==
  slice = SliceCount =>
    /\ IsSurface({Indexed(q) : q \in quads})
    /\ IsSurface({Splat(g) : g \in UNION {Capped(q) : q \in quads}})
    /\ \A q \in quads : \A g \in Capped(q) : g.u <= MaxCells /\ g.v <= MaxCells
=============================================================================
