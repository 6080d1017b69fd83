------------------------------- MODULE RayMarch -------------------------------
(***************************************************************************)
(* Rays through the octrees of the chunks that are shown (raycast.rs): the *)
(* nearest solid, for the reference renderer and the debugger, and whether *)
(* a segment is occluded, for the flashlight and the shadows.              *)
(*                                                                         *)
(* Arithmetic is exact.  A ray of direction d is at from + t * d; its      *)
(* parameter is kept as t * Unit, where Unit is a multiple of all of d, so *)
(* the planes of a chunk are crossed at whole numbers.  Points are kept    *)
(* 2 * Unit times as large, and the representable float next to a plane is *)
(* the number next to it, which is not a point of any ray.                 *)
(***************************************************************************)
EXTENDS Integers, Sequences, FiniteSets, FiniteSetsExt

CONSTANTS
  Scenes,    \* sequences of chunks: [origin, worldSize, voxelSize, depth, solids, stale, lost]
  Rays,      \* [from, direction, maxT]
  Queries,   \* "front to back", "as listed" or "occluded"
  Limits     \* MAX_TRAVERSAL_STEPS and the frames of a stack: [steps, frames]

MinSteps == 160
Axes == 1..3

ASSUME RayAssumption ==
  /\ \A r \in Rays : r.from \in [Axes -> Int] /\ r.direction \in [Axes -> Int] /\ r.maxT \in Int
  /\ \A l \in Limits : l.steps \in Nat \ {0} /\ l.frames \in Nat \ {0}
  /\ Queries \subseteq {"front to back", "as listed", "occluded"}

\* The cube of a chunk is 2^depth voxels wide (svo_world_size()).  The last
\* conjunct is what the proofs use of powers of two.
ASSUME SceneAssumption ==
  \A s \in Scenes : \A n \in DOMAIN s :
    /\ s[n].origin \in [Axes -> Int] /\ s[n].voxelSize \in Nat \ {0} /\ s[n].depth \in Nat
    /\ s[n].worldSize = s[n].voxelSize * 2 ^ s[n].depth
    /\ LET along == 0..(2 ^ s[n].depth - 1)
       IN  DOMAIN s[n].solids \subseteq along \X along \X along
    /\ \A k \in 0..s[n].depth :
         /\ 2 ^ k \in Nat \ {0} /\ (k > 0 => 2 ^ k = 2 * 2 ^ (k - 1))
         /\ \A j \in 0..k : 2 ^ k = 2 ^ j * 2 ^ (k - j)

VARIABLES
  scene, ray, query, limits,
  ahead,     \* chunks still to be marched
  march,     \* the march through one chunk: t, p, here, stack and the steps left
  closest,   \* nearest hit so far
  answer     \* "asked", "open", then "hit" or "clear"

queryVars == <<scene, ray, query, limits>>
rayVars == <<queryVars, ahead, march, closest, answer>>

-----------------------------------------------------------------------------
Abs(n) == IF n < 0 THEN -n ELSE n
Moving == {i \in Axes : ray.direction[i] # 0}
Scale(i) == IF i \in Moving THEN Abs(ray.direction[i]) ELSE 1
Unit == Scale(1) * Scale(2) * Scale(3)
MaxT == ray.maxT * Unit

\* The ray in the coordinates of a chunk, and as points are kept.
From(chunk) == [i \in Axes |-> ray.from[i] - chunk.origin[i]]
Fine(n) == 2 * Unit * n
PointAt(from, t) == [i \in Axes |-> Fine(from[i]) + 2 * t * ray.direction[i]]

\* When the plane is crossed on a moving axis.
Crossing(from, i, plane) == (plane - from[i]) * (Unit \div Abs(ray.direction[i]))
                              * (IF ray.direction[i] > 0 THEN 1 ELSE -1)

(* ray_box_interval()                                                      *)
Interval(from, box) ==
  LET Cross(i) == {Crossing(from, i, box.lo[i]), Crossing(from, i, box.hi[i])}
  IN  [entry |-> Max({Min(Cross(i)) : i \in Moving}), exit |-> Min({Max(Cross(i)) : i \in Moving})]

Meets(from, box) ==
  /\ Moving # {}
  /\ \A i \in Axes \ Moving : box.lo[i] <= from[i] /\ from[i] <= box.hi[i]
  /\ Interval(from, box).entry <= Interval(from, box).exit

-----------------------------------------------------------------------------
(* The octree of a chunk: a node is the cube it stands for.                *)

Cube(lo, size) == [lo |-> lo, hi |-> [i \in Axes |-> lo[i] + size]]
Size(cube) == cube.hi[1] - cube.lo[1]
Root(chunk) == Cube(<<0, 0, 0>>, chunk.worldSize)
Holds(cube, p) == \A i \in Axes : Fine(cube.lo[i]) <= p[i] /\ p[i] <= Fine(cube.hi[i])

Child(cube, k) ==
  LET half == Size(cube) \div 2
      bit == <<k % 2, (k \div 2) % 2, k \div 4>>
  IN  Cube([i \in Axes |-> cube.lo[i] + bit[i] * half], half)

\* Voxels that are solid, by their kind, as cubes.
VoxelCube(chunk, v) == Cube([i \in Axes |-> chunk.voxelSize * v[i]], chunk.voxelSize)
VoxelsIn(chunk, cube) ==
  LET Along(i) == (cube.lo[i] \div chunk.voxelSize)..(cube.hi[i] \div chunk.voxelSize - 1)
  IN  Along(1) \X Along(2) \X Along(3)
SolidsIn(chunk, cube) == VoxelsIn(chunk, cube) \cap DOMAIN chunk.solids

(* decode_node(), of an atlas that may have lost the words of some nodes   *)
(* and keeps those of some air that was edited.                            *)
IsLost(chunk, node) == node \in chunk.lost
VoxelTypes(chunk, node) == {chunk.solids[v] : v \in SolidsIn(chunk, node)}
IsAirNode(chunk, node) == SolidsIn(chunk, node) = {}
IsSolidNode(chunk, node) ==
  /\ SolidsIn(chunk, node) = VoxelsIn(chunk, node)
  /\ \E k \in VoxelTypes(chunk, node) : VoxelTypes(chunk, node) = {k}
ChildMask(chunk, node) ==
  {k \in 0..7 : ~IsAirNode(chunk, Child(node, k)) \/ Child(node, k) \in chunk.stale}

(* traversal_step_budget()                                                 *)
Estimated(chunk) ==
  LET cells == Max({chunk.worldSize \div chunk.voxelSize, 2 ^ chunk.depth})
  IN  (3 * cells + 1) * (chunk.depth + 1) + 16
StepBudget(chunk) == Min({Max({Estimated(chunk), MinSteps}), limits.steps})

-----------------------------------------------------------------------------
None == [found |-> FALSE]
Idle == [busy |-> FALSE]

RayInit ==
  /\ scene \in Scenes /\ ray \in Rays /\ query \in Queries /\ limits \in Limits
  /\ ahead = {} /\ march = Idle /\ closest = None
  /\ answer = "asked"

\* Chunks the segment passes through, and where it enters them.
Span(c) == Interval(From(scene[c]), Root(scene[c]))
Intersected ==
  {c \in DOMAIN scene : /\ Meets(From(scene[c]), Root(scene[c]))
                        /\ Span(c).entry < Span(c).exit
                        /\ Span(c).exit > 0 /\ Span(c).entry < MaxT}
EntryOf(c) == Max({Span(c).entry, 0})

\* Chunks as listed, or sorted by entry where that differs.
Before(c, e) ==
  IF query = "front to back" /\ EntryOf(c) # EntryOf(e) THEN EntryOf(c) < EntryOf(e) ELSE c < e
IsNext(c) == c \in ahead /\ \A e \in ahead \ {c} : Before(c, e)

(* The start of trace_svo() or svo_segment_is_occluded().                  *)
Ask ==
  /\ answer = "asked"
  /\ IF query = "occluded" /\ ray.maxT <= 0
     THEN answer' = "clear" /\ UNCHANGED ahead
     ELSE answer' = "open" /\ ahead' = Intersected
  /\ UNCHANGED <<queryVars, march, closest>>

(* Mutant: the first chunk with a hit settles it.                          *)
SettledByFirst(c) == query = "front to back" /\ closest.found

\* Nothing ahead can be nearer than what was hit.
Settled(c) == query = "front to back" /\ closest.found /\ closest.t <= EntryOf(c)

Enter ==
  /\ answer = "open" /\ ~march.busy
  /\ \E c \in ahead :
       /\ IsNext(c) /\ ~Settled(c)
       /\ march' = [busy |-> TRUE, chunk |-> c, t |-> EntryOf(c),
                    p |-> PointAt(From(scene[c]), EntryOf(c)),
                    here |-> Root(scene[c]), stack |-> <<>>, left |-> StepBudget(scene[c])]
       /\ ahead' = ahead \ {c}
  /\ UNCHANGED <<queryVars, closest, answer>>

Answer ==
  /\ answer = "open" /\ ~march.busy
  /\ ahead # {} => \E c \in ahead : IsNext(c) /\ Settled(c)
  /\ answer' = IF closest.found THEN "hit" ELSE "clear"
  /\ UNCHANGED <<queryVars, ahead, march, closest>>

-----------------------------------------------------------------------------
(* One turn of the loop of raymarch_svo_single().                          *)

Chunk == scene[march.chunk]
Marching == answer = "open" /\ march.busy
Turning == Marching /\ march.left > 0 /\ march.t <= MaxT /\ ~IsLost(Chunk, march.here)

Leave == march' = Idle /\ UNCHANGED <<queryVars, ahead>>

OutOfReach ==
  /\ Marching /\ march.left > 0 /\ march.t > MaxT
  /\ Leave /\ UNCHANGED <<closest, answer>>

\* Out of steps or of words: for a segment that is as good as blocked.
Indeterminate ==
  /\ Marching
  /\ march.left = 0 \/ (march.t <= MaxT /\ IsLost(Chunk, march.here))
  /\ Leave
  /\ answer' = IF query = "occluded" THEN "hit" ELSE answer
  /\ UNCHANGED closest

Hit ==
  /\ Turning /\ IsSolidNode(Chunk, march.here)
  /\ Leave
  /\ IF query = "occluded" THEN answer' = "hit" /\ UNCHANGED closest
     ELSE /\ UNCHANGED answer
          /\ closest' = IF closest.found /\ closest.t <= march.t THEN closest
                        ELSE [found |-> TRUE, t |-> march.t,
                              voxelType |-> CHOOSE k \in VoxelTypes(Chunk, march.here) : TRUE]

(* skip_to_exit(): every axis on which the box is left at that moment is   *)
(* taken past its plane.                                                   *)
ExitPlane(box, i) == IF ray.direction[i] > 0 THEN box.hi[i] ELSE box.lo[i]
ExitOf(box) ==
  LET from == From(Chunk)
      exits == [i \in Moving |-> Crossing(from, i, ExitPlane(box, i))]
      t == Min({exits[i] : i \in Moving})
      past(i) == Fine(ExitPlane(box, i)) + (IF ray.direction[i] > 0 THEN 1 ELSE -1)
  IN  [t |-> t, p |-> [i \in Axes |-> IF i \in Moving /\ exits[i] = t THEN past(i)
                                      ELSE PointAt(from, t)[i]]]

\* pop_exited(): to the innermost box that still contains the point.
SkipPast(box) ==
  LET next == ExitOf(box)
      back == {n \in DOMAIN march.stack : Holds(march.stack[n], next.p)}
      onward == [march EXCEPT !.t = next.t, !.p = next.p, !.left = @ - 1]
  IN  IF Holds(march.here, next.p) THEN march' = onward
      ELSE IF back = {} THEN march' = Idle
      ELSE \E n \in back : /\ \A k \in back : k <= n
                           /\ march' = [onward EXCEPT !.here = march.stack[n],
                                                     !.stack = SubSeq(@, 1, n - 1)]

SkipLeaf ==
  /\ Turning /\ IsAirNode(Chunk, march.here)
  /\ SkipPast(march.here)
  /\ UNCHANGED <<queryVars, ahead, closest, answer>>

\* The octant of the box the point is in; on a plane, the upper one.
OctantNow ==
  LET Upper(i) == 2 * march.p[i] >= Fine(march.here.lo[i] + march.here.hi[i])
      Bit(i) == IF Upper(i) THEN 1 ELSE 0
  IN  Bit(1) + 2 * Bit(2) + 4 * Bit(3)

Interior == Turning /\ ~IsAirNode(Chunk, march.here) /\ ~IsSolidNode(Chunk, march.here)

SkipOctant ==
  /\ Interior /\ OctantNow \notin ChildMask(Chunk, march.here)
  /\ SkipPast(Child(march.here, OctantNow))
  /\ UNCHANGED <<queryVars, ahead, closest, answer>>

\* A full stack forgets the frame; an ancestor of it will do.
Descend ==
  /\ Interior /\ OctantNow \in ChildMask(Chunk, march.here)
  /\ march' = [march EXCEPT
       !.stack = IF Len(@) < limits.frames THEN Append(@, march.here) ELSE @,
       !.here = Child(march.here, OctantNow),
       !.left = @ - 1]
  /\ UNCHANGED <<queryVars, ahead, closest, answer>>

RayNext ==
  \/ Ask \/ Enter \/ Answer
  \/ OutOfReach \/ Indeterminate \/ Hit \/ SkipLeaf \/ SkipOctant \/ Descend

RaySpec == RayInit /\ [][RayNext]_rayVars

-----------------------------------------------------------------------------
SolidBoxes == UNION {{c} \X DOMAIN scene[c].solids : c \in DOMAIN scene}
BoxOf(s) == VoxelCube(scene[s[1]], s[2])

\* The ray is in the interior of the voxel at some time; when it first is.
Pierces(s) ==
  LET from == From(scene[s[1]]) span == Interval(from, BoxOf(s))
  IN  /\ Meets(from, BoxOf(s)) /\ span.entry < span.exit /\ span.exit > 0
      /\ \A i \in Axes \ Moving : BoxOf(s).lo[i] < from[i] /\ from[i] < BoxOf(s).hi[i]
EnteredAt(s) == Max({0, Interval(From(scene[s[1]]), BoxOf(s)).entry})

Touches(s, t) == Holds(BoxOf(s), PointAt(From(scene[s[1]]), t))
Intact ==
  \A c \in DOMAIN scene : /\ scene[c].lost = {}
                          /\ limits.steps >= Estimated(scene[c]) /\ limits.frames >= scene[c].depth

(* No light leaks: a segment is called clear only if it pierces no solid,  *)
(* even when the atlas is damaged or the work runs out ("a corrupt atlas   *)
(* or exhausted safety budget must not become a light leak",               *)
(* raycast.rs:114-115).  When neither happens, blocked means that a solid  *)
(* is touched, and both orders of trace_svo() find the solid nearest to    *)
(* the origin, padded chunks that overlap or not: it is touched where the  *)
(* hit is, and none is pierced before.                                     *)
RaysStopAtSolids ==
  LET pierced == {s \in SolidBoxes : Pierces(s) /\ EnteredAt(s) < MaxT}
  IN  /\ answer = "clear" /\ (Intact \/ query = "occluded") => pierced = {}
      /\ answer = "hit" /\ Intact /\ query = "occluded" =>
           \E s \in SolidBoxes :
             LET from == From(scene[s[1]])
             IN  /\ Meets(from, BoxOf(s)) /\ Interval(from, BoxOf(s)).exit >= 0
                 /\ Interval(from, BoxOf(s)).entry <= MaxT
      /\ closest.found =>
           /\ closest.t <= MaxT
           /\ \E s \in SolidBoxes :
                Touches(s, closest.t) /\ scene[s[1]].solids[s[2]] = closest.voxelType
      /\ answer = "hit" /\ closest.found /\ Intact => \A s \in pierced : EnteredAt(s) >= closest.t
=============================================================================
