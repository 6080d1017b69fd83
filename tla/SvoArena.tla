------------------------------- MODULE SvoArena -------------------------------
(***************************************************************************)
(* The voxels of a chunk as a sparse octree in one arena of nodes: built   *)
(* from a dense grid or from a sampler, edited in place, walked for what   *)
(* the player collides with, and shared into a graph before the upload.    *)
(*                                                                         *)
(* A voxel's attributes are its kind and light; colour is a function of    *)
(* the kind, occlusion another attribute like light.  Indices into the     *)
(* arena are counted from 0, as in the code.  Its recursions are functions *)
(* of the level, from the voxel up, of what they are called with.          *)
(***************************************************************************)
EXTENDS Integers, Sequences, FiniteSets

CONSTANTS
  Depth,             \* levels of the octree
  Volumes,           \* dense grids: [size, voxels]
  Sites, Paints,     \* voxels edited and the attributes they are given
  MaxEdits

SideAt[n \in 0..Depth] == IF n = 0 THEN 1 ELSE 2 * SideAt[n - 1]
Edge == SideAt[Depth]
Space == (0..(Edge - 1)) \X (0..(Edge - 1)) \X (0..(Edge - 1))
Air == [kind |-> "air", light |-> 0]
SolidKinds == {"wall"}   \* SOLID_MATERIALS

\* Whoever writes air writes it without attributes.
ASSUME ArenaAssumption ==
  /\ Depth \in Nat
  /\ \A v \in Volumes :
       /\ v.size \in [1..3 -> Nat]
       /\ DOMAIN v.voxels = (0..(v.size[1] - 1)) \X (0..(v.size[2] - 1)) \X (0..(v.size[3] - 1))
  /\ \A a \in Paints : a.kind = "air" => a = Air
  /\ Sites \subseteq Space

VARIABLES
  volume,
  nodes, root,
  form,    \* "grid", "tree", "edited" or "graph"
  edits,
  shown     \* history: what was put where

arenaVars == <<volume, nodes, root, form, edits, shown>>

Outside(p) == \E i \in 1..3 : p[i] >= volume.size[i]

\* get_voxel_attrs(): air has neither light nor colour.
Sample(p) ==
  IF Outside(p) THEN Air
  ELSE IF volume.voxels[p].kind = "air" THEN Air ELSE volume.voxels[p]
Samples == [p \in Space |-> Sample(p)]

-----------------------------------------------------------------------------
(* Nodes and cubes                                                         *)

Leaf(a) == [leaf |-> TRUE, of |-> a]
Branch(base, mask) == [leaf |-> FALSE, base |-> base, mask |-> mask]

Attributes ==
  {Air} \cup {a \in Paints \cup UNION {{v.voxels[p] : p \in DOMAIN v.voxels} : v \in Volumes} :
                a.kind # "air"}
SvoNodes == [leaf : {TRUE}, of : Attributes] \cup [leaf : {FALSE}, base : Nat, mask : SUBSET (0..7)]
Arenas == Seq(SvoNodes)

CubeAt(origin, level) == [origin |-> origin, level |-> level]
Whole == CubeAt(<<0, 0, 0>>, Depth)
Octant(cube, k) ==
  LET half == SideAt[cube.level - 1]
  IN  CubeAt(<<cube.origin[1] + (k % 2) * half,
             cube.origin[2] + ((k \div 2) % 2) * half,
             cube.origin[3] + (k \div 4) * half>>, cube.level - 1)
Bit(c, half) == (c \div half) % 2
OctantOf(p, half) == Bit(p[1], half) + 2 * Bit(p[2], half) + 4 * Bit(p[3], half)
Within(p, half) == <<p[1] % half, p[2] % half, p[3] % half>>

Cubes == {CubeAt(o, n) : o \in Space, n \in 0..Depth}
InCube(p, cube) ==
  \A i \in 1..3 : cube.origin[i] <= p[i] /\ p[i] < cube.origin[i] + SideAt[cube.level]

Uniform(kids) == \A k \in 1..8 : kids[k].leaf /\ kids[k] = kids[1]
Occupied(kids) == {k \in 0..7 : ~kids[k + 1].leaf \/ kids[k + 1].of.kind # "air"}

\* The eight calls of a recursion that hands the arena on, with what each of
\* them is called with.
Visits(call, arena, with) ==
  LET visit[k \in 0..8] ==
        IF k = 0 THEN [arena |-> arena, kids |-> <<>>]
        ELSE LET before == visit[k - 1]
                 last == call[before.arena][with[k - 1]]
             IN  [arena |-> last.arena, kids |-> Append(before.kids, last.node)]
  IN  visit

-----------------------------------------------------------------------------
(* build_recursive() and emit_cube(): the cubes `known` to be uniform are  *)
(* not descended into.                                                     *)

GrowVoxel(sample) ==
  [arena \in Arenas |-> [o \in Space |-> [arena |-> arena, node |-> Leaf(sample[o])]]]

Laid(arena, kids) ==
  IF Uniform(kids) THEN [arena |-> arena, node |-> kids[1]]
  ELSE [arena |-> arena \o kids, node |-> Branch(Len(arena), Occupied(kids))]

GrowCube(sample, known, n, grow) ==
  [arena \in Arenas |-> [o \in Space |->
     LET cube == CubeAt(o, n)
         eight == Visits(grow, arena, [k \in 0..7 |-> Octant(cube, k).origin])[8]
     IN  IF cube \in known THEN [arena |-> arena, node |-> Leaf(sample[o])]
         ELSE Laid(eight.arena, eight.kids)]]

Grow(sample, known) ==
  LET grow[n \in 0..Depth] ==
        IF n = 0 THEN GrowVoxel(sample) ELSE GrowCube(sample, known, n, grow[n - 1])
  IN  grow

Tree(sample, known) ==
  LET grown == Grow(sample, known)[Depth][<<>>][Whole.origin]
  IN  [nodes |-> Append(grown.arena, grown.node), root |-> Len(grown.arena)]

CubesOutside == {c \in Cubes : Outside(c.origin)}

\* Any proof of uniformity a sampler may offer beyond those of GridSampler,
\* for the cubes it is asked about.
Askable == {c \in Cubes : c.level > 0 /\ \A i \in 1..3 : c.origin[i] % SideAt[c.level] = 0}
Hints == SUBSET {c \in Askable : \A p \in Space : InCube(p, c) => Sample(p) = Sample(c.origin)}

Become(tree) == nodes' = tree.nodes /\ root' = tree.root

BuildFrom(known) ==
  /\ form = "grid" /\ form' = "tree"
  /\ Become(Tree(Samples, known))
  /\ UNCHANGED <<volume, edits, shown>>

Build == BuildFrom(CubesOutside)
BuildDirect(hints) == BuildFrom(CubesOutside \cup hints)

ArenaInit ==
  /\ volume \in Volumes
  /\ nodes = <<>> /\ root = 0 /\ form = "grid" /\ edits = 0
  /\ shown = Samples

-----------------------------------------------------------------------------
(* get_recursive(), from a node and the place in its cube.                 *)

Missing == [kind |-> "missing", light |-> 0]   \* None

LookVoxel(arena) ==
  [i \in Nat |-> [p \in Space |->
     IF i < Len(arena) THEN IF arena[i + 1].leaf THEN arena[i + 1].of ELSE Missing ELSE Missing]]

LookCube(arena, n, look) ==
  [i \in Nat |-> [p \in Space |->
     LET node == arena[i + 1]
         half == SideAt[n - 1]
         k == OctantOf(p, half)
     IN  IF i >= Len(arena) THEN Missing
         ELSE IF node.leaf THEN node.of
         ELSE IF k \notin node.mask THEN Air
         ELSE look[node.base + k][Within(p, half)]]]

Look(arena) ==
  LET look[n \in 0..Depth] == IF n = 0 THEN LookVoxel(arena) ELSE LookCube(arena, n, look[n - 1])
  IN  look

-----------------------------------------------------------------------------
(* set_recursive(); a bit of a mask is never cleared again.                *)

\* collapse_if_uniform()
KidsAt(arena, base) == [k \in 1..8 |-> arena[base + k]]
Collapsed(arena, i) ==
  LET kids == KidsAt(arena, arena[i + 1].base)
  IN  IF Uniform(kids) THEN [arena EXCEPT ![i + 1] = kids[1]] ELSE arena

(* Mutant: a leaf that is split leaves its other parts masked out.         *)
SplitLeafOff(arena, i) ==
  LET node == arena[i + 1]
  IN  [arena EXCEPT ![i + 1] = Branch(Len(arena), {})] \o [k \in 1..8 |-> node]

\* The leaf i becomes a branch of eight leaves like it.
SplitLeaf(arena, i) ==
  LET node == arena[i + 1]
  IN  [arena EXCEPT ![i + 1] = Branch(Len(arena), IF node.of.kind = "air" THEN {} ELSE 0..7)]
        \o [k \in 1..8 |-> node]

Marked(arena, i, k, a) ==
  IF a.kind = "air" THEN arena ELSE [arena EXCEPT ![i + 1] = Branch(@.base, @.mask \cup {k})]

PutVoxel(a) ==
  [arena \in Arenas |-> [i \in Nat |-> [p \in Space |->
     IF arena[i + 1] = Leaf(a) THEN arena ELSE [arena EXCEPT ![i + 1] = Leaf(a)]]]]

PutBelow(a, n, put, arena, i, p) ==
  LET half == SideAt[n - 1]
      k == OctantOf(p, half)
  IN  Collapsed(put[Marked(arena, i, k, a)][arena[i + 1].base + k][Within(p, half)], i)

PutCube(a, n, put) ==
  [arena \in Arenas |-> [i \in Nat |-> [p \in Space |->
     IF ~arena[i + 1].leaf THEN PutBelow(a, n, put, arena, i, p)
     ELSE IF arena[i + 1].of = a THEN arena
     ELSE PutBelow(a, n, put, SplitLeaf(arena, i), i, p)]]]

Put(a) ==
  LET put[n \in 0..Depth] == IF n = 0 THEN PutVoxel(a) ELSE PutCube(a, n, put[n - 1])
  IN  put

Paint(p, a) ==
  /\ form \in {"tree", "edited"} /\ edits < MaxEdits
  /\ nodes' = Put(a)[Depth][nodes][root][p]
  /\ form' = "edited"
  /\ edits' = edits + 1
  /\ shown' = [shown EXCEPT ![p] = a]
  /\ UNCHANGED <<volume, root>>

-----------------------------------------------------------------------------
(* canonicalize(): each block of eight is laid down once, where it is      *)
(* first left, its branches naming what is laid down already.              *)

\* intern()
Interned(out, block, mask) ==
  LET same == {b \in 0..(Len(out) \div 8) : 8 * b + 8 <= Len(out) /\ KidsAt(out, 8 * b) = block}
  IN  IF same # {} THEN [arena |-> out, node |-> Branch(8 * (CHOOSE b \in same : TRUE), mask)]
      ELSE [arena |-> out \o block, node |-> Branch(Len(out), mask)]

ShareVoxel(arena) == [out \in Arenas |-> [i \in Nat |-> [arena |-> out, node |-> arena[i + 1]]]]

ShareCube(arena, share) ==
  [out \in Arenas |-> [i \in Nat |->
     LET node == arena[i + 1]
         eight == Visits(share, out, [k \in 0..7 |-> node.base + k])[8]
     IN  IF node.leaf THEN [arena |-> out, node |-> node]
         ELSE Interned(eight.arena, eight.kids, node.mask)]]

Shared(arena) ==
  LET share[n \in 0..Depth] == IF n = 0 THEN ShareVoxel(arena) ELSE ShareCube(arena, share[n - 1])
  IN  share

(* compress_svdag()                                                        *)
Compress ==
  /\ form \in {"tree", "edited"} /\ form' = "graph"
  /\ LET shared == Shared(nodes)[Depth][<<>>][root]
     IN  Become([nodes |-> Append(shared.arena, shared.node), root |-> Len(shared.arena)])
  /\ UNCHANGED <<volume, edits, shown>>

ArenaNext ==
  \/ Build
  \/ \E hints \in Hints : BuildDirect(hints)
  \/ \E p \in Sites, a \in Paints : Paint(p, a)
  \/ Compress

ArenaSpec == ArenaInit /\ [][ArenaNext]_arenaVars

-----------------------------------------------------------------------------
(* walk() of extract_collision_boxes(): the cubes the player runs into.    *)

Boxed(a, cube) == IF a.kind \in SolidKinds THEN {cube} ELSE {}

WalkVoxel(arena) ==
  [i \in Nat |-> [o \in Space |->
     IF arena[i + 1].leaf THEN Boxed(arena[i + 1].of, CubeAt(o, 0)) ELSE {}]]

WalkCube(arena, n, walk) ==
  [i \in Nat |-> [o \in Space |->
     LET node == arena[i + 1]
     IN  IF node.leaf THEN Boxed(node.of, CubeAt(o, n))
         ELSE UNION {walk[node.base + k][Octant(CubeAt(o, n), k).origin] : k \in node.mask}]]

Walk(arena) ==
  LET walk[n \in 0..Depth] == IF n = 0 THEN WalkVoxel(arena) ELSE WalkCube(arena, n, walk[n - 1])
  IN  walk

SolidCubes == Walk(nodes)[Depth][root][Whole.origin]

\* is_empty()
IsEmpty == IF nodes[root + 1].leaf THEN nodes[root + 1].of.kind = "air" ELSE nodes[root + 1].mask = {}

(* Whatever was done to the arena, a look-up finds at every place what was *)
(* put there last, and the player collides with the solid voxels and no    *)
(* other ("the physical world and the rendered world can never drift       *)
(* apart", collision.rs:4-5).  Until it is edited it is, node by node and  *)
(* whatever a sampler knows in advance, the arena of the exhaustive        *)
(* traversal (build_octree_direct.rs:12-15).                               *)
ArenaShowsVolume ==
  /\ form # "grid" =>
       LET look == Look(nodes)[Depth][root]
           boxes == SolidCubes
       IN  /\ \A p \in Space :
                /\ look[p] = shown[p]
                /\ Cardinality({c \in boxes : InCube(p, c)}) = IF shown[p].kind \in SolidKinds THEN 1 ELSE 0
           /\ IsEmpty <=> \A p \in Space : shown[p].kind = "air"
  /\ form = "tree" => [nodes |-> nodes, root |-> root] = Tree(Samples, {})
=============================================================================
