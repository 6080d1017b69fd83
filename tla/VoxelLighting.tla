----------------------------- MODULE VoxelLighting -----------------------------
(***************************************************************************)
(* The light bake of a chunk's voxels (bake_voxel_lighting/): a search per *)
(* colour of lamp, breadth first from the air below the lamps, then the    *)
(* air is lit by what reaches it and the solids by the air beside them.    *)
(*                                                                         *)
(* Light is the set of what contributes: the kind of lamp and how far, in  *)
(* halves of a voxel, its light has come.                                  *)
(***************************************************************************)
EXTENDS Integers, Sequences, FiniteSets

CONSTANTS
  Rooms,   \* voxel grids: [size, kinds], kinds a function of the voxels
  Reach    \* max_range_world_units, in halves of a voxel

VoxelsOf(size) == (0..(size[1] - 1)) \X (0..(size[2] - 1)) \X (0..(size[3] - 1))

Lamps == <<"light", "red light", "glimmer">>   \* EMISSION_PROFILES
LampKinds == {Lamps[k] : k \in DOMAIN Lamps}
Unreachable == 1000                            \* u32::MAX, beyond any path

ASSUME LightingAssumption ==
  /\ \A r \in Rooms : r.size \in [1..3 -> Nat] /\ DOMAIN r.kinds = VoxelsOf(r.size)
  /\ Reach \in Nat /\ Reach < 2 * Unreachable

VARIABLES
  room, light,
  emissions,        \* distance_steps of the lamps searched so far
  steps, frontier,  \* those of the search that goes on, and its queue
  baking            \* place in bake_voxel_lighting()

lightVars == <<room, light, emissions, steps, frontier, baking>>

Voxels == VoxelsOf(room.size)
IsAir(v) == room.kinds[v] = "air"

LightInit ==
  /\ room \in Rooms
  /\ light = [v \in VoxelsOf(room.size) |-> {}]
  /\ emissions = <<>> /\ steps = <<>> /\ frontier = <<>>
  /\ baking = "clear"

Clear ==
  /\ baking = "clear"
  /\ light' = [v \in Voxels |-> {}]
  /\ baking' = "search"
  /\ UNCHANGED <<room, emissions, steps, frontier>>

-----------------------------------------------------------------------------
(* propagate_through_air()                                                 *)

\* The neighbours of a voxel that share a face with it.
Directions6 == {<<1, 0, 0>>, <<-1, 0, 0>>, <<0, 1, 0>>, <<0, -1, 0>>, <<0, 0, 1>>, <<0, 0, -1>>}
Toward(v, d) == <<v[1] + d[1], v[2] + d[2], v[3] + d[3]>>
Faces(v) == {Toward(v, d) : d \in Directions6} \cap Voxels

\* The air below a lamp of this kind.
Exposed(lamp) ==
  {v \in Voxels : IsAir(v) /\ Toward(v, <<0, 1, 0>>) \in Voxels
                  /\ room.kinds[Toward(v, <<0, 1, 0>>)] = lamp}

\* The centre of the n-th voxel on a path is within the range.
InReach(n) == 2 * n + 1 < Reach

\* The order in which voxels found together are queued makes no difference.
InSomeOrder(found) ==
  CHOOSE s \in [1..Cardinality(found) -> found] : found = {s[k] : k \in DOMAIN s}

BeginSearch ==
  /\ baking = "search" /\ Len(emissions) < Len(Lamps)
  /\ LET seeds == IF InReach(0) THEN Exposed(Lamps[Len(emissions) + 1]) ELSE {}
     IN  /\ steps' = [v \in Voxels |-> IF v \in seeds THEN 0 ELSE Unreachable]
         /\ frontier' = InSomeOrder(seeds)
  /\ baking' = "spread"
  /\ UNCHANGED <<room, light, emissions>>

(* Mutant: light goes on through what it falls on.                         *)
LitThrough(v, next) ==
  {n \in Faces(v) : next < steps[n]}

\* The air beside v that this path is a shorter one to.
Lit(v, next) ==
  {n \in Faces(v) : IsAir(n) /\ next < steps[n]}

Spread ==
  /\ baking = "spread" /\ frontier # <<>>
  /\ LET v == Head(frontier)
         next == steps[v] + 1
         found == IF InReach(next) THEN Lit(v, next) ELSE {}
     IN  /\ steps' = [n \in Voxels |-> IF n \in found THEN next ELSE steps[n]]
         /\ frontier' = Tail(frontier) \o InSomeOrder(found)
  /\ UNCHANGED <<room, light, emissions, baking>>

EndSearch ==
  /\ baking = "spread" /\ frontier = <<>>
  /\ emissions' = Append(emissions, steps)
  /\ baking' = "search"
  /\ UNCHANGED <<room, light, steps, frontier>>

-----------------------------------------------------------------------------
(* accumulate_attenuated() over all lamps, of light that comes n[lamp]     *)
(* steps through air and this many halves of a voxel besides.              *)
Accumulated(n, halves) ==
  {<<Lamps[k], 2 * n[k] + halves>> :
    k \in {l \in DOMAIN n : n[l] # Unreachable /\ 2 * n[l] + halves < Reach}}

WriteAir ==
  /\ baking = "search" /\ Len(emissions) = Len(Lamps)
  /\ light' = [v \in Voxels |->
                IF IsAir(v) THEN Accumulated([k \in DOMAIN Lamps |-> emissions[k][v]], 1)
                ELSE light[v]]
  /\ baking' = "project"
  /\ UNCHANGED <<room, emissions, steps, frontier>>

\* The steps to the nearest air beside a solid.
NearestAir(v, k) ==
  LET beside == {emissions[k][n] : n \in {m \in Faces(v) : IsAir(m)}} \cup {Unreachable}
  IN  CHOOSE d \in beside : \A e \in beside : d <= e

\* A lamp keeps its own light, any other solid is lit by the air beside it.
Project ==
  /\ baking = "project"
  /\ light' = [v \in Voxels |->
                IF IsAir(v) THEN light[v]
                ELSE IF room.kinds[v] \in LampKinds THEN {<<room.kinds[v], 0>>}
                ELSE Accumulated([k \in DOMAIN Lamps |-> NearestAir(v, k)], 2)]
  /\ baking' = "baked"
  /\ UNCHANGED <<room, emissions, steps, frontier>>

LightNext == Clear \/ BeginSearch \/ Spread \/ EndSearch \/ WriteAir \/ Project

LightSpec == LightInit /\ [][LightNext]_lightVars

-----------------------------------------------------------------------------
(* What reaches a voxel, without a search: the air within k faces of the   *)
(* air below a lamp, for every k.                                          *)
AirBeside(S) == {v \in Voxels : IsAir(v) /\ \E n \in Faces(v) : n \in S}
AirWithin(lamp) ==
  LET within[k \in 0..Reach] ==
        IF k = 0 THEN Exposed(lamp) ELSE within[k - 1] \cup AirBeside(within[k - 1])
  IN  within

\* The length of the shortest way through air, if it is within the range.
Shortest(within, v) ==
  LET lengths == {k \in 0..Reach : InReach(k) /\ v \in within[k]}
  IN  IF lengths = {} THEN Unreachable ELSE CHOOSE k \in lengths : \A l \in lengths : k <= l

(* mod.rs:7 and 10: light takes the shortest unobstructed path through     *)
(* air, and "Solids are receivers, never propagation nodes": no search     *)
(* finds a way shorter than there is, nor misses one, and in the end every *)
(* voxel is lit by just what reaches it.                                   *)
LightGoesThroughAir ==
  /\ \A k \in DOMAIN emissions :
       LET within == AirWithin(Lamps[k])
       IN  \A v \in Voxels : emissions[k][v] = Shortest(within, v)
  /\ baking = "spread" =>
       LET within == AirWithin(Lamps[Len(emissions) + 1])
       IN  \A v \in Voxels : steps[v] >= Shortest(within, v)
  /\ baking = "baked" =>
       LET within == [k \in DOMAIN Lamps |-> AirWithin(Lamps[k])]
           Arrives(v, k) == Shortest(within[k], v)
       IN  \A v \in Voxels : room.kinds[v] \notin LampKinds =>
             {c[1] : c \in light[v]} =
               {Lamps[k] : k \in {l \in DOMAIN Lamps :
                  IF IsAir(v) THEN Arrives(v, l) # Unreachable
                  ELSE \E n \in Faces(v) :
                         Arrives(n, l) # Unreachable /\ 2 * Arrives(n, l) + 2 < Reach}}
=============================================================================
