----------------------------- MODULE MCGeneration -----------------------------
(***************************************************************************)
(* Instances of the stages of generation for TLC, and of rays through what *)
(* was generated.  None reads the state of another, so a behaviour is      *)
(* about one region, one suite, one lattice of modules, the light of one   *)
(* room, the arena of one volume, the surface of one chunk or one ray.     *)
(***************************************************************************)
EXTENDS RegionPlan, SuiteInterior, WaveCollapse, VoxelLighting, SvoArena, SurfaceMesh,
        RayMarch

VARIABLE part   \* what this behaviour is about

\* A straight spine with one branch, and a meandering one whose second bend
\* turns back before the first.
At(x, z) == [x |-> x, z |-> z]
Straight ==
  [path |-> <<At(0, 200), At(200, 200), At(200, 160), At(400, 160)>>, width |-> 28,
   branches |-> {[path |-> <<At(120, 200), At(120, 280)>>, width |-> 20]}]
Meander ==
  [path |-> <<At(0, 160), At(252, 160), At(252, 240), At(244, 240), At(244, 200), At(400, 200)>>,
   width |-> 24, branches |-> {}]
BothSpines == {Straight, Meander}

Small == [minSide |-> 60, maxSide |-> 120, elongation |-> 90,
          doorway |-> "door", renovation |-> "layered"]
Large == [minSide |-> 100, maxSide |-> 170, elongation |-> 0,
          doorway |-> "wide", renovation |-> "untouched"]
TwoDesigners == {Small, Large}
StairAnchor == {At(150, 230)}

Footprint(w, d) == [x0 |-> 0, z0 |-> 0, x1 |-> w, z1 |-> d]
TwoFootprints == {Footprint(120, 86), Footprint(100, 56)}
TwoDepths == {[target |-> 36, depth |-> 2], [target |-> 26, depth |-> 3]}

\* Rooms of two storeys: the upper has a lamp of each kind in opposite corners
\* with air or wall between them, the lower any walls, and in the second family
\* a red lamp on the floor, which lights no air.
Upper(v, between) ==
  CASE v = <<0, 1, 0>> -> "light" [] v = <<3, 1, 1>> -> "glimmer" [] OTHER -> between
Room(walls, between, fixtures) ==
  [size |-> <<4, 2, 2>>,
   kinds |-> [v \in VoxelsOf(<<4, 2, 2>>) |->
               IF v[2] = 1 THEN Upper(v, between)
               ELSE IF v \in fixtures THEN "red light"
               ELSE IF v \in walls THEN "wall" ELSE "air"]]
Floor == {v \in VoxelsOf(<<4, 2, 2>>) : v[2] = 0}
SmallRooms ==
  {Room(walls, "air", {}) : walls \in SUBSET Floor}
    \cup {Room(walls, "wall", {<<1, 0, 1>>}) : walls \in SUBSET (Floor \ {<<1, 0, 1>>})}

\* Volumes that do and do not fill the cube: a floor with a pillar, a periodic
\* pattern whose octants are alike, a solid block, and air that is lit.
Voxel(kind, l) == [kind |-> kind, light |-> l]
Filled3(size, Kind(_)) == [size |-> size, voxels |-> [p \in VoxelsOf(size) |-> Kind(p)]]
Pillar ==
  Filled3(<<3, 4, 4>>,
          LAMBDA p : IF p[2] = 0 THEN Voxel("floor", 1)
                     ELSE IF p[1] = 2 /\ p[3] = 1 THEN Voxel("wall", p[2] \div 2) ELSE Voxel("air", 1))
Lattice ==
  Filled3(<<4, 4, 4>>,
          LAMBDA p : IF (p[1] + p[2] + p[3]) % 2 = 0 THEN Voxel("wall", 0) ELSE Voxel("air", 0))
Block == Filled3(<<4, 2, 4>>, LAMBDA p : Voxel("wall", 0))
LitAir == Filled3(<<4, 4, 2>>, LAMBDA p : Voxel("air", 1))
FourVolumes == {Pillar, Lattice, Block, LitAir}
ThreeSites == {<<0, 0, 0>>, <<1, 0, 0>>, <<2, 3, 3>>}
ThreePaints == {Air, Voxel("wall", 0), Voxel("wall", 1)}

\* solve_plate()'s catalogue, in which a colonnade goes with everything; the
\* ground, horizon and sky of the tests under the names of treatments, which
\* not every height leaves a choice; and modules of which one tolerates itself,
\* but not sideways.
Treatments == {"open", "colonnade", "arcade"}
Lateral == {0, 1, 4, 5}
Gallery(extent) ==
  [extent |-> extent,
   rules |-> {<<p[1], d, p[2]>> : d \in Lateral,
                p \in {<<"open", "open">>, <<"open", "colonnade">>, <<"colonnade", "colonnade">>,
                       <<"colonnade", "arcade">>, <<"arcade", "arcade">>}},
   entropy |-> [m \in SUBSET Treatments |->
                 CASE m = Treatments -> 4 [] m = {"colonnade", "arcade"} -> 3
                   [] m = {"open", "colonnade"} -> 2 [] m = {"open", "arcade"} -> 1 [] OTHER -> 0]]
Strata(extent) ==
  [extent |-> extent,
   rules |-> {<<m, d, m>> : m \in Treatments, d \in Lateral} \cup
             {<<"open", 2, "open">>, <<"open", 2, "colonnade">>,
              <<"colonnade", 2, "arcade">>, <<"arcade", 2, "arcade">>},
   entropy |-> [m \in SUBSET Treatments |->
                 CASE m = Treatments -> 3 [] m = {"open", "arcade"} -> 2 [] OTHER -> 1]]
Loner ==
  [extent |-> <<2, 1, 1>>, rules |-> {<<"open", 2, "open">>}, entropy |-> [m \in SUBSET Treatments |-> 0]]
SixLattices ==
  {Gallery(<<4, 1, 1>>), Gallery(<<2, 1, 2>>), Strata(<<1, 4, 1>>), Strata(<<2, 2, 1>>),
   Strata(<<1, 2, 2>>), Loner}

\* Walls over a floor that is lit at one end, dark in their upper edges at the
\* back, with air or wall beside the chunk or nothing known of it.
Storey(walls, padding, beside) ==
  [size |-> <<3, 2, 2>>, padding |-> padding,
   material |-> [p \in Padded(<<3, 2, 2>>, padding) |->
                  IF p \notin Padded(<<3, 2, 2>>, 0) THEN beside
                  ELSE IF p[2] = 0 THEN "floor" ELSE IF p \in walls THEN "wall" ELSE "air"],
   light |-> [p \in Padded(<<3, 2, 2>>, 0) |-> IF p[2] = 0 /\ p[1] = 2 THEN 1 ELSE 0],
   shade |-> [p \in Padded(<<3, 2, 2>>, 0) |-> IF p[3] = 1 /\ p[2] = 1 THEN {0, 4} ELSE {}]]
OverFloor == {p \in Padded(<<3, 2, 2>>, 0) : p[2] = 1}
Storeys ==
  {Storey(walls, 1, beside) : walls \in SUBSET OverFloor, beside \in {"air", "wall"}}
    \cup {Storey(walls, 0, "air") : walls \in SUBSET OverFloor}

\* Rays through two chunks of different sizes that overlap by a voxel, listed in
\* either order; one chunk of three levels; one that lost the words of a node.
\* A voxel is two units, so the rays start in the middle of voxels, on their
\* faces and edges, inside solids and outside the chunks.
SvoChunk(origin, n, voxelSize, depth, solids) ==
  [origin |-> origin, worldSize |-> n * voxelSize, voxelSize |-> voxelSize, depth |-> depth,
   solids |-> solids, stale |-> {}, lost |-> {}]
Solid(voxels) == [v \in voxels |-> "wall"]
Big(solids) == SvoChunk(<<0, 0, 0>>, 4, 2, 2, solids)
Little(solids) == SvoChunk(<<6, 0, 2>>, 2, 2, 1, solids)

Scattered == Solid({<<0, 0, 0>>, <<3, 1, 2>>, <<2, 2, 2>>})
Ground ==
  [v \in {w \in VoxelsOf(<<4, 4, 4>>) : w[2] = 0} |-> IF v[1] = 1 THEN "floor" ELSE "wall"]
Gap == Solid({w \in VoxelsOf(<<4, 4, 4>>) : w[1] = 3 /\ w[3] # 1})
Corners == Solid({<<0, 0, 0>>, <<1, 1, 1>>})
Full == Solid(VoxelsOf(<<2, 2, 2>>))
Deep == SvoChunk(<<0, 0, 0>>, 8, 1, 3, Solid({<<0, 7, 7>>, <<3, 4, 4>>, <<5, 5, 5>>, <<6, 0, 3>>}))
Damaged ==
  [Big(Scattered) EXCEPT !.lost = {Cube(<<4, 0, 4>>, 4)}, !.stale = {Cube(<<4, 0, 0>>, 4)}]
TenScenes ==
  {<<Big(s), Little(t)>> : s \in {Scattered, Gap, Solid({})}, t \in {Corners, Full}}
    \cup {<<Little(Corners), Big(Ground)>>, <<Little(Full), Big(Scattered)>>, <<Deep>>, <<Damaged>>}

RayDirections ==
  (({-1, 0, 1} \X {-1, 0, 1} \X {-1, 0, 1}) \ {<<0, 0, 0>>})
    \cup {<<2, 1, 0>>, <<-1, -2, 2>>, <<2, 1, -1>>, <<-2, 1, 1>>}
Nothing == [from |-> <<4, 4, 4>>, direction |-> <<1, 0, 0>>, maxT |-> 0]
ManyRays ==
  {Nothing} \cup [from : {<<-1, 1, 5>>, <<4, 4, 4>>, <<3, 5, 7>>, <<9, 1, 3>>, <<8, 0, 3>>},
                  direction : RayDirections, maxT : {3, 20}]
Sound == [steps |-> 32768, frames |-> 8]
SomeLimits == {Sound, [steps |-> 5, frames |-> 8], [steps |-> 32768, frames |-> 1]}

\* The parts that rest do not vary.
OneRegion == circulation = Straight /\ genome = Small /\ forced = FALSE
OneSuite == outline = Footprint(120, 86)
OneLattice == lattice = Loner
OneRoom == room = Room({}, "air", {})
OneVolume == volume = Block
OneChunk == chunk = Storey({}, 0, "air") /\ policy = "exact"
OneRay == scene = <<Deep>> /\ ray = Nothing /\ query = "occluded" /\ limits = Sound

\* The larger suite is by the designer of large rooms, and work runs out on long rays.
Init ==
  /\ part \in {"region", "suite", "wave", "light", "arena", "mesh", "ray"}
  /\ RegionInit /\ (part # "region" => OneRegion)
  /\ InteriorInit /\ (part # "suite" => OneSuite)
  /\ WaveInit /\ (part # "wave" => OneLattice)
  /\ LightInit /\ (part # "light" => OneRoom)
  /\ ArenaInit /\ (part # "arena" => OneVolume)
  /\ MeshInit /\ (part # "mesh" => OneChunk)
  /\ RayInit /\ (part # "ray" => OneRay)
  /\ limits # Sound => ray.maxT = 20
  /\ (outline = Footprint(120, 86)) <=> (rule.depth = 2)
Next ==
  /\ UNCHANGED part
  /\ \/ /\ part = "region" /\ RegionNext
        /\ UNCHANGED <<interiorVars, waveVars, lightVars, arenaVars, meshVars, rayVars>>
     \/ /\ part = "suite" /\ InteriorNext
        /\ UNCHANGED <<regionVars, waveVars, lightVars, arenaVars, meshVars, rayVars>>
     \/ /\ part = "wave" /\ WaveNext
        /\ UNCHANGED <<regionVars, interiorVars, lightVars, arenaVars, meshVars, rayVars>>
     \/ /\ part = "light" /\ LightNext
        /\ UNCHANGED <<regionVars, interiorVars, waveVars, arenaVars, meshVars, rayVars>>
     \/ /\ part = "arena" /\ ArenaNext
        /\ UNCHANGED <<regionVars, interiorVars, waveVars, lightVars, meshVars, rayVars>>
     \/ /\ part = "mesh" /\ MeshNext
        /\ UNCHANGED <<regionVars, interiorVars, waveVars, lightVars, arenaVars, rayVars>>
     \/ /\ part = "ray" /\ RayNext
        /\ UNCHANGED <<regionVars, interiorVars, waveVars, lightVars, arenaVars, meshVars>>
Spec ==
  Init /\ [][Next]_<<regionVars, interiorVars, waveVars, lightVars, arenaVars, meshVars, rayVars, part>>
=============================================================================
