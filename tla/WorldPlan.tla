------------------------------ MODULE WorldPlan ------------------------------
(***************************************************************************)
(* What spans regions: the Red Room events of the macro graph              *)
(* (world_topology.rs) and the anomalies of the macro lattice              *)
(* (anomalies/macro_planner.rs).  Nothing is stored: every region asks     *)
(* again, in any order, and looks at the macro cells around it.  What the  *)
(* hashes and the noise say is the constant Worlds, one of which a         *)
(* behaviour is about.                                                     *)
(*                                                                         *)
(* A unit is 0.1 u.                                                        *)
(***************************************************************************)
EXTENDS Integers, FiniteSets

CONSTANTS
  Worlds,      \* outcomes of seed and configuration, see WorldAssumption
  Regions,     \* regions that may be asked about
  MaxPlans     \* bound on the regions asked

MacroCellSize == 1600
RegionSize == 800
MaxQueryMargin == 4000
Jitter == 240
MaxHalf == 3200      \* of a pillar expanse, at the largest size
KeepOut == 480
ForcedOffset == 100

AnomalyKinds == {"pillars", "blackout", "pits", "archway"}
Point == [x : Int, z : Int]
Shape == [dx : -Jitter..Jitter, dz : -Jitter..Jitter, halfX : 0..MaxHalf, halfZ : 0..MaxHalf,
          turned : BOOLEAN]
NotForced == "none"

MacroCell(p) == [x |-> p.x \div MacroCellSize, z |-> p.z \div MacroCellSize]

\* Where a kind is forced: at the protected point, or just beside it.
Snap(n) == 4 * ((n + 2) \div 4)
Beside(w) == [x |-> Snap(w.protected.x + ForcedOffset), z |-> Snap(w.protected.z)]
ForcedAt(w) == MacroCell(IF w.forced = "archway" THEN Beside(w) ELSE w.protected)

\* score: of the cells that are candidates; target: which of its four regions a
\* cell aims at; family: of the anchors that host an anomaly; shape: of every
\* anchor and kind.
ASSUME WorldAssumption ==
  /\ Regions \subseteq Point /\ MaxPlans \in Nat
  /\ \A w \in Worlds :
       /\ DOMAIN w.score \subseteq Point /\ \A c \in DOMAIN w.score : w.score[c] \in Nat
       /\ \A c \in DOMAIN w.score : w.target[c] \in [x : {0, 1}, z : {0, 1}]
       /\ DOMAIN w.family \subseteq Point
       /\ \A a \in DOMAIN w.family : w.family[a] \in AnomalyKinds /\ w.shape[a][w.family[a]] \in Shape
       /\ w.protected \in Point /\ w.frequent \in BOOLEAN
       /\ w.forced \in AnomalyKinds \cup {NotForced, "red room"}
       /\ w.forced \in AnomalyKinds => w.shape[ForcedAt(w)][w.forced] \in Shape

VARIABLES
  world,
  plans     \* region -> [event, anomalies], for those asked about

planVars == <<world, plans>>

-----------------------------------------------------------------------------
(* Red Room events.                                                        *)

CellOf(region) == [x |-> region.x \div 2, z |-> region.z \div 2]
Adjacent(c, d) == c # d /\ c.x - d.x \in -1..1 /\ c.z - d.z \in -1..1

\* By score, then by coordinates.
Beats(c, d) ==
  \/ world.score[c] < world.score[d]
  \/ world.score[c] = world.score[d] /\ (c.x < d.x \/ (c.x = d.x /\ c.z < d.z))

(* red_room_event_for_cell()                                               *)
Fires(c) ==
  /\ c \in DOMAIN world.score
  /\ \A rival \in DOMAIN world.score : Adjacent(rival, c) => ~Beats(rival, c)

Targeted(c) == [x |-> 2 * c.x + world.target[c].x, z |-> 2 * c.z + world.target[c].z]

(* red_room_event_for_region()                                             *)
EventFor(region) == Fires(CellOf(region)) /\ Targeted(CellOf(region)) = region

-----------------------------------------------------------------------------
(* Anomalies.                                                              *)

Bounds(i) ==
  LET hx == IF i.shape.turned THEN i.shape.halfZ ELSE i.shape.halfX
      hz == IF i.shape.turned THEN i.shape.halfX ELSE i.shape.halfZ
  IN  [minX |-> i.center.x - hx, maxX |-> i.center.x + hx,
       minZ |-> i.center.z - hz, maxZ |-> i.center.z + hz]
Expanded(b, margin) ==
  [minX |-> b.minX - margin, maxX |-> b.maxX + margin,
   minZ |-> b.minZ - margin, maxZ |-> b.maxZ + margin]
Intersects(a, b) ==
  a.minX <= b.maxX /\ a.maxX >= b.minX /\ a.minZ <= b.maxZ /\ a.maxZ >= b.minZ
Contains(b, p) == b.minX <= p.x /\ p.x <= b.maxX /\ b.minZ <= p.z /\ p.z <= b.maxZ

Query(region) ==
  [minX |-> region.x * RegionSize, maxX |-> region.x * RegionSize + RegionSize,
   minZ |-> region.z * RegionSize, maxZ |-> region.z * RegionSize + RegionSize]

(* macro_instance(); its identity is its kind and anchor.                  *)
MacroInstance(a, kind) ==
  LET shape == world.shape[a][kind]
      Middle(n) == n * MacroCellSize + MacroCellSize \div 2
  IN  [kind |-> kind, anchor |-> a, shape |-> shape,
       center |-> [x |-> Middle(a.x) + shape.dx, z |-> Middle(a.z) + shape.dz]]

(* forced_instance(): an archway is moved beside the protected point.      *)
Forced(query) ==
  LET there == MacroInstance(ForcedAt(world), world.forced)
      one == IF world.forced = "archway" THEN [there EXCEPT !.center = Beside(world)] ELSE there
  IN  IF world.forced \in AnomalyKinds
      THEN {i \in {one} : Intersects(Bounds(i), query)} ELSE {}

(* Mutant: the margin is a cell.                                           *)
InNarrowWindow(a, query) ==
  LET seen == Expanded(query, MacroCellSize)
  IN  /\ seen.minX \div MacroCellSize <= a.x /\ a.x <= seen.maxX \div MacroCellSize
      /\ seen.minZ \div MacroCellSize <= a.z /\ a.z <= seen.maxZ \div MacroCellSize

\* The anchors that are looked at for a query.
InWindow(a, query) ==
  LET seen == Expanded(query, MaxQueryMargin)
  IN  /\ seen.minX \div MacroCellSize <= a.x /\ a.x <= seen.maxX \div MacroCellSize
      /\ seen.minZ \div MacroCellSize <= a.z /\ a.z <= seen.maxZ \div MacroCellSize

Organic(query) ==
  {i \in {MacroInstance(a, world.family[a]) : a \in {b \in DOMAIN world.family : InWindow(b, query)}} :
     /\ Intersects(Bounds(i), query)
     /\ ~Contains(Expanded(Bounds(i), KeepOut), world.protected)}

SameId(i, j) == i.kind = j.kind /\ i.anchor = j.anchor

(* plan_anomalies_for_region(): of two with one identity the first stays,  *)
(* which is the forced one.                                                *)
Anomalies(query) ==
  Forced(query) \cup
  (IF world.frequent THEN {i \in Organic(query) : \A f \in Forced(query) : ~SameId(i, f)} ELSE {})

-----------------------------------------------------------------------------
PlanInit == world \in Worlds /\ plans = [r \in {} |-> {}]

PlanRegion(r) ==
  /\ r \in DOMAIN plans \/ Cardinality(DOMAIN plans) < MaxPlans
  /\ plans' = [q \in DOMAIN plans \cup {r} |->
                IF q = r THEN [event |-> EventFor(r), anomalies |-> Anomalies(Query(r))]
                ELSE plans[q]]
  /\ UNCHANGED world

PlanNext == \E r \in Regions : PlanRegion(r)
PlanSpec == PlanInit /\ [][PlanNext]_planVars

-----------------------------------------------------------------------------
(* Moved beside the protected point, the forced archway keeps the identity *)
(* of the anchor, and where it is out of sight the organic archway of that *)
(* anchor has it too.                                                      *)
Usurped(i) ==
  world.forced = "archway" /\ i.kind = "archway" /\ i.anchor = ForcedAt(world)

(* Regions are planned one without the other and fit together.  An anomaly *)
(* of one that reaches into another is in the plan of that one too, the    *)
(* same in every respect, or its columns would end at the border; and one  *)
(* identity is one anomaly ("overlapping region and chunk requests recover *)
(* identical instance IDs, footprints, internal phases, and traversal      *)
(* gates", macro_planner.rs:3-5).  And Red Rooms are rare: two regions     *)
(* with an event have a whole macro cell between them, in x or in z ("at   *)
(* least one full macro cell (160 u) apart", world_topology.rs:200-202),   *)
(* ties among the candidates or not.                                       *)
SharedAnomalies ==
  \A r, q \in DOMAIN plans : \A i \in plans[r].anomalies :
    /\ Intersects(Bounds(i), Query(r))
    /\ Intersects(Bounds(i), Query(q)) /\ ~Usurped(i) => i \in plans[q].anomalies
    /\ \A j \in plans[q].anomalies : SameId(i, j) /\ (r = q \/ ~Usurped(i)) => i = j

RareRedRooms ==
  \A r, q \in DOMAIN plans :
    plans[r].event /\ plans[q].event /\ r # q =>
      ~Intersects(Expanded(Query(r), MacroCellSize - 1), Query(q))

RegionsFitTogether == SharedAnomalies /\ RareRedRooms
=============================================================================
