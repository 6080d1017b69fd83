------------------------------ MODULE RegionPlan ------------------------------
(***************************************************************************)
(* The plan of one region (region_plan/): a main spine from the west to    *)
(* the east portal, suites set out along its horizontal legs, then the     *)
(* corruption pass and the stairwell.  The code is one pure function; its  *)
(* steps are actions here and what it hashes is chosen, so a behaviour is  *)
(* the planning of one region for one outcome of the hashes.               *)
(*                                                                         *)
(* A unit is 0.2 u, the half-step of the plan lattice; the region has its  *)
(* lower corner at the origin.  Interiors are in SuiteInterior, ceilings,  *)
(* fixtures and columns are left out.                                      *)
(***************************************************************************)
EXTENDS Integers, Sequences, FiniteSets

CONSTANTS
  Circulations,  \* outcomes of build_corridors: [path, width, branches]
  Genomes,       \* dominant designers
  Rolls,         \* values of a hash, in percent
  Shifts,        \* how far a duplicate is moved
  Anchors        \* anchors of the vertical links that want geometry

Side == 400         \* REGION_SIZE
EdgeMargin == 16
WallT == 2          \* PLAN_WALL_T
MinLeg == 70
StairWidth == 24
StairDepth == 44

Renovations == {"untouched", "partial", "layered"}

ASSUME RegionAssumption ==
  /\ \A g \in Genomes : /\ {g.minSide, g.maxSide, g.elongation} \subseteq Nat
                        /\ g.doorway \in {"door", "open", "wide"}
                        /\ g.renovation \in Renovations
  /\ \A s \in Circulations :
       /\ s.width \in Nat
       /\ s.path \in Seq([x : Int, z : Int]) /\ Len(s.path) > 0
       /\ \A b \in s.branches : b.width \in Nat /\ b.path \in Seq([x : Int, z : Int])
  /\ Rolls \subseteq 0..99 /\ Shifts \subseteq Int
  /\ Anchors \subseteq [x : Int, z : Int]

VARIABLES
  circulation, genome,
  forced,       \* the debug anomaly is a Red Room and this is the spawn region
  stage,
  leg, cursor, side, nextId,   \* the walk along the legs, leg 0 before it
  assemblies, taken,
  abandoned, overlaid, red     \* positions of the assemblies marked so

inputVars == <<circulation, genome, forced>>
walkVars == <<leg, cursor, side, nextId>>
placed == <<assemblies, taken>>
marks == <<abandoned, overlaid, red>>
regionVars == <<inputVars, stage, walkVars, placed, marks>>

-----------------------------------------------------------------------------
(* Geometry                                                                *)

\* Nearest point of the 0.4 u lattice to n/m.
Snap(n, m) == 2 * ((n + m) \div (2 * m))
Clamp(n, low, high) == IF n < low THEN low ELSE IF n > high THEN high ELSE n
Sq(n) == n * n

Rect(x, z, w, d) == [x0 |-> x, z0 |-> z, x1 |-> x + w, z1 |-> z + d]

Overlap(a, b, gap) ==
  /\ a.x0 < b.x1 + gap /\ b.x0 < a.x1 + gap
  /\ a.z0 < b.z1 + gap /\ b.z0 < a.z1 + gap

InRegion(b) ==
  /\ b.x0 >= EdgeMargin /\ b.x1 <= Side - EdgeMargin
  /\ b.z0 >= EdgeMargin /\ b.z1 <= Side - EdgeMargin

Main == [path |-> circulation.path, width |-> circulation.width]
Spines == {Main} \cup circulation.branches

\* How far v is from the interval between a and b.
Off(v, a, b) ==
  LET low == IF a < b THEN a ELSE b
      high == IF a < b THEN b ELSE a
  IN  IF v < low THEN low - v ELSE IF v > high THEN v - high ELSE 0

\* 16 times the square of the distance from a point to the i-th segment.
Apart16(s, i, x, z) ==
  16 * (Sq(Off(x, s.path[i].x, s.path[i + 1].x)) + Sq(Off(z, s.path[i].z, s.path[i + 1].z)))

Segments(s) == 1..(Len(s.path) - 1)

\* A corridor, its wall included, is at the door (0.05 u of tolerance).
Reaches(door) ==
  \E s \in Spines : \E i \in Segments(s) :
    Apart16(s, i, door.x, door.z) <= Sq(2 * s.width + 4 * WallT + 1)

\* A corridor comes near the centre of the footprint.
Swallows(b, w, d) ==
  \E s \in Spines : \E i \in Segments(s) :
    Apart16(s, i, (b.x0 + b.x1) \div 2, (b.z0 + b.z1) \div 2)
      < Sq(2 * s.width + (IF w < d THEN w ELSE d))

(* The horizontal legs of the main spine that are long enough to host.     *)
Stretch(i) ==
  LET p == circulation.path
      from == IF p[i].x < p[i + 1].x THEN p[i].x ELSE p[i + 1].x
  IN  [x0 |-> from, x1 |-> p[i].x + p[i + 1].x - from, z |-> p[i].z]

IsLevel(i) == circulation.path[i].z = circulation.path[i + 1].z

Legs == {i \in Segments(Main) : IsLevel(i) /\ Stretch(i).x1 - Stretch(i).x0 >= MinLeg}

RegionInit ==
  /\ circulation \in Circulations /\ genome \in Genomes /\ forced \in BOOLEAN
  /\ stage = "legs"
  /\ leg = 0 /\ cursor = 0 /\ side = 1 /\ nextId = 0
  /\ assemblies = <<>> /\ taken = {}
  /\ abandoned = {} /\ overlaid = {} /\ red = {}

-----------------------------------------------------------------------------
(* Suites along the legs                                                   *)

(* threshold and clear width of the entrance, for a roll.                  *)
Doorway(t) ==
  LET framed == [door |-> 14, open |-> 8, wide |-> 10][genome.doorway]
      plain == [door |-> 50, open |-> 62, wide |-> 50][genome.doorway]
  IN  IF t < framed THEN 6 ELSE IF t < plain THEN 24 ELSE 18

(* The z where a mass of depth d beside a corridor starts.                 *)
Beside(z, width, d, s) ==
  LET half == width \div 2 + WallT \div 2
  IN  IF s = 1 THEN z + half ELSE z - half - d

(* Width and depth of a suite, snapped to the lattice.                     *)
SuiteWidth(a) ==
  Snap(Clamp(100 * genome.minSide + (genome.maxSide - genome.minSide) * a, 6000, 12000), 100)
SuiteDepth(w) == Snap(Clamp(w * (7200 - 28 * genome.elongation), 400000, 900000), 10000)

\* The x of its entrance.
EntranceAt(x0, w, t) ==
  LET edge == Doorway(t) \div 2 + 4
  IN  Snap(Clamp(200 * x0 + w * (50 + t), 200 * (x0 + edge), 200 * (x0 + w - edge)), 200)

Built(id, kind, b, x, s, l) ==
  [id |-> id, kind |-> kind, box |-> b, end |-> l.x1, moved |-> 0,
   door |-> [x |-> x, z |-> IF s = 1 THEN b.z0 ELSE b.z1]]

(* place_suite(), before its checks: rolls a and t, from x along the leg l, *)
(* on its side s.                                                           *)
Suite(id, a, t, x, l, s) ==
  LET w == SuiteWidth(a)
      d == SuiteDepth(w)
      b == Rect(Snap(x, 1), Beside(l.z, circulation.width, d, s), w, d)
  IN  Built(id, "suite", b, EntranceAt(b.x0, w, t), s, l)

(* The checks of place_suite() and place_stairwell().                      *)
Fits(b) ==
  /\ InRegion(b)
  /\ \A t \in taken : ~Overlap(t, b, 4)
  /\ ~Swallows(b, b.x1 - b.x0, b.z1 - b.z0)

(* Mutant: the copy is not recorded as taken.                              *)
PlaceUnrecorded(a) ==
  /\ assemblies' = Append(assemblies, a)
  /\ taken' = IF a.moved # 0 THEN taken ELSE taken \cup {a.box}

Place(a) ==
  /\ assemblies' = Append(assemblies, a)
  /\ taken' = taken \cup {a.box}

WalkDone == leg # 0 => cursor >= Stretch(leg).x1 - 60

\* The leg after the one walked, if there is one.
NextLeg == {i \in Legs : i > leg /\ \A j \in Legs : j <= leg \/ i <= j}

EnterLeg(i, s) ==
  /\ stage = "legs" /\ WalkDone /\ i \in NextLeg
  /\ leg' = i
  /\ cursor' = Stretch(i).x0 + 20
  /\ side' = s
  /\ UNCHANGED <<inputVars, stage, nextId, placed, marks>>

Advance(from, t) ==
  /\ cursor' = from + 40 + (2 * t) \div 5
  /\ side' = -side
  /\ nextId' = nextId + 1
  /\ UNCHANGED <<inputVars, stage, leg, marks>>

SetOutSuite(a, t) ==
  LET new == Suite(nextId, a, t, cursor, Stretch(leg), side)
  IN  /\ stage = "legs" /\ ~WalkDone
      /\ Fits(new.box)
      /\ Place(new)
      /\ Advance(cursor + new.box.x1 - new.box.x0, t)

\* By the roll for this stretch, or because nothing fits.
LeaveExposed(t) ==
  /\ stage = "legs" /\ ~WalkDone
  /\ Advance(cursor, t)
  /\ UNCHANGED placed

\* corrupt() returns at once from a plan without assemblies.
LeaveLegs ==
  /\ stage = "legs" /\ WalkDone /\ NextLeg = {}
  /\ stage' = IF assemblies = <<>> THEN "stairs" ELSE "duplicate"
  /\ UNCHANGED <<inputVars, walkVars, placed, marks>>

-----------------------------------------------------------------------------
(* The corruption pass                                                     *)

(* duplicate_suite_candidate(), before its checks.                         *)
Shifted(b, shift) ==
  [x0 |-> b.x0 + shift, z0 |-> b.z0, x1 |-> b.x1 + shift, z1 |-> b.z1]
Copy(a, shift) ==
  [id |-> Len(assemblies) + 1000, kind |-> a.kind, box |-> Shifted(a.box, shift),
   end |-> a.end, moved |-> shift,
   door |-> [x |-> a.door.x + shift, z |-> a.door.z]]

(* Mutant: the copy may be sealed away from every corridor.                *)
CopyFitsSomewhere(c) ==
  /\ c.box.x0 > EdgeMargin /\ c.box.x1 < Side - EdgeMargin
  /\ c.box.z0 > EdgeMargin /\ c.box.z1 < Side - EdgeMargin
  /\ \A t \in taken : ~Overlap(t, c.box, 2)

CopyFits(c) ==
  /\ c.box.x0 > EdgeMargin /\ c.box.x1 < Side - EdgeMargin
  /\ c.box.z0 > EdgeMargin /\ c.box.z1 < Side - EdgeMargin
  /\ Reaches(c.door)
  /\ \A t \in taken : ~Overlap(t, c.box, 2)

Duplicate(k, shift) ==
  /\ stage = "duplicate"
  /\ CopyFits(Copy(assemblies[k], shift))
  /\ Place(Copy(assemblies[k], shift))
  /\ stage' = "abandon"
  /\ UNCHANGED <<inputVars, walkVars, marks>>

\* Not rolled, or it does not fit.
NoDuplicate ==
  /\ stage = "duplicate" /\ stage' = "abandon"
  /\ UNCHANGED <<inputVars, walkVars, placed, marks>>

(* abandon_assembly() for the one picked, if the roll asks for it.         *)
Abandon(ks) ==
  /\ stage = "abandon" /\ stage' = "renovate"
  /\ Cardinality(ks) <= 1
  /\ abandoned' = ks
  /\ UNCHANGED <<inputVars, walkVars, placed, overlaid, red>>

(* apply_renovation_history(): none, one, or two distinct ones if there are *)
(* two.                                                                     *)
Renovate(ks) ==
  /\ stage = "renovate" /\ stage' = "redden"
  /\ Cardinality(ks) =
       CASE genome.renovation = "untouched" -> 0
         [] genome.renovation = "partial" -> 1
         [] OTHER -> IF Len(assemblies) > 1 THEN 2 ELSE 1
  /\ overlaid' = ks
  /\ UNCHANGED <<inputVars, walkVars, placed, abandoned, red>>

Lived == DOMAIN assemblies \ abandoned

(* The first lived-in assembly from start on, around the end.              *)
FirstLived(start) ==
  LET Turn(k) == IF k < start THEN k + Len(assemblies) - start ELSE k - start
  IN  {k \in Lived : \A j \in Lived : Turn(k) <= Turn(j)}

\* The first level segment of the main spine, if there is one.
FirstLevel ==
  {i \in Segments(Main) : IsLevel(i) /\ \A j \in Segments(Main) : IsLevel(j) => i <= j}

\* The suite forced into a region without a lived-in one.
ForcedSuite(i) ==
  Suite(9999, 50, 50, Stretch(i).x0 + 60, Stretch(i), 1)

(* force_red_room_in_spawn_region(), where it succeeds.                    *)
ForceRedRoom ==
  /\ stage = "redden" /\ stage' = "stairs"
  /\ forced
  /\ \/ Lived # {} /\ red' = FirstLived(1) /\ UNCHANGED placed
     \/ /\ Lived = {}
        /\ \E i \in FirstLevel : Fits(ForcedSuite(i).box) /\ Place(ForcedSuite(i))
        /\ red' = {Len(assemblies) + 1}
  /\ UNCHANGED <<inputVars, walkVars, abandoned, overlaid>>

CanForce ==
  forced /\ (Lived # {} \/ \E i \in FirstLevel : Fits(ForcedSuite(i).box))

(* realize_red_room_event(): an event targets the region or not.           *)
RealizeRedRoom(start) ==
  /\ stage = "redden" /\ stage' = "stairs"
  /\ ~CanForce
  /\ red' = FirstLived(start)
  /\ UNCHANGED <<inputVars, walkVars, placed, abandoned, overlaid>>

NoRedRoom ==
  /\ stage = "redden" /\ stage' = "stairs"
  /\ ~CanForce
  /\ UNCHANGED <<inputVars, walkVars, placed, marks>>

-----------------------------------------------------------------------------
(* The stairwell                                                           *)

Far(a, b) == IF a < b THEN b - a ELSE a - b

\* The leg whose axis passes closest to the anchor, the first of those.
HostLeg(anchor) ==
  {k \in Legs : \A j \in Legs :
    /\ Far(anchor.z, Stretch(k).z) <= Far(anchor.z, Stretch(j).z)
    /\ j < k => Far(anchor.z, Stretch(k).z) < Far(anchor.z, Stretch(j).z)}

(* place_stairwell() on the leg l, before its checks.                      *)
Stair(anchor, l) ==
  LET s == IF anchor.z >= l.z THEN 1 ELSE -1
      x == Snap(Clamp(anchor.x - StairWidth \div 2, l.x0 + 20, l.x1 - StairWidth - 20), 1)
      b == Rect(x, Beside(l.z, circulation.width, StairDepth, s), StairWidth, StairDepth)
  IN  Built(nextId + 2000, "stair", b, Snap(x + StairWidth \div 2, 1), s, l)

PlaceStair(anchor) ==
  /\ stage = "stairs" /\ stage' = "done"
  /\ \E k \in HostLeg(anchor) :
       Fits(Stair(anchor, Stretch(k)).box) /\ Place(Stair(anchor, Stretch(k)))
  /\ UNCHANGED <<inputVars, walkVars, marks>>

NoStair ==
  /\ stage = "stairs" /\ stage' = "done"
  /\ UNCHANGED <<inputVars, walkVars, placed, marks>>

RegionNext ==
  \/ \E i \in Segments(Main), s \in {1, -1} : EnterLeg(i, s)
  \/ \E a, t \in Rolls : SetOutSuite(a, t)
  \/ \E t \in Rolls : LeaveExposed(t)
  \/ LeaveLegs
  \/ \E k \in DOMAIN assemblies, shift \in Shifts : Duplicate(k, shift)
  \/ NoDuplicate
  \/ \E ks \in SUBSET (DOMAIN assemblies) : Abandon(ks) \/ Renovate(ks)
  \/ ForceRedRoom
  \/ \E k \in DOMAIN assemblies : RealizeRedRoom(k)
  \/ NoRedRoom
  \/ \E anchor \in Anchors : PlaceStair(anchor)
  \/ NoStair

RegionSpec == RegionInit /\ [][RegionNext]_regionVars

-----------------------------------------------------------------------------
(* No two of the assemblies overlap and none leaves the region, whichever  *)
(* of the four passes placed it.                                           *)
AssembliesApart ==
  /\ \A i, j \in DOMAIN assemblies :
       i < j => ~Overlap(assemblies[i].box, assemblies[j].box, 2)
  /\ \A i \in DOMAIN assemblies : InRegion(assemblies[i].box)

(* An entrance that reaches no corridor is the threshold of a suite that   *)
(* hangs past the end of its leg; copies and stairs always open onto one.  *)
SealedOnlyPastBends ==
  \A i \in DOMAIN assemblies :
    LET a == assemblies[i]
    IN  ~Reaches(a.door) => a.kind = "suite" /\ a.moved = 0 /\ a.door.x > a.end

(* There is at most one Red Room, nobody abandoned it, and no pass of the  *)
(* corruption touches a stair core.  A Red Room that is forced exists once  *)
(* the corruption has run, unless every suite was left by its people.      *)
RedRoomsAreLived ==
  /\ \A i, j \in red : i = j
  /\ red \cap abandoned = {}
  /\ \A i \in red \cup abandoned \cup overlaid : assemblies[i].kind = "suite"
  /\ forced /\ stage \in {"stairs", "done"} =>
       red # {} \/ \A i \in Lived : assemblies[i].kind = "stair"
=============================================================================
