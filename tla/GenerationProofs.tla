--------------------------- MODULE GenerationProofs ---------------------------
(***************************************************************************)
(* Proofs about what generation makes: RegionPlan, for any spines,         *)
(* designers, hashes and anchors, SuiteInterior, for any footprints and    *)
(* subdivision rules, WaveCollapse, for any catalogue and any lattice,     *)
(* VoxelLighting, for any grid of voxels and any lamps in it, and          *)
(* SurfaceMesh, for chunks of any size.                                    *)
(***************************************************************************)
EXTENDS RegionPlan, SuiteInterior, WaveCollapse, VoxelLighting, SurfaceMesh, TLAPS,
        SequenceTheorems, FiniteSetTheorems, WellFoundedInduction

-----------------------------------------------------------------------------
(* The plan of a region.                                                   *)

Plot == [x0 : Int, z0 : Int, x1 : Int, z1 : Int]
Point == [x : Int, z : Int]
Assembly == [id : Int, box : Plot, door : Point, kind : {"suite", "stair"},
             end : Int, moved : Int]
Stretches == [x0 : Int, x1 : Int, z : Int]
RegionStages == {"legs", "duplicate", "abandon", "renovate", "redden", "stairs", "done"}

RegionTypeOK ==
  /\ circulation \in Circulations /\ genome \in Genomes /\ forced \in BOOLEAN
  /\ stage \in RegionStages
  /\ leg \in {0} \cup Segments(Main)
  /\ cursor \in Int /\ side \in {1, -1} /\ nextId \in Int
  /\ assemblies \in Seq(Assembly)

\* What is placed is taken, and marks are on assemblies; only the last pass
\* places a stair, and nothing is red before the event.
Recorded ==
  /\ \A i \in DOMAIN assemblies : assemblies[i].box \in taken
  /\ abandoned \cup overlaid \cup red \subseteq DOMAIN assemblies
  /\ stage \notin {"stairs", "done"} => red = {}
  /\ stage # "done" => \A i \in DOMAIN assemblies : assemblies[i].kind = "suite"

RegionInductive == RegionTypeOK /\ Recorded /\ AssembliesApart /\ RedRoomsAreLived

-----------------------------------------------------------------------------
(* A set of naturals that is not empty has a least element.                *)
LEMMA Least ==
  ASSUME NEW T, T \subseteq Nat, T # {}
  PROVE  \E x \in T : \A y \in T : x <= y
<1> DEFINE R == {p \in Nat \X Nat : p[1] < p[2]}
<1>1. IsWellFoundedOn(R, Nat)
  BY NatLessThanWellFounded DEF OpToRel
<1>2. \A x, y \in Nat : <<y, x>> \in R <=> y < x
  OBVIOUS
<1> HIDE DEF R
<1>3. \E x \in T : \A y \in T : ~(<<y, x>> \in R)
  BY <1>1, WFMin
<1>4. \A x, y \in Nat : ~(y < x) => x <= y
  OBVIOUS
<1> QED
  BY <1>2, <1>3, <1>4, Zenon

(* Snapping gives a whole number.                                          *)
LEMMA SnapInt ==
  ASSUME NEW n \in Int, NEW m \in Nat \ {0}
  PROVE  Snap(n, m) \in Int
  BY DEF Snap

\* What is clamped to whole numbers is one.
LEMMA ClampInt ==
  ASSUME NEW n \in Int, NEW low \in Int, NEW high \in Int
  PROVE  Clamp(n, low, high) \in Int
  BY DEF Clamp

(* Segments of the main spine lie between integral points.                 *)
LEMMA PathTyped ==
  ASSUME NEW S, NEW p \in Seq(S), NEW i \in 1..(Len(p) - 1)
  PROVE  p[i] \in S /\ p[i + 1] \in S
  OBVIOUS

\* A segment of the spine is a stretch.
LEMMA StretchTyped ==
  ASSUME circulation \in Circulations, NEW i \in Segments(Main)
  PROVE  Stretch(i) \in Stretches
<1>1. circulation.path \in Seq(Point)
  BY RegionAssumption DEF Point
<1>2. i \in 1..(Len(circulation.path) - 1)
  BY DEF Segments, Main
<1>3. circulation.path[i] \in Point /\ circulation.path[i + 1] \in Point
  BY <1>1, <1>2, PathTyped
<1> QED
  BY <1>3 DEF Stretch, Stretches, Point

\* The place beside a corridor is a whole number.
LEMMA BesideInt ==
  ASSUME NEW z \in Int, NEW w \in Nat, NEW d \in Int, NEW s
  PROVE  Beside(z, w, d, s) \in Int
  BY DEF Beside, WallT

(* Sizes and entrances of suites are whole numbers, whatever the hashes.   *)
LEMMA WidthInt ==
  ASSUME genome \in Genomes, NEW a \in Int
  PROVE  SuiteWidth(a) \in Int
<1>1. genome.minSide \in Nat /\ genome.maxSide \in Nat
  BY RegionAssumption
<1>2. 100 * genome.minSide + (genome.maxSide - genome.minSide) * a \in Int
  BY <1>1
<1>3. Clamp(100 * genome.minSide + (genome.maxSide - genome.minSide) * a, 6000, 12000) \in Int
  BY <1>2, ClampInt, SMT
<1> QED
  BY <1>3, SnapInt, SMT DEF SuiteWidth

\* The depth of a suite is a whole number.
LEMMA DepthInt ==
  ASSUME genome \in Genomes, NEW w \in Int
  PROVE  SuiteDepth(w) \in Int
<1> DEFINE n == w * (7200 - 28 * genome.elongation)
<1>1. genome.elongation \in Nat
  BY RegionAssumption
<1>2. n \in Int
  BY <1>1, SMT
<1> HIDE DEF n
<1>3. Clamp(n, 400000, 900000) \in Int
  BY <1>2, ClampInt, SMT
<1>4. Snap(Clamp(n, 400000, 900000), 10000) \in Int
  BY <1>3, SnapInt, SMT
<1> QED
  BY <1>4, SMT DEF SuiteDepth, n

\* The place of an entrance is a whole number.
LEMMA EntranceInt ==
  ASSUME NEW x0 \in Int, NEW w \in Int, NEW t \in Int
  PROVE  EntranceAt(x0, w, t) \in Int
<1> DEFINE edge == Doorway(t) \div 2 + 4
<1>1. Doorway(t) \in {6, 18, 24}
  BY DEF Doorway
<1>2. edge \in Int
  BY <1>1
<1> HIDE DEF edge
<1>3. /\ 200 * x0 + w * (50 + t) \in Int
      /\ 200 * (x0 + edge) \in Int
      /\ 200 * (x0 + w - edge) \in Int
  BY <1>2
<1>4. Clamp(200 * x0 + w * (50 + t), 200 * (x0 + edge), 200 * (x0 + w - edge)) \in Int
  BY <1>3, ClampInt
<1> QED
  BY <1>4, SnapInt DEF EntranceAt, edge

\* A rectangle of whole numbers is a plot.
LEMMA RectTyped ==
  ASSUME NEW x \in Int, NEW z \in Int, NEW w \in Int, NEW d \in Int
  PROVE  Rect(x, z, w, d) \in Plot
  BY DEF Rect, Plot

\* What is built on a plot is an assembly.
LEMMA BuiltTyped ==
  ASSUME NEW id \in Int, NEW kind \in {"suite", "stair"}, NEW b \in Plot,
         NEW x \in Int, NEW s, NEW l \in Stretches
  PROVE  Built(id, kind, b, x, s, l) \in Assembly
  BY DEF Built, Assembly, Plot, Point, Stretches

(* Whatever the hashes, a suite is a suite with an integral footprint.     *)
LEMMA SuiteTyped ==
  ASSUME circulation \in Circulations, genome \in Genomes,
         NEW id \in Int, NEW a \in Int, NEW t \in Int, NEW x \in Int,
         NEW l \in Stretches, NEW s
  PROVE  /\ Suite(id, a, t, x, l, s) \in Assembly
         /\ Suite(id, a, t, x, l, s).kind = "suite"
<1> DEFINE w == SuiteWidth(a)
           d == SuiteDepth(w)
           z == Beside(l.z, circulation.width, d, s)
           b == Rect(Snap(x, 1), z, w, d)
<1>1. w \in Int
  BY WidthInt
<1>2. d \in Int
  BY <1>1, DepthInt
<1>3. circulation.width \in Nat /\ l.z \in Int
  BY RegionAssumption DEF Stretches
<1>4. z \in Int
  BY <1>2, <1>3, BesideInt
<1>5. Snap(x, 1) \in Int
  BY SnapInt
<1>6. b \in Plot /\ b.x0 = Snap(x, 1)
  BY <1>1, <1>2, <1>4, <1>5, RectTyped DEF Rect
<1>7. EntranceAt(b.x0, w, t) \in Int
  BY <1>1, <1>5, <1>6, EntranceInt
<1>8. Suite(id, a, t, x, l, s) = Built(id, "suite", b, EntranceAt(b.x0, w, t), s, l)
  BY DEF Suite
<1> HIDE DEF b, w
<1>9. Built(id, "suite", b, EntranceAt(b.x0, w, t), s, l).kind = "suite"
  BY DEF Built
<1> QED
  BY <1>6, <1>7, <1>8, <1>9, BuiltTyped

(* So is a stair.                                                          *)
LEMMA StairTyped ==
  ASSUME circulation \in Circulations, nextId \in Int,
         NEW anchor \in Anchors, NEW l \in Stretches
  PROVE  Stair(anchor, l) \in Assembly /\ Stair(anchor, l).kind = "stair"
<1> DEFINE s == IF anchor.z >= l.z THEN 1 ELSE -1
           x == Snap(Clamp(anchor.x - StairWidth \div 2, l.x0 + 20, l.x1 - StairWidth - 20), 1)
           z == Beside(l.z, circulation.width, StairDepth, s)
           b == Rect(x, z, StairWidth, StairDepth)
<1>1. circulation.width \in Nat /\ anchor.x \in Int /\ anchor.z \in Int
  BY RegionAssumption
<1>2. l.x0 \in Int /\ l.x1 \in Int /\ l.z \in Int
  BY DEF Stretches
<1>3. x \in Int
  <2> DEFINE at == anchor.x - StairWidth \div 2
             low == l.x0 + 20
             high == l.x1 - StairWidth - 20
  <2>1. at \in Int /\ low \in Int /\ high \in Int
    BY <1>1, <1>2 DEF StairWidth
  <2> HIDE DEF at, low, high
  <2>2. Clamp(at, low, high) \in Int
    BY <2>1, ClampInt
  <2>3. Snap(Clamp(at, low, high), 1) \in Int
    BY <2>2, SnapInt
  <2> QED
    BY <2>3 DEF at, low, high
<1>4. StairWidth \in Int /\ StairDepth \in Int
  BY DEF StairWidth, StairDepth
<1>5. z \in Int
  BY <1>1, <1>2, <1>4, BesideInt
<1>6. b \in Plot
  BY <1>3, <1>4, <1>5, RectTyped
<1> HIDE DEF x
<1>7. x + StairWidth \div 2 \in Int
  BY <1>3 DEF StairWidth
<1>8. Snap(x + StairWidth \div 2, 1) \in Int
  BY <1>7, SnapInt
<1>9. nextId + 2000 \in Int
  OBVIOUS
<1>10. Stair(anchor, l) = Built(nextId + 2000, "stair", b, Snap(x + StairWidth \div 2, 1), s, l)
  BY DEF Stair, x
<1> HIDE DEF b, s
<1>11. Built(nextId + 2000, "stair", b, Snap(x + StairWidth \div 2, 1), s, l).kind = "stair"
  BY DEF Built
<1> QED
  BY <1>6, <1>8, <1>9, <1>10, <1>11, BuiltTyped

(* A copy keeps its type and kind.                                         *)
LEMMA CopyTyped ==
  ASSUME assemblies \in Seq(Assembly), NEW a \in Assembly, NEW shift \in Int
  PROVE  Copy(a, shift) \in Assembly /\ Copy(a, shift).kind = a.kind
<1>1. Len(assemblies) + 1000 \in Int
  OBVIOUS
<1>2. a.box \in Plot /\ a.door \in Point /\ a.end \in Int /\ a.kind \in {"suite", "stair"}
  BY DEF Assembly
<1>3. Shifted(a.box, shift) \in Plot
  BY <1>2 DEF Plot, Shifted
<1>4. [x |-> a.door.x + shift, z |-> a.door.z] \in Point
  BY <1>2 DEF Point
<1> QED
  BY <1>1, <1>2, <1>3, <1>4 DEF Copy, Assembly

-----------------------------------------------------------------------------
(* What is clear of a box by 0.8 u is clear of it by 0.4 u.                *)
LEMMA WiderGap ==
  ASSUME NEW a \in Plot, NEW b \in Plot, ~Overlap(a, b, 4)
  PROVE  ~Overlap(a, b, 2)
  BY DEF Overlap, Plot

\* A box that was found clear is appended and recorded.
Appended(a) ==
  /\ Len(assemblies') = Len(assemblies) + 1
  /\ DOMAIN assemblies' = DOMAIN assemblies \cup {Len(assemblies) + 1}
  /\ \A i \in DOMAIN assemblies : assemblies'[i] = assemblies[i]
  /\ assemblies'[Len(assemblies) + 1] = a

(* Placing what is clear of the boxes taken keeps the assemblies apart and *)
(* recorded, and moves no assembly.                                        *)
LEMMA Placing ==
  ASSUME assemblies \in Seq(Assembly),
         \A i \in DOMAIN assemblies : assemblies[i].box \in taken,
         AssembliesApart,
         NEW a \in Assembly, InRegion(a.box),
         \A i \in DOMAIN assemblies : ~Overlap(assemblies[i].box, a.box, 2),
         Place(a)
  PROVE  /\ assemblies' \in Seq(Assembly)
         /\ Appended(a)
         /\ \A i \in DOMAIN assemblies' : assemblies'[i].box \in taken'
         /\ AssembliesApart'
<1> DEFINE n == Len(assemblies) + 1
<1>1. assemblies' = Append(assemblies, a) /\ taken' = taken \cup {a.box}
  BY DEF Place
<1>2. assemblies' \in Seq(Assembly)
  BY <1>1
<1>3. Appended(a)
  BY <1>1 DEF Appended
<1>4. \A i \in DOMAIN assemblies' : i # n => i \in DOMAIN assemblies
  BY <1>3 DEF Appended
<1>5. DOMAIN assemblies = 1..Len(assemblies) /\ n \in Nat /\ Len(assemblies) \in Nat
  OBVIOUS
<1>6. \A i \in DOMAIN assemblies' : assemblies'[i].box \in taken'
  BY <1>1, <1>3, <1>4, Zenon DEF Appended
<1>7. \A i \in DOMAIN assemblies' : InRegion(assemblies'[i].box)
  BY <1>3, <1>4, Zenon DEF Appended, AssembliesApart
<1>8. ASSUME NEW i \in DOMAIN assemblies', NEW j \in DOMAIN assemblies', i < j
      PROVE  ~Overlap(assemblies'[i].box, assemblies'[j].box, 2)
  <2>1. i \in DOMAIN assemblies
    <3>1. i # n
      BY <1>3, <1>5, <1>8 DEF Appended
    <3> QED
      BY <1>4, <3>1, Zenon
  <2>2. CASE j = n
    BY <1>3, <2>1, <2>2, Zenon DEF Appended
  <2>3. CASE j # n
    <3>1. j \in DOMAIN assemblies
      BY <1>4, <2>3, Zenon
    <3> QED
      BY <1>3, <1>8, <2>1, <3>1, Zenon DEF Appended, AssembliesApart
  <2> QED
    BY <2>2, <2>3
<1>9. AssembliesApart'
  BY <1>7, <1>8, Zenon DEF AssembliesApart
<1> QED
  BY <1>2, <1>3, <1>6, <1>9

(* The checks of suites and stairs keep them clear of every assembly.      *)
LEMMA FitsClear ==
  ASSUME assemblies \in Seq(Assembly),
         \A i \in DOMAIN assemblies : assemblies[i].box \in taken,
         NEW b \in Plot, Fits(b)
  PROVE  /\ InRegion(b)
         /\ \A i \in DOMAIN assemblies : ~Overlap(assemblies[i].box, b, 2)
<1>1. \A i \in DOMAIN assemblies : assemblies[i] \in Assembly
  OBVIOUS
<1>2. \A i \in DOMAIN assemblies : assemblies[i].box \in Plot
  BY <1>1 DEF Assembly
<1>3. InRegion(b) /\ \A t \in taken : ~Overlap(t, b, 4)
  BY Zenon DEF Fits
<1>4. ASSUME NEW i \in DOMAIN assemblies
      PROVE  ~Overlap(assemblies[i].box, b, 2)
  <2>1. ~Overlap(assemblies[i].box, b, 4)
    BY <1>3, Zenon
  <2> QED
    BY <1>2, <2>1, WiderGap, Zenon
<1> QED
  BY <1>3, <1>4

(* So does the check of a copy, whose margins are strict.                  *)
LEMMA CopyClear ==
  ASSUME assemblies \in Seq(Assembly),
         \A i \in DOMAIN assemblies : assemblies[i].box \in taken,
         NEW c \in Assembly, CopyFits(c)
  PROVE  /\ InRegion(c.box)
         /\ \A i \in DOMAIN assemblies : ~Overlap(assemblies[i].box, c.box, 2)
<1>1. InRegion(c.box)
  BY DEF CopyFits, InRegion, EdgeMargin, Side, Assembly, Plot
<1>2. \A t \in taken : ~Overlap(t, c.box, 2)
  BY DEF CopyFits
<1> QED
  BY <1>1, <1>2, Zenon

(* Of the lived-in assemblies one is first in the turn from any of them.   *)
LEMMA FirstIsUnique ==
  ASSUME assemblies \in Seq(Assembly), NEW start \in 1..Len(assemblies),
         NEW i \in FirstLived(start), NEW j \in FirstLived(start)
  PROVE  i = j
<1> DEFINE Behind(k) == IF k < start THEN k + Len(assemblies) - start ELSE k - start
<1>1. i \in 1..Len(assemblies) /\ j \in 1..Len(assemblies) /\ Len(assemblies) \in Nat
  BY DEF FirstLived, Lived
<1>2. Behind(i) <= Behind(j) /\ Behind(j) <= Behind(i)
  BY Zenon DEF FirstLived
<1> QED
  BY <1>1, <1>2

(* From the first assembly on there is one, if any is lived in.            *)
LEMMA FirstExists ==
  ASSUME assemblies \in Seq(Assembly), Lived # {}
  PROVE  FirstLived(1) # {}
<1>1. Lived \subseteq Nat
  BY DEF Lived
<1>2. PICK k \in Lived : \A j \in Lived : k <= j
  BY <1>1, Least, Zenon
<1>3. \A j \in Lived : j \in Nat /\ j >= 1 /\ ~(j < 1)
  BY DEF Lived
<1>4. \A j \in Lived : k - 1 <= j - 1
  BY <1>2, <1>3
<1>5. k \in FirstLived(1)
  BY <1>3, <1>4, Zenon DEF FirstLived
<1> QED
  BY <1>5

-----------------------------------------------------------------------------
(* The invariant holds of the plan before its first leg.                   *)
LEMMA StartIsSound == RegionInit => RegionInductive
<1> SUFFICES ASSUME RegionInit PROVE RegionInductive
  OBVIOUS
<1>1. RegionTypeOK
  BY DEF RegionInit, RegionTypeOK, RegionStages
<1>2. assemblies = <<>> /\ abandoned = {} /\ overlaid = {} /\ red = {} /\ stage = "legs"
  BY DEF RegionInit
<1>3. Recorded
  BY <1>2 DEF Recorded
<1>4. AssembliesApart
  BY <1>2 DEF AssembliesApart
<1>5. RedRoomsAreLived
  BY <1>2 DEF RedRoomsAreLived
<1> QED
  BY <1>1, <1>3, <1>4, <1>5 DEF RegionInductive

\* What a step that places nothing and marks nothing has to respect.
Quiet ==
  /\ UNCHANGED <<inputVars, placed, marks>>
  /\ stage' \in RegionStages /\ leg' \in {0} \cup Segments(Main)
  /\ cursor' \in Int /\ side' \in {1, -1} /\ nextId' \in Int
  /\ stage # "done"
  /\ stage \in {"stairs", "done"} => stage' \in {"stairs", "done"}
  /\ forced /\ stage' \in {"stairs", "done"} /\ stage \notin {"stairs", "done"}
       => Lived = {}

\* A step that places nothing keeps the plan sound.
LEMMA QuietSteps == RegionInductive /\ Quiet => RegionInductive'
<1> SUFFICES ASSUME RegionInductive, Quiet PROVE RegionInductive'
  OBVIOUS
<1>1. /\ UNCHANGED <<circulation, genome, forced>>
      /\ UNCHANGED <<assemblies, taken>>
      /\ UNCHANGED <<abandoned, overlaid, red>>
  BY DEF Quiet, inputVars, placed, marks
<1>2. RegionTypeOK'
  BY <1>1 DEF RegionInductive, RegionTypeOK, Quiet, Segments, Main
<1>3. Recorded'
  BY <1>1 DEF RegionInductive, Recorded, Quiet
<1>4. AssembliesApart'
  BY <1>1, Zenon DEF RegionInductive, AssembliesApart
<1>5. RedRoomsAreLived'
  <2>1. Lived' = Lived
    BY <1>1 DEF Lived
  <2>2. /\ \A i, j \in red : i = j
        /\ red \cap abandoned = {}
        /\ \A i \in red \cup abandoned \cup overlaid : assemblies[i].kind = "suite"
    BY DEF RegionInductive, RedRoomsAreLived
  <2>3. ASSUME forced', stage' \in {"stairs", "done"}
        PROVE  red' # {} \/ \A i \in Lived' : assemblies'[i].kind = "stair"
    <3>1. CASE stage \in {"stairs", "done"}
      BY <1>1, <2>1, <2>3, <3>1 DEF RegionInductive, RedRoomsAreLived
    <3>2. CASE stage \notin {"stairs", "done"}
      <4>1. Lived = {}
        BY <1>1, <2>3, <3>2 DEF Quiet
      <4> QED
        BY <2>1, <4>1
    <3> QED
      BY <3>1, <3>2
  <2> QED
    BY <1>1, <2>2, <2>3 DEF RedRoomsAreLived
<1> QED
  BY <1>2, <1>3, <1>4, <1>5 DEF RegionInductive

(* Walking past a stretch, from leg to leg and out of the legs, and the    *)
(* passes that find nothing to do.                                         *)
LEMMA WalkingIsQuiet ==
  ASSUME RegionInductive
  PROVE  /\ \A i \in Segments(Main), s \in {1, -1} : EnterLeg(i, s) => Quiet
         /\ \A t \in Rolls : LeaveExposed(t) => Quiet
         /\ LeaveLegs => Quiet
         /\ NoDuplicate => Quiet
         /\ NoRedRoom => Quiet
         /\ NoStair => Quiet
<1> USE DEF RegionInductive, RegionTypeOK
<1>1. ASSUME NEW i \in Segments(Main), NEW s \in {1, -1}, EnterLeg(i, s)
      PROVE  Quiet
  <2>1. Stretch(i).x0 \in Int
    BY StretchTyped DEF Stretches
  <2> QED
    BY <1>1, <2>1 DEF EnterLeg, Quiet, RegionStages
<1>2. ASSUME NEW t \in Rolls, LeaveExposed(t)
      PROVE  Quiet
  <2>1. t \in Int
    BY RegionAssumption
  <2> QED
    BY <1>2, <2>1 DEF LeaveExposed, Advance, Quiet, RegionStages, inputVars, placed
<1>3. LeaveLegs => Quiet
  <2>1. assemblies = <<>> => Lived = {}
    BY DEF Lived
  <2> QED
    BY <2>1 DEF LeaveLegs, Quiet, RegionStages, walkVars
<1>4. NoDuplicate => Quiet
  BY DEF NoDuplicate, Quiet, RegionStages, walkVars
<1>5. NoRedRoom => Quiet
  BY DEF NoRedRoom, CanForce, Quiet, RegionStages, walkVars
<1>6. NoStair => Quiet
  BY DEF NoStair, Quiet, RegionStages, walkVars
<1> QED
  BY <1>1, <1>2, <1>3, <1>4, <1>5, <1>6

(* The passes that only mark assemblies: they find suites alone, and the   *)
(* event takes one that is lived in.                                       *)
LEMMA MarkingIsSound ==
  ASSUME RegionInductive
  PROVE  /\ \A ks \in SUBSET (DOMAIN assemblies) :
              Abandon(ks) \/ Renovate(ks) => RegionInductive'
         /\ \A k \in DOMAIN assemblies : RealizeRedRoom(k) => RegionInductive'
<1> USE DEF RegionInductive
<1>1. ASSUME NEW ks \in SUBSET (DOMAIN assemblies), Abandon(ks) \/ Renovate(ks)
      PROVE  RegionInductive'
  <2>1. /\ UNCHANGED <<inputVars, walkVars, placed>> /\ UNCHANGED red
        /\ stage \in {"abandon", "renovate"} /\ stage' \in {"renovate", "redden"}
        /\ abandoned' \cup overlaid' \subseteq DOMAIN assemblies
    BY <1>1 DEF Abandon, Renovate, Recorded
  <2>2. /\ UNCHANGED <<circulation, genome, forced, leg, cursor, side, nextId>>
        /\ UNCHANGED <<assemblies, taken>>
    BY <2>1 DEF inputVars, walkVars, placed
  <2>3. /\ red = {} /\ red' = {}
        /\ \A i \in DOMAIN assemblies : assemblies[i].kind = "suite"
    BY <2>1 DEF Recorded
  <2>4. RegionTypeOK'
    BY <2>1, <2>2 DEF RegionTypeOK, RegionStages, Segments, Main
  <2>5. Recorded'
    BY <2>1, <2>2, <2>3 DEF Recorded
  <2>6. AssembliesApart'
    BY <2>2, Zenon DEF AssembliesApart
  <2>7. RedRoomsAreLived'
    BY <2>1, <2>2, <2>3 DEF RedRoomsAreLived
  <2> QED
    BY <2>4, <2>5, <2>6, <2>7
<1>2. ASSUME NEW k \in DOMAIN assemblies, RealizeRedRoom(k)
      PROVE  RegionInductive'
  <2>1. /\ stage = "redden" /\ stage' = "stairs" /\ ~CanForce /\ red' = FirstLived(k)
        /\ UNCHANGED <<abandoned, overlaid>>
    BY <1>2 DEF RealizeRedRoom
  <2>2. /\ UNCHANGED <<circulation, genome, forced, leg, cursor, side, nextId>>
        /\ UNCHANGED <<assemblies, taken>>
    BY <1>2 DEF RealizeRedRoom, inputVars, walkVars, placed
  <2>3. red' \subseteq Lived
    BY <2>1, Zenon DEF FirstLived
  <2>4. \A i \in DOMAIN assemblies : assemblies[i].kind = "suite"
    BY <2>1 DEF Recorded
  <2>5. \A i, j \in red' : i = j
    <3>1. assemblies \in Seq(Assembly) /\ k \in 1..Len(assemblies)
      BY DEF RegionTypeOK
    <3> QED
      BY <2>1, <3>1, FirstIsUnique
  <2>6. red' \cap abandoned = {} /\ red' \subseteq DOMAIN assemblies
    BY <2>3 DEF Lived
  <2>7. forced => Lived = {}
    BY <2>1 DEF CanForce
  <2>8. Lived' = Lived
    BY <2>1, <2>2 DEF Lived
  <2>9. RegionTypeOK'
    BY <2>1, <2>2 DEF RegionTypeOK, RegionStages, Segments, Main
  <2>10. Recorded'
    BY <2>1, <2>2, <2>4, <2>6 DEF Recorded
  <2>11. AssembliesApart'
    BY <2>2, Zenon DEF AssembliesApart
  <2>12. RedRoomsAreLived'
    <3>1. \A i \in red' \cup abandoned' \cup overlaid' : assemblies'[i].kind = "suite"
      BY <2>1, <2>2, <2>4, <2>6 DEF Recorded
    <3>2. forced' => \A i \in Lived' : assemblies'[i].kind = "stair"
      BY <2>2, <2>7, <2>8
    <3> QED
      BY <2>1, <2>5, <2>6, <3>1, <3>2 DEF RedRoomsAreLived
  <2> QED
    BY <2>9, <2>10, <2>11, <2>12
<1> QED
  BY <1>1, <1>2

-----------------------------------------------------------------------------
(* Setting a suite out along a leg.                                        *)
LEMMA SetOutIsSound ==
  ASSUME RegionInductive, NEW a \in Rolls, NEW t \in Rolls, SetOutSuite(a, t)
  PROVE  RegionInductive'
<1> DEFINE new == Suite(nextId, a, t, cursor, Stretch(leg), side)
<1> USE DEF RegionInductive
<1>1. /\ stage = "legs" /\ ~WalkDone /\ Fits(new.box) /\ Place(new)
      /\ Advance(cursor + new.box.x1 - new.box.x0, t)
  BY Zenon DEF SetOutSuite
<1>2. leg \in Segments(Main)
  BY <1>1 DEF RegionTypeOK, WalkDone
<1>3. a \in Int /\ t \in Int
  BY RegionAssumption
<1>4. new \in Assembly /\ new.kind = "suite"
  BY <1>2, <1>3, SuiteTyped, StretchTyped DEF RegionTypeOK
<1> HIDE DEF new
<1>5. new.box \in Plot
  BY <1>4 DEF Assembly
<1>6. /\ assemblies \in Seq(Assembly)
      /\ \A i \in DOMAIN assemblies : assemblies[i].box \in taken
      /\ AssembliesApart
  BY DEF RegionTypeOK, Recorded
<1>7. /\ assemblies' \in Seq(Assembly)
      /\ Appended(new)
      /\ \A i \in DOMAIN assemblies' : assemblies'[i].box \in taken'
      /\ AssembliesApart'
  BY <1>1, <1>4, <1>5, <1>6, FitsClear, Placing, Zenon
<1>8. UNCHANGED <<circulation, genome, forced, stage, leg, abandoned, overlaid, red>>
  BY <1>1 DEF Advance, inputVars, marks
<1>9. cursor' \in Int /\ side' \in {1, -1} /\ nextId' \in Int
  BY <1>1, <1>3, <1>5 DEF Advance, RegionTypeOK, Plot
<1>10. RegionTypeOK'
  BY <1>7, <1>8, <1>9 DEF RegionTypeOK, Segments, Main
<1>11. \A i \in DOMAIN assemblies' : assemblies'[i].kind = "suite"
  BY <1>1, <1>4, <1>7 DEF Recorded, Appended
<1>12. DOMAIN assemblies \subseteq DOMAIN assemblies'
  BY <1>7 DEF Appended
<1>13. Recorded'
  BY <1>1, <1>7, <1>8, <1>11, <1>12 DEF Recorded
<1>14. RedRoomsAreLived'
  BY <1>1, <1>8, <1>11, <1>13 DEF RedRoomsAreLived, Recorded
<1> QED
  BY <1>7, <1>10, <1>13, <1>14

(* Copying a suite, at a distance that is clear of all the boxes taken.    *)
LEMMA DuplicateIsSound ==
  ASSUME RegionInductive, NEW k \in DOMAIN assemblies, NEW shift \in Shifts,
         Duplicate(k, shift)
  PROVE  RegionInductive'
<1> DEFINE new == Copy(assemblies[k], shift)
<1> USE DEF RegionInductive
<1>1. stage = "duplicate" /\ stage' = "abandon" /\ CopyFits(new) /\ Place(new)
  BY Zenon DEF Duplicate
<1>2. /\ assemblies \in Seq(Assembly)
      /\ \A i \in DOMAIN assemblies : assemblies[i].box \in taken
      /\ AssembliesApart
  BY DEF RegionTypeOK, Recorded
<1>3. shift \in Int /\ assemblies[k] \in Assembly
  BY <1>2, RegionAssumption
<1>4. new \in Assembly /\ new.kind = "suite"
  <2>1. assemblies[k].kind = "suite"
    BY <1>1 DEF Recorded
  <2> QED
    BY <1>2, <1>3, <2>1, CopyTyped, Zenon
<1> HIDE DEF new
<1>5. /\ assemblies' \in Seq(Assembly)
      /\ Appended(new)
      /\ \A i \in DOMAIN assemblies' : assemblies'[i].box \in taken'
      /\ AssembliesApart'
  BY <1>1, <1>2, <1>4, CopyClear, Placing, Zenon
<1>6. /\ UNCHANGED <<circulation, genome, forced, leg, cursor, side, nextId>>
      /\ UNCHANGED <<abandoned, overlaid, red>>
  BY DEF Duplicate, inputVars, walkVars, marks
<1>7. RegionTypeOK'
  BY <1>1, <1>5, <1>6 DEF RegionTypeOK, RegionStages, Segments, Main
<1>8. \A i \in DOMAIN assemblies' : assemblies'[i].kind = "suite"
  BY <1>1, <1>4, <1>5 DEF Recorded, Appended
<1>9. DOMAIN assemblies \subseteq DOMAIN assemblies'
  BY <1>5 DEF Appended
<1>10. Recorded'
  BY <1>1, <1>5, <1>6, <1>8, <1>9 DEF Recorded
<1>11. RedRoomsAreLived'
  BY <1>1, <1>6, <1>8, <1>10 DEF RedRoomsAreLived, Recorded
<1> QED
  BY <1>5, <1>7, <1>10, <1>11

(* A forced Red Room is in an assembly that is lived in, or in a new one.  *)
LEMMA ForceIsSound ==
  ASSUME RegionInductive, ForceRedRoom
  PROVE  RegionInductive'
<1> USE DEF RegionInductive
<1>1. /\ stage = "redden" /\ stage' = "stairs" /\ forced
      /\ UNCHANGED <<circulation, genome, forced, leg, cursor, side, nextId>>
      /\ UNCHANGED <<abandoned, overlaid>>
  BY DEF ForceRedRoom, inputVars, walkVars
<1>2. /\ assemblies \in Seq(Assembly)
      /\ \A i \in DOMAIN assemblies : assemblies[i].box \in taken
      /\ \A i \in DOMAIN assemblies : assemblies[i].kind = "suite"
      /\ AssembliesApart
      /\ abandoned \cup overlaid \subseteq DOMAIN assemblies
  BY <1>1 DEF RegionTypeOK, Recorded
<1>3. CASE Lived # {} /\ red' = FirstLived(1) /\ UNCHANGED placed
  <2>1. UNCHANGED <<assemblies, taken>>
    BY <1>3 DEF placed
  <2>2. red' # {}
    BY <1>2, <1>3, FirstExists
  <2>3. red' \subseteq Lived
    BY <1>3, Zenon DEF FirstLived
  <2>4. red' \cap abandoned = {} /\ red' \subseteq DOMAIN assemblies
    BY <2>3 DEF Lived
  <2>5. \A i, j \in red' : i = j
    <3>1. 1 \in 1..Len(assemblies)
      BY <1>2, <1>3 DEF Lived
    <3> QED
      BY <1>2, <1>3, <3>1, FirstIsUnique
  <2>6. RegionTypeOK'
    BY <1>1, <2>1 DEF RegionTypeOK, RegionStages, Segments, Main
  <2>7. Recorded'
    BY <1>1, <1>2, <2>1, <2>4 DEF Recorded
  <2>8. AssembliesApart'
    BY <2>1, Zenon DEF AssembliesApart
  <2>9. RedRoomsAreLived'
    BY <1>1, <1>2, <2>1, <2>2, <2>4, <2>5 DEF RedRoomsAreLived
  <2> QED
    BY <2>6, <2>7, <2>8, <2>9
<1>4. ASSUME Lived = {}, NEW i \in FirstLevel,
             Fits(ForcedSuite(i).box), Place(ForcedSuite(i)),
             red' = {Len(assemblies) + 1}
      PROVE  RegionInductive'
  <2> DEFINE new == ForcedSuite(i)
  <2>1. i \in Segments(Main)
    BY <1>4 DEF FirstLevel
  <2>2. new \in Assembly /\ new.kind = "suite"
    <3>1. Stretch(i) \in Stretches
      BY <2>1, StretchTyped DEF RegionTypeOK
    <3>2. Stretch(i).x0 + 60 \in Int
      BY <3>1 DEF Stretches
    <3>3. 9999 \in Int /\ 50 \in Int
      BY SMT
    <3> QED
      BY <3>1, <3>2, <3>3, SuiteTyped DEF RegionTypeOK, ForcedSuite
  <2>3. Fits(new.box) /\ Place(new)
    BY <1>4
  <2> HIDE DEF new
  <2>4. new.box \in Plot
    BY <2>2 DEF Assembly
  <2>5. /\ assemblies' \in Seq(Assembly)
        /\ Appended(new)
        /\ \A j \in DOMAIN assemblies' : assemblies'[j].box \in taken'
        /\ AssembliesApart'
    BY <1>2, <2>2, <2>3, <2>4, FitsClear, Placing, Zenon
  <2>6. \A j \in DOMAIN assemblies' : assemblies'[j].kind = "suite"
    BY <1>2, <2>2, <2>5 DEF Appended
  <2>7. DOMAIN assemblies' = DOMAIN assemblies \cup {Len(assemblies) + 1}
    BY <2>5 DEF Appended
  <2>8. Len(assemblies) + 1 \notin DOMAIN assemblies
    BY <1>2
  <2>9. RegionTypeOK'
    BY <1>1, <2>5 DEF RegionTypeOK, RegionStages, Segments, Main
  <2>10. Recorded'
    BY <1>1, <1>2, <1>4, <2>5, <2>6, <2>7 DEF Recorded
  <2>11. RedRoomsAreLived'
    BY <1>1, <1>2, <1>4, <2>6, <2>7, <2>8 DEF RedRoomsAreLived
  <2> QED
    BY <2>5, <2>9, <2>10, <2>11
<1> QED
  BY <1>3, <1>4, Zenon DEF ForceRedRoom

(* The stairwell comes after the corruption: nothing marks it.             *)
LEMMA StairIsSound ==
  ASSUME RegionInductive, NEW anchor \in Anchors, PlaceStair(anchor)
  PROVE  RegionInductive'
<1> USE DEF RegionInductive
<1>1. /\ stage = "stairs" /\ stage' = "done"
      /\ UNCHANGED <<circulation, genome, forced, leg, cursor, side, nextId>>
      /\ UNCHANGED <<abandoned, overlaid, red>>
  BY DEF PlaceStair, inputVars, walkVars, marks
<1>2. PICK k \in HostLeg(anchor) :
        Fits(Stair(anchor, Stretch(k)).box) /\ Place(Stair(anchor, Stretch(k)))
  BY Zenon DEF PlaceStair
<1>3. /\ assemblies \in Seq(Assembly)
      /\ \A i \in DOMAIN assemblies : assemblies[i].box \in taken
      /\ \A i \in DOMAIN assemblies : assemblies[i].kind = "suite"
      /\ AssembliesApart
      /\ abandoned \cup overlaid \cup red \subseteq DOMAIN assemblies
  BY <1>1 DEF RegionTypeOK, Recorded
<1> DEFINE new == Stair(anchor, Stretch(k))
<1>4. new \in Assembly /\ new.kind = "stair"
  <2>1. k \in Segments(Main)
    BY Zenon DEF HostLeg, Legs
  <2>2. Stretch(k) \in Stretches
    BY <2>1, StretchTyped DEF RegionTypeOK
  <2> QED
    BY <2>2, StairTyped DEF RegionTypeOK
<1>5. Fits(new.box) /\ Place(new)
  BY <1>2
<1> HIDE DEF new
<1>6. new.box \in Plot
  BY <1>4 DEF Assembly
<1>7. /\ assemblies' \in Seq(Assembly)
      /\ Appended(new)
      /\ \A j \in DOMAIN assemblies' : assemblies'[j].box \in taken'
      /\ AssembliesApart'
  BY <1>3, <1>4, <1>5, <1>6, FitsClear, Placing, Zenon
<1>8. /\ DOMAIN assemblies' = DOMAIN assemblies \cup {Len(assemblies) + 1}
      /\ \A i \in DOMAIN assemblies : assemblies'[i] = assemblies[i]
      /\ assemblies'[Len(assemblies) + 1] = new
  BY <1>7 DEF Appended
<1>9. RegionTypeOK'
  BY <1>1, <1>7 DEF RegionTypeOK, RegionStages, Segments, Main
<1>10. Recorded'
  BY <1>1, <1>3, <1>7, <1>8 DEF Recorded
<1>11. RedRoomsAreLived'
  <2>1. /\ \A i, j \in red : i = j
        /\ red \cap abandoned = {}
        /\ forced => red # {} \/ \A i \in Lived : assemblies[i].kind = "stair"
    BY <1>1 DEF RedRoomsAreLived
  <2>2. \A i \in red' \cup abandoned' \cup overlaid' : assemblies'[i].kind = "suite"
    BY <1>1, <1>3, <1>8
  <2>3. ASSUME forced', red' = {}, NEW i \in Lived'
        PROVE  assemblies'[i].kind = "stair"
    <3>1. Lived = {}
      BY <1>1, <1>3, <2>1, <2>3 DEF Lived
    <3>2. i = Len(assemblies) + 1
      BY <1>1, <1>8, <2>3, <3>1 DEF Lived
    <3> QED
      BY <1>4, <1>8, <3>2
  <2> QED
    BY <1>1, <2>1, <2>2, <2>3 DEF RedRoomsAreLived
<1> QED
  BY <1>7, <1>9, <1>10, <1>11

-----------------------------------------------------------------------------
(* Every step of the planning keeps the invariant.                         *)
LEMMA PlanningIsSound == RegionInductive /\ [RegionNext]_regionVars => RegionInductive'
<1> SUFFICES ASSUME RegionInductive, [RegionNext]_regionVars
             PROVE  RegionInductive'
  OBVIOUS
<1>1. CASE UNCHANGED regionVars
  <2>1. /\ UNCHANGED <<circulation, genome, forced, stage, leg, cursor, side, nextId>>
        /\ UNCHANGED <<assemblies, taken, abandoned, overlaid, red>>
    BY <1>1 DEF regionVars, inputVars, walkVars, placed, marks
  <2>2. RegionTypeOK'
    BY <2>1 DEF RegionInductive, RegionTypeOK, Segments, Main
  <2>3. Recorded'
    BY <2>1 DEF RegionInductive, Recorded
  <2>4. AssembliesApart' /\ RedRoomsAreLived'
    BY <2>1, Zenon DEF RegionInductive, AssembliesApart, RedRoomsAreLived, Lived
  <2> QED
    BY <2>2, <2>3, <2>4 DEF RegionInductive
<1>2. ASSUME NEW i \in Segments(Main), NEW s \in {1, -1}, EnterLeg(i, s)
      PROVE  RegionInductive'
  BY <1>2, WalkingIsQuiet, QuietSteps, Zenon
<1>3. ASSUME NEW a \in Rolls, NEW t \in Rolls, SetOutSuite(a, t)
      PROVE  RegionInductive'
  BY <1>3, SetOutIsSound
<1>4. CASE (\E t \in Rolls : LeaveExposed(t)) \/ LeaveLegs \/ NoDuplicate \/ NoRedRoom \/ NoStair
  BY <1>4, WalkingIsQuiet, QuietSteps, Zenon
<1>5. ASSUME NEW k \in DOMAIN assemblies, NEW shift \in Shifts, Duplicate(k, shift)
      PROVE  RegionInductive'
  BY <1>5, DuplicateIsSound
<1>6. ASSUME NEW ks \in SUBSET (DOMAIN assemblies), Abandon(ks) \/ Renovate(ks)
      PROVE  RegionInductive'
  BY <1>6, MarkingIsSound, Zenon
<1>7. CASE ForceRedRoom
  BY <1>7, ForceIsSound
<1>8. ASSUME NEW k \in DOMAIN assemblies, RealizeRedRoom(k)
      PROVE  RegionInductive'
  BY <1>8, MarkingIsSound, Zenon
<1>9. ASSUME NEW anchor \in Anchors, PlaceStair(anchor)
      PROVE  RegionInductive'
  BY <1>9, StairIsSound
<1> QED
  BY <1>1, <1>2, <1>3, <1>4, <1>5, <1>6, <1>7, <1>8, <1>9, Zenon DEF RegionNext

(* The plan is typed, what it placed is taken, and the two facts below     *)
(* hold with it: generate_region_plan() and corrupt() together.            *)
THEOREM RegionIsSound == RegionSpec => []RegionInductive
  BY StartIsSound, PlanningIsSound, PTL DEF RegionSpec

(* No pass places an assembly over another's walls or out of the region,   *)
(* for any spine, designer and hash.                                       *)
THEOREM AssembliesStayApart == RegionSpec => []AssembliesApart
<1>1. RegionInductive => AssembliesApart
  BY DEF RegionInductive
<1> QED
  BY <1>1, RegionIsSound, PTL

(* The Red Room is one, is lived in and is never in a stair core, and the  *)
(* forced one is there unless every suite was abandoned.                   *)
THEOREM RedRoomsStayLived == RegionSpec => []RedRoomsAreLived
<1>1. RegionInductive => RedRoomsAreLived
  BY DEF RegionInductive
<1> QED
  BY <1>1, RegionIsSound, PTL

-----------------------------------------------------------------------------
(* Entrances.  The walk is past the start of its leg, so that an entrance  *)
(* that misses the leg misses its far end.                                 *)
AlongTheWalk ==
  leg # 0 => leg \in Legs /\ cursor >= Stretch(leg).x0 + 20

\* Rounding up adds less than a whole.
LEMMA SnapUp ==
  ASSUME NEW n \in Int
  PROVE  n <= Snap(n, 1) /\ Snap(n, 1) <= n + 1
  BY DEF Snap

(* A footprint is at least 12 u wide.                                      *)
LEMMA WidthBound ==
  ASSUME genome \in Genomes, NEW a \in Int
  PROVE  SuiteWidth(a) >= 60
<1> DEFINE n == 100 * genome.minSide + (genome.maxSide - genome.minSide) * a
<1>1. genome.minSide \in Nat /\ genome.maxSide \in Nat
  BY RegionAssumption
<1>2. n \in Int
  BY <1>1
<1> HIDE DEF n
<1>3. Clamp(n, 6000, 12000) \in Int /\ Clamp(n, 6000, 12000) >= 6000
  BY <1>2, SMT DEF Clamp
<1>4. ASSUME NEW m \in Int, m >= 6000
      PROVE  Snap(m, 100) >= 60
  BY <1>4, SMT DEF Snap
<1>5. Snap(Clamp(n, 6000, 12000), 100) >= 60
  BY <1>3, <1>4, SMT
<1> QED
  BY <1>5, SMT DEF SuiteWidth, n

(* The entrance is not before the west wall.                               *)
LEMMA EntranceBound ==
  ASSUME NEW x0 \in Int, NEW w \in Int, w >= 60, NEW t \in Int
  PROVE  EntranceAt(x0, w, t) >= x0
<1> DEFINE edge == Doorway(t) \div 2 + 4
           low == 200 * (x0 + edge)
           high == 200 * (x0 + w - edge)
           n == 200 * x0 + w * (50 + t)
<1>1. Doorway(t) \in {6, 18, 24}
  BY DEF Doorway
<1>2. edge \in Int /\ edge >= 7 /\ edge <= 16
  BY <1>1, SMT
<1> HIDE DEF edge
<1>3. n \in Int
  BY SMT
<1>4. low \in Int /\ high \in Int /\ low <= high /\ low >= 200 * x0 + 1400
  BY <1>2, SMT
<1>5. EntranceAt(x0, w, t) = Snap(Clamp(n, low, high), 200)
  BY SMT DEF EntranceAt, edge
<1> HIDE DEF n, low, high
<1>6. Clamp(n, low, high) \in Int /\ Clamp(n, low, high) >= low
  BY <1>3, <1>4, SMT DEF Clamp
<1>7. ASSUME NEW m \in Int, m >= 200 * x0 + 1400
      PROVE  Snap(m, 200) >= x0
  BY <1>7, SMT DEF Snap
<1> QED
  BY <1>4, <1>5, <1>6, <1>7, SMT

\* A door on the side s of the leg l, at its distance from the axis.
OnTheSide(door, l, s) ==
  LET half == circulation.width \div 2 + 1
  IN  door.z = IF s = 1 THEN l.z + half ELSE l.z - half

(* Squares grow with what is squared.                                      *)
LEMMA SquaresGrow ==
  ASSUME NEW m \in Nat, NEW n \in Nat, m <= n
  PROVE  m * m <= n * n
<1>1. m * m <= m * n
  BY SMT
<1>2. m * n <= n * n
  BY SMT
<1>3. m * m \in Int /\ m * n \in Int /\ n * n \in Int
  OBVIOUS
<1> QED
  BY <1>1, <1>2, <1>3

(* A door on the side of a leg and within its ends is at the corridor.     *)
LEMMA WithinTheLeg ==
  ASSUME circulation \in Circulations, NEW i \in Segments(Main), IsLevel(i),
         NEW door, door.x \in Int, NEW s \in {1, -1}, OnTheSide(door, Stretch(i), s),
         Stretch(i).x0 <= door.x, door.x <= Stretch(i).x1
  PROVE  Reaches(door)
<1> DEFINE p == circulation.path
           width == circulation.width
           half == width \div 2 + 1
<1>1. p \in Seq(Point) /\ width \in Nat
  BY RegionAssumption DEF Point
<1>2. i \in 1..(Len(p) - 1)
  BY DEF Segments, Main
<1>3. p[i] \in Point /\ p[i + 1] \in Point
  BY <1>1, <1>2, PathTyped
<1>4. p[i].x \in Int /\ p[i + 1].x \in Int /\ p[i].z \in Int /\ p[i + 1].z = p[i].z
  BY <1>3 DEF Point, IsLevel
<1>5. Off(door.x, p[i].x, p[i + 1].x) = 0
  BY <1>4 DEF Off, Stretch
<1>6. half \in Nat /\ 4 * half <= 2 * width + 9
  BY <1>1, SMT
<1>7. door.z = p[i].z + half \/ door.z = p[i].z - half
  BY DEF OnTheSide, Stretch
<1> HIDE DEF half
<1>8. Off(door.z, p[i].z, p[i + 1].z) = half
  BY <1>4, <1>6, <1>7 DEF Off
<1>9. Apart16(Main, i, door.x, door.z) = (4 * half) * (4 * half)
  <2>1. Apart16(Main, i, door.x, door.z) = 16 * (Sq(0) + Sq(half))
    BY <1>5, <1>8 DEF Apart16, Main
  <2>2. 16 * (0 * 0 + half * half) = (4 * half) * (4 * half)
    BY <1>6, SMT
  <2> QED
    BY <2>1, <2>2 DEF Sq
<1>10. (4 * half) * (4 * half) <= (2 * width + 9) * (2 * width + 9)
  <2>1. 4 * half \in Nat /\ 2 * width + 9 \in Nat
    BY <1>1, <1>6
  <2> QED
    BY <1>6, <2>1, SquaresGrow
<1>11. 2 * Main.width + 4 * WallT + 1 = 2 * width + 9
  BY <1>1, SMT DEF Main, WallT
<1>12. Apart16(Main, i, door.x, door.z) <= Sq(2 * Main.width + 4 * WallT + 1)
  BY <1>9, <1>10, <1>11, Zenon DEF Sq
<1> QED
  BY <1>12, Zenon DEF Reaches, Spines

\* An assembly whose entrance reaches a corridor, or is past its leg.
Honest(a) == ~Reaches(a.door) => a.kind = "suite" /\ a.moved = 0 /\ a.door.x > a.end

(* What a pass places is honest wherever along a level segment it starts.  *)
LEMMA SuiteHonest ==
  ASSUME RegionTypeOK, NEW i \in Segments(Main), IsLevel(i), NEW s \in {1, -1},
         NEW id \in Int, NEW a \in Int, NEW t \in Int, NEW x \in Int,
         x >= Stretch(i).x0
  PROVE  /\ Honest(Suite(id, a, t, x, Stretch(i), s))
         /\ Suite(id, a, t, x, Stretch(i), s).box.x1
              >= Suite(id, a, t, x, Stretch(i), s).box.x0
<1> DEFINE l == Stretch(i)
           w == SuiteWidth(a)
           d == SuiteDepth(w)
           b == Rect(Snap(x, 1), Beside(l.z, circulation.width, d, s), w, d)
           at == EntranceAt(b.x0, w, t)
           new == Suite(id, a, t, x, l, s)
<1>1. l \in Stretches
  BY StretchTyped DEF RegionTypeOK
<1>2. w \in Int /\ w >= 60
  BY WidthInt, WidthBound DEF RegionTypeOK
<1>3. d \in Int /\ circulation.width \in Nat
  BY <1>2, DepthInt, RegionAssumption DEF RegionTypeOK
<1>4. Snap(x, 1) \in Int /\ Snap(x, 1) >= x
  BY SnapInt, SnapUp
<1>5. b.x0 = Snap(x, 1) /\ b.x1 = Snap(x, 1) + w
  BY DEF Rect
<1>6. at \in Int /\ at >= Snap(x, 1)
  BY <1>2, <1>4, <1>5, EntranceInt, EntranceBound
<1>7. new = Built(id, "suite", b, at, s, l)
  BY DEF Suite
<1>8. new.kind = "suite" /\ new.moved = 0 /\ new.box = b
  BY <1>7 DEF Built
<1> HIDE DEF w, d, at
<1>9. b = Rect(Snap(x, 1), Beside(l.z, circulation.width, d, s), w, d)
  OBVIOUS
<1> HIDE DEF b, new, l
<1>10. OnTheSide(new.door, l, s) /\ new.door.x = at /\ new.end = l.x1
  BY <1>1, <1>2, <1>3, <1>4, <1>7, <1>9
     DEF Rect, Beside, Built, OnTheSide, WallT, Stretches
<1> USE DEF l
<1>11. l.x0 <= at
  BY <1>1, <1>4, <1>6 DEF Stretches
<1>12. at <= l.x1 => Reaches(new.door)
  BY <1>6, <1>10, <1>11, WithinTheLeg DEF RegionTypeOK
<1>13. Honest(new)
  BY <1>1, <1>6, <1>8, <1>10, <1>12 DEF Honest, Stretches
<1>14. new.box.x1 >= new.box.x0
  BY <1>2, <1>4, <1>5, <1>8
<1> QED
  BY <1>13, <1>14 DEF new

\* The entrance of a stair core reaches a corridor.
LEMMA StairHonest ==
  ASSUME RegionTypeOK, NEW anchor \in Anchors, NEW i \in Legs
  PROVE  Honest(Stair(anchor, Stretch(i)))
<1> DEFINE l == Stretch(i)
           s == IF anchor.z >= l.z THEN 1 ELSE -1
           x == Snap(Clamp(anchor.x - StairWidth \div 2, l.x0 + 20, l.x1 - StairWidth - 20), 1)
           middle == x + StairWidth \div 2
           at == Snap(middle, 1)
           b == Rect(x, Beside(l.z, circulation.width, StairDepth, s), StairWidth, StairDepth)
           new == Stair(anchor, l)
<1>1. i \in Segments(Main) /\ IsLevel(i) /\ l.x1 - l.x0 >= 70
  BY DEF Legs, MinLeg
<1>2. l \in Stretches /\ l.x0 \in Int /\ l.x1 \in Int
  BY <1>1, StretchTyped DEF RegionTypeOK, Stretches
<1>3. circulation.width \in Nat /\ anchor.x \in Int
  BY RegionAssumption DEF RegionTypeOK
<1>4. x \in Int /\ x >= l.x0 + 20 /\ x <= l.x1 - 43
  <2> DEFINE n == Clamp(anchor.x - StairWidth \div 2, l.x0 + 20, l.x1 - StairWidth - 20)
  <2>1. n \in Int /\ n >= l.x0 + 20 /\ n <= l.x1 - 44
    BY <1>1, <1>2, <1>3 DEF Clamp, StairWidth
  <2> HIDE DEF n
  <2>2. Snap(n, 1) \in Int /\ Snap(n, 1) >= n /\ Snap(n, 1) <= n + 1
    BY <2>1, SnapInt, SnapUp
  <2>3. Snap(n, 1) >= l.x0 + 20 /\ Snap(n, 1) <= l.x1 - 43
    BY <1>2, <2>1, <2>2
  <2> QED
    BY <2>2, <2>3 DEF n
<1>5. new = Built(nextId + 2000, "stair", b, at, s, l)
  BY DEF Stair
<1>6. s \in {1, -1}
  OBVIOUS
<1> HIDE DEF x, s, l
<1>7. at \in Int /\ l.x0 <= at /\ at <= l.x1
  <2>1. middle \in Int /\ middle = x + 12
    BY <1>4 DEF StairWidth
  <2> HIDE DEF middle
  <2>2. Snap(middle, 1) \in Int /\ Snap(middle, 1) >= middle /\ Snap(middle, 1) <= middle + 1
    BY <2>1, SnapInt, SnapUp
  <2> HIDE DEF at
  <2>3. at = Snap(middle, 1)
    BY DEF at
  <2> QED
    BY <1>2, <1>4, <2>1, <2>2, <2>3
<1> HIDE DEF at
<1>8. b = Rect(x, Beside(l.z, circulation.width, StairDepth, s), StairWidth, StairDepth)
  OBVIOUS
<1>9. StairWidth \in Int /\ StairDepth \in Int
  BY DEF StairWidth, StairDepth
<1> HIDE DEF b, new
<1>10. OnTheSide(new.door, l, s) /\ new.door.x = at
  BY <1>2, <1>3, <1>4, <1>5, <1>6, <1>8, <1>9
     DEF Rect, Beside, Built, OnTheSide, WallT, Stretches
<1>11. Reaches(new.door)
  BY <1>1, <1>6, <1>7, <1>10, WithinTheLeg DEF RegionTypeOK, l
<1> QED
  BY <1>11 DEF Honest, new, l

(* Corridors do not change, so that what was honest stays honest.          *)
LEMMA HonestAfter ==
  ASSUME UNCHANGED circulation, \A i \in DOMAIN assemblies' : Honest(assemblies'[i])
  PROVE  SealedOnlyPastBends'
<1>1. Spines' = Spines
  BY DEF Spines, Main
<1>2. \A i \in DOMAIN assemblies' :
        (Reaches(assemblies[i].door))' <=> Reaches(assemblies'[i].door)
  BY <1>1, Zenon DEF Reaches, Segments, Apart16
<1>3. \A i \in DOMAIN assemblies' : (Honest(assemblies[i]))'
  BY <1>2, Zenon DEF Honest
<1> QED
  BY <1>3, Zenon DEF SealedOnlyPastBends, Honest

\* What is honest may be placed.
LEMMA HonestPlaced ==
  ASSUME RegionTypeOK, SealedOnlyPastBends, UNCHANGED circulation,
         NEW a, Honest(a), Place(a)
  PROVE  SealedOnlyPastBends'
<1>1. \A i \in DOMAIN assemblies : Honest(assemblies[i])
  BY Zenon DEF SealedOnlyPastBends, Honest
<1>2. \A i \in DOMAIN assemblies' :
        assemblies'[i] = a \/ (i \in DOMAIN assemblies /\ assemblies'[i] = assemblies[i])
  BY DEF RegionTypeOK, Place
<1>3. \A i \in DOMAIN assemblies' : Honest(assemblies'[i])
  BY <1>1, <1>2, Zenon
<1> QED
  BY <1>3, HonestAfter, Zenon

(* Steps of the walk and the pass that stay honest.                        *)
LEMMA EntrancesKept ==
  ASSUME RegionTypeOK, RegionTypeOK', AlongTheWalk, SealedOnlyPastBends,
         [RegionNext]_regionVars
  PROVE  AlongTheWalk' /\ SealedOnlyPastBends'
<1>1. UNCHANGED circulation
  BY DEF regionVars, inputVars, RegionNext, EnterLeg, SetOutSuite, Advance, LeaveExposed,
         LeaveLegs, Duplicate, NoDuplicate, Abandon, Renovate, ForceRedRoom,
         RealizeRedRoom, NoRedRoom, PlaceStair, NoStair
<1>2. Legs' = Legs /\ \A i : Stretch(i)' = Stretch(i)
  BY <1>1 DEF Legs, Stretch, IsLevel, Segments, Main
<1>3. ASSUME UNCHANGED walkVars
      PROVE  AlongTheWalk'
  BY <1>2, <1>3 DEF AlongTheWalk, walkVars
<1>4. ASSUME UNCHANGED placed
      PROVE  SealedOnlyPastBends'
  <2>1. \A i \in DOMAIN assemblies' : Honest(assemblies'[i])
    BY <1>4, Zenon DEF placed, SealedOnlyPastBends, Honest
  <2> QED
    BY <1>1, <2>1, HonestAfter
<1>5. ASSUME NEW i \in Segments(Main), NEW s \in {1, -1}, EnterLeg(i, s)
      PROVE  AlongTheWalk' /\ SealedOnlyPastBends'
  <2>1. /\ leg' = i /\ cursor' = Stretch(i).x0 + 20 /\ i \in Legs /\ UNCHANGED placed
        /\ Stretch(i).x0 \in Int
    BY <1>5, StretchTyped DEF EnterLeg, NextLeg, RegionTypeOK, Stretches
  <2> QED
    BY <1>2, <1>4, <2>1 DEF AlongTheWalk
<1>6. ASSUME NEW t \in Rolls, NEW from \in Int, from >= cursor, Advance(from, t)
      PROVE  AlongTheWalk'
  <2>1. t \in Int /\ t >= 0
    <3>1. t \in 0..99
      BY RegionAssumption, Zenon
    <3> QED
      BY <3>1
  <2>2. leg' = leg /\ cursor' = from + 40 + (2 * t) \div 5
    BY <1>6 DEF Advance
  <2>3. leg # 0 => Stretch(leg).x0 \in Int /\ cursor \in Int
    BY StretchTyped DEF RegionTypeOK, Stretches
  <2>4. cursor' >= cursor /\ cursor' \in Int
    BY <1>6, <2>1, <2>2 DEF RegionTypeOK
  <2> QED
    BY <1>2, <2>2, <2>3, <2>4 DEF AlongTheWalk
<1>7. ASSUME NEW a \in Rolls, NEW t \in Rolls, SetOutSuite(a, t)
      PROVE  AlongTheWalk' /\ SealedOnlyPastBends'
  <2> DEFINE new == Suite(nextId, a, t, cursor, Stretch(leg), side)
  <2>1. ~WalkDone /\ Place(new) /\ Advance(cursor + new.box.x1 - new.box.x0, t)
    BY <1>7, Zenon DEF SetOutSuite
  <2>2. leg \in Legs /\ leg \in Segments(Main) /\ IsLevel(leg) /\ cursor >= Stretch(leg).x0
    <3>1. leg \in Legs /\ cursor >= Stretch(leg).x0 + 20
      BY <2>1 DEF WalkDone, AlongTheWalk
    <3>2. leg \in Segments(Main) /\ IsLevel(leg)
      BY <3>1 DEF Legs
    <3>3. Stretch(leg).x0 \in Int /\ cursor \in Int
      BY <3>2, StretchTyped DEF RegionTypeOK, Stretches
    <3> QED
      BY <3>1, <3>2, <3>3
  <2>3. a \in Int /\ t \in Int /\ nextId \in Int /\ cursor \in Int /\ side \in {1, -1}
    <3>1. Rolls \subseteq 0..99
      BY RegionAssumption
    <3>2. a \in 0..99 /\ t \in 0..99
      BY <1>7, <3>1, Zenon
    <3> QED BY <3>2 DEF RegionTypeOK
  <2>4. Honest(new) /\ new.box.x1 >= new.box.x0
    BY <2>2, <2>3, SuiteHonest
  <2>5. new \in Assembly
    BY <2>2, <2>3, SuiteTyped, StretchTyped DEF RegionTypeOK
  <2> HIDE DEF new
  <2>6. new.box.x0 \in Int /\ new.box.x1 \in Int
    BY <2>5 DEF Assembly, Plot
  <2>7. SealedOnlyPastBends'
    BY <1>1, <2>1, <2>4, HonestPlaced
  <2>8. cursor + new.box.x1 - new.box.x0 \in Int /\ cursor + new.box.x1 - new.box.x0 >= cursor
    BY <2>3, <2>4, <2>6
  <2> QED
    BY <1>6, <2>1, <2>7, <2>8
<1>8. ASSUME NEW t \in Rolls, LeaveExposed(t)
      PROVE  AlongTheWalk' /\ SealedOnlyPastBends'
  <2>1. Advance(cursor, t) /\ UNCHANGED placed /\ cursor \in Int
    BY <1>8 DEF LeaveExposed, RegionTypeOK
  <2> QED
    BY <1>4, <1>6, <2>1
<1>9. ASSUME NEW k \in DOMAIN assemblies, NEW shift \in Shifts, Duplicate(k, shift)
      PROVE  AlongTheWalk' /\ SealedOnlyPastBends'
  <2>1. /\ CopyFits(Copy(assemblies[k], shift)) /\ Place(Copy(assemblies[k], shift))
        /\ UNCHANGED walkVars
    BY <1>9, Zenon DEF Duplicate
  <2>2. Honest(Copy(assemblies[k], shift))
    BY <2>1, Zenon DEF CopyFits, Honest
  <2> QED
    BY <1>1, <1>3, <2>1, <2>2, HonestPlaced, Zenon
<1>10. CASE ForceRedRoom
  <2>1. UNCHANGED walkVars
    BY <1>10 DEF ForceRedRoom
  <2>2. CASE UNCHANGED placed
    BY <1>3, <1>4, <2>1, <2>2
  <2>3. ASSUME NEW i \in FirstLevel, Place(ForcedSuite(i))
        PROVE  SealedOnlyPastBends'
    <3>1. i \in Segments(Main) /\ IsLevel(i)
      BY DEF FirstLevel
    <3>2. Stretch(i).x0 \in Int
      BY <3>1, StretchTyped DEF RegionTypeOK, Stretches
    <3> DEFINE x == Stretch(i).x0 + 60
               name == 9999
               roll == 50
               south == 1
    <3>3. x \in Int /\ x >= Stretch(i).x0
      BY <3>2
    <3>4. south \in {1, -1} /\ name \in Int /\ roll \in Int
      BY SMT
    <3>5. ForcedSuite(i) = Suite(name, roll, roll, x, Stretch(i), south)
      BY DEF ForcedSuite
    <3> HIDE DEF x, name, roll, south
    <3>6. Honest(ForcedSuite(i))
      BY <3>1, <3>3, <3>4, <3>5, SuiteHonest
    <3> QED
      BY <1>1, <2>3, <3>6, HonestPlaced
  <2> QED
    BY <1>3, <1>10, <2>1, <2>2, <2>3, Zenon DEF ForceRedRoom
<1>11. ASSUME NEW anchor \in Anchors, PlaceStair(anchor)
      PROVE  AlongTheWalk' /\ SealedOnlyPastBends'
  <2>1. UNCHANGED walkVars
    BY <1>11 DEF PlaceStair
  <2>2. PICK k \in Legs : Place(Stair(anchor, Stretch(k)))
    BY <1>11, Zenon DEF PlaceStair, HostLeg
  <2>3. Honest(Stair(anchor, Stretch(k)))
    BY StairHonest
  <2> QED
    BY <1>1, <1>3, <2>1, <2>2, <2>3, HonestPlaced
<1>12. ASSUME UNCHANGED placed, UNCHANGED walkVars
      PROVE  AlongTheWalk' /\ SealedOnlyPastBends'
  BY <1>3, <1>4, <1>12
<1>13. CASE \/ UNCHANGED regionVars \/ LeaveLegs \/ NoDuplicate \/ NoRedRoom \/ NoStair
            \/ \E ks \in SUBSET (DOMAIN assemblies) : Abandon(ks) \/ Renovate(ks)
            \/ \E k \in DOMAIN assemblies : RealizeRedRoom(k)
  <2>1. UNCHANGED placed /\ UNCHANGED walkVars
    BY <1>13, Zenon DEF regionVars, LeaveLegs, NoDuplicate, NoRedRoom, NoStair, Abandon,
                        Renovate, RealizeRedRoom
  <2> QED
    BY <1>12, <2>1
<1> QED
  BY <1>5, <1>7, <1>8, <1>9, <1>10, <1>11, <1>13, Zenon DEF RegionNext

(* An entrance that reaches no corridor is one of a suite set out past the *)
(* end of its leg: place_suite() checks no corridor, the shape of the walk *)
(* does, except there.                                                     *)
THEOREM EntrancesReachCorridors == RegionSpec => []SealedOnlyPastBends
<1>1. RegionInit => AlongTheWalk /\ SealedOnlyPastBends
  BY DEF RegionInit, AlongTheWalk, SealedOnlyPastBends
<1>2. RegionInductive => RegionTypeOK
  BY DEF RegionInductive
<1>3. /\ RegionTypeOK /\ RegionTypeOK' /\ [RegionNext]_regionVars
      /\ AlongTheWalk /\ SealedOnlyPastBends
      => AlongTheWalk' /\ SealedOnlyPastBends'
  BY EntrancesKept
<1> QED
  BY <1>1, <1>2, <1>3, RegionIsSound, PTL DEF RegionSpec

-----------------------------------------------------------------------------
(* What fills a region: the rooms of a suite, its furnishing, its light.   *)

Task == [box : Box, depth : Nat]

Phases == {"divide", "age", "age again", "settle", "done"}

InteriorTypeOK ==
  /\ outline \in Box /\ rule \in Rules
  /\ pending \in Seq(Task)
  /\ leaves \subseteq Box
  /\ phase \in Phases

Leaf(b, x, z) == b \in leaves /\ In(b, x, z)
Waits(i, x, z) == i \in DOMAIN pending /\ In(pending[i].box, x, z)

\* Every square of the outline, and no other, is in a leaf or in a box that
\* waits, and never in two of them.
Covered ==
  \A x, z \in Int :
    In(outline, x, z) <=> (\E b : Leaf(b, x, z)) \/ (\E i : Waits(i, x, z))
Apart ==
  \A x, z \in Int :
    /\ \A b, c : Leaf(b, x, z) /\ Leaf(c, x, z) => b = c
    /\ \A i, j : Waits(i, x, z) /\ Waits(j, x, z) => i = j
    /\ \A b, i : ~(Leaf(b, x, z) /\ Waits(i, x, z))

Tiling == InteriorTypeOK /\ Covered /\ Apart

(* The two halves of a box are boxes, share no square and miss none.       *)
LEMMA Halves ==
  ASSUME NEW b \in Box, NEW s \in Splits(Length(b))
  PROVE  /\ First(b, s) \in Box /\ Second(b, s) \in Box
         /\ \A x, z \in Int :
              /\ In(b, x, z) <=> In(First(b, s), x, z) \/ In(Second(b, s), x, z)
              /\ ~(In(First(b, s), x, z) /\ In(Second(b, s), x, z))
<1>1. s \in Int /\ s >= 0 /\ s <= Length(b)
  BY DEF Splits, Length, Box
<1>2. b.x0 \in Int /\ b.z0 \in Int /\ b.x1 \in Int /\ b.z1 \in Int
  BY DEF Box
<1>3. CASE AlongX(b)
  <2>1. Length(b) = b.x1 - b.x0
    BY <1>3 DEF AlongX, Length
  <2>2. First(b, s) = [b EXCEPT !.x1 = b.x0 + s] /\ Second(b, s) = [b EXCEPT !.x0 = b.x0 + s]
    BY <1>3 DEF First, Second
  <2> QED
    BY <1>1, <1>2, <2>1, <2>2 DEF Box, In
<1>4. CASE ~AlongX(b)
  <2>1. Length(b) = b.z1 - b.z0
    BY <1>4 DEF AlongX, Length
  <2>2. First(b, s) = [b EXCEPT !.z1 = b.z0 + s] /\ Second(b, s) = [b EXCEPT !.z0 = b.z0 + s]
    BY <1>4 DEF First, Second
  <2> QED
    BY <1>1, <1>2, <2>1, <2>2 DEF Box, In
<1> QED
  BY <1>3, <1>4

\* At first the suite is one piece.
LEMMA TilingStarts == InteriorInit => Tiling
<1> SUFFICES ASSUME InteriorInit PROVE Tiling
  OBVIOUS
<1>1. outline \in Box /\ rule \in Rules /\ leaves = {} /\ phase = "divide"
  BY InteriorAssumption DEF InteriorInit
<1>2. /\ pending \in Seq(Task) /\ DOMAIN pending = {1} /\ pending[1].box = outline
  BY <1>1 DEF InteriorInit, Task
<1>3. InteriorTypeOK
  BY <1>1, <1>2 DEF InteriorTypeOK, Phases
<1>4. Covered
  BY <1>1, <1>2, Zenon DEF Covered, Leaf, Waits
<1>5. Apart
  BY <1>1, <1>2 DEF Apart, Leaf, Waits
<1> QED
  BY <1>3, <1>4, <1>5 DEF Tiling

(* The box on top is one of those that wait.                               *)
LEMMA TopTyped ==
  ASSUME InteriorTypeOK, pending # <<>>
  PROVE  /\ Len(pending) \in Nat \ {0} /\ Len(pending) \in DOMAIN pending
         /\ Top \in Task /\ Top.box \in Box /\ Top.depth \in Nat
         /\ Top = pending[Len(pending)]
<1>1. pending \in Seq(Task) /\ Len(pending) \in Nat \ {0}
  BY DEF InteriorTypeOK
<1>2. Len(pending) \in DOMAIN pending
  BY <1>1
<1>3. Top = pending[Len(pending)]
  BY DEF Top
<1>4. Top \in Task
  BY <1>1, <1>2, <1>3
<1> QED
  BY <1>1, <1>2, <1>3, <1>4 DEF Task

(* Keeping the box on top whole moves it to the leaves.                    *)
LEMMA KeepingTiles == Tiling /\ KeepWhole => Tiling'
<1> SUFFICES ASSUME Tiling, KeepWhole PROVE Tiling'
  OBVIOUS
<1> DEFINE n == Len(pending)
<1>1. /\ pending # <<>> /\ leaves' = leaves \cup {Top.box}
      /\ UNCHANGED <<outline, rule, phase>>
  BY Zenon DEF KeepWhole
<1>2. InteriorTypeOK
  BY DEF Tiling
<1>3. n \in Nat \ {0} /\ n \in DOMAIN pending /\ Top.box \in Box /\ Top = pending[n]
  BY <1>1, <1>2, TopTyped
<1>4. /\ pending' \in Seq(Task)
      /\ DOMAIN pending' = DOMAIN pending \ {n}
      /\ \A i \in DOMAIN pending' : pending'[i] = pending[i]
  <2>1. pending \in Seq(Task) /\ pending' = SubSeq(pending, 1, n - 1)
    BY <1>2 DEF KeepWhole, Rest, InteriorTypeOK
  <2> QED
    BY <1>3, <2>1
<1> HIDE DEF n
<1>5. InteriorTypeOK'
  BY <1>1, <1>2, <1>3, <1>4 DEF InteriorTypeOK
<1>6. ASSUME NEW x \in Int, NEW z \in Int
      PROVE  /\ \A b : Leaf(b, x, z)' <=> Leaf(b, x, z) \/ (b = pending[n].box /\ Waits(n, x, z))
             /\ \A i : Waits(i, x, z)' <=> Waits(i, x, z) /\ i # n
  <2>1. \A b : In(b, x, z)' <=> In(b, x, z)
    BY DEF In
  <2>2. \A b : Leaf(b, x, z)' <=> b \in leaves' /\ In(b, x, z)
    BY DEF Leaf, In
  <2>3. \A i : Waits(i, x, z)' <=> i \in DOMAIN pending' /\ In(pending'[i].box, x, z)
    BY DEF Waits, In
  <2>4. \A b : Leaf(b, x, z)' <=> Leaf(b, x, z) \/ (b = pending[n].box /\ Waits(n, x, z))
    BY <1>1, <1>3, <2>2, Zenon DEF Leaf, Waits
  <2>5. \A i : Waits(i, x, z)' <=> Waits(i, x, z) /\ i # n
    BY <1>4, <2>3 DEF Waits
  <2> QED
    BY <2>4, <2>5
<1>7. Covered'
  <2> SUFFICES ASSUME NEW x \in Int, NEW z \in Int
               PROVE  In(outline, x, z)' <=>
                        (\E b : Leaf(b, x, z)') \/ (\E i : Waits(i, x, z)')
    BY Zenon DEF Covered
  <2>1. In(outline, x, z)' <=> In(outline, x, z)
    BY <1>1 DEF In
  <2>2. In(outline, x, z) <=> (\E b : Leaf(b, x, z)) \/ (\E i : Waits(i, x, z))
    BY Zenon DEF Tiling, Covered
  <2> QED
    BY <1>6, <2>1, <2>2, Zenon
<1>8. Apart'
  <2> SUFFICES ASSUME NEW x \in Int, NEW z \in Int
               PROVE  /\ \A b, c : Leaf(b, x, z)' /\ Leaf(c, x, z)' => b = c
                      /\ \A i, j : Waits(i, x, z)' /\ Waits(j, x, z)' => i = j
                      /\ \A b, i : ~(Leaf(b, x, z)' /\ Waits(i, x, z)')
    BY Zenon DEF Apart
  <2>1. /\ \A b, c : Leaf(b, x, z) /\ Leaf(c, x, z) => b = c
        /\ \A i, j : Waits(i, x, z) /\ Waits(j, x, z) => i = j
        /\ \A b, i : ~(Leaf(b, x, z) /\ Waits(i, x, z))
    BY Zenon DEF Tiling, Apart
  <2>2. \A b, c : Leaf(b, x, z)' /\ Leaf(c, x, z)' => b = c
    BY <1>6, <2>1
  <2>3. \A i, j : Waits(i, x, z)' /\ Waits(j, x, z)' => i = j
    BY <1>6, <2>1, Zenon
  <2>4. \A b, i : ~(Leaf(b, x, z)' /\ Waits(i, x, z)')
    BY <1>6, <2>1, Zenon
  <2> QED
    BY <2>2, <2>3, <2>4
<1> QED
  BY <1>5, <1>7, <1>8 DEF Tiling

(* Dividing it replaces it by its two halves.                              *)
LEMMA DividingTiles == ASSUME Tiling, NEW s \in Int, Divide(s) PROVE Tiling'
<1> DEFINE b == Top.box
<1> PICK n : n = Len(pending)
  OBVIOUS
<1> PICK m : m = n + 1
  OBVIOUS
<1>1. /\ pending # <<>> /\ s \in Splits(Length(b))
      /\ UNCHANGED <<outline, rule, leaves, phase>>
  BY Zenon DEF Divide
<1>2. InteriorTypeOK
  BY DEF Tiling
<1>3. /\ n \in Nat \ {0} /\ n \in DOMAIN pending /\ b \in Box /\ Top.depth \in Nat
      /\ b = pending[n].box
  BY <1>1, <1>2, TopTyped
<1> HIDE DEF b
<1>4. /\ First(b, s) \in Box /\ Second(b, s) \in Box
      /\ \A x, z \in Int :
           /\ In(b, x, z) <=> In(First(b, s), x, z) \/ In(Second(b, s), x, z)
           /\ ~(In(First(b, s), x, z) /\ In(Second(b, s), x, z))
  BY <1>1, <1>3, Halves
<1>5. /\ pending' \in Seq(Task)
      /\ DOMAIN pending' = DOMAIN pending \cup {m} /\ m \notin DOMAIN pending
      /\ \A i \in DOMAIN pending \ {n} : pending'[i] = pending[i]
      /\ pending'[n].box = Second(b, s) /\ pending'[m].box = First(b, s)
  <2> DEFINE one == [box |-> Second(b, s), depth |-> Top.depth + 1]
             two == [box |-> First(b, s), depth |-> Top.depth + 1]
  <2>1. one \in Task /\ two \in Task /\ one.box = Second(b, s) /\ two.box = First(b, s)
    BY <1>3, <1>4 DEF Task
  <2>2. pending \in Seq(Task) /\ pending' = SubSeq(pending, 1, n - 1) \o <<one, two>>
    BY <1>2 DEF Divide, Rest, InteriorTypeOK, b
  <2> HIDE DEF one, two
  <2> DEFINE rest == SubSeq(pending, 1, n - 1)
  <2>3. /\ rest \in Seq(Task) /\ Len(rest) = n - 1
        /\ \A i \in 1..(n - 1) : rest[i] = pending[i]
    <3>1. pending \in Seq(Task)
      BY <2>2
    <3> QED
      BY <1>3, <3>1
  <2> HIDE DEF rest
  <2>4. /\ <<one, two>> \in Seq(Task) /\ Len(<<one, two>>) = 2
        /\ <<one, two>>[1] = one /\ <<one, two>>[2] = two
    BY <2>1
  <2>5. pending' = rest \o <<one, two>>
    BY <2>2 DEF rest
  <2>6. pending' \in Seq(Task) /\ Len(pending') = n + 1
    BY <1>3, <2>3, <2>4, <2>5
  <2>7. \A i \in 1..(n - 1) : pending'[i] = rest[i]
    BY <1>3, <2>3, <2>4, <2>5
  <2>8. pending'[n] = one /\ pending'[m] = two
    <3> DEFINE last == <<one, two>>
    <3>1. Len(last) = 2 /\ last[1] = one /\ last[2] = two /\ last \in Seq(Task)
      BY <2>4
    <3>2. pending' = rest \o last
      BY <2>5
    <3> HIDE DEF last
    <3>3. \A i \in 1..(Len(rest) + Len(last)) :
            (rest \o last)[i] = IF i <= Len(rest) THEN rest[i] ELSE last[i - Len(rest)]
      BY <2>3, <3>1, ConcatProperties, Zenon
    <3>4. Len(rest) = n - 1 /\ Len(last) = 2 /\ n \in Nat \ {0} /\ m = n + 1
      BY <1>3, <2>3, <3>1
    <3>5. (rest \o last)[n] = last[1] /\ (rest \o last)[m] = last[2]
      <4>1. n \in 1..(Len(rest) + Len(last)) /\ ~(n <= Len(rest)) /\ n - Len(rest) = 1
        BY <3>4
      <4>2. m \in 1..(Len(rest) + Len(last)) /\ ~(m <= Len(rest)) /\ m - Len(rest) = 2
        BY <3>4
      <4>3. (rest \o last)[n] = last[n - Len(rest)]
        BY <3>3, <4>1, Zenon
      <4>4. (rest \o last)[m] = last[m - Len(rest)]
        BY <3>3, <4>2, Zenon
      <4> QED
        BY <4>1, <4>2, <4>3, <4>4, Zenon
    <3> QED
      BY <3>1, <3>2, <3>5
  <2>9. DOMAIN pending = 1..n /\ DOMAIN pending' = 1..m
    BY <2>2, <2>6
  <2>10. DOMAIN pending \ {n} = 1..(n - 1)
    BY <1>3, <2>9
  <2>11. m \notin DOMAIN pending /\ DOMAIN pending' = DOMAIN pending \cup {m}
    BY <1>3, <2>9
  <2> QED
    BY <2>1, <2>3, <2>6, <2>7, <2>8, <2>10, <2>11
<1>6. InteriorTypeOK'
  BY <1>1, <1>2, <1>5 DEF InteriorTypeOK
<1>7. n # m
  BY <1>3
<1>8. ASSUME NEW x \in Int, NEW z \in Int
      PROVE  /\ \A c : Leaf(c, x, z)' <=> Leaf(c, x, z)
             /\ \A i : i # n /\ i # m => (Waits(i, x, z)' <=> Waits(i, x, z))
             /\ ~Waits(m, x, z)
             /\ Waits(n, x, z) <=> Waits(n, x, z)' \/ Waits(m, x, z)'
             /\ ~(Waits(n, x, z)' /\ Waits(m, x, z)')
  <2>1. \A c : Leaf(c, x, z)' <=> Leaf(c, x, z)
    BY <1>1 DEF Leaf, In
  <2>2. \A i : Waits(i, x, z)' <=> i \in DOMAIN pending' /\ In(pending'[i].box, x, z)
    BY DEF Waits, In
  <2>3. \A i : i # n /\ i # m => (Waits(i, x, z)' <=> Waits(i, x, z))
    BY <1>5, <2>2 DEF Waits
  <2>4. ~Waits(m, x, z)
    BY <1>5 DEF Waits
  <2>5. Waits(n, x, z) <=> In(b, x, z)
    BY <1>3 DEF Waits
  <2>6. Waits(n, x, z)' <=> In(Second(b, s), x, z)
    BY <1>3, <1>5, <2>2
  <2>7. Waits(m, x, z)' <=> In(First(b, s), x, z)
    BY <1>5, <2>2
  <2> QED
    BY <1>4, <2>1, <2>3, <2>4, <2>5, <2>6, <2>7
<1>9. Covered'
  <2> SUFFICES ASSUME NEW x \in Int, NEW z \in Int
               PROVE  In(outline, x, z)' <=>
                        (\E c : Leaf(c, x, z)') \/ (\E i : Waits(i, x, z)')
    BY Zenon DEF Covered
  <2>1. In(outline, x, z)' <=> In(outline, x, z)
    BY <1>1 DEF In
  <2>2. In(outline, x, z) <=> (\E c : Leaf(c, x, z)) \/ (\E i : Waits(i, x, z))
    BY Zenon DEF Tiling, Covered
  <2>3. (\E i : Waits(i, x, z)') <=> (\E i : Waits(i, x, z))
    BY <1>8, Zenon
  <2> QED
    BY <1>8, <2>1, <2>2, <2>3, Zenon
<1>10. Apart'
  <2> SUFFICES ASSUME NEW x \in Int, NEW z \in Int
               PROVE  /\ \A c, d : Leaf(c, x, z)' /\ Leaf(d, x, z)' => c = d
                      /\ \A i, j : Waits(i, x, z)' /\ Waits(j, x, z)' => i = j
                      /\ \A c, i : ~(Leaf(c, x, z)' /\ Waits(i, x, z)')
    BY Zenon DEF Apart
  <2>1. /\ \A c, d : Leaf(c, x, z) /\ Leaf(d, x, z) => c = d
        /\ \A i, j : Waits(i, x, z) /\ Waits(j, x, z) => i = j
        /\ \A c, i : ~(Leaf(c, x, z) /\ Waits(i, x, z))
    BY Zenon DEF Tiling, Apart
  <2>2. \A i : Waits(i, x, z)' => Waits(i, x, z) \/ (i \in {n, m} /\ Waits(n, x, z))
    BY <1>8
  <2>3. \A i, j : Waits(i, x, z)' /\ Waits(j, x, z)' => i = j
    BY <1>8, <2>1
  <2>4. \A c, i : ~(Leaf(c, x, z)' /\ Waits(i, x, z)')
    BY <1>8, <2>1, <2>2, Zenon
  <2> QED
    BY <1>8, <2>1, <2>3, <2>4, Zenon
<1> QED
  BY <1>6, <1>9, <1>10 DEF Tiling

(* The automaton leaves the rooms alone.                                   *)
LEMMA StepsTile == Tiling /\ [InteriorNext]_interiorVars => Tiling'
<1> SUFFICES ASSUME Tiling, [InteriorNext]_interiorVars PROVE Tiling'
  OBVIOUS
<1>1. ASSUME UNCHANGED <<outline, rule, pending, leaves>>, phase' \in Phases
      PROVE  Tiling'
  <2>1. InteriorTypeOK'
    BY <1>1 DEF Tiling, InteriorTypeOK
  <2>2. Covered' /\ Apart'
    BY <1>1 DEF Tiling, Covered, Apart, Leaf, Waits, In
  <2> QED
    BY <2>1, <2>2 DEF Tiling
<1>2. CASE UNCHANGED interiorVars
  BY <1>1, <1>2 DEF interiorVars, Tiling, InteriorTypeOK
<1>3. CASE KeepWhole
  BY <1>3, KeepingTiles
<1>4. ASSUME NEW s \in 0..Length(outline), Divide(s)
      PROVE  Tiling'
  <2>1. s \in Int
    BY DEF Length, Tiling, InteriorTypeOK, Box
  <2> QED
    BY <1>4, <2>1, DividingTiles
<1>5. CASE Seed \/ AgeOnce \/ AgeTwice \/ Settle
  BY <1>1, <1>5 DEF Seed, AgeOnce, AgeTwice, AgeTo, Settle, Phases
<1> QED
  BY <1>2, <1>3, <1>4, <1>5 DEF InteriorNext

(* What is covered and apart is tiled.                                     *)
LEMMA TilingIsTiled == Tiling => RoomsTile
<1> SUFFICES ASSUME Tiling PROVE RoomsTile
  OBVIOUS
<1> DEFINE xs == UNION {{b.x0, b.x1} : b \in Pieces \cup {outline}}
           zs == UNION {{b.z0, b.z1} : b \in Pieces \cup {outline}}
           Holders(x, z) == {b \in Pieces : In(b, x, z)}
<1>1. Pieces \cup {outline} \subseteq Box
  <2>1. \A i \in DOMAIN pending : pending[i] \in Task
    BY DEF Tiling, InteriorTypeOK
  <2>2. \A i \in DOMAIN pending : pending[i].box \in Box
    BY <2>1 DEF Task
  <2> QED
    BY <2>2 DEF Pieces, Tiling, InteriorTypeOK
<1>2. xs \subseteq Int /\ zs \subseteq Int
  BY <1>1 DEF Box
<1>3. ASSUME NEW x \in Int, NEW z \in Int
      PROVE  IF In(outline, x, z) THEN \E b \in Pieces : Holders(x, z) = {b}
                                  ELSE Holders(x, z) = {}
  <2>1. \A b : b \in Holders(x, z) <=>
               Leaf(b, x, z) \/ \E i : Waits(i, x, z) /\ b = pending[i].box
    BY DEF Pieces, Leaf, Waits
  <2>2. In(outline, x, z) <=> (\E b : Leaf(b, x, z)) \/ (\E i : Waits(i, x, z))
    BY Zenon DEF Tiling, Covered
  <2>3. /\ \A b, c : Leaf(b, x, z) /\ Leaf(c, x, z) => b = c
        /\ \A i, j : Waits(i, x, z) /\ Waits(j, x, z) => i = j
        /\ \A b, i : ~(Leaf(b, x, z) /\ Waits(i, x, z))
    BY Zenon DEF Tiling, Apart
  <2>4. \A b, c \in Holders(x, z) : b = c
    <3> SUFFICES ASSUME NEW b \in Holders(x, z), NEW c \in Holders(x, z) PROVE b = c
      OBVIOUS
    <3>1. CASE Leaf(b, x, z)
      BY <2>1, <2>3, <3>1, Zenon
    <3>2. ASSUME NEW i, Waits(i, x, z), b = pending[i].box PROVE b = c
      <4>1. PICK j : Waits(j, x, z) /\ c = pending[j].box
        BY <2>1, <2>3, <3>2, Zenon
      <4>2. i = j
        BY <2>3, <3>2, <4>1, Zenon
      <4> QED
        BY <3>2, <4>1, <4>2
    <3> QED
      BY <2>1, <3>1, <3>2, Zenon
  <2>5. In(outline, x, z) <=> \E b : b \in Holders(x, z)
    BY <2>1, <2>2, Zenon
  <2>6. Holders(x, z) \subseteq Pieces
    OBVIOUS
  <2> HIDE DEF Holders
  <2> QED
    BY <2>4, <2>5, <2>6
<1> QED
  BY <1>2, <1>3 DEF RoomsTile

(* subdivide_space() loses no part of a suite and gives none to two rooms, *)
(* for any footprint, rule and jitter, whatever stops the recursion.       *)
THEOREM SuitesAreTiled == InteriorSpec => []RoomsTile
  BY TilingStarts, StepsTile, TilingIsTiled, PTL DEF InteriorSpec

-----------------------------------------------------------------------------
(* WaveCollapse                                                            *)

\* Quotient and remainder give back what they are of.
LEMMA DivideBack ==
  ASSUME NEW w \in Nat \ {0}, NEW q \in Nat, NEW x \in 0..(w - 1)
  PROVE  (q * w + x) \div w = q /\ (q * w + x) % w = x
OBVIOUS

(* Every cell is the one of its index: the first worklist has them all.    *)
LEMMA EveryCellIndexed ==
  ASSUME NEW w \in Nat \ {0}, NEW h \in Nat \ {0}, NEW t \in Nat \ {0},
         NEW c \in CellsOf(<<w, h, t>>)
  PROVE  \E i \in 1..(w * h * t) : CellAt(<<w, h, t>>, i - 1) = c
<1> DEFINE x == c[1]  y == c[2]  z == c[3]
           q == y * t + z
           i == q * w + x
<1>1. /\ c = <<x, y, z>> 
      /\ x \in 0..(w - 1) /\ y \in 0..(h - 1) /\ z \in 0..(t - 1)
  BY DEF CellsOf
<1>2. q \in Nat /\ q <= h * t - 1
  <2>1. y * t <= (h - 1) * t
    BY <1>1
  <2>2. (h - 1) * t = h * t - t /\ h * t \in Nat /\ y * t \in Nat
    BY <1>1
  <2> QED BY <1>1, <2>1, <2>2
<1>3. i \in Nat /\ i + 1 \in 1..(w * h * t)
  <2>1. q * w <= (h * t - 1) * w
    BY <1>2
  <2>2. (h * t - 1) * w = w * h * t - w /\ q * w \in Nat /\ w * h * t \in Nat
    BY <1>2
  <2> QED BY <1>1, <2>1, <2>2
<1>4. i \div w = q /\ i % w = x
  BY <1>1, <1>2, DivideBack
<1>5. q % t = z
  BY <1>1, DivideBack
<1>6. i \div (w * t) = y
  <2>1. z * w + x \in 0..(w * t - 1)
    <3>1. z * w <= (t - 1) * w
      BY <1>1
    <3>2. (t - 1) * w = w * t - w /\ z * w \in Nat /\ w * t \in Nat
      BY <1>1
    <3> QED BY <1>1, <3>1, <3>2
  <2>2. i = y * (w * t) + (z * w + x)
    BY <1>1
  <2>3. w * t \in Nat \ {0}
    OBVIOUS
  <2>4. y \in Nat
    BY <1>1
  <2> HIDE DEF x, y, z, q, i
  <2>5. (y * (w * t) + (z * w + x)) \div (w * t) = y
    BY <2>1, <2>3, <2>4, DivideBack
  <2> QED BY <2>2, <2>5
<1>7. CellAt(<<w, h, t>>, i) = c
  BY <1>1, <1>4, <1>5, <1>6 DEF CellAt
<1>8. (i + 1) - 1 = i
  BY <1>3
<1> QED BY <1>3, <1>7, <1>8

\* The opposite of the opposite is the direction itself.
LEMMA OppositeTwice ==
  ASSUME NEW d \in Axis6
  PROVE  Opposite(d) \in Axis6 /\ Opposite(Opposite(d)) = d
<1>1. d \in {0, 1, 2, 3, 4, 5}
  BY DEF Axis6
<1> QED BY <1>1 DEF Opposite, Axis6

\* One step there and one back lead to the same cell, by way of another.
LEMMA ThereAndBack ==
  ASSUME NEW c \in Int \X Int \X Int, NEW d \in Axis6
  PROVE  NextTo(c, d) # c /\ NextTo(NextTo(c, d), Opposite(d)) = c
<1>1. d \in {0, 1, 2, 3, 4, 5}
  BY DEF Axis6
<1>2. c = <<c[1], c[2], c[3]>> /\ c[1] \in Int /\ c[2] \in Int /\ c[3] \in Int
  OBVIOUS
<1> QED BY <1>1, <1>2 DEF Opposite, NextTo, Offset

(* A tolerates B to one side exactly when B tolerates A to the other.      *)
LEMMA RulesMirror ==
  ASSUME NEW a \in Modules, NEW b \in Modules, NEW d \in Axis6
  PROVE  b \in Allowed(a, d) <=> a \in Allowed(b, Opposite(d))
BY OppositeTwice DEF Allowed

-----------------------------------------------------------------------------
Waiting(c) == \E i \in DOMAIN work : work[i] = c

\* c has taken from its neighbour in this direction what it does not tolerate,
\* or is still to do so.
Honoured(c, d) ==
  NextTo(c, d) \in Cells => cells[NextTo(c, d)] \subseteq Support(cells[c], d)
Served(c, d) == Honoured(c, d) \/ (busy = c /\ dir <= d)

WaveTypes ==
  /\ lattice \in Lattices
  /\ cells \in [Cells -> SUBSET Modules]
  /\ work \in Seq(Cells)
  /\ busy \in Cells \cup {Nowhere} /\ dir \in Axis6
  /\ outcome \in {"running", "contradiction", "solved"}

WaveInv ==
  /\ WaveTypes
  /\ \A c \in Cells : cells[c] # {}
  /\ \A c \in Cells, d \in Axis6 : Waiting(c) \/ Served(c, d)
  /\ outcome = "solved" =>
       work = <<>> /\ busy = Nowhere /\ \A c \in Cells : ~Superposed(c)

\* The cells of a lattice are places, and nowhere is not one.
LEMMA LatticeKnown ==
  ASSUME WaveTypes
  PROVE  /\ Cells \subseteq Int \X Int \X Int
         /\ Nowhere \notin Cells
BY WaveAssumption DEF WaveTypes, Cells, CellsOf

\* What is supported are modules.
LEMMA SupportInModules ==
  ASSUME NEW mask, NEW d
  PROVE  Support(mask, d) \subseteq Modules
BY DEF Support, Allowed

\* Whether a cell is honoured depends on lattice and cells only.
LEMMA HonouredStays ==
  ASSUME lattice' = lattice, cells' = cells, NEW c, NEW d
  PROVE  Honoured(c, d)' <=> Honoured(c, d)
BY DEF Honoured, Cells, Support, Allowed

\* At first every cell holds everything it can support, and nobody waits unserved.
LEMMA WaveInitInv == WaveInit => WaveInv
<1> SUFFICES ASSUME WaveInit PROVE WaveInv
  OBVIOUS
<1> DEFINE w == lattice.extent[1]  h == lattice.extent[2]  t == lattice.extent[3]
<1>1. /\ w \in Nat \ {0} /\ h \in Nat \ {0} /\ t \in Nat \ {0}
      /\ lattice.extent = <<w, h, t>>
  BY WaveAssumption DEF WaveInit
<1>2. Cells = CellsOf(<<w, h, t>>)
  BY <1>1 DEF Cells
<1>3. w * h * t \in Nat
  BY <1>1
<1>4. ASSUME NEW i \in 1..(w * h * t) PROVE CellAt(<<w, h, t>>, i - 1) \in Cells
  <2> DEFINE j == i - 1
             k == w * t
  <2>1. j \in Nat /\ j < w * h * t /\ k \in Nat \ {0} /\ k * h = w * h * t
    BY <1>1, <1>3
  <2>2. j % w \in 0..(w - 1) /\ (j \div w) % t \in 0..(t - 1) /\ j \div w \in Nat
    BY <1>1, <2>1
  <2>3. j \div k \in 0..(h - 1)
    <3> DEFINE y == j \div k
    <3>1. y \in Nat /\ k * y <= j
      BY <2>1
    <3>2. CASE y >= h
      <4>1. k * y >= k * h
        BY <1>1, <2>1, <3>1, <3>2
      <4> QED BY <4>1, <2>1, <3>1, <1>3
    <3> QED BY <3>1, <3>2, <1>1
  <2> QED BY <1>1, <1>2, <2>2, <2>3 DEF CellAt, CellsOf
<1>5. work = [i \in 1..(w * h * t) |-> CellAt(<<w, h, t>>, i - 1)]
  BY <1>1 DEF WaveInit
<1>6. WaveTypes
  <2>1. work \in Seq(Cells)
    BY <1>3, <1>4, <1>5, SMTT(60)
  <2> QED BY <2>1 DEF WaveInit, WaveTypes, Axis6
<1>7. ASSUME NEW c \in Cells PROVE Waiting(c)
  <2>1. PICK i \in 1..(w * h * t) : CellAt(<<w, h, t>>, i - 1) = c
    <3>1. c \in CellsOf(<<w, h, t>>)
      BY <1>2
    <3>2. w \in Nat \ {0} /\ h \in Nat \ {0} /\ t \in Nat \ {0}
      BY <1>1
    <3> HIDE DEF w, h, t
    <3> QED BY ONLY <3>1, <3>2, EveryCellIndexed, SMTT(30)
  <2> QED BY <1>5, <2>1 DEF Waiting
<1> QED BY <1>6, <1>7, WaveAssumption DEF WaveInit, WaveInv

\* What a visit leaves served, and what a draw does.
LEMMA ServedAfterRestrict ==
  ASSUME WaveInv, RestrictNeighbour,
         NEW c \in Cells, NEW d \in Axis6, Served(c, d), c # NextTo(busy, dir)
  PROVE  Served(c, d)'
<1> DEFINE n == NextTo(busy, dir)
<1>1. /\ n \in Cells /\ lattice' = lattice /\ NextDirection /\ dir \in Axis6
      /\ cells' = [cells EXCEPT ![n] = Restricted(busy, dir)]
      /\ cells \in [Cells -> SUBSET Modules]
  BY DEF RestrictNeighbour, WaveInv, WaveTypes
<1>2. /\ Restricted(busy, dir) \subseteq cells[n]
      /\ Restricted(busy, dir) \subseteq Support(cells[busy], dir)
  BY DEF Restricted
<1> HIDE DEF n
<1>3. /\ Cells' = Cells /\ cells'[c] = cells[c] /\ cells'[n] = Restricted(busy, dir)
      /\ \A b \in Cells : cells'[b] \subseteq cells[b]
  BY <1>1, <1>2 DEF Cells, n
<1>4. Support(cells[c], d)' = Support(cells[c], d)
  <2>1. lattice' = lattice /\ cells'[c] = cells[c]
    BY <1>1, <1>3
  <2> QED BY <2>1 DEF Support, Allowed
<1>5. CASE busy = c /\ d = dir
  BY <1>2, <1>3, <1>4, <1>5 DEF Served, Honoured, n
<1>6. CASE busy = c /\ dir < d
  BY <1>6, <1>1 DEF Served, NextDirection, Axis6
<1>7. CASE Honoured(c, d)
  BY <1>3, <1>4, <1>7 DEF Served, Honoured
<1> QED BY <1>1, <1>5, <1>6, <1>7 DEF Served, Axis6

\* A draw changes one cell, and leaves the others served.
LEMMA ServedAfterDraw ==
  ASSUME WaveInv, NEW c \in Cells, NEW m \in Modules, Draw(c, m),
         NEW b \in Cells \ {c}, NEW d \in Axis6, Served(b, d)
  PROVE  Served(b, d)'
<1>1. /\ WaveQuiet /\ m \in cells[c] /\ cells' = [cells EXCEPT ![c] = {m}]
      /\ lattice' = lattice /\ cells \in [Cells -> SUBSET Modules]
  BY DEF Draw, WaveInv, WaveTypes
<1>2. /\ Cells' = Cells /\ cells'[b] = cells[b]
      /\ \A a \in Cells : cells'[a] \subseteq cells[a]
  BY <1>1 DEF Cells
<1>3. Honoured(b, d)
  BY <1>1, LatticeKnown DEF Served, WaveQuiet, WaveInv
<1>4. Support(cells[b], d)' = Support(cells[b], d)
  BY <1>1, <1>2 DEF Support, Allowed
<1> QED BY <1>2, <1>3, <1>4 DEF Served, Honoured

\* Every step leaves each cell honoured by its neighbours or waiting to be.
LEMMA WaveNextInv == WaveInv /\ [WaveNext]_waveVars => WaveInv'
<1> SUFFICES ASSUME WaveInv, [WaveNext]_waveVars PROVE WaveInv'
  OBVIOUS
<1> USE DEF WaveInv, WaveTypes
<1>1. CASE Pop
  <2>1. /\ work # <<>> /\ busy = Nowhere /\ busy' = work[Len(work)] /\ dir' = 0
        /\ work' = SubSeq(work, 1, Len(work) - 1) /\ outcome = "running"
        /\ UNCHANGED <<lattice, cells, outcome>>
    BY <1>1 DEF Pop
  <2>2. Len(work) \in Nat \ {0} /\ work[Len(work)] \in Cells /\ work' \in Seq(Cells)
        /\ DOMAIN work' = 1..(Len(work) - 1)
        /\ \A i \in 1..(Len(work) - 1) : work'[i] = work[i]
    BY <2>1
  <2>3. WaveTypes'
    BY <2>1, <2>2 DEF Cells, Axis6
  <2>4. ASSUME NEW c \in Cells, NEW d \in Axis6 PROVE (Waiting(c) \/ Served(c, d))'
    <3>1. CASE Waiting(c)
      <4>1. PICK i \in DOMAIN work : work[i] = c
        BY <3>1 DEF Waiting
      <4>2. CASE i = Len(work)
        BY <4>1, <4>2, <2>1 DEF Served, Axis6
      <4>3. CASE i # Len(work)
        BY <4>1, <4>3, <2>2, SMTT(60) DEF Waiting
      <4> QED BY <4>2, <4>3
    <3>2. CASE Served(c, d) /\ busy # c
      BY <3>2, <2>1, HonouredStays DEF Served
    <3>3. c # Nowhere
      BY LatticeKnown
    <3> QED BY <3>1, <3>2, <3>3, <2>1
  <2> QED BY <2>1, <2>3, <2>4 DEF Cells
<1>2. CASE Pass
  <2>1. /\ busy # Nowhere /\ outcome = "running" /\ NextDirection
        /\ UNCHANGED <<lattice, cells, work, outcome>>
        /\ NextTo(busy, dir) \in Cells => cells[NextTo(busy, dir)] \subseteq Support(cells[busy], dir)
    BY <1>2 DEF Pass, Restricted
  <2>2. busy' \in Cells \cup {Nowhere} /\ dir' \in Axis6
    BY <2>1 DEF NextDirection, Axis6, Cells
  <2>3. ASSUME NEW c \in Cells, NEW d \in Axis6 PROVE (Waiting(c) \/ Served(c, d))'
    <3>1. CASE busy = c /\ dir <= d
      <4>1. CASE d = dir
        BY <3>1, <4>1, <2>1, HonouredStays DEF Served, Honoured
      <4>2. CASE d # dir
        BY <3>1, <4>2, <2>1 DEF Served, NextDirection, Axis6
      <4> QED BY <4>1, <4>2
    <3>2. CASE Waiting(c) \/ Honoured(c, d)
      BY <3>2, <2>1, HonouredStays DEF Waiting, Served
    <3> QED BY <3>1, <3>2 DEF Served
  <2> QED BY <2>1, <2>2, <2>3 DEF Cells
<1>3. CASE RestrictNeighbour
  <2> DEFINE n == NextTo(busy, dir)
  <2>1. /\ busy # Nowhere /\ outcome = "running" /\ NextDirection
        /\ n \in Cells /\ Restricted(busy, dir) # {}
        /\ cells' = [cells EXCEPT ![n] = Restricted(busy, dir)]
        /\ work' = Append(work, n)
        /\ UNCHANGED <<lattice, outcome>>
    BY <1>3 DEF RestrictNeighbour
  <2> HIDE DEF n
  <2>2. busy' \in Cells \cup {Nowhere} /\ dir' \in Axis6
    BY <2>1 DEF NextDirection, Axis6, Cells
  <2>3. /\ Restricted(busy, dir) \subseteq cells[n]
        /\ Restricted(busy, dir) \subseteq Support(cells[busy], dir)
        /\ Restricted(busy, dir) \subseteq Modules
    BY SupportInModules DEF Restricted, n
  <2>4. /\ Cells' = Cells
        /\ cells' \in [Cells -> SUBSET Modules] 
        /\ \A c \in Cells : cells'[c] \subseteq cells[c] /\ cells'[c] # {}
        /\ \A c \in Cells : c # n => cells'[c] = cells[c]
        /\ cells'[n] = Restricted(busy, dir)
    BY <2>1, <2>3 DEF Cells
  <2>5. work' \in Seq(Cells) /\ \A c \in Cells : Waiting(c) \/ c = n => Waiting(c)'
    BY <2>1 DEF Waiting
  <2>6. ASSUME NEW c \in Cells, NEW d \in Axis6, ~Waiting(c)' PROVE Served(c, d)'
    BY <1>3, <2>5, <2>6, ServedAfterRestrict DEF n
  <2> QED BY <2>1, <2>2, <2>4, <2>5, <2>6
<1>4. CASE Contradict
  BY <1>4, HonouredStays DEF Contradict, Cells, Waiting, Served
<1>5. ASSUME NEW c \in Cells, NEW m \in Modules, Draw(c, m) PROVE WaveInv'
  <2>1. /\ WaveQuiet /\ m \in cells[c]
        /\ cells' = [cells EXCEPT ![c] = {m}]
        /\ work' = <<c>>
        /\ UNCHANGED <<lattice, busy, dir, outcome>>
    BY <1>5 DEF Draw
  <2>2. /\ Cells' = Cells
        /\ cells' \in [Cells -> SUBSET Modules]
        /\ \A b \in Cells : cells'[b] \subseteq cells[b] /\ cells'[b] # {}
        /\ \A b \in Cells : b # c => cells'[b] = cells[b]
    BY <2>1 DEF Cells
  <2>3. work' \in Seq(Cells) /\ Waiting(c)'
    BY <2>1 DEF Waiting
  <2>4. ASSUME NEW b \in Cells \ {c}, NEW d \in Axis6 PROVE Served(b, d)'
    BY <1>5, <2>1, ServedAfterDraw DEF WaveQuiet, Waiting
  <2> QED BY <2>1, <2>2, <2>3, <2>4 DEF WaveQuiet
<1>6. CASE Solve
  BY <1>6, HonouredStays DEF Solve, WaveQuiet, Cells, Waiting, Served, Superposed
<1>7. CASE UNCHANGED waveVars
  BY <1>7, HonouredStays DEF waveVars, Cells, Waiting, Served, Superposed
<1> QED BY <1>1, <1>2, <1>3, <1>4, <1>5, <1>6, <1>7 DEF WaveNext

(* A solution obeys the rules in every direction.                          *)
THEOREM SolutionsObeyTheRules == WaveSpec => []SolutionsAreLegal
<1>1. WaveInv => SolutionsAreLegal
  <2> SUFFICES ASSUME WaveInv, outcome = "solved"
               PROVE  \E layout \in [Cells -> Modules] :
                        Legal(layout) /\ \A c \in Cells : cells[c] = {layout[c]}
    BY DEF SolutionsAreLegal
  <2> DEFINE layout == [c \in Cells |-> CHOOSE m \in Modules : m \in cells[c]]
  <2>1. ASSUME NEW c \in Cells PROVE layout[c] \in Modules /\ cells[c] = {layout[c]}
    <3>1. \E m \in Modules : m \in cells[c]
      BY DEF WaveInv, WaveTypes
    <3>2. layout[c] \in Modules /\ layout[c] \in cells[c]
      BY <3>1
    <3> QED BY <3>2 DEF WaveInv, Superposed
  <2>2. layout \in [Cells -> Modules]
    BY <2>1
  <2> HIDE DEF layout
  <2>3. ASSUME NEW c \in Cells, NEW d \in Axis6, NextTo(c, d) \in Cells
        PROVE  layout[NextTo(c, d)] \in Allowed(layout[c], d)
    <3>1. cells[NextTo(c, d)] \subseteq Support(cells[c], d)
      BY <2>3, LatticeKnown DEF WaveInv, Served, Honoured, Waiting
    <3> QED BY <3>1, <2>1, <2>3 DEF Support
  <2> QED BY <2>1, <2>2, <2>3 DEF Legal
<1> QED BY <1>1, WaveInitInv, WaveNextInv, PTL DEF WaveSpec

-----------------------------------------------------------------------------
LegalAndDrawn(layout) == Legal(layout) /\ \A c \in DOMAIN drawn : layout[c] = drawn[c]

\* What was drawn at a cell is all it can be.
DrawsHold == DOMAIN drawn \subseteq Cells /\ \A c \in DOMAIN drawn : cells[c] \subseteq {drawn[c]}

KeptInv == DrawsHold /\ NothingLegalLost

\* Which layouts obey the rules does not change.
LEMMA LegalStays ==
  ASSUME lattice' = lattice, NEW layout
  PROVE  Cells' = Cells /\ (Legal(layout)' <=> Legal(layout))
BY DEF Legal, Cells, Allowed

\* A step that touches no cell keeps what could be.
LEMMA KeptStays ==
  ASSUME KeptInv, UNCHANGED <<lattice, cells, drawn>>,
         outcome' = "contradiction" => outcome = "contradiction"
  PROVE  KeptInv'
<1>1. Cells' = Cells
  BY DEF Cells
<1>2. DrawsHold'
  BY <1>1 DEF KeptInv, DrawsHold
<1>3. ASSUME NEW layout \in [Cells -> Modules], Legal(layout)',
             \A c \in DOMAIN drawn : layout[c] = drawn[c]
      PROVE  outcome' # "contradiction" /\ \A c \in Cells : layout[c] \in cells[c]
  BY <1>3, LegalStays DEF KeptInv, NothingLegalLost
<1> QED BY <1>1, <1>2, <1>3 DEF KeptInv, NothingLegalLost

\* At first nothing that could be is lost.
LEMMA KeptInit == WaveInit => KeptInv
BY DEF WaveInit, KeptInv, DrawsHold, NothingLegalLost

\* No step loses what could be.
LEMMA KeptNext == WaveInv /\ KeptInv /\ [WaveNext]_waveVars => KeptInv'
<1> SUFFICES ASSUME WaveInv, KeptInv, [WaveNext]_waveVars PROVE KeptInv'
  OBVIOUS
<1> DEFINE n == NextTo(busy, dir)
<1>1. ASSUME NEW layout \in [Cells -> Modules], Legal(layout),
             \A c \in DOMAIN drawn : layout[c] = drawn[c],
             busy \in Cells, n \in Cells
      PROVE  layout[n] \in Restricted(busy, dir)
  <2>1. layout[n] \in cells[n] /\ layout[busy] \in cells[busy]
    BY <1>1 DEF KeptInv, NothingLegalLost
  <2>2. layout[n] \in Allowed(layout[busy], dir)
    BY <1>1 DEF Legal, WaveInv, WaveTypes
  <2> QED BY <2>1, <2>2 DEF Restricted, Support
<1>2. CASE RestrictNeighbour
  <2>1. /\ busy \in Cells /\ n \in Cells /\ outcome = "running"
        /\ cells' = [cells EXCEPT ![n] = Restricted(busy, dir)]
        /\ UNCHANGED <<lattice, outcome, drawn>>
    BY <1>2 DEF RestrictNeighbour, WaveInv, WaveTypes
  <2>2. Restricted(busy, dir) \subseteq cells[n] /\ Cells' = Cells
    BY <2>1 DEF Restricted, Cells
  <2>3. cells \in [Cells -> SUBSET Modules]
    BY DEF WaveInv, WaveTypes
  <2> HIDE DEF n
  <2>4. DrawsHold'
    BY <2>1, <2>2, <2>3 DEF KeptInv, DrawsHold
  <2>5. ASSUME NEW layout \in [Cells -> Modules], Legal(layout)',
               \A c \in DOMAIN drawn : layout[c] = drawn[c]
        PROVE  \A c \in Cells : layout[c] \in cells'[c]
    <3>1. Legal(layout)
      BY <2>1, <2>5, LegalStays
    <3>2. layout[n] \in Restricted(busy, dir)
      BY <1>1, <2>1, <2>5, <3>1
    <3>3. \A c \in Cells : layout[c] \in cells[c]
      BY <2>5, <3>1 DEF KeptInv, NothingLegalLost
    <3> QED BY <2>1, <2>3, <3>2, <3>3
  <2> QED BY <2>1, <2>2, <2>4, <2>5 DEF KeptInv, NothingLegalLost
<1>3. CASE Contradict
  <2>1. /\ busy \in Cells /\ n \in Cells /\ Restricted(busy, dir) = {}
        /\ UNCHANGED <<lattice, cells, drawn>>
    BY <1>3 DEF Contradict, WaveInv, WaveTypes
  <2> HIDE DEF n
  <2>2. DrawsHold'
    BY <2>1 DEF KeptInv, DrawsHold, Cells
  <2>3. ASSUME NEW layout \in [Cells -> Modules], Legal(layout)',
               \A c \in DOMAIN drawn : layout[c] = drawn[c]
        PROVE  FALSE
    <3>1. Legal(layout)
      BY <2>1, <2>3, LegalStays
    <3> QED BY <1>1, <2>1, <2>3, <3>1
  <2>4. Cells' = Cells
    BY <2>1 DEF Cells
  <2> QED BY <2>1, <2>2, <2>3, <2>4 DEF KeptInv, NothingLegalLost
<1>4. ASSUME NEW c \in Cells, NEW m \in Modules, Draw(c, m) PROVE KeptInv'
  <2>1. /\ m \in cells[c] /\ outcome = "running"
        /\ cells' = [cells EXCEPT ![c] = {m}]
        /\ drawn' = [b \in DOMAIN drawn \cup {c} |-> IF b = c THEN m ELSE drawn[b]]
        /\ UNCHANGED <<lattice, outcome>>
    BY <1>4 DEF Draw, WaveQuiet
  <2>2. /\ cells \in [Cells -> SUBSET Modules] /\ Cells' = Cells
        /\ DOMAIN drawn \subseteq Cells
        /\ c \in DOMAIN drawn => m = drawn[c]
    BY <2>1 DEF WaveInv, WaveTypes, KeptInv, DrawsHold, Cells
  <2>3. DrawsHold'
    BY <2>1, <2>2 DEF KeptInv, DrawsHold
  <2>4. ASSUME NEW layout \in [Cells -> Modules], Legal(layout)',
               \A b \in DOMAIN drawn' : layout[b] = drawn'[b]
        PROVE  \A b \in Cells : layout[b] \in cells'[b]
    <3>1. Legal(layout)
      BY <2>1, <2>4, LegalStays
    <3>2. layout[c] = m
      BY <2>1, <2>4
    <3>3. ASSUME NEW b \in DOMAIN drawn PROVE layout[b] = drawn[b]
      BY <2>1, <2>2, <2>4, <3>2
    <3>4. \A b \in Cells : layout[b] \in cells[b]
      BY <3>1, <3>3 DEF KeptInv, NothingLegalLost
    <3> QED BY <2>1, <2>2, <3>2, <3>4
  <2> QED BY <2>1, <2>2, <2>3, <2>4 DEF KeptInv, NothingLegalLost
<1>5. CASE Pop \/ Pass \/ Solve \/ UNCHANGED waveVars
  <2>1. /\ UNCHANGED <<lattice, cells, drawn>>
        /\ outcome' = "contradiction" => outcome = "contradiction"
    BY <1>5 DEF Pop, Pass, Solve, waveVars
  <2> QED BY <2>1, KeptStays
<1> QED BY <1>2, <1>3, <1>4, <1>5 DEF WaveNext

-----------------------------------------------------------------------------
\* u may stand beside every module wherever the lattice extends.
Universal(u) ==
  \A a \in Modules, c \in Cells, d \in Axis6 :
    NextTo(c, d) \in Cells => u \in Allowed(a, d)

\* A cell that was drawn is still on its own in the worklist, or its
\* neighbours heed it as far as they were visited.
Heeded(c) ==
  /\ \E m \in Modules : cells[c] = {m}
  /\ (busy = Nowhere /\ work = <<c>>) \/ \A d \in Axis6 : Served(c, d)

PermissiveInv ==
  \A u \in Modules : Universal(u) =>
    /\ outcome # "contradiction"
    /\ \A c \in Cells : u \in cells[c] \/ Heeded(c)

\* The module that goes with all is supported by every cell.
LEMMA UniversalSurvives ==
  ASSUME WaveInv, NEW u \in Modules, Universal(u), busy \in Cells, NextTo(busy, dir) \in Cells
  PROVE  u \in Support(cells[busy], dir)
<1>1. PICK a \in Modules : a \in cells[busy]
  BY DEF WaveInv, WaveTypes
<1>2. u \in Allowed(a, dir)
  BY DEF Universal, WaveInv, WaveTypes
<1> QED BY <1>1, <1>2 DEF Support

\* A neighbour that is heeded loses nothing to a restriction.
LEMMA HeededSurvives ==
  ASSUME WaveInv, busy \in Cells, NextTo(busy, dir) \in Cells, Heeded(NextTo(busy, dir))
  PROVE  Restricted(busy, dir) = cells[NextTo(busy, dir)]
<1> DEFINE n == NextTo(busy, dir)
           back == Opposite(dir)
<1>1. PICK k \in Modules : cells[n] = {k}
  BY DEF Heeded
<1>2. dir \in Axis6 /\ back \in Axis6 /\ Opposite(back) = dir
  BY OppositeTwice DEF WaveInv, WaveTypes
<1>3. n # busy /\ NextTo(n, back) = busy /\ busy # Nowhere
  BY <1>2, LatticeKnown, ThereAndBack DEF WaveInv
<1>4. Served(n, back)
  BY <1>2, <1>3 DEF Heeded
<1>5. cells[busy] \subseteq Support(cells[n], back)
  BY <1>3, <1>4 DEF Served, Honoured
<1>6. PICK a \in Modules : a \in cells[busy]
  BY DEF WaveInv, WaveTypes
<1>7. a \in Allowed(k, back)
  BY <1>1, <1>5, <1>6 DEF Support
<1>8. k \in Allowed(a, dir)
  BY <1>2, <1>7, RulesMirror
<1> QED BY <1>1, <1>6, <1>8 DEF Restricted, Support

\* At first every cell holds the module that goes with all.
LEMMA PermissiveInit == WaveInit => PermissiveInv
BY DEF WaveInit, PermissiveInv

\* Every step leaves that module in a cell, or the cell single and heeded.
LEMMA PermissiveNext == WaveInv /\ PermissiveInv /\ [WaveNext]_waveVars => PermissiveInv'
<1> SUFFICES ASSUME WaveInv, PermissiveInv, [WaveNext]_waveVars,
                    NEW u \in Modules, Universal(u)'
             PROVE  /\ outcome' # "contradiction"
                    /\ \A c \in Cells' : u \in cells'[c] \/ Heeded(c)'
  BY DEF PermissiveInv
<1>1. lattice' = lattice
  BY DEF WaveNext, waveVars, Pop, Pass, RestrictNeighbour, Contradict, Draw, Solve
<1>2. Cells' = Cells /\ Universal(u)
  BY <1>1 DEF Cells, Universal, Allowed
<1>3. outcome # "contradiction" /\ \A c \in Cells : u \in cells[c] \/ Heeded(c)
  BY <1>2 DEF PermissiveInv
<1>4. Nowhere \notin Cells
  BY LatticeKnown DEF WaveInv
<1>5. CASE Pop
  <2>1. /\ busy = Nowhere /\ dir' = 0 /\ UNCHANGED <<lattice, cells, outcome>>
        /\ busy' = work[Len(work)]
    BY <1>5 DEF Pop
  <2>2. ASSUME NEW c \in Cells, Heeded(c) PROVE Heeded(c)'
    <3>1. CASE work = <<c>>
      BY <2>1, <2>2, <3>1 DEF Heeded, Served, Axis6
    <3>2. CASE \A d \in Axis6 : Served(c, d)
      <4>1. ASSUME NEW d \in Axis6 PROVE Honoured(c, d)
        BY <2>1, <3>2, <1>4 DEF Served
      <4> QED BY <2>1, <2>2, <4>1, HonouredStays DEF Heeded, Served
    <3> QED BY <2>2, <3>1, <3>2 DEF Heeded
  <2> QED BY <1>2, <1>3, <2>1, <2>2
<1>6. CASE Pass
  <2>1. /\ busy # Nowhere /\ NextDirection /\ UNCHANGED <<lattice, cells, outcome>>
        /\ NextTo(busy, dir) \in Cells => cells[NextTo(busy, dir)] \subseteq Support(cells[busy], dir)
    BY <1>6 DEF Pass, Restricted
  <2>2. ASSUME NEW c \in Cells, NEW d \in Axis6, Served(c, d) PROVE Served(c, d)'
    <3>1. CASE busy = c /\ d = dir
      BY <3>1, <2>1, HonouredStays DEF Served, Honoured
    <3>2. CASE busy = c /\ dir < d
      BY <3>2, <2>1 DEF Served, NextDirection, Axis6, WaveInv, WaveTypes
    <3>3. CASE Honoured(c, d)
      BY <3>3, <2>1, HonouredStays DEF Served
    <3> QED BY <2>2, <3>1, <3>2, <3>3 DEF Served, Axis6, WaveInv, WaveTypes
  <2>3. ASSUME NEW c \in Cells, Heeded(c) PROVE Heeded(c)'
    BY <2>1, <2>2, <2>3 DEF Heeded
  <2> QED BY <1>2, <1>3, <2>1, <2>3
<1>7. CASE RestrictNeighbour
  <2> DEFINE n == NextTo(busy, dir)
  <2>1. /\ busy \in Cells /\ busy # Nowhere /\ n \in Cells /\ outcome' = outcome
        /\ cells' = [cells EXCEPT ![n] = Restricted(busy, dir)]
        /\ Restricted(busy, dir) # cells[n]
        /\ cells \in [Cells -> SUBSET Modules]
    BY <1>7 DEF RestrictNeighbour, WaveInv, WaveTypes
  <2>2. u \in cells[n] /\ u \in Restricted(busy, dir)
    BY <1>2, <1>3, <2>1, HeededSurvives, UniversalSurvives DEF Restricted
  <2>3. ASSUME NEW c \in Cells, c # n, Heeded(c) PROVE Heeded(c)'
    <3>1. \A d \in Axis6 : Served(c, d)'
      BY <1>7, <2>1, <2>3, ServedAfterRestrict DEF Heeded
    <3> QED BY <2>1, <2>3, <3>1 DEF Heeded
  <2> HIDE DEF n
  <2> QED BY <1>2, <1>3, <2>1, <2>2, <2>3
<1>8. CASE Contradict
  <2>1. /\ busy \in Cells /\ NextTo(busy, dir) \in Cells /\ Restricted(busy, dir) = {}
        /\ cells[NextTo(busy, dir)] # {}
    BY <1>8 DEF Contradict, WaveInv, WaveTypes
  <2> QED BY <1>2, <1>3, <2>1, HeededSurvives, UniversalSurvives DEF Restricted
<1>9. ASSUME NEW c \in Cells, NEW m \in Modules, Draw(c, m)
      PROVE  outcome' # "contradiction" /\ \A b \in Cells : u \in cells'[b] \/ Heeded(b)'
  <2>1. /\ WaveQuiet /\ cells' = [cells EXCEPT ![c] = {m}] /\ work' = <<c>>
        /\ UNCHANGED <<busy, outcome>> /\ cells \in [Cells -> SUBSET Modules]
    BY <1>9 DEF Draw, WaveInv, WaveTypes
  <2>2. Heeded(c)'
    BY <2>1 DEF Heeded, WaveQuiet
  <2>3. ASSUME NEW b \in Cells \ {c}, Heeded(b) PROVE Heeded(b)'
    <3>1. \A d \in Axis6 : Served(b, d)
      BY <2>1, <2>3 DEF Heeded, WaveQuiet
    <3>2. \A d \in Axis6 : Served(b, d)'
      BY <1>9, <3>1, ServedAfterDraw
    <3> QED BY <2>1, <2>3, <3>2 DEF Heeded
  <2> QED BY <1>3, <2>1, <2>2, <2>3
<1>10. CASE Solve \/ UNCHANGED waveVars
  <2>1. UNCHANGED <<lattice, cells, work, busy, dir>> /\ outcome' # "contradiction"
    BY <1>10, <1>3 DEF Solve, waveVars
  <2>2. ASSUME NEW c \in Cells, Heeded(c) PROVE Heeded(c)'
    BY <2>1, <2>2, HonouredStays DEF Heeded, Served
  <2> QED BY <1>2, <1>3, <2>1, <2>2
<1> QED BY <1>2, <1>5, <1>6, <1>7, <1>8, <1>9, <1>10 DEF WaveNext

(* Propagation takes away only what cannot be, and a permissive catalogue  *)
(* never runs into a contradiction.                                        *)
THEOREM OnlyTheImpossibleGoes == WaveSpec => []ContradictionsAreReal
<1>1. KeptInv /\ PermissiveInv => ContradictionsAreReal
  BY DEF KeptInv, PermissiveInv, ContradictionsAreReal, Permissive, Universal, Allowed
<1>2. KeptInv /\ PermissiveInv /\ WaveInv /\ [WaveNext]_waveVars => (KeptInv /\ PermissiveInv /\ WaveInv)'
  BY WaveNextInv, KeptNext, PermissiveNext
<1> QED BY <1>1, <1>2, WaveInitInv, KeptInit, PermissiveInit, PTL DEF WaveSpec

-----------------------------------------------------------------------------
(* VoxelLighting.  What reaches a voxel through air, for any room.         *)

(* A nonempty set of numbers has a least one.                              *)
LEMMA LeastNumber ==
  ASSUME NEW S \in SUBSET Nat, S # {}
  PROVE  \E m \in S : \A n \in S : m <= n
<1> DEFINE R == OpToRel(<, Nat)
<1>1. IsWellFoundedOn(R, Nat)
  BY NatLessThanWellFounded
<1>2. \A x, y \in Nat : y < x => <<y, x>> \in R
  BY DEF OpToRel
<1> HIDE DEF R
<1>3. PICK m \in S : \A y \in S : ~(<<y, m>> \in R)
  BY <1>1, WFMin
<1>4. \A n \in S : ~(n < m) /\ n \in Nat /\ m \in Nat
  BY <1>2, <1>3
<1> QED BY <1>4

(* The voxels of a grid are finitely many points of three coordinates.     *)
LEMMA VoxelsArePoints ==
  ASSUME NEW size \in [1..3 -> Nat]
  PROVE  /\ IsFiniteSet(VoxelsOf(size))
         /\ VoxelsOf(size) \subseteq Int \X Int \X Int
<1>1. \A i \in 1..3 : IsFiniteSet(0..(size[i] - 1)) /\ 0..(size[i] - 1) \subseteq Int
  <2> TAKE i \in 1..3
  <2>1. 0 \in Int /\ size[i] - 1 \in Int
    OBVIOUS
  <2> QED BY <2>1, FS_Interval
<1> DEFINE X == 0..(size[1] - 1)
           Y == 0..(size[2] - 1)
           Z == 0..(size[3] - 1)
<1>2. /\ IsFiniteSet(X) /\ IsFiniteSet(Y) /\ IsFiniteSet(Z)
      /\ X \subseteq Int /\ Y \subseteq Int /\ Z \subseteq Int
  BY <1>1
<1>3. VoxelsOf(size) = X \X Y \X Z
  BY DEF VoxelsOf
<1> HIDE DEF X, Y, Z
<1>4. VoxelsOf(size) \subseteq Int \X Int \X Int
  BY <1>2, <1>3
<1>5. IsFiniteSet(X \X (Y \X Z))
  BY <1>2, FS_Product
<1> DEFINE flat == [p \in X \X (Y \X Z) |-> <<p[1], p[2][1], p[2][2]>>]
<1>6. flat \in Surjection(X \X (Y \X Z), X \X Y \X Z)
  <2>1. \A q \in X \X Y \X Z : \E p \in X \X (Y \X Z) : flat[p] = q
    <3> TAKE q \in X \X Y \X Z
    <3>1. <<q[1], <<q[2], q[3]>>>> \in X \X (Y \X Z)
      OBVIOUS
    <3>2. flat[<<q[1], <<q[2], q[3]>>>>] = q
      BY <3>1
    <3> QED BY <3>1, <3>2
  <2>2. flat \in [X \X (Y \X Z) -> X \X Y \X Z]
    OBVIOUS
  <2> HIDE DEF flat
  <2> QED BY <2>1, <2>2 DEF Surjection
<1> HIDE DEF flat
<1> QED BY <1>3, <1>4, <1>5, <1>6, FS_Surjection

(* A face is shared: who is beside one is beside the other.                *)
LEMMA FacesAreShared ==
  ASSUME NEW v \in Voxels, NEW n \in Faces(v), Voxels \subseteq Int \X Int \X Int
  PROVE  n \in Voxels /\ v \in Faces(n)
<1>1. n \in Voxels
  BY DEF Faces
<1>2. PICK d \in Directions6 : n = Toward(v, d)
  BY DEF Faces
<1>3. \E e \in Directions6 : v = Toward(n, e)
  <2>1. PICK x \in Int, y \in Int, z \in Int : v = <<x, y, z>>
    OBVIOUS
  <2>2. CASE d = <<1, 0, 0>>
    <3>1. v = Toward(n, <<-1, 0, 0>>)
      BY <1>2, <2>1, <2>2 DEF Toward
    <3> QED BY <3>1 DEF Directions6
  <2>3. CASE d = <<-1, 0, 0>>
    <3>1. v = Toward(n, <<1, 0, 0>>)
      BY <1>2, <2>1, <2>3 DEF Toward
    <3> QED BY <3>1 DEF Directions6
  <2>4. CASE d = <<0, 1, 0>>
    <3>1. v = Toward(n, <<0, -1, 0>>)
      BY <1>2, <2>1, <2>4 DEF Toward
    <3> QED BY <3>1 DEF Directions6
  <2>5. CASE d = <<0, -1, 0>>
    <3>1. v = Toward(n, <<0, 1, 0>>)
      BY <1>2, <2>1, <2>5 DEF Toward
    <3> QED BY <3>1 DEF Directions6
  <2>6. CASE d = <<0, 0, 1>>
    <3>1. v = Toward(n, <<0, 0, -1>>)
      BY <1>2, <2>1, <2>6 DEF Toward
    <3> QED BY <3>1 DEF Directions6
  <2>7. CASE d = <<0, 0, -1>>
    <3>1. v = Toward(n, <<0, 0, 1>>)
      BY <1>2, <2>1, <2>7 DEF Toward
    <3> QED BY <3>1 DEF Directions6
  <2> QED BY <1>2, <2>2, <2>3, <2>4, <2>5, <2>6, <2>7 DEF Directions6
<1> QED BY <1>1, <1>3 DEF Faces

(* A finite set can be queued.                                             *)
LEMMA QueuesHoldWhatWasFound ==
  ASSUME NEW found, IsFiniteSet(found)
  PROVE  InSomeOrder(found) \in Seq(found) /\ Range(InSomeOrder(found)) = found
<1> DEFINE n == Cardinality(found)
<1>1. n \in Nat /\ ExistsBijection(1..n, found)
  BY FS_CardinalityType
<1>2. PICK f \in Bijection(1..n, found) : TRUE
  BY <1>1 DEF ExistsBijection
<1>3. f \in [1..n -> found] /\ found = {f[k] : k \in DOMAIN f}
  BY <1>2 DEF Bijection, Surjection, Injection
<1>4. /\ InSomeOrder(found) \in [1..n -> found]
      /\ found = {InSomeOrder(found)[k] : k \in DOMAIN InSomeOrder(found)}
  <2> HIDE DEF n
  <2>1. InSomeOrder(found) =
          CHOOSE s \in [1..n -> found] : found = {s[k] : k \in DOMAIN s}
    BY DEF InSomeOrder, n
  <2> QED BY <1>3, <2>1
<1> HIDE DEF n
<1> QED BY <1>1, <1>4 DEF Range

-----------------------------------------------------------------------------
(* AirWithin: a recursive definition, by the least number that has none.   *)
Stages(n, f, lamp) ==
  f = [k \in 0..n |-> IF k = 0 THEN Exposed(lamp) ELSE f[k - 1] \cup AirBeside(f[k - 1])]

\* There is such a function for every number of steps.
LEMMA StagesExist ==
  ASSUME NEW lamp, NEW n \in Nat
  PROVE  \E f : Stages(n, f, lamp)
<1> DEFINE bad == {m \in Nat : ~\E f : Stages(m, f, lamp)}
<1> SUFFICES ASSUME bad # {} PROVE FALSE
  OBVIOUS
<1>1. bad \in SUBSET Nat
  OBVIOUS
<1>2. PICK m \in bad : \A j \in bad : m <= j
  <2> HIDE DEF bad
  <2> QED BY <1>1, LeastNumber
<1>3. CASE m = 0
  <2> DEFINE f == [k \in 0..0 |-> Exposed(lamp)]
  <2>1. Stages(0, f, lamp)
    BY DEF Stages
  <2> QED BY <1>3, <2>1
<1>4. CASE m # 0
  <2>1. m \in Nat /\ m - 1 \in Nat /\ m - 1 \notin bad
    BY <1>2, <1>4
  <2>2. PICK g : Stages(m - 1, g, lamp)
    BY <2>1
  <2> DEFINE f == [k \in 0..m |-> IF k = m THEN g[m - 1] \cup AirBeside(g[m - 1]) ELSE g[k]]
  <2>3. /\ DOMAIN g = 0..(m - 1)
        /\ \A k \in 0..(m - 1) :
             g[k] = IF k = 0 THEN Exposed(lamp) ELSE g[k - 1] \cup AirBeside(g[k - 1])
    BY <2>2 DEF Stages
  <2>4. \A k \in 0..m : f[k] = IF k = 0 THEN Exposed(lamp) ELSE f[k - 1] \cup AirBeside(f[k - 1])
    <3> TAKE k \in 0..m
    <3>1. CASE k = m
      <4>1. f[m] = g[m - 1] \cup AirBeside(g[m - 1]) /\ f[m - 1] = g[m - 1]
        BY <2>1
      <4> HIDE DEF f
      <4> QED BY <1>4, <3>1, <4>1
    <3>2. CASE k # m /\ k = 0
      BY <2>1, <2>3, <3>2
    <3>3. CASE k # m /\ k # 0
      <4>1. k \in 0..(m - 1) /\ k - 1 \in 0..m /\ k - 1 # m
        BY <2>1, <3>3
      <4>2. f[k] = g[k] /\ f[k - 1] = g[k - 1]
        BY <3>3, <4>1
      <4> HIDE DEF f
      <4> QED BY <2>3, <3>3, <4>1, <4>2
    <3> QED BY <3>1, <3>2, <3>3
  <2>5. f = [k \in 0..m |-> f[k]]
    OBVIOUS
  <2>6. Stages(m, f, lamp)
    <3> HIDE DEF f
    <3> QED BY <2>4, <2>5 DEF Stages
  <2> QED BY <2>6
<1> QED BY <1>3, <1>4

(* What the recursion says.                                                *)
LEMMA AirWithinUnfolds ==
  ASSUME NEW lamp
  PROVE  /\ AirWithin(lamp)[0] = Exposed(lamp)
         /\ \A k \in 1..Reach :
              AirWithin(lamp)[k] = AirWithin(lamp)[k - 1] \cup AirBeside(AirWithin(lamp)[k - 1])
<1>0. Reach \in Nat
  BY LightingAssumption
<1>1. AirWithin(lamp) = CHOOSE f : Stages(Reach, f, lamp)
  BY DEF AirWithin, Stages
<1>2. Stages(Reach, AirWithin(lamp), lamp)
  BY <1>0, <1>1, StagesExist
<1> DEFINE w == AirWithin(lamp)
<1>3. w = [k \in 0..Reach |-> IF k = 0 THEN Exposed(lamp) ELSE w[k - 1] \cup AirBeside(w[k - 1])]
  BY <1>2 DEF Stages
<1> HIDE DEF w
<1>4. w[0] = Exposed(lamp)
  BY <1>0, <1>3
<1>5. \A k \in 1..Reach : w[k] = w[k - 1] \cup AirBeside(w[k - 1])
  <2> DEFINE next(k) == w[k - 1] \cup AirBeside(w[k - 1])
  <2>1. w = [k \in 0..Reach |-> IF k = 0 THEN Exposed(lamp) ELSE next(k)]
    BY <1>3
  <2> SUFFICES ASSUME NEW k \in 1..Reach PROVE w[k] = next(k)
    OBVIOUS
  <2> HIDE DEF next
  <2>2. k \in 0..Reach /\ k # 0
    BY <1>0
  <2> QED BY <2>1, <2>2
<1> QED BY <1>4, <1>5 DEF w

(* Only air is ever reached.                                               *)
LEMMA OnlyAirIsReached ==
  ASSUME NEW lamp, NEW k \in 0..Reach
  PROVE  AirWithin(lamp)[k] \subseteq {v \in Voxels : IsAir(v)}
<1> DEFINE w == AirWithin(lamp)
           air == {v \in Voxels : IsAir(v)}
           bad == {m \in 0..Reach : ~(w[m] \subseteq air)}
<1> SUFFICES ASSUME bad # {} PROVE FALSE
  OBVIOUS
<1>1. Reach \in Nat /\ bad \in SUBSET Nat
  BY LightingAssumption
<1>2. PICK m \in bad : \A j \in bad : m <= j
  <2> HIDE DEF bad
  <2> QED BY <1>1, LeastNumber
<1>3. CASE m = 0
  BY <1>2, <1>3, AirWithinUnfolds DEF Exposed
<1>4. CASE m # 0
  <2>1. m - 1 \in 0..Reach /\ m - 1 \notin bad /\ m \in 1..Reach
    BY <1>1, <1>2, <1>4
  <2>2. w[m - 1] \subseteq air /\ w[m] = w[m - 1] \cup AirBeside(w[m - 1])
    BY <2>1, AirWithinUnfolds
  <2>3. AirBeside(w[m - 1]) \subseteq air
    BY DEF AirBeside
  <2> QED BY <1>2, <2>2, <2>3
<1> QED BY <1>3, <1>4

(* The shortest way is one, and none is shorter.                           *)
LEMMA ShortestIsShortest ==
  ASSUME NEW within, NEW v
  PROVE  LET s == Shortest(within, v) IN
         /\ s \in Nat /\ s <= Unreachable
         /\ s # Unreachable => s \in 0..Reach /\ InReach(s) /\ v \in within[s]
         /\ \A k \in 0..Reach : InReach(k) /\ v \in within[k] => s <= k /\ s # Unreachable
<1> DEFINE lengths == {k \in 0..Reach : InReach(k) /\ v \in within[k]}
<1>1. Reach \in Nat /\ Reach < 2 * Unreachable
  BY LightingAssumption
<1>2. \A k \in lengths : k \in Nat /\ k < Unreachable
  BY <1>1 DEF InReach, Unreachable
<1>3. CASE lengths = {}
  BY <1>3 DEF Shortest, Unreachable
<1>4. CASE lengths # {}
  <2>1. PICK m \in lengths : \A k \in lengths : m <= k
    <3>1. lengths \in SUBSET Nat
      BY <1>2
    <3> HIDE DEF lengths
    <3> QED BY <1>4, <3>1, LeastNumber
  <2>2. /\ Shortest(within, v) \in lengths
        /\ \A k \in lengths : Shortest(within, v) <= k
    BY <1>4, <2>1 DEF Shortest
  <2> QED BY <1>2, <2>2 DEF Unreachable
<1> QED BY <1>3, <1>4

-----------------------------------------------------------------------------
(* The search for one kind of lamp, and what is baked from three.          *)

\* A search that goes on: what it found is no shorter than there is, the seeds
\* are found, and a voxel that left the queue has told its faces.
Kind == Lamps[Len(emissions) + 1]
SearchSound ==
  \A v \in Voxels :
    steps[v] # Unreachable =>
      steps[v] \in 0..Reach /\ InReach(steps[v]) /\ v \in AirWithin(Kind)[steps[v]]
SearchSeeded ==
  InReach(0) => \A v \in Exposed(Kind) : steps[v] = 0
SearchServes ==
  \A v \in Voxels :
    steps[v] # Unreachable /\ v \notin Range(frontier) /\ InReach(steps[v] + 1) =>
      \A n \in Faces(v) : IsAir(n) => steps[n] <= steps[v] + 1

LightTypeOK ==
  /\ room \in Rooms
  /\ emissions \in Seq([Voxels -> Nat]) /\ Len(emissions) <= 3
  /\ baking \in {"clear", "search", "spread", "project", "baked"}
  /\ baking = "clear" => emissions = <<>>
  /\ baking = "spread" =>
       Len(emissions) < 3 /\ steps \in [Voxels -> Nat] /\ frontier \in Seq(Voxels)
  /\ baking \in {"project", "baked"} => Len(emissions) = 3

Searched ==
  \A k \in DOMAIN emissions : \A v \in Voxels :
    emissions[k][v] = Shortest(AirWithin(Lamps[k]), v)

\* How air and how solids other than lamps are lit from what was searched.
AirLit(v) == Accumulated([k \in DOMAIN Lamps |-> emissions[k][v]], 1)
SolidLit(v) == Accumulated([k \in DOMAIN Lamps |-> NearestAir(v, k)], 2)

LightInv ==
  /\ LightTypeOK
  /\ Searched
  /\ baking = "spread" => SearchSound /\ SearchSeeded /\ SearchServes
  /\ baking = "project" => \A v \in Voxels : IsAir(v) => light[v] = AirLit(v)
  /\ baking = "baked" =>
       \A v \in Voxels : room.kinds[v] \notin LampKinds =>
         light[v] = IF IsAir(v) THEN AirLit(v) ELSE SolidLit(v)

(* What is in a queue is at its head or behind it.                         *)
LEMMA HeadAndTail ==
  ASSUME NEW S, NEW s \in Seq(S), s # <<>>
  PROVE  /\ Head(s) \in S /\ Tail(s) \in Seq(S)
         /\ Range(s) = {Head(s)} \cup Range(Tail(s))
<1>1. /\ Head(s) = s[1] /\ Len(s) \in Nat \ {0} /\ DOMAIN s = 1..Len(s)
      /\ Tail(s) \in Seq(S) /\ Head(s) \in S
  OBVIOUS
<1>2. /\ DOMAIN Tail(s) = 1..(Len(s) - 1)
      /\ \A i \in 1..(Len(s) - 1) : Tail(s)[i] = s[i + 1]
  BY HeadTailProperties
<1>3. Range(s) \subseteq {Head(s)} \cup Range(Tail(s))
  <2> SUFFICES ASSUME NEW i \in 1..Len(s) PROVE s[i] \in {Head(s)} \cup Range(Tail(s))
    BY <1>1 DEF Range
  <2>1. CASE i = 1
    BY <1>1, <2>1
  <2>2. CASE i # 1
    <3>1. i - 1 \in 1..(Len(s) - 1) /\ i - 1 + 1 = i
      BY <1>1, <2>2
    <3>2. Tail(s)[i - 1] = s[i]
      BY <1>2, <3>1
    <3> QED BY <1>2, <3>1, <3>2 DEF Range
  <2> QED BY <2>1, <2>2
<1>4. {Head(s)} \cup Range(Tail(s)) \subseteq Range(s)
  <2>1. Head(s) \in Range(s)
    BY <1>1 DEF Range
  <2>2. \A i \in 1..(Len(s) - 1) : Tail(s)[i] \in Range(s)
    BY <1>1, <1>2 DEF Range
  <2> QED BY <1>2, <2>1, <2>2 DEF Range
<1> QED BY <1>1, <1>3, <1>4

(* What is queued together is in the queue, before or behind.              *)
LEMMA QueuedTogether ==
  ASSUME NEW S, NEW s \in Seq(S), NEW t \in Seq(S)
  PROVE  s \o t \in Seq(S) /\ Range(s \o t) = Range(s) \cup Range(t)
BY RangeConcatenation, ConcatProperties

(* The room stands still, and with it what light can reach.                *)
LEMMA RoomStands ==
  ASSUME room' = room
  PROVE  /\ Voxels' = Voxels
         /\ \A v : IsAir(v)' <=> IsAir(v)
         /\ \A v : Faces(v)' = Faces(v)
         /\ \A lamp : Exposed(lamp)' = Exposed(lamp)
         /\ \A lamp : AirWithin(lamp)' = AirWithin(lamp)
         /\ \A lamp, v : Shortest(AirWithin(lamp), v)' = Shortest(AirWithin(lamp), v)
<1>1. Voxels' = Voxels
  BY DEF Voxels
<1>2. \A v : IsAir(v)' <=> IsAir(v)
  BY DEF IsAir
<1>3. \A v : Faces(v)' = Faces(v)
  BY <1>1 DEF Faces
<1>4. \A lamp : Exposed(lamp)' = Exposed(lamp)
  BY <1>1, <1>2 DEF Exposed
<1>5. \A S : AirBeside(S)' = AirBeside(S)
  BY <1>1, <1>2, <1>3 DEF AirBeside
<1>6. ASSUME NEW lamp PROVE AirWithin(lamp)' = AirWithin(lamp)
  BY <1>4, <1>5 DEF AirWithin
<1>7. ASSUME NEW lamp, NEW v
      PROVE  Shortest(AirWithin(lamp), v)' = Shortest(AirWithin(lamp), v)
  <2> DEFINE length(within) ==
        LET lengths == {k \in 0..Reach : 2 * k + 1 < Reach /\ v \in within[k]}
        IN  IF lengths = {} THEN Unreachable ELSE CHOOSE k \in lengths : \A l \in lengths : k <= l
  <2>1. /\ Shortest(AirWithin(lamp), v)' = length(AirWithin(lamp)')
        /\ Shortest(AirWithin(lamp), v) = length(AirWithin(lamp))
    BY DEF Shortest, InReach
  <2> HIDE DEF length
  <2> QED BY <1>6, <2>1
<1> QED BY <1>1, <1>2, <1>3, <1>4, <1>6, <1>7

(* The voxels of a room are finitely many points.                          *)
LEMMA GridIsFinite ==
  ASSUME room \in Rooms
  PROVE  IsFiniteSet(Voxels) /\ Voxels \subseteq Int \X Int \X Int
<1>1. room.size \in [1..3 -> Nat]
  BY LightingAssumption
<1> QED BY <1>1, VoxelsArePoints DEF Voxels

(* What light finds together is queued, all of it and nothing else.        *)
LEMMA LitAreQueued ==
  ASSUME room \in Rooms, NEW found \in SUBSET Voxels
  PROVE  InSomeOrder(found) \in Seq(Voxels) /\ Range(InSomeOrder(found)) = found
<1>1. IsFiniteSet(found)
  BY GridIsFinite, FS_Subset
<1>2. InSomeOrder(found) \in Seq(found) /\ Range(InSomeOrder(found)) = found
  BY <1>1, QueuesHoldWhatWasFound
<1>3. Seq(found) \subseteq Seq(Voxels)
  OBVIOUS
<1> QED BY <1>2, <1>3

(* What is in reach is far from unreachable.                               *)
LEMMA ReachIsShort ==
  ASSUME NEW n \in Nat, InReach(n)
  PROVE  n < Unreachable /\ n < Reach
BY LightingAssumption DEF InReach, Unreachable

(* The seeds are found, and nothing else.                                  *)
LEMMA SearchBegins == LightInv /\ BeginSearch => LightInv'
<1> SUFFICES ASSUME LightInv, BeginSearch PROVE LightInv'
  OBVIOUS
<1> USE DEF LightInv
<1> DEFINE seeds == IF InReach(0) THEN Exposed(Lamps[Len(emissions) + 1]) ELSE {}
<1>1. /\ room' = room /\ emissions' = emissions /\ light' = light /\ baking' = "spread"
      /\ steps' = [v \in Voxels |-> IF v \in seeds THEN 0 ELSE Unreachable]
      /\ frontier' = InSomeOrder(seeds)
      /\ baking = "search" /\ Len(emissions) < 3
  BY DEF BeginSearch, Lamps
<1>2. seeds \in SUBSET Voxels /\ room \in Rooms
  BY DEF Exposed, LightTypeOK
<1>3. Kind' = Kind /\ Kind = Lamps[Len(emissions) + 1]
  BY <1>1 DEF Kind
<1>4. InReach(0) => seeds = Exposed(Kind)
  BY <1>3
<1>5. ~InReach(0) => seeds = {}
  OBVIOUS
<1> HIDE DEF seeds
<1>6. frontier' \in Seq(Voxels) /\ Range(frontier') = seeds
  BY <1>1, <1>2, LitAreQueued
<1>7. LightTypeOK'
  <2>1. Voxels' = Voxels /\ steps' \in [Voxels -> Nat]
    BY <1>1, RoomStands DEF Unreachable
  <2> QED BY <1>1, <1>6, <2>1 DEF LightTypeOK
<1>8. Searched'
  BY <1>1, RoomStands DEF Searched
<1>9. SearchSound'
  <2>1. \A v \in Voxels : steps'[v] # Unreachable => steps'[v] = 0 /\ v \in seeds
    BY <1>1
  <2>2. InReach(0) => Exposed(Kind) = AirWithin(Kind)[0]
    BY AirWithinUnfolds
  <2>3. 0 \in 0..Reach
    BY LightingAssumption
  <2> QED BY <1>1, <1>3, <1>4, <1>5, <2>1, <2>2, <2>3, RoomStands DEF SearchSound, InReach
<1>10. SearchSeeded'
  BY <1>1, <1>2, <1>3, <1>4, RoomStands DEF SearchSeeded, InReach
<1>11. SearchServes'
  BY <1>1, <1>6, RoomStands DEF SearchServes
<1> QED BY <1>1, <1>7, <1>8, <1>9, <1>10, <1>11

(* What is found has a way through the voxel that found it, and that one   *)
(* has told its faces when it leaves the queue.                            *)
LEMMA SearchSpreads == LightInv /\ Spread => LightInv'
<1> SUFFICES ASSUME LightInv, Spread PROVE LightInv'
  OBVIOUS
<1> DEFINE v == Head(frontier)
           next == steps[v] + 1
           found == IF InReach(next) THEN Lit(v, next) ELSE {}
           queued == InSomeOrder(found)
<1>1. /\ room' = room /\ emissions' = emissions /\ light' = light
      /\ baking = "spread" /\ baking' = "spread" /\ frontier # <<>>
      /\ steps' = [n \in Voxels |-> IF n \in found THEN next ELSE steps[n]]
      /\ frontier' = Tail(frontier) \o queued
  BY DEF Spread
<1>2. /\ LightTypeOK /\ Searched /\ SearchSound /\ SearchSeeded /\ SearchServes
      /\ Len(emissions) < 3 /\ steps \in [Voxels -> Nat] /\ frontier \in Seq(Voxels)
      /\ room \in Rooms
  BY <1>1 DEF LightInv, LightTypeOK
<1>3. /\ v \in Voxels /\ Tail(frontier) \in Seq(Voxels)
      /\ Range(frontier) = {v} \cup Range(Tail(frontier))
  BY <1>1, <1>2, HeadAndTail
<1>4. /\ next \in Nat /\ found \in SUBSET Voxels
      /\ ~InReach(next) => found = {}
      /\ \A n \in found : n \in Faces(v) /\ IsAir(n) /\ next < steps[n]
      /\ InReach(next) => \A n \in Faces(v) : IsAir(n) /\ n \notin found => ~(next < steps[n])
  BY <1>2, <1>3 DEF Lit, Faces
<1> HIDE DEF found, next, v
<1>5. /\ queued \in Seq(Voxels) /\ Range(queued) = found
  BY <1>2, <1>4, LitAreQueued
<1> HIDE DEF queued
<1>6. /\ frontier' \in Seq(Voxels)
      /\ Range(frontier') = Range(Tail(frontier)) \cup found
  BY <1>1, <1>3, <1>5, QueuedTogether, ZenonT(60)
<1>7. LightTypeOK'
  <2>1. Voxels' = Voxels /\ steps' \in [Voxels -> Nat]
    BY <1>1, <1>2, <1>4, RoomStands
  <2> QED BY <1>1, <1>2, <1>6, <2>1 DEF LightTypeOK
<1>8. Searched'
  BY <1>1, <1>2, RoomStands DEF Searched
<1>9. Kind' = Kind
  BY <1>1 DEF Kind
<1>10. SearchSound'
  <2>1. ASSUME NEW n \in Voxels, n \in found
        PROVE  steps'[n] \in 0..Reach /\ InReach(steps'[n]) /\ n \in AirWithin(Kind)[steps'[n]]
    <3>1. InReach(next) /\ n \in Faces(v) /\ IsAir(n) /\ steps'[n] = next
      BY <1>1, <1>4, <2>1
    <3>2. next < Unreachable /\ next < Reach /\ Reach \in Nat
      BY <1>4, <3>1, ReachIsShort, LightingAssumption
    <3>3. steps[v] \in Nat /\ next = steps[v] + 1
      BY <1>2, <1>3 DEF next
    <3>4. v \in AirWithin(Kind)[steps[v]]
      BY <1>2, <1>3, <3>2, <3>3 DEF SearchSound
    <3>5. v \in Faces(n)
      BY <1>2, <1>3, <3>1, FacesAreShared, GridIsFinite
    <3>6. n \in AirBeside(AirWithin(Kind)[steps[v]])
      BY <2>1, <3>1, <3>4, <3>5 DEF AirBeside
    <3>7. next \in 1..Reach /\ next - 1 = steps[v]
      BY <3>2, <3>3
    <3>8. AirWithin(Kind)[next] =
            AirWithin(Kind)[next - 1] \cup AirBeside(AirWithin(Kind)[next - 1])
      BY <3>7, AirWithinUnfolds
    <3>9. n \in AirWithin(Kind)[next]
      BY <3>6, <3>7, <3>8
    <3> QED BY <3>1, <3>7, <3>9
  <2>2. ASSUME NEW n \in Voxels, n \notin found, steps'[n] # Unreachable
        PROVE  steps'[n] \in 0..Reach /\ InReach(steps'[n]) /\ n \in AirWithin(Kind)[steps'[n]]
    <3>1. steps'[n] = steps[n]
      BY <1>1, <2>2
    <3> QED BY <1>2, <2>2, <3>1 DEF SearchSound
  <2> QED BY <1>1, <1>9, <2>1, <2>2, RoomStands DEF SearchSound, InReach
<1>11. SearchSeeded'
  <2>1. ASSUME InReach(0), NEW n \in Exposed(Kind) PROVE steps'[n] = 0
    <3>1. n \in Voxels /\ steps[n] = 0
      BY <1>2, <2>1 DEF SearchSeeded, Exposed
    <3>2. n \notin found
      BY <1>4, <3>1
    <3> QED BY <1>1, <3>1, <3>2
  <2> QED BY <1>1, <1>9, <2>1, RoomStands DEF SearchSeeded, InReach
<1>12. SearchServes'
  <2>1. ASSUME NEW u \in Voxels, steps'[u] # Unreachable, u \notin Range(frontier'),
               InReach(steps'[u] + 1), NEW n \in Faces(u), IsAir(n)
        PROVE  steps'[n] <= steps'[u] + 1
    <3>1. u \notin found /\ u \notin Range(Tail(frontier))
      BY <1>6, <2>1
    <3>2. steps'[u] = steps[u] /\ n \in Voxels
      BY <1>1, <3>1 DEF Faces
    <3>3. /\ steps[n] \in Nat /\ steps[u] \in Nat
          /\ n \in found => steps'[n] = next
          /\ n \notin found => steps'[n] = steps[n]
      BY <1>1, <1>2, <3>2
    <3>4. CASE u = v
      <4>1. next = steps[u] + 1 /\ InReach(next)
        BY <2>1, <3>2, <3>4 DEF next
      <4> QED BY <1>4, <2>1, <3>2, <3>3, <3>4, <4>1
    <3>5. CASE u # v
      <4>1. steps[n] <= steps[u] + 1
        BY <1>2, <1>3, <2>1, <3>1, <3>2, <3>5 DEF SearchServes
      <4>2. steps'[n] <= steps[n]
        BY <1>4, <3>3
      <4>3. steps'[n] \in Nat
        BY <1>4, <3>3
      <4> QED BY <3>2, <3>3, <4>1, <4>2, <4>3
    <3> QED BY <3>4, <3>5
  <2> QED BY <1>1, <2>1, RoomStands DEF SearchServes, InReach
<1> QED BY <1>1, <1>7, <1>8, <1>10, <1>11, <1>12 DEF LightInv

(* A search that is over missed no way: by the shortest that it missed.    *)
LEMMA SearchMissesNothing ==
  ASSUME LightInv, baking = "spread", frontier = <<>>
  PROVE  \A v \in Voxels : steps[v] = Shortest(AirWithin(Kind), v)
<1> DEFINE w == AirWithin(Kind)
           Missed(k) == InReach(k) /\ \E v \in w[k] : ~(steps[v] <= k)
           missed == {k \in 0..Reach : Missed(k)}
<1>1. /\ SearchSound /\ SearchSeeded /\ SearchServes
      /\ steps \in [Voxels -> Nat] /\ room \in Rooms /\ Reach \in Nat
  BY LightingAssumption DEF LightInv, LightTypeOK
<1>2. Range(frontier) = {}
  BY DEF Range
<1>3. missed = {}
  <2> SUFFICES ASSUME missed # {} PROVE FALSE
    OBVIOUS
  <2>1. missed \in SUBSET Nat
    BY <1>1
  <2>2. PICK k \in missed : \A j \in missed : k <= j
    <3> HIDE DEF missed
    <3> QED BY <2>1, LeastNumber
  <2>3. k \in 0..Reach /\ InReach(k) /\ k \in Nat
    BY <1>1, <2>2
  <2>4. PICK v \in w[k] : ~(steps[v] <= k)
    BY <2>2
  <2>5. v \in Voxels /\ IsAir(v)
    BY <2>3, <2>4, OnlyAirIsReached
  <2>6. CASE k = 0
    <3>1. v \in Exposed(Kind)
      BY <2>4, <2>6, AirWithinUnfolds
    <3>2. steps[v] = 0
      BY <1>1, <2>3, <2>6, <3>1 DEF SearchSeeded
    <3> QED BY <2>4, <2>6, <3>2
  <2>7. CASE k # 0
    <3>1. k \in 1..Reach /\ k - 1 \in 0..Reach /\ InReach(k - 1)
      BY <1>1, <2>3, <2>7 DEF InReach
    <3>2. k - 1 \notin missed
      BY <2>2, <2>3, <3>1
    <3>3. \A u \in w[k - 1] : steps[u] <= k - 1
      BY <3>1, <3>2
    <3>4. v \in w[k - 1] \/ v \in AirBeside(w[k - 1])
      BY <2>4, <3>1, AirWithinUnfolds
    <3>5. CASE v \in w[k - 1]
      BY <1>1, <2>3, <2>4, <2>5, <3>3, <3>5
    <3>6. CASE v \in AirBeside(w[k - 1])
      <4>1. PICK n \in Faces(v) : n \in w[k - 1]
        BY <3>6 DEF AirBeside
      <4>2. n \in Voxels /\ v \in Faces(n)
        BY <1>1, <2>5, <4>1, FacesAreShared, GridIsFinite
      <4>3. steps[n] <= k - 1 /\ steps[n] \in Nat
        BY <1>1, <3>3, <4>1, <4>2
      <4>4. InReach(steps[n] + 1)
        BY <1>1, <2>3, <4>3 DEF InReach
      <4>5. steps[n] # Unreachable
        BY <4>3, <4>4, ReachIsShort
      <4>6. steps[v] <= steps[n] + 1
        BY <1>1, <1>2, <2>5, <4>2, <4>4, <4>5 DEF SearchServes
      <4>7. steps[v] \in Nat
        BY <1>1, <2>5
      <4> QED BY <2>3, <2>4, <4>3, <4>6, <4>7
    <3> QED BY <3>4, <3>5, <3>6
  <2> QED BY <2>6, <2>7
<1> SUFFICES ASSUME NEW v \in Voxels PROVE steps[v] = Shortest(w, v)
  OBVIOUS
<1>4. \A k \in 0..Reach : InReach(k) /\ v \in w[k] => steps[v] <= k
  BY <1>3
<1>5. /\ Shortest(w, v) \in Nat /\ Shortest(w, v) <= Unreachable
      /\ Shortest(w, v) # Unreachable =>
           Shortest(w, v) \in 0..Reach /\ InReach(Shortest(w, v)) /\ v \in w[Shortest(w, v)]
      /\ \A k \in 0..Reach :
           InReach(k) /\ v \in w[k] => Shortest(w, v) <= k /\ Shortest(w, v) # Unreachable
  BY ShortestIsShortest
<1>6. steps[v] # Unreachable => steps[v] \in 0..Reach /\ InReach(steps[v]) /\ v \in w[steps[v]]
  BY <1>1 DEF SearchSound
<1>7. steps[v] \in Nat
  BY <1>1
<1> HIDE DEF w
<1>8. CASE Shortest(w, v) = Unreachable
  BY <1>5, <1>6, <1>8
<1>9. CASE Shortest(w, v) # Unreachable
  <2>1. steps[v] <= Shortest(w, v)
    BY <1>4, <1>5, <1>9
  <2>2. steps[v] # Unreachable
    BY <1>5, <1>7, <1>9, <2>1 DEF Unreachable
  <2> QED BY <1>5, <1>6, <1>7, <2>1, <2>2
<1> QED BY <1>8, <1>9

(* What a search found is kept when it misses nothing.                     *)
LEMMA SearchEnds == LightInv /\ EndSearch => LightInv'
<1> SUFFICES ASSUME LightInv, EndSearch PROVE LightInv'
  OBVIOUS
<1>1. /\ baking = "spread" /\ frontier = <<>> /\ baking' = "search"
      /\ emissions' = Append(emissions, steps)
      /\ room' = room
  BY DEF EndSearch
<1>2. /\ LightTypeOK /\ Searched /\ Len(emissions) < 3 /\ steps \in [Voxels -> Nat]
      /\ emissions \in Seq([Voxels -> Nat])
  BY <1>1 DEF LightInv, LightTypeOK
<1>3. /\ emissions' \in Seq([Voxels -> Nat]) /\ Len(emissions') = Len(emissions) + 1
      /\ DOMAIN emissions' = DOMAIN emissions \cup {Len(emissions) + 1}
      /\ \A k \in DOMAIN emissions : emissions'[k] = emissions[k]
      /\ emissions'[Len(emissions) + 1] = steps
      /\ Len(emissions) \in Nat
  BY <1>1, <1>2
<1>4. LightTypeOK'
  <2>1. Voxels' = Voxels
    BY <1>1, RoomStands
  <2> QED BY <1>1, <1>2, <1>3, <2>1 DEF LightTypeOK
<1>5. \A v \in Voxels : steps[v] = Shortest(AirWithin(Kind), v)
  BY <1>1, SearchMissesNothing
<1>6. Searched'
  <2> SUFFICES ASSUME NEW k \in DOMAIN emissions', NEW v \in Voxels
               PROVE  emissions'[k][v] = Shortest(AirWithin(Lamps[k]), v)
    BY <1>1, RoomStands DEF Searched
  <2>1. CASE k \in DOMAIN emissions
    BY <1>2, <1>3, <2>1 DEF Searched
  <2>2. CASE k = Len(emissions) + 1
    BY <1>3, <1>5, <2>2 DEF Kind
  <2> QED BY <1>3, <2>1, <2>2
<1> QED BY <1>1, <1>4, <1>6 DEF LightInv

(* How a voxel is lit depends on the room and on what was searched.        *)
LEMMA EmissionsStand ==
  ASSUME room' = room, emissions' = emissions
  PROVE  \A v : AirLit(v)' = AirLit(v) /\ SolidLit(v)' = SolidLit(v)
<1>1. \A v : AirLit(v)' = AirLit(v)
  BY DEF AirLit, Accumulated
<1>2. \A v, k : NearestAir(v, k)' = NearestAir(v, k)
  BY RoomStands DEF NearestAir
<1>3. \A v : SolidLit(v)' = SolidLit(v)
  BY <1>2 DEF SolidLit, Accumulated
<1> QED BY <1>1, <1>3

\* The light of air is written as it was found (bake_voxel_lighting()).
LEMMA AirIsWritten == LightInv /\ WriteAir => LightInv'
<1> SUFFICES ASSUME LightInv, WriteAir PROVE LightInv'
  OBVIOUS
<1>1. /\ baking = "search" /\ baking' = "project" /\ Len(emissions) = 3
      /\ emissions' = emissions /\ room' = room
      /\ light' = [v \in Voxels |-> IF IsAir(v) THEN AirLit(v) ELSE light[v]]
  BY DEF WriteAir, Lamps, AirLit
<1>2. LightTypeOK /\ Searched
  BY DEF LightInv
<1>3. LightTypeOK'
  <2>1. Voxels' = Voxels
    BY <1>1, RoomStands
  <2> QED BY <1>1, <1>2, <2>1 DEF LightTypeOK
<1>4. Searched'
  BY <1>1, <1>2, RoomStands DEF Searched
<1>5. \A v : AirLit(v)' = AirLit(v)
  BY <1>1, EmissionsStand
<1>6. (\A v \in Voxels : IsAir(v) => light[v] = AirLit(v))'
  BY <1>1, <1>5, RoomStands
<1> QED BY <1>1, <1>3, <1>4, <1>6 DEF LightInv

\* A solid gets what the air at its faces passes on.
LEMMA SolidsAreLit == LightInv /\ Project => LightInv'
<1> SUFFICES ASSUME LightInv, Project PROVE LightInv'
  OBVIOUS
<1>1. /\ baking = "project" /\ baking' = "baked"
      /\ emissions' = emissions /\ room' = room
      /\ light' = [v \in Voxels |-> IF IsAir(v) THEN light[v]
                                    ELSE IF room.kinds[v] \in LampKinds THEN {<<room.kinds[v], 0>>}
                                    ELSE SolidLit(v)]
  BY DEF Project, SolidLit
<1>2. LightTypeOK /\ Searched /\ \A v \in Voxels : IsAir(v) => light[v] = AirLit(v)
  BY <1>1 DEF LightInv
<1>3. LightTypeOK'
  <2>1. Voxels' = Voxels
    BY <1>1, RoomStands
  <2> QED BY <1>1, <1>2, <2>1 DEF LightTypeOK
<1>4. Searched'
  BY <1>1, <1>2, RoomStands DEF Searched
<1>5. \A v : AirLit(v)' = AirLit(v) /\ SolidLit(v)' = SolidLit(v)
  BY <1>1, EmissionsStand
<1>6. (\A v \in Voxels : room.kinds[v] \notin LampKinds =>
         light[v] = IF IsAir(v) THEN AirLit(v) ELSE SolidLit(v))'
  <2> SUFFICES ASSUME NEW v \in Voxels, room.kinds[v] \notin LampKinds
               PROVE  light'[v] = IF IsAir(v) THEN AirLit(v) ELSE SolidLit(v)
    BY <1>1, <1>5, RoomStands DEF LampKinds
  <2> QED BY <1>1, <1>2
<1> QED BY <1>1, <1>3, <1>4, <1>6 DEF LightInv

(* The kinds of lamp that contribute to what accumulates.                  *)
LEMMA KindsThatArrive ==
  ASSUME NEW n, NEW halves
  PROVE  {c[1] : c \in Accumulated(n, halves)} =
           {Lamps[k] : k \in {l \in DOMAIN n : n[l] # Unreachable /\ 2 * n[l] + halves < Reach}}
<1> DEFINE S == {l \in DOMAIN n : n[l] # Unreachable /\ 2 * n[l] + halves < Reach}
           come(k) == 2 * n[k] + halves
<1>1. Accumulated(n, halves) = {<<Lamps[k], come(k)>> : k \in S}
  BY DEF Accumulated
<1> HIDE DEF S, come
<1>2. \A k \in S : <<Lamps[k], come(k)>> \in Accumulated(n, halves)
  BY <1>1
<1>3. \A c \in Accumulated(n, halves) : \E k \in S : c = <<Lamps[k], come(k)>>
  BY <1>1
<1>4. \A k : <<Lamps[k], come(k)>>[1] = Lamps[k]
  OBVIOUS
<1>5. {c[1] : c \in Accumulated(n, halves)} \subseteq {Lamps[k] : k \in S}
  BY <1>3, <1>4
<1>6. {Lamps[k] : k \in S} \subseteq {c[1] : c \in Accumulated(n, halves)}
  <2> SUFFICES ASSUME NEW k \in S
               PROVE  Lamps[k] \in {c[1] : c \in Accumulated(n, halves)}
    OBVIOUS
  <2> QED BY <1>2, <1>4
<1> QED BY <1>5, <1>6 DEF S

(* A solid gets light exactly when the air at one of its faces passes it on. *)
LEMMA SolidsSeeTheNearest ==
  ASSUME LightInv, NEW v \in Voxels, NEW k \in 1..3, Len(emissions) = 3
  PROVE  NearestAir(v, k) # Unreachable /\ 2 * NearestAir(v, k) + 2 < Reach
           <=> \E n \in Faces(v) :
                 LET a == Shortest(AirWithin(Lamps[k]), n) IN a # Unreachable /\ 2 * a + 2 < Reach
<1> DEFINE beside == {emissions[k][n] : n \in {m \in Faces(v) : IsAir(m)}} \cup {Unreachable}
           a(n) == Shortest(AirWithin(Lamps[k]), n)
<1>1. \A n \in Voxels :
        /\ emissions[k][n] = a(n) /\ a(n) \in Nat /\ a(n) <= Unreachable
        /\ a(n) # Unreachable => IsAir(n)
  <2> TAKE n \in Voxels
  <2>1. emissions[k][n] = a(n)
    <3>1. k \in DOMAIN emissions
      BY DEF LightInv, LightTypeOK
    <3> QED BY <3>1 DEF LightInv, Searched
  <2>2. /\ a(n) \in Nat /\ a(n) <= Unreachable
        /\ a(n) # Unreachable => a(n) \in 0..Reach /\ n \in AirWithin(Lamps[k])[a(n)]
    BY ShortestIsShortest
  <2> HIDE DEF a
  <2>3. a(n) # Unreachable => IsAir(n)
    BY <2>2, OnlyAirIsReached
  <2> QED BY <2>1, <2>2, <2>3
<1>2. Faces(v) \subseteq Voxels
  BY DEF Faces
<1> HIDE DEF a
<1>3. beside \in SUBSET Nat /\ beside # {}
  BY <1>1, <1>2 DEF Unreachable
<1>4. NearestAir(v, k) = CHOOSE d \in beside : \A e \in beside : d <= e
  BY DEF NearestAir
<1>5. NearestAir(v, k) \in beside /\ \A e \in beside : NearestAir(v, k) <= e
  <2> HIDE DEF beside
  <2>1. \E d \in beside : \A e \in beside : d <= e
    BY <1>3, LeastNumber
  <2> QED BY <1>4, <2>1
<1>6. ASSUME NearestAir(v, k) # Unreachable, 2 * NearestAir(v, k) + 2 < Reach
      PROVE  \E n \in Faces(v) : a(n) # Unreachable /\ 2 * a(n) + 2 < Reach
  BY <1>1, <1>2, <1>5, <1>6
<1>7. ASSUME NEW n \in Faces(v), a(n) # Unreachable, 2 * a(n) + 2 < Reach
      PROVE  NearestAir(v, k) # Unreachable /\ 2 * NearestAir(v, k) + 2 < Reach
  <2>1. a(n) \in beside /\ a(n) \in Nat /\ a(n) < Unreachable
    BY <1>1, <1>2, <1>7 DEF Unreachable
  <2>2. NearestAir(v, k) <= a(n) /\ NearestAir(v, k) \in Nat /\ Reach \in Nat
    BY <1>3, <1>5, <2>1, LightingAssumption
  <2> HIDE DEF beside
  <2> QED BY <1>7, <2>1, <2>2 DEF Unreachable
<1> QED BY <1>6, <1>7 DEF a

\* The invariant shows the property.
LEMMA LightInvSuffices == LightInv => LightGoesThroughAir
<1> SUFFICES ASSUME LightInv PROVE LightGoesThroughAir
  OBVIOUS
<1>1. \A k \in DOMAIN emissions : \A v \in Voxels :
        emissions[k][v] = Shortest(AirWithin(Lamps[k]), v)
  BY DEF LightInv, Searched
<1>2. ASSUME baking = "spread", NEW v \in Voxels
      PROVE  steps[v] >= Shortest(AirWithin(Kind), v)
  <2>1. steps[v] \in Nat /\ SearchSound
    BY <1>2 DEF LightInv, LightTypeOK
  <2>2. /\ Shortest(AirWithin(Kind), v) \in Nat /\ Shortest(AirWithin(Kind), v) <= Unreachable
        /\ \A k \in 0..Reach : InReach(k) /\ v \in AirWithin(Kind)[k] =>
             Shortest(AirWithin(Kind), v) <= k
    BY ShortestIsShortest
  <2>3. CASE steps[v] = Unreachable
    BY <2>1, <2>2, <2>3
  <2>4. CASE steps[v] # Unreachable
    <3>1. Shortest(AirWithin(Kind), v) <= steps[v]
      BY <2>1, <2>2, <2>4 DEF SearchSound
    <3> QED BY <2>1, <2>2, <3>1
  <2> QED BY <2>3, <2>4
<1>3. ASSUME baking = "baked", NEW v \in Voxels, room.kinds[v] \notin LampKinds
      PROVE  {c[1] : c \in light[v]} =
               {Lamps[k] : k \in {l \in DOMAIN Lamps :
                  IF IsAir(v) THEN Shortest(AirWithin(Lamps[l]), v) # Unreachable
                  ELSE \E n \in Faces(v) :
                         /\ Shortest(AirWithin(Lamps[l]), n) # Unreachable
                         /\ 2 * Shortest(AirWithin(Lamps[l]), n) + 2 < Reach}}
  <2> DEFINE Arrives(n, l) == Shortest(AirWithin(Lamps[l]), n)
             Arriving == {l \in DOMAIN Lamps :
                       IF IsAir(v) THEN Arrives(v, l) # Unreachable
                       ELSE \E n \in Faces(v) : Arrives(n, l) # Unreachable /\ 2 * Arrives(n, l) + 2 < Reach}
  <2>1. /\ light[v] = IF IsAir(v) THEN AirLit(v) ELSE SolidLit(v)
        /\ Len(emissions) = 3 /\ DOMAIN emissions = 1..3 /\ DOMAIN Lamps = 1..3
    BY <1>3 DEF LightInv, LightTypeOK, Lamps
  <2>2. CASE IsAir(v)
    <3> DEFINE n == [k \in DOMAIN Lamps |-> emissions[k][v]]
    <3>1. light[v] = Accumulated(n, 1)
      BY <2>1, <2>2 DEF AirLit
    <3>2. \A l \in 1..3 :
            n[l] # Unreachable /\ 2 * n[l] + 1 < Reach <=> Arrives(v, l) # Unreachable
      <4> TAKE l \in 1..3
      <4>1. n[l] = Arrives(v, l)
        BY <1>1, <2>1
      <4>2. Arrives(v, l) # Unreachable => InReach(Arrives(v, l))
        BY ShortestIsShortest
      <4> QED BY <4>1, <4>2 DEF InReach
    <3>3. DOMAIN n = 1..3
      BY <2>1
    <3> HIDE DEF n, Arrives
    <3>4. {l \in DOMAIN n : n[l] # Unreachable /\ 2 * n[l] + 1 < Reach} = Arriving
      BY <2>1, <2>2, <3>2, <3>3
    <3> HIDE DEF Arriving
    <3>5. {c[1] : c \in Accumulated(n, 1)} =
            {Lamps[k] : k \in {l \in DOMAIN n : n[l] # Unreachable /\ 2 * n[l] + 1 < Reach}}
      BY KindsThatArrive
    <3>6. {c[1] : c \in light[v]} = {Lamps[k] : k \in Arriving}
      BY <3>1, <3>4, <3>5
    <3> QED BY <3>6 DEF Arriving, Arrives
  <2>3. CASE ~IsAir(v)
    <3> DEFINE n == [k \in DOMAIN Lamps |-> NearestAir(v, k)]
    <3>1. light[v] = Accumulated(n, 2)
      BY <2>1, <2>3 DEF SolidLit
    <3>2. \A l \in 1..3 :
            n[l] # Unreachable /\ 2 * n[l] + 2 < Reach <=>
              \E m \in Faces(v) : Arrives(m, l) # Unreachable /\ 2 * Arrives(m, l) + 2 < Reach
      BY <2>1, SolidsSeeTheNearest
    <3>3. DOMAIN n = 1..3
      BY <2>1
    <3> HIDE DEF n, Arrives
    <3>4. {l \in DOMAIN n : n[l] # Unreachable /\ 2 * n[l] + 2 < Reach} = Arriving
      BY <2>1, <2>3, <3>2, <3>3
    <3> HIDE DEF Arriving
    <3>5. {c[1] : c \in Accumulated(n, 2)} =
            {Lamps[k] : k \in {l \in DOMAIN n : n[l] # Unreachable /\ 2 * n[l] + 2 < Reach}}
      BY KindsThatArrive
    <3>6. {c[1] : c \in light[v]} = {Lamps[k] : k \in Arriving}
      BY <3>1, <3>4, <3>5
    <3> QED BY <3>6 DEF Arriving, Arrives
  <2> QED BY <2>2, <2>3
<1> QED BY <1>1, <1>2, <1>3 DEF LightGoesThroughAir, Kind

\* Every stage and every step of the search keeps the invariant.
LEMMA LightInvInductive == LightInv /\ [LightNext]_lightVars => LightInv'
<1> SUFFICES ASSUME LightInv, [LightNext]_lightVars PROVE LightInv'
  OBVIOUS
<1>1. CASE Clear
  <2>1. /\ baking = "clear" /\ baking' = "search" /\ emissions' = emissions /\ room' = room
        /\ LightTypeOK /\ Searched
    BY <1>1 DEF Clear, LightInv
  <2>2. LightTypeOK' /\ Searched'
    <3>1. Voxels' = Voxels
      BY <2>1, RoomStands
    <3> QED BY <2>1, <3>1, RoomStands DEF LightTypeOK, Searched
  <2> QED BY <2>1, <2>2 DEF LightInv
<1>2. CASE BeginSearch
  BY <1>2, SearchBegins
<1>3. CASE Spread
  BY <1>3, SearchSpreads
<1>4. CASE EndSearch
  BY <1>4, SearchEnds
<1>5. CASE WriteAir
  BY <1>5, AirIsWritten
<1>6. CASE Project
  BY <1>6, SolidsAreLit
<1>7. CASE UNCHANGED lightVars
  <2>1. /\ room' = room /\ light' = light /\ emissions' = emissions /\ steps' = steps
        /\ frontier' = frontier /\ baking' = baking
    BY <1>7 DEF lightVars
  <2>2. LightTypeOK' /\ Searched'
    BY <2>1, RoomStands DEF LightInv, LightTypeOK, Searched
  <2>3. Kind' = Kind
    BY <2>1 DEF Kind
  <2>4. baking' = "spread" => SearchSound' /\ SearchSeeded' /\ SearchServes'
    BY <2>1, <2>3, RoomStands DEF LightInv, SearchSound, SearchSeeded, SearchServes, InReach
  <2>5. \A v : AirLit(v)' = AirLit(v) /\ SolidLit(v)' = SolidLit(v)
    BY <2>1, EmissionsStand
  <2> QED BY <2>1, <2>2, <2>4, <2>5, RoomStands DEF LightInv, LampKinds
<1> QED BY <1>1, <1>2, <1>3, <1>4, <1>5, <1>6, <1>7 DEF LightNext

(* In any room, whatever lamps hang in it: the search for each kind finds  *)
(* every shortest way through air and no other, and what is baked is what  *)
(* arrives along them.                                                     *)
THEOREM LightTakesTheShortestWays == LightSpec => []LightGoesThroughAir
<1>1. LightInit => LightInv
  <2> SUFFICES ASSUME LightInit PROVE LightInv
    OBVIOUS
  <2>1. emissions = <<>> /\ baking = "clear" /\ room \in Rooms
    BY DEF LightInit
  <2> QED BY <2>1 DEF LightInv, LightTypeOK, Searched
<1> QED BY <1>1, LightInvInductive, LightInvSuffices, PTL DEF LightSpec
-----------------------------------------------------------------------------
(* The surface of a chunk: how far the slices are merged, and what the     *)
(* rectangles so far cover.                                                *)

\* The slice that merges a face, and the cell of the face in it.
SliceOf(d, p) ==
  CASE d \in {Up, Down} -> 2 * p[2] + d
    [] d \in {North, South} -> Across + 2 * p[3] + (d - 2)
    [] OTHER -> Across + Facing + 2 * p[1] + (d - 4)
CellIn(d, p) == <<p[SliceAxes(d)[1]], p[SliceAxes(d)[2]]>>
Merged(d, p) == SliceOf(d, p) < slice \/ (SliceOf(d, p) = slice /\ CellIn(d, p) \in visited)

\* A rectangle has the face in it.
Covers(q, d, p) ==
  LET a == SliceAxes(d)[1] b == SliceAxes(d)[2]
  IN  /\ q.dir = d /\ p[PlaneAxis(d)] = q.at[PlaneAxis(d)]
      /\ q.at[a] <= p[a] /\ p[a] < q.at[a] + q.w
      /\ q.at[b] <= p[b] /\ p[b] < q.at[b] + q.h
FitsChunk(q) ==
  LET a == SliceAxes(q.dir)[1] b == SliceAxes(q.dir)[2]
  IN  /\ q.dir \in Directions /\ q.at \in [1..3 -> Nat]
      /\ q.w \in Nat /\ q.w > 0 /\ q.h \in Nat /\ q.h > 0
      /\ q.at[PlaneAxis(q.dir)] < chunk.size[PlaneAxis(q.dir)]
      /\ q.at[a] + q.w <= chunk.size[a] /\ q.at[b] + q.h <= chunk.size[b]

MeshTypes == chunk \in Chunks /\ slice \in 0..SliceCount
MeshInv ==
  /\ MeshTypes
  /\ \A q \in quads : FitsChunk(q)
  /\ \A d \in Directions : \A p \in Inside :
       /\ IsExposed(d, p) /\ Merged(d, p) <=> \E q \in quads : Covers(q, d, p)
       /\ \A q \in quads : Covers(q, d, p) => Matches(q.key, FaceKey(d, p))
       /\ \A q, r \in quads : Covers(q, d, p) /\ Covers(r, d, p) => q = r

-----------------------------------------------------------------------------
\* The sides of a chunk are whole numbers.
LEMMA SizesAre ==
  ASSUME chunk \in Chunks
  PROVE  /\ chunk.size \in [1..3 -> Nat]
         /\ \A i \in 1..3 : chunk.size[i] \in Nat
BY MeshAssumption

\* The axes of each direction.
LEMMA AxesOf ==
  ASSUME NEW d \in Directions
  PROVE  /\ d \in {Up, Down} => PlaneAxis(d) = 2 /\ SliceAxes(d)[1] = 1 /\ SliceAxes(d)[2] = 3
         /\ d \in {North, South} => PlaneAxis(d) = 3 /\ SliceAxes(d)[1] = 1 /\ SliceAxes(d)[2] = 2
         /\ d \in {East, West} => PlaneAxis(d) = 1 /\ SliceAxes(d)[1] = 3 /\ SliceAxes(d)[2] = 2
         /\ d \in {Up, Down, North, South, East, West}
BY DEF Directions, PlaneAxis, SliceAxes, Up, Down, North, South, East, West

\* A direction's axis and those of its slices are all three.
LEMMA AxesDiffer ==
  ASSUME NEW d \in Directions
  PROVE  /\ PlaneAxis(d) \in 1..3 /\ SliceAxes(d)[1] \in 1..3 /\ SliceAxes(d)[2] \in 1..3
         /\ PlaneAxis(d) # SliceAxes(d)[1] /\ PlaneAxis(d) # SliceAxes(d)[2]
         /\ SliceAxes(d)[1] # SliceAxes(d)[2]
         /\ \A i \in 1..3 : i = PlaneAxis(d) \/ i = SliceAxes(d)[1] \/ i = SliceAxes(d)[2]
<1>1. CASE d \in {Up, Down}
  BY <1>1, AxesOf
<1>2. CASE d \in {North, South}
  BY <1>2, AxesOf
<1>3. CASE d \in {East, West}
  BY <1>3, AxesOf
<1> QED BY <1>1, <1>2, <1>3, AxesOf

\* A place inside a chunk has coordinates below its sides.
LEMMA InsideIs ==
  ASSUME chunk \in Chunks, NEW p \in Inside
  PROVE  /\ p \in [1..3 -> Nat] /\ p = [i \in 1..3 |-> p[i]]
         /\ \A i \in 1..3 : p[i] \in Nat /\ p[i] < chunk.size[i]
<1>1. \A i \in 1..3 : chunk.size[i] \in Nat
  BY SizesAre
<1> DEFINE x == chunk.size[1]  y == chunk.size[2]  z == chunk.size[3]
<1>2. x \in Nat /\ y \in Nat /\ z \in Nat
  BY <1>1
<1>3. p \in (0..(x - 1)) \X (0..(y - 1)) \X (0..(z - 1))
  <2>1. p \in ((-0)..(x - 1 + 0)) \X (0..(y - 1)) \X ((-0)..(z - 1 + 0))
    BY DEF Inside, Padded
  <2>2. x - 1 + 0 = x - 1 /\ z - 1 + 0 = z - 1
    BY <1>2
  <2> QED BY <2>1, <2>2
<1> HIDE DEF x, y, z
<1>4. /\ p[1] \in 0..(x - 1) /\ p[2] \in 0..(y - 1) /\ p[3] \in 0..(z - 1)
      /\ p = [i \in 1..3 |-> p[i]]
  BY <1>3
<1>5. \A i \in 1..3 : p[i] \in Nat /\ p[i] < chunk.size[i]
  BY <1>2, <1>4 DEF x, y, z
<1> QED BY <1>4, <1>5

\* Every face has its slice.
LEMMA SlicesOfFaces ==
  ASSUME chunk \in Chunks, NEW d \in Directions, NEW p \in Inside
  PROVE  SliceOf(d, p) \in 0..(SliceCount - 1)
<1>1. \A i \in 1..3 : p[i] \in Nat /\ chunk.size[i] \in Nat /\ p[i] < chunk.size[i]
  BY InsideIs, SizesAre
<1> QED BY <1>1, AxesOf DEF SliceOf, SliceCount, Across, Facing, Up, Down, North, South, East, West

\* A slice has the faces of one direction in one plane.
LEMMA FacesOfSlice ==
  ASSUME chunk \in Chunks, slice \in 0..SliceCount, slice < SliceCount
  PROVE  /\ Dir \in Directions /\ Plane \in Nat /\ Plane < chunk.size[PlaneAxis(Dir)]
         /\ \A d \in Directions : \A p \in Inside :
              SliceOf(d, p) = slice <=> d = Dir /\ p[PlaneAxis(d)] = Plane
<1> DEFINE x == chunk.size[1]  y == chunk.size[2]  z == chunk.size[3]
<1>1. x \in Nat /\ y \in Nat /\ z \in Nat
  BY SizesAre
<1>2. slice \in Nat /\ slice < 2 * y + 2 * z + 2 * x /\ Across = 2 * y /\ Facing = 2 * z
  <2>1. SliceCount = 2 * y + 2 * z + 2 * x
    BY DEF SliceCount, Across, Facing
  <2> QED BY <1>1, <2>1 DEF Across, Facing
<1> HIDE DEF x, y, z
<1>3. \A p \in Inside : p[1] \in Nat /\ p[2] \in Nat /\ p[3] \in Nat
                        /\ p[1] < x /\ p[2] < y /\ p[3] < z
  BY InsideIs DEF x, y, z
<1>4. CASE slice < 2 * y
  <2> DEFINE m == slice % 2  k == slice \div 2
  <2>1. Dir = m /\ Plane = k
    <3>1. slice < Across /\ slice \notin Across..(Across + Facing - 1)
      BY <1>1, <1>2, <1>4
    <3> QED BY <3>1 DEF Dir, Plane
  <2>2. m \in {0, 1} /\ slice = 2 * k + m /\ k \in Nat /\ k < y
    BY <1>1, <1>2, <1>4
  <2> HIDE DEF m, k
  <2>3. Dir \in {Up, Down} /\ Dir \in Directions /\ PlaneAxis(Dir) = 2
    BY <2>1, <2>2 DEF Up, Down, North, South, East, West, Directions, PlaneAxis
  <2>5. ASSUME NEW d \in Directions, NEW p \in Inside
        PROVE  SliceOf(d, p) = slice <=> d = Dir /\ p[PlaneAxis(d)] = Plane
    <3>1. CASE d \in {Up, Down}
      BY <1>1, <1>2, <1>3, <2>1, <2>2, <3>1, AxesOf DEF SliceOf, Up, Down
    <3>2. CASE d \in {North, South}
      BY <1>1, <1>2, <1>3, <1>4, <2>1, <2>2, <3>2, AxesOf DEF SliceOf, Up, Down, North, South
    <3>3. CASE d \in {East, West}
      BY <1>1, <1>2, <1>3, <1>4, <2>1, <2>2, <3>3, AxesOf DEF SliceOf, Up, Down, North, South, East, West
    <3> QED BY <3>1, <3>2, <3>3, AxesOf
  <2> QED BY <2>1, <2>2, <2>3, <2>5 DEF y
<1>5. CASE ~(slice < 2 * y) /\ slice < 2 * y + 2 * z
  <2> DEFINE m == (slice - 2 * y) % 2  k == (slice - 2 * y) \div 2
  <2>1. Dir = 2 + m /\ Plane = k
    <3>1. ~(slice < Across) /\ slice \in Across..(Across + Facing - 1)
      BY <1>1, <1>2, <1>5
    <3> QED BY <1>2, <3>1 DEF Dir, Plane
  <2>2. m \in {0, 1} /\ slice = 2 * y + 2 * k + m /\ k \in Nat /\ k < z
    BY <1>1, <1>2, <1>5
  <2> HIDE DEF m, k
  <2>3. Dir \in {North, South} /\ Dir \in Directions /\ PlaneAxis(Dir) = 3
    BY <2>1, <2>2 DEF Up, Down, North, South, East, West, Directions, PlaneAxis
  <2>5. ASSUME NEW d \in Directions, NEW p \in Inside
        PROVE  SliceOf(d, p) = slice <=> d = Dir /\ p[PlaneAxis(d)] = Plane
    <3>1. CASE d \in {Up, Down}
      BY <1>1, <1>2, <1>3, <2>1, <2>2, <3>1, AxesOf DEF SliceOf, Up, Down
    <3>2. CASE d \in {North, South}
      BY <1>1, <1>2, <1>3, <2>1, <2>2, <3>2, AxesOf DEF SliceOf, Up, Down, North, South
    <3>3. CASE d \in {East, West}
      BY <1>1, <1>2, <1>3, <2>1, <2>2, <3>3, AxesOf DEF SliceOf, Up, Down, North, South, East, West
    <3> QED BY <3>1, <3>2, <3>3, AxesOf
  <2> QED BY <2>1, <2>2, <2>3, <2>5 DEF z
<1>6. CASE ~(slice < 2 * y + 2 * z)
  <2> DEFINE m == (slice - 2 * y - 2 * z) % 2  k == (slice - 2 * y - 2 * z) \div 2
  <2>1. Dir = 4 + m /\ Plane = k
    <3>1. ~(slice < Across) /\ slice \notin Across..(Across + Facing - 1)
      BY <1>1, <1>2, <1>6
    <3> QED BY <1>2, <3>1 DEF Dir, Plane
  <2>2. m \in {0, 1} /\ slice = 2 * y + 2 * z + 2 * k + m /\ k \in Nat /\ k < x
    BY <1>1, <1>2, <1>6
  <2> HIDE DEF m, k
  <2>3. Dir \in {East, West} /\ Dir \in Directions /\ PlaneAxis(Dir) = 1
    BY <2>1, <2>2 DEF Up, Down, North, South, East, West, Directions, PlaneAxis
  <2>5. ASSUME NEW d \in Directions, NEW p \in Inside
        PROVE  SliceOf(d, p) = slice <=> d = Dir /\ p[PlaneAxis(d)] = Plane
    <3>1. CASE d \in {Up, Down}
      BY <1>1, <1>2, <1>3, <2>1, <2>2, <3>1, AxesOf DEF SliceOf, Up, Down
    <3>2. CASE d \in {North, South}
      BY <1>1, <1>2, <1>3, <2>1, <2>2, <3>2, AxesOf DEF SliceOf, Up, Down, North, South
    <3>3. CASE d \in {East, West}
      BY <1>1, <1>2, <1>3, <2>1, <2>2, <3>3, AxesOf DEF SliceOf, Up, Down, North, South, East, West
    <3> QED BY <3>1, <3>2, <3>3, AxesOf
  <2> QED BY <2>1, <2>2, <2>3, <2>5 DEF x
<1> QED BY <1>4, <1>5, <1>6

-----------------------------------------------------------------------------
(* What is merged.                                                         *)

\* What depends on chunk and policy only does not change.
LEMMA ChunkRests ==
  ASSUME chunk' = chunk, policy' = policy
  PROVE  /\ Inside' = Inside /\ SliceCount' = SliceCount /\ Across' = Across /\ Facing' = Facing
         /\ \A d, p : /\ SliceOf(d, p)' = SliceOf(d, p)
                      /\ IsExposed(d, p)' <=> IsExposed(d, p)
                      /\ FaceKey(d, p)' = FaceKey(d, p)
         /\ \A q : FitsChunk(q)' <=> FitsChunk(q)
         /\ \A k, l : Matches(k, l)' <=> Matches(k, l)
<1>1. Inside' = Inside /\ Across' = Across /\ Facing' = Facing /\ \A p : Material(p)' = Material(p)
  BY DEF Inside, Across, Facing, Material
<1>2. SliceCount' = SliceCount /\ \A d, p : SliceOf(d, p)' = SliceOf(d, p)
  BY <1>1 DEF SliceCount, SliceOf
<1>3. \A d, p : /\ IsExposed(d, p)' <=> IsExposed(d, p)
               /\ FaceKey(d, p)' = FaceKey(d, p)
  BY <1>1 DEF IsExposed, FaceKey
<1>4. /\ \A q : FitsChunk(q)' <=> FitsChunk(q)
      /\ \A k, l : Matches(k, l)' <=> Matches(k, l)
  BY DEF FitsChunk, Matches
<1> QED BY <1>1, <1>2, <1>3, <1>4

\* The cell of a face of this slice is at the position of the face.
LEMMA PositionOfCell ==
  ASSUME chunk \in Chunks, slice \in 0..SliceCount, slice < SliceCount, NEW p \in Inside,
         p[PlaneAxis(Dir)] = Plane
  PROVE  Position(p[SliceAxes(Dir)[1]], p[SliceAxes(Dir)[2]]) = p
<1> DEFINE a == SliceAxes(Dir)[1]  b == SliceAxes(Dir)[2]  c == PlaneAxis(Dir)
<1>1. /\ a \in 1..3 /\ b \in 1..3 /\ c \in 1..3 /\ a # b /\ a # c /\ b # c
      /\ \A i \in 1..3 : i = c \/ i = a \/ i = b
  BY FacesOfSlice, AxesDiffer
<1>2. p = [i \in 1..3 |-> p[i]]
  BY InsideIs
<1>3. Position(p[a], p[b]) = [i \in 1..3 |-> CASE i = c -> Plane [] i = a -> p[a] [] OTHER -> p[b]]
  BY DEF Position
<1> HIDE DEF a, b, c
<1>4. \A i \in 1..3 : p[i] = CASE i = c -> Plane [] i = a -> p[a] [] OTHER -> p[b]
  BY <1>1 DEF c
<1> QED BY <1>2, <1>3, <1>4 DEF a, b

\* All cells of a merged rectangle were open, and join it.
LEMMA RectangleJoins ==
  ASSUME NEW u \in Nat, NEW v \in Nat, NEW w \in Nat, w > 0, NEW h \in Nat, h > 0,
         IsFirst(u, v), IsWidth(w, u, v), IsHeight(h, w, u, v)
  PROVE  \A s \in u..(u + w - 1), t \in v..(v + h - 1) : Joins(KeyAt(u, v), s, t)
<1>1. Joins(KeyAt(u, v), u, v)
  BY DEF IsFirst, Joins, Matches
<1>2. \A i \in 1..(w - 1) : Joins(KeyAt(u, v), u + i, v)
  BY DEF IsWidth
<1>3. \A j \in 1..(h - 1) : \A i \in 0..(w - 1) : Joins(KeyAt(u, v), u + i, v + j)
  BY DEF IsHeight, RowJoins
<1> SUFFICES ASSUME NEW s \in u..(u + w - 1), NEW t \in v..(v + h - 1)
             PROVE  Joins(KeyAt(u, v), s, t)
  OBVIOUS
<1>4. /\ s - u \in 0..(w - 1) /\ u + (s - u) = s /\ t - v \in 0..(h - 1) /\ v + (t - v) = t
      /\ s - u = 0 => s = u
      /\ t - v = 0 => t = v
  OBVIOUS
<1>5. CASE t - v = 0 /\ s - u = 0
  BY <1>1, <1>4, <1>5
<1>6. CASE t - v = 0 /\ s - u # 0
  <2>1. s - u \in 1..(w - 1)
    BY <1>4, <1>6
  <2>2. Joins(KeyAt(u, v), u + (s - u), v)
    BY <1>2, <2>1
  <2> QED BY <1>4, <1>6, <2>2
<1>7. CASE t - v # 0
  <2>1. t - v \in 1..(h - 1)
    BY <1>4, <1>7
  <2>2. Joins(KeyAt(u, v), u + (s - u), v + (t - v))
    BY <1>3, <1>4, <2>1
  <2> QED BY <1>4, <2>2
<1> QED BY <1>5, <1>6, <1>7

\* At first nothing is merged and nothing covered.
LEMMA MeshInitInv == MeshInit => MeshInv
<1> SUFFICES ASSUME MeshInit PROVE MeshInv
  OBVIOUS
<1>1. chunk \in Chunks /\ slice = 0 /\ visited = {} /\ quads = {}
  BY DEF MeshInit
<1>2. SliceCount \in Nat
  BY <1>1, SizesAre DEF SliceCount, Across, Facing
<1>3. MeshTypes
  BY <1>1, <1>2 DEF MeshTypes
<1>4. \A d \in Directions : \A p \in Inside : ~Merged(d, p)
  <2> SUFFICES ASSUME NEW d \in Directions, NEW p \in Inside PROVE ~Merged(d, p)
    OBVIOUS
  <2>1. SliceOf(d, p) \in 0..(SliceCount - 1)
    BY <1>1, SlicesOfFaces
  <2> QED BY <1>1, <1>2, <2>1 DEF Merged
<1> QED BY <1>1, <1>3, <1>4 DEF MeshInv

\* A rectangle covers faces that were exposed, not yet covered and alike.
LEMMA MergeStep ==
  ASSUME MeshInv, MergeQuad
  PROVE  MeshInv'
<1>1. /\ chunk \in Chunks /\ slice \in 0..SliceCount /\ slice < SliceCount
      /\ chunk' = chunk /\ policy' = policy /\ slice' = slice
  BY DEF MeshInv, MeshTypes, MergeQuad
<1> DEFINE a == SliceAxes(Dir)[1]  b == SliceAxes(Dir)[2]  c == PlaneAxis(Dir)
<1>2. PICK u \in 0..(Wide - 1), v \in 0..(High - 1) :
        /\ IsFirst(u, v)
        /\ \E w \in 1..(Wide - u), h \in 1..(High - v) :
             /\ IsWidth(w, u, v) /\ IsHeight(h, w, u, v)
             /\ visited' = visited \cup ((u..(u + w - 1)) \X (v..(v + h - 1)))
             /\ quads' = quads \cup
                  {[dir |-> Dir, at |-> Position(u, v), w |-> w, h |-> h, key |-> KeyAt(u, v)]}
  BY Zenon DEF MergeQuad
<1>3. PICK w \in 1..(Wide - u), h \in 1..(High - v) :
        /\ IsWidth(w, u, v) /\ IsHeight(h, w, u, v)
        /\ visited' = visited \cup ((u..(u + w - 1)) \X (v..(v + h - 1)))
        /\ quads' = quads \cup
             {[dir |-> Dir, at |-> Position(u, v), w |-> w, h |-> h, key |-> KeyAt(u, v)]}
  BY <1>2
<1> DEFINE q == [dir |-> Dir, at |-> Position(u, v), w |-> w, h |-> h, key |-> KeyAt(u, v)]
<1>4. /\ Dir \in Directions /\ Plane \in Nat /\ Plane < chunk.size[c]
      /\ \A d \in Directions : \A p \in Inside :
           SliceOf(d, p) = slice <=> d = Dir /\ p[PlaneAxis(d)] = Plane
  BY <1>1, FacesOfSlice
<1>5. /\ a \in 1..3 /\ b \in 1..3 /\ c \in 1..3 /\ a # b /\ a # c /\ b # c
      /\ \A i \in 1..3 : i = c \/ i = a \/ i = b
  BY <1>4, AxesDiffer
<1>6. /\ Wide = chunk.size[a] /\ High = chunk.size[b] /\ Wide \in Nat /\ High \in Nat
      /\ u \in Nat /\ v \in Nat /\ w \in Nat /\ w > 0 /\ h \in Nat /\ h > 0
      /\ u + w <= Wide /\ v + h <= High
  <2>1. Wide = chunk.size[a] /\ High = chunk.size[b] /\ Wide \in Nat /\ High \in Nat
    BY <1>1, <1>5, SizesAre DEF Wide, High
  <2> QED BY <1>2, <1>3, <2>1
<1>7. \A s \in u..(u + w - 1), t \in v..(v + h - 1) : Joins(KeyAt(u, v), s, t)
  BY <1>2, <1>3, <1>6, RectangleJoins
<1>8. /\ Position(u, v) \in [1..3 -> Nat]
      /\ Position(u, v)[c] = Plane /\ Position(u, v)[a] = u /\ Position(u, v)[b] = v
  <2>1. Position(u, v) = [i \in 1..3 |-> CASE i = c -> Plane [] i = a -> u [] OTHER -> v]
    BY DEF Position
  <2> HIDE DEF a, b, c
  <2> QED BY <1>4, <1>5, <1>6, <2>1
<1>9. /\ q.dir = Dir /\ q.at = Position(u, v) /\ q.w = w /\ q.h = h /\ q.key = KeyAt(u, v)
      /\ quads' = quads \cup {q}
  BY <1>3
<1> HIDE DEF q
<1>10. FitsChunk(q)
  BY <1>4, <1>6, <1>8, <1>9 DEF FitsChunk
<1>11. ASSUME NEW d \in Directions, NEW p \in Inside
       PROVE  /\ Covers(q, d, p) <=> /\ d = Dir /\ p[c] = Plane
                                     /\ p[a] \in u..(u + w - 1) /\ p[b] \in v..(v + h - 1)
              /\ Covers(q, d, p) => /\ ~Merged(d, p) /\ IsExposed(d, p)
                                    /\ Matches(q.key, FaceKey(d, p))
              /\ Merged(d, p)' <=> Merged(d, p) \/ Covers(q, d, p)
  <2>1. p[a] \in Nat /\ p[b] \in Nat /\ p[c] \in Nat
    BY <1>1, <1>5, InsideIs
  <2>2. Covers(q, d, p) <=> /\ d = Dir /\ p[c] = Plane
                            /\ p[a] \in u..(u + w - 1) /\ p[b] \in v..(v + h - 1)
    <3>1. d = Dir => (Covers(q, d, p) <=> /\ p[c] = Plane /\ u <= p[a] /\ p[a] < u + w
                                          /\ v <= p[b] /\ p[b] < v + h)
      BY <1>8, <1>9 DEF Covers
    <3>2. Covers(q, d, p) => d = Dir
      BY <1>9 DEF Covers
    <3> HIDE DEF a, b, c
    <3> QED BY <1>6, <2>1, <3>1, <3>2
  <2>3. ASSUME d = Dir, p[c] = Plane
        PROVE  Position(p[a], p[b]) = p /\ CellIn(d, p) = <<p[a], p[b]>> /\ SliceOf(d, p) = slice
    <3>1. Position(p[a], p[b]) = p
      BY <1>1, <2>3, PositionOfCell
    <3> QED BY <1>4, <2>3, <3>1 DEF CellIn
  <2>4. ASSUME Covers(q, d, p)
        PROVE  ~Merged(d, p) /\ IsExposed(d, p) /\ Matches(q.key, FaceKey(d, p))
    <3>1. d = Dir /\ p[c] = Plane
      BY <2>2, <2>4
    <3>2. Joins(KeyAt(u, v), p[a], p[b])
      BY <1>7, <2>2, <2>4
    <3>3. /\ <<p[a], p[b]>> \notin visited /\ IsExposed(Dir, Position(p[a], p[b]))
          /\ Matches(KeyAt(u, v), FaceKey(Dir, Position(p[a], p[b])))
      BY <3>2 DEF Joins, Open, Face, KeyAt
    <3>4. SliceOf(d, p) = slice /\ CellIn(d, p) \notin visited
      BY <2>3, <3>1, <3>3
    <3>5. ~Merged(d, p)
      BY <1>1, <3>4 DEF Merged
    <3> QED BY <1>9, <2>3, <3>1, <3>3, <3>5
  <2>5. Merged(d, p)' <=> Merged(d, p) \/ Covers(q, d, p)
    <3>1. SliceOf(d, p)' = SliceOf(d, p) /\ CellIn(d, p)' = CellIn(d, p)
      BY <1>1, ChunkRests DEF CellIn
    <3>2. Merged(d, p)' <=> SliceOf(d, p) < slice \/ (SliceOf(d, p) = slice /\ CellIn(d, p) \in visited')
      BY <1>1, <3>1 DEF Merged
    <3>3. CellIn(d, p) \in visited' <=>
            \/ CellIn(d, p) \in visited
            \/ CellIn(d, p) \in (u..(u + w - 1)) \X (v..(v + h - 1))
      BY <1>3
    <3>4. CASE d = Dir /\ p[c] = Plane
      <4>1. CellIn(d, p) = <<p[a], p[b]>> /\ SliceOf(d, p) = slice
        BY <2>3, <3>4
      <4>2. CellIn(d, p) \in (u..(u + w - 1)) \X (v..(v + h - 1))
              <=> p[a] \in u..(u + w - 1) /\ p[b] \in v..(v + h - 1)
        BY <4>1
      <4> QED BY <2>2, <3>2, <3>3, <3>4, <4>1, <4>2 DEF Merged
    <3>5. CASE ~(d = Dir /\ p[c] = Plane)
      <4>1. SliceOf(d, p) # slice
        BY <1>4, <3>5
      <4> QED BY <2>2, <3>2, <3>5, <4>1 DEF Merged
    <3> QED BY <3>4, <3>5
  <2> QED BY <2>2, <2>4, <2>5
<1>12. /\ Inside' = Inside /\ SliceCount' = SliceCount
       /\ \A d, p : /\ IsExposed(d, p)' <=> IsExposed(d, p)
                    /\ FaceKey(d, p)' = FaceKey(d, p)
       /\ \A r : FitsChunk(r)' <=> FitsChunk(r)
       /\ \A k, l : Matches(k, l)' <=> Matches(k, l)
  BY <1>1, ChunkRests
<1>13. MeshTypes'
  BY <1>1, <1>12 DEF MeshTypes
<1>14. \A r \in quads' : FitsChunk(r)'
  BY <1>9, <1>10, <1>12 DEF MeshInv
<1>15. ASSUME NEW d \in Directions, NEW p \in Inside
       PROVE  /\ IsExposed(d, p) /\ Merged(d, p)' <=> \E r \in quads' : Covers(r, d, p)
              /\ \A r \in quads' : Covers(r, d, p) => Matches(r.key, FaceKey(d, p))
              /\ \A r, s \in quads' : Covers(r, d, p) /\ Covers(s, d, p) => r = s
  <2>1. /\ IsExposed(d, p) /\ Merged(d, p) <=> \E r \in quads : Covers(r, d, p)
        /\ \A r \in quads : Covers(r, d, p) => Matches(r.key, FaceKey(d, p))
        /\ \A r, s \in quads : Covers(r, d, p) /\ Covers(s, d, p) => r = s
    BY DEF MeshInv
  <2>2. /\ Covers(q, d, p) => /\ ~Merged(d, p) /\ IsExposed(d, p)
                              /\ Matches(q.key, FaceKey(d, p))
        /\ Merged(d, p)' <=> Merged(d, p) \/ Covers(q, d, p)
    BY <1>11
  <2>3. quads' = quads \cup {q}
    BY <1>9
  <2> QED BY ONLY <2>1, <2>2, <2>3
<1> QED BY <1>12, <1>13, <1>14, <1>15 DEF MeshInv, Covers

\* At the end of a slice all its exposed faces are covered.
LEMMA EndStep ==
  ASSUME MeshInv, EndSlice
  PROVE  MeshInv'
<1>1. /\ chunk \in Chunks /\ slice \in 0..SliceCount /\ slice < SliceCount
      /\ chunk' = chunk /\ policy' = policy /\ slice' = slice + 1 /\ visited' = {} /\ quads' = quads
      /\ \A u \in 0..(Wide - 1), v \in 0..(High - 1) : ~Open(u, v)
  BY DEF MeshInv, MeshTypes, EndSlice
<1>2. SliceCount \in Nat
  BY <1>1, SizesAre DEF SliceCount, Across, Facing
<1> DEFINE a == SliceAxes(Dir)[1]  b == SliceAxes(Dir)[2]  c == PlaneAxis(Dir)
<1>3. /\ Inside' = Inside /\ SliceCount' = SliceCount
      /\ \A d, p : /\ SliceOf(d, p)' = SliceOf(d, p)
                   /\ IsExposed(d, p)' <=> IsExposed(d, p)
                   /\ FaceKey(d, p)' = FaceKey(d, p)
      /\ \A r : FitsChunk(r)' <=> FitsChunk(r)
      /\ \A k, l : Matches(k, l)' <=> Matches(k, l)
  BY <1>1, ChunkRests
<1>4. Dir \in Directions
  BY <1>1, FacesOfSlice
<1>5. ASSUME NEW d \in Directions, NEW p \in Inside
      PROVE  IsExposed(d, p) => (Merged(d, p)' <=> Merged(d, p))
  <2>1. SliceOf(d, p) \in Nat
    BY <1>1, <1>2, SlicesOfFaces
  <2>2. Merged(d, p)' <=> SliceOf(d, p) < slice + 1
    BY <1>1, <1>3 DEF Merged
  <2>3. CASE SliceOf(d, p) # slice
    BY <1>1, <2>1, <2>2, <2>3 DEF Merged
  <2>4. CASE SliceOf(d, p) = slice
    <3>1. d = Dir /\ p[c] = Plane
      BY <1>1, <2>4, FacesOfSlice
    <3>2. Position(p[a], p[b]) = p /\ CellIn(d, p) = <<p[a], p[b]>>
      BY <1>1, <3>1, PositionOfCell DEF CellIn
    <3>3. p[a] \in 0..(Wide - 1) /\ p[b] \in 0..(High - 1)
      <4>1. a \in 1..3 /\ b \in 1..3
        BY <1>4, AxesDiffer
      <4>2. \A i \in 1..3 : p[i] \in Nat /\ p[i] < chunk.size[i] /\ chunk.size[i] \in Nat
        BY <1>1, InsideIs, SizesAre
      <4> QED BY <4>1, <4>2 DEF Wide, High
    <3>4. ~Open(p[a], p[b])
      BY <1>1, <3>3
    <3>5. <<p[a], p[b]>> \in visited \/ ~IsExposed(d, p)
      BY <3>1, <3>2, <3>4 DEF Open, Face
    <3> QED BY <1>1, <2>1, <2>2, <2>4, <3>2, <3>5 DEF Merged
  <2> QED BY <2>3, <2>4
<1>6. MeshTypes'
  BY <1>1, <1>2, <1>3 DEF MeshTypes
<1>7. ASSUME NEW d \in Directions, NEW p \in Inside
      PROVE  /\ IsExposed(d, p) /\ Merged(d, p)' <=> \E r \in quads : Covers(r, d, p)
             /\ \A r \in quads : Covers(r, d, p) => Matches(r.key, FaceKey(d, p))
             /\ \A r, s \in quads : Covers(r, d, p) /\ Covers(s, d, p) => r = s
  BY <1>5 DEF MeshInv
<1> QED BY <1>1, <1>3, <1>6, <1>7 DEF MeshInv, Covers

\* Every step keeps the invariant.
LEMMA MeshStep ==
  ASSUME MeshInv, [MeshNext]_meshVars
  PROVE  MeshInv'
<1>1. CASE MergeQuad
  BY <1>1, MergeStep
<1>2. CASE EndSlice
  BY <1>2, EndStep
<1>3. CASE UNCHANGED meshVars
  <2>1. /\ chunk' = chunk /\ policy' = policy /\ slice' = slice /\ visited' = visited
        /\ quads' = quads
    BY <1>3 DEF meshVars
  <2>2. /\ Inside' = Inside /\ SliceCount' = SliceCount
        /\ \A d, p : /\ SliceOf(d, p)' = SliceOf(d, p)
                     /\ IsExposed(d, p)' <=> IsExposed(d, p)
                     /\ FaceKey(d, p)' = FaceKey(d, p)
        /\ \A r : FitsChunk(r)' <=> FitsChunk(r)
        /\ \A k, l : Matches(k, l)' <=> Matches(k, l)
    BY <2>1, ChunkRests
  <2>3. \A d, p : Merged(d, p)' <=> Merged(d, p)
    BY <2>1, <2>2 DEF Merged, CellIn
  <2> QED BY <2>1, <2>2, <2>3 DEF MeshInv, MeshTypes, Covers
<1> QED BY <1>1, <1>2, <1>3 DEF MeshNext

-----------------------------------------------------------------------------
(* What is drawn.                                                          *)

\* Four corners that span a box which is flat along d and looks that way.
Middle(d, p) == [i \in 1..3 |-> 2 * p[i] + 1 + (IF i = PlaneAxis(d) THEN Ahead(d) ELSE 0)]
Spans(k, d, lo, hi) ==
  /\ lo \in [1..3 -> Int] /\ hi \in [1..3 -> Int] /\ lo[PlaneAxis(d)] = hi[PlaneAxis(d)]
  /\ \A n \in 1..4 : k[n] \in [1..3 -> Int]
  /\ \A n \in 1..4, i \in 1..3 : lo[i] <= k[n][i] /\ k[n][i] <= hi[i]
  /\ \A i \in 1..3 : \E m, n \in 1..4 : k[m][i] = lo[i] /\ k[n][i] = hi[i]

\* Corners in one plane have a normal along its axis.
LEMMA FlatNormal ==
  ASSUME NEW k, \A n \in 1..4 : k[n] \in [1..3 -> Int], NEW e \in 1..3,
         k[2][e] = k[1][e], k[3][e] = k[1][e]
  PROVE  \A i \in 1..3 : Normal(k)[i] \in Int /\ (i # e => Normal(k)[i] = 0)
<1> DEFINE a == [i \in 1..3 |-> k[2][i] - k[1][i]]
           b == [i \in 1..3 |-> k[3][i] - k[1][i]]
           n == Normal(k)
<1>1. \A i \in 1..3 : k[1][i] \in Int /\ k[2][i] \in Int /\ k[3][i] \in Int
  OBVIOUS
<1>2. \A i \in 1..3 : a[i] \in Int /\ b[i] \in Int
  BY <1>1
<1>3. a[e] = 0 /\ b[e] = 0
  BY <1>1
<1>4. /\ n[1] = a[2] * b[3] - a[3] * b[2]
      /\ n[2] = a[3] * b[1] - a[1] * b[3]
      /\ n[3] = a[1] * b[2] - a[2] * b[1]
  BY DEF Normal
<1> HIDE DEF a, b, n
<1>5. n[1] \in Int /\ n[2] \in Int /\ n[3] \in Int
  BY <1>2, <1>4
<1>6. \A x \in Int : 0 * x = 0 /\ x * 0 = 0
  OBVIOUS
<1>7. CASE e = 1
  <2>1. n[2] = a[3] * 0 - 0 * b[3] /\ n[3] = 0 * b[2] - a[2] * 0
    BY <1>3, <1>4, <1>7
  <2>2. n[2] = 0 /\ n[3] = 0
    BY <1>2, <1>6, <2>1
  <2> QED BY <1>5, <1>7, <2>2 DEF n
<1>8. CASE e = 2
  <2>1. n[1] = 0 * b[3] - a[3] * 0 /\ n[3] = a[1] * 0 - 0 * b[1]
    BY <1>3, <1>4, <1>8
  <2>2. n[1] = 0 /\ n[3] = 0
    BY <1>2, <1>6, <2>1
  <2> QED BY <1>5, <1>8, <2>2 DEF n
<1>9. CASE e = 3
  <2>1. n[1] = a[2] * 0 - 0 * b[2] /\ n[2] = 0 * b[1] - a[1] * 0
    BY <1>3, <1>4, <1>9
  <2>2. n[1] = 0 /\ n[2] = 0
    BY <1>2, <1>6, <2>1
  <2> QED BY <1>5, <1>9, <2>2 DEF n
<1> QED BY <1>7, <1>8, <1>9

\* Such a rectangle shows the faces that look its way and lie in it.
LEMMA ShowsIs ==
  ASSUME NEW d \in Directions, NEW g, NEW lo, NEW hi, Spans(g.corners, d, lo, hi),
         Normal(g.corners)[PlaneAxis(d)] * Ahead(d) > 0,
         NEW e \in Directions, NEW p \in [1..3 -> Nat]
  PROVE  Shows(g, e, p) <=> e = d /\ \A i \in 1..3 : lo[i] <= Middle(d, p)[i] /\ Middle(d, p)[i] <= hi[i]
<1> DEFINE k == g.corners  a == PlaneAxis(d)
<1>1. /\ \A n \in 1..4 : k[n] \in [1..3 -> Int]
      /\ lo \in [1..3 -> Int] /\ hi \in [1..3 -> Int] /\ a \in 1..3
      /\ \A n \in 1..4, i \in 1..3 : lo[i] <= k[n][i] /\ k[n][i] <= hi[i]
      /\ \A i \in 1..3 : \E m, n \in 1..4 : k[m][i] = lo[i] /\ k[n][i] = hi[i]
      /\ lo[a] = hi[a]
  BY AxesDiffer DEF Spans
<1>2. k[2][a] = k[1][a] /\ k[3][a] = k[1][a]
  <2>1. \A n \in 1..4 : lo[a] <= k[n][a] /\ k[n][a] <= lo[a] /\ k[n][a] \in Int /\ lo[a] \in Int
    BY <1>1
  <2> QED BY <2>1
<1>3. \A i \in 1..3 : Normal(k)[i] \in Int /\ (i # a => Normal(k)[i] = 0)
  BY ONLY <1>1, <1>2, FlatNormal
<1>4. Ahead(d) \in {1, -1} /\ Ahead(e) \in {1, -1} /\ PlaneAxis(e) \in 1..3
  BY AxesDiffer DEF Ahead
<1>5. PlaneAxis(e) = a /\ Ahead(e) = Ahead(d) => e = d
  BY AxesOf DEF Ahead, Directions, Up, Down, North, South, East, West
<1> DEFINE x == Normal(k)[a]
<1>6. Normal(k)[PlaneAxis(e)] * Ahead(e) > 0 <=> e = d
  <2>1. CASE PlaneAxis(e) = a
    <3>1. x \in Int /\ x * Ahead(d) > 0 /\ Normal(k)[PlaneAxis(e)] = x
      BY <1>1, <1>3, <2>1
    <3> HIDE DEF x, k, a
    <3>2. CASE Ahead(e) = Ahead(d)
      BY <1>5, <2>1, <3>1, <3>2
    <3>3. CASE Ahead(e) # Ahead(d)
      <4>1. (Ahead(d) = 1 /\ Ahead(e) = -1) \/ (Ahead(d) = -1 /\ Ahead(e) = 1)
        BY <1>4, <3>3
      <4>2. e # d
        BY <3>3
      <4>3. ~(x * Ahead(e) > 0)
        BY <3>1, <4>1
      <4> QED BY <3>1, <4>2, <4>3
    <3> QED BY <3>2, <3>3
  <2>2. CASE PlaneAxis(e) # a
    <3>1. Normal(k)[PlaneAxis(e)] = 0 /\ e # d
      BY <1>3, <1>4, <2>2
    <3>2. ~(0 * Ahead(e) > 0)
      BY <1>4
    <3> QED BY <3>1, <3>2
  <2> QED BY <2>1, <2>2
<1>7. ASSUME NEW m \in [1..3 -> Int]
      PROVE  (\A i \in 1..3 : \E r, n \in 1..4 : k[r][i] <= m[i] /\ m[i] <= k[n][i])
               <=> \A i \in 1..3 : lo[i] <= m[i] /\ m[i] <= hi[i]
  <2> SUFFICES ASSUME NEW i \in 1..3
               PROVE  (\E r, n \in 1..4 : k[r][i] <= m[i] /\ m[i] <= k[n][i])
                        <=> lo[i] <= m[i] /\ m[i] <= hi[i]
    OBVIOUS
  <2>1. /\ \A n \in 1..4 : k[n][i] \in Int /\ lo[i] <= k[n][i] /\ k[n][i] <= hi[i]
        /\ lo[i] \in Int /\ hi[i] \in Int /\ m[i] \in Int
    BY <1>1
  <2>2. PICK r \in 1..4, n \in 1..4 : k[r][i] = lo[i] /\ k[n][i] = hi[i]
    BY <1>1
  <2> HIDE DEF k
  <2> QED BY <2>1, <2>2
<1>8. Middle(e, p) \in [1..3 -> Int]
  BY <1>4 DEF Middle
<1>9. Shows(g, e, p) <=>
        /\ Normal(k)[PlaneAxis(e)] * Ahead(e) > 0
        /\ \A i \in 1..3 : \E r, n \in 1..4 : k[r][i] <= Middle(e, p)[i] /\ Middle(e, p)[i] <= k[n][i]
  BY DEF Shows, Middle
<1> HIDE DEF k
<1> QED BY <1>6, <1>7, <1>8, <1>9

\* How the first triangle turns, by its sides along the axes of the slice.
LEMMA TurnsAre ==
  ASSUME NEW d \in Directions, NEW k, \A n \in 1..4 : k[n] \in [1..3 -> Int],
         NEW va \in Int, NEW vb \in Int, NEW wa \in Int, NEW wb \in Int,
         k[2][SliceAxes(d)[1]] - k[1][SliceAxes(d)[1]] = va,
         k[2][SliceAxes(d)[2]] - k[1][SliceAxes(d)[2]] = vb,
         k[3][SliceAxes(d)[1]] - k[1][SliceAxes(d)[1]] = wa,
         k[3][SliceAxes(d)[2]] - k[1][SliceAxes(d)[2]] = wb
  PROVE  Normal(k)[PlaneAxis(d)] = IF d \in {North, South} THEN va * wb - vb * wa
                                                           ELSE vb * wa - va * wb
<1> DEFINE a == [i \in 1..3 |-> k[2][i] - k[1][i]]
           b == [i \in 1..3 |-> k[3][i] - k[1][i]]
           n == Normal(k)
<1>1. /\ n[1] = a[2] * b[3] - a[3] * b[2]
      /\ n[2] = a[3] * b[1] - a[1] * b[3]
      /\ n[3] = a[1] * b[2] - a[2] * b[1]
  BY DEF Normal
<1>2. /\ a[SliceAxes(d)[1]] = va /\ a[SliceAxes(d)[2]] = vb
      /\ b[SliceAxes(d)[1]] = wa /\ b[SliceAxes(d)[2]] = wb
  BY AxesDiffer
<1> HIDE DEF a, b, n
<1>3. {Up, Down} \cap {North, South} = {} /\ {East, West} \cap {North, South} = {}
  BY DEF Up, Down, North, South, East, West
<1>4. CASE d \in {Up, Down}
  BY <1>1, <1>2, <1>3, <1>4, AxesOf DEF n
<1>5. CASE d \in {North, South}
  BY <1>1, <1>2, <1>5, AxesOf DEF n
<1>6. CASE d \in {East, West}
  BY <1>1, <1>2, <1>3, <1>6, AxesOf DEF n
<1> QED BY <1>4, <1>5, <1>6, AxesOf

\* The product of two sides, and of them with a zero or a sign.
LEMMA Sides ==
  ASSUME NEW x \in Nat, x > 0, NEW y \in Nat, y > 0
  PROVE  /\ x * y \in Nat /\ x * y > 0 /\ y * x = x * y
         /\ x * 0 = 0 /\ 0 * x = 0 /\ y * 0 = 0 /\ 0 * y = 0
         /\ x * (-y) = -(x * y) /\ (-x) * y = -(x * y) /\ y * (-x) = -(x * y)
         /\ (x * y) * 1 = x * y /\ (-(x * y)) * (-1) = x * y
OBVIOUS

LowOf(q) == [i \in 1..3 |-> IF i = PlaneAxis(q.dir) THEN Front(q) ELSE 2 * q.at[i]]
HighOf(q) ==
  [i \in 1..3 |-> CASE i = PlaneAxis(q.dir) -> Front(q)
                    [] i = SliceAxes(q.dir)[1] -> 2 * (q.at[i] + q.w)
                    [] OTHER -> 2 * (q.at[i] + q.h)]

\* What is known of a rectangle that fits the chunk.
LEMMA QuadIs ==
  ASSUME chunk \in Chunks, NEW q, FitsChunk(q)
  PROVE  LET a == SliceAxes(q.dir)[1] b == SliceAxes(q.dir)[2] c == PlaneAxis(q.dir)
         IN  /\ q.dir \in Directions /\ q.w \in Nat /\ q.w > 0 /\ q.h \in Nat /\ q.h > 0
             /\ \A i \in 1..3 : q.at[i] \in Nat /\ chunk.size[i] \in Nat
             /\ q.at[c] < chunk.size[c]
             /\ q.at[a] + q.w <= chunk.size[a] /\ q.at[b] + q.h <= chunk.size[b]
             /\ Ahead(q.dir) \in {1, -1}
             /\ Front(q) = 2 * q.at[c] + 1 + Ahead(q.dir)
             /\ LowOf(q) \in [1..3 -> Nat] /\ HighOf(q) \in [1..3 -> Nat]
             /\ \A i \in 1..3 : HighOf(q)[i] <= 2 * chunk.size[i]
             /\ LowOf(q)[c] = Front(q) /\ HighOf(q)[c] = Front(q)
             /\ LowOf(q)[a] = 2 * q.at[a] /\ HighOf(q)[a] = 2 * (q.at[a] + q.w)
             /\ LowOf(q)[b] = 2 * q.at[b] /\ HighOf(q)[b] = 2 * (q.at[b] + q.h)
<1> DEFINE a == SliceAxes(q.dir)[1]  b == SliceAxes(q.dir)[2]  c == PlaneAxis(q.dir)
<1>1. /\ q.dir \in Directions /\ q.w \in Nat /\ q.w > 0 /\ q.h \in Nat /\ q.h > 0
      /\ \A i \in 1..3 : q.at[i] \in Nat /\ chunk.size[i] \in Nat
      /\ q.at[c] < chunk.size[c]
      /\ q.at[a] + q.w <= chunk.size[a] /\ q.at[b] + q.h <= chunk.size[b]
  BY SizesAre DEF FitsChunk
<1>2. /\ a \in 1..3 /\ b \in 1..3 /\ c \in 1..3 /\ a # b /\ a # c /\ b # c
      /\ \A i \in 1..3 : i = c \/ i = a \/ i = b
  BY <1>1, AxesDiffer
<1>3. Ahead(q.dir) \in {1, -1}
  BY DEF Ahead
<1>4. Front(q) = 2 * q.at[c] + 1 + Ahead(q.dir)
  BY <1>1, <1>2, <1>3 DEF Front
<1>5. Front(q) \in Nat /\ Front(q) <= 2 * chunk.size[c]
  BY <1>1, <1>2, <1>3, <1>4
<1>6. /\ LowOf(q)[c] = Front(q) /\ HighOf(q)[c] = Front(q)
      /\ LowOf(q)[a] = 2 * q.at[a] /\ HighOf(q)[a] = 2 * (q.at[a] + q.w)
      /\ LowOf(q)[b] = 2 * q.at[b] /\ HighOf(q)[b] = 2 * (q.at[b] + q.h)
  BY <1>2 DEF LowOf, HighOf
<1>7. LowOf(q) = [i \in 1..3 |-> LowOf(q)[i]] /\ HighOf(q) = [i \in 1..3 |-> HighOf(q)[i]]
  BY DEF LowOf, HighOf
<1> HIDE DEF a, b, c
<1>8. \A i \in 1..3 : LowOf(q)[i] \in Nat /\ HighOf(q)[i] \in Nat /\ HighOf(q)[i] <= 2 * chunk.size[i]
  <2>1. 2 * q.at[a] \in Nat /\ 2 * (q.at[a] + q.w) \in Nat /\ 2 * (q.at[a] + q.w) <= 2 * chunk.size[a]
    BY <1>1, <1>2
  <2>2. 2 * q.at[b] \in Nat /\ 2 * (q.at[b] + q.h) \in Nat /\ 2 * (q.at[b] + q.h) <= 2 * chunk.size[b]
    BY <1>1, <1>2
  <2> TAKE i \in 1..3
  <2>3. CASE i = a
    BY <1>6, <2>1, <2>3
  <2>4. CASE i = b
    BY <1>6, <2>2, <2>4
  <2>5. CASE i = c
    BY <1>5, <1>6, <2>5
  <2> QED BY <1>2, <2>3, <2>4, <2>5
<1> QED BY <1>1, <1>3, <1>4, <1>6, <1>7, <1>8 DEF a, b, c

\* The faces in a rectangle are those with their middle between its edges.
LEMMA MiddlesAre ==
  ASSUME chunk \in Chunks, NEW q, FitsChunk(q), NEW d \in Directions, NEW p \in Inside
  PROVE  Covers(q, d, p) <=>
           /\ d = q.dir
           /\ \A i \in 1..3 : LowOf(q)[i] <= Middle(q.dir, p)[i] /\ Middle(q.dir, p)[i] <= HighOf(q)[i]
<1> DEFINE e == q.dir  a == SliceAxes(e)[1]  b == SliceAxes(e)[2]  c == PlaneAxis(e)
<1>1. /\ e \in Directions /\ q.w \in Nat /\ q.w > 0 /\ q.h \in Nat /\ q.h > 0
      /\ \A i \in 1..3 : q.at[i] \in Nat
      /\ Ahead(e) \in {1, -1} /\ Front(q) = 2 * q.at[c] + 1 + Ahead(e)
      /\ LowOf(q)[c] = Front(q) /\ HighOf(q)[c] = Front(q)
      /\ LowOf(q)[a] = 2 * q.at[a] /\ HighOf(q)[a] = 2 * (q.at[a] + q.w)
      /\ LowOf(q)[b] = 2 * q.at[b] /\ HighOf(q)[b] = 2 * (q.at[b] + q.h)
  BY QuadIs
<1>2. /\ a \in 1..3 /\ b \in 1..3 /\ c \in 1..3 /\ a # b /\ a # c /\ b # c
      /\ \A i \in 1..3 : i = c \/ i = a \/ i = b
  BY <1>1, AxesDiffer
<1>3. \A i \in 1..3 : p[i] \in Nat
  BY InsideIs
<1>4. /\ Middle(e, p)[c] = 2 * p[c] + 1 + Ahead(e)
      /\ Middle(e, p)[a] = 2 * p[a] + 1 /\ Middle(e, p)[b] = 2 * p[b] + 1
  BY <1>2, <1>3 DEF Middle
<1>5. Covers(q, d, p) <=>
        /\ d = e /\ p[c] = q.at[c]
        /\ q.at[a] <= p[a] /\ p[a] < q.at[a] + q.w /\ q.at[b] <= p[b] /\ p[b] < q.at[b] + q.h
  BY DEF Covers
<1> HIDE DEF e, a, b, c
<1>6. p[c] = q.at[c] <=> LowOf(q)[c] <= Middle(e, p)[c] /\ Middle(e, p)[c] <= HighOf(q)[c]
  <2>1. p[c] \in Nat /\ q.at[c] \in Nat /\ Ahead(e) \in Int
    BY <1>1, <1>2, <1>3
  <2>2. p[c] = q.at[c] <=> /\ 2 * q.at[c] + 1 + Ahead(e) <= 2 * p[c] + 1 + Ahead(e)
                           /\ 2 * p[c] + 1 + Ahead(e) <= 2 * q.at[c] + 1 + Ahead(e)
    BY <2>1
  <2> QED BY <1>1, <1>4, <2>2
<1>7. q.at[a] <= p[a] /\ p[a] < q.at[a] + q.w
        <=> LowOf(q)[a] <= Middle(e, p)[a] /\ Middle(e, p)[a] <= HighOf(q)[a]
  BY <1>1, <1>2, <1>3, <1>4
<1>8. q.at[b] <= p[b] /\ p[b] < q.at[b] + q.h
        <=> LowOf(q)[b] <= Middle(e, p)[b] /\ Middle(e, p)[b] <= HighOf(q)[b]
  BY <1>1, <1>2, <1>3, <1>4
<1>9. (\A i \in 1..3 : LowOf(q)[i] <= Middle(e, p)[i] /\ Middle(e, p)[i] <= HighOf(q)[i])
        <=> /\ LowOf(q)[a] <= Middle(e, p)[a] /\ Middle(e, p)[a] <= HighOf(q)[a]
            /\ LowOf(q)[b] <= Middle(e, p)[b] /\ Middle(e, p)[b] <= HighOf(q)[b]
            /\ LowOf(q)[c] <= Middle(e, p)[c] /\ Middle(e, p)[c] <= HighOf(q)[c]
  BY <1>2
<1> QED BY <1>5, <1>6, <1>7, <1>8, <1>9 DEF e

\* The corners append_quad() lays span the rectangle, outward.
LEMMA IndexedSpans ==
  ASSUME chunk \in Chunks, NEW q, FitsChunk(q)
  PROVE  /\ Spans(Indexed(q).corners, q.dir, LowOf(q), HighOf(q))
         /\ Normal(Indexed(q).corners)[PlaneAxis(q.dir)] * Ahead(q.dir) > 0
<1> DEFINE d == q.dir  a == SliceAxes(d)[1]  b == SliceAxes(d)[2]  c == PlaneAxis(d)
           k == Indexed(q).corners  lo == LowOf(q)  hi == HighOf(q)
           w == 2 * q.w  h == 2 * q.h
<1>1. /\ d \in Directions /\ q.w \in Nat /\ q.w > 0 /\ q.h \in Nat /\ q.h > 0
      /\ \A i \in 1..3 : q.at[i] \in Nat
      /\ lo \in [1..3 -> Nat] /\ hi \in [1..3 -> Nat]
      /\ lo[c] = Front(q) /\ hi[c] = Front(q)
      /\ lo[a] = 2 * q.at[a] /\ hi[a] = 2 * (q.at[a] + q.w)
      /\ lo[b] = 2 * q.at[b] /\ hi[b] = 2 * (q.at[b] + q.h)
  BY QuadIs
<1>2. /\ a \in 1..3 /\ b \in 1..3 /\ c \in 1..3 /\ a # b /\ a # c /\ b # c
      /\ \A i \in 1..3 : i = c \/ i = a \/ i = b
  BY <1>1, AxesDiffer
<1>3. /\ w \in Nat /\ w > 0 /\ h \in Nat /\ h > 0
      /\ hi[a] = lo[a] + w /\ hi[b] = lo[b] + h /\ lo[c] = hi[c]
      /\ \A i \in 1..3 : lo[i] \in Nat /\ hi[i] \in Nat
  BY <1>1, <1>2
<1>4. \A n \in 1..4 : k[n] = Corner(q, Turn(d)[n])
  BY DEF Indexed
<1>5. ASSUME NEW s \in {0, 1}, NEW t \in {0, 1}
      PROVE  LET x == Corner(q, <<s, t>>)
             IN  /\ x \in [1..3 -> Int] /\ x[c] = lo[c]
                 /\ x[a] = (IF s = 0 THEN lo[a] ELSE hi[a]) /\ x[b] = (IF t = 0 THEN lo[b] ELSE hi[b])
  <2> DEFINE x == Corner(q, <<s, t>>)
  <2>1. x = [i \in 1..3 |-> CASE i = c -> Front(q)
                              [] i = a -> 2 * (q.at[i] + s * q.w)
                              [] OTHER -> 2 * (q.at[i] + t * q.h)]
    BY DEF Corner
  <2>2. s * q.w = (IF s = 0 THEN 0 ELSE q.w) /\ t * q.h = (IF t = 0 THEN 0 ELSE q.h)
    BY <1>1
  <2>3. 2 * (q.at[a] + s * q.w) = (IF s = 0 THEN lo[a] ELSE hi[a])
    BY <1>1, <1>2, <2>2
  <2>4. 2 * (q.at[b] + t * q.h) = (IF t = 0 THEN lo[b] ELSE hi[b])
    BY <1>1, <1>2, <2>2
  <2> HIDE DEF a, b, c, lo, hi
  <2>5. x[c] = Front(q) /\ x[a] = 2 * (q.at[a] + s * q.w) /\ x[b] = 2 * (q.at[b] + t * q.h)
    BY <1>2, <2>1
  <2>6. x[c] = lo[c] /\ x[a] = (IF s = 0 THEN lo[a] ELSE hi[a]) /\ x[b] = (IF t = 0 THEN lo[b] ELSE hi[b])
    BY <1>1, <2>3, <2>4, <2>5
  <2>7. \A i \in 1..3 : x[i] \in Int
    BY <1>2, <1>3, <2>6
  <2>8. x = [i \in 1..3 |-> x[i]]
    BY <2>1
  <2> QED BY <2>6, <2>7, <2>8
<1> DEFINE first == d \in {Up, North, East}
<1>6. /\ first => /\ k[1] = Corner(q, <<0, 0>>) /\ k[2] = Corner(q, <<0, 1>>)
                  /\ k[3] = Corner(q, <<1, 1>>) /\ k[4] = Corner(q, <<1, 0>>)
      /\ ~first => /\ k[1] = Corner(q, <<0, 0>>) /\ k[2] = Corner(q, <<1, 0>>)
                   /\ k[3] = Corner(q, <<1, 1>>) /\ k[4] = Corner(q, <<0, 1>>)
  BY <1>4 DEF Turn
<1>7. first <=> Ahead(d) = (IF d \in {North, South} THEN -1 ELSE 1)
  BY <1>1 DEF Ahead, Directions, Up, Down, North, South, East, West
<1>8. Ahead(d) \in {1, -1}
  BY DEF Ahead
<1> HIDE DEF k, lo, hi, w, h, a, b, c, d, first
<1>9. /\ \A n \in 1..4 : k[n] \in [1..3 -> Int] /\ k[n][c] = lo[c]
      /\ k[1][a] = lo[a] /\ k[1][b] = lo[b] /\ k[3][a] = hi[a] /\ k[3][b] = hi[b]
      /\ first => k[2][a] = lo[a] /\ k[2][b] = hi[b] /\ k[4][a] = hi[a] /\ k[4][b] = lo[b]
      /\ ~first => k[2][a] = hi[a] /\ k[2][b] = lo[b] /\ k[4][a] = lo[a] /\ k[4][b] = hi[b]
  <2>1. CASE first
    BY <1>5, <1>6, <2>1
  <2>2. CASE ~first
    BY <1>5, <1>6, <2>2
  <2> QED BY <2>1, <2>2
<1>10. Spans(k, d, lo, hi)
  <2>1. \A n \in 1..4, i \in 1..3 : lo[i] <= k[n][i] /\ k[n][i] <= hi[i]
    <3> TAKE n \in 1..4, i \in 1..3
    <3>1. n = 1 \/ n = 2 \/ n = 3 \/ n = 4
      OBVIOUS
    <3> QED BY <1>2, <1>3, <1>9, <3>1
  <2>2. \A i \in 1..3 : k[1][i] = lo[i] /\ k[3][i] = hi[i]
    BY <1>2, <1>3, <1>9
  <2>3. lo \in [1..3 -> Int] /\ hi \in [1..3 -> Int]
    BY <1>1
  <2> QED BY <1>3, <1>9, <2>1, <2>2, <2>3 DEF Spans, c
<1>11. Normal(k)[c] * Ahead(d) > 0
  <2>1. CASE first
    <3>1. /\ k[2][a] - k[1][a] = 0 /\ k[2][b] - k[1][b] = h
          /\ k[3][a] - k[1][a] = w /\ k[3][b] - k[1][b] = h
      BY <1>2, <1>3, <1>9, <2>1
    <3>2. Normal(k)[c] = IF d \in {North, South} THEN 0 * h - h * w ELSE h * w - 0 * h
      <4>1. /\ d \in Directions /\ \A n \in 1..4 : k[n] \in [1..3 -> Int]
            /\ w \in Int /\ h \in Int /\ 0 \in Int
        BY <1>1, <1>3, <1>9
      <4> QED BY ONLY <4>1, <3>1, TurnsAre DEF a, b, c
    <3>3. /\ w * h \in Nat /\ w * h > 0 /\ h * w = w * h /\ 0 * h = 0
          /\ (w * h) * 1 = w * h /\ (-(w * h)) * (-1) = w * h
      BY <1>3, Sides
    <3> DEFINE x == w * h
    <3>4. x \in Nat /\ x > 0 /\ x * 1 = x /\ (-x) * (-1) = x
      BY <3>3
    <3>5. Normal(k)[c] = IF d \in {North, South} THEN 0 - x ELSE x - 0
      BY <3>2, <3>3
    <3> HIDE DEF x
    <3>6. Ahead(d) = (IF d \in {North, South} THEN -1 ELSE 1)
      BY <1>7, <2>1
    <3> QED BY <3>4, <3>5, <3>6
  <2>2. CASE ~first
    <3>1. /\ k[2][a] - k[1][a] = w /\ k[2][b] - k[1][b] = 0
          /\ k[3][a] - k[1][a] = w /\ k[3][b] - k[1][b] = h
      BY <1>2, <1>3, <1>9, <2>2
    <3>2. Normal(k)[c] = IF d \in {North, South} THEN w * h - 0 * w ELSE 0 * w - w * h
      <4>1. /\ d \in Directions /\ \A n \in 1..4 : k[n] \in [1..3 -> Int]
            /\ w \in Int /\ h \in Int /\ 0 \in Int
        BY <1>1, <1>3, <1>9
      <4> QED BY ONLY <4>1, <3>1, TurnsAre DEF a, b, c
    <3>3. /\ w * h \in Nat /\ w * h > 0 /\ 0 * w = 0
          /\ (w * h) * 1 = w * h /\ (-(w * h)) * (-1) = w * h
      BY <1>3, Sides
    <3> DEFINE x == w * h
    <3>4. x \in Nat /\ x > 0 /\ x * 1 = x /\ (-x) * (-1) = x
      BY <3>3
    <3>5. Normal(k)[c] = IF d \in {North, South} THEN x - 0 ELSE 0 - x
      BY <3>2, <3>3
    <3> HIDE DEF x
    <3>6. Ahead(d) = (IF d \in {North, South} THEN 1 ELSE -1)
      BY <1>7, <1>8, <2>2
    <3> QED BY <3>4, <3>5, <3>6
  <2> QED BY <2>1, <2>2
<1> QED BY <1>10, <1>11 DEF k, lo, hi, d, c

\* A length is cut into pieces that are no longer than a piece may be.
Within(s, x) == s.from <= x /\ x < s.from + s.long

\* The cuts of a side cover each of its cells once, none longer than allowed.
LEMMA CutsAre ==
  ASSUME NEW n \in Nat
  PROVE  /\ \A s \in Cuts(n) : /\ s.from \in Nat /\ s.long \in Nat /\ s.long > 0
                               /\ s.from + s.long <= n /\ s.long <= MaxCells
         /\ \A x \in 0..(n - 1) : \E s \in Cuts(n) : Within(s, x)
         /\ \A s, r \in Cuts(n), x \in Int : Within(s, x) /\ Within(r, x) => s = r
<1> DEFINE m == MaxCells
           Cut(o) == [from |-> o, long |-> IF m < n - o THEN m ELSE n - o]
<1>1. m \in Nat /\ m > 0
  <2>1. m \in Nat \ {0}
    BY MeshAssumption
  <2> QED BY <2>1
<1>2. /\ \A s \in Cuts(n) : \E o \in 0..(n - 1) : o % m = 0 /\ s = Cut(o)
      /\ \A o \in 0..(n - 1) : o % m = 0 => Cut(o) \in Cuts(n)
  BY DEF Cuts
<1>3. \A o \in 0..(n - 1) : /\ Cut(o).from = o /\ Cut(o).long \in Nat /\ Cut(o).long > 0
                            /\ o + Cut(o).long <= n /\ Cut(o).long <= m
                            /\ \A x \in Int : x < n /\ x < o + m => x < o + Cut(o).long
  BY <1>1
<1> HIDE DEF Cut, m
<1>4. \A x \in Nat : /\ x \div m \in Nat /\ x % m \in Nat /\ x % m < m
                     /\ x = m * (x \div m) + (x % m)
  BY <1>1
<1>5. ASSUME NEW s \in Cuts(n)
      PROVE  /\ s.from \in Nat /\ s.long \in Nat /\ s.long > 0
             /\ s.from + s.long <= n /\ s.long <= m
  <2>1. PICK o \in 0..(n - 1) : s = Cut(o)
    BY <1>2
  <2> QED BY <1>3, <2>1
<1>6. ASSUME NEW x \in 0..(n - 1) PROVE \E s \in Cuts(n) : Within(s, x)
  <2> DEFINE j == x \div m  o == m * j
  <2>1. x \in Nat /\ j \in Nat /\ x % m \in Nat /\ x % m < m /\ x = o + (x % m) /\ o \in Nat
    BY <1>1, <1>4
  <2>2. o % m = 0
    <3>1. o % m \in Nat /\ o % m < m /\ o = m * (o \div m) + (o % m) /\ o \div m \in Nat
      BY <1>4, <2>1
    <3> DEFINE i == o \div m  e == o % m
    <3>2. i \in Nat /\ e \in Nat /\ e < m /\ m * j = m * i + e
      BY <3>1
    <3> HIDE DEF i, e
    <3>3. i = j
      <4>1. CASE i < j
        <5>1. m * (i + 1) <= m * j /\ m * (i + 1) = m * i + m
          BY <1>1, <2>1, <3>2, <4>1
        <5>2. m * i \in Nat /\ m * j \in Nat
          BY <1>1, <2>1, <3>2
        <5> QED BY <1>1, <3>2, <5>1, <5>2
      <4>2. CASE j < i
        <5>1. m * (j + 1) <= m * i /\ m * (j + 1) = m * j + m
          BY <1>1, <2>1, <3>2, <4>2
        <5>2. m * i \in Nat /\ m * j \in Nat
          BY <1>1, <2>1, <3>2
        <5> QED BY <1>1, <3>2, <5>1, <5>2
      <4> QED BY <2>1, <3>2, <4>1, <4>2
    <3>4. e = 0
      BY <1>1, <2>1, <3>2, <3>3
    <3> QED BY <3>4 DEF e
  <2> HIDE DEF o, j
  <2>3. o \in 0..(n - 1) /\ x < o + m /\ o <= x
    BY <1>1, <2>1
  <2>4. Cut(o) \in Cuts(n) /\ Within(Cut(o), x)
    BY <1>2, <1>3, <2>1, <2>2, <2>3 DEF Within
  <2> QED BY <2>4
<1>7. ASSUME NEW s \in Cuts(n), NEW r \in Cuts(n), NEW x \in Int, Within(s, x), Within(r, x)
      PROVE  s = r
  <2>1. PICK o \in 0..(n - 1) : o % m = 0 /\ s = Cut(o)
    BY <1>2
  <2>2. PICK u \in 0..(n - 1) : u % m = 0 /\ r = Cut(u)
    BY <1>2
  <2>3. o <= x /\ x < o + m /\ u <= x /\ x < u + m
    BY <1>1, <1>3, <1>7, <2>1, <2>2 DEF Within
  <2> DEFINE i == o \div m  j == u \div m
  <2>4. i \in Nat /\ j \in Nat /\ o = m * i /\ u = m * j
    <3>1. o \in Nat /\ u \in Nat
      OBVIOUS
    <3> QED BY <1>1, <1>4, <2>1, <2>2, <3>1
  <2> HIDE DEF i, j
  <2>5. i = j
    <3>1. CASE i < j
      <4>1. m * (i + 1) <= m * j /\ m * (i + 1) = m * i + m
        BY <1>1, <2>4, <3>1
      <4> QED BY <1>1, <2>3, <2>4, <4>1
    <3>2. CASE j < i
      <4>1. m * (j + 1) <= m * i /\ m * (j + 1) = m * j + m
        BY <1>1, <2>4, <3>2
      <4> QED BY <1>1, <2>3, <2>4, <4>1
    <3> QED BY <2>4, <3>1, <3>2
  <2> QED BY <2>1, <2>2, <2>4, <2>5
<1> QED BY <1>5, <1>6, <1>7 DEF m

\* The edges of a piece of a rectangle.
LowOfPiece(q, s, t) ==
  [i \in 1..3 |-> CASE i = PlaneAxis(q.dir) -> Front(q)
                    [] i = FrameAxes(q.dir)[1] -> 2 * (q.at[i] + s.from)
                    [] OTHER -> 2 * (q.at[i] + t.from)]
HighOfPiece(q, s, t) ==
  [i \in 1..3 |-> CASE i = PlaneAxis(q.dir) -> Front(q)
                    [] i = FrameAxes(q.dir)[1] -> 2 * (q.at[i] + s.from + s.long)
                    [] OTHER -> 2 * (q.at[i] + t.from + t.long)]

\* The axes of a splat's frame are those of the slice, in some order.
LEMMA FramesAre ==
  ASSUME NEW d \in Directions
  PROVE  /\ FrameAxes(d)[1] \in 1..3 /\ FrameAxes(d)[2] \in 1..3 /\ PlaneAxis(d) \in 1..3
         /\ PlaneAxis(d) # FrameAxes(d)[1] /\ PlaneAxis(d) # FrameAxes(d)[2]
         /\ FrameAxes(d)[1] # FrameAxes(d)[2]
         /\ \A i \in 1..3 : i = PlaneAxis(d) \/ i = FrameAxes(d)[1] \/ i = FrameAxes(d)[2]
         /\ IF d \in {East, West}
            THEN FrameAxes(d)[1] = SliceAxes(d)[2] /\ FrameAxes(d)[2] = SliceAxes(d)[1]
            ELSE FrameAxes(d)[1] = SliceAxes(d)[1] /\ FrameAxes(d)[2] = SliceAxes(d)[2]
<1>1. CASE d \in {Up, Down}
  BY <1>1, AxesOf DEF FrameAxes, Up, Down, North, South, East, West
<1>2. CASE d \in {North, South}
  BY <1>2, AxesOf DEF FrameAxes, Up, Down, North, South, East, West
<1>3. CASE d \in {East, West}
  BY <1>3, AxesOf DEF FrameAxes, Up, Down, North, South, East, West
<1> QED BY <1>1, <1>2, <1>3, AxesOf

\* What is known of a piece of a rectangle that fits the chunk.
LEMMA PieceIs ==
  ASSUME chunk \in Chunks, NEW q, FitsChunk(q), NEW s \in Cuts(CellsU(q)), NEW t \in Cuts(CellsV(q))
  PROVE  LET a == FrameAxes(q.dir)[1] b == FrameAxes(q.dir)[2] c == PlaneAxis(q.dir)
             lo == LowOfPiece(q, s, t) hi == HighOfPiece(q, s, t)
         IN  /\ q.dir \in Directions /\ s.long \in Nat /\ s.long > 0 /\ t.long \in Nat /\ t.long > 0
             /\ s.from \in Nat /\ t.from \in Nat /\ s.long <= MaxCells /\ t.long <= MaxCells
             /\ \A i \in 1..3 : q.at[i] \in Nat /\ chunk.size[i] \in Nat
             /\ q.at[c] < chunk.size[c]
             /\ s.from + s.long <= CellsU(q) /\ t.from + t.long <= CellsV(q)
             /\ q.at[a] + CellsU(q) <= chunk.size[a] /\ q.at[b] + CellsV(q) <= chunk.size[b]
             /\ CellsU(q) \in Nat /\ CellsV(q) \in Nat
             /\ Ahead(q.dir) \in {1, -1} /\ Front(q) = 2 * q.at[c] + 1 + Ahead(q.dir)
             /\ lo \in [1..3 -> Nat] /\ hi \in [1..3 -> Nat]
             /\ \A i \in 1..3 : hi[i] <= 2 * chunk.size[i]
             /\ lo[c] = Front(q) /\ hi[c] = Front(q)
             /\ lo[a] = 2 * (q.at[a] + s.from) /\ hi[a] = 2 * (q.at[a] + s.from + s.long)
             /\ lo[b] = 2 * (q.at[b] + t.from) /\ hi[b] = 2 * (q.at[b] + t.from + t.long)
<1> DEFINE d == q.dir  a == FrameAxes(d)[1]  b == FrameAxes(d)[2]  c == PlaneAxis(d)
           lo == LowOfPiece(q, s, t)  hi == HighOfPiece(q, s, t)
           m == CellsU(q)  n == CellsV(q)
<1>1. /\ d \in Directions /\ q.w \in Nat /\ q.h \in Nat
      /\ \A i \in 1..3 : q.at[i] \in Nat /\ chunk.size[i] \in Nat
      /\ q.at[c] < chunk.size[c]
      /\ q.at[SliceAxes(d)[1]] + q.w <= chunk.size[SliceAxes(d)[1]]
      /\ q.at[SliceAxes(d)[2]] + q.h <= chunk.size[SliceAxes(d)[2]]
      /\ Ahead(d) \in {1, -1} /\ Front(q) = 2 * q.at[c] + 1 + Ahead(d)
      /\ Front(q) \in Nat /\ Front(q) <= 2 * chunk.size[c]
  <2>1. LowOf(q)[PlaneAxis(q.dir)] = Front(q) /\ PlaneAxis(q.dir) \in 1..3
    BY QuadIs, FramesAre
  <2> QED BY <2>1, QuadIs
<1>2. /\ a \in 1..3 /\ b \in 1..3 /\ c \in 1..3 /\ a # b /\ a # c /\ b # c
      /\ \A i \in 1..3 : i = c \/ i = a \/ i = b
  BY <1>1, FramesAre
<1>3. m \in Nat /\ n \in Nat /\ q.at[a] + m <= chunk.size[a] /\ q.at[b] + n <= chunk.size[b]
  <2>1. CASE d \in {East, West}
    BY <1>1, <2>1, FramesAre DEF CellsU, CellsV
  <2>2. CASE d \notin {East, West}
    BY <1>1, <2>2, FramesAre DEF CellsU, CellsV
  <2> QED BY <2>1, <2>2
<1>4. /\ s.long \in Nat /\ s.long > 0 /\ s.from \in Nat /\ s.from + s.long <= m /\ s.long <= MaxCells
      /\ t.long \in Nat /\ t.long > 0 /\ t.from \in Nat /\ t.from + t.long <= n /\ t.long <= MaxCells
  BY <1>3, CutsAre
<1>5. /\ lo[c] = Front(q) /\ hi[c] = Front(q)
      /\ lo[a] = 2 * (q.at[a] + s.from) /\ hi[a] = 2 * (q.at[a] + s.from + s.long)
      /\ lo[b] = 2 * (q.at[b] + t.from) /\ hi[b] = 2 * (q.at[b] + t.from + t.long)
  BY <1>2 DEF LowOfPiece, HighOfPiece
<1>6. lo = [i \in 1..3 |-> lo[i]] /\ hi = [i \in 1..3 |-> hi[i]]
  BY DEF LowOfPiece, HighOfPiece
<1> HIDE DEF a, b, c, d, lo, hi, m, n
<1>7. \A i \in 1..3 : lo[i] \in Nat /\ hi[i] \in Nat /\ hi[i] <= 2 * chunk.size[i]
  <2>1. lo[a] \in Nat /\ hi[a] \in Nat /\ hi[a] <= 2 * chunk.size[a]
    BY <1>1, <1>2, <1>3, <1>4, <1>5
  <2>2. lo[b] \in Nat /\ hi[b] \in Nat /\ hi[b] <= 2 * chunk.size[b]
    BY <1>1, <1>2, <1>3, <1>4, <1>5
  <2>3. lo[c] \in Nat /\ hi[c] \in Nat /\ hi[c] <= 2 * chunk.size[c]
    BY <1>1, <1>5
  <2> QED BY <1>2, <2>1, <2>2, <2>3
<1>8. lo \in [1..3 -> Nat] /\ hi \in [1..3 -> Nat]
  BY <1>6, <1>7
<1> QED BY <1>1, <1>3, <1>4, <1>5, <1>7, <1>8 DEF a, b, c, d, lo, hi, m, n

\* The basis of the shader is that of the frame, up to a sign.
LEMMA BasisIs ==
  ASSUME NEW d \in Directions
  PROVE  LET a == FrameAxes(d)[1] b == FrameAxes(d)[2] c == PlaneAxis(d) z == FaceV(d)[b]
         IN  /\ z \in {1, -1} /\ Ahead(d) \in {1, -1}
             /\ FaceU(d)[a] = 1 /\ FaceU(d)[b] = 0 /\ FaceU(d)[c] = 0
             /\ FaceV(d)[a] = 0 /\ FaceV(d)[c] = 0
             /\ z = IF d \in {North, South, East, West} THEN Ahead(d) ELSE -Ahead(d)
<1>1. d = Up \/ d = Down \/ d = North \/ d = South \/ d = East \/ d = West
  BY AxesOf
<1>2. CASE d = Up
  <2>1. /\ FrameAxes(d) = <<1, 3>> /\ PlaneAxis(d) = 2 /\ Ahead(d) = 1
        /\ FaceU(d) = <<1, 0, 0>> /\ FaceV(d) = <<0, 0, -1>>
    BY <1>2 DEF FaceU, FaceV, FrameAxes, PlaneAxis, Ahead, Up, Down, North, South, East, West
  <2> QED BY <1>2, <2>1 DEF Up, Down, North, South, East, West
<1>3. CASE d = Down
  <2>1. /\ FrameAxes(d) = <<1, 3>> /\ PlaneAxis(d) = 2 /\ Ahead(d) = -1
        /\ FaceU(d) = <<1, 0, 0>> /\ FaceV(d) = <<0, 0, 1>>
    BY <1>3 DEF FaceU, FaceV, FrameAxes, PlaneAxis, Ahead, Up, Down, North, South, East, West
  <2> QED BY <1>3, <2>1 DEF Up, Down, North, South, East, West
<1>4. CASE d = North
  <2>1. /\ FrameAxes(d) = <<1, 2>> /\ PlaneAxis(d) = 3 /\ Ahead(d) = -1
        /\ FaceU(d) = <<1, 0, 0>> /\ FaceV(d) = <<0, -1, 0>>
    BY <1>4 DEF FaceU, FaceV, FrameAxes, PlaneAxis, Ahead, Up, Down, North, South, East, West
  <2> QED BY <1>4, <2>1 DEF Up, Down, North, South, East, West
<1>5. CASE d = South
  <2>1. /\ FrameAxes(d) = <<1, 2>> /\ PlaneAxis(d) = 3 /\ Ahead(d) = 1
        /\ FaceU(d) = <<1, 0, 0>> /\ FaceV(d) = <<0, 1, 0>>
    BY <1>5 DEF FaceU, FaceV, FrameAxes, PlaneAxis, Ahead, Up, Down, North, South, East, West
  <2> QED BY <1>5, <2>1 DEF Up, Down, North, South, East, West
<1>6. CASE d = East
  <2>1. /\ FrameAxes(d) = <<2, 3>> /\ PlaneAxis(d) = 1 /\ Ahead(d) = 1
        /\ FaceU(d) = <<0, 1, 0>> /\ FaceV(d) = <<0, 0, 1>>
    BY <1>6 DEF FaceU, FaceV, FrameAxes, PlaneAxis, Ahead, Up, Down, North, South, East, West
  <2> QED BY <1>6, <2>1 DEF Up, Down, North, South, East, West
<1>7. CASE d = West
  <2>1. /\ FrameAxes(d) = <<2, 3>> /\ PlaneAxis(d) = 1 /\ Ahead(d) = -1
        /\ FaceU(d) = <<0, 1, 0>> /\ FaceV(d) = <<0, 0, -1>>
    BY <1>7 DEF FaceU, FaceV, FrameAxes, PlaneAxis, Ahead, Up, Down, North, South, East, West
  <2> QED BY <1>7, <2>1 DEF Up, Down, North, South, East, West
<1> QED BY ONLY <1>1, <1>2, <1>3, <1>4, <1>5, <1>6, <1>7

\* The shader spreads a piece out to its edges again.
LEMMA SplatSpans ==
  ASSUME chunk \in Chunks, NEW q, FitsChunk(q), NEW s \in Cuts(CellsU(q)), NEW t \in Cuts(CellsV(q))
  PROVE  LET k == Splat(PieceOf(q, s, t)).corners
         IN  /\ Spans(k, q.dir, LowOfPiece(q, s, t), HighOfPiece(q, s, t))
             /\ Normal(k)[PlaneAxis(q.dir)] * Ahead(q.dir) > 0
<1> DEFINE d == q.dir  a == FrameAxes(d)[1]  b == FrameAxes(d)[2]  c == PlaneAxis(d)
           lo == LowOfPiece(q, s, t)  hi == HighOfPiece(q, s, t)
           g == PieceOf(q, s, t)  k == Splat(g).corners
           u == s.long  v == t.long
<1>1. /\ d \in Directions /\ u \in Nat /\ u > 0 /\ v \in Nat /\ v > 0
      /\ s.from \in Nat /\ t.from \in Nat /\ \A i \in 1..3 : q.at[i] \in Nat
      /\ lo \in [1..3 -> Nat] /\ hi \in [1..3 -> Nat]
      /\ lo[c] = Front(q) /\ hi[c] = Front(q)
      /\ lo[a] = 2 * (q.at[a] + s.from) /\ hi[a] = 2 * (q.at[a] + s.from + u)
      /\ lo[b] = 2 * (q.at[b] + t.from) /\ hi[b] = 2 * (q.at[b] + t.from + v)
  BY PieceIs
<1>2. /\ a \in 1..3 /\ b \in 1..3 /\ c \in 1..3 /\ a # b /\ a # c /\ b # c
      /\ \A i \in 1..3 : i = c \/ i = a \/ i = b
  BY <1>1, FramesAre
<1>3. /\ \A i \in 1..3 : lo[i] \in Nat /\ hi[i] \in Nat
      /\ hi[a] = lo[a] + 2 * u /\ hi[b] = lo[b] + 2 * v /\ lo[c] = hi[c]
  BY <1>1, <1>2
<1>4. g.u = u /\ g.v = v /\ g.dir = d /\ g.centre \in [1..3 -> Int]
      /\ g.centre[c] = lo[c] /\ g.centre[a] = lo[a] + u /\ g.centre[b] = lo[b] + v
  <2>1. g.u = u /\ g.v = v /\ g.dir = d
    BY DEF PieceOf
  <2>2. g.centre = [i \in 1..3 |-> CASE i = c -> Front(q)
                                     [] i = a -> 2 * (q.at[i] + s.from) + u
                                     [] OTHER -> 2 * (q.at[i] + t.from) + v]
    BY DEF PieceOf
  <2> HIDE DEF a, b, c, d, g, lo, hi
  <2>3. /\ g.centre[c] = Front(q) /\ g.centre[a] = 2 * (q.at[a] + s.from) + u
        /\ g.centre[b] = 2 * (q.at[b] + t.from) + v
    BY <1>2, <2>2
  <2>4. g.centre[c] = lo[c] /\ g.centre[a] = lo[a] + u /\ g.centre[b] = lo[b] + v
    BY <1>1, <2>3
  <2>5. \A i \in 1..3 : g.centre[i] \in Int
    BY <1>1, <1>2, <1>3, <2>4
  <2>6. g.centre = [i \in 1..3 |-> g.centre[i]]
    BY <2>2
  <2> QED BY <2>1, <2>4, <2>5, <2>6
\* The sign with which the second axis of the frame is run through.
<1> DEFINE z == FaceV(d)[b]
<1>5. /\ z \in {1, -1}
      /\ FaceU(d)[a] = 1 /\ FaceU(d)[b] = 0 /\ FaceU(d)[c] = 0
      /\ FaceV(d)[a] = 0 /\ FaceV(d)[c] = 0
      /\ z = IF d \in {North, South, East, West} THEN Ahead(d) ELSE -Ahead(d)
      /\ Ahead(d) \in {1, -1}
  BY <1>1, BasisIs
<1>6. ASSUME NEW e \in {1, -1}, NEW f \in {1, -1}
      PROVE  LET x == Reaching(g, e, f)
             IN  /\ x \in [1..3 -> Int] /\ x[c] = lo[c]
                 /\ x[a] = (IF e = 1 THEN hi[a] ELSE lo[a])
                 /\ x[b] = (IF f * z = 1 THEN hi[b] ELSE lo[b])
  <2> DEFINE x == Reaching(g, e, f)
  <2>1. x = [i \in 1..3 |-> g.centre[i] + e * g.u * FaceU(d)[i] + f * g.v * FaceV(d)[i]]
    BY <1>4 DEF Reaching
  <2>2. g.u = u /\ g.v = v
    BY <1>4
  <2> HIDE DEF a, b, c, d, g, lo, hi, z, x, u, v
  <2>3. /\ x[c] = g.centre[c] + e * u * 0 + f * v * 0
        /\ x[a] = g.centre[a] + e * u * 1 + f * v * 0
        /\ x[b] = g.centre[b] + e * u * 0 + f * v * z
    BY <1>2, <1>5, <2>1, <2>2 DEF z
  <2>4. /\ e * u * 0 = 0 /\ f * v * 0 = 0 /\ e * u * 1 = (IF e = 1 THEN u ELSE -u)
        /\ f * v * z = (IF f * z = 1 THEN v ELSE -v)
    <3>1. z \in {1, -1} /\ u \in Nat /\ v \in Nat
      BY <1>1, <1>5
    <3> QED BY <3>1
  <2>5. /\ x[c] = lo[c] + 0 + 0
        /\ x[a] = lo[a] + u + (IF e = 1 THEN u ELSE -u) + 0
        /\ x[b] = lo[b] + v + 0 + (IF f * z = 1 THEN v ELSE -v)
    BY <1>4, <2>3, <2>4
  <2>6. /\ lo[c] \in Nat /\ lo[a] \in Nat /\ lo[b] \in Nat /\ u \in Nat /\ v \in Nat
        /\ hi[a] = lo[a] + 2 * u /\ hi[b] = lo[b] + 2 * v /\ hi[a] \in Nat /\ hi[b] \in Nat
    BY <1>1, <1>2, <1>3
  <2>7. /\ x[c] = lo[c]
        /\ x[a] = (IF e = 1 THEN hi[a] ELSE lo[a])
        /\ x[b] = (IF f * z = 1 THEN hi[b] ELSE lo[b])
    BY <2>5, <2>6
  <2>8. \A i \in 1..3 : x[i] \in Int
    BY <1>2, <2>6, <2>7
  <2>9. x = [i \in 1..3 |-> x[i]]
    BY <2>1
  <2> QED BY <2>7, <2>8, <2>9 DEF x
<1>7. /\ k[1] = Reaching(g, -1, -1) /\ k[2] = Reaching(g, 1, -1)
      /\ k[3] = Reaching(g, 1, 1) /\ k[4] = Reaching(g, -1, 1)
  BY DEF Splat
<1> HIDE DEF k, lo, hi, a, b, c, d, g, z, u, v
<1>8. /\ \A n \in 1..4 : k[n] \in [1..3 -> Int] /\ k[n][c] = lo[c]
      /\ k[1][a] = lo[a] /\ k[2][a] = hi[a] /\ k[3][a] = hi[a] /\ k[4][a] = lo[a]
      /\ z = 1 => k[1][b] = lo[b] /\ k[2][b] = lo[b] /\ k[3][b] = hi[b] /\ k[4][b] = hi[b]
      /\ z = -1 => k[1][b] = hi[b] /\ k[2][b] = hi[b] /\ k[3][b] = lo[b] /\ k[4][b] = lo[b]
      /\ z = 1 \/ z = -1
  <2>1. /\ \A n \in 1..4 : k[n] \in [1..3 -> Int] /\ k[n][c] = lo[c]
        /\ k[1][a] = lo[a] /\ k[2][a] = hi[a] /\ k[3][a] = hi[a] /\ k[4][a] = lo[a]
    BY <1>6, <1>7
  <2>2. /\ k[1][b] = (IF (-1) * z = 1 THEN hi[b] ELSE lo[b])
        /\ k[2][b] = (IF (-1) * z = 1 THEN hi[b] ELSE lo[b])
        /\ k[3][b] = (IF 1 * z = 1 THEN hi[b] ELSE lo[b])
        /\ k[4][b] = (IF 1 * z = 1 THEN hi[b] ELSE lo[b])
    BY <1>6, <1>7
  <2>3. z = 1 \/ z = -1
    BY <1>5
  <2> QED BY <2>1, <2>2, <2>3
<1>9. Spans(k, d, lo, hi)
  <2>1. \A n \in 1..4, i \in 1..3 : lo[i] <= k[n][i] /\ k[n][i] <= hi[i]
    <3>1. lo[a] <= hi[a] /\ lo[b] <= hi[b] /\ lo[c] <= hi[c]
      BY <1>1, <1>2, <1>3
    <3> TAKE n \in 1..4, i \in 1..3
    <3>2. n = 1 \/ n = 2 \/ n = 3 \/ n = 4
      OBVIOUS
    <3> QED BY <1>2, <1>3, <1>8, <3>1, <3>2
  <2>2. \A i \in 1..3 : \E m, n \in 1..4 : k[m][i] = lo[i] /\ k[n][i] = hi[i]
    <3>1. k[1][a] = lo[a] /\ k[2][a] = hi[a] /\ k[1][c] = lo[c] /\ k[1][c] = hi[c]
      BY <1>3, <1>8
    <3>2. (k[1][b] = lo[b] /\ k[3][b] = hi[b]) \/ (k[3][b] = lo[b] /\ k[1][b] = hi[b])
      BY <1>8
    <3> TAKE i \in 1..3
    <3>3. CASE i = a
      BY <3>1, <3>3
    <3>4. CASE i = b
      <4>1. CASE k[1][b] = lo[b] /\ k[3][b] = hi[b]
        BY <3>4, <4>1
      <4>2. CASE k[3][b] = lo[b] /\ k[1][b] = hi[b]
        BY <3>4, <4>2
      <4> QED BY <3>2, <4>1, <4>2
    <3>5. CASE i = c
      <4>1. k[1][i] = lo[i] /\ k[1][i] = hi[i]
        BY ONLY <3>1, <3>5
      <4>2. 1 \in 1..4
        OBVIOUS
      <4> QED BY ONLY <4>1, <4>2, Zenon
    <3> QED BY <1>2, <3>3, <3>4, <3>5
  <2>3. lo \in [1..3 -> Int] /\ hi \in [1..3 -> Int]
    BY <1>1
  <2> QED BY <1>3, <1>8, <2>1, <2>2, <2>3 DEF Spans, c
<1>10. Normal(k)[c] * Ahead(d) > 0
  <2> DEFINE w == 2 * u  h == 2 * v  x == w * h
  <2>1. w \in Nat /\ w > 0 /\ h \in Nat /\ h > 0
    BY <1>1
  <2>2. /\ w * h \in Nat /\ w * h > 0 /\ h * w = w * h /\ w * 0 = 0 /\ 0 * w = 0 /\ h * 0 = 0
        /\ w * (-h) = -(w * h) /\ (-h) * w = -(w * h)
        /\ (w * h) * 1 = w * h /\ (-(w * h)) * (-1) = w * h
    BY <2>1
  <2>3. /\ k[2][a] - k[1][a] = w /\ k[2][b] - k[1][b] = 0
        /\ k[3][a] - k[1][a] = w /\ k[3][b] - k[1][b] = (IF z = 1 THEN h ELSE -h)
    <3>1. /\ lo[a] \in Nat /\ lo[b] \in Nat /\ u \in Nat /\ v \in Nat
          /\ hi[a] = lo[a] + w /\ hi[b] = lo[b] + h
      BY <1>1, <1>2, <1>3
    <3>2. w \in Nat /\ h \in Nat
      BY <2>1
    <3> HIDE DEF w, h
    <3>3. k[2][a] - k[1][a] = w /\ k[3][a] - k[1][a] = w
      BY <1>8, <3>1, <3>2
    <3>4. CASE z = 1
      BY <1>8, <3>1, <3>2, <3>3, <3>4
    <3>5. CASE z = -1
      BY <1>8, <3>1, <3>2, <3>3, <3>5
    <3> QED BY <1>8, <3>4, <3>5
  <2>4. /\ d \in Directions /\ \A n \in 1..4 : k[n] \in [1..3 -> Int]
        /\ w \in Int /\ h \in Int /\ 0 \in Int /\ -h \in Int
    BY <1>1, <1>8, <2>1
  <2> DEFINE y == IF z = 1 THEN h ELSE -h
  <2>5. y \in Int /\ k[3][b] - k[1][b] = y
    BY <2>3, <2>4
  <2>6. w * y = (IF z = 1 THEN w * h ELSE -(w * h)) /\ y * w = w * y /\ y * 0 = 0
    BY <2>1, <2>2
  <2> HIDE DEF w, h, y
  <2>7. Normal(k)[c] = IF d \in {North, South} THEN w * y
                       ELSE IF d \in {East, West} THEN y * w ELSE 0 - w * y
    <3>1. CASE d \in {East, West}
      <4>1. SliceAxes(d)[1] = b /\ SliceAxes(d)[2] = a /\ d \notin {North, South}
        BY <2>4, <3>1, FramesAre DEF a, b, North, South, East, West
      <4>2. Normal(k)[c] = y * w - 0 * w
        <5>1. /\ k[2][SliceAxes(d)[1]] - k[1][SliceAxes(d)[1]] = 0
              /\ k[2][SliceAxes(d)[2]] - k[1][SliceAxes(d)[2]] = w
              /\ k[3][SliceAxes(d)[1]] - k[1][SliceAxes(d)[1]] = y
              /\ k[3][SliceAxes(d)[2]] - k[1][SliceAxes(d)[2]] = w
          BY <2>3, <2>5, <4>1
        <5>2. Normal(k)[c] = IF d \in {North, South} THEN 0 * w - w * y ELSE w * y - 0 * w
          BY ONLY <2>4, <2>5, <5>1, TurnsAre DEF c
        <5> QED BY <2>6, <4>1, <5>2
      <4>3. y * w \in Int
        BY <2>4, <2>5
      <4> QED BY <2>2, <3>1, <4>1, <4>2, <4>3
    <3>2. CASE d \notin {East, West}
      <4>1. SliceAxes(d)[1] = a /\ SliceAxes(d)[2] = b
        BY <2>4, <3>2, FramesAre DEF a, b
      <4>2. Normal(k)[c] = IF d \in {North, South} THEN w * y - 0 * w ELSE 0 * w - w * y
        <5>1. /\ k[2][SliceAxes(d)[1]] - k[1][SliceAxes(d)[1]] = w
              /\ k[2][SliceAxes(d)[2]] - k[1][SliceAxes(d)[2]] = 0
              /\ k[3][SliceAxes(d)[1]] - k[1][SliceAxes(d)[1]] = w
              /\ k[3][SliceAxes(d)[2]] - k[1][SliceAxes(d)[2]] = y
          BY <2>3, <2>5, <4>1
        <5> QED BY ONLY <2>4, <2>5, <5>1, TurnsAre DEF c
      <4>3. w * y \in Int
        BY <2>4, <2>5
      <4> QED BY <2>2, <3>2, <4>2, <4>3
    <3> QED BY <3>1, <3>2
  <2>8. x \in Nat /\ x > 0 /\ x * 1 = x /\ (-x) * (-1) = x
    BY <2>2
  <2>9. w * y = (IF z = 1 THEN x ELSE -x) /\ y * w = (IF z = 1 THEN x ELSE -x)
    BY <2>6
  <2> HIDE DEF x
  <2>10. Normal(k)[c] = IF Ahead(d) = 1 THEN x ELSE -x
    <3>1. {North, South} \cap {East, West} = {}
      BY DEF North, South, East, West
    <3> QED BY <1>5, <2>7, <2>8, <2>9, <3>1
  <2> QED BY <1>5, <2>8, <2>10
<1> QED BY <1>9, <1>10 DEF k, lo, hi, d, c, g

-----------------------------------------------------------------------------
\* An indexed quad shows the faces its rectangle covers.
LEMMA IndexedShow ==
  ASSUME chunk \in Chunks, NEW q, FitsChunk(q), NEW d \in Directions, NEW p \in Inside
  PROVE  Shows(Indexed(q), d, p) <=> Covers(q, d, p)
<1>1. /\ Spans(Indexed(q).corners, q.dir, LowOf(q), HighOf(q))
      /\ Normal(Indexed(q).corners)[PlaneAxis(q.dir)] * Ahead(q.dir) > 0
  BY IndexedSpans
<1>2. q.dir \in Directions /\ p \in [1..3 -> Nat]
  BY InsideIs DEF FitsChunk
<1>3. Shows(Indexed(q), d, p) <=>
        /\ d = q.dir
        /\ \A i \in 1..3 : LowOf(q)[i] <= Middle(q.dir, p)[i] /\ Middle(q.dir, p)[i] <= HighOf(q)[i]
  BY ONLY <1>1, <1>2, d \in Directions, ShowsIs
<1> QED BY <1>3, MiddlesAre

\* What a rectangle covers, by the axes of its frame.
InPiece(q, s, t, p) ==
  LET a == FrameAxes(q.dir)[1] b == FrameAxes(q.dir)[2]
  IN  Within(s, p[a] - q.at[a]) /\ Within(t, p[b] - q.at[b])

\* What a rectangle covers, by the axes of its frame.
LEMMA FramedCover ==
  ASSUME chunk \in Chunks, NEW q, FitsChunk(q), NEW d \in Directions, NEW p \in Inside
  PROVE  LET a == FrameAxes(q.dir)[1] b == FrameAxes(q.dir)[2] c == PlaneAxis(q.dir)
         IN  Covers(q, d, p) <=>
               /\ d = q.dir /\ p[c] = q.at[c]
               /\ q.at[a] <= p[a] /\ p[a] < q.at[a] + CellsU(q)
               /\ q.at[b] <= p[b] /\ p[b] < q.at[b] + CellsV(q)
<1>1. q.dir \in Directions
  BY DEF FitsChunk
<1>2. CASE q.dir \in {East, West}
  <2>1. FrameAxes(q.dir)[1] = SliceAxes(q.dir)[2] /\ FrameAxes(q.dir)[2] = SliceAxes(q.dir)[1]
    BY <1>1, <1>2, FramesAre
  <2>2. CellsU(q) = q.h /\ CellsV(q) = q.w
    BY <1>2 DEF CellsU, CellsV
  <2> QED BY <2>1, <2>2 DEF Covers
<1>3. CASE q.dir \notin {East, West}
  <2>1. FrameAxes(q.dir)[1] = SliceAxes(q.dir)[1] /\ FrameAxes(q.dir)[2] = SliceAxes(q.dir)[2]
    BY <1>1, <1>3, FramesAre
  <2>2. CellsU(q) = q.w /\ CellsV(q) = q.h
    BY <1>3 DEF CellsU, CellsV
  <2> QED BY <2>1, <2>2 DEF Covers
<1> QED BY <1>2, <1>3

\* A splat shows the faces of its piece.
LEMMA PiecesShow ==
  ASSUME chunk \in Chunks, NEW q, FitsChunk(q), NEW s \in Cuts(CellsU(q)), NEW t \in Cuts(CellsV(q)),
         NEW e \in Directions, NEW p \in Inside
  PROVE  Shows(Splat(PieceOf(q, s, t)), e, p) <=> Covers(q, e, p) /\ InPiece(q, s, t, p)
<1> DEFINE d == q.dir  a == FrameAxes(d)[1]  b == FrameAxes(d)[2]  c == PlaneAxis(d)
           lo == LowOfPiece(q, s, t)  hi == HighOfPiece(q, s, t)  m == CellsU(q)  n == CellsV(q)
           x == Middle(d, p)
<1>1. /\ d \in Directions /\ s.long \in Nat /\ s.long > 0 /\ t.long \in Nat /\ t.long > 0
      /\ s.from \in Nat /\ t.from \in Nat /\ \A i \in 1..3 : q.at[i] \in Nat
      /\ s.from + s.long <= m /\ t.from + t.long <= n /\ m \in Nat /\ n \in Nat
      /\ Ahead(d) \in {1, -1} /\ Front(q) = 2 * q.at[c] + 1 + Ahead(d)
      /\ lo[c] = Front(q) /\ hi[c] = Front(q)
      /\ lo[a] = 2 * (q.at[a] + s.from) /\ hi[a] = 2 * (q.at[a] + s.from + s.long)
      /\ lo[b] = 2 * (q.at[b] + t.from) /\ hi[b] = 2 * (q.at[b] + t.from + t.long)
  BY PieceIs
<1>2. /\ a \in 1..3 /\ b \in 1..3 /\ c \in 1..3 /\ a # b /\ a # c /\ b # c
      /\ \A i \in 1..3 : i = c \/ i = a \/ i = b
  BY <1>1, FramesAre
<1>3. p \in [1..3 -> Nat] /\ \A i \in 1..3 : p[i] \in Nat
  BY InsideIs
<1>4. Shows(Splat(PieceOf(q, s, t)), e, p) <=> e = d /\ \A i \in 1..3 : lo[i] <= x[i] /\ x[i] <= hi[i]
  <2>1. /\ Spans(Splat(PieceOf(q, s, t)).corners, d, lo, hi)
        /\ Normal(Splat(PieceOf(q, s, t)).corners)[PlaneAxis(d)] * Ahead(d) > 0
    BY SplatSpans
  <2> HIDE DEF lo, hi, d
  <2> QED BY ONLY <1>1, <1>3, <2>1, e \in Directions, ShowsIs
<1>5. x[c] = 2 * p[c] + 1 + Ahead(d) /\ x[a] = 2 * p[a] + 1 /\ x[b] = 2 * p[b] + 1
  BY <1>2, <1>3 DEF Middle
<1>6. Covers(q, e, p) <=>
        /\ e = d /\ p[c] = q.at[c]
        /\ q.at[a] <= p[a] /\ p[a] < q.at[a] + m /\ q.at[b] <= p[b] /\ p[b] < q.at[b] + n
  BY FramedCover
<1>7. InPiece(q, s, t, p) <=>
        /\ s.from <= p[a] - q.at[a] /\ p[a] - q.at[a] < s.from + s.long
        /\ t.from <= p[b] - q.at[b] /\ p[b] - q.at[b] < t.from + t.long
  BY DEF InPiece, Within
<1> HIDE DEF a, b, c, d, lo, hi, m, n, x
<1>8. p[c] = q.at[c] <=> lo[c] <= x[c] /\ x[c] <= hi[c]
  <2>1. p[c] \in Nat /\ q.at[c] \in Nat /\ Ahead(d) \in Int
    BY <1>1, <1>2, <1>3
  <2>2. p[c] = q.at[c] <=> /\ 2 * q.at[c] + 1 + Ahead(d) <= 2 * p[c] + 1 + Ahead(d)
                           /\ 2 * p[c] + 1 + Ahead(d) <= 2 * q.at[c] + 1 + Ahead(d)
    BY <2>1
  <2> QED BY <1>1, <1>5, <2>2
<1>9. lo[a] <= x[a] /\ x[a] <= hi[a]
        <=> /\ q.at[a] <= p[a] /\ p[a] < q.at[a] + m
            /\ s.from <= p[a] - q.at[a] /\ p[a] - q.at[a] < s.from + s.long
  BY <1>1, <1>2, <1>3, <1>5
<1>10. lo[b] <= x[b] /\ x[b] <= hi[b]
        <=> /\ q.at[b] <= p[b] /\ p[b] < q.at[b] + n
            /\ t.from <= p[b] - q.at[b] /\ p[b] - q.at[b] < t.from + t.long
  BY <1>1, <1>2, <1>3, <1>5
<1>11. (\A i \in 1..3 : lo[i] <= x[i] /\ x[i] <= hi[i])
         <=> /\ lo[a] <= x[a] /\ x[a] <= hi[a] /\ lo[b] <= x[b] /\ x[b] <= hi[b]
             /\ lo[c] <= x[c] /\ x[c] <= hi[c]
  BY <1>2
<1> QED BY <1>4, <1>6, <1>7, <1>8, <1>9, <1>10, <1>11

\* The pieces of a rectangle that covers a face share it out.
LEMMA OnePieceShows ==
  ASSUME chunk \in Chunks, NEW q, FitsChunk(q), NEW d \in Directions, NEW p \in Inside,
         Covers(q, d, p)
  PROVE  \E s \in Cuts(CellsU(q)), t \in Cuts(CellsV(q)) :
           /\ InPiece(q, s, t, p)
           /\ \A r \in Cuts(CellsU(q)), o \in Cuts(CellsV(q)) :
                InPiece(q, r, o, p) => r = s /\ o = t
<1> DEFINE a == FrameAxes(q.dir)[1]  b == FrameAxes(q.dir)[2]  m == CellsU(q)  n == CellsV(q)
           x == p[a] - q.at[a]  y == p[b] - q.at[b]
<1>1. /\ q.dir \in Directions /\ q.w \in Nat /\ q.h \in Nat
      /\ \A i \in 1..3 : q.at[i] \in Nat /\ p[i] \in Nat
  BY QuadIs, InsideIs
<1>2. a \in 1..3 /\ b \in 1..3
  BY <1>1, FramesAre
<1>3. m \in Nat /\ n \in Nat
  BY <1>1 DEF CellsU, CellsV
<1>4. q.at[a] <= p[a] /\ p[a] < q.at[a] + m /\ q.at[b] <= p[b] /\ p[b] < q.at[b] + n
  BY FramedCover
<1> HIDE DEF a, b, m, n
<1>5. x \in Int /\ y \in Int /\ x \in 0..(m - 1) /\ y \in 0..(n - 1)
  BY <1>1, <1>2, <1>3, <1>4
<1>6. \A s, t : InPiece(q, s, t, p) <=> Within(s, x) /\ Within(t, y)
  BY DEF InPiece, a, b
<1> HIDE DEF x, y
<1>7. PICK s \in Cuts(m) : Within(s, x)
  BY <1>3, <1>5, CutsAre
<1>8. PICK t \in Cuts(n) : Within(t, y)
  BY <1>3, <1>5, CutsAre
<1>9. /\ \A r \in Cuts(m) : Within(r, x) => r = s
      /\ \A o \in Cuts(n) : Within(o, y) => o = t
  BY <1>3, <1>5, <1>7, <1>8, CutsAre
<1> QED BY <1>6, <1>7, <1>8, <1>9 DEF m, n

\* The splats of a rectangle are its pieces.
LEMMA CappedIs ==
  ASSUME NEW q
  PROVE  /\ \A g \in Capped(q) : \E s \in Cuts(CellsU(q)), t \in Cuts(CellsV(q)) : g = PieceOf(q, s, t)
         /\ \A s \in Cuts(CellsU(q)), t \in Cuts(CellsV(q)) : PieceOf(q, s, t) \in Capped(q)
BY DEF Capped

\* Corners between the edges of the chunk.
LEMMA CornersIn ==
  ASSUME chunk \in Chunks, NEW k, NEW d, NEW lo \in [1..3 -> Nat], NEW hi, Spans(k, d, lo, hi),
         \A i \in 1..3 : hi[i] <= 2 * chunk.size[i]
  PROVE  \A n \in 1..4, i \in 1..3 : k[n][i] \in 0..(2 * chunk.size[i])
<1> SUFFICES ASSUME NEW n \in 1..4, NEW i \in 1..3 PROVE k[n][i] \in 0..(2 * chunk.size[i])
  OBVIOUS
<1>1. /\ lo[i] \in Nat /\ hi[i] \in Int /\ k[n][i] \in Int
      /\ lo[i] <= k[n][i] /\ k[n][i] <= hi[i] /\ hi[i] <= 2 * chunk.size[i]
  BY DEF Spans
<1>2. chunk.size[i] \in Nat
  BY SizesAre
<1> QED BY <1>1, <1>2

\* Shapes of which one shows each exposed face, and none another.
LEMMA SurfaceIs ==
  ASSUME NEW shapes,
         \A g \in shapes, n \in 1..4, i \in 1..3 : g.corners[n][i] \in 0..(2 * chunk.size[i]),
         \A d \in Directions, p \in Inside : IsExposed(d, p) =>
           \E g \in shapes : /\ Shows(g, d, p) /\ Matches(g.key, FaceKey(d, p))
                             /\ \A f \in shapes : Shows(f, d, p) => f = g,
         \A d \in Directions, p \in Inside : ~IsExposed(d, p) => \A g \in shapes : ~Shows(g, d, p)
  PROVE  IsSurface(shapes)
<1>1. ASSUME NEW d \in Directions, NEW p \in Inside
      PROVE  LET showing == {g \in shapes : Shows(g, d, p)}
             IN  IF IsExposed(d, p) THEN \E g \in showing : showing = {g} /\ Matches(g.key, FaceKey(d, p))
                                    ELSE showing = {}
  <2> DEFINE showing == {g \in shapes : Shows(g, d, p)}
  <2>1. CASE IsExposed(d, p)
    <3>1. PICK g \in shapes : /\ Shows(g, d, p) /\ Matches(g.key, FaceKey(d, p))
                              /\ \A f \in shapes : Shows(f, d, p) => f = g
      BY <2>1
    <3>2. g \in showing /\ showing = {g}
      BY <3>1
    <3> QED BY <2>1, <3>1, <3>2
  <2>2. CASE ~IsExposed(d, p)
    <3>1. showing = {}
      BY <2>2
    <3> QED BY <2>2, <3>1
  <2> QED BY <2>1, <2>2
<1> QED BY <1>1 DEF IsSurface

\* With every slice merged the rectangles cover what is exposed.
LEMMA MergedCovers ==
  ASSUME MeshInv, slice = SliceCount, NEW d \in Directions, NEW p \in Inside
  PROVE  /\ IsExposed(d, p) <=> \E q \in quads : Covers(q, d, p)
         /\ \A q \in quads : Covers(q, d, p) => Matches(q.key, FaceKey(d, p))
         /\ \A q, r \in quads : Covers(q, d, p) /\ Covers(r, d, p) => q = r
<1>1. chunk \in Chunks
  BY DEF MeshInv, MeshTypes
<1>2. SliceOf(d, p) \in 0..(SliceCount - 1) /\ SliceCount \in Nat
  BY <1>1, SlicesOfFaces, SizesAre DEF SliceCount, Across, Facing
<1>3. Merged(d, p)
  BY <1>2 DEF Merged
<1> QED BY <1>3 DEF MeshInv

\* The mesh of all rectangles is the surface.
LEMMA IndexedSurface ==
  ASSUME MeshInv, slice = SliceCount
  PROVE  IsSurface({Indexed(q) : q \in quads})
<1> DEFINE shapes == {Indexed(q) : q \in quads}
<1>1. chunk \in Chunks /\ \A q \in quads : FitsChunk(q)
  BY DEF MeshInv, MeshTypes
<1>2. \A q \in quads, d \in Directions, p \in Inside : Shows(Indexed(q), d, p) <=> Covers(q, d, p)
  BY <1>1, IndexedShow
<1>3. \A q : Indexed(q).key = q.key
  BY DEF Indexed
<1>4. ASSUME NEW q \in quads
      PROVE  \A n \in 1..4, i \in 1..3 : Indexed(q).corners[n][i] \in 0..(2 * chunk.size[i])
  <2>1. FitsChunk(q)
    BY <1>1
  <2>2. Spans(Indexed(q).corners, q.dir, LowOf(q), HighOf(q))
    BY <1>1, <2>1, IndexedSpans
  <2>3. LowOf(q) \in [1..3 -> Nat] /\ \A i \in 1..3 : HighOf(q)[i] <= 2 * chunk.size[i]
    BY <1>1, <2>1, QuadIs
  <2> QED BY ONLY <1>1, <2>2, <2>3, CornersIn
<1>5. \A g \in shapes : \E q \in quads : g = Indexed(q)
  OBVIOUS
<1>6. \A q \in quads : Indexed(q) \in shapes
  OBVIOUS
<1> HIDE DEF shapes
<1>7. \A g \in shapes, n \in 1..4, i \in 1..3 : g.corners[n][i] \in 0..(2 * chunk.size[i])
  BY <1>4, <1>5
<1>8. ASSUME NEW d \in Directions, NEW p \in Inside, IsExposed(d, p)
      PROVE  \E g \in shapes : /\ Shows(g, d, p) /\ Matches(g.key, FaceKey(d, p))
                               /\ \A f \in shapes : Shows(f, d, p) => f = g
  <2>1. PICK q \in quads : Covers(q, d, p)
    BY <1>8, MergedCovers
  <2>2. Matches(q.key, FaceKey(d, p)) /\ \A r \in quads : Covers(r, d, p) => r = q
    BY <2>1, MergedCovers
  <2>3. \A f \in shapes : Shows(f, d, p) => f = Indexed(q)
    BY <1>2, <1>5, <2>2
  <2> QED BY <1>2, <1>3, <1>6, <2>1, <2>2, <2>3
<1>9. ASSUME NEW d \in Directions, NEW p \in Inside, ~IsExposed(d, p)
      PROVE  \A g \in shapes : ~Shows(g, d, p)
  <2>1. \A q \in quads : ~Covers(q, d, p)
    BY <1>9, MergedCovers
  <2> QED BY <1>2, <1>5, <2>1
<1> QED BY <1>7, <1>8, <1>9, SurfaceIs DEF shapes

\* So are the splats of all rectangles, and none is too long.
LEMMA CappedSurface ==
  ASSUME MeshInv, slice = SliceCount
  PROVE  /\ IsSurface({Splat(g) : g \in UNION {Capped(q) : q \in quads}})
         /\ \A q \in quads : \A g \in Capped(q) : g.u <= MaxCells /\ g.v <= MaxCells
<1> DEFINE shapes == {Splat(g) : g \in UNION {Capped(q) : q \in quads}}
           IsPiece(q, s, t) == q \in quads /\ s \in Cuts(CellsU(q)) /\ t \in Cuts(CellsV(q))
<1>1. chunk \in Chunks /\ \A q \in quads : FitsChunk(q)
  BY DEF MeshInv, MeshTypes
<1>2. ASSUME NEW q, NEW s, NEW t, IsPiece(q, s, t), NEW d \in Directions, NEW p \in Inside
      PROVE  Shows(Splat(PieceOf(q, s, t)), d, p) <=> Covers(q, d, p) /\ InPiece(q, s, t, p)
  BY <1>1, <1>2, PiecesShow
<1>3. \A q, s, t : Splat(PieceOf(q, s, t)).key = q.key
  BY DEF Splat, PieceOf
<1>4. ASSUME NEW q, NEW s, NEW t, IsPiece(q, s, t)
      PROVE  \A n \in 1..4, i \in 1..3 : Splat(PieceOf(q, s, t)).corners[n][i] \in 0..(2 * chunk.size[i])
  <2>1. FitsChunk(q) /\ s \in Cuts(CellsU(q)) /\ t \in Cuts(CellsV(q))
    BY <1>1, <1>4
  <2>2. Spans(Splat(PieceOf(q, s, t)).corners, q.dir, LowOfPiece(q, s, t), HighOfPiece(q, s, t))
    BY <1>1, <2>1, SplatSpans
  <2>3. /\ LowOfPiece(q, s, t) \in [1..3 -> Nat]
        /\ \A i \in 1..3 : HighOfPiece(q, s, t)[i] <= 2 * chunk.size[i]
    BY <1>1, <2>1, PieceIs
  <2> QED BY ONLY <1>1, <2>2, <2>3, CornersIn
<1>5. \A g \in shapes : \E q, s, t : IsPiece(q, s, t) /\ g = Splat(PieceOf(q, s, t))
  <2> SUFFICES ASSUME NEW q \in quads, NEW g \in Capped(q)
               PROVE  \E s, t : IsPiece(q, s, t) /\ Splat(g) = Splat(PieceOf(q, s, t))
    OBVIOUS
  <2>1. PICK s \in Cuts(CellsU(q)), t \in Cuts(CellsV(q)) : g = PieceOf(q, s, t)
    BY CappedIs
  <2> QED BY <2>1
<1>6. \A q, s, t : IsPiece(q, s, t) => Splat(PieceOf(q, s, t)) \in shapes
  <2> SUFFICES ASSUME NEW q \in quads, NEW s \in Cuts(CellsU(q)), NEW t \in Cuts(CellsV(q))
               PROVE  Splat(PieceOf(q, s, t)) \in shapes
    OBVIOUS
  <2>1. PieceOf(q, s, t) \in UNION {Capped(r) : r \in quads}
    <3>1. PieceOf(q, s, t) \in Capped(q)
      BY CappedIs
    <3> QED BY ONLY <3>1, q \in quads
  <2> QED BY ONLY <2>1
<1>7. ASSUME NEW q \in quads, NEW g \in Capped(q)
      PROVE  g.u <= MaxCells /\ g.v <= MaxCells
  <2>1. PICK s \in Cuts(CellsU(q)), t \in Cuts(CellsV(q)) : g = PieceOf(q, s, t)
    BY CappedIs
  <2>2. g.u = s.long /\ g.v = t.long
    BY <2>1 DEF PieceOf
  <2> QED BY <1>1, <2>2, PieceIs
<1> HIDE DEF shapes
<1>8. \A g \in shapes, n \in 1..4, i \in 1..3 : g.corners[n][i] \in 0..(2 * chunk.size[i])
  <2> SUFFICES ASSUME NEW g \in shapes
               PROVE  \A n \in 1..4, i \in 1..3 : g.corners[n][i] \in 0..(2 * chunk.size[i])
    OBVIOUS
  <2>1. PICK q, s, t : IsPiece(q, s, t) /\ g = Splat(PieceOf(q, s, t))
    BY <1>5
  <2> QED BY <1>4, <2>1
<1>9. ASSUME NEW d \in Directions, NEW p \in Inside, IsExposed(d, p)
      PROVE  \E g \in shapes : /\ Shows(g, d, p) /\ Matches(g.key, FaceKey(d, p))
                               /\ \A f \in shapes : Shows(f, d, p) => f = g
  <2>1. PICK q \in quads : Covers(q, d, p)
    BY <1>9, MergedCovers
  <2>2. Matches(q.key, FaceKey(d, p)) /\ \A r \in quads : Covers(r, d, p) => r = q
    BY <2>1, MergedCovers
  <2>3. PICK s \in Cuts(CellsU(q)), t \in Cuts(CellsV(q)) :
          /\ InPiece(q, s, t, p)
          /\ \A r \in Cuts(CellsU(q)), o \in Cuts(CellsV(q)) : InPiece(q, r, o, p) => r = s /\ o = t
    BY <1>1, <2>1, OnePieceShows
  <2>4. IsPiece(q, s, t)
    OBVIOUS
  <2>5. ASSUME NEW f \in shapes, Shows(f, d, p)
        PROVE  f = Splat(PieceOf(q, s, t))
    <3>1. PICK r, i, j : IsPiece(r, i, j) /\ f = Splat(PieceOf(r, i, j))
      BY <1>5
    <3>2. Covers(r, d, p) /\ InPiece(r, i, j, p) /\ r \in quads
      BY <1>2, <2>5, <3>1
    <3>3. r = q
      BY <2>2, <3>2
    <3>4. i = s /\ j = t
      BY <2>3, <3>1, <3>2, <3>3
    <3> QED BY <3>1, <3>3, <3>4
  <2>6. Shows(Splat(PieceOf(q, s, t)), d, p)
    BY <1>2, <2>1, <2>3, <2>4
  <2> HIDE DEF IsPiece
  <2> QED BY <1>3, <1>6, <2>2, <2>4, <2>5, <2>6
<1>10. ASSUME NEW d \in Directions, NEW p \in Inside, ~IsExposed(d, p)
       PROVE  \A g \in shapes : ~Shows(g, d, p)
  <2>1. \A q \in quads : ~Covers(q, d, p)
    BY <1>10, MergedCovers
  <2> SUFFICES ASSUME NEW g \in shapes PROVE ~Shows(g, d, p)
    OBVIOUS
  <2>2. PICK q, s, t : IsPiece(q, s, t) /\ g = Splat(PieceOf(q, s, t))
    BY <1>5
  <2> QED BY <1>2, <2>1, <2>2
<1>11. IsSurface(shapes)
  BY <1>8, <1>9, <1>10, SurfaceIs
<1> QED BY <1>7, <1>11 DEF shapes

\* What VoxelMapper merges slice by slice is the surface of the chunk, as
\* the corners that surface_mesh.rs makes of it and as the pieces that
\* face_instances.rs cuts and the shader spreads out again: every exposed
\* face of a voxel is shown once, as it is and looking outward, and nothing
\* else is, of a chunk of any size.
THEOREM SurfacesAreMeshed == MeshSpec => []MeshIsTheSurface
<1>1. MeshInv => MeshIsTheSurface
  <2> SUFFICES ASSUME MeshInv, slice = SliceCount
               PROVE  /\ IsSurface({Indexed(q) : q \in quads})
                      /\ IsSurface({Splat(g) : g \in UNION {Capped(q) : q \in quads}})
                      /\ \A q \in quads : \A g \in Capped(q) : g.u <= MaxCells /\ g.v <= MaxCells
    BY DEF MeshIsTheSurface
  <2> QED BY IndexedSurface, CappedSurface
<1> QED BY <1>1, MeshInitInv, MeshStep, PTL DEF MeshSpec
=============================================================================
