------------------------------ MODULE OctreeProofs ------------------------------
(***************************************************************************)
(* Theorems of the two modules about octrees.  SvoArena: whatever is built,*)
(* edited or shared, the arena shows the voxels.  RayMarch: a march        *)
(* through an octree misses no solid.                                      *)
(***************************************************************************)
EXTENDS SvoArena, RayMarch, FiniteSetTheorems, WellFoundedInduction, TLAPS

-----------------------------------------------------------------------------
(* The recursions over the levels of a cube, by the least level that has   *)
(* no such function.                                                       *)

\* A set of numbers that is not empty has a least.
LEMMA LeastNumber ==
  ASSUME NEW S \in SUBSET Nat, S # {}
  PROVE  \E m \in S : \A n \in S : m <= n
<1> DEFINE R == OpToRel(<, Nat)
<1>1. IsWellFoundedOn(R, Nat)
  BY NatLessThanWellFounded
<1>2. \A x, y \in Nat : y < x => <<y, x>> \in R
  BY DEF OpToRel
<1> HIDE DEF R
<1>3. PICK m \in S : \A y \in S : ~(<<y, m>> \in R)
  BY <1>1, WFMin
<1>4. \A n \in S : ~(n < m) /\ n \in Nat /\ m \in Nat
  BY <1>2, <1>3
<1> QED BY <1>4

\* One of the eight calls.
Visited(call, with, k, before) ==
  LET last == call[before.arena][with[k - 1]]
  IN  [arena |-> last.arena, kids |-> Append(before.kids, last.node)]

\* The sides of the cubes up to level n.
SideStages(n, f) ==
  f = [k \in 0..n |-> IF k = 0 THEN 1 ELSE 2 * f[k - 1]]

\* There is such a function for every number of levels.
LEMMA SideStagesExist ==
  ASSUME NEW n \in Nat
  PROVE  \E f : SideStages(n, f)
<1> DEFINE bad == {m \in Nat : ~\E f : SideStages(m, f)}
<1> SUFFICES ASSUME bad # {} PROVE FALSE
  OBVIOUS
<1>1. bad \in SUBSET Nat
  OBVIOUS
<1>2. PICK m \in bad : \A j \in bad : m <= j
  <2> HIDE DEF bad
  <2> QED BY <1>1, LeastNumber
<1>3. CASE m = 0
  <2> DEFINE f == [k \in 0..0 |-> 1]
  <2>1. SideStages(0, f)
    BY DEF SideStages
  <2> QED BY <1>3, <2>1
<1>4. CASE m # 0
  <2>1. m \in Nat /\ m - 1 \in Nat /\ m - 1 \notin bad
    BY <1>2, <1>4
  <2>2. PICK g : SideStages(m - 1, g)
    BY <2>1
  <2> DEFINE f == [k \in 0..m |-> IF k = m THEN 2 * g[m - 1] ELSE g[k]]
  <2>3. /\ DOMAIN g = 0..(m - 1)
        /\ \A k \in 0..(m - 1) : g[k] = IF k = 0 THEN 1 ELSE 2 * g[k - 1]
    BY <2>2 DEF SideStages
  <2>4. \A k \in 0..m : f[k] = IF k = 0 THEN 1 ELSE 2 * f[k - 1]
    <3> TAKE k \in 0..m
    <3>1. CASE k = m
      <4>1. f[m] = 2 * g[m - 1] /\ f[m - 1] = g[m - 1]
        BY <2>1
      <4> HIDE DEF f
      <4> QED BY <1>4, <3>1, <4>1
    <3>2. CASE k # m /\ k = 0
      BY <2>1, <2>3, <3>2
    <3>3. CASE k # m /\ k # 0
      <4>1. k \in 0..(m - 1) /\ k - 1 \in 0..m /\ k - 1 # m
        BY <2>1, <3>3
      <4>2. f[k] = g[k] /\ f[k - 1] = g[k - 1]
        BY <3>3, <4>1
      <4> HIDE DEF f
      <4> QED BY <2>3, <3>3, <4>1, <4>2
    <3> QED BY <3>1, <3>2, <3>3
  <2>5. f = [k \in 0..m |-> f[k]]
    OBVIOUS
  <2>6. SideStages(m, f)
    <3> HIDE DEF f
    <3> QED BY <2>4, <2>5 DEF SideStages
  <2> QED BY <2>6
<1> QED BY <1>3, <1>4

\* A cube's side is twice that of the level below it.
LEMMA SideAtUnfolds ==
         /\ SideAt[0] = 1
         /\ \A n \in 1..Depth : SideAt[n] = 2 * SideAt[n - 1]
<1>0. Depth \in Nat
  BY ArenaAssumption
<1>1. SideAt = CHOOSE f : SideStages(Depth, f)
  BY DEF SideAt, SideStages
<1>2. SideStages(Depth, SideAt)
  BY <1>0, <1>1, SideStagesExist
<1> DEFINE w == SideAt
<1>3. w = [k \in 0..Depth |-> IF k = 0 THEN 1 ELSE 2 * w[k - 1]]
  BY <1>2 DEF SideStages
<1> HIDE DEF w
<1>4. w[0] = 1
  BY <1>0, <1>3
<1>5. \A n \in 1..Depth : w[n] = 2 * w[n - 1]
  <2> DEFINE next(k) == 2 * w[k - 1]
  <2>1. w = [k \in 0..Depth |-> IF k = 0 THEN 1 ELSE next(k)]
    BY <1>3
  <2> SUFFICES ASSUME NEW n \in 1..Depth PROVE w[n] = next(n)
    OBVIOUS
  <2> HIDE DEF next
  <2>2. n \in 0..Depth /\ n # 0
    BY <1>0
  <2> QED BY <2>1, <2>2
<1> QED BY <1>4, <1>5 DEF w

\* The arenas and nodes after up to n calls.
VisitStages(n, f, call, arena, with) ==
  f = [k \in 0..n |-> IF k = 0 THEN [arena |-> arena, kids |-> <<>>] ELSE Visited(call, with, k, f[k - 1])]

\* There is such a function for every number of calls.
LEMMA VisitStagesExist ==
  ASSUME NEW call, NEW arena, NEW with, NEW n \in Nat
  PROVE  \E f : VisitStages(n, f, call, arena, with)
<1> DEFINE bad == {m \in Nat : ~\E f : VisitStages(m, f, call, arena, with)}
<1> SUFFICES ASSUME bad # {} PROVE FALSE
  OBVIOUS
<1>1. bad \in SUBSET Nat
  OBVIOUS
<1>2. PICK m \in bad : \A j \in bad : m <= j
  <2> HIDE DEF bad
  <2> QED BY <1>1, LeastNumber
<1>3. CASE m = 0
  <2> DEFINE f == [k \in 0..0 |-> [arena |-> arena, kids |-> <<>>]]
  <2>1. VisitStages(0, f, call, arena, with)
    BY DEF VisitStages
  <2> QED BY <1>3, <2>1
<1>4. CASE m # 0
  <2>1. m \in Nat /\ m - 1 \in Nat /\ m - 1 \notin bad
    BY <1>2, <1>4
  <2>2. PICK g : VisitStages(m - 1, g, call, arena, with)
    BY <2>1
  <2> DEFINE f == [k \in 0..m |-> IF k = m THEN Visited(call, with, m, g[m - 1]) ELSE g[k]]
  <2>3. /\ DOMAIN g = 0..(m - 1)
        /\ \A k \in 0..(m - 1) : g[k] = IF k = 0 THEN [arena |-> arena, kids |-> <<>>] ELSE Visited(call, with, k, g[k - 1])
    BY <2>2 DEF VisitStages
  <2>4. \A k \in 0..m : f[k] = IF k = 0 THEN [arena |-> arena, kids |-> <<>>] ELSE Visited(call, with, k, f[k - 1])
    <3> TAKE k \in 0..m
    <3>1. CASE k = m
      <4>1. f[m] = Visited(call, with, m, g[m - 1]) /\ f[m - 1] = g[m - 1]
        BY <2>1
      <4> HIDE DEF f
      <4> QED BY <1>4, <3>1, <4>1
    <3>2. CASE k # m /\ k = 0
      BY <2>1, <2>3, <3>2
    <3>3. CASE k # m /\ k # 0
      <4>1. k \in 0..(m - 1) /\ k - 1 \in 0..m /\ k - 1 # m
        BY <2>1, <3>3
      <4>2. f[k] = g[k] /\ f[k - 1] = g[k - 1]
        BY <3>3, <4>1
      <4> HIDE DEF f
      <4> QED BY <2>3, <3>3, <4>1, <4>2
    <3> QED BY <3>1, <3>2, <3>3
  <2>5. f = [k \in 0..m |-> f[k]]
    OBVIOUS
  <2>6. VisitStages(m, f, call, arena, with)
    <3> HIDE DEF f
    <3> QED BY <2>4, <2>5 DEF VisitStages
  <2> QED BY <2>6
<1> QED BY <1>3, <1>4

\* Each of the eight calls is made with the arena the one before it left.
LEMMA VisitsUnfolds ==
  ASSUME NEW call, NEW arena, NEW with
  PROVE  /\ Visits(call, arena, with)[0] = [arena |-> arena, kids |-> <<>>]
         /\ \A n \in 1..8 : Visits(call, arena, with)[n] = Visited(call, with, n, Visits(call, arena, with)[n - 1])
<1>0. 8 \in Nat
  OBVIOUS
<1>1. Visits(call, arena, with) = CHOOSE f : VisitStages(8, f, call, arena, with)
  BY DEF Visits, VisitStages, Visited
<1>2. VisitStages(8, Visits(call, arena, with), call, arena, with)
  BY <1>0, <1>1, VisitStagesExist
<1> DEFINE w == Visits(call, arena, with)
<1>3. w = [k \in 0..8 |-> IF k = 0 THEN [arena |-> arena, kids |-> <<>>] ELSE Visited(call, with, k, w[k - 1])]
  BY <1>2 DEF VisitStages
<1> HIDE DEF w
<1>4. w[0] = [arena |-> arena, kids |-> <<>>]
  BY <1>0, <1>3
<1>5. \A n \in 1..8 : w[n] = Visited(call, with, n, w[n - 1])
  <2> DEFINE next(k) == Visited(call, with, k, w[k - 1])
  <2>1. w = [k \in 0..8 |-> IF k = 0 THEN [arena |-> arena, kids |-> <<>>] ELSE next(k)]
    BY <1>3
  <2> SUFFICES ASSUME NEW n \in 1..8 PROVE w[n] = next(n)
    OBVIOUS
  <2> HIDE DEF next
  <2>2. n \in 0..8 /\ n # 0
    BY <1>0
  <2> QED BY <2>1, <2>2
<1> QED BY <1>4, <1>5 DEF w

\* The calls for cubes up to level n, and so for the other recursions below.
GrowStages(n, f, sample, known) ==
  f = [k \in 0..n |-> IF k = 0 THEN GrowVoxel(sample) ELSE GrowCube(sample, known, k, f[k - 1])]

\* There is such a function for every number of levels.
LEMMA GrowStagesExist ==
  ASSUME NEW sample, NEW known, NEW n \in Nat
  PROVE  \E f : GrowStages(n, f, sample, known)
<1> DEFINE bad == {m \in Nat : ~\E f : GrowStages(m, f, sample, known)}
<1> SUFFICES ASSUME bad # {} PROVE FALSE
  OBVIOUS
<1>1. bad \in SUBSET Nat
  OBVIOUS
<1>2. PICK m \in bad : \A j \in bad : m <= j
  <2> HIDE DEF bad
  <2> QED BY <1>1, LeastNumber
<1>3. CASE m = 0
  <2> DEFINE f == [k \in 0..0 |-> GrowVoxel(sample)]
  <2>1. GrowStages(0, f, sample, known)
    BY DEF GrowStages
  <2> QED BY <1>3, <2>1
<1>4. CASE m # 0
  <2>1. m \in Nat /\ m - 1 \in Nat /\ m - 1 \notin bad
    BY <1>2, <1>4
  <2>2. PICK g : GrowStages(m - 1, g, sample, known)
    BY <2>1
  <2> DEFINE f == [k \in 0..m |-> IF k = m THEN GrowCube(sample, known, m, g[m - 1]) ELSE g[k]]
  <2>3. /\ DOMAIN g = 0..(m - 1)
        /\ \A k \in 0..(m - 1) : g[k] = IF k = 0 THEN GrowVoxel(sample) ELSE GrowCube(sample, known, k, g[k - 1])
    BY <2>2 DEF GrowStages
  <2>4. \A k \in 0..m : f[k] = IF k = 0 THEN GrowVoxel(sample) ELSE GrowCube(sample, known, k, f[k - 1])
    <3> TAKE k \in 0..m
    <3>1. CASE k = m
      <4>1. f[m] = GrowCube(sample, known, m, g[m - 1]) /\ f[m - 1] = g[m - 1]
        BY <2>1
      <4> HIDE DEF f
      <4> QED BY <1>4, <3>1, <4>1
    <3>2. CASE k # m /\ k = 0
      BY <2>1, <2>3, <3>2
    <3>3. CASE k # m /\ k # 0
      <4>1. k \in 0..(m - 1) /\ k - 1 \in 0..m /\ k - 1 # m
        BY <2>1, <3>3
      <4>2. f[k] = g[k] /\ f[k - 1] = g[k - 1]
        BY <3>3, <4>1
      <4> HIDE DEF f
      <4> QED BY <2>3, <3>3, <4>1, <4>2
    <3> QED BY <3>1, <3>2, <3>3
  <2>5. f = [k \in 0..m |-> f[k]]
    OBVIOUS
  <2>6. GrowStages(m, f, sample, known)
    <3> HIDE DEF f
    <3> QED BY <2>4, <2>5 DEF GrowStages
  <2> QED BY <2>6
<1> QED BY <1>3, <1>4

\* A cube is built of what the level below it builds (build_recursive()).
LEMMA GrowUnfolds ==
  ASSUME NEW sample, NEW known
  PROVE  /\ Grow(sample, known)[0] = GrowVoxel(sample)
         /\ \A n \in 1..Depth : Grow(sample, known)[n] = GrowCube(sample, known, n, Grow(sample, known)[n - 1])
<1>0. Depth \in Nat
  BY ArenaAssumption
<1>1. Grow(sample, known) = CHOOSE f : GrowStages(Depth, f, sample, known)
  BY DEF Grow, GrowStages
<1>2. GrowStages(Depth, Grow(sample, known), sample, known)
  BY <1>0, <1>1, GrowStagesExist
<1> DEFINE w == Grow(sample, known)
<1>3. w = [k \in 0..Depth |-> IF k = 0 THEN GrowVoxel(sample) ELSE GrowCube(sample, known, k, w[k - 1])]
  BY <1>2 DEF GrowStages
<1> HIDE DEF w
<1>4. w[0] = GrowVoxel(sample)
  BY <1>0, <1>3
<1>5. \A n \in 1..Depth : w[n] = GrowCube(sample, known, n, w[n - 1])
  <2> DEFINE next(k) == GrowCube(sample, known, k, w[k - 1])
  <2>1. w = [k \in 0..Depth |-> IF k = 0 THEN GrowVoxel(sample) ELSE next(k)]
    BY <1>3
  <2> SUFFICES ASSUME NEW n \in 1..Depth PROVE w[n] = next(n)
    OBVIOUS
  <2> HIDE DEF next
  <2>2. n \in 0..Depth /\ n # 0
    BY <1>0
  <2> QED BY <2>1, <2>2
<1> QED BY <1>4, <1>5 DEF w

LookStages(n, f, arena) ==
  f = [k \in 0..n |-> IF k = 0 THEN LookVoxel(arena) ELSE LookCube(arena, k, f[k - 1])]

\* There is such a function for every number of levels.
LEMMA LookStagesExist ==
  ASSUME NEW arena, NEW n \in Nat
  PROVE  \E f : LookStages(n, f, arena)
<1> DEFINE bad == {m \in Nat : ~\E f : LookStages(m, f, arena)}
<1> SUFFICES ASSUME bad # {} PROVE FALSE
  OBVIOUS
<1>1. bad \in SUBSET Nat
  OBVIOUS
<1>2. PICK m \in bad : \A j \in bad : m <= j
  <2> HIDE DEF bad
  <2> QED BY <1>1, LeastNumber
<1>3. CASE m = 0
  <2> DEFINE f == [k \in 0..0 |-> LookVoxel(arena)]
  <2>1. LookStages(0, f, arena)
    BY DEF LookStages
  <2> QED BY <1>3, <2>1
<1>4. CASE m # 0
  <2>1. m \in Nat /\ m - 1 \in Nat /\ m - 1 \notin bad
    BY <1>2, <1>4
  <2>2. PICK g : LookStages(m - 1, g, arena)
    BY <2>1
  <2> DEFINE f == [k \in 0..m |-> IF k = m THEN LookCube(arena, m, g[m - 1]) ELSE g[k]]
  <2>3. /\ DOMAIN g = 0..(m - 1)
        /\ \A k \in 0..(m - 1) : g[k] = IF k = 0 THEN LookVoxel(arena) ELSE LookCube(arena, k, g[k - 1])
    BY <2>2 DEF LookStages
  <2>4. \A k \in 0..m : f[k] = IF k = 0 THEN LookVoxel(arena) ELSE LookCube(arena, k, f[k - 1])
    <3> TAKE k \in 0..m
    <3>1. CASE k = m
      <4>1. f[m] = LookCube(arena, m, g[m - 1]) /\ f[m - 1] = g[m - 1]
        BY <2>1
      <4> HIDE DEF f
      <4> QED BY <1>4, <3>1, <4>1
    <3>2. CASE k # m /\ k = 0
      BY <2>1, <2>3, <3>2
    <3>3. CASE k # m /\ k # 0
      <4>1. k \in 0..(m - 1) /\ k - 1 \in 0..m /\ k - 1 # m
        BY <2>1, <3>3
      <4>2. f[k] = g[k] /\ f[k - 1] = g[k - 1]
        BY <3>3, <4>1
      <4> HIDE DEF f
      <4> QED BY <2>3, <3>3, <4>1, <4>2
    <3> QED BY <3>1, <3>2, <3>3
  <2>5. f = [k \in 0..m |-> f[k]]
    OBVIOUS
  <2>6. LookStages(m, f, arena)
    <3> HIDE DEF f
    <3> QED BY <2>4, <2>5 DEF LookStages
  <2> QED BY <2>6
<1> QED BY <1>3, <1>4

\* A cube is looked up in by looking up in its octants (get_recursive()).
LEMMA LookUnfolds ==
  ASSUME NEW arena
  PROVE  /\ Look(arena)[0] = LookVoxel(arena)
         /\ \A n \in 1..Depth : Look(arena)[n] = LookCube(arena, n, Look(arena)[n - 1])
<1>0. Depth \in Nat
  BY ArenaAssumption
<1>1. Look(arena) = CHOOSE f : LookStages(Depth, f, arena)
  BY DEF Look, LookStages
<1>2. LookStages(Depth, Look(arena), arena)
  BY <1>0, <1>1, LookStagesExist
<1> DEFINE w == Look(arena)
<1>3. w = [k \in 0..Depth |-> IF k = 0 THEN LookVoxel(arena) ELSE LookCube(arena, k, w[k - 1])]
  BY <1>2 DEF LookStages
<1> HIDE DEF w
<1>4. w[0] = LookVoxel(arena)
  BY <1>0, <1>3
<1>5. \A n \in 1..Depth : w[n] = LookCube(arena, n, w[n - 1])
  <2> DEFINE next(k) == LookCube(arena, k, w[k - 1])
  <2>1. w = [k \in 0..Depth |-> IF k = 0 THEN LookVoxel(arena) ELSE next(k)]
    BY <1>3
  <2> SUFFICES ASSUME NEW n \in 1..Depth PROVE w[n] = next(n)
    OBVIOUS
  <2> HIDE DEF next
  <2>2. n \in 0..Depth /\ n # 0
    BY <1>0
  <2> QED BY <2>1, <2>2
<1> QED BY <1>4, <1>5 DEF w

PutStages(n, f, a) ==
  f = [k \in 0..n |-> IF k = 0 THEN PutVoxel(a) ELSE PutCube(a, k, f[k - 1])]

\* There is such a function for every number of levels.
LEMMA PutStagesExist ==
  ASSUME NEW a, NEW n \in Nat
  PROVE  \E f : PutStages(n, f, a)
<1> DEFINE bad == {m \in Nat : ~\E f : PutStages(m, f, a)}
<1> SUFFICES ASSUME bad # {} PROVE FALSE
  OBVIOUS
<1>1. bad \in SUBSET Nat
  OBVIOUS
<1>2. PICK m \in bad : \A j \in bad : m <= j
  <2> HIDE DEF bad
  <2> QED BY <1>1, LeastNumber
<1>3. CASE m = 0
  <2> DEFINE f == [k \in 0..0 |-> PutVoxel(a)]
  <2>1. PutStages(0, f, a)
    BY DEF PutStages
  <2> QED BY <1>3, <2>1
<1>4. CASE m # 0
  <2>1. m \in Nat /\ m - 1 \in Nat /\ m - 1 \notin bad
    BY <1>2, <1>4
  <2>2. PICK g : PutStages(m - 1, g, a)
    BY <2>1
  <2> DEFINE f == [k \in 0..m |-> IF k = m THEN PutCube(a, m, g[m - 1]) ELSE g[k]]
  <2>3. /\ DOMAIN g = 0..(m - 1)
        /\ \A k \in 0..(m - 1) : g[k] = IF k = 0 THEN PutVoxel(a) ELSE PutCube(a, k, g[k - 1])
    BY <2>2 DEF PutStages
  <2>4. \A k \in 0..m : f[k] = IF k = 0 THEN PutVoxel(a) ELSE PutCube(a, k, f[k - 1])
    <3> TAKE k \in 0..m
    <3>1. CASE k = m
      <4>1. f[m] = PutCube(a, m, g[m - 1]) /\ f[m - 1] = g[m - 1]
        BY <2>1
      <4> HIDE DEF f
      <4> QED BY <1>4, <3>1, <4>1
    <3>2. CASE k # m /\ k = 0
      BY <2>1, <2>3, <3>2
    <3>3. CASE k # m /\ k # 0
      <4>1. k \in 0..(m - 1) /\ k - 1 \in 0..m /\ k - 1 # m
        BY <2>1, <3>3
      <4>2. f[k] = g[k] /\ f[k - 1] = g[k - 1]
        BY <3>3, <4>1
      <4> HIDE DEF f
      <4> QED BY <2>3, <3>3, <4>1, <4>2
    <3> QED BY <3>1, <3>2, <3>3
  <2>5. f = [k \in 0..m |-> f[k]]
    OBVIOUS
  <2>6. PutStages(m, f, a)
    <3> HIDE DEF f
    <3> QED BY <2>4, <2>5 DEF PutStages
  <2> QED BY <2>6
<1> QED BY <1>3, <1>4

\* A cube is put into by putting into one of its octants (set_recursive()).
LEMMA PutUnfolds ==
  ASSUME NEW a
  PROVE  /\ Put(a)[0] = PutVoxel(a)
         /\ \A n \in 1..Depth : Put(a)[n] = PutCube(a, n, Put(a)[n - 1])
<1>0. Depth \in Nat
  BY ArenaAssumption
<1>1. Put(a) = CHOOSE f : PutStages(Depth, f, a)
  BY DEF Put, PutStages
<1>2. PutStages(Depth, Put(a), a)
  BY <1>0, <1>1, PutStagesExist
<1> DEFINE w == Put(a)
<1>3. w = [k \in 0..Depth |-> IF k = 0 THEN PutVoxel(a) ELSE PutCube(a, k, w[k - 1])]
  BY <1>2 DEF PutStages
<1> HIDE DEF w
<1>4. w[0] = PutVoxel(a)
  BY <1>0, <1>3
<1>5. \A n \in 1..Depth : w[n] = PutCube(a, n, w[n - 1])
  <2> DEFINE next(k) == PutCube(a, k, w[k - 1])
  <2>1. w = [k \in 0..Depth |-> IF k = 0 THEN PutVoxel(a) ELSE next(k)]
    BY <1>3
  <2> SUFFICES ASSUME NEW n \in 1..Depth PROVE w[n] = next(n)
    OBVIOUS
  <2> HIDE DEF next
  <2>2. n \in 0..Depth /\ n # 0
    BY <1>0
  <2> QED BY <2>1, <2>2
<1> QED BY <1>4, <1>5 DEF w

SharedStages(n, f, arena) ==
  f = [k \in 0..n |-> IF k = 0 THEN ShareVoxel(arena) ELSE ShareCube(arena, f[k - 1])]

\* There is such a function for every number of levels.
LEMMA SharedStagesExist ==
  ASSUME NEW arena, NEW n \in Nat
  PROVE  \E f : SharedStages(n, f, arena)
<1> DEFINE bad == {m \in Nat : ~\E f : SharedStages(m, f, arena)}
<1> SUFFICES ASSUME bad # {} PROVE FALSE
  OBVIOUS
<1>1. bad \in SUBSET Nat
  OBVIOUS
<1>2. PICK m \in bad : \A j \in bad : m <= j
  <2> HIDE DEF bad
  <2> QED BY <1>1, LeastNumber
<1>3. CASE m = 0
  <2> DEFINE f == [k \in 0..0 |-> ShareVoxel(arena)]
  <2>1. SharedStages(0, f, arena)
    BY DEF SharedStages
  <2> QED BY <1>3, <2>1
<1>4. CASE m # 0
  <2>1. m \in Nat /\ m - 1 \in Nat /\ m - 1 \notin bad
    BY <1>2, <1>4
  <2>2. PICK g : SharedStages(m - 1, g, arena)
    BY <2>1
  <2> DEFINE f == [k \in 0..m |-> IF k = m THEN ShareCube(arena, g[m - 1]) ELSE g[k]]
  <2>3. /\ DOMAIN g = 0..(m - 1)
        /\ \A k \in 0..(m - 1) : g[k] = IF k = 0 THEN ShareVoxel(arena) ELSE ShareCube(arena, g[k - 1])
    BY <2>2 DEF SharedStages
  <2>4. \A k \in 0..m : f[k] = IF k = 0 THEN ShareVoxel(arena) ELSE ShareCube(arena, f[k - 1])
    <3> TAKE k \in 0..m
    <3>1. CASE k = m
      <4>1. f[m] = ShareCube(arena, g[m - 1]) /\ f[m - 1] = g[m - 1]
        BY <2>1
      <4> HIDE DEF f
      <4> QED BY <1>4, <3>1, <4>1
    <3>2. CASE k # m /\ k = 0
      BY <2>1, <2>3, <3>2
    <3>3. CASE k # m /\ k # 0
      <4>1. k \in 0..(m - 1) /\ k - 1 \in 0..m /\ k - 1 # m
        BY <2>1, <3>3
      <4>2. f[k] = g[k] /\ f[k - 1] = g[k - 1]
        BY <3>3, <4>1
      <4> HIDE DEF f
      <4> QED BY <2>3, <3>3, <4>1, <4>2
    <3> QED BY <3>1, <3>2, <3>3
  <2>5. f = [k \in 0..m |-> f[k]]
    OBVIOUS
  <2>6. SharedStages(m, f, arena)
    <3> HIDE DEF f
    <3> QED BY <2>4, <2>5 DEF SharedStages
  <2> QED BY <2>6
<1> QED BY <1>3, <1>4

\* A node is shared after the nodes below it (canonicalize()).
LEMMA SharedUnfolds ==
  ASSUME NEW arena
  PROVE  /\ Shared(arena)[0] = ShareVoxel(arena)
         /\ \A n \in 1..Depth : Shared(arena)[n] = ShareCube(arena, Shared(arena)[n - 1])
<1>0. Depth \in Nat
  BY ArenaAssumption
<1>1. Shared(arena) = CHOOSE f : SharedStages(Depth, f, arena)
  BY DEF Shared, SharedStages
<1>2. SharedStages(Depth, Shared(arena), arena)
  BY <1>0, <1>1, SharedStagesExist
<1> DEFINE w == Shared(arena)
<1>3. w = [k \in 0..Depth |-> IF k = 0 THEN ShareVoxel(arena) ELSE ShareCube(arena, w[k - 1])]
  BY <1>2 DEF SharedStages
<1> HIDE DEF w
<1>4. w[0] = ShareVoxel(arena)
  BY <1>0, <1>3
<1>5. \A n \in 1..Depth : w[n] = ShareCube(arena, w[n - 1])
  <2> DEFINE next(k) == ShareCube(arena, w[k - 1])
  <2>1. w = [k \in 0..Depth |-> IF k = 0 THEN ShareVoxel(arena) ELSE next(k)]
    BY <1>3
  <2> SUFFICES ASSUME NEW n \in 1..Depth PROVE w[n] = next(n)
    OBVIOUS
  <2> HIDE DEF next
  <2>2. n \in 0..Depth /\ n # 0
    BY <1>0
  <2> QED BY <2>1, <2>2
<1> QED BY <1>4, <1>5 DEF w

WalkStages(n, f, arena) ==
  f = [k \in 0..n |-> IF k = 0 THEN WalkVoxel(arena) ELSE WalkCube(arena, k, f[k - 1])]

\* There is such a function for every number of levels.
LEMMA WalkStagesExist ==
  ASSUME NEW arena, NEW n \in Nat
  PROVE  \E f : WalkStages(n, f, arena)
<1> DEFINE bad == {m \in Nat : ~\E f : WalkStages(m, f, arena)}
<1> SUFFICES ASSUME bad # {} PROVE FALSE
  OBVIOUS
<1>1. bad \in SUBSET Nat
  OBVIOUS
<1>2. PICK m \in bad : \A j \in bad : m <= j
  <2> HIDE DEF bad
  <2> QED BY <1>1, LeastNumber
<1>3. CASE m = 0
  <2> DEFINE f == [k \in 0..0 |-> WalkVoxel(arena)]
  <2>1. WalkStages(0, f, arena)
    BY DEF WalkStages
  <2> QED BY <1>3, <2>1
<1>4. CASE m # 0
  <2>1. m \in Nat /\ m - 1 \in Nat /\ m - 1 \notin bad
    BY <1>2, <1>4
  <2>2. PICK g : WalkStages(m - 1, g, arena)
    BY <2>1
  <2> DEFINE f == [k \in 0..m |-> IF k = m THEN WalkCube(arena, m, g[m - 1]) ELSE g[k]]
  <2>3. /\ DOMAIN g = 0..(m - 1)
        /\ \A k \in 0..(m - 1) : g[k] = IF k = 0 THEN WalkVoxel(arena) ELSE WalkCube(arena, k, g[k - 1])
    BY <2>2 DEF WalkStages
  <2>4. \A k \in 0..m : f[k] = IF k = 0 THEN WalkVoxel(arena) ELSE WalkCube(arena, k, f[k - 1])
    <3> TAKE k \in 0..m
    <3>1. CASE k = m
      <4>1. f[m] = WalkCube(arena, m, g[m - 1]) /\ f[m - 1] = g[m - 1]
        BY <2>1
      <4> HIDE DEF f
      <4> QED BY <1>4, <3>1, <4>1
    <3>2. CASE k # m /\ k = 0
      BY <2>1, <2>3, <3>2
    <3>3. CASE k # m /\ k # 0
      <4>1. k \in 0..(m - 1) /\ k - 1 \in 0..m /\ k - 1 # m
        BY <2>1, <3>3
      <4>2. f[k] = g[k] /\ f[k - 1] = g[k - 1]
        BY <3>3, <4>1
      <4> HIDE DEF f
      <4> QED BY <2>3, <3>3, <4>1, <4>2
    <3> QED BY <3>1, <3>2, <3>3
  <2>5. f = [k \in 0..m |-> f[k]]
    OBVIOUS
  <2>6. WalkStages(m, f, arena)
    <3> HIDE DEF f
    <3> QED BY <2>4, <2>5 DEF WalkStages
  <2> QED BY <2>6
<1> QED BY <1>3, <1>4

\* A cube is walked by walking its octants (walk()).
LEMMA WalkUnfolds ==
  ASSUME NEW arena
  PROVE  /\ Walk(arena)[0] = WalkVoxel(arena)
         /\ \A n \in 1..Depth : Walk(arena)[n] = WalkCube(arena, n, Walk(arena)[n - 1])
<1>0. Depth \in Nat
  BY ArenaAssumption
<1>1. Walk(arena) = CHOOSE f : WalkStages(Depth, f, arena)
  BY DEF Walk, WalkStages
<1>2. WalkStages(Depth, Walk(arena), arena)
  BY <1>0, <1>1, WalkStagesExist
<1> DEFINE w == Walk(arena)
<1>3. w = [k \in 0..Depth |-> IF k = 0 THEN WalkVoxel(arena) ELSE WalkCube(arena, k, w[k - 1])]
  BY <1>2 DEF WalkStages
<1> HIDE DEF w
<1>4. w[0] = WalkVoxel(arena)
  BY <1>0, <1>3
<1>5. \A n \in 1..Depth : w[n] = WalkCube(arena, n, w[n - 1])
  <2> DEFINE next(k) == WalkCube(arena, k, w[k - 1])
  <2>1. w = [k \in 0..Depth |-> IF k = 0 THEN WalkVoxel(arena) ELSE next(k)]
    BY <1>3
  <2> SUFFICES ASSUME NEW n \in 1..Depth PROVE w[n] = next(n)
    OBVIOUS
  <2> HIDE DEF next
  <2>2. n \in 0..Depth /\ n # 0
    BY <1>0
  <2> QED BY <2>1, <2>2
<1> QED BY <1>4, <1>5 DEF w

-----------------------------------------------------------------------------
(* The sides of cubes, and the octants of a cube.                          *)

\* Sides are positive, and double from level to level.
LEMMA SidesAre ==
  /\ \A n \in 0..Depth : SideAt[n] \in Nat /\ SideAt[n] > 0
  /\ \A n \in 1..Depth : SideAt[n] = 2 * SideAt[n - 1]
<1> DEFINE bad == {m \in 0..Depth : ~(SideAt[m] \in Nat /\ SideAt[m] > 0)}
<1>0. Depth \in Nat
  BY ArenaAssumption
<1>1. \A n \in 1..Depth : SideAt[n] = 2 * SideAt[n - 1]
  BY SideAtUnfolds
<1>2. ASSUME bad # {} PROVE FALSE
  <2>1. bad \in SUBSET Nat
    BY <1>0
  <2>2. PICK m \in bad : \A j \in bad : m <= j
    <3> HIDE DEF bad
    <3> QED BY <1>2, <2>1, LeastNumber
  <2>3. m # 0
    BY <2>2, SideAtUnfolds
  <2>4. m \in 1..Depth /\ m - 1 \in 0..Depth /\ m - 1 \notin bad
    BY <1>0, <2>2, <2>3
  <2>5. SideAt[m - 1] \in Nat /\ SideAt[m - 1] > 0
    BY <2>4
  <2>6. SideAt[m] = 2 * SideAt[m - 1]
    BY <1>1, <2>4
  <2>7. SideAt[m] \in Nat /\ SideAt[m] > 0
    BY <2>5, <2>6
  <2> QED BY <2>2, <2>7
<1> QED BY <1>1, <1>2

\* The bit of a coordinate says which half of a cube it is in, the rest of it
\* where in that half.
LEMMA Halved ==
  ASSUME NEW h \in Nat, h > 0, NEW x \in Nat, x < 2 * h
  PROVE  /\ Bit(x, h) = IF x < h THEN 0 ELSE 1
         /\ x % h = IF x < h THEN x ELSE x - h
<1> DEFINE q == x \div h
           r == x % h
           hq == h * q
<1>1. q \in Int /\ r \in 0..(h - 1) /\ x = hq + r
  OBVIOUS
<1>2. /\ q = 0 => hq = 0
      /\ q = 1 => hq = h
  BY <1>1
<1>3. q >= 2 => hq >= 2 * h
  <2> SUFFICES ASSUME q >= 2 PROVE hq >= 2 * h
    OBVIOUS
  <2>1. h * (q - 2) >= 0
    BY <1>1
  <2> QED BY <1>1, <2>1
<1>4. q <= -1 => hq <= -h
  <2> SUFFICES ASSUME q <= -1 PROVE hq <= -h
    OBVIOUS
  <2>1. h * (-1 - q) >= 0
    BY <1>1
  <2> QED BY <1>1, <2>1
<1>5. hq \in Int
  BY <1>1
<1> HIDE DEF q, r, hq
<1>6. /\ q = IF x < h THEN 0 ELSE 1
      /\ r = IF x < h THEN x ELSE x - h
  BY <1>1, <1>2, <1>3, <1>4, <1>5
<1>7. Bit(x, h) = q % 2
  BY DEF Bit, q
<1>8. q % 2 = q
  BY <1>6
<1> QED BY <1>6, <1>7, <1>8 DEF r

\* The cubes that lie within the octree's.
Fitting == {c \in Cubes : \A i \in 1..3 : c.origin[i] + SideAt[c.level] <= Edge}

\* A place, seen from a cube's origin.
SeenFrom(p, c) == <<p[1] - c.origin[1], p[2] - c.origin[2], p[3] - c.origin[3]>>

\* What a cube within the octree's is made of.
LEMMA CubesAre ==
  ASSUME NEW c \in Fitting
  PROVE  /\ c = CubeAt(c.origin, c.level)
         /\ c.origin \in Space /\ c.level \in 0..Depth
         /\ c.origin = <<c.origin[1], c.origin[2], c.origin[3]>>
         /\ \A i \in 1..3 : /\ c.origin[i] \in Nat
                            /\ c.origin[i] + SideAt[c.level] <= Edge
<1>1. PICK o \in Space, n \in 0..Depth : c = CubeAt(o, n)
  BY DEF Fitting, Cubes
<1>2. c.origin = o /\ c.level = n
  BY <1>1 DEF CubeAt
<1>3. /\ o = <<o[1], o[2], o[3]>>
      /\ o[1] \in Nat /\ o[2] \in Nat /\ o[3] \in Nat
  BY <1>1 DEF Space
<1>4. \A i \in 1..3 : o[i] \in Nat
  <2> TAKE i \in 1..3
  <2>1. i = 1 \/ i = 2 \/ i = 3
    OBVIOUS
  <2> QED BY <1>3, <2>1
<1> QED BY <1>1, <1>2, <1>3, <1>4 DEF Fitting

\* The octree's own cube holds every place, at the coordinates it has.
LEMMA WholeFits ==
  /\ Edge \in Nat /\ Edge > 0
  /\ Whole \in Fitting /\ Whole.level = Depth
  /\ \A p \in Space : InCube(p, Whole) /\ SeenFrom(p, Whole) = p
<1>0. Depth \in Nat
  BY ArenaAssumption
<1>1. Edge \in Nat /\ Edge > 0
  BY <1>0, SidesAre DEF Edge
<1>2. <<0, 0, 0>> \in Space
  BY <1>1 DEF Space
<1>3. Whole \in Cubes
  BY <1>0, <1>2 DEF Whole, Cubes
<1>4. Whole.level = Depth /\ Whole.origin = <<0, 0, 0>>
  BY DEF Whole, CubeAt
<1>5. SideAt[Whole.level] = Edge
  BY <1>4 DEF Edge
<1> DEFINE o == Whole.origin
<1>6. \A i \in 1..3 : o[i] = 0
  BY <1>4
<1>7. Whole \in Fitting
  BY <1>1, <1>3, <1>5, <1>6 DEF Fitting
<1>8. ASSUME NEW p \in Space PROVE InCube(p, Whole) /\ SeenFrom(p, Whole) = p
  <2>1. /\ p[1] \in 0..(Edge - 1) /\ p[2] \in 0..(Edge - 1) /\ p[3] \in 0..(Edge - 1)
        /\ p = <<p[1], p[2], p[3]>>
    BY <1>8 DEF Space
  <2>2. \A i \in 1..3 : p[i] \in 0..(Edge - 1)
    <3> TAKE i \in 1..3
    <3>1. i = 1 \/ i = 2 \/ i = 3
      OBVIOUS
    <3> QED BY <2>1, <3>1
  <2>3. InCube(p, Whole)
    BY <1>1, <1>5, <1>6, <2>2 DEF InCube
  <2>4. /\ p[1] - 0 = p[1] /\ p[2] - 0 = p[2] /\ p[3] - 0 = p[3]
    BY <1>1, <2>1
  <2>5. SeenFrom(p, Whole) = <<p[1], p[2], p[3]>>
    BY <1>6, <2>4 DEF SeenFrom
  <2> QED BY <2>1, <2>3, <2>5
<1> QED BY <1>1, <1>4, <1>7, <1>8

\* The number of an octant and its three bits determine each other.
LEMMA Digits ==
  /\ \A k \in 0..7 : /\ k % 2 \in 0..1 /\ (k \div 2) % 2 \in 0..1 /\ k \div 4 \in 0..1
                     /\ k = (k % 2) + 2 * ((k \div 2) % 2) + 4 * (k \div 4)
  /\ \A x, y, z \in 0..1 : LET k == x + 2 * y + 4 * z
                           IN  k \in 0..7 /\ k % 2 = x /\ (k \div 2) % 2 = y /\ k \div 4 = z
<1>1. ASSUME NEW k \in 0..7
      PROVE  /\ k % 2 \in 0..1 /\ (k \div 2) % 2 \in 0..1 /\ k \div 4 \in 0..1
             /\ k = (k % 2) + 2 * ((k \div 2) % 2) + 4 * (k \div 4)
  <2>1. k = 0 \/ k = 1 \/ k = 2 \/ k = 3 \/ k = 4 \/ k = 5 \/ k = 6 \/ k = 7
    OBVIOUS
  <2> QED BY <2>1
<1>2. ASSUME NEW x \in 0..1, NEW y \in 0..1, NEW z \in 0..1
      PROVE  LET k == x + 2 * y + 4 * z
             IN  k \in 0..7 /\ k % 2 = x /\ (k \div 2) % 2 = y /\ k \div 4 = z
  <2>1. (x = 0 \/ x = 1) /\ (y = 0 \/ y = 1) /\ (z = 0 \/ z = 1)
    OBVIOUS
  <2> QED BY <2>1
<1> QED BY <1>1, <1>2

\* The origin and the side of an octant.
LEMMA OctantIs ==
  ASSUME NEW c \in Fitting, c.level > 0, NEW k \in 0..7
  PROVE  LET h == SideAt[c.level - 1]
         IN  /\ h \in Nat /\ h > 0 /\ SideAt[c.level] = 2 * h
             /\ Octant(c, k).origin =
                  <<c.origin[1] + (k % 2) * h, c.origin[2] + ((k \div 2) % 2) * h,
                    c.origin[3] + (k \div 4) * h>>
             /\ Octant(c, k).level = c.level - 1
             /\ Octant(c, k) \in Fitting
             /\ \A p \in Space : InCube(p, Octant(c, k)) => InCube(p, c)
<1> DEFINE h == SideAt[c.level - 1]
           d == Octant(c, k)
           x == (k % 2) * h
           y == ((k \div 2) % 2) * h
           z == (k \div 4) * h
           a == c.origin[1]
           b == c.origin[2]
           e == c.origin[3]
<1>0. Depth \in Nat
  BY ArenaAssumption
<1>1. c.level \in 0..Depth /\ c.level - 1 \in 0..Depth /\ c.level \in 1..Depth
  BY <1>0, CubesAre
<1>2. h \in Nat /\ h > 0 /\ SideAt[c.level] = 2 * h
  BY <1>1, SidesAre
<1>3. d.origin = <<a + x, b + y, e + z>> /\ d.level = c.level - 1
  BY DEF Octant, CubeAt
<1>4. x \in {0, h} /\ y \in {0, h} /\ z \in {0, h}
  <2>1. k % 2 \in {0, 1} /\ (k \div 2) % 2 \in {0, 1} /\ k \div 4 \in {0, 1}
    BY Digits
  <2>2. 0 * h = 0 /\ 1 * h = h
    BY <1>2
  <2> QED BY <2>1, <2>2
<1>5. /\ a \in Nat /\ a + 2 * h <= Edge
      /\ b \in Nat /\ b + 2 * h <= Edge
      /\ e \in Nat /\ e + 2 * h <= Edge
  BY <1>2, CubesAre
<1>6. Edge \in Nat
  BY WholeFits
<1> HIDE DEF x, y, z, a, b, e, h
<1>7. <<a + x, b + y, e + z>> \in Space
  BY <1>2, <1>4, <1>5, <1>6 DEF Space
<1>8. d \in Cubes
  <2>1. d = CubeAt(d.origin, c.level - 1)
    BY <1>3 DEF Octant, CubeAt, d
  <2> QED BY <1>1, <1>3, <1>7, <2>1 DEF Cubes
<1>9. d \in Fitting
  <2>1. \A i \in 1..3 : d.origin[i] + h <= Edge
    <3> TAKE i \in 1..3
    <3>1. i = 1 \/ i = 2 \/ i = 3
      OBVIOUS
    <3>2. d.origin[1] + h <= Edge /\ d.origin[2] + h <= Edge /\ d.origin[3] + h <= Edge
      BY <1>2, <1>3, <1>4, <1>5, <1>6
    <3> QED BY <3>1, <3>2
  <2>2. SideAt[d.level] = h
    BY <1>3 DEF h
  <2> QED BY <1>8, <2>1, <2>2 DEF Fitting
<1>10. ASSUME NEW p \in Space, InCube(p, d) PROVE InCube(p, c)
  <2>1. p[1] \in Nat /\ p[2] \in Nat /\ p[3] \in Nat
    BY <1>6 DEF Space
  <2>2. SideAt[d.level] = h
    BY <1>3 DEF h
  <2>3. \A i \in 1..3 : d.origin[i] <= p[i] /\ p[i] < d.origin[i] + h
    BY <1>10, <2>2 DEF InCube
  <2>4. /\ a + x <= p[1] /\ p[1] < a + x + h
        /\ b + y <= p[2] /\ p[2] < b + y + h
        /\ e + z <= p[3] /\ p[3] < e + z + h
    BY <1>3, <2>3
  <2>5. /\ a <= p[1] /\ p[1] < a + 2 * h
        /\ b <= p[2] /\ p[2] < b + 2 * h
        /\ e <= p[3] /\ p[3] < e + 2 * h
    BY <1>2, <1>4, <1>5, <2>1, <2>4
  <2>6. \A i \in 1..3 : c.origin[i] <= p[i] /\ p[i] < c.origin[i] + 2 * h
    <3> TAKE i \in 1..3
    <3>1. i = 1 \/ i = 2 \/ i = 3
      OBVIOUS
    <3> QED BY <2>5, <3>1 DEF a, b, e
  <2> QED BY <1>2, <2>6 DEF InCube
<1> QED BY <1>2, <1>3, <1>9, <1>10 DEF h, x, y, z, a, b, e

\* Every place of a cube is in one octant, where the halves of its coordinates say.
LEMMA OctantHolds ==
  ASSUME NEW c \in Fitting, c.level > 0, NEW p \in Space, InCube(p, c)
  PROVE  LET q == SeenFrom(p, c)
             h == SideAt[c.level - 1]
             k == OctantOf(q, h)
         IN  /\ q \in Space /\ k \in 0..7
             /\ InCube(p, Octant(c, k))
             /\ Within(q, h) = SeenFrom(p, Octant(c, k))
             /\ \A j \in 0..7 : InCube(p, Octant(c, j)) => j = k
<1> DEFINE h == SideAt[c.level - 1]
           a == c.origin[1]
           b == c.origin[2]
           e == c.origin[3]
           u == p[1] - a
           v == p[2] - b
           w == p[3] - e
           q == SeenFrom(p, c)
           k == OctantOf(q, h)
           x == Bit(u, h)
           y == Bit(v, h)
           z == Bit(w, h)
<1>0. 0 \in 0..7
  OBVIOUS
<1>1. h \in Nat /\ h > 0 /\ SideAt[c.level] = 2 * h
  BY <1>0, OctantIs
<1>2. Edge \in Nat
  BY WholeFits
<1>3. /\ a \in Nat /\ a + 2 * h <= Edge
      /\ b \in Nat /\ b + 2 * h <= Edge
      /\ e \in Nat /\ e + 2 * h <= Edge
  BY <1>1, CubesAre
<1>4. p[1] \in Nat /\ p[2] \in Nat /\ p[3] \in Nat
  BY <1>2 DEF Space
<1>5. /\ a <= p[1] /\ p[1] < a + 2 * h
      /\ b <= p[2] /\ p[2] < b + 2 * h
      /\ e <= p[3] /\ p[3] < e + 2 * h
  <2>1. \A i \in 1..3 : c.origin[i] <= p[i] /\ p[i] < c.origin[i] + 2 * h
    BY <1>1 DEF InCube
  <2> QED BY <2>1
<1>6. q = <<u, v, w>>
  BY DEF SeenFrom
<1>7. /\ u \in Nat /\ u < 2 * h /\ v \in Nat /\ v < 2 * h /\ w \in Nat /\ w < 2 * h
  <2> HIDE DEF h, a, b, e
  <2> QED BY <1>1, <1>3, <1>4, <1>5
<1>8. q \in Space
  <2>1. u \in 0..(Edge - 1) /\ v \in 0..(Edge - 1) /\ w \in 0..(Edge - 1)
    <3> HIDE DEF h, a, b, e, u, v, w
    <3> QED BY <1>1, <1>2, <1>3, <1>7
  <2> QED BY <1>6, <2>1 DEF Space
<1>9. /\ x = (IF u < h THEN 0 ELSE 1) /\ u % h = (IF u < h THEN u ELSE u - h)
      /\ y = (IF v < h THEN 0 ELSE 1) /\ v % h = (IF v < h THEN v ELSE v - h)
      /\ z = (IF w < h THEN 0 ELSE 1) /\ w % h = (IF w < h THEN w ELSE w - h)
  <2> HIDE DEF h, u, v, w
  <2> QED BY <1>1, <1>7, Halved
<1>10. k = x + 2 * y + 4 * z
  BY <1>6 DEF OctantOf
<1>11. x \in 0..1 /\ y \in 0..1 /\ z \in 0..1
  <2> HIDE DEF h, u, v, w, x, y, z
  <2> QED BY <1>9
<1>12. k \in 0..7 /\ k % 2 = x /\ (k \div 2) % 2 = y /\ k \div 4 = z
  <2> HIDE DEF h, u, v, w, x, y, z, k
  <2> QED BY <1>10, <1>11, Digits
<1> DEFINE InOct(j) ==
      /\ a + (j % 2) * h <= p[1] /\ p[1] < a + (j % 2) * h + h
      /\ b + ((j \div 2) % 2) * h <= p[2] /\ p[2] < b + ((j \div 2) % 2) * h + h
      /\ e + (j \div 4) * h <= p[3] /\ p[3] < e + (j \div 4) * h + h
<1>13. ASSUME NEW j \in 0..7 PROVE InCube(p, Octant(c, j)) <=> InOct(j)
  <2> DEFINE d == Octant(c, j)
             x1 == (j % 2) * h
             y1 == ((j \div 2) % 2) * h
             z1 == (j \div 4) * h
  <2>1. d.origin = <<a + x1, b + y1, e + z1>> /\ SideAt[d.level] = h
    BY OctantIs
  <2> HIDE DEF d, x1, y1, z1, a, b, e, h
  <2>2. InCube(p, d) <=> \A i \in 1..3 : d.origin[i] <= p[i] /\ p[i] < d.origin[i] + h
    BY <2>1 DEF InCube
  <2>3. (\A i \in 1..3 : d.origin[i] <= p[i] /\ p[i] < d.origin[i] + h)
          <=> /\ d.origin[1] <= p[1] /\ p[1] < d.origin[1] + h
              /\ d.origin[2] <= p[2] /\ p[2] < d.origin[2] + h
              /\ d.origin[3] <= p[3] /\ p[3] < d.origin[3] + h
    <3>1. 1..3 = {1, 2, 3}
      OBVIOUS
    <3> QED BY <3>1
  <2>4. d.origin[1] = a + x1 /\ d.origin[2] = b + y1 /\ d.origin[3] = e + z1
    BY <2>1
  <2> QED BY <2>2, <2>3, <2>4 DEF d, x1, y1, z1
<1>14. ASSUME NEW j \in 0..7
       PROVE  InOct(j) <=> j = k
  <2> DEFINE x2 == j % 2
             y2 == (j \div 2) % 2
             z2 == j \div 4
             xh == x2 * h
             yh == y2 * h
             zh == z2 * h
  <2>1. /\ x2 \in {0, 1} /\ y2 \in {0, 1} /\ z2 \in {0, 1}
        /\ j = x2 + 2 * y2 + 4 * z2
    BY Digits
  <2>2. /\ (x2 = 0 => xh = 0) /\ (x2 = 1 => xh = h)
        /\ (y2 = 0 => yh = 0) /\ (y2 = 1 => yh = h)
        /\ (z2 = 0 => zh = 0) /\ (z2 = 1 => zh = h)
    <3> HIDE DEF x2, y2, z2
    <3> QED BY <1>1
  <2>3. InOct(j) <=> /\ a + xh <= p[1] /\ p[1] < a + xh + h
                     /\ b + yh <= p[2] /\ p[2] < b + yh + h
                     /\ e + zh <= p[3] /\ p[3] < e + zh + h
    OBVIOUS
  <2> HIDE DEF xh, yh, zh, x2, y2, z2, InOct
  <2> DEFINE P1 == p[1]
             P2 == p[2]
             P3 == p[3]
  <2>4. u = P1 - a /\ v = P2 - b /\ w = P3 - e
    OBVIOUS
  <2>5. P1 \in Nat /\ P2 \in Nat /\ P3 \in Nat /\ a \in Nat /\ b \in Nat /\ e \in Nat
    BY <1>3, <1>4
  <2>6. InOct(j) <=> /\ a + xh <= P1 /\ P1 < a + xh + h
                     /\ b + yh <= P2 /\ P2 < b + yh + h
                     /\ e + zh <= P3 /\ P3 < e + zh + h
    BY <2>3
  <2> HIDE DEF P1, P2, P3, u, v, w, a, b, e, h, x, y, z, k
  <2>7. (a + xh <= P1 /\ P1 < a + xh + h) <=> x2 = x
    BY <1>1, <1>7, <1>9, <2>1, <2>2, <2>4, <2>5
  <2>8. (b + yh <= P2 /\ P2 < b + yh + h) <=> y2 = y
    BY <1>1, <1>7, <1>9, <2>1, <2>2, <2>4, <2>5
  <2>9. (e + zh <= P3 /\ P3 < e + zh + h) <=> z2 = z
    BY <1>1, <1>7, <1>9, <2>1, <2>2, <2>4, <2>5
  <2>10. (x2 = x /\ y2 = y /\ z2 = z) <=> j = k
    BY <1>10, <1>12, <2>1 DEF x2, y2, z2
  <2> QED BY <2>6, <2>7, <2>8, <2>9, <2>10
<1>15. Within(q, h) = SeenFrom(p, Octant(c, k))
  <2> DEFINE d == Octant(c, k)
             xh == x * h
             yh == y * h
             zh == z * h
  <2>1. d.origin = <<a + xh, b + yh, e + zh>>
    <3>1. d.origin = <<a + (k % 2) * h, b + ((k \div 2) % 2) * h, e + (k \div 4) * h>>
      BY <1>12, OctantIs
    <3> HIDE DEF d, h, x, y, z, a, b, e, k
    <3> QED BY <1>12, <3>1
  <2>2. /\ xh = (IF u < h THEN 0 ELSE h)
        /\ yh = (IF v < h THEN 0 ELSE h)
        /\ zh = (IF w < h THEN 0 ELSE h)
    <3>1. 0 * h = 0 /\ 1 * h = h
      BY <1>1
    <3> HIDE DEF x, y, z, h, u, v, w
    <3> QED BY <1>9, <3>1
  <2>3. SeenFrom(p, d) = <<p[1] - (a + xh), p[2] - (b + yh), p[3] - (e + zh)>>
    <3> HIDE DEF d, a, b, e, xh, yh, zh
    <3> QED BY <2>1 DEF SeenFrom
  <2>4. Within(q, h) = <<u % h, v % h, w % h>>
    <3> HIDE DEF u, v, w, h, q
    <3> QED BY <1>6 DEF Within
  <2> DEFINE P1 == p[1]
             P2 == p[2]
             P3 == p[3]
  <2>5. u = P1 - a /\ v = P2 - b /\ w = P3 - e
    OBVIOUS
  <2>6. P1 \in Nat /\ P2 \in Nat /\ P3 \in Nat /\ a \in Nat /\ b \in Nat /\ e \in Nat
    BY <1>3, <1>4
  <2>7. /\ u % h = P1 - (a + xh) /\ v % h = P2 - (b + yh) /\ w % h = P3 - (e + zh)
    <3> HIDE DEF P1, P2, P3, u, v, w, a, b, e, h, xh, yh, zh, x, y, z
    <3> QED BY <1>1, <1>7, <1>9, <2>2, <2>5, <2>6
  <2> HIDE DEF d, u, v, w, h, q
  <2> QED BY <2>3, <2>4, <2>7 DEF d
<1>16. InCube(p, Octant(c, k)) /\ \A j \in 0..7 : InCube(p, Octant(c, j)) => j = k
  <2> HIDE DEF k, InOct
  <2> QED BY <1>12, <1>13, <1>14
<1> QED BY <1>8, <1>12, <1>15, <1>16

-----------------------------------------------------------------------------
(* An arena as a graph of nodes that stand for cubes.                      *)

\* All of a cube has these attributes.
Shows(sh, c, a) == \A p \in Space : InCube(p, c) => sh[p] = a

\* A child of a branch, and where it is.
Kid(arena, node, k) == arena[node.base + k + 1]
KidPlace(node, c, k) == <<node.base + k, Octant(c, k)>>

\* A node stands for its cube: a leaf for all of it, a branch by the nodes that
\* stand for its octants, of which those masked out are of air.
Right(arena, place, sh, node, c) ==
  /\ node \in SvoNodes
  /\ node.leaf => Shows(sh, c, node.of)
  /\ ~node.leaf =>
       /\ c.level > 0
       /\ \A k \in 0..7 : /\ KidPlace(node, c, k) \in place
                          /\ k \notin node.mask => Kid(arena, node, k) = Leaf(Air)

\* The nodes that are placed stand for the cubes they are placed at.
Graph(arena, place, sh) ==
  /\ arena \in Arenas /\ place \subseteq Nat \X Fitting
  /\ \A e \in place : e[1] < Len(arena) /\ Right(arena, place, sh, arena[e[1] + 1], e[2])

\* A branch has something to tell apart.
Compact(arena, node) == ~node.leaf => ~Uniform(KidsAt(arena, node.base))

\* Air is among the attributes, and without light or colour.
LEMMA AttributesAre ==
  /\ Air \in Attributes
  /\ \A a \in Attributes : a.kind = "air" => a = Air
<1> QED BY DEF Attributes, Air

\* A node is a leaf or a branch.
LEMMA NodesAre ==
  ASSUME NEW node \in SvoNodes
  PROVE  /\ node.leaf \in BOOLEAN
         /\ node.leaf => node = Leaf(node.of) /\ node.of \in Attributes
         /\ ~node.leaf => /\ node = Branch(node.base, node.mask)
                          /\ node.base \in Nat /\ node.mask \subseteq 0..7
<1>1. CASE node \in [leaf : {TRUE}, of : Attributes]
  BY <1>1 DEF Leaf
<1>2. CASE node \in [leaf : {FALSE}, base : Nat, mask : SUBSET (0..7)]
  BY <1>2 DEF Branch
<1> QED BY <1>1, <1>2 DEF SvoNodes

\* What the leaves and branches that are made consist of.
LEMMA MadeNodes ==
  /\ \A a \in Attributes : Leaf(a) \in SvoNodes /\ Leaf(a).leaf /\ Leaf(a).of = a
  /\ \A base \in Nat, mask \in SUBSET (0..7) :
       /\ Branch(base, mask) \in SvoNodes /\ ~Branch(base, mask).leaf
       /\ Branch(base, mask).base = base /\ Branch(base, mask).mask = mask
<1> QED BY DEF Leaf, Branch, SvoNodes

\* What is known of a node that is placed.
LEMMA PlacedIs ==
  ASSUME NEW arena, NEW place, NEW sh, Graph(arena, place, sh), NEW e \in place
  PROVE  /\ e[1] \in Nat /\ e[2] \in Fitting /\ e = <<e[1], e[2]>>
         /\ arena \in Seq(SvoNodes) /\ Len(arena) \in Nat
         /\ e[1] < Len(arena) /\ e[1] + 1 \in 1..Len(arena)
         /\ arena[e[1] + 1] \in SvoNodes
         /\ Right(arena, place, sh, arena[e[1] + 1], e[2])
<1>1. e \in Nat \X Fitting /\ arena \in Seq(SvoNodes)
  BY DEF Graph, Arenas
<1>2. e[1] \in Nat /\ e[2] \in Fitting /\ e = <<e[1], e[2]>>
  BY <1>1
<1>3. e[1] < Len(arena) /\ Right(arena, place, sh, arena[e[1] + 1], e[2])
  BY DEF Graph
<1>4. Len(arena) \in Nat
  BY <1>1
<1> HIDE DEF Right
<1>5. e[1] + 1 \in 1..Len(arena)
  BY <1>2, <1>3, <1>4
<1>6. arena[e[1] + 1] \in SvoNodes
  BY <1>1, <1>5
<1> QED BY <1>1, <1>2, <1>3, <1>4, <1>5, <1>6

\* What is known of the children of a branch that stands for a cube.
LEMMA KidIs ==
  ASSUME NEW arena, NEW place, NEW sh, Graph(arena, place, sh),
         NEW node, NEW c \in Fitting, Right(arena, place, sh, node, c), ~node.leaf,
         NEW k \in 0..7
  PROVE  /\ KidPlace(node, c, k) \in place
         /\ c.level \in 1..Depth /\ Octant(c, k).level = c.level - 1 /\ Octant(c, k) \in Fitting
         /\ node.base \in Nat /\ node.base + k < Len(arena)
         /\ Kid(arena, node, k) \in SvoNodes
         /\ Right(arena, place, sh, Kid(arena, node, k), Octant(c, k))
         /\ k \notin node.mask => Kid(arena, node, k) = Leaf(Air)
<1> DEFINE e == KidPlace(node, c, k)
<1>1. e \in place /\ c.level > 0 /\ (k \notin node.mask => Kid(arena, node, k) = Leaf(Air))
  BY DEF Right
<1>2. node.base \in Nat
  BY NodesAre DEF Right
<1>3. c.level \in 1..Depth
  BY <1>1, CubesAre, ArenaAssumption
<1>4. Octant(c, k).level = c.level - 1 /\ Octant(c, k) \in Fitting
  BY <1>1, OctantIs
<1>5. /\ e[1] < Len(arena) /\ arena[e[1] + 1] \in SvoNodes
      /\ Right(arena, place, sh, arena[e[1] + 1], e[2])
  BY ONLY <1>1, PlacedIs, Graph(arena, place, sh)
<1>6. e[1] = node.base + k /\ e[2] = Octant(c, k)
  BY DEF KidPlace
<1>7. arena[e[1] + 1] = Kid(arena, node, k)
  BY <1>2, <1>6 DEF Kid
<1> QED BY ONLY <1>1, <1>2, <1>3, <1>4, <1>5, <1>6, <1>7

-----------------------------------------------------------------------------
(* Look-ups in a graph find what its cubes show.                           *)

\* A place in a cube, seen from its origin, is a place.
LEMMA FromIs ==
  ASSUME NEW c \in Fitting, NEW p \in Space, InCube(p, c)
  PROVE  SeenFrom(p, c) \in Space
<1> DEFINE n == c.level
           q == SeenFrom(p, c)
<1>0. n \in 0..Depth /\ Depth \in Nat
  BY CubesAre, ArenaAssumption
<1>1. CASE n > 0
  BY <1>1, OctantHolds
<1>2. CASE n = 0
  <2>1. SideAt[n] = 1
    BY <1>2, SideAtUnfolds
  <2> DEFINE a == c.origin[1]
             b == c.origin[2]
             r == c.origin[3]
  <2>2. /\ a \in Nat /\ b \in Nat /\ r \in Nat
    BY CubesAre
  <2>3. /\ p[1] \in Nat /\ p[2] \in Nat /\ p[3] \in Nat /\ Edge \in Nat /\ Edge > 0
    BY WholeFits DEF Space
  <2>4. \A j \in 1..3 : c.origin[j] <= p[j] /\ p[j] < c.origin[j] + 1
    BY <2>1 DEF InCube
  <2>5. a <= p[1] /\ p[1] < a + 1 /\ b <= p[2] /\ p[2] < b + 1 /\ r <= p[3] /\ p[3] < r + 1
    BY <2>4
  <2>6. q = <<p[1] - a, p[2] - b, p[3] - r>>
    BY DEF SeenFrom
  <2> HIDE DEF a, b, r
  <2>7. p[1] - a = 0 /\ p[2] - b = 0 /\ p[3] - r = 0
    BY <2>2, <2>3, <2>5
  <2>8. q = <<0, 0, 0>>
    BY <2>6, <2>7
  <2> QED BY <2>3, <2>8 DEF Space
<1> QED BY <1>0, <1>1, <1>2

\* A look-up of a place from a node, in the cube the node is placed at.
LookedUp(arena, sh, e, p) == Look(arena)[e[2].level][e[1]][SeenFrom(p, e[2])] = sh[p]

\* From any node that is placed, a look-up in its cube finds what the cube shows,
\* through masks, shared blocks and leaves of any size (get_recursive()).
LEMMA LookIs ==
  ASSUME NEW arena, NEW place, NEW sh, Graph(arena, place, sh)
  PROVE  \A e \in place, p \in Space : InCube(p, e[2]) => LookedUp(arena, sh, e, p)
<1> DEFINE bad == {n \in 0..Depth : \E e \in place, p \in Space :
                     e[2].level = n /\ InCube(p, e[2]) /\ ~LookedUp(arena, sh, e, p)}
<1>0. Depth \in Nat
  BY ArenaAssumption
<1>1. ASSUME bad # {} PROVE FALSE
  <2>1. bad \in SUBSET Nat
    BY <1>0
  <2>2. PICK n \in bad : \A j \in bad : n <= j
    <3> HIDE DEF bad
    <3> QED BY <1>1, <2>1, LeastNumber
  <2>3. PICK e \in place, p \in Space : e[2].level = n /\ InCube(p, e[2]) /\ ~LookedUp(arena, sh, e, p)
    BY <2>2
  <2>4. \A d \in place : d[2].level \in 0..Depth /\ d[2].level < n /\ InCube(p, d[2]) => LookedUp(arena, sh, d, p)
    <3> SUFFICES ASSUME NEW d \in place, d[2].level \in 0..Depth, d[2].level < n, InCube(p, d[2]),
                        ~LookedUp(arena, sh, d, p)
                 PROVE  FALSE
      OBVIOUS
    <3>1. d[2].level \in bad
      OBVIOUS
    <3> HIDE DEF bad
    <3> QED BY <1>0, <2>1, <2>2, <3>1
  <2> HIDE DEF bad
  <2> DEFINE i == e[1]
             c == e[2]
             node == arena[i + 1]
             h == SideAt[n - 1]
             q == SeenFrom(p, c)
             k == OctantOf(q, h)
  <2>5. /\ i \in Nat /\ c \in Fitting /\ i < Len(arena)
        /\ Right(arena, place, sh, node, c)
    BY ONLY <2>3, PlacedIs, Graph(arena, place, sh)
  <2>6. c.level = n /\ n \in 0..Depth
    BY <2>3, <2>5, CubesAre
  <2>7. q \in Space
    BY <2>3, <2>5, FromIs
  <2>8. Len(arena) \in Nat
    BY ONLY <2>3, PlacedIs, Graph(arena, place, sh)
  <2>9. CASE n = 0
    <3>1. node.leaf
      BY <2>5, <2>6, <2>9 DEF Right
    <3>2. node.of = sh[p]
      BY <2>3, <2>5, <3>1 DEF Right, Shows
    <3>3. Look(arena)[n] = LookVoxel(arena)
      BY <2>9, LookUnfolds
    <3> HIDE DEF q
    <3>4. LookVoxel(arena)[i][q] = node.of
      BY <2>5, <2>7, <3>1 DEF LookVoxel
    <3> QED BY <2>3, <2>6, <3>2, <3>3, <3>4 DEF LookedUp, q
  <2>10. CASE n # 0
    <3>1. n \in 1..Depth
      BY <1>0, <2>6, <2>10
    <3>2. Look(arena)[n] = LookCube(arena, n, Look(arena)[n - 1])
      BY <3>1, LookUnfolds
    <3>3. Look(arena)[n][i][q] =
            IF node.leaf THEN node.of
            ELSE IF k \notin node.mask THEN Air
            ELSE Look(arena)[n - 1][node.base + k][Within(q, h)]
      <4> DEFINE look == Look(arena)[n - 1]
      <4> HIDE DEF look
      <4>1. LookCube(arena, n, look)[i][q] =
            IF node.leaf THEN node.of
            ELSE IF k \notin node.mask THEN Air
            ELSE look[node.base + k][Within(q, h)]
        <5> HIDE DEF q
        <5> QED BY <2>5, <2>7, <2>8 DEF LookCube
      <4> QED BY <3>2, <4>1 DEF look
    <3>4. CASE node.leaf
      <4>1. node.of = sh[p]
        BY <2>3, <2>5, <3>4 DEF Right, Shows
      <4> QED BY <2>3, <2>6, <3>3, <3>4, <4>1 DEF LookedUp
    <3>5. CASE ~node.leaf
      <4> DEFINE d == KidPlace(node, c, k)
      <4>1. /\ k \in 0..7 /\ InCube(p, Octant(c, k)) /\ Within(q, h) = SeenFrom(p, Octant(c, k))
        BY <2>3, <2>5, <2>6, <3>1, OctantHolds
      <4>2. /\ d \in place /\ Octant(c, k).level = n - 1
            /\ Right(arena, place, sh, Kid(arena, node, k), Octant(c, k))
            /\ k \notin node.mask => Kid(arena, node, k) = Leaf(Air)
        <5> HIDE DEF k, c, node
        <5>1. /\ KidPlace(node, c, k) \in place /\ Octant(c, k).level = c.level - 1
              /\ Right(arena, place, sh, Kid(arena, node, k), Octant(c, k))
              /\ k \notin node.mask => Kid(arena, node, k) = Leaf(Air)
          BY ONLY <2>5, <3>5, <4>1, KidIs, Graph(arena, place, sh)
        <5> QED BY <2>6, <5>1
      <4>3. CASE k \notin node.mask
        <5>1. sh[p] = Air
          BY <4>1, <4>2, <4>3 DEF Right, Shows, Leaf
        <5> QED BY <2>3, <2>6, <3>3, <3>5, <4>3, <5>1 DEF LookedUp
      <4>4. CASE k \in node.mask
        <5>1. d[1] = node.base + k /\ d[2] = Octant(c, k)
          BY DEF KidPlace
        <5>2. n - 1 \in 0..Depth /\ n - 1 < n
          BY <1>0, <3>1
        <5> HIDE DEF d, k, q, h, node
        <5>3. LookedUp(arena, sh, d, p)
          BY <2>4, <4>1, <4>2, <5>1, <5>2
        <5>4. Look(arena)[n - 1][node.base + k][Within(q, h)] = sh[p]
          BY <4>1, <4>2, <5>1, <5>3 DEF LookedUp
        <5> QED BY <2>3, <2>6, <3>3, <3>5, <4>4, <5>4 DEF LookedUp, q
      <4> QED BY <4>3, <4>4
    <3> QED BY <3>4, <3>5
  <2> QED BY <2>9, <2>10
<1>2. ASSUME NEW e \in place, NEW p \in Space, InCube(p, e[2]) PROVE LookedUp(arena, sh, e, p)
  <2>1. e[2].level \in 0..Depth
    BY ONLY PlacedIs, CubesAre, Graph(arena, place, sh), e \in place
  <2> QED BY <1>1, <1>2, <2>1
<1> QED BY <1>2

-----------------------------------------------------------------------------
(* The walk of a graph: each solid place is in one box, no other in any.   *)

\* A place is in exactly one box, or in none; boxes keep within a cube.
Once(boxes, p) == \E b \in boxes : InCube(p, b) /\ \A d \in boxes : InCube(p, d) => d = b
Never(boxes, p) == \A b \in boxes : ~InCube(p, b)
Kept(boxes, c) == \A b \in boxes, p \in Space : InCube(p, b) => InCube(p, c)
Boxes(arena, e) == Walk(arena)[e[2].level][e[1]][e[2].origin]
Covered(boxes, sh, p) == IF sh[p].kind \in SolidKinds THEN Once(boxes, p) ELSE Never(boxes, p)
\* The walk from a node covers the solid places of its cube.
Walked(arena, sh, e) ==
  /\ Kept(Boxes(arena, e), e[2])
  /\ \A p \in Space : InCube(p, e[2]) => Covered(Boxes(arena, e), sh, p)

\* The box of a leaf is its cube.
LEMMA LeafWalked ==
  ASSUME NEW sh, NEW c, NEW a, Shows(sh, c, a), NEW boxes, boxes = Boxed(a, c)
  PROVE  Kept(boxes, c) /\ \A p \in Space : InCube(p, c) => Covered(boxes, sh, p)
<1>1. CASE a.kind \in SolidKinds
  <2>1. boxes = {c}
    BY <1>1 DEF Boxed
  <2> QED BY <1>1, <2>1 DEF Kept, Covered, Once, Shows
<1>2. CASE a.kind \notin SolidKinds
  <2>1. boxes = {}
    BY <1>2 DEF Boxed
  <2> QED BY <1>2, <2>1 DEF Kept, Covered, Never, Shows
<1> QED BY <1>1, <1>2

\* The boxes of a branch are those of its octants that are not masked out.
OctantsWalked(sh, c, mask, Of, boxes) ==
  /\ mask \in SUBSET (0..7)
  /\ \A k \in mask : Kept(Of[k], Octant(c, k))
  /\ \A k \in mask, p \in Space : InCube(p, Octant(c, k)) => Covered(Of[k], sh, p)
  /\ \A k \in (0..7) \ mask : Shows(sh, Octant(c, k), Air)
  /\ boxes = UNION {Of[k] : k \in mask}

\* The boxes of the octants are a cover of the cube: none is shared between two,
\* and what is masked out is not solid.
LEMMA BranchWalked ==
  ASSUME NEW sh, NEW c \in Fitting, c.level > 0, NEW mask, NEW Of, NEW boxes,
         OctantsWalked(sh, c, mask, Of, boxes)
  PROVE  Kept(boxes, c) /\ \A p \in Space : InCube(p, c) => Covered(boxes, sh, p)
<1>0. /\ mask \in SUBSET (0..7)
      /\ \A k \in mask : Kept(Of[k], Octant(c, k))
      /\ \A k \in mask, p \in Space : InCube(p, Octant(c, k)) => Covered(Of[k], sh, p)
      /\ \A k \in (0..7) \ mask : Shows(sh, Octant(c, k), Air)
  BY DEF OctantsWalked
<1>1. \A b : b \in boxes <=> \E k \in mask : b \in Of[k]
  BY DEF OctantsWalked
<1>2. \A k \in 0..7, p \in Space : InCube(p, Octant(c, k)) => InCube(p, c)
  BY OctantIs
<1>3. Kept(boxes, c)
  BY <1>0, <1>1, <1>2 DEF Kept
<1>4. ASSUME NEW p \in Space, InCube(p, c) PROVE Covered(boxes, sh, p)
  <2>1. PICK k \in 0..7 : InCube(p, Octant(c, k)) /\ \A j \in 0..7 : InCube(p, Octant(c, j)) => j = k
    <3> DEFINE q == SeenFrom(p, c)
               h == SideAt[c.level - 1]
               m == OctantOf(q, h)
    <3>1. m \in 0..7 /\ InCube(p, Octant(c, m)) /\ \A j \in 0..7 : InCube(p, Octant(c, j)) => j = m
      BY <1>4, OctantHolds
    <3> HIDE DEF m
    <3> QED BY <3>1
  <2>2. \A b \in boxes : InCube(p, b) => k \in mask /\ b \in Of[k]
    <3> SUFFICES ASSUME NEW b \in boxes, InCube(p, b) PROVE k \in mask /\ b \in Of[k]
      OBVIOUS
    <3>1. PICK j \in mask : b \in Of[j]
      BY <1>1
    <3>2. InCube(p, Octant(c, j))
      BY <1>0, <3>1 DEF Kept
    <3> QED BY <1>0, <2>1, <3>1, <3>2
  <2>3. CASE k \notin mask
    <3>1. sh[p] = Air
      BY <1>0, <2>1, <2>3 DEF Shows
    <3>2. sh[p].kind \notin SolidKinds
      BY <3>1 DEF Air, SolidKinds
    <3> QED BY <2>2, <2>3, <3>2 DEF Covered, Never
  <2>4. CASE k \in mask
    <3>1. Covered(Of[k], sh, p)
      BY <1>0, <2>1, <2>4
    <3>2. \A b : b \in Of[k] => b \in boxes
      BY <1>1, <2>4
    <3>3. Once(Of[k], p) => Once(boxes, p)
      BY <2>2, <3>2 DEF Once
    <3>4. Never(Of[k], p) => Never(boxes, p)
      BY <2>2, <3>2 DEF Never
    <3> QED BY <3>1, <3>3, <3>4 DEF Covered
  <2> QED BY <2>3, <2>4
<1> QED BY <1>3, <1>4

\* From any node that is placed, the walk puts each solid place of its cube in
\* exactly one box and no other place in any (extract_collision_boxes()).
LEMMA WalkIs ==
  ASSUME NEW arena, NEW place, NEW sh, Graph(arena, place, sh)
  PROVE  \A e \in place : Walked(arena, sh, e)
<1> DEFINE bad == {n \in 0..Depth : \E e \in place : e[2].level = n /\ ~Walked(arena, sh, e)}
<1>0. Depth \in Nat
  BY ArenaAssumption
<1>1. ASSUME bad # {} PROVE FALSE
  <2>1. bad \in SUBSET Nat
    BY <1>0
  <2>2. PICK n \in bad : \A j \in bad : n <= j
    <3> HIDE DEF bad
    <3> QED BY <1>1, <2>1, LeastNumber
  <2>3. PICK e \in place : e[2].level = n /\ ~Walked(arena, sh, e)
    BY <2>2
  <2>4. \A d \in place : d[2].level \in 0..Depth /\ d[2].level < n => Walked(arena, sh, d)
    <3> SUFFICES ASSUME NEW d \in place, d[2].level \in 0..Depth, d[2].level < n, ~Walked(arena, sh, d)
                 PROVE  FALSE
      OBVIOUS
    <3>1. d[2].level \in bad
      OBVIOUS
    <3> HIDE DEF bad
    <3> QED BY <1>0, <2>1, <2>2, <3>1
  <2> HIDE DEF bad
  <2> DEFINE i == e[1]
             c == e[2]
             o == c.origin
             node == arena[i + 1]
             boxes == Boxes(arena, e)
  <2>5. i \in Nat /\ c \in Fitting /\ Right(arena, place, sh, node, c)
    BY ONLY <2>3, PlacedIs, Graph(arena, place, sh)
  <2>6. /\ c.level = n /\ n \in 0..Depth /\ o \in Space /\ c = CubeAt(o, n)
    BY <2>3, <2>5, CubesAre
  <2>7. CASE n = 0
    <3>1. node.leaf
      BY <2>5, <2>6, <2>7 DEF Right
    <3>2. Shows(sh, c, node.of)
      BY <2>5, <3>1 DEF Right
    <3>3. Walk(arena)[n] = WalkVoxel(arena)
      BY <2>7, WalkUnfolds
    <3>4. WalkVoxel(arena)[i][o] = Boxed(node.of, CubeAt(o, 0))
      <4> HIDE DEF o
      <4> QED BY <2>5, <2>6, <3>1 DEF WalkVoxel
    <3>5. boxes = Boxed(node.of, c)
      BY <2>6, <2>7, <3>3, <3>4 DEF Boxes
    <3> HIDE DEF boxes, c, node
    <3>6. Kept(boxes, c) /\ \A p \in Space : InCube(p, c) => Covered(boxes, sh, p)
      BY ONLY <3>2, <3>5, LeafWalked
    <3> QED BY <2>3, <3>6 DEF Walked, boxes, c
  <2>8. CASE n # 0
    <3>1. n \in 1..Depth
      BY <1>0, <2>6, <2>8
    <3>2. Walk(arena)[n] = WalkCube(arena, n, Walk(arena)[n - 1])
      BY <3>1, WalkUnfolds
    <3> DEFINE walk == Walk(arena)[n - 1]
    <3>3. boxes = IF node.leaf THEN Boxed(node.of, c)
                  ELSE UNION {walk[node.base + k][Octant(c, k).origin] : k \in node.mask}
      <4> HIDE DEF walk
      <4>1. WalkCube(arena, n, walk)[i][o] =
              IF node.leaf THEN Boxed(node.of, CubeAt(o, n))
              ELSE UNION {walk[node.base + k][Octant(CubeAt(o, n), k).origin] : k \in node.mask}
        <5> HIDE DEF o
        <5> QED BY <2>5, <2>6 DEF WalkCube
      <4>2. boxes = WalkCube(arena, n, walk)[i][o]
        BY <2>6, <3>2 DEF Boxes, walk
      <4> HIDE DEF node, boxes
      <4> QED BY <2>6, <4>1, <4>2
    <3>4. CASE node.leaf
      <4>1. Shows(sh, c, node.of)
        BY <2>5, <3>4 DEF Right
      <4>2. boxes = Boxed(node.of, c)
        BY <3>3, <3>4
      <4> HIDE DEF boxes, c, node
      <4>3. Kept(boxes, c) /\ \A p \in Space : InCube(p, c) => Covered(boxes, sh, p)
        BY ONLY <4>1, <4>2, LeafWalked
      <4> QED BY <2>3, <4>3 DEF Walked, boxes, c
    <3>5. CASE ~node.leaf
      <4> DEFINE Of == [k \in node.mask |-> walk[node.base + k][Octant(c, k).origin]]
      <4>1. node.mask \in SUBSET (0..7)
        BY <2>5, <3>5, NodesAre DEF Right
      <4>2. boxes = UNION {Of[k] : k \in node.mask}
        <5> HIDE DEF walk, node, c, boxes
        <5>1. \A k \in node.mask : Of[k] = walk[node.base + k][Octant(c, k).origin]
          OBVIOUS
        <5> HIDE DEF Of
        <5> QED BY <3>3, <3>5, <5>1
      <4>3. ASSUME NEW k \in 0..7
            PROVE  /\ KidPlace(node, c, k) \in place /\ Octant(c, k).level = n - 1
                   /\ Right(arena, place, sh, Kid(arena, node, k), Octant(c, k))
                   /\ k \notin node.mask => Kid(arena, node, k) = Leaf(Air)
        <5> HIDE DEF node, c
        <5>1. /\ KidPlace(node, c, k) \in place /\ Octant(c, k).level = c.level - 1
              /\ Right(arena, place, sh, Kid(arena, node, k), Octant(c, k))
              /\ k \notin node.mask => Kid(arena, node, k) = Leaf(Air)
          BY ONLY <2>5, <3>5, KidIs, Graph(arena, place, sh), k \in 0..7
        <5> QED BY <2>6, <5>1
      <4>4. ASSUME NEW k \in node.mask
            PROVE  Kept(Of[k], Octant(c, k)) /\ \A p \in Space : InCube(p, Octant(c, k)) => Covered(Of[k], sh, p)
        <5> DEFINE d == KidPlace(node, c, k)
        <5>1. d[1] = node.base + k /\ d[2] = Octant(c, k)
          BY DEF KidPlace
        <5>2. n - 1 \in 0..Depth /\ n - 1 < n
          BY <1>0, <3>1
        <5>3. k \in 0..7
          BY <4>1
        <5> HIDE DEF c, node
        <5>4. d \in place /\ d[2].level = n - 1
          BY <4>3, <5>1, <5>3
        <5> HIDE DEF d
        <5>5. Walked(arena, sh, d)
          BY <2>4, <5>2, <5>4
        <5>6. Of[k] = walk[node.base + k][Octant(c, k).origin]
          OBVIOUS
        <5>7. Boxes(arena, d) = Of[k]
          BY <5>1, <5>4, <5>6 DEF Boxes
        <5> QED BY <5>1, <5>5, <5>7 DEF Walked
      <4>5. ASSUME NEW k \in (0..7) \ node.mask PROVE Shows(sh, Octant(c, k), Air)
        <5>1. Kid(arena, node, k) = Leaf(Air) /\ Right(arena, place, sh, Kid(arena, node, k), Octant(c, k))
          BY <4>3
        <5>2. Kid(arena, node, k).leaf /\ Kid(arena, node, k).of = Air
          BY <5>1 DEF Leaf
        <5> QED BY <5>1, <5>2 DEF Right
      <4>6. c.level > 0
        BY <2>6, <3>1
      <4> DEFINE mask == node.mask
      <4>7. /\ \A k \in mask : Kept(Of[k], Octant(c, k))
            /\ \A k \in mask, p \in Space : InCube(p, Octant(c, k)) => Covered(Of[k], sh, p)
            /\ \A k \in (0..7) \ mask : Shows(sh, Octant(c, k), Air)
        <5> HIDE DEF Of, c, node
        <5> QED BY <4>4, <4>5
      <4> HIDE DEF boxes, c, node, Of, mask
      <4>8. Kept(boxes, c) /\ \A p \in Space : InCube(p, c) => Covered(boxes, sh, p)
        <5>1. mask \in SUBSET (0..7) /\ boxes = UNION {Of[k] : k \in mask}
          BY <4>1, <4>2 DEF mask
        <5>2. OctantsWalked(sh, c, mask, Of, boxes)
          BY <4>7, <5>1 DEF OctantsWalked
        <5> QED BY ONLY <2>5, <4>6, <5>2, BranchWalked
      <4> QED BY <2>3, <4>8 DEF Walked, boxes, c
    <3> QED BY <3>4, <3>5
  <2> QED BY <2>7, <2>8
<1>2. ASSUME NEW e \in place PROVE Walked(arena, sh, e)
  <2>1. e[2].level \in 0..Depth
    BY ONLY PlacedIs, CubesAre, Graph(arena, place, sh), e \in place
  <2> QED BY <1>1, <1>2, <2>1
<1> QED BY <1>2

-----------------------------------------------------------------------------
(* A cube of air is a leaf, so that a look at the root tells whether all   *)
(* is air.                                                                 *)

\* A cube of air, and an arena whose branches all have something to tell apart.
AllAir(sh, c) == \A p \in Space : InCube(p, c) => sh[p].kind = "air"
Compacted(arena, place) == \A e \in place : Compact(arena, arena[e[1] + 1])

\* The eight that are compared are the children.
LEMMA KidsAre ==
  ASSUME NEW arena, NEW node, node.base \in Nat, NEW k \in 0..7
  PROVE  k + 1 \in 1..8 /\ KidsAt(arena, node.base)[k + 1] = Kid(arena, node, k)
<1>1. k + 1 \in 1..8 /\ node.base + (k + 1) = node.base + k + 1
  OBVIOUS
<1> QED BY <1>1 DEF KidsAt, Kid

\* A cube holds its origin.
LEMMA HoldsOrigin ==
  ASSUME NEW c \in Fitting
  PROVE  c.origin \in Space /\ InCube(c.origin, c)
<1>1. SideAt[c.level] \in Nat /\ SideAt[c.level] > 0
  BY CubesAre, SidesAre
<1>2. \A i \in 1..3 : c.origin[i] \in Nat
  BY CubesAre
<1> DEFINE s == SideAt[c.level]
<1>3. \A i \in 1..3 : c.origin[i] <= c.origin[i] /\ c.origin[i] < c.origin[i] + s
  <2> HIDE DEF s
  <2> TAKE i \in 1..3
  <2> DEFINE x == c.origin[i]
  <2>1. x \in Nat
    BY <1>2
  <2> HIDE DEF x
  <2>2. x <= x /\ x < x + s
    BY <1>1, <2>1 DEF s
  <2> QED BY <2>2 DEF x
<1>4. InCube(c.origin, c)
  BY <1>3 DEF InCube
<1> QED BY <1>4, CubesAre

\* A cube that is all air is a leaf of air: no branch is left over it.
LEMMA AirIsLeaf ==
  ASSUME NEW arena, NEW place, NEW sh, Graph(arena, place, sh), Compacted(arena, place)
  PROVE  \A e \in place : AllAir(sh, e[2]) => arena[e[1] + 1] = Leaf(Air)
<1> DEFINE Good(e) == AllAir(sh, e[2]) => arena[e[1] + 1] = Leaf(Air)
           bad == {n \in 0..Depth : \E e \in place : e[2].level = n /\ ~Good(e)}
<1>0. Depth \in Nat
  BY ArenaAssumption
<1>1. ASSUME bad # {} PROVE FALSE
  <2>1. bad \in SUBSET Nat
    BY <1>0
  <2>2. PICK n \in bad : \A j \in bad : n <= j
    <3> HIDE DEF bad
    <3> QED BY <1>1, <2>1, LeastNumber
  <2>3. PICK e \in place : e[2].level = n /\ ~Good(e)
    BY <2>2
  <2>4. \A d \in place : d[2].level \in 0..Depth /\ d[2].level < n => Good(d)
    <3> SUFFICES ASSUME NEW d \in place, d[2].level \in 0..Depth, d[2].level < n, ~Good(d)
                 PROVE  FALSE
      OBVIOUS
    <3>1. d[2].level \in bad
      OBVIOUS
    <3> HIDE DEF bad
    <3> QED BY <1>0, <2>1, <2>2, <3>1
  <2> HIDE DEF bad
  <2> DEFINE i == e[1]
             c == e[2]
             node == arena[i + 1]
  <2>5. /\ i \in Nat /\ c \in Fitting /\ Right(arena, place, sh, node, c)
        /\ node \in SvoNodes
    BY ONLY <2>3, PlacedIs, Graph(arena, place, sh)
  <2>6. AllAir(sh, c) /\ node # Leaf(Air)
    BY <2>3
  <2>7. Compact(arena, node)
    BY DEF Compacted
  <2>8. c.level \in 0..Depth
    BY <2>5, CubesAre
  <2> HIDE DEF node, c, Good
  <2>9. ~node.leaf
    <3> SUFFICES ASSUME node.leaf PROVE FALSE
      OBVIOUS
    <3>1. node = Leaf(node.of) /\ node.of \in Attributes
      BY <2>5, NodesAre
    <3>2. sh[c.origin] = node.of /\ sh[c.origin].kind = "air"
      BY <2>5, <2>6, HoldsOrigin DEF Right, Shows, AllAir
    <3>3. node.of = Air
      BY <3>1, <3>2, AttributesAre
    <3> QED BY <2>6, <3>1, <3>3
  <2>10. ASSUME NEW k \in 0..7 PROVE Kid(arena, node, k) = Leaf(Air)
    <3> DEFINE d == KidPlace(node, c, k)
    <3>1. /\ d \in place /\ Octant(c, k).level = c.level - 1 /\ c.level \in 1..Depth
          /\ node.base \in Nat
      BY ONLY <2>5, <2>9, KidIs, Graph(arena, place, sh), k \in 0..7
    <3>2. d[1] = node.base + k /\ d[2] = Octant(c, k)
      BY DEF KidPlace
    <3>3. AllAir(sh, Octant(c, k))
      BY <2>5, <2>6, <3>1, OctantIs DEF AllAir
    <3> HIDE DEF d
    <3>4. d[2].level \in 0..Depth /\ d[2].level < n
      BY <1>0, <2>3, <3>1, <3>2 DEF c
    <3>5. arena[d[1] + 1] = Leaf(Air)
      BY <2>4, <3>1, <3>2, <3>3, <3>4 DEF Good
    <3>6. arena[d[1] + 1] = Kid(arena, node, k)
      BY <3>2 DEF Kid
    <3> QED BY <3>5, <3>6
  <2>11. Uniform(KidsAt(arena, node.base))
    <3>1. node.base \in Nat
      BY <2>5, <2>9, NodesAre
    <3>2. \A k \in 1..8 : KidsAt(arena, node.base)[k] = Leaf(Air)
      <4> TAKE k \in 1..8
      <4>1. k - 1 \in 0..7 /\ (k - 1) + 1 = k
        OBVIOUS
      <4>2. KidsAt(arena, node.base)[(k - 1) + 1] = Kid(arena, node, k - 1)
        BY ONLY <3>1, <4>1, KidsAre
      <4> QED BY <2>10, <4>1, <4>2
    <3>3. 1 \in 1..8 /\ Leaf(Air).leaf
      BY DEF Leaf
    <3> QED BY <3>2, <3>3 DEF Uniform
  <2> QED BY <2>7, <2>9, <2>11 DEF Compact
<1>2. ASSUME NEW e \in place PROVE Good(e)
  <2>1. e[2].level \in 0..Depth
    BY ONLY PlacedIs, CubesAre, Graph(arena, place, sh), e \in place
  <2> HIDE DEF Good
  <2> QED BY <1>1, <1>2, <2>1
<1> QED BY <1>2

-----------------------------------------------------------------------------
(* What a compacted graph promises.                                        *)

\* The property, once something is built.
Shown ==
  LET look == Look(nodes)[Depth][root]
      boxes == SolidCubes
  IN  /\ \A p \in Space :
           /\ look[p] = shown[p]
           /\ Cardinality({c \in boxes : InCube(p, c)}) = IF shown[p].kind \in SolidKinds THEN 1 ELSE 0
      /\ IsEmpty <=> \A p \in Space : shown[p].kind = "air"

\* From a compacted graph with the root placed at the whole cube, look-ups, the
\* player's boxes and is_empty() tell what is shown.
LEMMA GraphShows ==
  ASSUME NEW place, Graph(nodes, place, shown), Compacted(nodes, place), <<root, Whole>> \in place
  PROVE  Shown
<1> DEFINE e == <<root, Whole>>
           node == nodes[root + 1]
<1>0. e \in place /\ e[1] = root /\ e[2] = Whole /\ Whole.level = Depth /\ Whole \in Fitting
  BY WholeFits
<1>1. root \in Nat /\ node \in SvoNodes /\ Right(nodes, place, shown, node, Whole)
  <2> HIDE DEF e
  <2>1. e[1] \in Nat /\ nodes[e[1] + 1] \in SvoNodes /\ Right(nodes, place, shown, nodes[e[1] + 1], e[2])
    BY ONLY <1>0, PlacedIs, Graph(nodes, place, shown)
  <2> QED BY <1>0, <2>1
<1>2. ASSUME NEW p \in Space PROVE Look(nodes)[Depth][root][p] = shown[p]
  <2>1. InCube(p, Whole) /\ SeenFrom(p, Whole) = p
    BY WholeFits
  <2> HIDE DEF e
  <2>2. LookedUp(nodes, shown, e, p)
    BY <1>0, <2>1, LookIs
  <2> QED BY <1>0, <2>1, <2>2 DEF LookedUp
<1>3. ASSUME NEW p \in Space
      PROVE  Cardinality({c \in SolidCubes : InCube(p, c)}) = IF shown[p].kind \in SolidKinds THEN 1 ELSE 0
  <2> DEFINE found == {c \in SolidCubes : InCube(p, c)}
  <2>1. InCube(p, Whole)
    BY WholeFits
  <2>2. Walked(nodes, shown, e)
    BY <1>0, WalkIs
  <2>3. Boxes(nodes, e) = SolidCubes
    BY <1>0 DEF Boxes, SolidCubes
  <2>4. Covered(SolidCubes, shown, p)
    BY <1>0, <2>1, <2>2, <2>3 DEF Walked
  <2>5. CASE shown[p].kind \in SolidKinds
    <3>1. PICK b \in SolidCubes : InCube(p, b) /\ \A d \in SolidCubes : InCube(p, d) => d = b
      BY <2>4, <2>5 DEF Covered, Once
    <3>2. found = {b}
      BY <3>1
    <3> QED BY <2>5, <3>2, FS_Singleton
  <2>6. CASE shown[p].kind \notin SolidKinds
    <3>1. found = {}
      BY <2>4, <2>6 DEF Covered, Never
    <3> QED BY <2>6, <3>1, FS_EmptySet
  <2> QED BY <2>5, <2>6
<1>4. IsEmpty <=> \A p \in Space : shown[p].kind = "air"
  <2>1. (\A p \in Space : shown[p].kind = "air") => node = Leaf(Air)
    <3>1. (\A p \in Space : shown[p].kind = "air") => AllAir(shown, Whole)
      BY DEF AllAir
    <3> HIDE DEF e
    <3> QED BY <1>0, <3>1, AirIsLeaf
  <2>2. node = Leaf(Air) => node.leaf /\ node.of.kind = "air"
    BY DEF Leaf, Air
  <2>3. CASE node.leaf
    <3>1. \A p \in Space : shown[p] = node.of
      BY <1>1, <2>3, WholeFits DEF Right, Shows
    <3>2. IsEmpty <=> node.of.kind = "air"
      BY <2>3 DEF IsEmpty
    <3> HIDE DEF node
    <3> QED BY <2>1, <2>2, <3>1, <3>2
  <2>4. CASE ~node.leaf
    <3>1. IsEmpty <=> node.mask = {}
      BY <2>4 DEF IsEmpty
    <3>2. node.mask # {}
      <4> HIDE DEF node
      <4> SUFFICES ASSUME node.mask = {} PROVE FALSE
        OBVIOUS
      <4>1. ASSUME NEW k \in 0..7
            PROVE  Kid(nodes, node, k) = Leaf(Air)
        <5>1. k \notin node.mask => Kid(nodes, node, k) = Leaf(Air)
          BY <1>1, <2>4 DEF Right
        <5> QED BY <5>1
      <4>2. node.base \in Nat
        BY <1>1, <2>4, NodesAre
      <4>3. \A k \in 1..8 : KidsAt(nodes, node.base)[k] = Leaf(Air)
        <5> TAKE k \in 1..8
        <5>1. k - 1 \in 0..7 /\ (k - 1) + 1 = k
          OBVIOUS
        <5>2. KidsAt(nodes, node.base)[(k - 1) + 1] = Kid(nodes, node, k - 1)
          BY ONLY <4>2, <5>1, KidsAre
        <5> QED BY <4>1, <5>1, <5>2
      <4>4. 1 \in 1..8 /\ Leaf(Air).leaf
        BY DEF Leaf
      <4>5. Uniform(KidsAt(nodes, node.base))
        BY <4>3, <4>4 DEF Uniform
      <4>6. Compact(nodes, node)
        BY <1>0 DEF Compacted, node
      <4> QED BY <2>4, <4>5, <4>6 DEF Compact
    <3> QED BY <2>1, <2>2, <2>4, <3>1, <3>2
  <2> QED BY <2>3, <2>4
<1> QED BY <1>2, <1>3, <1>4 DEF Shown

-----------------------------------------------------------------------------
(* An arena as a tree: no two nodes stand for the same cube, and of two    *)
(* whose cubes share a place one is a branch above the other.              *)

\* The branch e is above f.
Over(arena, e, f) == f[2].level < e[2].level /\ ~arena[e[1] + 1].leaf
Apart(arena, place) ==
  \A e, f \in place : e # f =>
    /\ e[1] # f[1]
    /\ \A p \in Space : InCube(p, e[2]) /\ InCube(p, f[2]) => Over(arena, e, f) \/ Over(arena, f, e)

\* A tree whose branches have something to tell apart.
TreeAt(arena, place, sh) == Graph(arena, place, sh) /\ Apart(arena, place) /\ Compacted(arena, place)

\* What an arena that is only added to keeps.
Extends(arena, longer) ==
  /\ arena \in Seq(SvoNodes) /\ longer \in Seq(SvoNodes)
  /\ Len(arena) <= Len(longer) /\ \A i \in 1..Len(arena) : longer[i] = arena[i]

\* To be added to twice is to be added to.
LEMMA ExtendsOn ==
  ASSUME NEW a, NEW b, NEW d, Extends(a, b), Extends(b, d)
  PROVE  Extends(a, d)
<1>1. Len(a) \in Nat /\ Len(b) \in Nat /\ Len(d) \in Nat
  BY DEF Extends
<1>2. \A i \in 1..Len(a) : i \in 1..Len(b)
  BY <1>1 DEF Extends
<1> QED BY <1>1, <1>2 DEF Extends

\* A node stands for its cube, and tells its children apart, in whatever the
\* arena is added to.
LEMMA RightStays ==
  ASSUME NEW arena, NEW place, NEW sh, Graph(arena, place, sh),
         NEW node, NEW c \in Fitting, Right(arena, place, sh, node, c),
         NEW longer, Extends(arena, longer), NEW more, place \subseteq more
  PROVE  /\ Right(longer, more, sh, node, c)
         /\ Compact(arena, node) => Compact(longer, node)
<1>1. CASE node.leaf
  BY <1>1 DEF Right, Compact
<1>2. CASE ~node.leaf
  <2>1. ASSUME NEW k \in 0..7
        PROVE  /\ Kid(longer, node, k) = Kid(arena, node, k)
               /\ KidPlace(node, c, k) \in more
               /\ k \notin node.mask => Kid(arena, node, k) = Leaf(Air)
    <3>0. k \notin node.mask => Kid(arena, node, k) = Leaf(Air)
      BY <1>2 DEF Right
    <3>1. KidPlace(node, c, k) \in place /\ node.base \in Nat /\ node.base + k < Len(arena)
      BY ONLY <1>2, KidIs, c \in Fitting, Graph(arena, place, sh), Right(arena, place, sh, node, c), k \in 0..7
    <3>2. Len(arena) \in Nat
      BY DEF Extends
    <3>3. node.base + k + 1 \in 1..Len(arena)
      BY <3>1, <3>2
    <3> QED BY <3>0, <3>1, <3>3 DEF Extends, Kid
  <2>2. node \in SvoNodes /\ c.level > 0
    BY <1>2 DEF Right
  <2>3. node.base \in Nat
    BY <1>2, <2>2, NodesAre
  <2>4. Right(longer, more, sh, node, c)
    BY <1>2, <2>1, <2>2 DEF Right
  <2>5. \A k \in 1..8 : KidsAt(longer, node.base)[k] = KidsAt(arena, node.base)[k]
    <3> TAKE k \in 1..8
    <3>1. k - 1 \in 0..7 /\ (k - 1) + 1 = k
      OBVIOUS
    <3>2. /\ KidsAt(longer, node.base)[(k - 1) + 1] = Kid(longer, node, k - 1)
          /\ KidsAt(arena, node.base)[(k - 1) + 1] = Kid(arena, node, k - 1)
      BY ONLY <2>3, <3>1, KidsAre
    <3> QED BY <2>1, <3>1, <3>2
  <2>6. Uniform(KidsAt(longer, node.base)) <=> Uniform(KidsAt(arena, node.base))
    <3>1. 1 \in 1..8
      OBVIOUS
    <3> QED BY <2>5, <3>1 DEF Uniform
  <2> QED BY <2>4, <2>6 DEF Compact
<1> QED BY <1>1, <1>2

-----------------------------------------------------------------------------
(* The eight nodes of a cube, laid behind what stands for its octants.     *)

\* Nothing is placed where the cube is.
Free(place, c) == \A e \in place, p \in Space : ~(InCube(p, e[2]) /\ InCube(p, c))

\* Nothing is placed in an octant but below its node, which is a branch then.
Below(place, c, node) ==
  \A e \in place, p \in Space : InCube(p, e[2]) /\ InCube(p, c) => e[2].level < c.level /\ ~node.leaf

\* What the building of a cube added.
Added(arena, place, c, more) ==
  /\ place \subseteq more
  /\ \A e \in more \ place : /\ e[1] >= Len(arena) /\ e[2].level < c.level
                             /\ \A p \in Space : InCube(p, e[2]) => InCube(p, c)

\* What a call for a cube leaves: a node that stands for it, in a tree with what was
\* there before; one that is a leaf lays nothing down.
Grown(arena, place, sh, c, r, more) ==
  /\ TreeAt(r.arena, more, sh) /\ Extends(arena, r.arena)
  /\ Added(arena, place, c, more)
  /\ Right(r.arena, more, sh, r.node, c) /\ Compact(r.arena, r.node)
  /\ r.node.leaf => more = place

\* The octants before the k-th are built.
Visiting(arena, place, sh, c, k, v, more) ==
  /\ TreeAt(v.arena, more, sh) /\ Extends(arena, v.arena)
  /\ Added(arena, place, c, more)
  /\ v.kids \in Seq(SvoNodes) /\ Len(v.kids) = k
  /\ \A j \in 0..(k - 1) : /\ Right(v.arena, more, sh, v.kids[j + 1], Octant(c, j))
                           /\ Compact(v.arena, v.kids[j + 1])
                           /\ Below(more, Octant(c, j), v.kids[j + 1])
  /\ \A j \in k..7 : Free(more, Octant(c, j))
  /\ (\A j \in 1..k : v.kids[j].leaf) => more = place

\* No place is in two octants.
LEMMA OctantsApart ==
  ASSUME NEW c \in Fitting, c.level > 0, NEW j \in 0..7, NEW k \in 0..7, NEW p \in Space,
         InCube(p, Octant(c, j)), InCube(p, Octant(c, k))
  PROVE  j = k
<1>1. InCube(p, c)
  BY OctantIs
<1> DEFINE m == OctantOf(SeenFrom(p, c), SideAt[c.level - 1])
<1>2. \A i \in 0..7 : InCube(p, Octant(c, i)) => i = m
  BY <1>1, OctantHolds
<1> HIDE DEF m
<1> QED BY <1>2

\* Every place of a cube is in one of its octants.
LEMMA PlacedInOctant ==
  ASSUME NEW c \in Fitting, c.level > 0, NEW p \in Space, InCube(p, c)
  PROVE  \E k \in 0..7 : InCube(p, Octant(c, k))
<1> DEFINE m == OctantOf(SeenFrom(p, c), SideAt[c.level - 1])
<1>2. m \in 0..7 /\ InCube(p, Octant(c, m))
  BY OctantHolds
<1> HIDE DEF m
<1> QED BY <1>2

\* Once the k-th octant is built, those before the next one are.
LEMMA VisitsOn ==
  ASSUME NEW arena, NEW place, NEW sh, NEW c \in Fitting, c.level > 0, NEW k \in 0..7,
         NEW v, NEW more, Visiting(arena, place, sh, c, k, v, more),
         NEW r, NEW most, Grown(v.arena, more, sh, Octant(c, k), r, most)
  PROVE  Visiting(arena, place, sh, c, k + 1, [arena |-> r.arena, kids |-> Append(v.kids, r.node)], most)
<1> DEFINE w == [arena |-> r.arena, kids |-> Append(v.kids, r.node)]
<1>1. w.arena = r.arena /\ w.kids = Append(v.kids, r.node)
  OBVIOUS
<1>2. Octant(c, k) \in Fitting /\ Octant(c, k).level = c.level - 1 /\ c.level \in 1..Depth
  BY OctantIs, CubesAre, ArenaAssumption
<1>3. Graph(v.arena, more, sh) /\ Extends(v.arena, r.arena) /\ more \subseteq most
  BY DEF Visiting, Grown, TreeAt, Added
<1>4. TreeAt(r.arena, most, sh) /\ Extends(arena, r.arena)
  BY ExtendsOn DEF Visiting, Grown
<1>5. r.node \in SvoNodes
  BY DEF Grown, Right
<1>6. /\ w.kids \in Seq(SvoNodes) /\ Len(w.kids) = k + 1
      /\ \A j \in 1..k : w.kids[j] = v.kids[j]
      /\ w.kids[k + 1] = r.node
  <2>1. v.kids \in Seq(SvoNodes) /\ Len(v.kids) = k
    BY DEF Visiting
  <2> HIDE DEF w
  <2> QED BY <1>1, <1>5, <2>1
<1> HIDE DEF w
<1>7. Added(arena, place, c, most)
  <2>1. \A e \in most \ more : /\ e[1] >= Len(v.arena) /\ e[2].level < Octant(c, k).level
                               /\ \A p \in Space : InCube(p, e[2]) => InCube(p, Octant(c, k))
    BY DEF Grown, Added
  <2>2. Added(arena, place, c, more)
    BY DEF Visiting
  <2>3. Len(arena) \in Nat /\ Len(v.arena) \in Nat /\ Len(arena) <= Len(v.arena)
    BY DEF Visiting, Extends
  <2>4. \A e \in most : e[1] \in Nat /\ e[2].level \in 0..Depth
    BY <1>4, PlacedIs, CubesAre DEF TreeAt
  <2>5. ASSUME NEW e \in most \ more
        PROVE  e[1] >= Len(arena) /\ e[2].level < c.level /\ \A p \in Space : InCube(p, e[2]) => InCube(p, c)
    <3>1. /\ e[1] >= Len(v.arena) /\ e[2].level < c.level - 1
          /\ \A p \in Space : InCube(p, e[2]) => InCube(p, Octant(c, k))
      BY <1>2, <2>1
    <3>2. e[1] \in Nat /\ e[2].level \in Int
      BY <2>4, ArenaAssumption
    <3>3. e[1] >= Len(arena) /\ e[2].level < c.level
      BY <1>2, <2>3, <3>1, <3>2
    <3> QED BY <3>1, <3>3, OctantIs
  <2> QED BY <1>3, <2>2, <2>5 DEF Added
<1>8. ASSUME NEW j \in 0..7
      PROVE  \A e \in most \ more, p \in Space : InCube(p, e[2]) /\ InCube(p, Octant(c, j)) =>
               j = k /\ e[2].level < Octant(c, k).level /\ ~r.node.leaf
  <2> TAKE e \in most \ more, p \in Space
  <2> HAVE InCube(p, e[2]) /\ InCube(p, Octant(c, j))
  <2>1. InCube(p, Octant(c, k)) /\ e[2].level < Octant(c, k).level
    BY DEF Grown, Added
  <2>2. j = k
    BY ONLY <2>1, OctantsApart, c \in Fitting, c.level > 0, j \in 0..7, k \in 0..7, p \in Space,
            InCube(p, Octant(c, j))
  <2>3. ~r.node.leaf
    BY DEF Grown
  <2> QED BY <2>1, <2>2, <2>3
<1>9. ASSUME NEW j \in 0..k
      PROVE  /\ Right(w.arena, most, sh, w.kids[j + 1], Octant(c, j))
             /\ Compact(w.arena, w.kids[j + 1])
             /\ Below(most, Octant(c, j), w.kids[j + 1])
  <2>1. CASE j = k
    <3>1. Free(more, Octant(c, k))
      <4>1. k \in k..7
        OBVIOUS
      <4> QED BY <4>1 DEF Visiting
    <3>2. Below(most, Octant(c, k), r.node)
      BY <1>8, <3>1 DEF Below, Free
    <3>3. Right(r.arena, most, sh, r.node, Octant(c, k)) /\ Compact(r.arena, r.node)
      BY DEF Grown
    <3> QED BY <1>1, <1>6, <2>1, <3>2, <3>3
  <2>2. CASE j # k
    <3>1. j \in 0..(k - 1) /\ j + 1 \in 1..k /\ j \in 0..7
      BY <2>2
    <3> DEFINE kid == v.kids[j + 1]
    <3>2. Right(v.arena, more, sh, kid, Octant(c, j)) /\ Compact(v.arena, kid) /\ Below(more, Octant(c, j), kid)
      BY <3>1 DEF Visiting
    <3>3. w.kids[j + 1] = kid
      BY <1>6, <3>1
    <3>4. Octant(c, j) \in Fitting
      BY <3>1, OctantIs
    <3> HIDE DEF kid
    <3>5. Right(r.arena, most, sh, kid, Octant(c, j)) /\ Compact(r.arena, kid)
      BY ONLY <1>3, <3>2, <3>4, RightStays
    <3>6. Below(most, Octant(c, j), kid)
      BY <1>8, <2>2, <3>1, <3>2 DEF Below
    <3> QED BY <1>1, <3>3, <3>5, <3>6
  <2> QED BY <2>1, <2>2
<1>10. ASSUME NEW j \in (k + 1)..7 PROVE Free(most, Octant(c, j))
  <2>1. j \in 0..7 /\ j # k /\ j \in k..7
    OBVIOUS
  <2>2. Free(more, Octant(c, j))
    BY <2>1 DEF Visiting
  <2> QED BY <1>8, <2>1, <2>2 DEF Free
<1>11. (\A j \in 1..(k + 1) : w.kids[j].leaf) => most = place
  <2> SUFFICES ASSUME \A j \in 1..(k + 1) : w.kids[j].leaf PROVE most = place
    OBVIOUS
  <2>1. k + 1 \in 1..(k + 1) /\ \A j \in 1..k : j \in 1..(k + 1)
    OBVIOUS
  <2>2. r.node.leaf /\ \A j \in 1..k : v.kids[j].leaf
    BY <1>6, <2>1
  <2> QED BY <2>2 DEF Visiting, Grown
<1>12. (k + 1) - 1 = k
  OBVIOUS
<1> QED BY <1>1, <1>4, <1>6, <1>7, <1>9, <1>10, <1>11, <1>12 DEF Visiting, w

\* What is appended to an arena.
LEMMA AppendsExtend ==
  ASSUME NEW arena \in Seq(SvoNodes), NEW kids \in Seq(SvoNodes)
  PROVE  /\ arena \o kids \in Seq(SvoNodes) /\ Len(arena \o kids) = Len(arena) + Len(kids)
         /\ Extends(arena, arena \o kids)
         /\ \A k \in 1..Len(kids) : (arena \o kids)[Len(arena) + k] = kids[k]
<1>1. /\ arena \o kids \in Seq(SvoNodes) /\ Len(arena \o kids) = Len(arena) + Len(kids)
      /\ Len(arena) \in Nat /\ Len(kids) \in Nat
  OBVIOUS
<1>2. \A i \in 1..Len(arena) : (arena \o kids)[i] = arena[i]
  BY <1>1
<1>3. \A k \in 1..Len(kids) : (arena \o kids)[Len(arena) + k] = kids[k]
  <2> TAKE k \in 1..Len(kids)
  <2>1. Len(arena) + k \in 1..(Len(arena) + Len(kids)) /\ Len(arena) + k > Len(arena)
    BY <1>1
  <2> QED BY <1>1, <2>1
<1> QED BY <1>1, <1>2, <1>3 DEF Extends

\* Eight nodes laid behind the others, for the octants of a cube.
EightAt(base, c) == {<<base + k, Octant(c, k)>> : k \in 0..7}

\* The eight are placed one at each octant.
LEMMA EightPlaced ==
  ASSUME NEW base \in Nat, NEW c
  PROVE  \A e : e \in EightAt(base, c) <=> \E k \in 0..7 : e = <<base + k, Octant(c, k)>>
<1> QED BY DEF EightAt

\* Eight nodes that stand for the octants, and what they are laid behind.
Laying(arena, place, sh, c, kids) ==
  /\ kids \in Seq(SvoNodes) /\ Len(kids) = 8
  /\ \A j \in 0..7 : /\ Right(arena, place, sh, kids[j + 1], Octant(c, j))
                      /\ Compact(arena, kids[j + 1])

\* What is left when they are laid down.
LaidWell(arena, place, sh, c, kids) ==
  LET longer == arena \o kids
      more == place \cup EightAt(Len(arena), c)
  IN  /\ Graph(longer, more, sh) /\ Compacted(longer, more)
      /\ \A e \in place : /\ e[1] \in Nat /\ e[1] < Len(arena)
                           /\ longer[e[1] + 1] = arena[e[1] + 1]
      /\ \A e \in EightAt(Len(arena), c) : \E k \in 0..7 :
           /\ e = <<Len(arena) + k, Octant(c, k)>> /\ e[1] = Len(arena) + k /\ e[2] = Octant(c, k)
           /\ longer[e[1] + 1] = kids[k + 1]

\* The eight nodes of a cube, laid behind a graph, are part of it.
LEMMA LaidGraph ==
  ASSUME NEW arena, NEW place, NEW sh, Graph(arena, place, sh), Compacted(arena, place),
         NEW c \in Fitting, c.level > 0, NEW kids, Laying(arena, place, sh, c, kids)
  PROVE  LaidWell(arena, place, sh, c, kids)
<1>0. /\ kids \in Seq(SvoNodes) /\ Len(kids) = 8
      /\ \A j \in 0..7 : /\ Right(arena, place, sh, kids[j + 1], Octant(c, j))
                          /\ Compact(arena, kids[j + 1])
  BY DEF Laying
<1> DEFINE longer == arena \o kids
           base == Len(arena)
           more == place \cup EightAt(base, c)
<1>1. Graph(arena, place, sh) /\ Compacted(arena, place)
  OBVIOUS
<1>2. arena \in Seq(SvoNodes) /\ base \in Nat
  BY <1>1 DEF Graph, Arenas
<1>3. /\ longer \in Seq(SvoNodes) /\ Len(longer) = base + 8 /\ Extends(arena, longer)
      /\ \A k \in 1..8 : longer[base + k] = kids[k]
  <2>1. /\ longer \in Seq(SvoNodes) /\ Len(longer) = base + Len(kids) /\ Extends(arena, longer)
        /\ \A k \in 1..Len(kids) : longer[base + k] = kids[k]
    BY ONLY <1>0, <1>2, AppendsExtend
  <2> HIDE DEF longer, base
  <2> QED BY <1>0, <2>1
<1>4. place \subseteq more
  OBVIOUS
<1>5. \A e \in place : /\ e[1] \in Nat /\ e[1] < base /\ e[1] + 1 \in 1..base
                       /\ e[2] \in Fitting /\ longer[e[1] + 1] = arena[e[1] + 1]
                       /\ Right(arena, place, sh, arena[e[1] + 1], e[2])
                       /\ Compact(arena, arena[e[1] + 1])
  <2> TAKE e \in place
  <2>1. /\ e[1] \in Nat /\ e[1] < base /\ e[1] + 1 \in 1..base /\ e[2] \in Fitting
        /\ Right(arena, place, sh, arena[e[1] + 1], e[2])
    BY ONLY <1>1, PlacedIs, e \in place
  <2> QED BY <1>1, <1>3, <2>1 DEF Extends, Compacted
<1>6. ASSUME NEW e \in EightAt(base, c)
      PROVE  \E k \in 0..7 : /\ e = <<base + k, Octant(c, k)>> /\ e[1] = base + k /\ e[2] = Octant(c, k)
                             /\ e[1] + 1 = base + (k + 1) /\ longer[e[1] + 1] = kids[k + 1]
  <2>1. PICK k \in 0..7 : e = <<base + k, Octant(c, k)>>
    BY <1>2, EightPlaced
  <2>2. e[1] = base + k /\ e[2] = Octant(c, k) /\ k + 1 \in 1..8
    BY <2>1
  <2>3. e[1] + 1 = base + (k + 1)
    BY <1>2, <2>2
  <2>4. longer[e[1] + 1] = kids[k + 1]
    <3>1. longer[base + (k + 1)] = kids[k + 1]
      BY ONLY <1>3, <2>2
    <3> QED BY ONLY <2>3, <3>1
  <2> HIDE DEF longer
  <2> QED BY <2>1, <2>2, <2>3, <2>4
<1> HIDE DEF longer, more
<1>7. ASSUME NEW node, NEW d \in Fitting, Right(arena, place, sh, node, d), Compact(arena, node)
      PROVE  Right(longer, more, sh, node, d) /\ Compact(longer, node)
  BY ONLY <1>1, <1>3, <1>4, <1>7, RightStays
<1>8. \A k \in 0..7 : Octant(c, k) \in Fitting /\ Octant(c, k).level = c.level - 1
  BY OctantIs
<1>9. ASSUME NEW e \in more
      PROVE  /\ e \in Nat \X Fitting /\ e[1] < Len(longer)
             /\ Right(longer, more, sh, longer[e[1] + 1], e[2]) /\ Compact(longer, longer[e[1] + 1])
  <2>1. CASE e \in place
    <3>1. e \in Nat \X Fitting
      BY <1>1, <2>1 DEF Graph
    <3>2. e[1] < Len(longer)
      BY <1>2, <1>3, <1>5, <2>1
    <3>3. Right(longer, more, sh, arena[e[1] + 1], e[2]) /\ Compact(longer, arena[e[1] + 1])
      BY <1>5, <1>7, <2>1
    <3> QED BY <1>5, <2>1, <3>1, <3>2, <3>3
  <2>2. CASE e \in EightAt(base, c)
    <3>1. PICK k \in 0..7 : /\ e = <<base + k, Octant(c, k)>> /\ e[1] = base + k /\ e[2] = Octant(c, k)
                            /\ longer[e[1] + 1] = kids[k + 1]
      BY <1>6, <2>2
    <3>2. e \in Nat \X Fitting /\ e[1] < Len(longer)
      <4>1. base + k \in Nat /\ Octant(c, k) \in Fitting /\ base + k < base + 8
        BY ONLY <1>2, <1>8, k \in 0..7
      <4>2. Len(longer) = base + 8
        BY ONLY <1>3
      <4> QED BY ONLY <3>1, <4>1, <4>2
    <3>3. Right(longer, more, sh, kids[k + 1], Octant(c, k)) /\ Compact(longer, kids[k + 1])
      BY <1>0, <1>7, <1>8
    <3> QED BY <3>1, <3>2, <3>3
  <2> QED BY <2>1, <2>2 DEF more
<1>10. Graph(longer, more, sh) /\ Compacted(longer, more)
  BY <1>3, <1>9 DEF Graph, Compacted, Arenas
<1>11. \A e \in EightAt(base, c) : \E k \in 0..7 :
         /\ e = <<base + k, Octant(c, k)>> /\ e[1] = base + k /\ e[2] = Octant(c, k)
         /\ longer[e[1] + 1] = kids[k + 1]
  BY <1>6
<1>12. \A e \in place : e[1] \in Nat /\ e[1] < base /\ longer[e[1] + 1] = arena[e[1] + 1]
  BY <1>5
<1> QED BY ONLY <1>10, <1>11, <1>12 DEF LaidWell, longer, more, base

\* Laid behind a tree that has nothing else in the cube, they are part of a tree.
LEMMA LaidTree ==
  ASSUME NEW arena, NEW place, NEW sh, TreeAt(arena, place, sh), NEW c \in Fitting, c.level > 0,
         NEW kids \in Seq(SvoNodes), Len(kids) = 8,
         \A j \in 0..7 : /\ Right(arena, place, sh, kids[j + 1], Octant(c, j))
                         /\ Compact(arena, kids[j + 1])
                         /\ Below(place, Octant(c, j), kids[j + 1])
  PROVE  TreeAt(arena \o kids, place \cup EightAt(Len(arena), c), sh)
<1> DEFINE longer == arena \o kids
           base == Len(arena)
           more == place \cup EightAt(base, c)
<1>1. Graph(arena, place, sh) /\ Apart(arena, place) /\ Compacted(arena, place)
  BY DEF TreeAt
<1>2. base \in Nat
  BY <1>1 DEF Graph, Arenas
<1>3. Laying(arena, place, sh, c, kids)
  BY DEF Laying
<1>4. /\ Graph(longer, more, sh) /\ Compacted(longer, more)
      /\ \A e \in place : e[1] \in Nat /\ e[1] < base /\ longer[e[1] + 1] = arena[e[1] + 1]
      /\ \A e \in EightAt(base, c) : \E k \in 0..7 :
           /\ e = <<base + k, Octant(c, k)>> /\ e[1] = base + k /\ e[2] = Octant(c, k)
           /\ longer[e[1] + 1] = kids[k + 1]
  <2>1. LaidWell(arena, place, sh, c, kids)
    BY ONLY <1>1, <1>3, LaidGraph, c \in Fitting, c.level > 0
  <2> QED BY ONLY <2>1 DEF LaidWell, longer, more, base
<1> HIDE DEF longer, more
<1> DEFINE Clear(e, f) == /\ e[1] # f[1]
                          /\ \A p \in Space : InCube(p, e[2]) /\ InCube(p, f[2]) =>
                               Over(longer, e, f) \/ Over(longer, f, e)
<1>11. ASSUME NEW e \in place, NEW f \in place, e # f PROVE Clear(e, f)
  <2>1. longer[e[1] + 1] = arena[e[1] + 1] /\ longer[f[1] + 1] = arena[f[1] + 1]
    BY <1>4
  <2> QED BY <1>1, <1>11, <2>1 DEF Apart, Over
<1>12. ASSUME NEW e \in place, NEW f \in EightAt(base, c) PROVE Clear(e, f) /\ Clear(f, e)
  <2>1. PICK k \in 0..7 : f[1] = base + k /\ f[2] = Octant(c, k) /\ longer[f[1] + 1] = kids[k + 1]
    BY <1>4
  <2>2. e[1] # f[1]
    BY <1>2, <1>4, <2>1
  <2>3. ASSUME NEW p \in Space, InCube(p, e[2]), InCube(p, f[2]) PROVE Over(longer, f, e)
    <3>1. Below(place, Octant(c, k), kids[k + 1])
      OBVIOUS
    <3> QED BY <2>1, <2>3, <3>1 DEF Below, Over
  <2> QED BY <2>2, <2>3
<1>13. ASSUME NEW e \in EightAt(base, c), NEW f \in EightAt(base, c), e # f PROVE Clear(e, f)
  <2>1. PICK j \in 0..7 : e = <<base + j, Octant(c, j)>> /\ e[1] = base + j /\ e[2] = Octant(c, j)
    BY <1>4
  <2>2. PICK k \in 0..7 : f = <<base + k, Octant(c, k)>> /\ f[1] = base + k /\ f[2] = Octant(c, k)
    BY <1>4
  <2>3. j # k
    BY <1>13, <2>1, <2>2
  <2>4. e[1] # f[1]
    BY <1>2, <2>1, <2>2, <2>3
  <2>5. ASSUME NEW p \in Space, InCube(p, e[2]), InCube(p, f[2]) PROVE FALSE
    <3>1. InCube(p, Octant(c, j)) /\ InCube(p, Octant(c, k))
      BY <2>1, <2>2, <2>5
    <3>2. j = k
      BY ONLY <3>1, OctantsApart, c \in Fitting, c.level > 0, j \in 0..7, k \in 0..7, p \in Space
    <3> QED BY <2>3, <3>2
  <2> QED BY <2>4, <2>5
<1>14. Apart(longer, more)
  <2>1. ASSUME NEW e \in more, NEW f \in more, e # f PROVE Clear(e, f)
    <3>1. (e \in place \/ e \in EightAt(base, c)) /\ (f \in place \/ f \in EightAt(base, c))
      BY DEF more
    <3> HIDE DEF Clear
    <3> QED BY <1>11, <1>12, <1>13, <2>1, <3>1
  <2> QED BY <2>1 DEF Apart
<1>15. TreeAt(longer, more, sh)
  BY <1>4, <1>14 DEF TreeAt
<1> QED BY <1>15 DEF longer, more

\* The eight nodes are laid down, or dropped for one leaf if they are all alike:
\* either way the cube is built.
LEMMA LaidIs ==
  ASSUME NEW arena, NEW place, NEW sh, NEW c \in Fitting, c.level > 0, NEW v, NEW more,
         Visiting(arena, place, sh, c, 8, v, more)
  PROVE  \E most : Grown(arena, place, sh, c, Laid(v.arena, v.kids), most)
<1> DEFINE kids == v.kids
           r == Laid(v.arena, kids)
<1>1. /\ TreeAt(v.arena, more, sh) /\ Extends(arena, v.arena) /\ Added(arena, place, c, more)
      /\ kids \in Seq(SvoNodes) /\ Len(kids) = 8
      /\ (\A j \in 1..8 : kids[j].leaf) => more = place
  BY DEF Visiting
<1>2. \A j \in 0..7 : /\ Right(v.arena, more, sh, kids[j + 1], Octant(c, j))
                      /\ Compact(v.arena, kids[j + 1])
                      /\ Below(more, Octant(c, j), kids[j + 1])
  BY DEF Visiting
<1>3. \A k \in 1..8 : k - 1 \in 0..7 /\ (k - 1) + 1 = k /\ kids[k] \in SvoNodes
  BY <1>1
<1>4. 1 \in 1..8
  OBVIOUS
<1> HIDE DEF kids
<1>5. CASE Uniform(kids)
  <2> DEFINE node == kids[1]
  <2>1. r.arena = v.arena /\ r.node = node
    BY <1>5 DEF Laid
  <2>2. \A k \in 1..8 : kids[k].leaf /\ kids[k] = node
    BY <1>5 DEF Uniform
  <2>3. node.leaf /\ node \in SvoNodes
    BY <1>3, <1>4, <2>2
  <2> HIDE DEF node
  <2>4. more = place
    BY <1>1, <2>2
  <2>5. Shows(sh, c, node.of)
    <3> SUFFICES ASSUME NEW p \in Space, InCube(p, c) PROVE sh[p] = node.of
      BY DEF Shows
    <3>1. PICK k \in 0..7 : InCube(p, Octant(c, k))
      BY PlacedInOctant
    <3>2. k + 1 \in 1..8
      OBVIOUS
    <3>3. kids[k + 1] = node /\ Right(v.arena, more, sh, kids[k + 1], Octant(c, k))
      BY <1>2, <2>2, <3>2
    <3> QED BY <2>3, <3>1, <3>3 DEF Right, Shows
  <2>6. Right(v.arena, more, sh, node, c) /\ Compact(v.arena, node)
    BY <2>3, <2>5 DEF Right, Compact
  <2>7. Grown(arena, place, sh, c, r, more)
    BY <1>1, <2>1, <2>4, <2>6 DEF Grown
  <2> QED BY <2>7 DEF kids
<1>6. CASE ~Uniform(kids)
  <2> DEFINE base == Len(v.arena)
             longer == v.arena \o kids
             most == more \cup EightAt(base, c)
             mask == Occupied(kids)
             node == Branch(base, mask)
  <2>1. r.arena = longer /\ r.node = node
    BY <1>6 DEF Laid
  <2>2. TreeAt(longer, most, sh)
    BY ONLY <1>1, <1>2, LaidTree, c \in Fitting, c.level > 0
  <2>3. /\ v.arena \in Seq(SvoNodes) /\ base \in Nat /\ arena \in Seq(SvoNodes)
        /\ Len(arena) \in Nat /\ Len(arena) <= base
    BY <1>1 DEF Extends
  <2>4. /\ longer \in Seq(SvoNodes) /\ Extends(v.arena, longer)
        /\ \A k \in 1..8 : longer[base + k] = kids[k]
    <3>1. /\ longer \in Seq(SvoNodes) /\ Extends(v.arena, longer)
          /\ \A k \in 1..Len(kids) : longer[base + k] = kids[k]
      BY ONLY <1>1, <2>3, AppendsExtend
    <3> HIDE DEF longer, base
    <3> QED BY <1>1, <3>1
  <2>5. mask \in SUBSET (0..7)
    BY DEF Occupied
  <2>6. node \in SvoNodes /\ ~node.leaf /\ node.base = base /\ node.mask = mask
    BY <2>3, <2>5, MadeNodes
  <2>7. Extends(arena, longer)
    BY <1>1, <2>4, ExtendsOn
  <2> HIDE DEF longer, node, mask, base
  <2>8. ASSUME NEW k \in 0..7
        PROVE  KidPlace(node, c, k) \in most /\ Kid(longer, node, k) = kids[k + 1]
    <3>1. KidPlace(node, c, k) = <<base + k, Octant(c, k)>>
      BY <2>6 DEF KidPlace
    <3>2. base + k + 1 = base + (k + 1) /\ k + 1 \in 1..8
      BY <2>3
    <3>3. <<base + k, Octant(c, k)>> \in EightAt(base, c)
      BY <2>3, EightPlaced
    <3> QED BY <2>4, <2>6, <3>1, <3>2, <3>3 DEF Kid
  <2> HIDE DEF most
  <2>9. ASSUME NEW k \in 0..7, k \notin mask PROVE Kid(longer, node, k) = Leaf(Air)
    <3>0. k + 1 \in 1..8
      OBVIOUS
    <3>1. kids[k + 1] \in SvoNodes
      BY <1>3, <3>0
    <3>2. kids[k + 1].leaf /\ kids[k + 1].of.kind = "air"
      BY <2>9 DEF mask, Occupied
    <3>3. kids[k + 1] = Leaf(kids[k + 1].of) /\ kids[k + 1].of \in Attributes
      BY <3>1, <3>2, NodesAre
    <3>4. kids[k + 1] = Leaf(Air)
      BY <3>2, <3>3, AttributesAre
    <3> QED BY <2>8, <3>4
  <2>10. Right(longer, most, sh, node, c)
    BY <2>6, <2>8, <2>9 DEF Right
  <2>11. Compact(longer, node)
    <3>1. \A k \in 1..8 : KidsAt(longer, node.base)[k] = kids[k]
      <4> TAKE k \in 1..8
      <4>1. KidsAt(longer, node.base)[(k - 1) + 1] = Kid(longer, node, k - 1)
        BY ONLY <1>3, <2>3, <2>6, KidsAre, k \in 1..8
      <4> QED BY <1>3, <2>8, <4>1
    <3>2. Uniform(KidsAt(longer, node.base)) <=> Uniform(kids)
      BY <1>4, <3>1 DEF Uniform
    <3> QED BY <1>6, <3>2 DEF Compact
  <2>12. Added(arena, place, c, most)
    <3>1. place \subseteq most
      BY <1>1 DEF Added, most
    <3>2. ASSUME NEW e \in most \ place
          PROVE  e[1] >= Len(arena) /\ e[2].level < c.level /\ \A p \in Space : InCube(p, e[2]) => InCube(p, c)
      <4>1. CASE e \in more
        BY <1>1, <4>1 DEF Added
      <4>2. CASE e \notin more
        <5>1. e \in EightAt(base, c)
          BY <4>2 DEF most
        <5>2. PICK k \in 0..7 : e = <<base + k, Octant(c, k)>>
          BY <2>3, <5>1, EightPlaced
        <5>3. e[1] = base + k /\ e[2] = Octant(c, k)
          BY <5>2
        <5>4. /\ Octant(c, k).level = c.level - 1 /\ \A p \in Space : InCube(p, Octant(c, k)) => InCube(p, c)
          BY OctantIs
        <5>5. c.level \in Int
          BY CubesAre, ArenaAssumption
        <5>6. e[1] >= Len(arena) /\ e[2].level < c.level
          BY <2>3, <5>3, <5>4, <5>5
        <5> QED BY <5>3, <5>4, <5>6
      <4> QED BY <4>1, <4>2
    <3> QED BY <3>1, <3>2 DEF Added
  <2>13. Grown(arena, place, sh, c, r, most)
    BY <2>1, <2>2, <2>6, <2>7, <2>10, <2>11, <2>12 DEF Grown, longer, node
  <2> QED BY <2>13 DEF kids
<1> QED BY <1>5, <1>6

-----------------------------------------------------------------------------
(* What the builders build.                                                *)

\* The cubes known to be uniform are.
Sampling(sample, known) ==
  /\ \A p \in Space : sample[p] \in Attributes
  /\ \A c \in Fitting : c \in known => Shows(sample, c, sample[c.origin])

\* A cube's leaf.
OneLeaf(arena, a) == [arena |-> arena, node |-> Leaf(a)]

\* A cube that is uniform is built by one leaf.
LEMMA OneLeafGrown ==
  ASSUME NEW arena, NEW place, NEW sh, TreeAt(arena, place, sh), NEW c,
         NEW a \in Attributes, Shows(sh, c, a)
  PROVE  Grown(arena, place, sh, c, OneLeaf(arena, a), place)
<1> DEFINE r == OneLeaf(arena, a)
<1>1. r.arena = arena /\ r.node = Leaf(a)
  BY DEF OneLeaf
<1>2. arena \in Seq(SvoNodes)
  BY DEF TreeAt, Graph, Arenas
<1>3. Extends(arena, arena)
  BY <1>2 DEF Extends
<1>4. Right(arena, place, sh, Leaf(a), c) /\ Compact(arena, Leaf(a))
  BY MadeNodes DEF Right, Compact
<1>5. Added(arena, place, c, place)
  BY DEF Added
<1> HIDE DEF r
<1> QED BY <1>1, <1>3, <1>4, <1>5 DEF Grown, r

\* A voxel is all of its cube.
LEMMA VoxelShows ==
  ASSUME NEW sh, NEW c \in Fitting, c.level = 0
  PROVE  Shows(sh, c, sh[c.origin])
<1> SUFFICES ASSUME NEW p \in Space, InCube(p, c) PROVE p = c.origin
  BY DEF Shows
<1> DEFINE o == c.origin
<1>1. SideAt[c.level] = 1
  BY SideAtUnfolds
<1>2. \A i \in 1..3 : o[i] <= p[i] /\ p[i] < o[i] + 1
  BY <1>1 DEF InCube
<1>3. /\ o \in Space /\ Edge \in Nat
  BY CubesAre, WholeFits
<1> HIDE DEF o
<1>4. /\ o[1] \in Nat /\ o[2] \in Nat /\ o[3] \in Nat /\ o = <<o[1], o[2], o[3]>>
      /\ p[1] \in Nat /\ p[2] \in Nat /\ p[3] \in Nat /\ p = <<p[1], p[2], p[3]>>
  BY <1>3 DEF Space
<1>5. p[1] = o[1] /\ p[2] = o[2] /\ p[3] = o[3]
  <2>1. /\ o[1] <= p[1] /\ p[1] < o[1] + 1
        /\ o[2] <= p[2] /\ p[2] < o[2] + 1
        /\ o[3] <= p[3] /\ p[3] < o[3] + 1
    BY <1>2
  <2> QED BY <1>4, <2>1
<1> QED BY <1>4, <1>5 DEF o

\* The calls for cubes of level n build them.
Grows(sample, known, n) ==
  \A arena, place, c :
    TreeAt(arena, place, sample) /\ c \in Fitting /\ c.level = n /\ Free(place, c) =>
      \E more : Grown(arena, place, sample, c, Grow(sample, known)[n][arena][c.origin], more)

\* The origins of the octants, that the eight calls are made with.
Origins(c) == [k \in 0..7 |-> Octant(c, k).origin]

\* The eight calls build octant after octant.
LEMMA VisitsGrow ==
  ASSUME NEW sample, NEW known, Sampling(sample, known), NEW n \in 1..Depth,
         Grows(sample, known, n - 1),
         NEW arena, NEW place, TreeAt(arena, place, sample),
         NEW c \in Fitting, c.level = n, Free(place, c)
  PROVE  \A k \in 0..8 : \E more : Visiting(arena, place, sample, c, k,
                           Visits(Grow(sample, known)[n - 1], arena, Origins(c))[k], more)
<1> DEFINE call == Grow(sample, known)[n - 1]
           V(k) == Visits(call, arena, Origins(c))[k]
           SoFar(k) == \E more : Visiting(arena, place, sample, c, k, V(k), more)
           bad == {k \in 0..8 : ~SoFar(k)}
<1>0. c.level > 0 /\ Depth \in Nat
  BY ArenaAssumption
<1>1. V(0) = [arena |-> arena, kids |-> <<>>]
  BY VisitsUnfolds
<1>2. ASSUME NEW k \in 0..7
      PROVE  V(k + 1) = [arena |-> call[V(k).arena][Octant(c, k).origin].arena,
                         kids |-> Append(V(k).kids, call[V(k).arena][Octant(c, k).origin].node)]
  <2>1. k + 1 \in 1..8 /\ (k + 1) - 1 = k
    OBVIOUS
  <2>2. V(k + 1) = Visited(call, Origins(c), k + 1, V((k + 1) - 1))
    <3> HIDE DEF call
    <3>1. \A m \in 1..8 : V(m) = Visited(call, Origins(c), m, V(m - 1))
      BY VisitsUnfolds
    <3> HIDE DEF V
    <3> QED BY <2>1, <3>1
  <2>3. Origins(c)[k] = Octant(c, k).origin
    BY DEF Origins
  <2> HIDE DEF call
  <2> QED BY <2>1, <2>2, <2>3 DEF Visited
<1> HIDE DEF V, call
<1>3. SoFar(0)
  <2> DEFINE v == V(0)
  <2>1. v.arena = arena /\ v.kids = <<>>
    BY <1>1
  <2>2. arena \in Seq(SvoNodes)
    BY DEF TreeAt, Graph, Arenas
  <2>3. Extends(arena, arena)
    BY <2>2 DEF Extends
  <2>4. Added(arena, place, c, place)
    BY DEF Added
  <2>5. \A j \in 0..7 : Free(place, Octant(c, j))
    BY <1>0, OctantIs DEF Free
  <2> HIDE DEF v
  <2>6. v.kids \in Seq(SvoNodes) /\ Len(v.kids) = 0
    BY <2>1
  <2>7. Visiting(arena, place, sample, c, 0, v, place)
    BY <2>1, <2>3, <2>4, <2>5, <2>6 DEF Visiting
  <2> QED BY <2>7 DEF v
<1>4. ASSUME NEW k \in 0..7, SoFar(k) PROVE SoFar(k + 1)
  <2> DEFINE v == V(k)
             o == Octant(c, k)
             r == call[v.arena][o.origin]
  <2>1. PICK more : Visiting(arena, place, sample, c, k, v, more)
    BY <1>4
  <2>2. o \in Fitting /\ o.level = n - 1
    BY <1>0, OctantIs
  <2>3. TreeAt(v.arena, more, sample) /\ Free(more, o)
    <3>1. k \in k..7
      OBVIOUS
    <3> HIDE DEF v
    <3> QED BY <2>1, <3>1 DEF Visiting
  <2>4. PICK most : Grown(v.arena, more, sample, o, r, most)
    <3> HIDE DEF v, o
    <3> QED BY <2>2, <2>3 DEF Grows, call
  <2>5. V(k + 1) = [arena |-> r.arena, kids |-> Append(v.kids, r.node)]
    BY <1>2
  <2> HIDE DEF v, r
  <2>6. Visiting(arena, place, sample, c, k + 1, [arena |-> r.arena, kids |-> Append(v.kids, r.node)], most)
    BY <1>0, <2>1, <2>4, VisitsOn
  <2> QED BY <2>5, <2>6
<1> HIDE DEF SoFar
<1>5. ASSUME bad # {} PROVE FALSE
  <2>1. bad \in SUBSET Nat
    OBVIOUS
  <2>2. PICK k \in bad : \A j \in bad : k <= j
    <3> HIDE DEF bad
    <3> QED BY <1>5, <2>1, LeastNumber
  <2>3. k # 0
    BY <1>3, <2>2
  <2>4. k - 1 \in 0..7 /\ (k - 1) + 1 = k /\ k - 1 \notin bad
    BY <2>2, <2>3
  <2>5. SoFar(k - 1)
    BY <2>4
  <2>6. SoFar(k)
    BY <1>4, <2>4, <2>5
  <2> QED BY <2>2, <2>6
<1>6. \A k \in 0..8 : SoFar(k)
  BY <1>5
<1> QED BY <1>6 DEF SoFar, V, call

\* A call for a cube, unfolded.
LEMMA GrowStep ==
  ASSUME NEW sample, NEW known, NEW n \in 1..Depth, NEW arena \in Arenas,
         NEW c \in Fitting, c.level = n
  PROVE  Grow(sample, known)[n][arena][c.origin] =
           LET v == Visits(Grow(sample, known)[n - 1], arena, Origins(c))[8]
           IN  IF c \in known THEN OneLeaf(arena, sample[c.origin]) ELSE Laid(v.arena, v.kids)
<1> DEFINE grow == Grow(sample, known)[n - 1]
           o == c.origin
<1>1. o \in Space /\ c = CubeAt(o, n)
  BY CubesAre
<1>2. Grow(sample, known)[n] = GrowCube(sample, known, n, grow)
  BY GrowUnfolds
<1> HIDE DEF grow, o
<1>3. GrowCube(sample, known, n, grow)[arena][o] =
        LET v == Visits(grow, arena, Origins(CubeAt(o, n)))[8]
        IN  IF CubeAt(o, n) \in known THEN OneLeaf(arena, sample[o]) ELSE Laid(v.arena, v.kids)
  BY <1>1 DEF GrowCube, OneLeaf, Origins
<1> QED BY <1>1, <1>2, <1>3 DEF grow, o

\* A call for a voxel, unfolded.
LEMMA GrowStart ==
  ASSUME NEW sample, NEW known, NEW arena \in Arenas, NEW c \in Fitting, c.level = 0
  PROVE  Grow(sample, known)[0][arena][c.origin] = OneLeaf(arena, sample[c.origin])
<1>1. c.origin \in Space
  BY CubesAre
<1>2. Grow(sample, known)[0] = GrowVoxel(sample)
  BY GrowUnfolds
<1> QED BY <1>1, <1>2 DEF GrowVoxel, OneLeaf

\* A call for any cube in which nothing is placed yet builds it, whatever cubes
\* the sampler knows to be uniform.
LEMMA GrowIs ==
  ASSUME NEW sample, NEW known, Sampling(sample, known)
  PROVE  \A n \in 0..Depth : Grows(sample, known, n)
<1> DEFINE bad == {n \in 0..Depth : ~Grows(sample, known, n)}
<1>0. Depth \in Nat
  BY ArenaAssumption
<1>1. Grows(sample, known, 0)
  <2> SUFFICES ASSUME NEW arena, NEW place, NEW c,
                      TreeAt(arena, place, sample), c \in Fitting, c.level = 0
               PROVE  \E more : Grown(arena, place, sample, c, Grow(sample, known)[0][arena][c.origin], more)
    BY DEF Grows
  <2>1. arena \in Arenas
    BY DEF TreeAt, Graph
  <2>2. Grow(sample, known)[0][arena][c.origin] = OneLeaf(arena, sample[c.origin])
    BY <2>1, GrowStart
  <2>3. sample[c.origin] \in Attributes /\ Shows(sample, c, sample[c.origin])
    BY CubesAre, VoxelShows DEF Sampling
  <2>4. Grown(arena, place, sample, c, OneLeaf(arena, sample[c.origin]), place)
    BY <2>3, OneLeafGrown
  <2> QED BY <2>2, <2>4
<1>2. ASSUME NEW n \in 1..Depth, Grows(sample, known, n - 1) PROVE Grows(sample, known, n)
  <2> SUFFICES ASSUME NEW arena, NEW place, NEW c,
                      TreeAt(arena, place, sample), c \in Fitting, c.level = n, Free(place, c)
               PROVE  \E more : Grown(arena, place, sample, c, Grow(sample, known)[n][arena][c.origin], more)
    BY DEF Grows
  <2> DEFINE v == Visits(Grow(sample, known)[n - 1], arena, Origins(c))[8]
             r == Grow(sample, known)[n][arena][c.origin]
  <2>1. arena \in Arenas /\ c.level > 0
    BY DEF TreeAt, Graph
  <2>2. r = IF c \in known THEN OneLeaf(arena, sample[c.origin]) ELSE Laid(v.arena, v.kids)
    BY <2>1, GrowStep
  <2>3. CASE c \in known
    <3>1. sample[c.origin] \in Attributes /\ Shows(sample, c, sample[c.origin])
      BY <2>3, CubesAre DEF Sampling
    <3>2. Grown(arena, place, sample, c, OneLeaf(arena, sample[c.origin]), place)
      BY <3>1, OneLeafGrown
    <3> HIDE DEF r, v
    <3> QED BY <2>2, <2>3, <3>2 DEF r
  <2>4. CASE c \notin known
    <3>1. 8 \in 0..8
      OBVIOUS
    <3>2. \A k \in 0..8 : \E more : Visiting(arena, place, sample, c, k,
                           Visits(Grow(sample, known)[n - 1], arena, Origins(c))[k], more)
      BY ONLY VisitsGrow, Sampling(sample, known), n \in 1..Depth, <1>2, TreeAt(arena, place, sample),
              c \in Fitting, c.level = n, Free(place, c)
    <3>3. PICK more : Visiting(arena, place, sample, c, 8, v, more)
      BY <3>1, <3>2
    <3> HIDE DEF r, v
    <3>4. \E most : Grown(arena, place, sample, c, Laid(v.arena, v.kids), most)
      BY <2>1, <3>3, LaidIs
    <3> QED BY <2>2, <2>4, <3>4 DEF r
  <2> QED BY <2>3, <2>4
<1> HIDE DEF bad
<1>3. ASSUME bad # {} PROVE FALSE
  <2>1. bad \in SUBSET Nat
    BY <1>0 DEF bad
  <2>2. PICK n \in bad : \A j \in bad : n <= j
    BY <1>3, <2>1, LeastNumber
  <2>3. n \in 0..Depth /\ ~Grows(sample, known, n)
    BY <2>2 DEF bad
  <2>4. n \in 1..Depth /\ n - 1 \in 0..Depth /\ ~(n <= n - 1)
    BY <1>0, <1>1, <2>3
  <2>5. Grows(sample, known, n - 1)
    BY <2>2, <2>4 DEF bad
  <2> QED BY <1>2, <2>3, <2>4, <2>5
<1> QED BY <1>3 DEF bad

\* The root is laid last.
LEMMA RootGraph ==
  ASSUME NEW arena, NEW place, NEW sh, Graph(arena, place, sh), Compacted(arena, place),
         NEW node, Right(arena, place, sh, node, Whole), Compact(arena, node)
  PROVE  LET longer == Append(arena, node)
             e == <<Len(arena), Whole>>
         IN  /\ Graph(longer, place \cup {e}, sh) /\ Compacted(longer, place \cup {e})
             /\ e \in Nat \X Fitting /\ longer[e[1] + 1] = node
             /\ \A f \in place : f[1] \in Nat /\ f[1] < Len(arena) /\ longer[f[1] + 1] = arena[f[1] + 1]
<1> DEFINE longer == Append(arena, node)
           base == Len(arena)
           root0 == <<base, Whole>>
           more == place \cup {root0}
<1>1. arena \in Seq(SvoNodes) /\ base \in Nat /\ node \in SvoNodes
  BY DEF Graph, Arenas, Right
<1>2. /\ longer \in Seq(SvoNodes) /\ Len(longer) = base + 1 /\ longer[base + 1] = node
      /\ \A i \in 1..base : longer[i] = arena[i]
  BY <1>1
<1>3. Extends(arena, longer)
  BY <1>1, <1>2 DEF Extends
<1>4. root0 \in Nat \X Fitting /\ root0[1] = base /\ root0[2] = Whole /\ place \subseteq more
  BY <1>1, WholeFits
<1>5. \A f \in place : /\ f \in Nat \X Fitting /\ f[1] \in Nat /\ f[1] < base /\ f[1] + 1 \in 1..base
                       /\ f[2] \in Fitting /\ longer[f[1] + 1] = arena[f[1] + 1]
                       /\ Right(arena, place, sh, arena[f[1] + 1], f[2])
                       /\ Compact(arena, arena[f[1] + 1])
  <2> TAKE f \in place
  <2>1. /\ f[1] \in Nat /\ f[1] < base /\ f[1] + 1 \in 1..base /\ f[2] \in Fitting
        /\ Right(arena, place, sh, arena[f[1] + 1], f[2])
    BY ONLY PlacedIs, Graph(arena, place, sh), f \in place
  <2>2. f \in Nat \X Fitting
    BY DEF Graph
  <2> HIDE DEF longer, base
  <2> QED BY <1>2, <2>1, <2>2 DEF Compacted
<1> HIDE DEF longer, more, root0, base
<1>6. ASSUME NEW n, NEW d \in Fitting, Right(arena, place, sh, n, d), Compact(arena, n)
      PROVE  Right(longer, more, sh, n, d) /\ Compact(longer, n)
  BY ONLY <1>3, <1>4, <1>6, RightStays, Graph(arena, place, sh)
<1>7. ASSUME NEW e \in more
      PROVE  /\ e \in Nat \X Fitting /\ e[1] < Len(longer)
             /\ Right(longer, more, sh, longer[e[1] + 1], e[2]) /\ Compact(longer, longer[e[1] + 1])
  <2>1. CASE e \in place
    <3>1. e \in Nat \X Fitting /\ e[1] < Len(longer)
      BY <1>1, <1>2, <1>5, <2>1
    <3>2. Right(longer, more, sh, arena[e[1] + 1], e[2]) /\ Compact(longer, arena[e[1] + 1])
      BY <1>5, <1>6, <2>1
    <3> QED BY <1>5, <2>1, <3>1, <3>2
  <2>2. CASE e = root0
    <3>1. e[1] < Len(longer) /\ longer[e[1] + 1] = node
      BY <1>1, <1>2, <1>4, <2>2
    <3>2. Right(longer, more, sh, node, Whole) /\ Compact(longer, node)
      BY <1>6, WholeFits
    <3> QED BY <1>4, <2>2, <3>1, <3>2
  <2> QED BY <2>1, <2>2 DEF more
<1>8. Graph(longer, more, sh) /\ Compacted(longer, more)
  BY <1>2, <1>7 DEF Graph, Compacted, Arenas
<1>9. longer[root0[1] + 1] = node
  BY <1>2, <1>4
<1>10. \A f \in place : f[1] \in Nat /\ f[1] < base /\ longer[f[1] + 1] = arena[f[1] + 1]
  BY <1>5
<1> QED BY <1>4, <1>8, <1>9, <1>10 DEF longer, more, root0, base

\* An arena and its root, as they come from a builder or from compression.
Rooted(arena, i, place, sh) ==
  /\ Graph(arena, place, sh) /\ Compacted(arena, place) /\ <<i, Whole>> \in place

\* What the builders leave is a compacted tree that shows the samples.
LEMMA TreeIs ==
  ASSUME NEW sample, NEW known, Sampling(sample, known)
  PROVE  \E place : /\ Rooted(Tree(sample, known).nodes, Tree(sample, known).root, place, sample)
                    /\ Apart(Tree(sample, known).nodes, place)
<1> DEFINE r == Grow(sample, known)[Depth][<<>>][Whole.origin]
           longer == Append(r.arena, r.node)
           base == Len(r.arena)
<1>1. Tree(sample, known).nodes = longer /\ Tree(sample, known).root = base
  BY DEF Tree
<1>2. TreeAt(<<>>, {}, sample)
  <2>1. <<>> \in Arenas
    BY DEF Arenas
  <2> QED BY <2>1 DEF TreeAt, Graph, Apart, Compacted
<1>3. Free({}, Whole) /\ Whole \in Fitting /\ Whole.level = Depth /\ Depth \in 0..Depth
  BY WholeFits, ArenaAssumption DEF Free
<1>4. PICK place : Grown(<<>>, {}, sample, Whole, r, place)
  <2>1. Grows(sample, known, Depth)
    BY <1>3, GrowIs
  <2> QED BY <1>2, <1>3, <2>1 DEF Grows
<1> HIDE DEF r
<1>5. /\ Graph(r.arena, place, sample) /\ Apart(r.arena, place) /\ Compacted(r.arena, place)
      /\ Right(r.arena, place, sample, r.node, Whole) /\ Compact(r.arena, r.node)
      /\ r.node.leaf => place = {}
      /\ \A f \in place : f[2].level < Depth
  BY <1>3, <1>4 DEF Grown, TreeAt, Added
<1> DEFINE e == <<base, Whole>>
           more == place \cup {e}
<1>6. /\ Graph(longer, more, sample) /\ Compacted(longer, more)
      /\ e \in Nat \X Fitting /\ longer[e[1] + 1] = r.node
      /\ \A f \in place : f[1] \in Nat /\ f[1] < base /\ longer[f[1] + 1] = r.arena[f[1] + 1]
  BY ONLY <1>5, RootGraph
<1>7. e[1] = base /\ e[2] = Whole
  OBVIOUS
<1> HIDE DEF longer, e, base
<1>8. Apart(longer, more)
  <2> DEFINE Clear(a, b) == /\ a[1] # b[1]
                            /\ \A p \in Space : InCube(p, a[2]) /\ InCube(p, b[2]) =>
                                 Over(longer, a, b) \/ Over(longer, b, a)
  <2>1. ASSUME NEW a \in place, NEW b \in place, a # b PROVE Clear(a, b)
    <3>1. longer[a[1] + 1] = r.arena[a[1] + 1] /\ longer[b[1] + 1] = r.arena[b[1] + 1]
      BY <1>6
    <3> QED BY <1>5, <2>1, <3>1 DEF Apart, Over
  <2>2. ASSUME NEW a \in place PROVE Clear(a, e) /\ Clear(e, a)
    <3>1. ~r.node.leaf
      BY <1>5
    <3>2. Over(longer, e, a)
      BY <1>3, <1>5, <1>6, <1>7, <3>1 DEF Over
    <3>3. a[1] # e[1]
      <4>1. a[1] \in Nat /\ a[1] < base /\ e[1] \in Nat
        BY <1>6
      <4> QED BY <1>7, <4>1
    <3> QED BY <3>2, <3>3
  <2>3. ASSUME NEW a \in more, NEW b \in more, a # b PROVE Clear(a, b)
    <3> HIDE DEF Clear
    <3> QED BY <2>1, <2>2, <2>3
  <2> QED BY <2>3 DEF Apart
<1>9. e \in more
  OBVIOUS
<1>10. Rooted(longer, base, more, sample)
  BY <1>6, <1>9 DEF Rooted, e
<1> QED BY <1>1, <1>8, <1>10

-----------------------------------------------------------------------------
(* Whatever is known in advance, the same is built.                        *)

\* Of a uniform cube the exhaustive traversal makes one leaf.
Leaves(sample, n) ==
  \A c, a : c \in Fitting /\ c.level = n /\ a \in Attributes /\ Shows(sample, c, a) =>
    \A arena \in Arenas : Grow(sample, {})[n][arena][c.origin] = OneLeaf(arena, a)

\* The first k calls for a uniform cube.
LeavesVisited(arena, a, k, v) == v.arena = arena /\ v.kids \in Seq({Leaf(a)}) /\ Len(v.kids) = k

\* Of a uniform cube every octant is one leaf, and the arena stays as it is.
LEMMA VisitsLeaves ==
  ASSUME NEW sample, NEW n \in 1..Depth, Leaves(sample, n - 1),
         NEW c \in Fitting, c.level = n, NEW a \in Attributes, Shows(sample, c, a), NEW arena \in Arenas
  PROVE  \A k \in 0..8 : LeavesVisited(arena, a, k, Visits(Grow(sample, {})[n - 1], arena, Origins(c))[k])
<1> DEFINE call == Grow(sample, {})[n - 1]
           V(k) == Visits(call, arena, Origins(c))[k]
           SoFar(k) == LeavesVisited(arena, a, k, V(k))
           bad == {k \in 0..8 : ~SoFar(k)}
<1>0. c.level > 0 /\ Depth \in Nat
  BY ArenaAssumption
<1>1. V(0) = [arena |-> arena, kids |-> <<>>]
  BY VisitsUnfolds
<1>2. \A m \in 1..8 : V(m) = Visited(call, Origins(c), m, V(m - 1))
  <2> HIDE DEF call
  <2> QED BY VisitsUnfolds
<1> HIDE DEF V, call
<1>3. SoFar(0)
  <2>1. V(0).arena = arena /\ V(0).kids = <<>>
    BY <1>1
  <2>2. <<>> \in Seq({Leaf(a)}) /\ Len(<<>>) = 0
    OBVIOUS
  <2> QED BY <2>1, <2>2 DEF LeavesVisited
<1>4. ASSUME NEW k \in 0..7, SoFar(k) PROVE SoFar(k + 1)
  <2> DEFINE v == V(k)
             o == Octant(c, k)
  <2>1. k + 1 \in 1..8 /\ (k + 1) - 1 = k
    OBVIOUS
  <2>2. Origins(c)[k] = o.origin
    BY DEF Origins
  <2>3. o \in Fitting /\ o.level = n - 1 /\ Shows(sample, o, a)
    BY <1>0, OctantIs DEF Shows
  <2>4. call[arena][o.origin] = OneLeaf(arena, a)
    <3> HIDE DEF o
    <3> QED BY <2>3 DEF Leaves, call
  <2> HIDE DEF o
  <2>5. V(k + 1) = [arena |-> arena, kids |-> Append(v.kids, Leaf(a))]
    <3>1. V(k + 1) = Visited(call, Origins(c), k + 1, v)
      BY <1>2, <2>1
    <3>2. v.arena = arena
      BY <1>4 DEF LeavesVisited
    <3>3. Origins(c)[(k + 1) - 1] = o.origin
      BY <2>1, <2>2
    <3> HIDE DEF v, o
    <3> DEFINE last == call[v.arena][Origins(c)[(k + 1) - 1]]
    <3>4. V(k + 1) = [arena |-> last.arena, kids |-> Append(v.kids, last.node)]
      BY <3>1 DEF Visited
    <3>5. last = OneLeaf(arena, a)
      BY <2>4, <3>2, <3>3
    <3> HIDE DEF last
    <3>6. last.arena = arena /\ last.node = Leaf(a)
      BY <3>5 DEF OneLeaf
    <3> QED BY <3>4, <3>6
  <2>6. V(k + 1).arena = arena /\ V(k + 1).kids = Append(v.kids, Leaf(a))
    BY <2>5
  <2> HIDE DEF v
  <2>7. v.kids \in Seq({Leaf(a)}) /\ Len(v.kids) = k
    BY <1>4 DEF v, LeavesVisited
  <2> DEFINE s == v.kids
             l == Leaf(a)
  <2> HIDE DEF s, l
  <2>8. s \in Seq({l}) /\ Len(s) = k
    BY <2>7 DEF s, l
  <2>9. Append(s, l) \in Seq({l}) /\ Len(Append(s, l)) = k + 1
    BY <2>8
  <2> QED BY <2>6, <2>9 DEF s, l, LeavesVisited
<1> HIDE DEF SoFar
<1>5. ASSUME bad # {} PROVE FALSE
  <2>1. bad \in SUBSET Nat
    OBVIOUS
  <2>2. PICK k \in bad : \A j \in bad : k <= j
    <3> HIDE DEF bad
    <3> QED BY <1>5, <2>1, LeastNumber
  <2>3. k # 0
    BY <1>3, <2>2
  <2>4. k - 1 \in 0..7 /\ (k - 1) + 1 = k /\ k - 1 \notin bad
    BY <2>2, <2>3
  <2>5. SoFar(k - 1)
    BY <2>4
  <2>6. SoFar(k)
    BY <1>4, <2>4, <2>5
  <2> QED BY <2>2, <2>6
<1>6. \A k \in 0..8 : SoFar(k)
  BY <1>5
<1> QED BY <1>6 DEF SoFar, V, call

\* Of a uniform cube of any level the exhaustive traversal makes one leaf and
\* lays nothing down.
LEMMA LeavesIs ==
  ASSUME NEW sample
  PROVE  \A n \in 0..Depth : Leaves(sample, n)
<1> DEFINE bad == {n \in 0..Depth : ~Leaves(sample, n)}
<1>0. Depth \in Nat
  BY ArenaAssumption
<1>1. Leaves(sample, 0)
  <2> SUFFICES ASSUME NEW c, NEW a, c \in Fitting, c.level = 0, a \in Attributes, Shows(sample, c, a),
                      NEW arena \in Arenas
               PROVE  Grow(sample, {})[0][arena][c.origin] = OneLeaf(arena, a)
    BY DEF Leaves
  <2>1. sample[c.origin] = a
    BY HoldsOrigin DEF Shows
  <2> QED BY <2>1, GrowStart
<1>2. ASSUME NEW n \in 1..Depth, Leaves(sample, n - 1) PROVE Leaves(sample, n)
  <2> SUFFICES ASSUME NEW c, NEW a, c \in Fitting, c.level = n, a \in Attributes, Shows(sample, c, a),
                      NEW arena \in Arenas
               PROVE  Grow(sample, {})[n][arena][c.origin] = OneLeaf(arena, a)
    BY DEF Leaves
  <2> DEFINE v == Visits(Grow(sample, {})[n - 1], arena, Origins(c))[8]
             known == {}
  <2>1. Grow(sample, known)[n][arena][c.origin] =
          IF c \in known THEN OneLeaf(arena, sample[c.origin]) ELSE
            Laid(Visits(Grow(sample, known)[n - 1], arena, Origins(c))[8].arena,
                 Visits(Grow(sample, known)[n - 1], arena, Origins(c))[8].kids)
    <3> HIDE DEF known
    <3> QED BY GrowStep
  <2>2. Grow(sample, {})[n][arena][c.origin] = Laid(v.arena, v.kids)
    BY <2>1
  <2>3. 8 \in 0..8
    OBVIOUS
  <2>4. v.arena = arena /\ v.kids \in Seq({Leaf(a)}) /\ Len(v.kids) = 8
    <3>1. \A k \in 0..8 : LeavesVisited(arena, a, k, Visits(Grow(sample, {})[n - 1], arena, Origins(c))[k])
      BY ONLY <1>2, VisitsLeaves, n \in 1..Depth, c \in Fitting, c.level = n, a \in Attributes,
              Shows(sample, c, a), arena \in Arenas
    <3> QED BY <2>3, <3>1 DEF LeavesVisited
  <2> HIDE DEF v
  <2>5. \A k \in 1..8 : v.kids[k] = Leaf(a)
    BY <2>4
  <2>6. 1 \in 1..8 /\ Leaf(a).leaf
    BY DEF Leaf
  <2>7. Uniform(v.kids) /\ v.kids[1] = Leaf(a)
    BY <2>5, <2>6 DEF Uniform
  <2> QED BY <2>2, <2>4, <2>7 DEF Laid, OneLeaf
<1> HIDE DEF bad
<1>3. ASSUME bad # {} PROVE FALSE
  <2>1. bad \in SUBSET Nat
    BY <1>0 DEF bad
  <2>2. PICK n \in bad : \A j \in bad : n <= j
    BY <1>3, <2>1, LeastNumber
  <2>3. n \in 0..Depth /\ ~Leaves(sample, n)
    BY <2>2 DEF bad
  <2>4. n \in 1..Depth /\ n - 1 \in 0..Depth /\ ~(n <= n - 1)
    BY <1>0, <1>1, <2>3
  <2>5. Leaves(sample, n - 1)
    BY <2>2, <2>4 DEF bad
  <2> QED BY <1>2, <2>3, <2>4, <2>5
<1> QED BY <1>3 DEF bad

\* The calls for cubes of level n build the same with and without what is known.
Alike(sample, known, n) ==
  \A arena, place, c :
    TreeAt(arena, place, sample) /\ c \in Fitting /\ c.level = n /\ Free(place, c) =>
      Grow(sample, known)[n][arena][c.origin] = Grow(sample, {})[n][arena][c.origin]

\* If the octants are built alike, so are the eight calls.
LEMMA VisitsAlike ==
  ASSUME NEW sample, NEW known, Sampling(sample, {}), NEW n \in 1..Depth,
         Alike(sample, known, n - 1),
         NEW arena, NEW place, TreeAt(arena, place, sample),
         NEW c \in Fitting, c.level = n, Free(place, c)
  PROVE  Visits(Grow(sample, known)[n - 1], arena, Origins(c))[8]
           = Visits(Grow(sample, {})[n - 1], arena, Origins(c))[8]
<1> DEFINE call == Grow(sample, {})[n - 1]
           mine == Grow(sample, known)[n - 1]
           V(k) == Visits(call, arena, Origins(c))[k]
           W(k) == Visits(mine, arena, Origins(c))[k]
           bad == {k \in 0..8 : V(k) # W(k)}
<1>0. c.level > 0 /\ Depth \in Nat
  BY ArenaAssumption
<1>1. V(0) = W(0)
  <2> HIDE DEF call, mine
  <2>1. V(0) = [arena |-> arena, kids |-> <<>>]
    BY VisitsUnfolds
  <2>2. W(0) = [arena |-> arena, kids |-> <<>>]
    BY VisitsUnfolds
  <2> QED BY ONLY <2>1, <2>2
<1>2. \A m \in 1..8 : V(m) = Visited(call, Origins(c), m, V(m - 1)) /\ W(m) = Visited(mine, Origins(c), m, W(m - 1))
  <2> HIDE DEF call, mine
  <2> QED BY VisitsUnfolds
<1>3. \A k \in 0..8 : \E more : Visiting(arena, place, sample, c, k, V(k), more)
  <2>1. Grows(sample, {}, n - 1)
    <3>1. n - 1 \in 0..Depth
      BY <1>0
    <3> QED BY <3>1, GrowIs
  <2>2. \A k \in 0..8 : \E more : Visiting(arena, place, sample, c, k,
                           Visits(Grow(sample, {})[n - 1], arena, Origins(c))[k], more)
    BY ONLY <2>1, VisitsGrow, Sampling(sample, {}), n \in 1..Depth, TreeAt(arena, place, sample),
            c \in Fitting, c.level = n, Free(place, c)
  <2> QED BY <2>2
<1> HIDE DEF V, W, call, mine
<1>4. ASSUME NEW k \in 0..7, V(k) = W(k) PROVE V(k + 1) = W(k + 1)
  <2> DEFINE v == V(k)
             o == Octant(c, k)
  <2>1. k + 1 \in 1..8 /\ (k + 1) - 1 = k /\ k \in 0..8 /\ k \in k..7
    OBVIOUS
  <2>2. Origins(c)[k] = o.origin
    BY DEF Origins
  <2>3. PICK more : Visiting(arena, place, sample, c, k, v, more)
    BY <1>3, <2>1
  <2>4. o \in Fitting /\ o.level = n - 1
    BY <1>0, OctantIs
  <2>5. TreeAt(v.arena, more, sample) /\ Free(more, o)
    <3> HIDE DEF v
    <3> QED BY <2>1, <2>3 DEF Visiting
  <2>6. V(k + 1) = Visited(call, Origins(c), k + 1, v) /\ W(k + 1) = Visited(mine, Origins(c), k + 1, v)
    BY <1>2, <1>4, <2>1
  <2> HIDE DEF v, o
  <2>7. mine[v.arena][o.origin] = call[v.arena][o.origin]
    BY <2>4, <2>5 DEF Alike, mine, call
  <2>8. mine[v.arena][Origins(c)[(k + 1) - 1]] = call[v.arena][Origins(c)[(k + 1) - 1]]
    BY <2>1, <2>2, <2>7
  <2>9. Visited(mine, Origins(c), k + 1, v) = Visited(call, Origins(c), k + 1, v)
    BY <2>8 DEF Visited
  <2> QED BY <2>6, <2>9
<1>5. ASSUME bad # {} PROVE FALSE
  <2>1. bad \in SUBSET Nat
    OBVIOUS
  <2>2. PICK k \in bad : \A j \in bad : k <= j
    <3> HIDE DEF bad
    <3> QED BY <1>5, <2>1, LeastNumber
  <2>3. k # 0
    BY <1>1, <2>2
  <2>4. k - 1 \in 0..7 /\ (k - 1) + 1 = k /\ k - 1 \notin bad
    BY <2>2, <2>3
  <2>5. V(k - 1) = W(k - 1)
    BY <2>4
  <2>6. V(k) = W(k)
    BY <1>4, <2>4, <2>5
  <2> QED BY <2>2, <2>6
<1>6. V(8) = W(8)
  <2>1. 8 \in 0..8
    OBVIOUS
  <2> QED BY <1>5, <2>1
<1> QED BY <1>6 DEF V, W, call, mine

\* Any cube is built alike with and without the sampler's knowledge.
LEMMA AlikeIs ==
  ASSUME NEW sample, NEW known, Sampling(sample, known)
  PROVE  \A n \in 0..Depth : Alike(sample, known, n)
<1> DEFINE bad == {n \in 0..Depth : ~Alike(sample, known, n)}
<1>0. Depth \in Nat /\ Sampling(sample, {})
  BY ArenaAssumption DEF Sampling
<1>1. Alike(sample, known, 0)
  <2> SUFFICES ASSUME NEW arena, NEW place, NEW c, TreeAt(arena, place, sample), c \in Fitting, c.level = 0
               PROVE  Grow(sample, known)[0][arena][c.origin] = Grow(sample, {})[0][arena][c.origin]
    BY DEF Alike
  <2>1. arena \in Arenas
    BY DEF TreeAt, Graph
  <2> QED BY <2>1, GrowStart
<1>2. ASSUME NEW n \in 1..Depth, Alike(sample, known, n - 1) PROVE Alike(sample, known, n)
  <2> SUFFICES ASSUME NEW arena, NEW place, NEW c,
                      TreeAt(arena, place, sample), c \in Fitting, c.level = n, Free(place, c)
               PROVE  Grow(sample, known)[n][arena][c.origin] = Grow(sample, {})[n][arena][c.origin]
    BY DEF Alike
  <2> DEFINE v == Visits(Grow(sample, known)[n - 1], arena, Origins(c))[8]
             w == Visits(Grow(sample, {})[n - 1], arena, Origins(c))[8]
             none == {}
  <2>1. arena \in Arenas
    BY DEF TreeAt, Graph
  <2>2. Grow(sample, known)[n][arena][c.origin] =
          IF c \in known THEN OneLeaf(arena, sample[c.origin]) ELSE Laid(v.arena, v.kids)
    BY <2>1, GrowStep
  <2>3. Grow(sample, none)[n][arena][c.origin] =
          IF c \in none THEN OneLeaf(arena, sample[c.origin])
          ELSE Laid(Visits(Grow(sample, none)[n - 1], arena, Origins(c))[8].arena,
                    Visits(Grow(sample, none)[n - 1], arena, Origins(c))[8].kids)
    <3> HIDE DEF none
    <3> QED BY <2>1, GrowStep
  <2>4. Grow(sample, {})[n][arena][c.origin] = Laid(w.arena, w.kids)
    BY <2>3
  <2>5. CASE c \notin known
    <3>1. v = w
      BY ONLY VisitsAlike, <1>0, <1>2, n \in 1..Depth, TreeAt(arena, place, sample),
              c \in Fitting, c.level = n, Free(place, c)
    <3> HIDE DEF v, w
    <3> QED BY <2>2, <2>4, <2>5, <3>1
  <2>6. CASE c \in known
    <3>1. sample[c.origin] \in Attributes /\ Shows(sample, c, sample[c.origin])
      BY <2>6, CubesAre DEF Sampling
    <3>2. Leaves(sample, n)
      BY LeavesIs
    <3>3. Grow(sample, {})[n][arena][c.origin] = OneLeaf(arena, sample[c.origin])
      BY <2>1, <3>1, <3>2 DEF Leaves
    <3> QED BY <2>2, <2>6, <3>3
  <2> QED BY <2>5, <2>6
<1> HIDE DEF bad
<1>3. ASSUME bad # {} PROVE FALSE
  <2>1. bad \in SUBSET Nat
    BY <1>0 DEF bad
  <2>2. PICK n \in bad : \A j \in bad : n <= j
    BY <1>3, <2>1, LeastNumber
  <2>3. n \in 0..Depth /\ ~Alike(sample, known, n)
    BY <2>2 DEF bad
  <2>4. n \in 1..Depth /\ n - 1 \in 0..Depth /\ ~(n <= n - 1)
    BY <1>0, <1>1, <2>3
  <2>5. Alike(sample, known, n - 1)
    BY <2>2, <2>4 DEF bad
  <2> QED BY <1>2, <2>3, <2>4, <2>5
<1> QED BY <1>3 DEF bad

\* The arena is node by node that of the exhaustive traversal, whatever the
\* sampler knows in advance (build_octree_direct.rs:12-15).
LEMMA SameTree ==
  ASSUME NEW sample, NEW known, Sampling(sample, known)
  PROVE  Tree(sample, known) = Tree(sample, {})
<1>1. Depth \in 0..Depth
  BY ArenaAssumption
<1>2. TreeAt(<<>>, {}, sample) /\ Free({}, Whole) /\ Whole \in Fitting /\ Whole.level = Depth
  <2>1. <<>> \in Arenas
    BY DEF Arenas
  <2> QED BY <2>1, WholeFits DEF TreeAt, Graph, Apart, Compacted, Free
<1>3. Alike(sample, known, Depth)
  BY <1>1, AlikeIs
<1>4. Grow(sample, known)[Depth][<<>>][Whole.origin] = Grow(sample, {})[Depth][<<>>][Whole.origin]
  BY <1>2, <1>3 DEF Alike
<1> QED BY <1>4 DEF Tree

-----------------------------------------------------------------------------
(* One node of a tree is exchanged.                                        *)

\* Of the nodes in `loose`, which a call is below, nothing is known but that they
\* stand for their cubes.
TreeBut(arena, place, sh, loose) ==
  /\ Graph(arena, place, sh) /\ Apart(arena, place)
  /\ \A e \in place : e[1] \notin loose => Compact(arena, arena[e[1] + 1])

\* The place e is that of the k-th child of f.
Parent(arena, f, k, e) == ~arena[f[1] + 1].leaf /\ KidPlace(arena[f[1] + 1], f[2], k) = e
\* The parents of e are among the nodes a call is below.
ParentsIn(arena, place, e, loose) ==
  \A f \in place, k \in 0..7 : Parent(arena, f, k, e) => f[1] \in loose

\* No node but that of e is another.
Swapped(arena, new, e) ==
  /\ arena \in Seq(SvoNodes) /\ new \in Seq(SvoNodes) /\ Len(arena) <= Len(new)
  /\ \A j \in 1..Len(arena) : j # e[1] + 1 => new[j] = arena[j]

\* What that means for a node f.
StaysBut(arena, new, e, f) ==
  LET node == arena[f[1] + 1]
  IN  /\ new[f[1] + 1] = node
      /\ \A k \in 0..7 : Parent(arena, f, k, e) => Kid(new, node, k) = new[e[1] + 1]
      /\ \A k \in 0..7 : ~node.leaf /\ ~Parent(arena, f, k, e) => Kid(new, node, k) = Kid(arena, node, k)
      /\ (\A k \in 0..7 : ~Parent(arena, f, k, e)) /\ Compact(arena, node) => Compact(new, node)

\* To put a node in place of another touches no other.
LEMMA SwapIs ==
  ASSUME NEW arena \in Seq(SvoNodes), NEW e, e[1] \in Nat, e[1] < Len(arena), NEW node \in SvoNodes
  PROVE  LET new == [arena EXCEPT ![e[1] + 1] = node]
         IN  Swapped(arena, new, e) /\ Len(new) = Len(arena) /\ new[e[1] + 1] = node
<1> DEFINE new == [arena EXCEPT ![e[1] + 1] = node]
<1>1. Len(arena) \in Nat /\ e[1] + 1 \in 1..Len(arena)
  OBVIOUS
<1>2. new \in Seq(SvoNodes) /\ Len(new) = Len(arena) /\ new[e[1] + 1] = node
  BY <1>1
<1>3. \A j \in 1..Len(arena) : j # e[1] + 1 => new[j] = arena[j]
  BY <1>1
<1> HIDE DEF new
<1>4. Swapped(arena, new, e)
  BY <1>1, <1>2, <1>3 DEF Swapped
<1> QED BY <1>2, <1>4 DEF new

\* Where one node is exchanged, every other node of the tree stays, and so do
\* its children unless the node exchanged is one of them.
LEMMA OthersStay ==
  ASSUME NEW arena, NEW place, NEW sh, Graph(arena, place, sh), Apart(arena, place),
         NEW e \in place, NEW f \in place, f # e, NEW new, Swapped(arena, new, e)
  PROVE  StaysBut(arena, new, e, f)
<1> DEFINE node == arena[f[1] + 1]
           c == f[2]
           base == node.base
<1>1. /\ f[1] \in Nat /\ c \in Fitting /\ f[1] + 1 \in 1..Len(arena) /\ node \in SvoNodes
      /\ Right(arena, place, sh, node, c) /\ Len(arena) \in Nat
  BY ONLY PlacedIs, Graph(arena, place, sh), f \in place
<1>2. e[1] \in Nat /\ e = <<e[1], e[2]>>
  BY ONLY PlacedIs, Graph(arena, place, sh), e \in place
<1>3. f[1] # e[1]
  BY DEF Apart
<1>4. new[f[1] + 1] = node
  <2>1. f[1] + 1 # e[1] + 1
    BY <1>1, <1>2, <1>3
  <2> QED BY <1>1, <2>1 DEF Swapped
<1> HIDE DEF node, c
<1>5. ASSUME NEW k \in 0..7, Parent(arena, f, k, e) PROVE Kid(new, node, k) = new[e[1] + 1]
  <2>1. ~node.leaf /\ KidPlace(node, c, k) = e
    BY <1>5 DEF Parent, node, c
  <2>2. base \in Nat
    BY <1>1, <2>1, NodesAre
  <2>3. e[1] = base + k
    BY <2>1 DEF KidPlace
  <2> QED BY <2>2, <2>3 DEF Kid
<1>6. ASSUME NEW k \in 0..7, ~node.leaf, ~Parent(arena, f, k, e)
      PROVE  Kid(new, node, k) = Kid(arena, node, k)
  <2> DEFINE d == KidPlace(node, c, k)
  <2>1. d \in place /\ base \in Nat /\ base + k < Len(arena)
    BY ONLY <1>1, <1>6, KidIs, Graph(arena, place, sh), k \in 0..7
  <2>2. d # e /\ d[1] = base + k
    BY <1>6 DEF Parent, KidPlace, node, c
  <2>3. d[1] # e[1]
    BY <2>1, <2>2 DEF Apart
  <2> HIDE DEF d
  <2>4. base + k + 1 \in 1..Len(arena) /\ base + k + 1 # e[1] + 1
    <3>1. Len(arena) \in Nat /\ e[1] \in Nat /\ base + k # e[1]
      BY <1>1, <1>2, <2>2, <2>3
    <3> HIDE DEF base
    <3> QED BY ONLY <2>1, <3>1, k \in 0..7
  <2> QED BY <2>4 DEF Swapped, Kid
<1>7. ASSUME \A k \in 0..7 : ~Parent(arena, f, k, e), Compact(arena, node), ~node.leaf
      PROVE  ~Uniform(KidsAt(new, base))
  <2>1. base \in Nat
    BY <1>1, <1>7, NodesAre
  <2>2. \A k \in 1..8 : KidsAt(new, base)[k] = KidsAt(arena, base)[k]
    <3> TAKE k \in 1..8
    <3>1. k - 1 \in 0..7 /\ (k - 1) + 1 = k
      OBVIOUS
    <3>2. /\ KidsAt(new, node.base)[(k - 1) + 1] = Kid(new, node, k - 1)
          /\ KidsAt(arena, node.base)[(k - 1) + 1] = Kid(arena, node, k - 1)
      BY ONLY <2>1, <3>1, KidsAre
    <3> QED BY <1>6, <1>7, <3>1, <3>2
  <2>3. 1 \in 1..8
    OBVIOUS
  <2>4. Uniform(KidsAt(new, base)) <=> Uniform(KidsAt(arena, base))
    BY <2>2, <2>3 DEF Uniform
  <2> QED BY <1>7, <2>4 DEF Compact
<1>8. (\A k \in 0..7 : ~Parent(arena, f, k, e)) /\ Compact(arena, node) => Compact(new, node)
  BY <1>7 DEF Compact
<1> QED BY <1>4, <1>5, <1>6, <1>8 DEF StaysBut, node

\* The parent of a place is no other than the branch it is an octant of.
LEMMA OneParent ==
  ASSUME NEW arena, NEW place, NEW sh, Graph(arena, place, sh), Apart(arena, place),
         NEW f \in place, NEW g \in place, NEW j \in 0..7, NEW k \in 0..7, NEW d,
         Parent(arena, f, j, d), Parent(arena, g, k, d)
  PROVE  f = g /\ j = k
<1>1. /\ f[2] \in Fitting /\ Right(arena, place, sh, arena[f[1] + 1], f[2])
      /\ g[2] \in Fitting /\ Right(arena, place, sh, arena[g[1] + 1], g[2])
      /\ arena[f[1] + 1] \in SvoNodes
  BY ONLY PlacedIs, Graph(arena, place, sh), f \in place, g \in place
<1>2. /\ f[2].level > 0 /\ g[2].level > 0
      /\ d[2] = Octant(f[2], j) /\ d[2] = Octant(g[2], k)
      /\ d[1] = arena[f[1] + 1].base + j /\ d[1] = arena[g[1] + 1].base + k
  BY <1>1 DEF Parent, Right, KidPlace
<1>3. /\ d[2] \in Fitting /\ d[2].level = f[2].level - 1 /\ d[2].level = g[2].level - 1
      /\ \A p \in Space : InCube(p, d[2]) => InCube(p, f[2]) /\ InCube(p, g[2])
  <2>1. \A c \in Fitting, i \in 0..7 : c.level > 0 =>
          /\ Octant(c, i) \in Fitting /\ Octant(c, i).level = c.level - 1
          /\ \A p \in Space : InCube(p, Octant(c, i)) => InCube(p, c)
    BY OctantIs
  <2> QED BY <1>1, <1>2, <2>1
<1>4. f[2].level \in Int /\ g[2].level \in Int
  BY <1>1, CubesAre, ArenaAssumption
<1>5. f[2].level = g[2].level
  BY <1>3, <1>4
<1>6. d[2].origin \in Space /\ InCube(d[2].origin, d[2])
  BY <1>3, HoldsOrigin
<1>7. f = g
  <2> SUFFICES ASSUME f # g PROVE FALSE
    OBVIOUS
  <2>1. Over(arena, f, g) \/ Over(arena, g, f)
    BY <1>3, <1>6 DEF Apart
  <2> QED BY <1>4, <1>5, <2>1 DEF Over
<1>8. j = k
  <2>1. arena[f[1] + 1].base \in Nat
    BY <1>1, NodesAre DEF Parent
  <2> DEFINE b == arena[f[1] + 1].base
  <2>2. b \in Nat /\ d[1] = b + j /\ d[1] = b + k
    BY <1>2, <1>7, <2>1
  <2> HIDE DEF b
  <2> QED BY <2>2
<1> QED BY <1>7, <1>8

\* What is asked of an exchange of the node of e, in which places may go and come.
Exchanging(arena, place, sh, loose, e, new, more, put) ==
  /\ TreeBut(arena, place, sh, loose) /\ e \in place /\ ParentsIn(arena, place, e, loose)
  /\ Swapped(arena, new, e) /\ e \in more
  /\ Right(new, more, put, new[e[1] + 1], e[2])
  /\ \A f \in more \cap place, k \in 0..7 :
       f # e /\ ~arena[f[1] + 1].leaf => KidPlace(arena[f[1] + 1], f[2], k) \in more
  /\ \A f \in place, k \in 0..7 :
       Parent(arena, f, k, e) /\ k \notin arena[f[1] + 1].mask => new[e[1] + 1] = Leaf(Air)
  /\ \A f \in more \cap place : f # e /\ arena[f[1] + 1].leaf => Shows(put, f[2], arena[f[1] + 1].of)
  /\ \A f \in more \ place : /\ f \in Nat \X Fitting /\ f[1] < Len(new)
                             /\ Right(new, more, put, new[f[1] + 1], f[2])
                             /\ Compact(new, new[f[1] + 1])

\* An exchange leaves a graph of what is shown now, and what is not above the
\* node exchanged tells its children apart still.
LEMMA ExchangedGraph ==
  ASSUME NEW arena, NEW place, NEW sh, NEW loose, NEW e, NEW new, NEW more, NEW put,
         Exchanging(arena, place, sh, loose, e, new, more, put)
  PROVE  /\ Graph(new, more, put)
         /\ \A f \in more : f[1] \notin loose \cup {e[1]} => Compact(new, new[f[1] + 1])
<1>1. /\ Graph(arena, place, sh) /\ Apart(arena, place) /\ e \in place /\ Swapped(arena, new, e)
      /\ \A f \in place : f[1] \notin loose => Compact(arena, arena[f[1] + 1])
  BY DEF Exchanging, TreeBut
<1>2. ASSUME NEW f \in more
      PROVE  /\ f \in Nat \X Fitting /\ f[1] < Len(new) /\ Right(new, more, put, new[f[1] + 1], f[2])
             /\ f[1] \notin loose \cup {e[1]} => Compact(new, new[f[1] + 1])
  <2>1. CASE f \notin place
    BY <2>1 DEF Exchanging
  <2>2. CASE f \in place
    <3>1. f \in Nat \X Fitting
      BY <1>1, <2>2 DEF Graph
    <3>2. f[1] \in Nat /\ f[1] < Len(arena) /\ Len(arena) \in Nat /\ arena[f[1] + 1] \in SvoNodes
          /\ Right(arena, place, sh, arena[f[1] + 1], f[2])
      BY ONLY <1>1, <2>2, PlacedIs
    <3>3. f[1] < Len(new)
      <4>1. Len(new) \in Nat /\ Len(arena) <= Len(new)
        BY <1>1 DEF Swapped
      <4> QED BY <3>2, <4>1
    <3>4. CASE f = e
      BY <3>1, <3>3, <3>4 DEF Exchanging
    <3>5. CASE f # e
      <4> DEFINE node == arena[f[1] + 1]
                 c == f[2]
      <4>1. /\ new[f[1] + 1] = node
            /\ \A k \in 0..7 : Parent(arena, f, k, e) => Kid(new, node, k) = new[e[1] + 1]
            /\ \A k \in 0..7 : ~node.leaf /\ ~Parent(arena, f, k, e) => Kid(new, node, k) = Kid(arena, node, k)
            /\ (\A k \in 0..7 : ~Parent(arena, f, k, e)) /\ Compact(arena, node) => Compact(new, node)
        <5>1. StaysBut(arena, new, e, f)
          BY ONLY <1>1, <2>2, <3>5, OthersStay
        <5> QED BY ONLY <5>1 DEF StaysBut
      <4>2. Right(new, more, put, node, c)
        <5>1. CASE node.leaf
          <6>1. Shows(put, c, node.of)
            BY <2>2, <3>5, <5>1 DEF Exchanging
          <6> QED BY <3>2, <5>1, <6>1 DEF Right
        <5>2. CASE ~node.leaf
          <6>1. \A k \in 0..7 : KidPlace(node, c, k) \in more
            BY <2>2, <3>5, <5>2 DEF Exchanging
          <6>2. c.level > 0 /\ \A k \in 0..7 : k \notin node.mask => Kid(arena, node, k) = Leaf(Air)
            BY <3>2, <5>2 DEF Right
          <6>3. ASSUME NEW k \in 0..7, k \notin node.mask PROVE Kid(new, node, k) = Leaf(Air)
            <7>1. CASE Parent(arena, f, k, e)
              <8>1. new[e[1] + 1] = Leaf(Air)
                BY <2>2, <6>3, <7>1 DEF Exchanging
              <8> QED BY <4>1, <7>1, <8>1
            <7>2. CASE ~Parent(arena, f, k, e)
              BY <4>1, <5>2, <6>2, <6>3, <7>2
            <7> QED BY <7>1, <7>2
          <6> HIDE DEF node, c
          <6> QED BY <3>2, <5>2, <6>1, <6>2, <6>3 DEF Right, node
        <5> QED BY <5>1, <5>2
      <4>3. f[1] \notin loose \cup {e[1]} => Compact(new, node)
        <5> SUFFICES ASSUME f[1] \notin loose PROVE Compact(new, node)
          OBVIOUS
        <5>1. \A k \in 0..7 : ~Parent(arena, f, k, e)
          BY <2>2 DEF Exchanging, ParentsIn
        <5>2. Compact(arena, node)
          BY <1>1, <2>2
        <5> QED BY <4>1, <5>1, <5>2
      <4> QED BY <3>1, <3>3, <4>1, <4>2, <4>3
    <3> QED BY <3>4, <3>5
  <2> QED BY <2>1, <2>2
<1>3. new \in Arenas
  BY <1>1 DEF Swapped, Arenas
<1> QED BY <1>2, <1>3 DEF Graph

\* Where no place comes, and the node of e is of a leaf only if nothing is below it.
LEMMA Exchanged ==
  ASSUME NEW arena, NEW place, NEW sh, NEW loose, NEW e, NEW new, NEW more, NEW put,
         Exchanging(arena, place, sh, loose, e, new, more, put), more \subseteq place,
         new[e[1] + 1].leaf =>
           \A f \in more, q \in Space : f # e /\ InCube(q, e[2]) /\ InCube(q, f[2]) => Over(arena, f, e)
  PROVE  TreeBut(new, more, put, loose \cup {e[1]})
<1>1. /\ Graph(arena, place, sh) /\ Apart(arena, place) /\ e \in place /\ Swapped(arena, new, e) /\ e \in more
  BY DEF Exchanging, TreeBut
<1>2. \A f \in place : f[1] \in Nat /\ f[1] + 1 \in 1..Len(arena)
  BY ONLY <1>1, PlacedIs
<1>3. ASSUME NEW f \in place, f # e PROVE new[f[1] + 1] = arena[f[1] + 1]
  <2>1. f[1] # e[1]
    BY <1>1, <1>3 DEF Apart
  <2>2. f[1] + 1 # e[1] + 1
    BY <1>1, <1>2, <2>1
  <2> QED BY <1>1, <1>2, <2>2 DEF Swapped
<1>4. ASSUME NEW f \in more, NEW g \in more, f # g
      PROVE  /\ f[1] # g[1]
             /\ \A q \in Space : InCube(q, f[2]) /\ InCube(q, g[2]) => Over(new, f, g) \/ Over(new, g, f)
  <2>1. f[1] # g[1]
    BY <1>1, <1>4 DEF Apart
  <2>2. ASSUME NEW q \in Space, InCube(q, f[2]), InCube(q, g[2]) PROVE Over(new, f, g) \/ Over(new, g, f)
    <3>1. Over(arena, f, g) \/ Over(arena, g, f)
      BY <1>1, <1>4, <2>2 DEF Apart
    <3>2. CASE f # e /\ g # e
      BY <1>3, <3>1, <3>2 DEF Over
    <3>3. CASE f = e
      <4>1. g # e /\ new[g[1] + 1] = arena[g[1] + 1]
        BY <1>3, <1>4, <3>3
      <4>2. new[e[1] + 1].leaf => Over(arena, g, e)
        BY <2>2, <3>3, <4>1
      <4> QED BY <3>1, <3>3, <4>1, <4>2 DEF Over
    <3>4. CASE g = e
      <4>1. f # e /\ new[f[1] + 1] = arena[f[1] + 1]
        BY <1>3, <1>4, <3>4
      <4>2. new[e[1] + 1].leaf => Over(arena, f, e)
        BY <2>2, <3>4, <4>1
      <4> QED BY <3>1, <3>4, <4>1, <4>2 DEF Over
    <3> QED BY <3>2, <3>3, <3>4
  <2> QED BY <2>1, <2>2
<1>5. Apart(new, more)
  BY <1>4 DEF Apart
<1>6. /\ Graph(new, more, put)
      /\ \A f \in more : f[1] \notin loose \cup {e[1]} => Compact(new, new[f[1] + 1])
  BY ExchangedGraph
<1> QED BY <1>5, <1>6 DEF TreeBut

\* A branch that has something to tell apart is not loose any more.
LEMMA Tightens ==
  ASSUME NEW arena, NEW place, NEW sh, NEW loose, NEW e \in place,
         TreeBut(arena, place, sh, loose \cup {e[1]}), Compact(arena, arena[e[1] + 1])
  PROVE  TreeBut(arena, place, sh, loose)
<1>1. ASSUME NEW f \in place, f[1] \notin loose PROVE Compact(arena, arena[f[1] + 1])
  <2>1. CASE f = e
    BY <2>1
  <2>2. CASE f # e
    <3>1. f[1] # e[1]
      BY <2>2 DEF TreeBut, Apart
    <3> QED BY <1>1, <3>1 DEF TreeBut
  <2> QED BY <2>1, <2>2
<1> QED BY <1>1 DEF TreeBut

\* The parents of e, that a call is below, have it unmasked or are given air.
ParentsTake(arena, place, e, loose, a) ==
  \A f \in place, k \in 0..7 : Parent(arena, f, k, e) =>
    f[1] \in loose /\ (k \in arena[f[1] + 1].mask \/ a = Air)

\* Nothing is below a leaf.
LEMMA LeafOver ==
  ASSUME NEW arena, NEW place, Apart(arena, place), NEW e \in place, arena[e[1] + 1].leaf,
         NEW f \in place, f # e, NEW q \in Space, InCube(q, e[2]), InCube(q, f[2])
  PROVE  Over(arena, f, e)
<1> QED BY DEF Apart, Over

\* A leaf exchanged for another leaves a tree that shows the new attributes in
\* its cube.
LEMMA LeafPut ==
  ASSUME NEW arena, NEW place, NEW sh, NEW loose, TreeBut(arena, place, sh, loose),
         NEW e \in place, arena[e[1] + 1].leaf, NEW a \in Attributes,
         ParentsTake(arena, place, e, loose, a),
         NEW put, Shows(put, e[2], a), \A q \in Space : ~InCube(q, e[2]) => put[q] = sh[q]
  PROVE  TreeBut([arena EXCEPT ![e[1] + 1] = Leaf(a)], place, put, loose)
<1> DEFINE new == [arena EXCEPT ![e[1] + 1] = Leaf(a)]
<1>1. /\ Graph(arena, place, sh) /\ Apart(arena, place)
      /\ e[1] \in Nat /\ e[1] < Len(arena) /\ arena \in Seq(SvoNodes)
      /\ \A f \in place : arena[f[1] + 1] \in SvoNodes /\ Right(arena, place, sh, arena[f[1] + 1], f[2])
  BY ONLY PlacedIs, TreeBut(arena, place, sh, loose), e \in place DEF TreeBut
<1>2. Leaf(a) \in SvoNodes /\ Leaf(a).leaf /\ Leaf(a).of = a
  BY MadeNodes
<1>3. Swapped(arena, new, e) /\ new[e[1] + 1] = Leaf(a)
  BY ONLY <1>1, <1>2, SwapIs
<1> HIDE DEF new
<1>4. ParentsIn(arena, place, e, loose)
  BY DEF ParentsTake, ParentsIn
<1>5. Right(new, place, put, Leaf(a), e[2])
  BY <1>2 DEF Right
<1>6. ASSUME NEW f \in place, f # e, arena[f[1] + 1].leaf PROVE Shows(put, f[2], arena[f[1] + 1].of)
  <2> SUFFICES ASSUME NEW q \in Space, InCube(q, f[2]) PROVE put[q] = arena[f[1] + 1].of
    BY DEF Shows
  <2>1. ~InCube(q, e[2])
    <3> SUFFICES ASSUME InCube(q, e[2]) PROVE FALSE
      OBVIOUS
    <3>1. Over(arena, f, e)
      BY ONLY <1>1, LeafOver, e \in place, arena[e[1] + 1].leaf, f \in place, f # e, q \in Space,
              InCube(q, e[2]), InCube(q, f[2])
    <3> QED BY <1>6, <3>1 DEF Over
  <2>2. sh[q] = arena[f[1] + 1].of
    BY <1>1, <1>6 DEF Right, Shows
  <2> QED BY <2>1, <2>2
<1>7. Exchanging(arena, place, sh, loose, e, new, place, put)
  <2>1. \A f \in place, k \in 0..7 : ~arena[f[1] + 1].leaf => KidPlace(arena[f[1] + 1], f[2], k) \in place
    BY <1>1 DEF Right
  <2>2. \A f \in place, k \in 0..7 : Parent(arena, f, k, e) /\ k \notin arena[f[1] + 1].mask => Leaf(a) = Leaf(Air)
    BY DEF ParentsTake
  <2> QED BY <1>3, <1>4, <1>5, <1>6, <2>1, <2>2 DEF Exchanging
<1>8. \A f \in place, q \in Space : f # e /\ InCube(q, e[2]) /\ InCube(q, f[2]) => Over(arena, f, e)
  BY <1>1, LeafOver
<1>9. TreeBut(new, place, put, loose \cup {e[1]})
  BY <1>7, <1>8, Exchanged
<1>10. Compact(new, new[e[1] + 1])
  BY <1>2, <1>3 DEF Compact
<1>11. TreeBut(new, place, put, loose)
  BY ONLY <1>9, <1>10, Tightens, e \in place
<1> QED BY <1>11 DEF new

\* A branch is not masked out by its parents.
LEMMA BranchUnmasked ==
  ASSUME NEW arena, NEW place, NEW sh, Graph(arena, place, sh), NEW e \in place, ~arena[e[1] + 1].leaf,
         NEW f \in place, NEW k \in 0..7, Parent(arena, f, k, e)
  PROVE  k \in arena[f[1] + 1].mask
<1> DEFINE node == arena[f[1] + 1]
<1>1. Right(arena, place, sh, node, f[2]) /\ node \in SvoNodes
  BY ONLY PlacedIs, Graph(arena, place, sh), f \in place
<1>2. ~node.leaf /\ KidPlace(node, f[2], k) = e
  BY DEF Parent
<1>3. node.base \in Nat
  BY <1>1, <1>2, NodesAre
<1>4. e[1] = node.base + k
  BY <1>2 DEF KidPlace
<1>5. Kid(arena, node, k) = arena[e[1] + 1]
  BY <1>4 DEF Kid
<1>6. Kid(arena, node, k) # Leaf(Air)
  BY <1>5 DEF Leaf
<1> QED BY <1>1, <1>2, <1>6 DEF Right

\* A branch that is marked has the octant unmasked that is put into, unless air
\* is put.
LEMMA MarkedIs ==
  ASSUME NEW arena, NEW place, NEW sh, NEW loose, TreeBut(arena, place, sh, loose),
         NEW e \in place, ~arena[e[1] + 1].leaf, ParentsIn(arena, place, e, loose),
         NEW k \in 0..7, NEW a \in Attributes
  PROVE  LET new == Marked(arena, e[1], k, a)
             node == arena[e[1] + 1]
         IN  /\ TreeBut(new, place, sh, loose \cup {e[1]})
             /\ ~new[e[1] + 1].leaf /\ new[e[1] + 1].base = node.base
             /\ k \in new[e[1] + 1].mask \/ a = Air
             /\ Swapped(arena, new, e)
<1> DEFINE new == Marked(arena, e[1], k, a)
           node == arena[e[1] + 1]
<1>1. /\ Graph(arena, place, sh) /\ Apart(arena, place)
      /\ e[1] \in Nat /\ e[1] < Len(arena) /\ arena \in Seq(SvoNodes) /\ e[1] + 1 \in 1..Len(arena)
      /\ \A f \in place : arena[f[1] + 1] \in SvoNodes /\ Right(arena, place, sh, arena[f[1] + 1], f[2])
  BY ONLY PlacedIs, TreeBut(arena, place, sh, loose), e \in place DEF TreeBut
<1>2. node = Branch(node.base, node.mask) /\ node.base \in Nat /\ node.mask \subseteq 0..7
  BY <1>1, NodesAre
<1>3. CASE a.kind = "air"
  <2>1. new = arena /\ a = Air
    BY <1>3, AttributesAre DEF Marked
  <2>2. Swapped(arena, arena, e)
    BY <1>1 DEF Swapped
  <2>3. TreeBut(arena, place, sh, loose \cup {e[1]})
    BY DEF TreeBut
  <2> QED BY <2>1, <2>2, <2>3
<1>4. CASE a.kind # "air"
  <2> DEFINE mask == node.mask \cup {k}
             m == Branch(node.base, mask)
  <2>1. mask \in SUBSET (0..7)
    BY <1>2
  <2>2. m \in SvoNodes /\ ~m.leaf /\ m.base = node.base /\ m.mask = mask
    BY <1>2, <2>1, MadeNodes
  <2>3. new = [arena EXCEPT ![e[1] + 1] = m]
    BY <1>4 DEF Marked
  <2> HIDE DEF m, new
  <2>4. Swapped(arena, new, e) /\ new[e[1] + 1] = m
    <3>1. arena \in Seq(SvoNodes) /\ e[1] \in Nat /\ e[1] < Len(arena)
      BY ONLY <1>1
    <3>2. m \in SvoNodes
      BY ONLY <2>2
    <3> QED BY ONLY <2>3, <3>1, <3>2, SwapIs
  <2>5. ASSUME NEW j \in 0..7 PROVE Kid(new, m, j) = Kid(arena, node, j) /\ KidPlace(m, e[2], j) \in place
    <3>1. Right(arena, place, sh, node, e[2]) /\ e[2] \in Fitting
      BY ONLY <1>1, PlacedIs, e \in place
    <3>2. /\ KidPlace(node, e[2], j) \in place /\ Octant(e[2], j).level = e[2].level - 1
          /\ e[2].level \in 1..Depth
      <4>1. Graph(arena, place, sh)
        BY ONLY <1>1
      <4>2. ~node.leaf
        OBVIOUS
      <4> HIDE DEF node
      <4> QED BY ONLY <3>1, <4>1, <4>2, KidIs, j \in 0..7
    <3>3. KidPlace(m, e[2], j) = KidPlace(node, e[2], j)
      BY <2>2 DEF KidPlace
    <3> DEFINE d == KidPlace(node, e[2], j)
    <3>4. d[1] = node.base + j /\ d[2] = Octant(e[2], j)
      BY DEF KidPlace
    <3>5. d[1] # e[1]
      <4>1. d[2] # e[2]
        BY <3>2, <3>4
      <4> QED BY <1>1, <3>2, <4>1 DEF Apart
    <3>6. d[1] \in Nat /\ d[1] + 1 \in 1..Len(arena)
      <4> HIDE DEF d
      <4> QED BY ONLY <1>1, <3>2, PlacedIs DEF d
    <3>7. new[d[1] + 1] = arena[d[1] + 1]
      <4>1. d[1] + 1 # e[1] + 1
        BY <1>1, <3>5, <3>6
      <4> QED BY <2>4, <3>6, <4>1 DEF Swapped
    <3> QED BY <2>2, <3>2, <3>3, <3>4, <3>7 DEF Kid
  <2>6. Right(new, place, sh, m, e[2])
    <3>1. Right(arena, place, sh, node, e[2])
      BY <1>1
    <3>2. e[2].level > 0 /\ \A j \in 0..7 : j \notin node.mask => Kid(arena, node, j) = Leaf(Air)
      BY <3>1 DEF Right
    <3> QED BY <2>2, <2>5, <3>2 DEF Right
  <2>7. Exchanging(arena, place, sh, loose, e, new, place, sh)
    <3>1. \A f \in place, j \in 0..7 : ~arena[f[1] + 1].leaf => KidPlace(arena[f[1] + 1], f[2], j) \in place
      BY <1>1 DEF Right
    <3>2. \A f \in place, j \in 0..7 : Parent(arena, f, j, e) => j \in arena[f[1] + 1].mask
      BY <1>1, BranchUnmasked
    <3>3. \A f \in place : arena[f[1] + 1].leaf => Shows(sh, f[2], arena[f[1] + 1].of)
      BY <1>1 DEF Right
    <3> QED BY <2>4, <2>6, <3>1, <3>2, <3>3 DEF Exchanging
  <2>8. TreeBut(new, place, sh, loose \cup {e[1]})
    BY ONLY <2>2, <2>4, <2>7, Exchanged
  <2> QED BY <2>2, <2>4, <2>8 DEF new
<1> QED BY <1>3, <1>4

\* What a split leaves of the arena, and what it lays down.
SplitWell(arena, e, new) ==
  LET node == arena[e[1] + 1]
      base == Len(arena)
  IN  /\ Swapped(arena, new, e) /\ Len(new) = base + 8
      /\ new[e[1] + 1] \in SvoNodes /\ ~new[e[1] + 1].leaf /\ new[e[1] + 1].base = base
      /\ \A k \in 0..7 : k \notin new[e[1] + 1].mask => node = Leaf(Air)
      /\ \A k \in 1..8 : new[base + k] = node

\* What the splitting of a leaf leaves and lays down.
LEMMA SplitLays ==
  ASSUME NEW arena \in Seq(SvoNodes), NEW e, e[1] \in Nat, e[1] < Len(arena),
         arena[e[1] + 1] \in SvoNodes, arena[e[1] + 1].leaf
  PROVE  SplitWell(arena, e, SplitLeaf(arena, e[1]))
<1> DEFINE node == arena[e[1] + 1]
           base == Len(arena)
           mask == IF node.of.kind = "air" THEN {} ELSE 0..7
           m == Branch(base, mask)
           kids == [k \in 1..8 |-> node]
           first == [arena EXCEPT ![e[1] + 1] = m]
           new == first \o kids
<1>1. base \in Nat /\ mask \in SUBSET (0..7) /\ e[1] + 1 \in 1..base
  OBVIOUS
<1>2. m \in SvoNodes /\ ~m.leaf /\ m.base = base /\ m.mask = mask
  <2> HIDE DEF base, mask
  <2> QED BY <1>1, MadeNodes
<1>3. new = SplitLeaf(arena, e[1])
  BY DEF SplitLeaf
<1>4. kids \in Seq(SvoNodes) /\ Len(kids) = 8 /\ \A k \in 1..8 : kids[k] = node
  <2> HIDE DEF node
  <2>1. node \in SvoNodes
    BY DEF node
  <2> QED BY <2>1
<1> HIDE DEF m, first
<1>5. Swapped(arena, first, e) /\ Len(first) = base /\ first[e[1] + 1] = m
  BY ONLY <1>2, SwapIs, arena \in Seq(SvoNodes), e[1] \in Nat, e[1] < Len(arena) DEF first
<1>6. first \in Seq(SvoNodes) /\ \A j \in 1..base : j # e[1] + 1 => first[j] = arena[j]
  BY <1>5 DEF Swapped
<1> HIDE DEF kids
<1>7. /\ new \in Seq(SvoNodes) /\ Len(new) = base + 8 /\ Extends(first, new)
      /\ \A k \in 1..8 : new[base + k] = node
  <2>1. /\ new \in Seq(SvoNodes) /\ Len(new) = Len(first) + Len(kids) /\ Extends(first, new)
        /\ \A k \in 1..Len(kids) : new[Len(first) + k] = kids[k]
    BY ONLY <1>4, <1>6, AppendsExtend
  <2> HIDE DEF new, base, node
  <2> QED BY <1>4, <1>5, <2>1
<1> HIDE DEF new
<1>8. \A j \in 1..base : new[j] = first[j]
  BY <1>5, <1>7 DEF Extends
<1>9. Swapped(arena, new, e)
  <2>1. base <= Len(new)
    BY <1>1, <1>7
  <2> QED BY <1>6, <1>7, <1>8, <2>1 DEF Swapped
<1>10. new[e[1] + 1] = m
  BY <1>1, <1>5, <1>8
<1>11. ASSUME NEW k \in 0..7, k \notin mask PROVE node = Leaf(Air)
  <2>1. node.of.kind = "air"
    BY <1>11
  <2>2. node = Leaf(node.of) /\ node.of \in Attributes
    BY NodesAre
  <2> QED BY <2>1, <2>2, AttributesAre
<1> HIDE DEF mask
<1>12. SplitWell(arena, e, new)
  BY <1>2, <1>7, <1>9, <1>10, <1>11 DEF SplitWell
<1> QED BY <1>3, <1>12

\* The split leaf e is a branch of eight like it, that a call is below.
SplitTree(arena, place, sh, loose, e, new, more) ==
  /\ TreeBut(new, more, sh, loose \cup {e[1]}) /\ ParentsIn(new, more, e, loose)
  /\ ~new[e[1] + 1].leaf /\ place \subseteq more
  /\ \A f \in place : f # e => new[f[1] + 1] = arena[f[1] + 1]
  /\ \A f \in more \ place : f[2].level = e[2].level - 1

\* A leaf that is split shows what it showed, by eight leaves like it.
LEMMA SplitIs ==
  ASSUME NEW arena, NEW place, NEW sh, NEW loose, TreeBut(arena, place, sh, loose),
         NEW e \in place, e[2].level > 0, arena[e[1] + 1].leaf, NEW a, arena[e[1] + 1].of # a,
         ParentsTake(arena, place, e, loose, a)
  PROVE  \E more : SplitTree(arena, place, sh, loose, e, SplitLeaf(arena, e[1]), more)
<1> DEFINE new == SplitLeaf(arena, e[1])
           base == Len(arena)
           c == e[2]
           node == arena[e[1] + 1]
           more == place \cup EightAt(base, c)
<1>1. /\ Graph(arena, place, sh) /\ Apart(arena, place)
      /\ e = <<e[1], c>> /\ e[1] \in Nat /\ e[1] < base /\ arena \in Seq(SvoNodes) /\ base \in Nat
      /\ c \in Fitting /\ c.level > 0 /\ node \in SvoNodes /\ node.leaf
      /\ \A f \in place : /\ f \in Nat \X Fitting /\ f[1] \in Nat /\ f[1] < base /\ f[1] + 1 \in 1..base
                          /\ f[2] \in Fitting /\ arena[f[1] + 1] \in SvoNodes
                          /\ Right(arena, place, sh, arena[f[1] + 1], f[2])
  <2>1. Graph(arena, place, sh)
    BY DEF TreeBut
  <2>2. place \subseteq Nat \X Fitting
    BY <2>1 DEF Graph
  <2> QED BY ONLY PlacedIs, <2>1, <2>2, TreeBut(arena, place, sh, loose), e \in place,
                  e[2].level > 0, arena[e[1] + 1].leaf DEF TreeBut
<1>2. SplitWell(arena, e, new)
  BY ONLY <1>1, SplitLays
<1> HIDE DEF new, base
<1>3. /\ Swapped(arena, new, e) /\ Len(new) = base + 8
      /\ new[e[1] + 1] \in SvoNodes /\ ~new[e[1] + 1].leaf /\ new[e[1] + 1].base = base
      /\ \A k \in 0..7 : k \notin new[e[1] + 1].mask => node = Leaf(Air)
      /\ \A k \in 1..8 : new[base + k] = node
  BY ONLY <1>2 DEF SplitWell, base
<1>4. \A k \in 0..7 : /\ Octant(c, k) \in Fitting /\ Octant(c, k).level = c.level - 1
                      /\ \A p \in Space : InCube(p, Octant(c, k)) => InCube(p, c)
  BY <1>1, OctantIs
<1> HIDE DEF node
<1>5. \A f \in EightAt(base, c) : \E k \in 0..7 :
        f = <<base + k, Octant(c, k)>> /\ f[1] = base + k /\ f[2] = Octant(c, k) /\ new[f[1] + 1] = node
  <2> TAKE f \in EightAt(base, c)
  <2>1. PICK k \in 0..7 : f = <<base + k, Octant(c, k)>>
    BY <1>1, EightPlaced
  <2>2. f[1] = base + k /\ f[2] = Octant(c, k) /\ k + 1 \in 1..8
    BY <2>1
  <2>3. f[1] + 1 = base + (k + 1)
    BY <1>1, <2>2
  <2>4. new[f[1] + 1] = node
    BY <1>3, <2>2, <2>3
  <2> QED BY <2>1, <2>2, <2>4
<1>6. \A k \in 0..7 : <<base + k, Octant(c, k)>> \in EightAt(base, c)
  BY <1>1, EightPlaced
<1> HIDE DEF more, c
<1>7. \A f \in more : f \in place \/ f \in EightAt(base, c)
  BY DEF more
<1>8. e \in more /\ place \subseteq more /\ EightAt(base, c) \subseteq more
  BY DEF more
<1>9. \A f \in place : f # e => new[f[1] + 1] = arena[f[1] + 1]
  <2> TAKE f \in place
  <2> HAVE f # e
  <2>1. f[1] # e[1]
    BY <1>1 DEF Apart
  <2>2. f[1] + 1 # e[1] + 1
    BY <1>1, <2>1
  <2> QED BY <1>1, <1>3, <2>2 DEF Swapped, base
<1>10. Right(new, more, sh, node, c) /\ node = Leaf(node.of) /\ Shows(sh, c, node.of)
  BY <1>1, NodesAre DEF Right, c, node
<1>11. \A f \in EightAt(base, c) :
         /\ f \in Nat \X Fitting /\ f[1] < Len(new) /\ Right(new, more, sh, new[f[1] + 1], f[2])
         /\ Compact(new, new[f[1] + 1])
  <2> TAKE f \in EightAt(base, c)
  <2>1. PICK k \in 0..7 : f = <<base + k, Octant(c, k)>> /\ f[1] = base + k /\ f[2] = Octant(c, k)
                          /\ new[f[1] + 1] = node
    BY <1>5
  <2>2. f \in Nat \X Fitting
    BY <1>1, <1>4, <2>1
  <2>3. f[1] < Len(new)
    <3>1. base \in Nat /\ Len(new) = base + 8 /\ f[1] = base + k
      BY <1>1, <1>3, <2>1
    <3> QED BY ONLY <3>1, k \in 0..7
  <2>4. Shows(sh, f[2], node.of)
    BY <1>4, <1>10, <2>1 DEF Shows
  <2>5. Right(new, more, sh, node, f[2]) /\ Compact(new, node)
    BY <1>1, <2>4 DEF Right, Compact
  <2> QED BY <2>1, <2>2, <2>3, <2>5
<1>12. Right(new, more, sh, new[e[1] + 1], c)
  <2> DEFINE m == new[e[1] + 1]
  <2>1. ASSUME NEW k \in 0..7
        PROVE  KidPlace(m, c, k) \in more /\ (k \notin m.mask => Kid(new, m, k) = Leaf(Air))
    <3>1. KidPlace(m, c, k) = <<base + k, Octant(c, k)>>
      BY <1>3 DEF KidPlace
    <3>2. k + 1 \in 1..8 /\ base + k + 1 = base + (k + 1)
      BY <1>1
    <3>3. Kid(new, m, k) = node
      BY <1>3, <3>2 DEF Kid
    <3> QED BY <1>3, <1>6, <1>8, <3>1, <3>3
  <2> HIDE DEF m
  <2> QED BY <1>1, <1>3, <2>1 DEF Right, m
<1>13. ParentsIn(arena, place, e, loose)
  BY DEF ParentsTake, ParentsIn
<1>14. \A f \in place, k \in 0..7 : Parent(arena, f, k, e) => k \in arena[f[1] + 1].mask
  <2> SUFFICES ASSUME NEW f \in place, NEW k \in 0..7, Parent(arena, f, k, e), k \notin arena[f[1] + 1].mask
               PROVE  FALSE
    OBVIOUS
  <2> DEFINE n == arena[f[1] + 1]
  <2>1. a = Air
    BY DEF ParentsTake
  <2>2. ~n.leaf /\ KidPlace(n, f[2], k) = e
    BY DEF Parent
  <2>3. Kid(arena, n, k) = Leaf(Air)
    BY <1>1, <2>2 DEF Right
  <2>4. Kid(arena, n, k) = node
    BY <2>2 DEF KidPlace, Kid, node
  <2>5. node.of = Air
    BY <2>3, <2>4 DEF Leaf
  <2> QED BY <2>1, <2>5 DEF node
<1>15. Exchanging(arena, place, sh, loose, e, new, more, sh)
  <2>1. \A f \in place, j \in 0..7 : ~arena[f[1] + 1].leaf => KidPlace(arena[f[1] + 1], f[2], j) \in more
    BY <1>1, <1>8 DEF Right
  <2>2. \A f \in place : arena[f[1] + 1].leaf => Shows(sh, f[2], arena[f[1] + 1].of)
    BY <1>1 DEF Right
  <2>3. \A f \in more \ place : f \in EightAt(base, c)
    BY <1>7
  <2> QED BY <1>3, <1>8, <1>11, <1>12, <1>13, <1>14, <2>1, <2>2, <2>3 DEF Exchanging, c
<1>16. /\ Graph(new, more, sh)
       /\ \A f \in more : f[1] \notin loose \cup {e[1]} => Compact(new, new[f[1] + 1])
  BY <1>15, ExchangedGraph
<1> DEFINE Clear(f, g) == /\ f[1] # g[1]
                          /\ \A q \in Space : InCube(q, f[2]) /\ InCube(q, g[2]) =>
                               Over(new, f, g) \/ Over(new, g, f)
<1>17. ASSUME NEW f \in place, NEW g \in place, f # g PROVE Clear(f, g)
  <2>1. f[1] # g[1]
    BY <1>1, <1>17 DEF Apart
  <2>2. ASSUME NEW q \in Space, InCube(q, f[2]), InCube(q, g[2]) PROVE Over(new, f, g) \/ Over(new, g, f)
    <3>1. Over(arena, f, g) \/ Over(arena, g, f)
      BY <1>1, <1>17, <2>2 DEF Apart
    <3> QED BY <1>3, <1>9, <3>1 DEF Over
  <2> QED BY <2>1, <2>2
<1>18. ASSUME NEW f \in place, NEW g \in EightAt(base, c) PROVE Clear(f, g) /\ Clear(g, f)
  <2>1. PICK k \in 0..7 : g[1] = base + k /\ g[2] = Octant(c, k)
    BY <1>5
  <2>2. f[1] # g[1]
    BY <1>1, <2>1
  <2>3. c.level \in Int /\ f[2].level \in Int /\ g[2].level = c.level - 1
    <3>1. c \in Fitting /\ f[2] \in Fitting
      BY <1>1
    <3>2. \A d \in Fitting : d.level \in Int
      BY CubesAre, ArenaAssumption
    <3> QED BY ONLY <1>4, <2>1, <3>1, <3>2
  <2>4. ASSUME NEW q \in Space, InCube(q, f[2]), InCube(q, g[2]) PROVE Over(new, f, g)
    <3>1. InCube(q, e[2])
      BY <1>4, <2>1, <2>4 DEF c
    <3>2. CASE f = e
      BY <1>3, <2>3, <3>2 DEF Over, c
    <3>3. CASE f # e
      <4>1. Over(arena, f, e)
        BY ONLY <1>1, <2>4, <3>1, <3>3, LeafOver, e \in place, f \in place, q \in Space DEF node
      <4>2. c.level < f[2].level /\ ~arena[f[1] + 1].leaf
        BY <4>1 DEF Over, c
      <4> QED BY <1>9, <2>3, <3>3, <4>2 DEF Over
    <3> QED BY <3>2, <3>3
  <2> QED BY <2>2, <2>4
<1>19. ASSUME NEW f \in EightAt(base, c), NEW g \in EightAt(base, c), f # g PROVE Clear(f, g)
  <2>1. PICK j \in 0..7 : f = <<base + j, Octant(c, j)>> /\ f[1] = base + j /\ f[2] = Octant(c, j)
    BY <1>5
  <2>2. PICK k \in 0..7 : g = <<base + k, Octant(c, k)>> /\ g[1] = base + k /\ g[2] = Octant(c, k)
    BY <1>5
  <2>3. j # k
    BY <1>19, <2>1, <2>2
  <2>4. f[1] # g[1]
    <3>1. base \in Nat
      BY <1>1
    <3> QED BY ONLY <2>1, <2>2, <2>3, <3>1
  <2>5. ASSUME NEW q \in Space, InCube(q, f[2]), InCube(q, g[2]) PROVE FALSE
    <3>1. InCube(q, Octant(c, j)) /\ InCube(q, Octant(c, k))
      BY <2>1, <2>2, <2>5
    <3>2. j = k
      BY ONLY <1>1, <3>1, OctantsApart, j \in 0..7, k \in 0..7, q \in Space DEF c
    <3> QED BY <2>3, <3>2
  <2> QED BY <2>4, <2>5
<1>20. Apart(new, more)
  <2>1. ASSUME NEW f \in more, NEW g \in more, f # g PROVE Clear(f, g)
    <3> HIDE DEF Clear
    <3> QED BY <1>7, <1>17, <1>18, <1>19, <2>1
  <2> QED BY <2>1 DEF Apart
<1>21. TreeBut(new, more, sh, loose \cup {e[1]})
  BY <1>16, <1>20 DEF TreeBut
<1>22. \A f \in more \ place : f[2].level = c.level - 1 /\ new[f[1] + 1].leaf
  <2> TAKE f \in more \ place
  <2>1. f \in EightAt(base, c)
    BY <1>7
  <2>2. PICK k \in 0..7 : f[2] = Octant(c, k) /\ new[f[1] + 1] = node
    BY <1>5, <2>1
  <2> QED BY <1>1, <1>4, <2>2 DEF node
<1>23. ParentsIn(new, more, e, loose)
  <2> SUFFICES ASSUME NEW f \in more, NEW k \in 0..7, Parent(new, f, k, e) PROVE f[1] \in loose
    BY DEF ParentsIn
  <2>1. f \in place
    BY <1>22 DEF Parent
  <2>2. f # e
    <3> SUFFICES ASSUME f = e PROVE FALSE
      OBVIOUS
    <3>1. e[2] = Octant(c, k)
      BY DEF Parent, KidPlace, c
    <3>2. c.level \in Int
      BY <1>1, CubesAre, ArenaAssumption DEF c
    <3> QED BY <1>4, <3>1, <3>2 DEF c
  <2>3. Parent(arena, f, k, e)
    BY <1>9, <2>1, <2>2 DEF Parent
  <2> QED BY <1>13, <2>1, <2>3 DEF ParentsIn
<1>24. SplitTree(arena, place, sh, loose, e, new, more)
  BY <1>3, <1>8, <1>9, <1>21, <1>22, <1>23 DEF SplitTree, c
<1> QED BY <1>24 DEF new

\* What stands for the octants of e collapses into it where it is all the same.
CollapsedTree(arena, place, sh, loose, e, new, more) ==
  /\ TreeBut(new, more, sh, loose) /\ e \in more /\ more \subseteq place
  /\ \A f \in place \ more : f[2].level = e[2].level - 1
  /\ \A f \in place : f # e => new[f[1] + 1] = arena[f[1] + 1]

\* A branch shows what it showed whether or not its children collapse into it.
LEMMA CollapsedIs ==
  ASSUME NEW arena, NEW place, NEW sh, NEW loose, NEW e \in place,
         TreeBut(arena, place, sh, loose \cup {e[1]}), ~arena[e[1] + 1].leaf,
         ParentsIn(arena, place, e, loose)
  PROVE  \E more : CollapsedTree(arena, place, sh, loose, e, Collapsed(arena, e[1]), more)
<1> DEFINE node == arena[e[1] + 1]
           c == e[2]
           kids == KidsAt(arena, node.base)
           new == Collapsed(arena, e[1])
           looser == loose \cup {e[1]}
<1>1. /\ Graph(arena, place, sh) /\ Apart(arena, place) /\ TreeBut(arena, place, sh, looser)
      /\ e[1] \in Nat /\ e[1] < Len(arena) /\ arena \in Seq(SvoNodes) /\ e[1] + 1 \in 1..Len(arena)
      /\ c \in Fitting /\ node \in SvoNodes /\ ~node.leaf /\ Right(arena, place, sh, node, c)
      /\ \A f \in place : /\ f[1] \in Nat /\ f[1] + 1 \in 1..Len(arena) /\ f[2] \in Fitting
                          /\ arena[f[1] + 1] \in SvoNodes /\ Right(arena, place, sh, arena[f[1] + 1], f[2])
  BY ONLY PlacedIs, TreeBut(arena, place, sh, looser), e \in place, ~node.leaf DEF TreeBut
<1>2. node.base \in Nat
  BY <1>1, NodesAre
<1> HIDE DEF node, c, looser
<1>3. CASE ~Uniform(kids)
  <2>1. new = arena
    BY <1>3 DEF Collapsed, node
  <2>2. Compact(arena, node)
    BY <1>3 DEF Compact
  <2>3. TreeBut(arena, place, sh, loose)
    BY ONLY <1>1, <2>2, Tightens, e \in place DEF looser, node
  <2>4. CollapsedTree(arena, place, sh, loose, e, arena, place)
    BY <2>3 DEF CollapsedTree
  <2> QED BY <2>1, <2>4
<1>4. CASE Uniform(kids)
  <2> DEFINE leaf == kids[1]
             base == node.base
             more == place \ EightAt(base, c)
  <2>1. new = [arena EXCEPT ![e[1] + 1] = leaf]
    BY <1>4 DEF Collapsed, node
  <2>2. ASSUME NEW k \in 0..7
        PROVE  /\ KidPlace(node, c, k) \in place /\ Kid(arena, node, k) = leaf /\ leaf.leaf /\ leaf \in SvoNodes
               /\ Shows(sh, Octant(c, k), leaf.of)
               /\ Octant(c, k).level = c.level - 1 /\ c.level \in 1..Depth
    <3>1. /\ KidPlace(node, c, k) \in place
          /\ c.level \in 1..Depth /\ Octant(c, k).level = c.level - 1
          /\ Kid(arena, node, k) \in SvoNodes
          /\ Right(arena, place, sh, Kid(arena, node, k), Octant(c, k))
      BY ONLY <1>1, KidIs, k \in 0..7
    <3>2. k + 1 \in 1..8 /\ kids[k + 1] = Kid(arena, node, k)
      BY ONLY <1>2, KidsAre, k \in 0..7
    <3> HIDE DEF kids
    <3>3. leaf.leaf /\ kids[k + 1] = leaf
      BY <1>4, <3>2 DEF Uniform
    <3> HIDE DEF leaf
    <3> QED BY <3>1, <3>2, <3>3 DEF Right
  <2> HIDE DEF leaf, new
  <2>3. leaf.leaf /\ leaf \in SvoNodes /\ c.level \in 1..Depth
    <3>1. 0 \in 0..7
      OBVIOUS
    <3> QED BY <2>2, <3>1
  <2>4. Swapped(arena, new, e) /\ new[e[1] + 1] = leaf
    BY ONLY <1>1, <2>1, <2>3, SwapIs
  <2>5. Shows(sh, c, leaf.of)
    <3> SUFFICES ASSUME NEW p \in Space, InCube(p, c) PROVE sh[p] = leaf.of
      BY DEF Shows
    <3>1. PICK k \in 0..7 : InCube(p, Octant(c, k))
      BY <1>1, <2>3, PlacedInOctant
    <3> QED BY <2>2, <3>1 DEF Shows
  <2>6. ASSUME NEW k \in 0..7
        PROVE  KidPlace(node, c, k) = <<base + k, Octant(c, k)>>
    BY DEF KidPlace
  <2>7. \A f : f \in EightAt(base, c) <=> \E k \in 0..7 : f = KidPlace(node, c, k)
    BY <1>2, <2>6, EightPlaced
  <2>8. \A f \in EightAt(base, c) : f \in place /\ f[2].level = c.level - 1
    <3> TAKE f \in EightAt(base, c)
    <3>1. PICK k \in 0..7 : f = KidPlace(node, c, k)
      BY <2>7
    <3>2. f[2] = Octant(c, k)
      BY <3>1 DEF KidPlace
    <3> QED BY <2>2, <3>1, <3>2
  <2>9. e \notin EightAt(base, c)
    <3>1. e[2].level # c.level - 1
      BY <2>3, ArenaAssumption DEF c
    <3> QED BY <2>8, <3>1
  <2> HIDE DEF more
  <2>10. e \in more /\ more \subseteq place /\ \A f \in place : f \in more \/ f \in EightAt(base, c)
    BY <2>9 DEF more
  <2>11. ASSUME NEW f \in more, NEW k \in 0..7, f # e, ~arena[f[1] + 1].leaf
         PROVE  KidPlace(arena[f[1] + 1], f[2], k) \in more
    <3> DEFINE d == KidPlace(arena[f[1] + 1], f[2], k)
    <3>1. f \in place /\ d \in place
      BY <1>1, <2>10, <2>11 DEF Right
    <3>2. ASSUME d \in EightAt(base, c) PROVE FALSE
      <4>1. PICK j \in 0..7 : d = KidPlace(node, c, j)
        BY <2>7, <3>2
      <4>2. Parent(arena, e, j, d)
        BY <1>1, <4>1 DEF Parent, node, c
      <4>3. Parent(arena, f, k, d)
        BY <2>11 DEF Parent
      <4> HIDE DEF d
      <4>4. f = e
        BY ONLY <1>1, <3>1, <4>2, <4>3, OneParent, e \in place, j \in 0..7, k \in 0..7
      <4> QED BY <2>11, <4>4
    <3> QED BY <2>10, <3>1, <3>2
  <2>12. Right(new, more, sh, leaf, c)
    BY <2>3, <2>5 DEF Right
  <2>13. Exchanging(arena, place, sh, looser, e, new, more, sh)
    <3>1. ParentsIn(arena, place, e, looser)
      BY DEF ParentsIn, looser
    <3>2. \A f \in place, j \in 0..7 : Parent(arena, f, j, e) => j \in arena[f[1] + 1].mask
      BY <1>1, BranchUnmasked
    <3>3. \A f \in place : arena[f[1] + 1].leaf => Shows(sh, f[2], arena[f[1] + 1].of)
      BY <1>1 DEF Right
    <3> QED BY <1>1, <2>4, <2>10, <2>11, <2>12, <3>1, <3>2, <3>3 DEF Exchanging, c
  <2>14. ASSUME NEW f \in more, NEW q \in Space, f # e, InCube(q, e[2]), InCube(q, f[2])
         PROVE  Over(arena, f, e)
    <3> SUFFICES ASSUME ~Over(arena, f, e) PROVE FALSE
      OBVIOUS
    <3>1. f \in place /\ Over(arena, e, f)
      BY <1>1, <2>10, <2>14 DEF Apart
    <3>2. PICK k \in 0..7 : InCube(q, Octant(c, k))
      BY <1>1, <2>3, <2>14, PlacedInOctant DEF c
    <3> DEFINE d == KidPlace(node, c, k)
    <3>3. d \in place /\ d \in EightAt(base, c) /\ d[2] = Octant(c, k) /\ d[1] = base + k
      BY <2>2, <2>7 DEF KidPlace
    <3>4. arena[d[1] + 1] = leaf
      BY <2>2, <3>3 DEF Kid
    <3> HIDE DEF d
    <3>5. f # d
      BY <3>3 DEF more
    <3>6. Over(arena, f, d)
      BY ONLY <1>1, <2>3, <2>14, <3>1, <3>2, <3>3, <3>4, <3>5, LeafOver, q \in Space
    <3>7. c.level - 1 < f[2].level /\ f[2].level < c.level
      BY <2>2, <3>1, <3>3, <3>6 DEF Over, c
    <3>8. f[2].level \in Int /\ c.level \in Int
      BY <1>1, <3>1, CubesAre, ArenaAssumption
    <3> QED BY ONLY <3>7, <3>8
  <2>15. TreeBut(new, more, sh, looser \cup {e[1]})
    BY <2>10, <2>13, <2>14, Exchanged
  <2>16. Compact(new, new[e[1] + 1])
    BY <2>3, <2>4 DEF Compact
  <2>17. TreeBut(new, more, sh, loose)
    <3>1. looser \cup {e[1]} = loose \cup {e[1]}
      BY DEF looser
    <3> QED BY ONLY <2>10, <2>15, <2>16, <3>1, Tightens
  <2>18. \A f \in place : f # e => new[f[1] + 1] = arena[f[1] + 1]
    <3> TAKE f \in place
    <3> HAVE f # e
    <3>1. f[1] # e[1]
      BY <1>1 DEF Apart
    <3>2. f[1] + 1 # e[1] + 1
      BY <1>1, <3>1
    <3> QED BY <1>1, <2>4, <3>2 DEF Swapped
  <2>19. \A f \in place \ more : f[2].level = e[2].level - 1
    BY <2>8, <2>10 DEF c
  <2>20. CollapsedTree(arena, place, sh, loose, e, new, more)
    BY <2>10, <2>17, <2>18, <2>19 DEF CollapsedTree
  <2> QED BY <2>20 DEF new
<1> QED BY <1>3, <1>4

-----------------------------------------------------------------------------
(* An edit.                                                                *)

\* What is above the level n stays.
PutKeeps(arena, place, n, new, more) ==
  /\ \A f \in place \cup more : f[2].level >= n => f \in place /\ f \in more
  /\ \A f \in place : f[2].level > n => new[f[1] + 1] = arena[f[1] + 1]

\* What an edit below the level n leaves.
PutDone(arena, place, loose, put, n, new) ==
  \E more : TreeBut(new, more, put, loose) /\ PutKeeps(arena, place, n, new, more)

\* A call for a place in the cube of e.
PutAsked(a, n, arena, place, sh, loose, e, p) ==
  /\ TreeBut(arena, place, sh, loose) /\ sh \in [Space -> Attributes]
  /\ e \in place /\ e[2].level = n /\ p \in Space /\ InCube(p, e[2])
  /\ ParentsTake(arena, place, e, loose, a)

\* It leaves a tree that shows the new attributes at the place.
PutAnswered(a, n, arena, place, sh, loose, e, p) ==
  PutDone(arena, place, loose, [sh EXCEPT ![p] = a], n, Put(a)[n][arena][e[1]][SeenFrom(p, e[2])])

\* The calls of level n do so.
PutsWell(a, n) ==
  \A arena, place, sh, loose, e, p :
    PutAsked(a, n, arena, place, sh, loose, e, p) => PutAnswered(a, n, arena, place, sh, loose, e, p)

\* A call for a voxel, unfolded.
LEMMA PutStart ==
  ASSUME NEW a, NEW arena \in Arenas, NEW i \in Nat, NEW q \in Space
  PROVE  Put(a)[0][arena][i][q] =
           IF arena[i + 1] = Leaf(a) THEN arena ELSE [arena EXCEPT ![i + 1] = Leaf(a)]
<1>1. Put(a)[0] = PutVoxel(a)
  BY PutUnfolds
<1> QED BY <1>1 DEF PutVoxel

\* A call for a cube, unfolded.
LEMMA PutStep ==
  ASSUME NEW a, NEW n \in 1..Depth, NEW arena \in Arenas, NEW i \in Nat, NEW q \in Space
  PROVE  Put(a)[n][arena][i][q] =
           IF ~arena[i + 1].leaf THEN PutBelow(a, n, Put(a)[n - 1], arena, i, q)
           ELSE IF arena[i + 1].of = a THEN arena
           ELSE PutBelow(a, n, Put(a)[n - 1], SplitLeaf(arena, i), i, q)
<1> DEFINE put == Put(a)[n - 1]
<1>1. Put(a)[n] = PutCube(a, n, put)
  BY PutUnfolds
<1> HIDE DEF put
<1>2. PutCube(a, n, put)[arena][i][q] =
        IF ~arena[i + 1].leaf THEN PutBelow(a, n, put, arena, i, q)
        ELSE IF arena[i + 1].of = a THEN arena
        ELSE PutBelow(a, n, put, SplitLeaf(arena, i), i, q)
  BY DEF PutCube
<1> QED BY <1>1, <1>2 DEF put

\* A voxel is put.
LEMMA PutsVoxel ==
  ASSUME NEW a \in Attributes
  PROVE  PutsWell(a, 0)
<1> SUFFICES ASSUME NEW arena, NEW place, NEW sh, NEW loose, NEW e, NEW p,
                    PutAsked(a, 0, arena, place, sh, loose, e, p)
             PROVE  PutAnswered(a, 0, arena, place, sh, loose, e, p)
  BY DEF PutsWell
<1>0. /\ TreeBut(arena, place, sh, loose) /\ sh \in [Space -> Attributes]
      /\ e \in place /\ e[2].level = 0 /\ p \in Space /\ InCube(p, e[2])
      /\ ParentsTake(arena, place, e, loose, a)
  BY DEF PutAsked
<1> DEFINE node == arena[e[1] + 1]
           put == [sh EXCEPT ![p] = a]
           new == Put(a)[0][arena][e[1]][SeenFrom(p, e[2])]
           exchanged == [arena EXCEPT ![e[1] + 1] = Leaf(a)]
<1>1. /\ Graph(arena, place, sh)
      /\ e[1] \in Nat /\ e[1] + 1 \in 1..Len(arena) /\ arena \in Seq(SvoNodes) /\ e[2] \in Fitting
      /\ Right(arena, place, sh, node, e[2]) /\ node \in SvoNodes
  BY ONLY PlacedIs, <1>0 DEF TreeBut
<1>2. SeenFrom(p, e[2]) \in Space /\ arena \in Arenas
  BY <1>0, <1>1, FromIs DEF Arenas
<1>3. new = IF node = Leaf(a) THEN arena ELSE exchanged
  BY <1>1, <1>2, PutStart
<1>4. exchanged = arena \/ node # Leaf(a)
  <2> SUFFICES ASSUME node = Leaf(a) PROVE exchanged = arena
    OBVIOUS
  <2> DEFINE i == e[1] + 1
  <2>1. i \in DOMAIN arena /\ arena[i] = Leaf(a) /\ arena = [j \in DOMAIN arena |-> arena[j]]
    BY <1>1
  <2> HIDE DEF i
  <2>2. [arena EXCEPT ![i] = Leaf(a)] = arena
    BY <2>1
  <2> QED BY <2>2 DEF i
<1>5. node.leaf
  BY <1>0, <1>1 DEF Right
<1>6. Shows(put, e[2], a) /\ \A q \in Space : ~InCube(q, e[2]) => put[q] = sh[q]
  <2>1. \A q \in Space : InCube(q, e[2]) => q = p
    <3> DEFINE at == [r \in Space |-> r]
    <3>1. Shows(at, e[2], at[e[2].origin]) /\ e[2].origin \in Space
      BY <1>0, <1>1, VoxelShows, CubesAre
    <3>2. \A q \in Space : InCube(q, e[2]) => at[q] = at[e[2].origin] /\ at[q] = q
      BY <3>1 DEF Shows
    <3> HIDE DEF at
    <3> QED BY <1>0, <3>2
  <2>2. put[p] = a /\ \A q \in Space : q # p => put[q] = sh[q]
    BY <1>0
  <2> QED BY <1>0, <2>1, <2>2 DEF Shows
<1> HIDE DEF put, new, exchanged, node
<1>7. TreeBut(exchanged, place, put, loose)
  <2>1. TreeBut(arena, place, sh, loose) /\ e \in place /\ ParentsTake(arena, place, e, loose, a)
    BY ONLY <1>0
  <2>2. arena[e[1] + 1].leaf
    BY ONLY <1>5 DEF node
  <2>3. TreeBut([arena EXCEPT ![e[1] + 1] = Leaf(a)], place, put, loose)
    BY ONLY <1>6, <2>1, <2>2, LeafPut, a \in Attributes
  <2> QED BY ONLY <2>3 DEF exchanged
<1>8. new = exchanged
  BY <1>3, <1>4
<1>9. \A f \in place : f[2].level > 0 => exchanged[f[1] + 1] = arena[f[1] + 1]
  <2> SUFFICES ASSUME NEW f \in place, f[2].level > 0 PROVE exchanged[f[1] + 1] = arena[f[1] + 1]
    OBVIOUS
  <2>1. f # e
    BY <1>0
  <2>2. f[1] # e[1] /\ f[1] \in Nat /\ f[1] + 1 \in 1..Len(arena)
    <3>1. f[1] \in Nat /\ f[1] + 1 \in 1..Len(arena)
      BY ONLY <1>1, PlacedIs, f \in place
    <3> QED BY <1>0, <2>1, <3>1 DEF TreeBut, Apart
  <2>3. f[1] + 1 # e[1] + 1
    BY <1>1, <2>2
  <2> QED BY <1>1, <2>2, <2>3 DEF exchanged
<1>10. PutKeeps(arena, place, 0, new, place)
  BY <1>8, <1>9 DEF PutKeeps
<1>11. PutDone(arena, place, loose, put, 0, new)
  BY <1>7, <1>8, <1>10 DEF PutDone
<1> QED BY <1>11 DEF PutAnswered, put, new

\* Below a branch, whose own parents a call is below.
LEMMA PutsBelow ==
  ASSUME NEW a \in Attributes, NEW n \in 1..Depth, PutsWell(a, n - 1),
         NEW arena, NEW place, NEW sh \in [Space -> Attributes], NEW loose, NEW e \in place,
         TreeBut(arena, place, sh, loose \cup {e[1]}), e[2].level = n, ~arena[e[1] + 1].leaf,
         NEW p \in Space, InCube(p, e[2]), ParentsIn(arena, place, e, loose)
  PROVE  PutDone(arena, place, loose, [sh EXCEPT ![p] = a], n,
                 PutBelow(a, n, Put(a)[n - 1], arena, e[1], SeenFrom(p, e[2])))
<1> DEFINE looser == loose \cup {e[1]}
           put == [sh EXCEPT ![p] = a]
           c == e[2]
           h == SideAt[n - 1]
           q == SeenFrom(p, c)
           k == OctantOf(q, h)
           node == arena[e[1] + 1]
           marked == Marked(arena, e[1], k, a)
           mark == marked[e[1] + 1]
           d == KidPlace(mark, c, k)
           below == Put(a)[n - 1][marked][d[1]][SeenFrom(p, d[2])]
           new == Collapsed(below, e[1])
<1>1. /\ Graph(arena, place, sh) /\ TreeBut(arena, place, sh, looser) /\ Apart(arena, place)
      /\ e[1] \in Nat /\ c \in Fitting /\ node \in SvoNodes /\ Right(arena, place, sh, node, c)
      /\ \A f \in place : f[1] \in Nat /\ f[1] + 1 \in 1..Len(arena) /\ f[2] \in Fitting
  BY ONLY PlacedIs, TreeBut(arena, place, sh, looser), e \in place DEF TreeBut
<1>2. c.level = n /\ n \in Int /\ Depth \in Nat /\ n >= 1
  BY ArenaAssumption
<1>3. k \in 0..7 /\ InCube(p, Octant(c, k)) /\ Within(q, h) = SeenFrom(p, Octant(c, k))
  BY <1>1, <1>2, OctantHolds
<1> HIDE DEF looser, k, q, h, node
<1>4. /\ TreeBut(marked, place, sh, looser) /\ ~mark.leaf /\ mark.base = node.base
      /\ (k \in mark.mask \/ a = Air) /\ Swapped(arena, marked, e)
  <2>1. ParentsIn(arena, place, e, looser)
    BY DEF ParentsIn, looser
  <2>2. looser \cup {e[1]} = looser
    BY DEF looser
  <2>3. /\ TreeBut(marked, place, sh, looser \cup {e[1]})
        /\ ~mark.leaf /\ mark.base = arena[e[1] + 1].base
        /\ k \in mark.mask \/ a = Air
        /\ Swapped(arena, marked, e)
    BY ONLY <1>1, <1>3, <2>1, MarkedIs, e \in place, ~arena[e[1] + 1].leaf, a \in Attributes
  <2> QED BY <2>2, <2>3 DEF node
<1>5. /\ Graph(marked, place, sh) /\ Apart(marked, place) /\ mark \in SvoNodes /\ Right(marked, place, sh, mark, c)
  BY ONLY <1>4, PlacedIs, e \in place DEF TreeBut
<1>6. \A f \in place : f # e => marked[f[1] + 1] = arena[f[1] + 1]
  <2> TAKE f \in place
  <2> HAVE f # e
  <2>1. f[1] # e[1]
    BY <1>1 DEF Apart
  <2>2. f[1] + 1 # e[1] + 1
    BY <1>1, <2>1
  <2> QED BY <1>1, <1>4, <2>2 DEF Swapped
<1> HIDE DEF marked, mark, c
<1>7. d \in place /\ d[1] = node.base + k /\ d[2] = Octant(c, k) /\ d[2].level = n - 1
  <2>1. d \in place /\ Octant(c, k).level = c.level - 1
    BY ONLY <1>1, <1>3, <1>4, <1>5, KidIs
  <2> QED BY <1>2, <1>4, <2>1 DEF KidPlace
<1>8. Parent(marked, e, k, d)
  BY <1>4 DEF Parent, mark, c
<1> HIDE DEF d, put
<1>9. ParentsTake(marked, place, d, looser, a)
  <2> SUFFICES ASSUME NEW f \in place, NEW j \in 0..7, Parent(marked, f, j, d)
               PROVE  f[1] \in looser /\ (j \in marked[f[1] + 1].mask \/ a = Air)
    BY DEF ParentsTake
  <2>1. f = e /\ j = k
    BY ONLY <1>3, <1>5, <1>8, OneParent, e \in place, f \in place, j \in 0..7, Parent(marked, f, j, d)
  <2> QED BY <1>4, <2>1 DEF looser, mark
<1>10. PICK more : TreeBut(below, more, put, looser) /\ PutKeeps(marked, place, n - 1, below, more)
  <2>1. PutAsked(a, n - 1, marked, place, sh, looser, d, p)
    BY <1>3, <1>4, <1>7, <1>9 DEF PutAsked
  <2>2. PutAnswered(a, n - 1, marked, place, sh, looser, d, p)
    BY <2>1 DEF PutsWell
  <2> QED BY <2>2 DEF PutAnswered, PutDone, put
<1> HIDE DEF below
<1>11. /\ \A f \in place \cup more : f[2].level >= n - 1 => f \in place /\ f \in more
       /\ \A f \in place : f[2].level > n - 1 => below[f[1] + 1] = marked[f[1] + 1]
  BY <1>10 DEF PutKeeps
<1>12. e \in more /\ below[e[1] + 1] = mark
  <2>1. e[2].level >= n - 1 /\ e[2].level > n - 1
    BY <1>2
  <2> QED BY <1>11, <2>1 DEF mark
<1>13. ParentsIn(below, more, e, loose)
  <2> SUFFICES ASSUME NEW f \in more, NEW j \in 0..7, Parent(below, f, j, e) PROVE f[1] \in loose
    BY DEF ParentsIn
  <2>1. Right(below, more, put, below[f[1] + 1], f[2]) /\ f[2] \in Fitting
    BY ONLY <1>10, PlacedIs, f \in more DEF TreeBut
  <2>2. f[2].level > 0 /\ c = Octant(f[2], j)
    BY <2>1 DEF Parent, KidPlace, Right, c
  <2>3. c.level = f[2].level - 1 /\ f[2].level \in Int
    BY <2>1, <2>2, OctantIs, CubesAre, ArenaAssumption
  <2>4. f[2].level >= n - 1 /\ f[2].level > n - 1 /\ f[2].level > n
    BY <1>2, <2>3
  <2>5. f \in place /\ f # e
    BY <1>2, <1>11, <2>4 DEF c
  <2>6. below[f[1] + 1] = arena[f[1] + 1]
    BY <1>6, <1>11, <2>4, <2>5
  <2>7. Parent(arena, f, j, e)
    BY <2>6 DEF Parent
  <2> QED BY <2>5, <2>7 DEF ParentsIn
<1>14. PICK most : CollapsedTree(below, more, put, loose, e, new, most)
  <2>1. ~below[e[1] + 1].leaf
    BY <1>4, <1>12
  <2> QED BY ONLY <1>10, <1>12, <1>13, <2>1, CollapsedIs DEF looser
<1>15. /\ TreeBut(new, most, put, loose) /\ most \subseteq more
       /\ \A f \in more \ most : f[2].level = n - 1
       /\ \A f \in more : f # e => new[f[1] + 1] = below[f[1] + 1]
  BY <1>2, <1>14 DEF CollapsedTree, c
<1> HIDE DEF new
<1>16. \A f \in place \cup more : f[2].level \in Int
  <2> TAKE f \in place \cup more
  <2>1. f[2] \in Fitting
    <3>1. CASE f \in place
      BY <1>1, <3>1
    <3>2. CASE f \in more
      BY ONLY <1>10, <3>2, PlacedIs DEF TreeBut
    <3> QED BY <3>1, <3>2
  <2> QED BY <2>1, CubesAre, ArenaAssumption
<1>17. PutKeeps(arena, place, n, new, most)
  <2>1. ASSUME NEW f \in place \cup most, f[2].level >= n PROVE f \in place /\ f \in most
    <3>1. f[2].level >= n - 1 /\ f[2].level # n - 1
      BY <1>2, <1>15, <1>16, <2>1
    <3> QED BY <1>11, <1>15, <3>1
  <2>2. ASSUME NEW f \in place, f[2].level > n PROVE new[f[1] + 1] = arena[f[1] + 1]
    <3>1. f[2].level >= n - 1 /\ f[2].level > n - 1 /\ f # e
      BY <1>2, <1>16, <2>2 DEF c
    <3> QED BY <1>6, <1>11, <1>15, <3>1
  <2> QED BY <2>1, <2>2 DEF PutKeeps
<1>18. PutBelow(a, n, Put(a)[n - 1], arena, e[1], q) = new
  <2>1. below = Put(a)[n - 1][marked][node.base + k][Within(q, h)]
    BY <1>3, <1>7 DEF below
  <2> DEFINE call == Put(a)[n - 1]
  <2> HIDE DEF call
  <2>2. below = call[marked][node.base + k][Within(q, h)]
    BY <2>1 DEF call
  <2>3. PutBelow(a, n, call, arena, e[1], q) = Collapsed(below, e[1])
    BY <2>2 DEF PutBelow, marked, node, k, h
  <2> QED BY <2>3 DEF new, call
<1>19. PutDone(arena, place, loose, put, n, new)
  BY <1>15, <1>17 DEF PutDone
<1> QED BY <1>18, <1>19 DEF put, q, c

\* A cube is put into.
LEMMA PutsCube ==
  ASSUME NEW a \in Attributes, NEW n \in 1..Depth, PutsWell(a, n - 1)
  PROVE  PutsWell(a, n)
<1> SUFFICES ASSUME NEW arena, NEW place, NEW sh, NEW loose, NEW e, NEW p,
                    PutAsked(a, n, arena, place, sh, loose, e, p)
             PROVE  PutAnswered(a, n, arena, place, sh, loose, e, p)
  BY DEF PutsWell
<1>0. /\ TreeBut(arena, place, sh, loose) /\ sh \in [Space -> Attributes]
      /\ e \in place /\ e[2].level = n /\ p \in Space /\ InCube(p, e[2])
      /\ ParentsTake(arena, place, e, loose, a)
  BY DEF PutAsked
<1> DEFINE node == arena[e[1] + 1]
           put == [sh EXCEPT ![p] = a]
           q == SeenFrom(p, e[2])
           new == Put(a)[n][arena][e[1]][q]
           below(from) == PutBelow(a, n, Put(a)[n - 1], from, e[1], q)
<1>1. /\ Graph(arena, place, sh)
      /\ e[1] \in Nat /\ arena \in Arenas /\ e[2] \in Fitting
      /\ Right(arena, place, sh, node, e[2]) /\ node \in SvoNodes
  BY ONLY PlacedIs, <1>0 DEF TreeBut, Graph
<1>2. q \in Space
  BY <1>0, <1>1, FromIs
<1>3. new = IF ~node.leaf THEN below(arena) ELSE IF node.of = a THEN arena ELSE below(SplitLeaf(arena, e[1]))
  BY <1>1, <1>2, PutStep
<1> HIDE DEF new
<1>4. CASE ~node.leaf
  <2>1. TreeBut(arena, place, sh, loose \cup {e[1]}) /\ ParentsIn(arena, place, e, loose)
    BY <1>0 DEF TreeBut, ParentsTake, ParentsIn
  <2>2. PutDone(arena, place, loose, put, n, below(arena))
    BY ONLY <1>0, <1>4, <2>1, PutsBelow, a \in Attributes, n \in 1..Depth, PutsWell(a, n - 1)
  <2> QED BY <1>3, <1>4, <2>2 DEF PutAnswered, new
<1>5. CASE node.leaf /\ node.of = a
  <2>1. sh[p] = a
    BY <1>0, <1>1, <1>5 DEF Right, Shows
  <2>2. put = sh
    BY <1>0, <2>1
  <2>3. PutKeeps(arena, place, n, arena, place)
    BY DEF PutKeeps
  <2> HIDE DEF put
  <2>4. PutDone(arena, place, loose, put, n, new)
    BY <1>0, <1>3, <1>5, <2>2, <2>3 DEF PutDone
  <2> QED BY <2>4 DEF PutAnswered, put, new
<1>6. CASE node.leaf /\ node.of # a
  <2> DEFINE split == SplitLeaf(arena, e[1])
  <2>1. e[2].level > 0 /\ n \in Int
    BY <1>0, ArenaAssumption
  <2>2. PICK more : SplitTree(arena, place, sh, loose, e, split, more)
    BY ONLY <1>0, <1>6, <2>1, SplitIs
  <2> HIDE DEF split
  <2>3. /\ TreeBut(split, more, sh, loose \cup {e[1]}) /\ ParentsIn(split, more, e, loose)
        /\ ~split[e[1] + 1].leaf /\ place \subseteq more
        /\ \A f \in place : f # e => split[f[1] + 1] = arena[f[1] + 1]
        /\ \A f \in more \ place : f[2].level = n - 1
    BY <1>0, <2>2 DEF SplitTree
  <2>4. e \in more
    BY <1>0, <2>3
  <2>5. PutDone(split, more, loose, put, n, below(split))
    BY ONLY <1>0, <2>3, <2>4, PutsBelow, a \in Attributes, n \in 1..Depth, PutsWell(a, n - 1)
  <2> HIDE DEF below, put
  <2>6. new = below(split)
    BY <1>3, <1>6 DEF split
  <2>7. PICK most : TreeBut(new, most, put, loose) /\ PutKeeps(split, more, n, new, most)
    BY <2>5, <2>6 DEF PutDone
  <2>8. \A f \in more : f[2].level \in Int
    <3> TAKE f \in more
    <3>1. f[2] \in Fitting
      BY ONLY <2>3, PlacedIs, f \in more DEF TreeBut
    <3> QED BY <3>1, CubesAre, ArenaAssumption
  <2>9. PutKeeps(arena, place, n, new, most)
    <3>1. ASSUME NEW f \in place \cup most, f[2].level >= n PROVE f \in place /\ f \in most
      <4>1. f \in more /\ f \in most
        BY <2>3, <2>7, <3>1 DEF PutKeeps
      <4>2. f[2].level # n - 1
        BY <2>1, <2>8, <3>1, <4>1
      <4> QED BY <2>3, <4>1, <4>2
    <3>2. ASSUME NEW f \in place, f[2].level > n PROVE new[f[1] + 1] = arena[f[1] + 1]
      <4>1. f \in more /\ f # e
        BY <1>0, <2>1, <2>3, <2>8, <3>2
      <4> QED BY <2>3, <2>7, <3>2, <4>1 DEF PutKeeps
    <3> QED BY <3>1, <3>2 DEF PutKeeps
  <2>10. PutDone(arena, place, loose, put, n, new)
    BY <2>7, <2>9 DEF PutDone
  <2> QED BY <2>10 DEF PutAnswered, put, new
<1> QED BY <1>4, <1>5, <1>6

\* A call for a cube of any level puts into it and leaves a tree, but for the
\* branches the call is below.
LEMMA PutsIs ==
  ASSUME NEW a \in Attributes
  PROVE  \A n \in 0..Depth : PutsWell(a, n)
<1> DEFINE bad == {n \in 0..Depth : ~PutsWell(a, n)}
<1>0. Depth \in Nat
  BY ArenaAssumption
<1> HIDE DEF bad
<1>1. ASSUME bad # {} PROVE FALSE
  <2>1. bad \in SUBSET Nat
    BY <1>0 DEF bad
  <2>2. PICK n \in bad : \A j \in bad : n <= j
    BY <1>1, <2>1, LeastNumber
  <2>3. n \in 0..Depth /\ ~PutsWell(a, n)
    BY <2>2 DEF bad
  <2>4. n # 0
    BY <2>3, PutsVoxel
  <2>5. n \in 1..Depth /\ n - 1 \in 0..Depth /\ ~(n <= n - 1)
    BY <1>0, <2>3, <2>4
  <2>6. PutsWell(a, n - 1)
    BY <2>2, <2>5 DEF bad
  <2> QED BY <2>3, <2>5, <2>6, PutsCube
<1> QED BY <1>1 DEF bad

\* An edit of a tree from its root.
LEMMA PutIs ==
  ASSUME NEW arena, NEW i, NEW place, NEW sh \in [Space -> Attributes],
         Rooted(arena, i, place, sh), Apart(arena, place),
         NEW a \in Attributes, NEW p \in Space
  PROVE  \E more : /\ Rooted(Put(a)[Depth][arena][i][p], i, more, [sh EXCEPT ![p] = a])
                   /\ Apart(Put(a)[Depth][arena][i][p], more)
<1> DEFINE e == <<i, Whole>>
           new == Put(a)[Depth][arena][i][p]
           put == [sh EXCEPT ![p] = a]
<1>1. e \in place /\ e[1] = i /\ e[2] = Whole
  BY DEF Rooted
<1>2. Whole.level = Depth /\ InCube(p, Whole) /\ SeenFrom(p, Whole) = p /\ Depth \in 0..Depth /\ Depth \in Nat
  BY WholeFits, ArenaAssumption
<1>3. TreeBut(arena, place, sh, {})
  BY DEF TreeBut, Rooted, Compacted
<1>4. ParentsTake(arena, place, e, {}, a)
  <2> SUFFICES ASSUME NEW f \in place, NEW k \in 0..7, Parent(arena, f, k, e) PROVE FALSE
    BY DEF ParentsTake
  <2>1. Right(arena, place, sh, arena[f[1] + 1], f[2]) /\ f[2] \in Fitting
    BY ONLY PlacedIs, <1>3, f \in place DEF TreeBut
  <2>2. f[2].level > 0 /\ Whole = Octant(f[2], k)
    BY <2>1, <1>1 DEF Parent, KidPlace, Right
  <2>3. Depth = f[2].level - 1
    BY <1>2, <2>1, <2>2, OctantIs
  <2>4. f[2].level \in 0..Depth
    BY <2>1, CubesAre
  <2> QED BY <1>2, <2>3, <2>4
<1> HIDE DEF e
<1>5. PutAsked(a, Depth, arena, place, sh, {}, e, p)
  BY <1>1, <1>2, <1>3, <1>4 DEF PutAsked
<1>6. PutAnswered(a, Depth, arena, place, sh, {}, e, p)
  BY <1>2, <1>5, PutsIs DEF PutsWell
<1> HIDE DEF put
<1>7. PutDone(arena, place, {}, put, Depth, new)
  BY <1>1, <1>2, <1>6 DEF PutAnswered, put
<1> HIDE DEF new
<1>8. PICK more : TreeBut(new, more, put, {}) /\ PutKeeps(arena, place, Depth, new, more)
  BY <1>7 DEF PutDone
<1>9. e \in more
  <2>1. e[2].level >= Depth
    BY <1>1, <1>2
  <2> QED BY <1>1, <1>8, <2>1 DEF PutKeeps
<1>10. Rooted(new, i, more, put) /\ Apart(new, more)
  BY <1>8, <1>9 DEF TreeBut, Rooted, Compacted, e
<1> QED BY <1>10 DEF new, put

-----------------------------------------------------------------------------
(* The arena shared into a graph.                                          *)

\* A node that stands for a cube in what has been laid down.
Interns(out, place, sh, c, r, more) ==
  /\ Graph(r.arena, more, sh) /\ Compacted(r.arena, more)
  /\ Extends(out, r.arena) /\ place \subseteq more
  /\ Right(r.arena, more, sh, r.node, c) /\ Compact(r.arena, r.node)

\* A block of eight that stands for the octants, and is not uniform.
Block(out, place, sh, c, block, mask) ==
  /\ Graph(out, place, sh) /\ Compacted(out, place) /\ c \in Fitting /\ c.level > 0
  /\ Laying(out, place, sh, c, block) /\ ~Uniform(block)
  /\ mask \in SUBSET (0..7) /\ \A k \in 0..7 : k \notin mask => block[k + 1] = Leaf(Air)

\* The block lies at this index.
BlockAt(arena, place, c, block, base) ==
  \A k \in 0..7 : <<base + k, Octant(c, k)>> \in place /\ arena[base + k + 1] = block[k + 1]

\* A branch that names a block stands for the cube the block stands for.
LEMMA BranchOfBlock ==
  ASSUME NEW arena, NEW place, NEW sh, NEW c, c.level > 0,
         NEW block, ~Uniform(block), NEW mask \in SUBSET (0..7),
         \A k \in 0..7 : k \notin mask => block[k + 1] = Leaf(Air),
         NEW base \in Nat, BlockAt(arena, place, c, block, base)
  PROVE  Right(arena, place, sh, Branch(base, mask), c) /\ Compact(arena, Branch(base, mask))
<1> DEFINE node == Branch(base, mask)
<1>1. node \in SvoNodes /\ ~node.leaf /\ node.base = base /\ node.mask = mask
  BY MadeNodes
<1> HIDE DEF node
<1>2. ASSUME NEW k \in 0..7 PROVE KidPlace(node, c, k) \in place /\ Kid(arena, node, k) = block[k + 1]
  BY <1>1, <1>2 DEF BlockAt, KidPlace, Kid
<1>3. Right(arena, place, sh, node, c)
  BY <1>1, <1>2 DEF Right
<1>4. \A k \in 1..8 : KidsAt(arena, base)[k] = block[k]
  <2> TAKE k \in 1..8
  <2>1. k - 1 \in 0..7 /\ (k - 1) + 1 = k
    OBVIOUS
  <2>2. KidsAt(arena, node.base)[(k - 1) + 1] = Kid(arena, node, k - 1)
    BY ONLY <1>1, <2>1, KidsAre, base \in Nat
  <2> QED BY <1>1, <1>2, <2>1, <2>2
<1>5. Compact(arena, node)
  <2>1. 1 \in 1..8
    OBVIOUS
  <2>2. Uniform(KidsAt(arena, base)) <=> Uniform(block)
    BY <1>4, <2>1 DEF Uniform
  <2> QED BY <1>1, <2>2 DEF Compact
<1> QED BY <1>3, <1>5 DEF node

\* An arena that nothing is added to keeps what it has.
LEMMA ExtendsSelf ==
  ASSUME NEW arena \in Seq(SvoNodes)
  PROVE  Extends(arena, arena)
<1> QED BY DEF Extends

\* A block that is there already is named.
LEMMA BlockNamed ==
  ASSUME NEW out, NEW place, NEW sh, NEW c, NEW block, NEW mask, Block(out, place, sh, c, block, mask),
         NEW base \in Nat, base + 8 <= Len(out), KidsAt(out, base) = block
  PROVE  Interns(out, place, sh, c, [arena |-> out, node |-> Branch(base, mask)], place \cup EightAt(base, c))
<1> DEFINE more == place \cup EightAt(base, c)
           node == Branch(base, mask)
<1>1. /\ Graph(out, place, sh) /\ Compacted(out, place) /\ c \in Fitting /\ c.level > 0 /\ ~Uniform(block)
      /\ mask \in SUBSET (0..7) /\ \A k \in 0..7 : k \notin mask => block[k + 1] = Leaf(Air)
      /\ \A j \in 0..7 : Right(out, place, sh, block[j + 1], Octant(c, j)) /\ Compact(out, block[j + 1])
  BY DEF Block, Laying
<1>2. out \in Seq(SvoNodes) /\ Len(out) \in Nat /\ place \subseteq Nat \X Fitting
  BY <1>1 DEF Graph, Arenas
<1>3. \A k \in 0..7 : out[base + k + 1] = block[k + 1] /\ <<base + k, Octant(c, k)>> \in EightAt(base, c)
  <2> TAKE k \in 0..7
  <2>1. k + 1 \in 1..8 /\ base + (k + 1) = base + k + 1
    OBVIOUS
  <2>2. KidsAt(out, base)[k + 1] = out[base + k + 1]
    BY <2>1 DEF KidsAt
  <2> QED BY <2>2, EightPlaced
<1>4. place \subseteq more /\ \A e \in more : e \in place \/ e \in EightAt(base, c)
  OBVIOUS
<1>5. BlockAt(out, more, c, block, base)
  BY <1>3 DEF BlockAt
<1> HIDE DEF more
<1>6. Right(out, more, sh, node, c) /\ Compact(out, node)
  BY ONLY <1>1, <1>5, BranchOfBlock, base \in Nat
<1>7. Extends(out, out)
  BY <1>2, ExtendsSelf
<1>8. ASSUME NEW n, NEW d \in Fitting, Right(out, place, sh, n, d) PROVE Right(out, more, sh, n, d)
  BY ONLY <1>1, <1>4, <1>7, <1>8, RightStays
<1>9. \A k \in 0..7 : Octant(c, k) \in Fitting
  BY <1>1, OctantIs
<1>10. ASSUME NEW e \in more
       PROVE  /\ e \in Nat \X Fitting /\ e[1] < Len(out)
              /\ Right(out, more, sh, out[e[1] + 1], e[2]) /\ Compact(out, out[e[1] + 1])
  <2>1. CASE e \in place
    <3>1. /\ e[1] < Len(out) /\ e[2] \in Fitting /\ Right(out, place, sh, out[e[1] + 1], e[2])
      BY ONLY <1>1, <2>1, PlacedIs
    <3>2. Right(out, more, sh, out[e[1] + 1], e[2])
      BY <1>8, <3>1
    <3> QED BY <1>1, <1>2, <2>1, <3>1, <3>2 DEF Compacted
  <2>2. CASE e \in EightAt(base, c)
    <3>1. PICK k \in 0..7 : e = <<base + k, Octant(c, k)>>
      BY <2>2, EightPlaced
    <3>2. e[1] = base + k /\ e[2] = Octant(c, k)
      BY <3>1
    <3>3. e[1] < Len(out) /\ e \in Nat \X Fitting
      <4>1. base + k < Len(out) /\ base + k \in Nat
        BY ONLY <1>2, base \in Nat, base + 8 <= Len(out), k \in 0..7
      <4> QED BY <1>9, <3>1, <3>2, <4>1
    <3>4. Right(out, place, sh, block[k + 1], Octant(c, k)) /\ Compact(out, block[k + 1])
      BY <1>1
    <3>5. Right(out, more, sh, block[k + 1], Octant(c, k))
      BY <1>8, <1>9, <3>4
    <3>6. out[e[1] + 1] = block[k + 1]
      BY <1>3, <3>2
    <3> QED BY <3>2, <3>3, <3>4, <3>5, <3>6
  <2> QED BY <1>4, <2>1, <2>2
<1>11. Graph(out, more, sh) /\ Compacted(out, more)
  BY <1>2, <1>10 DEF Graph, Compacted, Arenas
<1> DEFINE r == [arena |-> out, node |-> node]
<1>12. r.arena = out /\ r.node = node
  OBVIOUS
<1> HIDE DEF r, node
<1>13. Interns(out, place, sh, c, r, more)
  BY <1>4, <1>6, <1>7, <1>11, <1>12 DEF Interns
<1> QED BY <1>13 DEF r, node, more

\* A block that is not is laid down.
LEMMA BlockLaid ==
  ASSUME NEW out, NEW place, NEW sh, NEW c, NEW block, NEW mask, Block(out, place, sh, c, block, mask)
  PROVE  Interns(out, place, sh, c, [arena |-> out \o block, node |-> Branch(Len(out), mask)],
                 place \cup EightAt(Len(out), c))
<1> DEFINE longer == out \o block
           base == Len(out)
           more == place \cup EightAt(base, c)
           node == Branch(base, mask)
<1>1. /\ Graph(out, place, sh) /\ Compacted(out, place) /\ c \in Fitting /\ c.level > 0 /\ ~Uniform(block)
      /\ mask \in SUBSET (0..7) /\ \A k \in 0..7 : k \notin mask => block[k + 1] = Leaf(Air)
      /\ Laying(out, place, sh, c, block) /\ block \in Seq(SvoNodes) /\ Len(block) = 8
  BY DEF Block, Laying
<1>2. out \in Seq(SvoNodes) /\ base \in Nat
  BY <1>1 DEF Graph, Arenas
<1>3. Extends(out, longer) /\ \A k \in 1..8 : longer[base + k] = block[k]
  <2>1. /\ Extends(out, longer) /\ \A k \in 1..Len(block) : longer[base + k] = block[k]
    BY ONLY <1>1, <1>2, AppendsExtend
  <2> HIDE DEF longer, base
  <2> QED BY <1>1, <2>1
<1>4. Graph(longer, more, sh) /\ Compacted(longer, more)
  <2>1. LaidWell(out, place, sh, c, block)
    BY ONLY <1>1, LaidGraph
  <2> QED BY ONLY <2>1 DEF LaidWell, longer, more, base
<1> HIDE DEF longer, base
<1>5. BlockAt(longer, more, c, block, base)
  <2> SUFFICES ASSUME NEW k \in 0..7
               PROVE  <<base + k, Octant(c, k)>> \in more /\ longer[base + k + 1] = block[k + 1]
    BY DEF BlockAt
  <2>1. k + 1 \in 1..8 /\ base + (k + 1) = base + k + 1
    BY <1>2
  <2>2. <<base + k, Octant(c, k)>> \in EightAt(base, c)
    BY <1>2, EightPlaced
  <2> QED BY <1>3, <2>1, <2>2
<1>6. place \subseteq more
  OBVIOUS
<1> HIDE DEF more
<1>7. Right(longer, more, sh, node, c) /\ Compact(longer, node)
  BY ONLY <1>1, <1>2, <1>5, BranchOfBlock
<1> DEFINE r == [arena |-> longer, node |-> node]
<1>8. r.arena = longer /\ r.node = node
  OBVIOUS
<1> HIDE DEF r, node
<1>9. Interns(out, place, sh, c, r, more)
  BY <1>3, <1>4, <1>6, <1>7, <1>8 DEF Interns
<1> QED BY <1>9 DEF r, node, longer, more, base

\* Whether it is named or laid down, a block stands for its cube (intern()).
LEMMA InternedIs ==
  ASSUME NEW out, NEW place, NEW sh, NEW c, NEW block, NEW mask, Block(out, place, sh, c, block, mask)
  PROVE  \E more : Interns(out, place, sh, c, Interned(out, block, mask), more)
<1> DEFINE same == {b \in 0..(Len(out) \div 8) : 8 * b + 8 <= Len(out) /\ KidsAt(out, 8 * b) = block}
<1>1. CASE same # {}
  <2> DEFINE b == CHOOSE b \in same : TRUE
             base == 8 * b
  <2>1. b \in same
    BY <1>1
  <2>2. b \in Nat /\ 8 * b + 8 <= Len(out) /\ KidsAt(out, 8 * b) = block
    BY <2>1
  <2>3. Interned(out, block, mask) = [arena |-> out, node |-> Branch(base, mask)]
    BY <1>1 DEF Interned
  <2> HIDE DEF b
  <2>4. base \in Nat /\ base + 8 <= Len(out) /\ KidsAt(out, base) = block
    BY <2>2
  <2> HIDE DEF base
  <2>5. Interns(out, place, sh, c, [arena |-> out, node |-> Branch(base, mask)], place \cup EightAt(base, c))
    BY ONLY <2>4, BlockNamed, Block(out, place, sh, c, block, mask)
  <2> QED BY <2>3, <2>5
<1>2. CASE same = {}
  <2>1. Interned(out, block, mask) = [arena |-> out \o block, node |-> Branch(Len(out), mask)]
    BY <1>2 DEF Interned
  <2> DEFINE r == [arena |-> out \o block, node |-> Branch(Len(out), mask)]
             more == place \cup EightAt(Len(out), c)
  <2>2. Interns(out, place, sh, c, r, more)
    BY ONLY BlockLaid, Block(out, place, sh, c, block, mask)
  <2> HIDE DEF r, more
  <2> QED BY ONLY <2>1, <2>2 DEF r
<1> QED BY <1>1, <1>2

\* A node of the arena as it is shared: leaves stay as they are.
SharedAs(out, placed, sh, c, node, r, more) ==
  /\ Interns(out, placed, sh, c, r, more)
  /\ node.leaf => r.node = node
  /\ ~node.leaf => ~r.node.leaf

\* The calls of level n share.
Shares(arena, place, sh, n) ==
  \A out, placed, e :
    Graph(out, placed, sh) /\ Compacted(out, placed) /\ e \in place /\ e[2].level = n =>
      \E more : SharedAs(out, placed, sh, e[2], arena[e[1] + 1], Shared(arena)[n][out][e[1]], more)

\* The children before the k-th are shared.
Sharing(arena, out, placed, sh, c, node, k, v, more) ==
  /\ Graph(v.arena, more, sh) /\ Compacted(v.arena, more)
  /\ Extends(out, v.arena) /\ placed \subseteq more
  /\ v.kids \in Seq(SvoNodes) /\ Len(v.kids) = k
  /\ \A j \in 0..(k - 1) : /\ Right(v.arena, more, sh, v.kids[j + 1], Octant(c, j))
                           /\ Compact(v.arena, v.kids[j + 1])
                           /\ Kid(arena, node, j).leaf => v.kids[j + 1] = Kid(arena, node, j)
                           /\ ~Kid(arena, node, j).leaf => ~v.kids[j + 1].leaf

\* Once the k-th child is shared, those before the next one are.
LEMMA SharingOn ==
  ASSUME NEW arena, NEW out, NEW placed, NEW sh, NEW c \in Fitting, c.level > 0, NEW node, NEW k \in 0..7,
         NEW v, NEW more, Sharing(arena, out, placed, sh, c, node, k, v, more),
         NEW r, NEW most, SharedAs(v.arena, more, sh, Octant(c, k), Kid(arena, node, k), r, most)
  PROVE  Sharing(arena, out, placed, sh, c, node, k + 1, [arena |-> r.arena, kids |-> Append(v.kids, r.node)], most)
<1> DEFINE w == [arena |-> r.arena, kids |-> Append(v.kids, r.node)]
<1>1. w.arena = r.arena /\ w.kids = Append(v.kids, r.node)
  OBVIOUS
<1>2. /\ Graph(v.arena, more, sh) /\ Extends(v.arena, r.arena) /\ more \subseteq most /\ placed \subseteq most
      /\ Graph(r.arena, most, sh) /\ Compacted(r.arena, most)
      /\ Right(r.arena, most, sh, r.node, Octant(c, k)) /\ Compact(r.arena, r.node)
  BY DEF Sharing, SharedAs, Interns
<1>3. Extends(out, r.arena)
  BY <1>2, ExtendsOn DEF Sharing
<1>4. r.node \in SvoNodes
  BY <1>2 DEF Right
<1>5. /\ w.kids \in Seq(SvoNodes) /\ Len(w.kids) = k + 1
      /\ \A j \in 1..k : w.kids[j] = v.kids[j]
      /\ w.kids[k + 1] = r.node
  <2>1. v.kids \in Seq(SvoNodes) /\ Len(v.kids) = k
    BY DEF Sharing
  <2> HIDE DEF w
  <2> QED BY <1>1, <1>4, <2>1
<1> HIDE DEF w
<1>6. ASSUME NEW j \in 0..k
      PROVE  /\ Right(w.arena, most, sh, w.kids[j + 1], Octant(c, j))
             /\ Compact(w.arena, w.kids[j + 1])
             /\ Kid(arena, node, j).leaf => w.kids[j + 1] = Kid(arena, node, j)
             /\ ~Kid(arena, node, j).leaf => ~w.kids[j + 1].leaf
  <2>1. CASE j = k
    BY <1>1, <1>2, <1>5, <2>1 DEF SharedAs
  <2>2. CASE j # k
    <3>1. j \in 0..(k - 1) /\ j + 1 \in 1..k /\ j \in 0..7
      BY <2>2
    <3> DEFINE kid == v.kids[j + 1]
    <3>2. /\ Right(v.arena, more, sh, kid, Octant(c, j)) /\ Compact(v.arena, kid)
          /\ Kid(arena, node, j).leaf => kid = Kid(arena, node, j)
          /\ ~Kid(arena, node, j).leaf => ~kid.leaf
      BY <3>1 DEF Sharing
    <3>3. w.kids[j + 1] = kid
      BY <1>5, <3>1
    <3>4. Octant(c, j) \in Fitting
      BY <3>1, OctantIs
    <3> HIDE DEF kid
    <3>5. Right(r.arena, most, sh, kid, Octant(c, j)) /\ Compact(r.arena, kid)
      BY ONLY <1>2, <3>2, <3>4, RightStays
    <3> QED BY <1>1, <3>2, <3>3, <3>5
  <2> QED BY <2>1, <2>2
<1>7. (k + 1) - 1 = k
  OBVIOUS
<1> QED BY <1>1, <1>2, <1>3, <1>5, <1>6, <1>7 DEF Sharing, w

\* The indices of the children, that the eight calls are made with.
KidNumbers(node) == [k \in 0..7 |-> node.base + k]

\* The eight calls share child after child.
LEMMA VisitsShare ==
  ASSUME NEW arena, NEW place, NEW sh, Graph(arena, place, sh), NEW n \in 1..Depth,
         Shares(arena, place, sh, n - 1),
         NEW out, NEW placed, Graph(out, placed, sh), Compacted(out, placed),
         NEW node, NEW c \in Fitting, c.level = n, Right(arena, place, sh, node, c), ~node.leaf
  PROVE  \A k \in 0..8 : \E more : Sharing(arena, out, placed, sh, c, node, k,
                           Visits(Shared(arena)[n - 1], out, KidNumbers(node))[k], more)
<1> DEFINE call == Shared(arena)[n - 1]
           V(k) == Visits(call, out, KidNumbers(node))[k]
           SoFar(k) == \E more : Sharing(arena, out, placed, sh, c, node, k, V(k), more)
           bad == {k \in 0..8 : ~SoFar(k)}
<1>0. c.level > 0 /\ Depth \in Nat
  BY ArenaAssumption
<1>1. V(0) = [arena |-> out, kids |-> <<>>]
  BY VisitsUnfolds
<1>2. ASSUME NEW k \in 0..7
      PROVE  V(k + 1) = [arena |-> call[V(k).arena][node.base + k].arena,
                         kids |-> Append(V(k).kids, call[V(k).arena][node.base + k].node)]
  <2>1. k + 1 \in 1..8 /\ (k + 1) - 1 = k
    OBVIOUS
  <2>2. V(k + 1) = Visited(call, KidNumbers(node), k + 1, V((k + 1) - 1))
    <3> HIDE DEF call
    <3>1. \A m \in 1..8 : V(m) = Visited(call, KidNumbers(node), m, V(m - 1))
      BY VisitsUnfolds
    <3> HIDE DEF V
    <3> QED BY <2>1, <3>1
  <2>3. KidNumbers(node)[k] = node.base + k
    BY DEF KidNumbers
  <2> HIDE DEF call
  <2> QED BY <2>1, <2>2, <2>3 DEF Visited
<1> HIDE DEF V, call
<1>3. SoFar(0)
  <2> DEFINE v == V(0)
  <2>1. v.arena = out /\ v.kids = <<>>
    BY <1>1
  <2>2. out \in Seq(SvoNodes)
    BY DEF Graph, Arenas
  <2>3. Extends(out, out)
    BY <2>2, ExtendsSelf
  <2> HIDE DEF v
  <2>4. v.kids \in Seq(SvoNodes) /\ Len(v.kids) = 0
    BY <2>1
  <2>5. Sharing(arena, out, placed, sh, c, node, 0, v, placed)
    BY <2>1, <2>3, <2>4 DEF Sharing
  <2> QED BY <2>5 DEF v
<1>4. ASSUME NEW k \in 0..7, SoFar(k) PROVE SoFar(k + 1)
  <2> DEFINE v == V(k)
             d == KidPlace(node, c, k)
             r == call[v.arena][d[1]]
  <2>1. PICK more : Sharing(arena, out, placed, sh, c, node, k, v, more)
    BY <1>4
  <2>2. d \in place /\ d[1] = node.base + k /\ d[2] = Octant(c, k) /\ d[2].level = n - 1
    <3>1. d \in place /\ Octant(c, k).level = c.level - 1
      BY ONLY KidIs, Graph(arena, place, sh), c \in Fitting, Right(arena, place, sh, node, c), ~node.leaf, k \in 0..7
    <3> QED BY <3>1 DEF KidPlace
  <2>3. arena[d[1] + 1] = Kid(arena, node, k)
    BY <2>2 DEF Kid
  <2>4. Graph(v.arena, more, sh) /\ Compacted(v.arena, more)
    BY <2>1 DEF Sharing
  <2> HIDE DEF v, d
  <2>5. PICK most : SharedAs(v.arena, more, sh, d[2], arena[d[1] + 1], r, most)
    BY <2>2, <2>4 DEF Shares, call
  <2>6. V(k + 1) = [arena |-> r.arena, kids |-> Append(v.kids, r.node)]
    BY <1>2, <2>2 DEF v
  <2> HIDE DEF r
  <2>7. Sharing(arena, out, placed, sh, c, node, k + 1, [arena |-> r.arena, kids |-> Append(v.kids, r.node)], most)
    <3>1. SharedAs(v.arena, more, sh, Octant(c, k), Kid(arena, node, k), r, most)
      BY <2>2, <2>3, <2>5
    <3> QED BY ONLY <1>0, <2>1, <3>1, SharingOn, c \in Fitting, k \in 0..7
  <2> QED BY <2>6, <2>7
<1> HIDE DEF SoFar
<1>5. ASSUME bad # {} PROVE FALSE
  <2>1. bad \in SUBSET Nat
    OBVIOUS
  <2>2. PICK k \in bad : \A j \in bad : k <= j
    <3> HIDE DEF bad
    <3> QED BY <1>5, <2>1, LeastNumber
  <2>3. k # 0
    BY <1>3, <2>2
  <2>4. k - 1 \in 0..7 /\ (k - 1) + 1 = k /\ k - 1 \notin bad
    BY <2>2, <2>3
  <2>5. SoFar(k - 1)
    BY <2>4
  <2>6. SoFar(k)
    BY <1>4, <2>4, <2>5
  <2> QED BY <2>2, <2>6
<1>6. \A k \in 0..8 : SoFar(k)
  BY <1>5
<1> QED BY <1>6 DEF SoFar, V, call

\* A call for a node above the voxels, unfolded.
LEMMA ShareStep ==
  ASSUME NEW arena, NEW n \in 1..Depth, NEW out \in Arenas, NEW i \in Nat
  PROVE  Shared(arena)[n][out][i] =
           LET node == arena[i + 1]
               v == Visits(Shared(arena)[n - 1], out, KidNumbers(node))[8]
           IN  IF node.leaf THEN [arena |-> out, node |-> node] ELSE Interned(v.arena, v.kids, node.mask)
<1> DEFINE share == Shared(arena)[n - 1]
<1>1. Shared(arena)[n] = ShareCube(arena, share)
  BY SharedUnfolds
<1> HIDE DEF share
<1>2. ShareCube(arena, share)[out][i] =
        LET node == arena[i + 1]
            v == Visits(share, out, KidNumbers(node))[8]
        IN  IF node.leaf THEN [arena |-> out, node |-> node] ELSE Interned(v.arena, v.kids, node.mask)
  BY DEF ShareCube, KidNumbers
<1> QED BY <1>1, <1>2 DEF share

\* A call for a voxel's node, unfolded.
LEMMA ShareStart ==
  ASSUME NEW arena, NEW out \in Arenas, NEW i \in Nat
  PROVE  Shared(arena)[0][out][i] = [arena |-> out, node |-> arena[i + 1]]
<1>1. Shared(arena)[0] = ShareVoxel(arena)
  BY SharedUnfolds
<1> QED BY <1>1 DEF ShareVoxel

\* A leaf is shared as it is.
LEMMA LeafShared ==
  ASSUME NEW arena, NEW place, NEW sh, NEW out, NEW placed, Graph(out, placed, sh), Compacted(out, placed),
         NEW c, NEW node, node.leaf, Right(arena, place, sh, node, c)
  PROVE  SharedAs(out, placed, sh, c, node, [arena |-> out, node |-> node], placed)
<1> DEFINE r == [arena |-> out, node |-> node]
<1>1. r.arena = out /\ r.node = node
  OBVIOUS
<1>2. out \in Seq(SvoNodes)
  BY DEF Graph, Arenas
<1>3. Extends(out, out)
  BY <1>2, ExtendsSelf
<1>4. Right(out, placed, sh, node, c) /\ Compact(out, node)
  BY DEF Right, Compact
<1> HIDE DEF r
<1> QED BY <1>1, <1>3, <1>4 DEF SharedAs, Interns, r

\* A node is shared if the nodes a level below it are.
LEMMA SharesCube ==
  ASSUME NEW arena, NEW place, NEW sh, Graph(arena, place, sh), Compacted(arena, place), NEW n \in 1..Depth,
         Shares(arena, place, sh, n - 1)
  PROVE  Shares(arena, place, sh, n)
<1> SUFFICES ASSUME NEW out, NEW placed, NEW e,
                    Graph(out, placed, sh), Compacted(out, placed), e \in place, e[2].level = n
             PROVE  \E more : SharedAs(out, placed, sh, e[2], arena[e[1] + 1], Shared(arena)[n][out][e[1]], more)
  BY DEF Shares
<1> DEFINE node == arena[e[1] + 1]
           c == e[2]
           v == Visits(Shared(arena)[n - 1], out, KidNumbers(node))[8]
           r == Shared(arena)[n][out][e[1]]
<1>1. /\ e[1] \in Nat /\ c \in Fitting /\ c.level = n /\ node \in SvoNodes
      /\ Right(arena, place, sh, node, c)
  BY ONLY PlacedIs, Graph(arena, place, sh), e \in place, e[2].level = n
<1>2. out \in Arenas /\ c.level > 0
  BY <1>1, ArenaAssumption DEF Graph
<1>3. r = IF node.leaf THEN [arena |-> out, node |-> node] ELSE Interned(v.arena, v.kids, node.mask)
  BY <1>1, <1>2, ShareStep
<1>4. Compact(arena, node)
  BY DEF Compacted
<1> HIDE DEF r, node, c
<1>5. CASE node.leaf
  <2>1. SharedAs(out, placed, sh, c, node, [arena |-> out, node |-> node], placed)
    BY <1>1, <1>5, LeafShared
  <2> QED BY <1>3, <1>5, <2>1 DEF r, node, c
<1>6. CASE ~node.leaf
  <2>1. 8 \in 0..8
    OBVIOUS
  <2>2. \A k \in 0..8 : \E more : Sharing(arena, out, placed, sh, c, node, k,
                           Visits(Shared(arena)[n - 1], out, KidNumbers(node))[k], more)
    BY ONLY <1>1, <1>6, VisitsShare, Graph(arena, place, sh), n \in 1..Depth, Shares(arena, place, sh, n - 1),
            Graph(out, placed, sh), Compacted(out, placed)
  <2>3. PICK more : Sharing(arena, out, placed, sh, c, node, 8, v, more)
    BY <2>1, <2>2
  <2> HIDE DEF v
  <2> DEFINE kids == v.kids
  <2>4. /\ Graph(v.arena, more, sh) /\ Compacted(v.arena, more)
        /\ Extends(out, v.arena) /\ placed \subseteq more
        /\ kids \in Seq(SvoNodes) /\ Len(kids) = 8
    BY <2>3 DEF Sharing
  <2>5. \A j \in 0..7 : /\ Right(v.arena, more, sh, kids[j + 1], Octant(c, j))
                        /\ Compact(v.arena, kids[j + 1])
                        /\ Kid(arena, node, j).leaf => kids[j + 1] = Kid(arena, node, j)
                        /\ ~Kid(arena, node, j).leaf => ~kids[j + 1].leaf
    <3> TAKE j \in 0..7
    <3>1. j \in 0..(8 - 1)
      OBVIOUS
    <3> QED BY ONLY <2>3, <3>1 DEF Sharing
  <2> HIDE DEF kids
  <2>6. node.base \in Nat /\ node.mask \in SUBSET (0..7)
    BY <1>1, <1>6, NodesAre
  <2>7. ~Uniform(kids)
    <3> SUFFICES ASSUME Uniform(kids) PROVE FALSE
      OBVIOUS
    <3>1. \A k \in 1..8 : KidsAt(arena, node.base)[k] = kids[k]
      <4> TAKE k \in 1..8
      <4>1. k - 1 \in 0..7 /\ (k - 1) + 1 = k
        OBVIOUS
      <4>2. KidsAt(arena, node.base)[(k - 1) + 1] = Kid(arena, node, k - 1)
        BY ONLY <2>6, <4>1, KidsAre
      <4>3. kids[(k - 1) + 1].leaf
        BY <4>1 DEF Uniform
      <4> QED BY <2>5, <4>1, <4>2, <4>3
    <3>2. 1 \in 1..8
      OBVIOUS
    <3>3. Uniform(KidsAt(arena, node.base))
      BY <3>1, <3>2 DEF Uniform
    <3> QED BY <1>4, <1>6, <3>3 DEF Compact
  <2>8. ASSUME NEW k \in 0..7, k \notin node.mask PROVE kids[k + 1] = Leaf(Air)
    <3>1. Kid(arena, node, k) = Leaf(Air)
      BY <1>1, <1>6, <2>8 DEF Right
    <3>2. Leaf(Air).leaf
      BY DEF Leaf
    <3> QED BY <2>5, <3>1, <3>2
  <2>9. Block(v.arena, more, sh, c, kids, node.mask)
    <3>1. Laying(v.arena, more, sh, c, kids)
      BY <2>4, <2>5 DEF Laying
    <3> QED BY <1>1, <1>2, <2>4, <2>6, <2>7, <2>8, <3>1 DEF Block
  <2>10. PICK most : Interns(v.arena, more, sh, c, Interned(v.arena, kids, node.mask), most)
    BY <2>9, InternedIs
  <2>11. r = Interned(v.arena, kids, node.mask)
    BY <1>3, <1>6 DEF kids
  <2>12. ~r.node.leaf
    <3> DEFINE same == {b \in 0..(Len(v.arena) \div 8) : 8 * b + 8 <= Len(v.arena) /\ KidsAt(v.arena, 8 * b) = kids}
    <3>1. \A base : ~Branch(base, node.mask).leaf
      BY DEF Branch
    <3>2. r.node = Branch(8 * (CHOOSE b \in same : TRUE), node.mask) \/ r.node = Branch(Len(v.arena), node.mask)
      BY <2>11 DEF Interned
    <3> HIDE DEF same
    <3> QED BY <3>1, <3>2
  <2>13. Extends(out, r.arena)
    BY <2>4, <2>10, <2>11, ExtendsOn DEF Interns
  <2>14. Interns(out, placed, sh, c, r, most)
    BY <2>4, <2>10, <2>11, <2>13 DEF Interns
  <2>15. SharedAs(out, placed, sh, c, node, r, most)
    BY <1>6, <2>12, <2>14 DEF SharedAs
  <2> QED BY <2>15 DEF r, node, c
<1> QED BY <1>5, <1>6

\* A node at any level is shared: what names it stands for the same cube.
LEMMA SharesIs ==
  ASSUME NEW arena, NEW place, NEW sh, Graph(arena, place, sh), Compacted(arena, place)
  PROVE  \A n \in 0..Depth : Shares(arena, place, sh, n)
<1> DEFINE bad == {n \in 0..Depth : ~Shares(arena, place, sh, n)}
<1>0. Depth \in Nat
  BY ArenaAssumption
<1>1. Shares(arena, place, sh, 0)
  <2> SUFFICES ASSUME NEW out, NEW placed, NEW e,
                      Graph(out, placed, sh), Compacted(out, placed), e \in place, e[2].level = 0
               PROVE  \E more : SharedAs(out, placed, sh, e[2], arena[e[1] + 1], Shared(arena)[0][out][e[1]], more)
    BY DEF Shares
  <2> DEFINE node == arena[e[1] + 1]
             r == Shared(arena)[0][out][e[1]]
  <2>1. e[1] \in Nat /\ Right(arena, place, sh, node, e[2])
    BY ONLY PlacedIs, Graph(arena, place, sh), e \in place
  <2>2. out \in Arenas
    BY DEF Graph
  <2>3. r = [arena |-> out, node |-> node]
    BY <2>1, <2>2, ShareStart
  <2>4. node.leaf
    BY <2>1 DEF Right
  <2> HIDE DEF r, node
  <2>5. SharedAs(out, placed, sh, e[2], node, [arena |-> out, node |-> node], placed)
    BY <2>1, <2>4, LeafShared
  <2>6. SharedAs(out, placed, sh, e[2], node, r, placed)
    BY <2>3, <2>5
  <2> QED BY <2>6 DEF r, node
<1> HIDE DEF bad
<1>2. ASSUME bad # {} PROVE FALSE
  <2>1. bad \in SUBSET Nat
    BY <1>0 DEF bad
  <2>2. PICK n \in bad : \A j \in bad : n <= j
    BY <1>2, <2>1, LeastNumber
  <2>3. n \in 0..Depth /\ ~Shares(arena, place, sh, n)
    BY <2>2 DEF bad
  <2>4. n \in 1..Depth /\ n - 1 \in 0..Depth /\ ~(n <= n - 1)
    BY <1>0, <1>1, <2>3
  <2>5. Shares(arena, place, sh, n - 1)
    BY <2>2, <2>4 DEF bad
  <2> QED BY <2>3, <2>4, <2>5, SharesCube
<1> QED BY <1>2 DEF bad

\* The graph that an arena is shared into.
LEMMA SharedIs ==
  ASSUME NEW arena, NEW i, NEW place, NEW sh, Rooted(arena, i, place, sh)
  PROVE  LET shared == Shared(arena)[Depth][<<>>][i]
         IN  \E more : Rooted(Append(shared.arena, shared.node), Len(shared.arena), more, sh)
<1> DEFINE r == Shared(arena)[Depth][<<>>][i]
           e == <<i, Whole>>
<1>1. /\ Graph(arena, place, sh) /\ Compacted(arena, place) /\ e \in place /\ e[1] = i /\ e[2] = Whole
      /\ Whole.level = Depth /\ Depth \in 0..Depth
  BY WholeFits, ArenaAssumption DEF Rooted
<1>2. Graph(<<>>, {}, sh) /\ Compacted(<<>>, {})
  <2>1. <<>> \in Arenas
    BY DEF Arenas
  <2> QED BY <2>1 DEF Graph, Compacted
<1>3. PICK place1 : SharedAs(<<>>, {}, sh, Whole, arena[i + 1], r, place1)
  <2>1. Shares(arena, place, sh, Depth)
    BY <1>1, SharesIs
  <2> HIDE DEF e
  <2>2. \E more : SharedAs(<<>>, {}, sh, e[2], arena[e[1] + 1], Shared(arena)[Depth][<<>>][e[1]], more)
    BY <1>1, <1>2, <2>1 DEF Shares
  <2> QED BY <1>1, <2>2
<1> HIDE DEF r
<1>4. /\ Graph(r.arena, place1, sh) /\ Compacted(r.arena, place1)
      /\ Right(r.arena, place1, sh, r.node, Whole) /\ Compact(r.arena, r.node)
  BY <1>3 DEF SharedAs, Interns
<1> DEFINE longer == Append(r.arena, r.node)
           f == <<Len(r.arena), Whole>>
           more == place1 \cup {f}
<1>5. Graph(longer, more, sh) /\ Compacted(longer, more)
  BY ONLY <1>4, RootGraph
<1>6. f \in more
  OBVIOUS
<1> HIDE DEF longer, more
<1>7. Rooted(longer, Len(r.arena), more, sh)
  BY <1>5, <1>6 DEF Rooted
<1> QED BY <1>7 DEF r, longer

-----------------------------------------------------------------------------
(* What the arena goes through.  Its nodes are placed at the cubes they    *)
(* stand for, the root at the whole cube.  Until it is shared no two nodes *)
(* are placed at the same cube and what stands below a branch is placed    *)
(* nowhere else, which is why an edit changes one cube and no other.       *)

\* The inductive invariant.
ArenaInv ==
  /\ volume \in Volumes
  /\ form \in {"grid", "tree", "edited", "graph"}
  /\ shown \in [Space -> Attributes]
  /\ form \in {"grid", "tree"} => shown = Samples
  /\ form = "tree" => [nodes |-> nodes, root |-> root] = Tree(Samples, {})
  /\ form # "grid" => \E place : Rooted(nodes, root, place, shown)
  /\ form \in {"tree", "edited"} => \E place : Rooted(nodes, root, place, shown) /\ Apart(nodes, place)

\* What a volume has at each place are attributes.
LEMMA SamplesAre ==
  ASSUME volume \in Volumes
  PROVE  Samples \in [Space -> Attributes]
<1> SUFFICES ASSUME NEW p \in Space PROVE Sample(p) \in Attributes
  BY DEF Samples
<1>1. CASE Outside(p)
  BY <1>1, AttributesAre DEF Sample
<1>2. CASE ~Outside(p)
  <2> DEFINE s == volume.size
             x == volume.voxels
  <2>1. s \in [1..3 -> Nat] /\ DOMAIN x = (0..(s[1] - 1)) \X (0..(s[2] - 1)) \X (0..(s[3] - 1))
    BY ArenaAssumption
  <2>2. \A i \in 1..3 : ~(p[i] >= s[i])
    BY <1>2 DEF Outside
  <2> HIDE DEF s, x
  <2>3. /\ p = <<p[1], p[2], p[3]>> /\ p[1] \in Nat /\ p[2] \in Nat /\ p[3] \in Nat
        /\ s[1] \in Nat /\ s[2] \in Nat /\ s[3] \in Nat
        /\ ~(p[1] >= s[1]) /\ ~(p[2] >= s[2]) /\ ~(p[3] >= s[3])
    BY <2>1, <2>2, WholeFits DEF Space
  <2>4. p[1] \in 0..(s[1] - 1) /\ p[2] \in 0..(s[2] - 1) /\ p[3] \in 0..(s[3] - 1)
    BY <2>3
  <2>5. p \in DOMAIN x
    BY <2>1, <2>3, <2>4
  <2>6. x[p].kind # "air" => x[p] \in Attributes
    BY <2>5 DEF Attributes, x
  <2>7. Sample(p) = IF x[p].kind = "air" THEN Air ELSE x[p]
    BY <1>2 DEF Sample, x
  <2> QED BY <2>6, <2>7, AttributesAre
<1> QED BY <1>1, <1>2

\* A cube that starts outside the grid is outside as a whole.
LEMMA OutsideIs ==
  ASSUME volume \in Volumes, NEW c \in Fitting, Outside(c.origin), NEW p \in Space, InCube(p, c)
  PROVE  Outside(p)
<1> DEFINE s == volume.size
<1>1. s \in [1..3 -> Nat]
  BY ArenaAssumption
<1>2. PICK i \in 1..3 : c.origin[i] >= s[i]
  BY DEF Outside
<1>3. c.origin[i] <= p[i]
  BY DEF InCube
<1>4. c.origin[i] \in Nat
  BY CubesAre
<1>5. p[i] \in Nat
  <2>1. p[1] \in Nat /\ p[2] \in Nat /\ p[3] \in Nat
    BY WholeFits DEF Space
  <2>2. i = 1 \/ i = 2 \/ i = 3
    OBVIOUS
  <2> QED BY <2>1, <2>2
<1>6. s[i] \in Nat
  BY <1>1
<1> HIDE DEF s
<1>7. p[i] >= s[i]
  <2> DEFINE x == p[i]
             y == c.origin[i]
             z == s[i]
  <2> HIDE DEF x, y, z
  <2>1. x \in Nat /\ y \in Nat /\ z \in Nat /\ y >= z /\ y <= x
    BY <1>2, <1>3, <1>4, <1>5, <1>6 DEF x, y, z
  <2>2. x >= z
    BY <2>1
  <2> QED BY <2>2 DEF x, z
<1> QED BY <1>7 DEF Outside, s

\* What the samplers know is so.
LEMMA KnownIs ==
  ASSUME volume \in Volumes, NEW hints, \A c \in hints : \A p \in Space : InCube(p, c) => Sample(p) = Sample(c.origin)
  PROVE  Sampling(Samples, CubesOutside \cup hints)
<1>1. \A p \in Space : Samples[p] \in Attributes /\ Samples[p] = Sample(p)
  BY SamplesAre DEF Samples
<1>2. ASSUME NEW c \in Fitting, c \in CubesOutside \cup hints PROVE Shows(Samples, c, Samples[c.origin])
  <2> SUFFICES ASSUME NEW p \in Space, InCube(p, c) PROVE Samples[p] = Samples[c.origin]
    BY DEF Shows
  <2>1. c.origin \in Space
    BY CubesAre
  <2>2. CASE c \in hints
    BY <1>1, <2>1, <2>2
  <2>3. CASE c \in CubesOutside
    <3>1. Outside(c.origin)
      BY <2>3 DEF CubesOutside
    <3>2. Outside(p)
      BY <3>1, OutsideIs
    <3>3. Sample(p) = Air /\ Sample(c.origin) = Air
      BY <3>1, <3>2 DEF Sample
    <3> QED BY <1>1, <2>1, <3>3
  <2> QED BY <1>2, <2>2, <2>3
<1> QED BY <1>1, <1>2 DEF Sampling

\* Building keeps the invariant.
LEMMA BuiltIs ==
  ASSUME volume \in Volumes, form = "grid" => shown = Samples, NEW known,
         Sampling(Samples, known), BuildFrom(known)
  PROVE  ArenaInv'
<1> DEFINE tree == Tree(Samples, known)
<1>1. /\ form = "grid" /\ form' = "tree" /\ nodes' = tree.nodes /\ root' = tree.root
      /\ volume' = volume /\ shown' = shown /\ shown = Samples
  BY DEF BuildFrom, Become
<1>2. Samples' = Samples
  BY <1>1 DEF Samples, Sample, Outside
<1>3. tree = Tree(Samples, {})
  BY SameTree
<1>4. [nodes |-> tree.nodes, root |-> tree.root] = tree
  <2> DEFINE grown == Grow(Samples, known)[Depth][<<>>][Whole.origin]
  <2>1. tree = [nodes |-> Append(grown.arena, grown.node), root |-> Len(grown.arena)]
    BY DEF Tree
  <2> HIDE DEF tree, grown
  <2> QED BY <2>1
<1>5. PICK place : Rooted(tree.nodes, tree.root, place, Samples) /\ Apart(tree.nodes, place)
  BY TreeIs
<1>6. Samples \in [Space -> Attributes]
  BY SamplesAre
<1> HIDE DEF tree
<1>7. [nodes |-> nodes', root |-> root'] = Tree(Samples', {})
  BY <1>1, <1>2, <1>3, <1>4
<1>8. Rooted(nodes', root', place, shown') /\ Apart(nodes', place)
  BY <1>1, <1>5
<1> QED BY <1>1, <1>2, <1>6, <1>7, <1>8 DEF ArenaInv

\* An edit keeps the invariant.
LEMMA PaintedIs ==
  ASSUME ArenaInv, NEW p \in Sites, NEW a \in Paints, Paint(p, a)
  PROVE  ArenaInv'
<1>1. p \in Space /\ a \in Attributes
  BY ArenaAssumption DEF Attributes
<1>2. /\ form \in {"tree", "edited"} /\ form' = "edited" /\ volume' = volume /\ root' = root
      /\ nodes' = Put(a)[Depth][nodes][root][p] /\ shown' = [shown EXCEPT ![p] = a]
  BY DEF Paint
<1>3. PICK place : Rooted(nodes, root, place, shown) /\ Apart(nodes, place)
  BY <1>2 DEF ArenaInv
<1>4. shown \in [Space -> Attributes] /\ volume \in Volumes
  BY DEF ArenaInv
<1>5. \E more : /\ Rooted(Put(a)[Depth][nodes][root][p], root, more, [shown EXCEPT ![p] = a])
                /\ Apart(Put(a)[Depth][nodes][root][p], more)
  BY ONLY <1>1, <1>3, <1>4, PutIs
<1>6. PICK more : Rooted(nodes', root', more, shown') /\ Apart(nodes', more)
  <2> DEFINE new == Put(a)[Depth][nodes][root][p]
             put == [shown EXCEPT ![p] = a]
  <2>1. nodes' = new /\ shown' = put /\ \E m : Rooted(new, root, m, put) /\ Apart(new, m)
    BY <1>2, <1>5
  <2> HIDE DEF new, put
  <2> QED BY <1>2, <2>1
<1>7. shown' \in [Space -> Attributes]
  BY <1>1, <1>2, <1>4
<1> QED BY <1>2, <1>4, <1>6, <1>7 DEF ArenaInv

\* Compression keeps the invariant.
LEMMA CompressedIs ==
  ASSUME ArenaInv, Compress
  PROVE  ArenaInv'
<1> DEFINE shared == Shared(nodes)[Depth][<<>>][root]
<1>1. /\ form \in {"tree", "edited"} /\ form' = "graph" /\ volume' = volume /\ shown' = shown
      /\ nodes' = Append(shared.arena, shared.node) /\ root' = Len(shared.arena)
  BY DEF Compress, Become
<1>2. PICK place : Rooted(nodes, root, place, shown)
  BY <1>1 DEF ArenaInv
<1>3. \E more : Rooted(Append(shared.arena, shared.node), Len(shared.arena), more, shown)
  BY <1>2, SharedIs
<1> HIDE DEF shared
<1>4. \E more : Rooted(nodes', root', more, shown')
  BY <1>1, <1>3
<1> QED BY <1>1, <1>4 DEF ArenaInv

\* It holds before anything is built.
LEMMA ArenaInvStarts ==
  ASSUME ArenaInit
  PROVE  ArenaInv
<1>1. Samples \in [Space -> Attributes]
  BY SamplesAre DEF ArenaInit
<1> QED BY <1>1 DEF ArenaInit, ArenaInv

\* It holds after every step.
LEMMA ArenaInvStays ==
  ASSUME ArenaInv, [ArenaNext]_arenaVars
  PROVE  ArenaInv'
<1>1. volume \in Volumes /\ (form = "grid" => shown = Samples)
  BY DEF ArenaInv
<1>2. CASE Build
  <2>1. Sampling(Samples, CubesOutside \cup {})
    BY <1>1, KnownIs
  <2>2. CubesOutside \cup {} = CubesOutside
    OBVIOUS
  <2> QED BY <1>1, <1>2, <2>1, <2>2, BuiltIs DEF Build
<1>3. ASSUME NEW hints \in Hints, BuildDirect(hints) PROVE ArenaInv'
  <2>1. \A c \in hints : \A p \in Space : InCube(p, c) => Sample(p) = Sample(c.origin)
    BY <1>3 DEF Hints
  <2>2. Sampling(Samples, CubesOutside \cup hints)
    BY <1>1, <2>1, KnownIs
  <2> QED BY <1>1, <1>3, <2>2, BuiltIs DEF BuildDirect
<1>4. ASSUME NEW p \in Sites, NEW a \in Paints, Paint(p, a) PROVE ArenaInv'
  BY <1>4, PaintedIs
<1>5. CASE Compress
  BY <1>5, CompressedIs
<1>6. CASE UNCHANGED arenaVars
  <2>1. /\ volume' = volume /\ form' = form /\ shown' = shown /\ nodes' = nodes /\ root' = root
    BY <1>6 DEF arenaVars
  <2>2. Samples' = Samples
    BY <2>1 DEF Samples, Sample, Outside
  <2> QED BY <2>1, <2>2 DEF ArenaInv
<1> QED BY <1>2, <1>3, <1>4, <1>5, <1>6 DEF ArenaNext

(* Whatever the volume and the depth of the octree, whichever cubes a      *)
(* sampler knows to be uniform, and whatever edits follow and whether or   *)
(* not the arena is shared at the end: a look-up finds at every place what *)
(* was put there last, the player's boxes hold each solid place once and   *)
(* no other, is_empty() is right, and both builders make the same arena.   *)
THEOREM ArenaShown == ArenaSpec => []ArenaShowsVolume
<1>1. ArenaInit => ArenaInv
  BY ArenaInvStarts
<1>2. ArenaInv /\ [ArenaNext]_arenaVars => ArenaInv'
  BY ArenaInvStays
<1>3. ArenaInv => ArenaShowsVolume
  <2> SUFFICES ASSUME ArenaInv PROVE ArenaShowsVolume
    OBVIOUS
  <2>1. form # "grid" => Shown
    <3> SUFFICES ASSUME form # "grid" PROVE Shown
      OBVIOUS
    <3>1. PICK place : Rooted(nodes, root, place, shown)
      BY DEF ArenaInv
    <3> QED BY <3>1, GraphShows DEF Rooted
  <2>2. form = "tree" => [nodes |-> nodes, root |-> root] = Tree(Samples, {})
    BY DEF ArenaInv
  <2> QED BY <2>1, <2>2 DEF ArenaShowsVolume, Shown
<1> QED BY <1>1, <1>2, <1>3, PTL DEF ArenaSpec

-----------------------------------------------------------------------------
(* Arithmetic.                                                             *)

\* To multiply by a positive number keeps the order.
LEMMA OrderOfProducts ==
  ASSUME NEW a \in Nat, a > 0, NEW x \in Int, NEW y \in Int
  PROVE  a * x \in Int /\ a * y \in Int /\ (a * x < a * y <=> x < y) /\ (a * x <= a * y <=> x <= y)
<1>1. ASSUME NEW u \in Int, NEW v \in Int, u < v PROVE a * u < a * v
  <2>1. a * (v - u) > 0
    BY <1>1
  <2> QED BY <2>1
<1>2. a * x \in Int /\ a * y \in Int
  OBVIOUS
<1>3. x < y \/ x = y \/ y < x
  OBVIOUS
<1> DEFINE ax == a * x
           ay == a * y
<1>4. (x < y => ax < ay) /\ (y < x => ay < ax) /\ (x = y => ax = ay)
  BY <1>1
<1>5. ax \in Int /\ ay \in Int
  BY <1>2
<1> HIDE DEF ax, ay
<1>6. (ax < ay <=> x < y) /\ (ax <= ay <=> x <= y)
  BY <1>3, <1>4, <1>5
<1> QED BY <1>5, <1>6 DEF ax, ay

\* A product divided by one of its factors is the other.
LEMMA QuotientOfProduct ==
  ASSUME NEW a \in Nat, a > 0, NEW b \in Nat
  PROVE  (a * b) \div a = b
<1> DEFINE q == (a * b) \div a
           r == (a * b) % a
<1>1. q \in Int /\ r \in 0..(a - 1) /\ a * b = a * q + r
  OBVIOUS
<1> HIDE DEF q, r
<1>2. ~(q < b)
  <2> SUFFICES ASSUME q < b PROVE FALSE
    OBVIOUS
  <2>1. a * (b - q - 1) >= 0
    BY <1>1
  <2> QED BY <1>1, <2>1
<1>3. ~(b < q)
  <2> SUFFICES ASSUME b < q PROVE FALSE
    OBVIOUS
  <2>1. a * (q - b - 1) >= 0
    BY <1>1
  <2> QED BY <1>1, <2>1
<1> QED BY <1>1, <1>2, <1>3 DEF q

-----------------------------------------------------------------------------
(* The line of a ray.                                                      *)

Asked == scene \in Scenes /\ ray \in Rays /\ query \in Queries /\ limits \in Limits

Dir(i) == ray.direction[i]
Share(i) == Unit \div Abs(Dir(i))

\* The unit is a multiple of every direction.
LEMMA UnitIsShared ==
  ASSUME Asked
  PROVE  /\ Unit \in Nat /\ Unit > 0
         /\ \A i \in Axes : Dir(i) \in Int /\ ray.from[i] \in Int
         /\ ray.maxT \in Int /\ MaxT \in Int
         /\ \A i \in Moving : /\ i \in Axes /\ Dir(i) # 0
                              /\ Share(i) \in Nat /\ Share(i) > 0
                              /\ Unit = Share(i) * Abs(Dir(i))
<1>1. \A i \in Axes : Dir(i) \in Int /\ ray.from[i] \in Int
  BY RayAssumption DEF Asked, Dir
<1>2. ray.maxT \in Int
  BY RayAssumption DEF Asked
<1>3. \A i \in Axes : Scale(i) \in Nat /\ Scale(i) > 0
  BY <1>1 DEF Scale, Moving, Abs, Dir
<1> DEFINE a == Scale(1)
           b == Scale(2)
           c == Scale(3)
<1>4. a \in Nat /\ b \in Nat /\ c \in Nat /\ a > 0 /\ b > 0 /\ c > 0
  BY <1>3 DEF Axes
<1>5. Unit = a * b * c
  BY DEF Unit
<1> HIDE DEF a, b, c
<1>6. /\ a * b \in Nat /\ a * b > 0 /\ b * c \in Nat /\ b * c > 0 /\ a * c \in Nat /\ a * c > 0
  BY <1>4
<1>7. Unit = a * (b * c) /\ Unit = b * (a * c) /\ Unit = c * (a * b)
  BY <1>4, <1>5
<1>8. Unit \in Nat /\ Unit > 0
  BY <1>4, <1>6, <1>7
<1>9. ASSUME NEW i \in Moving
      PROVE  i \in Axes /\ Dir(i) # 0 /\ Scale(i) = Abs(Dir(i))
  BY DEF Moving, Scale, Dir
<1>10. ASSUME NEW i \in Moving
       PROVE  Share(i) \in Nat /\ Share(i) > 0 /\ Unit = Share(i) * Abs(Dir(i))
  <2>1. ASSUME NEW x \in Nat, x > 0, NEW y \in Nat, y > 0, Unit = x * y, Abs(Dir(i)) = x
        PROVE  Share(i) \in Nat /\ Share(i) > 0 /\ Unit = Share(i) * Abs(Dir(i))
    <3>1. Share(i) = y
      BY <2>1, QuotientOfProduct DEF Share
    <3> QED BY <2>1, <3>1
  <2>2. i = 1 \/ i = 2 \/ i = 3
    BY <1>9 DEF Axes
  <2>3. CASE i = 1
    BY <1>4, <1>6, <1>7, <1>9, <2>1, <2>3 DEF a
  <2>4. CASE i = 2
    BY <1>4, <1>6, <1>7, <1>9, <2>1, <2>4 DEF b
  <2>5. CASE i = 3
    BY <1>4, <1>6, <1>7, <1>9, <2>1, <2>5 DEF c
  <2> QED BY <2>2, <2>3, <2>4, <2>5
<1>11. MaxT \in Int
  BY <1>2, <1>8 DEF MaxT
<1> QED BY <1>1, <1>2, <1>8, <1>9, <1>10, <1>11

\* Planes are at even points.
LEMMA FineIsEven ==
  ASSUME Asked, NEW n \in Int, NEW m \in Int
  PROVE  /\ Fine(n) \in Int /\ Fine(m) \in Int
         /\ n <= m <=> Fine(n) <= Fine(m)
         /\ n < m <=> Fine(n) < Fine(m)
         /\ n < m <=> Fine(n) + 1 <= Fine(m)
         /\ n < m <=> Fine(n) + 2 <= Fine(m)
         /\ Fine(n) + 1 # Fine(m)
<1> DEFINE u == Unit
<1>1. u \in Nat /\ u > 0
  BY UnitIsShared
<1>2. Fine(n) = 2 * (u * n) /\ Fine(m) = 2 * (u * m)
  BY <1>1 DEF Fine
<1> HIDE DEF u
<1>3. /\ u * n \in Int /\ u * m \in Int
      /\ (u * n < u * m <=> n < m) /\ (u * n <= u * m <=> n <= m)
  BY <1>1, OrderOfProducts
<1> DEFINE x == u * n
           y == u * m
<1>4. x \in Int /\ y \in Int /\ (x < y <=> n < m) /\ (x <= y <=> n <= m)
      /\ Fine(n) = 2 * x /\ Fine(m) = 2 * y
  BY <1>2, <1>3
<1> HIDE DEF x, y
<1> QED BY <1>4

Forward(i) == ray.direction[i] > 0

\* On a moving axis the side of a plane says whether it was crossed.
SideOf(from, i, t, n) ==
  LET x == PointAt(from, t)[i]
      c == Crossing(from, i, n)
  IN  /\ c \in Int
      /\ Forward(i) => (x <= Fine(n) <=> t <= c) /\ (Fine(n) <= x <=> c <= t)
      /\ ~Forward(i) => (x <= Fine(n) <=> c <= t) /\ (Fine(n) <= x <=> t <= c)

\* Where the ray is at a time, axis by axis.
LEMMA PointIsInt ==
  ASSUME Asked, NEW from \in [Axes -> Int], NEW t \in Int
  PROVE  /\ PointAt(from, t) \in [Axes -> Int]
         /\ \A i \in Axes : PointAt(from, t)[i] = Fine(from[i]) + 2 * t * Dir(i)
         /\ \A i \in Axes \ Moving : PointAt(from, t)[i] = Fine(from[i])
<1>1. Unit \in Nat /\ \A i \in Axes : Dir(i) \in Int /\ from[i] \in Int
  BY UnitIsShared
<1>2. \A i \in Axes : Fine(from[i]) \in Int
  BY <1>1 DEF Fine
<1>3. \A i \in Axes : PointAt(from, t)[i] = Fine(from[i]) + 2 * t * Dir(i)
  BY DEF PointAt, Dir
<1>4. \A i \in Axes : Fine(from[i]) + 2 * t * Dir(i) \in Int
  BY <1>1, <1>2
<1>5. PointAt(from, t) \in [Axes -> Int]
  BY <1>3, <1>4 DEF PointAt, Dir
<1>6. ASSUME NEW i \in Axes \ Moving PROVE PointAt(from, t)[i] = Fine(from[i])
  <2>1. Dir(i) = 0
    BY DEF Moving, Dir
  <2> QED BY <1>2, <1>3, <2>1
<1> QED BY <1>3, <1>5, <1>6

\* A plane lies before, at or after the point as its time does before, at or
\* after the ray's.
LEMMA SidesOfPlanes ==
  ASSUME Asked, NEW from \in [Axes -> Int], NEW i \in Moving, NEW t \in Int, NEW n \in Int
  PROVE  SideOf(from, i, t, n)
<1> DEFINE u == Unit
           d == Dir(i)
           q == Share(i)
           f == from[i]
           c == Crossing(from, i, n)
           x == PointAt(from, t)[i]
<1>1. /\ i \in Axes /\ u \in Nat /\ u > 0 /\ d \in Int /\ d # 0 /\ q \in Nat /\ q > 0
      /\ u = q * Abs(d) /\ f \in Int
  BY UnitIsShared
<1>2. c = (n - f) * q * (IF d > 0 THEN 1 ELSE -1)
  BY DEF Crossing, Share, Dir
<1>3. x = 2 * u * f + 2 * t * d /\ Fine(n) = 2 * u * n
  BY <1>1, PointIsInt DEF Fine
<1>4. Forward(i) <=> d > 0
  BY DEF Forward, Dir
<1>5. SideOf(from, i, t, n) <=>
        /\ c \in Int
        /\ d > 0 => (x <= Fine(n) <=> t <= c) /\ (Fine(n) <= x <=> c <= t)
        /\ ~(d > 0) => (x <= Fine(n) <=> c <= t) /\ (Fine(n) <= x <=> t <= c)
  BY <1>4 DEF SideOf
<1> DEFINE fine == Fine(n)
<1>6. fine = 2 * u * n
  BY <1>3
<1>7. x = 2 * u * f + 2 * t * d
  BY <1>3
<1> HIDE DEF u, d, q, f, c, x, fine
<1>8. c \in Int
  BY <1>1, <1>2
<1>9. CASE d > 0
  <2>1. u = q * d /\ c = (n - f) * q
    BY <1>1, <1>2, <1>9 DEF Abs
  <2>2. x - fine = 2 * (d * (t - c))
    <3>1. d * c = u * (n - f)
      BY <1>1, <2>1
    <3> DEFINE un == u * n
               uf == u * f
               td == t * d
               dc == d * c
    <3>2. un \in Int /\ uf \in Int /\ td \in Int /\ dc \in Int
      BY <1>1, <1>8
    <3>3. dc = un - uf /\ x = 2 * uf + 2 * td /\ fine = 2 * un /\ d * (t - c) = td - dc
      BY <1>1, <1>6, <1>7, <1>8, <3>1
    <3> HIDE DEF un, uf, td, dc
    <3> QED BY <3>2, <3>3
  <2>3. /\ d * t \in Int /\ d * c \in Int
        /\ (d * t < d * c <=> t < c) /\ (d * t <= d * c <=> t <= c)
    BY <1>1, <1>8, <1>9, OrderOfProducts
  <2> DEFINE dt == d * t
             dc == d * c
  <2>4. x - fine = 2 * (dt - dc) /\ x \in Int /\ fine \in Int /\ dt \in Int /\ dc \in Int
    BY <1>1, <1>6, <1>7, <1>8, <2>2
  <2>5. (dt < dc <=> t < c) /\ (dt <= dc <=> t <= c)
    BY <2>3
  <2> HIDE DEF dt, dc
  <2>6. (x <= fine <=> t <= c) /\ (fine <= x <=> c <= t)
    BY <1>8, <2>4, <2>5
  <2> QED BY <1>5, <1>8, <1>9, <2>6 DEF fine
<1>10. CASE ~(d > 0)
  <2> DEFINE e == -d
  <2>1. e \in Nat /\ e > 0 /\ u = q * e /\ c = -((n - f) * q) /\ d = -e
    BY <1>1, <1>2, <1>10 DEF Abs
  <2> HIDE DEF e
  <2>2. fine - x = 2 * (e * (t - c))
    <3>1. e * c = -(u * (n - f))
      BY <1>1, <2>1
    <3> DEFINE un == u * n
               uf == u * f
               te == t * e
               ec == e * c
    <3>2. un \in Int /\ uf \in Int /\ te \in Int /\ ec \in Int
      BY <1>1, <1>8, <2>1
    <3>3. ec = uf - un /\ x = 2 * uf - 2 * te /\ fine = 2 * un /\ e * (t - c) = te - ec
      BY <1>1, <1>6, <1>7, <1>8, <2>1, <3>1
    <3> HIDE DEF un, uf, te, ec
    <3> QED BY <3>2, <3>3
  <2>3. /\ e * t \in Int /\ e * c \in Int
        /\ (e * t < e * c <=> t < c) /\ (e * t <= e * c <=> t <= c)
    BY <1>8, <2>1, OrderOfProducts
  <2> DEFINE et == e * t
             ec == e * c
  <2>4. fine - x = 2 * (et - ec) /\ x \in Int /\ fine \in Int /\ et \in Int /\ ec \in Int
    BY <1>1, <1>6, <1>7, <1>8, <2>1, <2>2
  <2>5. (et < ec <=> t < c) /\ (et <= ec <=> t <= c)
    BY <2>3
  <2> HIDE DEF et, ec
  <2>6. (x <= fine <=> c <= t) /\ (fine <= x <=> t <= c)
    BY <1>8, <2>4, <2>5
  <2> QED BY <1>5, <1>8, <1>10, <2>6 DEF fine
<1> QED BY <1>9, <1>10

\* Planes of one axis are crossed in their order, or the reverse of it.
LEMMA CrossingsInOrder ==
  ASSUME Asked, NEW from \in [Axes -> Int], NEW i \in Moving, NEW n \in Int, NEW m \in Int
  PROVE  /\ Crossing(from, i, n) \in Int /\ Crossing(from, i, m) \in Int
         /\ Forward(i) => /\ Crossing(from, i, n) < Crossing(from, i, m) <=> n < m
                          /\ Crossing(from, i, n) <= Crossing(from, i, m) <=> n <= m
         /\ ~Forward(i) => /\ Crossing(from, i, n) < Crossing(from, i, m) <=> m < n
                           /\ Crossing(from, i, n) <= Crossing(from, i, m) <=> m <= n
<1> DEFINE c == Crossing(from, i, n)
           e == Crossing(from, i, m)
           x == PointAt(from, c)[i]
<1>1. c \in Int /\ e \in Int
  BY SidesOfPlanes DEF SideOf
<1>2. x \in Int
  BY <1>1, PointIsInt DEF Moving
<1>3. /\ Fine(n) \in Int /\ Fine(m) \in Int
      /\ n <= m <=> Fine(n) <= Fine(m)
      /\ m <= n <=> Fine(m) <= Fine(n)
  BY FineIsEven
<1>4. x = Fine(n)
  <2>1. SideOf(from, i, c, n)
    BY <1>1, SidesOfPlanes
  <2>2. x <= Fine(n) /\ Fine(n) <= x
    BY <1>1, <2>1 DEF SideOf
  <2> QED BY <1>2, <1>3, <2>2
<1>5. SideOf(from, i, c, m)
  BY <1>1, SidesOfPlanes
<1>6. /\ Forward(i) => (x <= Fine(m) <=> c <= e) /\ (Fine(m) <= x <=> e <= c)
      /\ ~Forward(i) => (x <= Fine(m) <=> e <= c) /\ (Fine(m) <= x <=> c <= e)
  BY <1>5 DEF SideOf
<1> HIDE DEF c, e, x
<1>7. /\ Forward(i) => (c < e <=> n < m) /\ (c <= e <=> n <= m)
      /\ ~Forward(i) => (c < e <=> m < n) /\ (c <= e <=> m <= n)
  BY <1>1, <1>3, <1>4, <1>6
<1> QED BY <1>1, <1>7 DEF c, e

-----------------------------------------------------------------------------
(* Where a ray enters and leaves a box.                                    *)

IsBox(b) == /\ b.lo \in [Axes -> Int] /\ b.hi \in [Axes -> Int]
            /\ \A i \in Axes : b.lo[i] < b.hi[i]
EntryPlane(box, i) == IF Forward(i) THEN box.lo[i] ELSE box.hi[i]
InAt(from, b, i) == Crossing(from, i, EntryPlane(b, i))
OutAt(from, b, i) == Crossing(from, i, ExitPlane(b, i))

\* Of what belongs to a few axes there is a least and a greatest.
LEMMA LeastOfFew ==
  ASSUME NEW S, S \subseteq Axes, S # {}, NEW g \in [S -> Int]
  PROVE  /\ \E k \in S : Min({g[i] : i \in S}) = g[k] /\ \A i \in S : g[k] <= g[i]
         /\ \E k \in S : Max({g[i] : i \in S}) = g[k] /\ \A i \in S : g[i] <= g[k]
<1> DEFINE W == {g[i] : i \in S}
<1>1. \E k \in S : \A i \in S : g[k] <= g[i]
  <2>1. \A i \in S : (i = 1 \/ i = 2 \/ i = 3) /\ g[i] \in Int
    BY DEF Axes
  <2> QED BY <2>1
<1>2. \E k \in S : \A i \in S : g[i] <= g[k]
  <2>1. \A i \in S : (i = 1 \/ i = 2 \/ i = 3) /\ g[i] \in Int
    BY DEF Axes
  <2> QED BY <2>1
<1>3. Min(W) \in W /\ \A y \in W : Min(W) <= y
  <2>1. \E x \in W : \A y \in W : x =< y
    BY <1>1
  <2> HIDE DEF W
  <2> QED BY <2>1 DEF Min
<1>4. Max(W) \in W /\ \A y \in W : y <= Max(W)
  <2>1. \E x \in W : \A y \in W : x >= y
    <3>1. PICK k \in S : \A i \in S : g[i] <= g[k]
      BY <1>2
    <3>2. \A i \in S : g[k] >= g[i]
      BY <3>1
    <3> QED BY <3>2
  <2>2. Max(W) \in W /\ \A y \in W : Max(W) >= y
    <3> HIDE DEF W
    <3> QED BY <2>1 DEF Max
  <2>3. \A y \in W : y \in Int
    OBVIOUS
  <2> HIDE DEF W
  <2> QED BY <2>2, <2>3
<1> QED BY <1>3, <1>4

\* The lesser and the greater of two.
LEMMA MinMaxOfTwo ==
  ASSUME NEW x \in Int, NEW y \in Int
  PROVE  /\ Min({x, y}) = IF x <= y THEN x ELSE y
         /\ Max({x, y}) = IF x <= y THEN y ELSE x
<1>1. \E z \in {x, y} : \A w \in {x, y} : z =< w
  OBVIOUS
<1>2. \E z \in {x, y} : \A w \in {x, y} : z >= w
  OBVIOUS
<1>3. Min({x, y}) \in {x, y} /\ Min({x, y}) <= x /\ Min({x, y}) <= y
  BY <1>1 DEF Min
<1>4. Max({x, y}) \in {x, y} /\ Max({x, y}) >= x /\ Max({x, y}) >= y
  BY <1>2 DEF Max
<1> DEFINE a == Min({x, y})
           b == Max({x, y})
<1>5. (a = x \/ a = y) /\ a <= x /\ a <= y /\ (b = x \/ b = y) /\ b >= x /\ b >= y
  BY <1>3, <1>4
<1> HIDE DEF a, b
<1>6. a = (IF x <= y THEN x ELSE y) /\ b = (IF x <= y THEN y ELSE x)
  BY <1>5
<1> QED BY <1>6 DEF a, b

\* Its interval is from the last entry of an axis to the first exit.
LEMMA IntervalEnds ==
  ASSUME Asked, NEW from \in [Axes -> Int], NEW b, IsBox(b), Moving # {}
  PROVE  /\ Interval(from, b).entry \in Int /\ Interval(from, b).exit \in Int
         /\ \A i \in Moving : /\ InAt(from, b, i) \in Int /\ OutAt(from, b, i) \in Int
                              /\ InAt(from, b, i) < OutAt(from, b, i)
                              /\ InAt(from, b, i) <= Interval(from, b).entry
                              /\ Interval(from, b).exit <= OutAt(from, b, i)
         /\ \E i \in Moving : Interval(from, b).entry = InAt(from, b, i)
         /\ \E i \in Moving : Interval(from, b).exit = OutAt(from, b, i)
<1> DEFINE cross(i) == {Crossing(from, i, b.lo[i]), Crossing(from, i, b.hi[i])}
<1>1. ASSUME NEW i \in Moving
      PROVE  /\ InAt(from, b, i) \in Int /\ OutAt(from, b, i) \in Int
             /\ InAt(from, b, i) < OutAt(from, b, i)
             /\ Min(cross(i)) = InAt(from, b, i) /\ Max(cross(i)) = OutAt(from, b, i)
  <2> DEFINE n == b.lo[i]
             m == b.hi[i]
             c == Crossing(from, i, n)
             e == Crossing(from, i, m)
  <2>1. n \in Int /\ m \in Int /\ n < m
    BY DEF IsBox, Moving
  <2>2. c \in Int /\ e \in Int /\ (Forward(i) => c < e) /\ (~Forward(i) => e < c)
    <3> HIDE DEF n, m
    <3> QED BY <2>1, CrossingsInOrder
  <2>3. /\ Forward(i) => InAt(from, b, i) = c /\ OutAt(from, b, i) = e
        /\ ~Forward(i) => InAt(from, b, i) = e /\ OutAt(from, b, i) = c
    BY DEF InAt, OutAt, EntryPlane, ExitPlane, Forward
  <2>4. cross(i) = {c, e}
    OBVIOUS
  <2> HIDE DEF c, e, cross
  <2>5. Min({c, e}) = (IF c <= e THEN c ELSE e) /\ Max({c, e}) = (IF c <= e THEN e ELSE c)
    BY <2>2, MinMaxOfTwo
  <2> QED BY <2>2, <2>3, <2>4, <2>5
<1> DEFINE in == [i \in Moving |-> InAt(from, b, i)]
           out == [i \in Moving |-> OutAt(from, b, i)]
<1>2. /\ {Min(cross(i)) : i \in Moving} = {in[i] : i \in Moving}
      /\ {Max(cross(i)) : i \in Moving} = {out[i] : i \in Moving}
  <2>1. \A i \in Moving : Min(cross(i)) = in[i] /\ Max(cross(i)) = out[i]
    BY <1>1
  <2> HIDE DEF cross, in, out
  <2> QED BY <2>1
<1>3. in \in [Moving -> Int] /\ out \in [Moving -> Int] /\ Moving \subseteq Axes
  BY <1>1 DEF Moving
<1>4. /\ Interval(from, b).entry = Max({in[i] : i \in Moving})
      /\ Interval(from, b).exit = Min({out[i] : i \in Moving})
  <2>1. /\ Interval(from, b).entry = Max({Min(cross(i)) : i \in Moving})
        /\ Interval(from, b).exit = Min({Max(cross(i)) : i \in Moving})
    BY DEF Interval
  <2> HIDE DEF cross, in, out
  <2> QED BY <1>2, <2>1
<1>5. \A i \in Moving : in[i] = InAt(from, b, i) /\ out[i] = OutAt(from, b, i)
  OBVIOUS
<1> HIDE DEF in, out
<1>6. /\ \E k \in Moving : Min({out[i] : i \in Moving}) = out[k] /\ \A i \in Moving : out[k] <= out[i]
      /\ \E k \in Moving : Max({in[i] : i \in Moving}) = in[k] /\ \A i \in Moving : in[i] <= in[k]
  BY <1>3, LeastOfFew
<1> QED BY <1>1, <1>3, <1>4, <1>5, <1>6

-----------------------------------------------------------------------------
(* The point that is carried along: on the line, or next to a plane the    *)
(* line is at.                                                             *)

Onward(i) == IF Forward(i) THEN 1 ELSE -1
Nudged(from, p, t, i) ==
  /\ i \in Moving
  /\ \E n \in Int : PointAt(from, t)[i] = Fine(n) /\ p[i] = Fine(n) + Onward(i)
Carried(from, p, t) ==
  /\ p \in [Axes -> Int]
  /\ \A i \in Axes : p[i] = PointAt(from, t)[i] \/ Nudged(from, p, t, i)

WithinAt(from, b, t) ==
  /\ \A i \in Moving : InAt(from, b, i) <= t /\ t <= OutAt(from, b, i)
  /\ \A i \in Axes \ Moving : b.lo[i] <= from[i] /\ from[i] <= b.hi[i]

\* If a box holds the point a march carries, the ray is in the box at its time.
LEMMA CarriedIsWithin ==
  ASSUME Asked, NEW from \in [Axes -> Int], NEW t \in Int, NEW p, Carried(from, p, t),
         NEW b, IsBox(b), Holds(b, p)
  PROVE  WithinAt(from, b, t)
<1>1. ASSUME NEW i \in Axes
      PROVE  /\ p[i] \in Int /\ PointAt(from, t)[i] \in Int /\ from[i] \in Int
             /\ b.lo[i] \in Int /\ b.hi[i] \in Int
             /\ Fine(b.lo[i]) <= p[i] /\ p[i] <= Fine(b.hi[i])
             /\ p[i] = PointAt(from, t)[i] \/ Nudged(from, p, t, i)
  BY PointIsInt DEF Carried, IsBox, Holds
<1>2. ASSUME NEW i \in Axes \ Moving PROVE b.lo[i] <= from[i] /\ from[i] <= b.hi[i]
  <2>1. p[i] = Fine(from[i])
    BY <1>1, PointIsInt DEF Nudged
  <2>2. /\ b.lo[i] <= from[i] <=> Fine(b.lo[i]) <= Fine(from[i])
        /\ from[i] <= b.hi[i] <=> Fine(from[i]) <= Fine(b.hi[i])
    BY <1>1, FineIsEven
  <2> QED BY <1>1, <2>1, <2>2
<1>3. ASSUME NEW i \in Moving PROVE InAt(from, b, i) <= t /\ t <= OutAt(from, b, i)
  <2> DEFINE x == PointAt(from, t)[i]
             lo == b.lo[i]
             hi == b.hi[i]
  <2>1. i \in Axes
    BY DEF Moving
  <2>2. /\ p[i] \in Int /\ x \in Int /\ lo \in Int /\ hi \in Int
        /\ Fine(lo) <= p[i] /\ p[i] <= Fine(hi)
        /\ p[i] = x \/ \E n \in Int : x = Fine(n) /\ p[i] = Fine(n) + Onward(i)
    BY <1>1, <2>1 DEF Nudged
  <2>3. SideOf(from, i, t, lo) /\ SideOf(from, i, t, hi)
    BY <2>2, SidesOfPlanes
  <2>4. /\ Forward(i) => InAt(from, b, i) = Crossing(from, i, lo) /\ OutAt(from, b, i) = Crossing(from, i, hi)
        /\ ~Forward(i) => InAt(from, b, i) = Crossing(from, i, hi) /\ OutAt(from, b, i) = Crossing(from, i, lo)
    BY DEF InAt, OutAt, EntryPlane, ExitPlane, Forward
  <2>5. Fine(lo) <= x /\ x <= Fine(hi)
    <3>1. CASE p[i] = x
      BY <2>2, <3>1
    <3>2. ASSUME NEW n \in Int, x = Fine(n), p[i] = Fine(n) + Onward(i)
          PROVE  Fine(lo) <= x /\ x <= Fine(hi)
      <4>1. /\ Fine(n) \in Int /\ Fine(lo) \in Int /\ Fine(hi) \in Int
            /\ n < lo <=> Fine(n) < Fine(lo)
            /\ n < lo <=> Fine(n) + 2 <= Fine(lo)
            /\ hi < n <=> Fine(hi) < Fine(n)
            /\ hi < n <=> Fine(hi) + 2 <= Fine(n)
        BY <2>2, FineIsEven
      <4> HIDE DEF lo, hi, x
      <4> QED BY <2>2, <3>2, <4>1 DEF Onward
    <3> QED BY <2>2, <3>1, <3>2
  <2> HIDE DEF x, lo, hi
  <2> QED BY <2>3, <2>4, <2>5 DEF SideOf, x
<1> QED BY <1>2, <1>3 DEF WithinAt

\* A box holds the point of the ray at a time just when the ray is in it then.
LEMMA WithinHolds ==
  ASSUME Asked, NEW from \in [Axes -> Int], NEW t \in Int, NEW b, IsBox(b)
  PROVE  Holds(b, PointAt(from, t)) <=> WithinAt(from, b, t)
<1>1. Holds(b, PointAt(from, t)) => WithinAt(from, b, t)
  <2>1. Carried(from, PointAt(from, t), t)
    BY PointIsInt DEF Carried
  <2> QED BY <2>1, CarriedIsWithin
<1>2. ASSUME WithinAt(from, b, t), NEW i \in Axes
      PROVE  Fine(b.lo[i]) <= PointAt(from, t)[i] /\ PointAt(from, t)[i] <= Fine(b.hi[i])
  <2> DEFINE lo == b.lo[i]
             hi == b.hi[i]
  <2>1. lo \in Int /\ hi \in Int /\ from[i] \in Int
    BY DEF IsBox
  <2>2. CASE i \in Moving
    <3>1. SideOf(from, i, t, lo) /\ SideOf(from, i, t, hi)
      BY <2>1, <2>2, SidesOfPlanes
    <3>2. /\ Forward(i) => InAt(from, b, i) = Crossing(from, i, lo) /\ OutAt(from, b, i) = Crossing(from, i, hi)
          /\ ~Forward(i) => InAt(from, b, i) = Crossing(from, i, hi) /\ OutAt(from, b, i) = Crossing(from, i, lo)
      BY DEF InAt, OutAt, EntryPlane, ExitPlane, Forward
    <3>3. InAt(from, b, i) <= t /\ t <= OutAt(from, b, i)
      BY <1>2, <2>2 DEF WithinAt
    <3> QED BY <3>1, <3>2, <3>3 DEF SideOf
  <2>3. CASE i \notin Moving
    <3>1. PointAt(from, t)[i] = Fine(from[i]) /\ lo <= from[i] /\ from[i] <= hi
      BY <1>2, <2>3, PointIsInt DEF WithinAt
    <3>2. /\ lo <= from[i] <=> Fine(lo) <= Fine(from[i])
          /\ from[i] <= hi <=> Fine(from[i]) <= Fine(hi)
      BY <2>1, FineIsEven
    <3> QED BY <3>1, <3>2
  <2> QED BY <2>2, <2>3
<1> QED BY <1>1, <1>2 DEF Holds

-----------------------------------------------------------------------------
(* A skip to the exit of a box.                                            *)

Lands(from, b, t, next) ==
  /\ next.t \in Int /\ t <= next.t
  /\ Carried(from, next.p, next.t)
  /\ WithinAt(from, b, next.t)
  /\ \E i \in Moving : next.t = OutAt(from, b, i)
  /\ \A i \in Moving : OutAt(from, b, i) = next.t => next.p[i] = Fine(ExitPlane(b, i)) + Onward(i)
  /\ \A i \in Axes : ~(i \in Moving /\ OutAt(from, b, i) = next.t)
                       => next.p[i] = PointAt(from, next.t)[i]

\* A skip lands at the time the ray leaves the box.
LEMMA SkipLands ==
  ASSUME Asked, From(Chunk) \in [Axes -> Int], NEW b, IsBox(b), Moving # {},
         NEW t \in Int, WithinAt(From(Chunk), b, t)
  PROVE  Lands(From(Chunk), b, t, ExitOf(b))
<1> DEFINE from == From(Chunk)
           next == ExitOf(b)
           exits == [i \in Moving |-> Crossing(from, i, ExitPlane(b, i))]
<1>1. /\ \A i \in Moving : exits[i] = OutAt(from, b, i)
      /\ \A i \in Moving : i \in Axes /\ OutAt(from, b, i) \in Int /\ InAt(from, b, i) \in Int
                           /\ InAt(from, b, i) < OutAt(from, b, i)
  BY IntervalEnds DEF OutAt, Moving
<1>2. exits \in [Moving -> Int] /\ Moving \subseteq Axes
  BY <1>1
<1>3. /\ next.t = Min({exits[i] : i \in Moving})
      /\ next.p = [i \in Axes |-> IF i \in Moving /\ exits[i] = next.t
                                  THEN Fine(ExitPlane(b, i)) + Onward(i)
                                  ELSE PointAt(from, next.t)[i]]
  BY DEF ExitOf, Onward, Forward
<1> HIDE DEF exits, next
<1>4. \E k \in Moving : next.t = exits[k] /\ \A i \in Moving : exits[k] <= exits[i]
  <2>1. \E k \in Moving : /\ Min({exits[i] : i \in Moving}) = exits[k]
                           /\ \A i \in Moving : exits[k] <= exits[i]
    BY <1>2, LeastOfFew
  <2>2. next.t = Min({exits[i] : i \in Moving})
    BY <1>3
  <2> QED BY ONLY <2>1, <2>2
<1>5. next.t \in Int /\ t <= next.t /\ \A i \in Moving : next.t <= OutAt(from, b, i)
  BY <1>1, <1>4 DEF WithinAt
<1>6. WithinAt(from, b, next.t)
  BY <1>1, <1>5 DEF WithinAt
<1>7. PointAt(from, next.t) \in [Axes -> Int]
  BY <1>5, PointIsInt
<1>8. ASSUME NEW i \in Moving, OutAt(from, b, i) = next.t
      PROVE  /\ next.p[i] = Fine(ExitPlane(b, i)) + Onward(i)
             /\ ExitPlane(b, i) \in Int /\ PointAt(from, next.t)[i] = Fine(ExitPlane(b, i))
  <2> DEFINE n == ExitPlane(b, i)
  <2>1. n \in Int
    BY <1>1 DEF ExitPlane, IsBox
  <2>2. next.p[i] = Fine(n) + Onward(i)
    BY <1>1, <1>3, <1>8
  <2>3. SideOf(from, i, next.t, n) /\ Crossing(from, i, n) = next.t
    <3> HIDE DEF n
    <3>1. SideOf(from, i, next.t, n)
      BY <1>5, <2>1, SidesOfPlanes
    <3> QED BY <1>8, <3>1 DEF OutAt, n
  <2>4. PointAt(from, next.t)[i] \in Int /\ Fine(n) \in Int
    BY <1>1, <1>7, <2>1, FineIsEven
  <2> HIDE DEF n
  <2>5. PointAt(from, next.t)[i] = Fine(n)
    BY <1>5, <2>3, <2>4 DEF SideOf
  <2> QED BY <2>1, <2>2, <2>5 DEF n
<1>9. ASSUME NEW i \in Axes, ~(i \in Moving /\ OutAt(from, b, i) = next.t)
      PROVE  next.p[i] = PointAt(from, next.t)[i]
  BY <1>1, <1>3, <1>9
<1>10. Carried(from, next.p, next.t)
  <2>1. ASSUME NEW i \in Axes
        PROVE  /\ next.p[i] = PointAt(from, next.t)[i] \/ Nudged(from, next.p, next.t, i)
               /\ next.p[i] \in Int
    <3>1. CASE i \in Moving /\ OutAt(from, b, i) = next.t
      <4>1. ExitPlane(b, i) \in Int /\ Fine(ExitPlane(b, i)) \in Int
        BY <1>8, <3>1, FineIsEven
      <4> QED BY <1>8, <3>1, <4>1 DEF Nudged, Onward
    <3>2. CASE ~(i \in Moving /\ OutAt(from, b, i) = next.t)
      BY <1>7, <1>9, <3>2
    <3> QED BY <3>1, <3>2
  <2>2. next.p = [i \in Axes |-> next.p[i]]
    BY <1>3
  <2>3. next.p \in [Axes -> Int]
    BY <2>1, <2>2
  <2> QED BY <2>1, <2>3 DEF Carried
<1> HIDE DEF from
<1>11. \E i \in Moving : next.t = OutAt(from, b, i)
  BY <1>1, <1>4 DEF from
<1>12. Lands(from, b, t, next)
  BY <1>5, <1>6, <1>8, <1>9, <1>10, <1>11 DEF Lands, from
<1> QED BY <1>12 DEF from, next

\* What encloses the box and does not hold the point has been left.
LEMMA LeftForGood ==
  ASSUME Asked, NEW from \in [Axes -> Int], NEW b, IsBox(b), NEW c, IsBox(c),
         NEW t \in Int, NEW next, Lands(from, b, t, next), ~Holds(c, next.p),
         \A i \in Axes : c.lo[i] <= b.lo[i] /\ b.hi[i] <= c.hi[i]
  PROVE  \E i \in Moving : OutAt(from, c, i) = next.t
<1>1. next.t \in Int /\ WithinAt(from, b, next.t) /\ next.p \in [Axes -> Int]
  BY DEF Lands, Carried
<1>2. Holds(b, PointAt(from, next.t)) /\ PointAt(from, next.t) \in [Axes -> Int]
  BY <1>1, WithinHolds, PointIsInt
<1>3. PICK i \in Axes : ~(Fine(c.lo[i]) <= next.p[i] /\ next.p[i] <= Fine(c.hi[i]))
  BY DEF Holds
<1>4. /\ b.lo[i] \in Int /\ b.hi[i] \in Int /\ c.lo[i] \in Int /\ c.hi[i] \in Int
      /\ c.lo[i] <= b.lo[i] /\ b.hi[i] <= c.hi[i] /\ b.lo[i] < b.hi[i]
  BY DEF IsBox
<1> DEFINE cl == Fine(c.lo[i])
           ch == Fine(c.hi[i])
           bl == Fine(b.lo[i])
           bh == Fine(b.hi[i])
<1>5. /\ cl \in Int /\ ch \in Int /\ bl \in Int /\ bh \in Int
      /\ cl <= bl /\ bh <= ch /\ bl + 2 <= bh
      /\ b.lo[i] # c.lo[i] => cl + 2 <= bl
      /\ b.hi[i] # c.hi[i] => bh + 2 <= ch
  <2>1. cl \in Int /\ bl \in Int /\ (c.lo[i] <= b.lo[i] <=> cl <= bl)
        /\ (c.lo[i] < b.lo[i] <=> cl + 2 <= bl)
    BY <1>4, FineIsEven
  <2>2. bh \in Int /\ ch \in Int /\ (b.hi[i] <= c.hi[i] <=> bh <= ch)
        /\ (b.hi[i] < c.hi[i] <=> bh + 2 <= ch)
    BY <1>4, FineIsEven
  <2>3. b.lo[i] < b.hi[i] <=> bl + 2 <= bh
    BY <1>4, FineIsEven
  <2> HIDE DEF cl, ch, bl, bh
  <2> QED BY <1>4, <2>1, <2>2, <2>3
<1>6. bl <= PointAt(from, next.t)[i] /\ PointAt(from, next.t)[i] <= bh
  BY <1>2 DEF Holds
<1>7. i \in Moving /\ OutAt(from, b, i) = next.t
  <2> SUFFICES ASSUME ~(i \in Moving /\ OutAt(from, b, i) = next.t) PROVE FALSE
    OBVIOUS
  <2>1. next.p[i] = PointAt(from, next.t)[i]
    BY DEF Lands
  <2>2. PointAt(from, next.t)[i] \in Int
    BY <1>2
  <2>3. ~(cl <= next.p[i] /\ next.p[i] <= ch)
    BY <1>3
  <2> HIDE DEF cl, ch, bl, bh
  <2> QED BY <1>5, <1>6, <2>1, <2>2, <2>3
<1>8. next.p[i] = Fine(ExitPlane(b, i)) + Onward(i)
  BY <1>7 DEF Lands
<1>9. ~(cl <= next.p[i] /\ next.p[i] <= ch)
  BY <1>3
<1>10. ExitPlane(b, i) = ExitPlane(c, i)
  <2>1. CASE Forward(i)
    <3>1. next.p[i] = bh + 1 /\ ExitPlane(b, i) = b.hi[i] /\ ExitPlane(c, i) = c.hi[i]
      BY <1>8, <2>1 DEF ExitPlane, Onward, Forward
    <3> HIDE DEF cl, ch, bl, bh
    <3> QED BY <1>5, <1>9, <3>1
  <2>2. CASE ~Forward(i)
    <3>1. next.p[i] = bl + (-1) /\ ExitPlane(b, i) = b.lo[i] /\ ExitPlane(c, i) = c.lo[i]
      BY <1>8, <2>2 DEF ExitPlane, Onward, Forward
    <3> HIDE DEF cl, ch, bl, bh
    <3> QED BY <1>5, <1>9, <3>1
  <2> QED BY <2>1, <2>2
<1> QED BY <1>7, <1>10 DEF OutAt

-----------------------------------------------------------------------------
(* The nodes of a chunk: cubes of 2^k voxels, at multiples of their width. *)

Listed(c) == c \in DOMAIN scene
Width(k) == 2 ^ k
Factored(chunk) == \A k \in 0..chunk.depth : \A j \in 0..k : Width(k) = Width(j) * Width(k - j)
WellMade(chunk) ==
  /\ chunk.voxelSize \in Nat /\ chunk.voxelSize > 0 /\ chunk.depth \in Nat
  /\ chunk.worldSize = chunk.voxelSize * Width(chunk.depth)
  /\ \A k \in 0..chunk.depth : /\ Width(k) \in Nat /\ Width(k) > 0
                               /\ k > 0 => Width(k) = 2 * Width(k - 1)
  /\ Factored(chunk)
  /\ LET along == 0..(Width(chunk.depth) - 1)
     IN  DOMAIN chunk.solids \subseteq along \X along \X along
  /\ From(chunk) \in [Axes -> Int]

\* The chunks of a scene are well made.
LEMMA ChunksAreGrown ==
  ASSUME Asked, NEW c, Listed(c)
  PROVE  WellMade(scene[c])
<1>1. \A i \in Axes : ray.from[i] \in Int /\ scene[c].origin[i] \in Int
  BY UnitIsShared, SceneAssumption DEF Asked, Listed
<1>2. From(scene[c]) \in [Axes -> Int]
  BY <1>1 DEF From
<1>3. /\ scene[c].voxelSize \in Nat \ {0} /\ scene[c].depth \in Nat
      /\ scene[c].worldSize = scene[c].voxelSize * 2 ^ scene[c].depth
      /\ LET along == 0..(2 ^ scene[c].depth - 1)
         IN  DOMAIN scene[c].solids \subseteq along \X along \X along
      /\ \A k \in 0..scene[c].depth :
           /\ 2 ^ k \in Nat \ {0} /\ (k > 0 => 2 ^ k = 2 * 2 ^ (k - 1))
           /\ \A j \in 0..k : 2 ^ k = 2 ^ j * 2 ^ (k - j)
  BY SceneAssumption DEF Asked, Listed
<1> QED BY <1>2, <1>3 DEF WellMade, Factored, Width

NodeAt(chunk, k, m) ==
  Cube([i \in Axes |-> chunk.voxelSize * (Width(k) * m[i])], chunk.voxelSize * Width(k))
IsNodeAt(chunk, b, k, m) ==
  /\ k \in 0..chunk.depth /\ m \in [Axes -> Nat]
  /\ b = NodeAt(chunk, k, m)
  /\ \A i \in Axes : Width(k) * m[i] + Width(k) <= Width(chunk.depth)
IsNode(chunk, b) == \E k \in 0..chunk.depth : \E m \in [Axes -> Nat] : IsNodeAt(chunk, b, k, m)

\* The planes of a node are multiples of its width in voxels.
LEMMA EdgesOfNode ==
  ASSUME NEW chunk, WellMade(chunk), NEW b, NEW k, NEW m, IsNodeAt(chunk, b, k, m), NEW i \in Axes
  PROVE  /\ Width(k) \in Nat /\ Width(k) > 0 /\ Width(k) * m[i] \in Nat
         /\ b.lo[i] = chunk.voxelSize * (Width(k) * m[i])
         /\ b.hi[i] = chunk.voxelSize * (Width(k) * m[i] + Width(k))
         /\ b.hi[i] = b.lo[i] + chunk.voxelSize * Width(k)
         /\ b.lo[i] \in Int /\ b.hi[i] \in Int /\ b.lo[i] < b.hi[i]
         /\ 0 <= b.lo[i] /\ b.hi[i] <= chunk.worldSize
<1> DEFINE v == chunk.voxelSize
           w == Width(k)
           n == m[i]
           d == Width(chunk.depth)
<1>1. v \in Nat /\ v > 0 /\ w \in Nat /\ w > 0 /\ n \in Nat /\ d \in Nat
  BY DEF WellMade, IsNodeAt
<1>2. b.lo[i] = v * (w * n) /\ b.hi[i] = b.lo[i] + v * w
  BY DEF IsNodeAt, NodeAt, Cube
<1>3. chunk.worldSize = v * d /\ w * n + w <= d
  BY DEF WellMade, IsNodeAt
<1> HIDE DEF v, w, n, d
<1>4. w * n \in Nat /\ v * w \in Nat /\ v * w > 0 /\ v * (w * n) \in Nat
  BY <1>1
<1>5. v * (w * n + w) = v * (w * n) + v * w
  BY <1>1
<1> DEFINE wn == w * n
           e == wn + w
<1>6. wn \in Int /\ e \in Int /\ e <= d
  BY <1>1, <1>3, <1>4
<1> HIDE DEF wn, e
<1>7. v * e <= v * d
  BY <1>1, <1>6, OrderOfProducts
<1>8. v * e = v * (w * n + w)
  BY DEF e, wn
<1>9. b.hi[i] = v * (w * n + w) /\ b.hi[i] <= chunk.worldSize
  BY <1>1, <1>2, <1>3, <1>5, <1>7, <1>8
<1>10. b.lo[i] \in Int /\ b.hi[i] \in Int /\ b.lo[i] < b.hi[i] /\ 0 <= b.lo[i]
  BY <1>2, <1>4
<1> QED BY <1>1, <1>2, <1>4, <1>9, <1>10 DEF v, w, n

\* A node is a box within the chunk.
LEMMA NodesAreBoxed ==
  ASSUME NEW chunk, WellMade(chunk), NEW b, IsNode(chunk, b)
  PROVE  /\ IsBox(b)
         /\ \A i \in Axes : 0 <= b.lo[i] /\ b.hi[i] <= chunk.worldSize
<1>1. PICK k, m : IsNodeAt(chunk, b, k, m)
  BY DEF IsNode
<1>2. \A i \in Axes : /\ b.lo[i] \in Int /\ b.hi[i] \in Int /\ b.lo[i] < b.hi[i]
                      /\ 0 <= b.lo[i] /\ b.hi[i] <= chunk.worldSize
  BY <1>1, EdgesOfNode
<1>3. b.lo = [i \in Axes |-> b.lo[i]] /\ b.hi = [i \in Axes |-> b.hi[i]]
  BY <1>1 DEF IsNodeAt, NodeAt, Cube
<1> QED BY <1>2, <1>3 DEF IsBox

\* The root is the node that is as large as the chunk.
LEMMA RootIsNode ==
  ASSUME NEW chunk, WellMade(chunk)
  PROVE  /\ IsNode(chunk, Root(chunk))
         /\ \E m \in [Axes -> Nat] : IsNodeAt(chunk, Root(chunk), chunk.depth, m)
         /\ \A i \in Axes : Root(chunk).lo[i] = 0 /\ Root(chunk).hi[i] = chunk.worldSize
<1> DEFINE m == [i \in Axes |-> 0]
           k == chunk.depth
<1>1. k \in 0..chunk.depth /\ Width(k) \in Nat /\ chunk.voxelSize \in Nat /\ m \in [Axes -> Nat]
      /\ chunk.worldSize = chunk.voxelSize * Width(k)
  BY DEF WellMade
<1>2. \A i \in Axes : /\ <<0, 0, 0>>[i] = 0 /\ m[i] = 0 /\ Width(k) * m[i] = 0
                      /\ chunk.voxelSize * (Width(k) * m[i]) = 0
  BY <1>1 DEF Axes
<1>3. <<0, 0, 0>> = [i \in Axes |-> chunk.voxelSize * (Width(k) * m[i])]
  <2>1. <<0, 0, 0>> = [i \in Axes |-> 0]
    BY DEF Axes
  <2> QED BY <1>2, <2>1
<1>4. Root(chunk) = NodeAt(chunk, k, m)
  BY <1>1, <1>3 DEF Root, NodeAt
<1>5. IsNodeAt(chunk, Root(chunk), k, m)
  BY <1>1, <1>2, <1>4 DEF IsNodeAt
<1>6. IsNode(chunk, Root(chunk))
  BY <1>1, <1>5 DEF IsNode
<1>7. \A i \in Axes : Root(chunk).lo[i] = 0 /\ Root(chunk).hi[i] = chunk.worldSize
  <2>1. \A i \in Axes : Root(chunk).lo[i] = <<0, 0, 0>>[i]
                        /\ Root(chunk).hi[i] = <<0, 0, 0>>[i] + chunk.worldSize
    BY DEF Root, Cube
  <2>2. chunk.worldSize \in Int
    BY <1>1
  <2> QED BY <1>2, <2>1, <2>2
<1> QED BY <1>1, <1>5, <1>6, <1>7

BitsOf(o) == <<o % 2, (o \div 2) % 2, o \div 4>>

\* An octant is on one side or the other of each axis.
LEMMA BitsAreBits ==
  ASSUME NEW o \in 0..7
  PROVE  \A i \in Axes : BitsOf(o)[i] \in 0..1
<1>1. o % 2 \in 0..1 /\ (o \div 2) % 2 \in 0..1 /\ o \div 4 \in 0..1
  OBVIOUS
<1> QED BY <1>1 DEF BitsOf, Axes

HalfOfPlace(m, o) == [i \in Axes |-> 2 * m[i] + BitsOf(o)[i]]
HalfOf(chunk, b, o, k) ==
  \A i \in Axes :
    /\ Child(b, o).lo[i] = b.lo[i] + BitsOf(o)[i] * (chunk.voxelSize * Width(k - 1))
    /\ Child(b, o).hi[i] = Child(b, o).lo[i] + chunk.voxelSize * Width(k - 1)
    /\ b.hi[i] = b.lo[i] + 2 * (chunk.voxelSize * Width(k - 1))
    /\ b.lo[i] <= Child(b, o).lo[i] /\ Child(b, o).hi[i] <= b.hi[i]

\* A child of a node is a node one level below it.
LEMMA ChildOfNode ==
  ASSUME NEW chunk, WellMade(chunk), NEW b, NEW k, NEW m, IsNodeAt(chunk, b, k, m), k > 0,
         NEW o \in 0..7
  PROVE  IsNodeAt(chunk, Child(b, o), k - 1, HalfOfPlace(m, o)) /\ HalfOf(chunk, b, o, k)
<1> DEFINE v == chunk.voxelSize
           w == Width(k - 1)
           h == v * w
           n == HalfOfPlace(m, o)
<1>1. /\ v \in Nat /\ v > 0 /\ w \in Nat /\ w > 0 /\ Width(k) = 2 * w
      /\ k \in Int /\ k - 1 \in 0..chunk.depth
  BY DEF WellMade, IsNodeAt
<1>2. h \in Nat /\ h > 0 /\ v * Width(k) = 2 * h
  <2> HIDE DEF v, w
  <2> QED BY <1>1
<1>3. ASSUME NEW i \in Axes
      PROVE  /\ m[i] \in Nat /\ BitsOf(o)[i] \in 0..1
             /\ n[i] \in Nat /\ w * n[i] + w <= Width(chunk.depth)
             /\ v * (w * n[i]) = b.lo[i] + BitsOf(o)[i] * h
             /\ b.lo[i] \in Int /\ b.hi[i] = b.lo[i] + 2 * h
  <2>1. m[i] \in Nat /\ BitsOf(o)[i] \in 0..1 /\ n[i] = 2 * m[i] + BitsOf(o)[i]
    BY BitsAreBits DEF IsNodeAt, HalfOfPlace
  <2>2. /\ b.lo[i] = v * (Width(k) * m[i]) /\ b.hi[i] = b.lo[i] + v * Width(k) /\ b.lo[i] \in Int
    BY EdgesOfNode
  <2>3. Width(k) * m[i] + Width(k) <= Width(chunk.depth) /\ Width(chunk.depth) \in Nat
    BY DEF IsNodeAt, WellMade
  <2> DEFINE x == m[i]
             y == BitsOf(o)[i]
             z == n[i]
             top == Width(chunk.depth)
             all == Width(k)
  <2>4. x \in Nat /\ y \in 0..1 /\ z = 2 * x + y /\ all = 2 * w /\ top \in Nat
        /\ all * x + all <= top /\ b.lo[i] = v * (all * x)
    BY <1>1, <2>1, <2>2, <2>3
  <2> HIDE DEF x, y, z, v, w, top, all, n
  <2>5. z \in Nat /\ w * z + w <= top
    <3>1. y = 0 \/ y = 1
      BY <2>4
    <3>2. w * z + w <= 2 * w * x + 2 * w
      BY <1>1, <2>4, <3>1
    <3> QED BY <1>1, <2>4, <3>2
  <2>6. v * (w * z) = v * (all * x) + y * (v * w)
    BY <1>1, <2>4
  <2>7. z \in Nat /\ v * (w * z) = b.lo[i] + y * (v * w)
    BY <2>4, <2>5, <2>6
  <2> QED BY <1>2, <2>1, <2>2, <2>4, <2>5, <2>7 DEF x, y, z, top, h
<1>4. Size(b) \div 2 = h
  <2>1. b.hi[1] = b.lo[1] + 2 * h /\ b.lo[1] \in Int
    BY <1>3 DEF Axes
  <2> HIDE DEF h
  <2>2. Size(b) = 2 * h
    BY <1>2, <2>1 DEF Size
  <2> QED BY <1>2, <2>2
<1>5. Child(b, o) = Cube([i \in Axes |-> b.lo[i] + BitsOf(o)[i] * h], h)
  BY <1>4 DEF Child, BitsOf
<1>6. Child(b, o) = NodeAt(chunk, k - 1, n)
  <2>1. NodeAt(chunk, k - 1, n) = Cube([i \in Axes |-> v * (w * n[i])], h)
    BY DEF NodeAt
  <2>2. [i \in Axes |-> b.lo[i] + BitsOf(o)[i] * h] = [i \in Axes |-> v * (w * n[i])]
    <3> HIDE DEF h, v, w, n
    <3> QED BY <1>3
  <2> QED BY <1>5, <2>1, <2>2
<1>7. IsNodeAt(chunk, Child(b, o), k - 1, n)
  <2>1. n \in [Axes -> Nat]
    <3>1. n = [i \in Axes |-> n[i]]
      BY DEF HalfOfPlace
    <3> HIDE DEF n
    <3> QED BY <1>3, <3>1
  <2> HIDE DEF n
  <2> QED BY <1>1, <1>3, <1>6, <2>1 DEF IsNodeAt
<1>8. ASSUME NEW i \in Axes
      PROVE  /\ Child(b, o).lo[i] = b.lo[i] + BitsOf(o)[i] * h
             /\ Child(b, o).hi[i] = Child(b, o).lo[i] + h
             /\ b.hi[i] = b.lo[i] + 2 * h
             /\ b.lo[i] <= Child(b, o).lo[i] /\ Child(b, o).hi[i] <= b.hi[i]
  <2>1. /\ Child(b, o).lo[i] = b.lo[i] + BitsOf(o)[i] * h
        /\ Child(b, o).hi[i] = Child(b, o).lo[i] + h
    BY <1>5 DEF Cube
  <2>2. BitsOf(o)[i] = 0 \/ BitsOf(o)[i] = 1
    BY <1>3
  <2> HIDE DEF h
  <2>3. BitsOf(o)[i] * h = 0 \/ BitsOf(o)[i] * h = h
    BY <1>2, <2>2
  <2> QED BY <1>2, <1>3, <2>1, <2>3
<1> QED BY <1>7, <1>8 DEF HalfOf

\* An octant's number gives back the three bits it was put together from.
LEMMA BitsOfSum ==
  ASSUME NEW a \in 0..1, NEW b \in 0..1, NEW c \in 0..1
  PROVE  /\ a + 2 * b + 4 * c \in 0..7
         /\ (a + 2 * b + 4 * c) % 2 = a
         /\ ((a + 2 * b + 4 * c) \div 2) % 2 = b
         /\ (a + 2 * b + 4 * c) \div 4 = c
<1>1. (a = 0 \/ a = 1) /\ (b = 0 \/ b = 1) /\ (c = 0 \/ c = 1)
  OBVIOUS
<1> QED BY <1>1

\* The octant that is chosen holds the point, and not on an upper face of its own.
LEMMA OctantHoldsPoint ==
  ASSUME Asked, NEW chunk, WellMade(chunk), NEW k, NEW m, IsNodeAt(chunk, march.here, k, m), k > 0,
         march.p \in [Axes -> Int], Holds(march.here, march.p)
  PROVE  /\ OctantNow \in 0..7 /\ Holds(Child(march.here, OctantNow), march.p)
         /\ \A i \in Axes : \/ march.p[i] < Fine(Child(march.here, OctantNow).hi[i])
                           \/ Child(march.here, OctantNow).hi[i] = march.here.hi[i]
<1> DEFINE b == march.here
           p == march.p
           o == OctantNow
           Upper(i) == 2 * p[i] >= Fine(b.lo[i] + b.hi[i])
           BitOf(i) == IF Upper(i) THEN 1 ELSE 0
           h == chunk.voxelSize * Width(k - 1)
<1>1. o = BitOf(1) + 2 * BitOf(2) + 4 * BitOf(3)
  BY DEF OctantNow
<1>2. o \in 0..7 /\ \A i \in Axes : BitsOf(o)[i] = BitOf(i)
  <2> HIDE DEF o
  <2>1. \A i \in Axes : BitOf(i) \in {0, 1}
    OBVIOUS
  <2> HIDE DEF BitOf
  <2>2. (BitOf(1) = 0 \/ BitOf(1) = 1) /\ (BitOf(2) = 0 \/ BitOf(2) = 1) /\ (BitOf(3) = 0 \/ BitOf(3) = 1)
    BY <2>1 DEF Axes
  <2>3. o \in 0..7 /\ o % 2 = BitOf(1) /\ (o \div 2) % 2 = BitOf(2) /\ o \div 4 = BitOf(3)
    <3> DEFINE x == BitOf(1)
               y == BitOf(2)
               z == BitOf(3)
    <3>1. x \in 0..1 /\ y \in 0..1 /\ z \in 0..1 /\ o = x + 2 * y + 4 * z
      BY <1>1, <2>2
    <3> HIDE DEF x, y, z
    <3>2. o \in 0..7 /\ o % 2 = x /\ (o \div 2) % 2 = y /\ o \div 4 = z
      BY ONLY <3>1, BitsOfSum
    <3> QED BY <3>2 DEF x, y, z
  <2> QED BY <2>3 DEF BitsOf, Axes
<1> HIDE DEF o
<1>3. ASSUME NEW i \in Axes
      PROVE  /\ Fine(Child(b, o).lo[i]) <= p[i] /\ p[i] <= Fine(Child(b, o).hi[i])
             /\ p[i] < Fine(Child(b, o).hi[i]) \/ Child(b, o).hi[i] = b.hi[i]
  <2> DEFINE lo == b.lo[i]
             mid == lo + h
  <2>1. /\ Child(b, o).lo[i] = lo + BitsOf(o)[i] * h
        /\ Child(b, o).hi[i] = Child(b, o).lo[i] + h
        /\ b.hi[i] = lo + 2 * h
    <3>1. /\ WellMade(chunk) /\ IsNodeAt(chunk, b, k, m) /\ k > 0 /\ o \in 0..7
      BY <1>2
    <3> HIDE DEF b, o
    <3>2. HalfOf(chunk, b, o, k)
      BY ONLY <3>1, ChildOfNode
    <3> QED BY <3>2 DEF b, HalfOf
  <2>2. lo \in Int /\ h \in Int
    <3>1. k - 1 \in 0..chunk.depth
      BY DEF IsNodeAt, WellMade
    <3> QED BY <3>1, EdgesOfNode DEF WellMade
  <2>3. p[i] \in Int /\ Fine(lo) <= p[i] /\ p[i] <= Fine(b.hi[i])
    BY DEF Holds
  <2> HIDE DEF h, lo
  <2>4. b.lo[i] + b.hi[i] = 2 * mid /\ mid \in Int
    BY <2>1, <2>2 DEF lo
  <2> HIDE DEF mid
  <2>5. Fine(b.lo[i] + b.hi[i]) = 2 * Fine(mid) /\ Fine(mid) \in Int
    <3>1. Unit \in Nat
      BY UnitIsShared
    <3>2. Fine(2 * mid) = 2 * Fine(mid)
      BY <2>4, <3>1 DEF Fine
    <3> QED BY <2>4, <3>1, <3>2 DEF Fine
  <2>6. Upper(i) <=> p[i] >= Fine(mid)
    <3> DEFINE q == p[i]
               f == Fine(mid)
    <3>1. q \in Int /\ f \in Int /\ (Upper(i) <=> 2 * q >= 2 * f)
      BY <2>3, <2>5
    <3> HIDE DEF q, f, Upper
    <3>2. Upper(i) <=> q >= f
      BY <3>1
    <3> QED BY <3>2 DEF q, f
  <2>7. BitsOf(o)[i] = BitOf(i)
    BY <1>2
  <2>8. CASE Upper(i)
    <3>1. Child(b, o).lo[i] = mid /\ Child(b, o).hi[i] = b.hi[i]
      BY <2>1, <2>2, <2>7, <2>8 DEF mid
    <3> QED BY <2>3, <2>5, <2>6, <2>8, <3>1
  <2>9. CASE ~Upper(i)
    <3>1. Child(b, o).lo[i] = lo /\ Child(b, o).hi[i] = mid
      BY <2>1, <2>2, <2>7, <2>9 DEF mid
    <3> QED BY <2>3, <2>5, <2>6, <2>9, <3>1
  <2> QED BY <2>8, <2>9
<1> QED BY <1>2, <1>3 DEF Holds, o

-----------------------------------------------------------------------------
(* The voxels of a node.                                                   *)

AlongIn(k, m, i) == (Width(k) * m[i])..(Width(k) * m[i] + Width(k) - 1)

\* The voxels of a node are those of its places along each axis.
LEMMA VoxelsOfNode ==
  ASSUME NEW chunk, WellMade(chunk), NEW b, NEW k, NEW m, IsNodeAt(chunk, b, k, m)
  PROVE  VoxelsIn(chunk, b) = AlongIn(k, m, 1) \X AlongIn(k, m, 2) \X AlongIn(k, m, 3)
<1>1. ASSUME NEW i \in Axes
      PROVE  (b.lo[i] \div chunk.voxelSize)..(b.hi[i] \div chunk.voxelSize - 1) = AlongIn(k, m, i)
  <2> DEFINE x == Width(k) * m[i]
             y == x + Width(k)
             v == chunk.voxelSize
  <2>1. /\ x \in Nat /\ y \in Nat /\ Width(k) \in Nat
        /\ b.lo[i] = v * x /\ b.hi[i] = v * y
    BY EdgesOfNode
  <2>2. v \in Nat /\ v > 0
    BY DEF WellMade
  <2> HIDE DEF x, y, v
  <2>3. b.lo[i] \div v = x /\ b.hi[i] \div v = y
    BY <2>1, <2>2, QuotientOfProduct
  <2>4. AlongIn(k, m, i) = x..(x + Width(k) - 1)
    BY DEF AlongIn, x
  <2>5. AlongIn(k, m, i) = x..(y - 1)
    BY <2>1, <2>4 DEF y
  <2> QED BY <2>3, <2>5 DEF v
<1>2. VoxelsIn(chunk, b) =
        ((b.lo[1] \div chunk.voxelSize)..(b.hi[1] \div chunk.voxelSize - 1))
          \X ((b.lo[2] \div chunk.voxelSize)..(b.hi[2] \div chunk.voxelSize - 1))
          \X ((b.lo[3] \div chunk.voxelSize)..(b.hi[3] \div chunk.voxelSize - 1))
  BY DEF VoxelsIn
<1>3. 1 \in Axes /\ 2 \in Axes /\ 3 \in Axes
  BY DEF Axes
<1> QED BY ONLY <1>1, <1>2, <1>3

\* A cube of one voxel is air or solid.
LEMMA VoxelsAreLeaves ==
  ASSUME NEW chunk, WellMade(chunk), NEW b, NEW m, IsNodeAt(chunk, b, 0, m)
  PROVE  IsAirNode(chunk, b) \/ IsSolidNode(chunk, b)
<1>1. Width(0) = 1
  BY DEF Width
<1>2. \A i \in Axes : AlongIn(0, m, i) = {m[i]}
  <2> TAKE i \in Axes
  <2>1. m[i] \in Nat
    BY DEF IsNodeAt
  <2> QED BY <1>1, <2>1 DEF AlongIn
<1>3. VoxelsIn(chunk, b) = {m[1]} \X {m[2]} \X {m[3]}
  BY <1>2, VoxelsOfNode DEF Axes
<1>4. VoxelsIn(chunk, b) = {<<m[1], m[2], m[3]>>}
  BY <1>3
<1> DEFINE v == <<m[1], m[2], m[3]>>
<1>5. VoxelsIn(chunk, b) = {v}
  BY <1>4
<1> HIDE DEF v
<1>6. CASE v \in DOMAIN chunk.solids
  <2>1. SolidsIn(chunk, b) = {v}
    BY <1>5, <1>6 DEF SolidsIn
  <2>2. VoxelTypes(chunk, b) = {chunk.solids[v]}
    BY <2>1 DEF VoxelTypes
  <2> QED BY <1>5, <2>1, <2>2 DEF IsSolidNode
<1>7. CASE v \notin DOMAIN chunk.solids
  BY <1>5, <1>7 DEF IsAirNode, SolidsIn
<1> QED BY <1>6, <1>7

\* A voxel is a box within the chunk.
LEMMA VoxelsAreBoxed ==
  ASSUME NEW chunk, WellMade(chunk), NEW v \in DOMAIN chunk.solids
  PROVE  /\ IsBox(VoxelCube(chunk, v))
         /\ v = <<v[1], v[2], v[3]>>
         /\ \A i \in Axes : /\ v[i] \in 0..(Width(chunk.depth) - 1)
                            /\ VoxelCube(chunk, v).lo[i] = chunk.voxelSize * v[i]
                            /\ VoxelCube(chunk, v).hi[i] = chunk.voxelSize * (v[i] + 1)
                            /\ 0 <= VoxelCube(chunk, v).lo[i]
                            /\ VoxelCube(chunk, v).hi[i] <= chunk.worldSize
<1> DEFINE along == 0..(Width(chunk.depth) - 1)
           b == VoxelCube(chunk, v)
<1>1. v \in along \X along \X along
  BY DEF WellMade
<1>2. v = <<v[1], v[2], v[3]>> /\ \A i \in Axes : v[i] \in along
  <2>1. v[1] \in along /\ v[2] \in along /\ v[3] \in along /\ v = <<v[1], v[2], v[3]>>
    BY <1>1
  <2> QED BY <2>1 DEF Axes
<1>3. /\ b.lo = [i \in Axes |-> chunk.voxelSize * v[i]]
      /\ b.hi = [i \in Axes |-> chunk.voxelSize * v[i] + chunk.voxelSize]
  BY DEF VoxelCube, Cube
<1> HIDE DEF b
<1>4. ASSUME NEW i \in Axes
      PROVE  /\ b.lo[i] = chunk.voxelSize * v[i] /\ b.hi[i] = chunk.voxelSize * (v[i] + 1)
             /\ b.lo[i] \in Int /\ b.hi[i] \in Int /\ b.lo[i] < b.hi[i] /\ 0 <= b.lo[i]
             /\ b.hi[i] <= chunk.worldSize
  <2> DEFINE s == chunk.voxelSize
             x == v[i]
             y == x + 1
             d == Width(chunk.depth)
  <2>1. s \in Nat /\ s > 0 /\ x \in Nat /\ y \in Nat /\ d \in Nat /\ y <= d /\ chunk.worldSize = s * d
    BY <1>2 DEF WellMade
  <2>2. b.lo[i] = s * x /\ b.hi[i] = s * x + s
    BY <1>3
  <2>3. s * y = s * x + s
    <3> HIDE DEF s, x
    <3> QED BY <2>1
  <2> HIDE DEF s, x, y, d
  <2>4. s * y <= s * d /\ s * x \in Nat /\ s * y \in Nat
    BY <2>1, OrderOfProducts
  <2>5. b.lo[i] = s * x /\ b.hi[i] = s * y
    BY <2>2, <2>3
  <2>6. b.lo[i] \in Int /\ b.hi[i] \in Int /\ b.lo[i] < b.hi[i] /\ 0 <= b.lo[i]
        /\ b.hi[i] <= chunk.worldSize
    BY <2>1, <2>2, <2>4, <2>5
  <2> QED BY <2>5, <2>6 DEF s, x, y
<1>5. IsBox(b)
  BY <1>3, <1>4 DEF IsBox
<1> QED BY <1>2, <1>4, <1>5 DEF b

\* A voxel that overlaps a node is one of it.
LEMMA OverlappingAreInside ==
  ASSUME NEW chunk, WellMade(chunk), NEW b, IsNode(chunk, b), NEW v \in DOMAIN chunk.solids,
         \A i \in Axes : VoxelCube(chunk, v).lo[i] < b.hi[i] /\ b.lo[i] < VoxelCube(chunk, v).hi[i]
  PROVE  v \in SolidsIn(chunk, b)
<1>1. PICK k, m : IsNodeAt(chunk, b, k, m)
  BY DEF IsNode
<1>2. ASSUME NEW i \in Axes PROVE v[i] \in AlongIn(k, m, i)
  <2> DEFINE s == chunk.voxelSize
             x == v[i]
             y == x + 1
             lo == Width(k) * m[i]
             hi == lo + Width(k)
  <2>1. s \in Nat /\ s > 0 /\ x \in Nat /\ y \in Nat
    BY VoxelsAreBoxed DEF WellMade
  <2>2. lo \in Nat /\ hi \in Nat /\ b.lo[i] = s * lo /\ b.hi[i] = s * hi
    BY <1>1, EdgesOfNode
  <2>3. VoxelCube(chunk, v).lo[i] = s * x /\ VoxelCube(chunk, v).hi[i] = s * y
    BY VoxelsAreBoxed
  <2>4. y = x + 1 /\ AlongIn(k, m, i) = lo..(hi - 1)
    <3>1. AlongIn(k, m, i) = lo..(lo + Width(k) - 1)
      BY DEF AlongIn
    <3>2. Width(k) \in Nat
      BY <1>1, EdgesOfNode
    <3> QED BY <2>2, <3>1, <3>2
  <2> HIDE DEF s, x, y, lo, hi
  <2>5. s * x < s * hi /\ s * lo < s * y
    BY <2>2, <2>3
  <2>6. x < hi /\ lo < y
    BY <2>1, <2>2, <2>5, OrderOfProducts
  <2>7. x \in AlongIn(k, m, i)
    BY <2>1, <2>2, <2>4, <2>6
  <2> QED BY <2>7 DEF x
<1>3. v \in VoxelsIn(chunk, b)
  <2>1. v[1] \in AlongIn(k, m, 1) /\ v[2] \in AlongIn(k, m, 2) /\ v[3] \in AlongIn(k, m, 3)
    BY <1>2 DEF Axes
  <2>2. v = <<v[1], v[2], v[3]>>
    BY VoxelsAreBoxed
  <2>3. VoxelsIn(chunk, b) = AlongIn(k, m, 1) \X AlongIn(k, m, 2) \X AlongIn(k, m, 3)
    BY <1>1, VoxelsOfNode
  <2> QED BY <2>1, <2>2, <2>3
<1> QED BY <1>3 DEF SolidsIn

-----------------------------------------------------------------------------
(* Solids that the ray goes through.                                       *)

Spanned(s) ==
  /\ Listed(s[1]) /\ s[2] \in DOMAIN scene[s[1]].solids /\ BoxOf(s) = VoxelCube(scene[s[1]], s[2])
  /\ Moving # {}
  /\ EnteredAt(s) \in Int /\ 0 <= EnteredAt(s)
  /\ \A i \in Moving : /\ InAt(From(scene[s[1]]), BoxOf(s), i) \in Int
                       /\ OutAt(From(scene[s[1]]), BoxOf(s), i) \in Int
                       /\ InAt(From(scene[s[1]]), BoxOf(s), i) <= EnteredAt(s)
                       /\ EnteredAt(s) < OutAt(From(scene[s[1]]), BoxOf(s), i)
  /\ \A i \in Axes \ Moving :
       BoxOf(s).lo[i] < From(scene[s[1]])[i] /\ From(scene[s[1]])[i] < BoxOf(s).hi[i]

\* A solid box is a solid voxel of a chunk of the scene.
LEMMA SolidsAreListed ==
  ASSUME NEW s \in SolidBoxes
  PROVE  Listed(s[1]) /\ s[2] \in DOMAIN scene[s[1]].solids /\ s = <<s[1], s[2]>>
BY DEF SolidBoxes, Listed

\* A segment that pierces a solid is in its box for a span of times.
LEMMA PiercedAreSpanned ==
  ASSUME Asked, NEW s \in SolidBoxes, Pierces(s)
  PROVE  Spanned(s)
<1> DEFINE c == s[1]
           from == From(scene[c])
           b == BoxOf(s)
           span == Interval(from, b)
           e == EnteredAt(s)
<1>1. Listed(c) /\ s[2] \in DOMAIN scene[c].solids /\ WellMade(scene[c])
  BY SolidsAreListed, ChunksAreGrown
<1>2. b = VoxelCube(scene[c], s[2]) /\ IsBox(b) /\ from \in [Axes -> Int]
  BY <1>1, VoxelsAreBoxed DEF BoxOf, WellMade
<1>3. /\ Meets(from, b) /\ span.entry < span.exit /\ span.exit > 0
      /\ \A i \in Axes \ Moving : b.lo[i] < from[i] /\ from[i] < b.hi[i]
  BY DEF Pierces
<1>4. Moving # {}
  BY <1>3 DEF Meets
<1>5. e = Max({0, span.entry})
  BY DEF EnteredAt
<1> HIDE DEF c, from, b, span, e
<1>6. /\ span.entry \in Int /\ span.exit \in Int
      /\ \A i \in Moving : /\ InAt(from, b, i) \in Int /\ OutAt(from, b, i) \in Int
                           /\ InAt(from, b, i) <= span.entry
                           /\ span.exit <= OutAt(from, b, i)
  BY <1>2, <1>4, IntervalEnds DEF span
<1>7. e \in Int /\ 0 <= e /\ span.entry <= e /\ e < span.exit
  <2>1. e = IF 0 <= span.entry THEN span.entry ELSE 0
    <3> DEFINE x == span.entry
    <3>1. x \in Int /\ 0 \in Int /\ e = Max({0, x})
      BY <1>5, <1>6
    <3> HIDE DEF x
    <3>2. Max({0, x}) = IF 0 <= x THEN x ELSE 0
      BY ONLY <3>1, MinMaxOfTwo
    <3> QED BY <3>1, <3>2 DEF x
  <2> QED BY <1>3, <1>6, <2>1
<1>8. \A i \in Moving : InAt(from, b, i) <= e /\ e < OutAt(from, b, i)
  BY <1>6, <1>7
<1> QED BY <1>1, <1>2, <1>3, <1>4, <1>6, <1>7, <1>8 DEF Spanned, c, from, b, e

\* A box that is crossed later than another is entered lies beyond its far side.
LEMMA LaterIsBeyond ==
  ASSUME Asked, NEW from \in [Axes -> Int], NEW a, IsBox(a), NEW b, IsBox(b), NEW i \in Moving,
         InAt(from, a, i) < OutAt(from, b, i), InAt(from, b, i) < OutAt(from, a, i)
  PROVE  a.lo[i] < b.hi[i] /\ b.lo[i] < a.hi[i]
<1>1. i \in Axes
  BY DEF Moving
<1>2. a.lo[i] \in Int /\ a.hi[i] \in Int /\ b.lo[i] \in Int /\ b.hi[i] \in Int
  BY <1>1 DEF IsBox
<1>3. CASE Forward(i)
  <2>1. /\ InAt(from, a, i) = Crossing(from, i, a.lo[i]) /\ OutAt(from, a, i) = Crossing(from, i, a.hi[i])
        /\ InAt(from, b, i) = Crossing(from, i, b.lo[i]) /\ OutAt(from, b, i) = Crossing(from, i, b.hi[i])
    BY <1>3 DEF InAt, OutAt, EntryPlane, ExitPlane, Forward
  <2>2. /\ Crossing(from, i, a.lo[i]) < Crossing(from, i, b.hi[i]) <=> a.lo[i] < b.hi[i]
        /\ Crossing(from, i, b.lo[i]) < Crossing(from, i, a.hi[i]) <=> b.lo[i] < a.hi[i]
    BY <1>2, <1>3, CrossingsInOrder
  <2> QED BY <2>1, <2>2
<1>4. CASE ~Forward(i)
  <2>1. /\ InAt(from, a, i) = Crossing(from, i, a.hi[i]) /\ OutAt(from, a, i) = Crossing(from, i, a.lo[i])
        /\ InAt(from, b, i) = Crossing(from, i, b.hi[i]) /\ OutAt(from, b, i) = Crossing(from, i, b.lo[i])
    BY <1>4 DEF InAt, OutAt, EntryPlane, ExitPlane, Forward
  <2>2. /\ Crossing(from, i, a.hi[i]) < Crossing(from, i, b.lo[i]) <=> b.lo[i] < a.hi[i]
        /\ Crossing(from, i, b.hi[i]) < Crossing(from, i, a.lo[i]) <=> a.lo[i] < b.hi[i]
    BY <1>2, <1>4, CrossingsInOrder
  <2> QED BY <2>1, <2>2
<1> QED BY <1>3, <1>4

\* No solid is entered while a box of air is skipped.
LEMMA SkipsMissNothing ==
  ASSUME Asked, NEW s \in SolidBoxes, Pierces(s), NEW b, IsNode(scene[s[1]], b),
         IsAirNode(scene[s[1]], b), NEW t \in Int, WithinAt(From(scene[s[1]]), b, t),
         NEW next, Lands(From(scene[s[1]]), b, t, next), t <= EnteredAt(s)
  PROVE  next.t <= EnteredAt(s)
<1> DEFINE chunk == scene[s[1]]
           from == From(chunk)
           e == EnteredAt(s)
           a == BoxOf(s)
<1>1. /\ Listed(s[1]) /\ s[2] \in DOMAIN chunk.solids /\ a = VoxelCube(chunk, s[2])
      /\ Moving # {} /\ e \in Int
      /\ \A i \in Moving : /\ InAt(from, a, i) \in Int /\ OutAt(from, a, i) \in Int
                           /\ InAt(from, a, i) <= e /\ e < OutAt(from, a, i)
      /\ \A i \in Axes \ Moving : a.lo[i] < from[i] /\ from[i] < a.hi[i]
  BY PiercedAreSpanned DEF Spanned
<1>2. WellMade(chunk)
  BY <1>1, ChunksAreGrown
<1>3. IsBox(a) /\ IsBox(b) /\ from \in [Axes -> Int]
  BY <1>1, <1>2, VoxelsAreBoxed, NodesAreBoxed DEF WellMade
<1>4. /\ next.t \in Int
      /\ \A i \in Moving : next.t <= OutAt(from, b, i) /\ InAt(from, b, i) <= t
      /\ \A i \in Axes \ Moving : b.lo[i] <= from[i] /\ from[i] <= b.hi[i]
  BY DEF Lands, WithinAt
<1> HIDE DEF chunk, from, e, a
<1>5. SUFFICES ASSUME e < next.t PROVE FALSE
  BY <1>1, <1>4 DEF e
<1>6. ASSUME NEW i \in Axes PROVE a.lo[i] < b.hi[i] /\ b.lo[i] < a.hi[i]
  <2>1. CASE i \in Moving
    <3>1. InAt(from, b, i) \in Int /\ OutAt(from, b, i) \in Int
      BY <1>1, <1>3, <2>1, IntervalEnds
    <3>2. InAt(from, a, i) < OutAt(from, b, i) /\ InAt(from, b, i) < OutAt(from, a, i)
      BY <1>1, <1>4, <1>5, <2>1, <3>1 DEF e
    <3> QED BY <1>3, <2>1, <3>2, LaterIsBeyond
  <2>2. CASE i \notin Moving
    <3>1. a.lo[i] < from[i] /\ from[i] < a.hi[i] /\ b.lo[i] <= from[i] /\ from[i] <= b.hi[i]
      BY <1>1, <1>4, <2>2
    <3>2. /\ a.lo[i] \in Int /\ a.hi[i] \in Int /\ b.lo[i] \in Int /\ b.hi[i] \in Int
          /\ from[i] \in Int
      BY <1>3 DEF IsBox
    <3> QED BY <3>1, <3>2
  <2> QED BY <2>1, <2>2
<1>7. s[2] \in SolidsIn(chunk, b)
  <2>1. IsNode(chunk, b) /\ s[2] \in DOMAIN chunk.solids
        /\ \A i \in Axes : /\ VoxelCube(chunk, s[2]).lo[i] < b.hi[i]
                           /\ b.lo[i] < VoxelCube(chunk, s[2]).hi[i]
    BY <1>1, <1>6 DEF chunk
  <2> QED BY ONLY <1>2, <2>1, OverlappingAreInside
<1> QED BY <1>7 DEF IsAirNode, chunk

\* A solid is entered after its chunk.
LEMMA PiercedPassChunk ==
  ASSUME Asked, NEW s \in SolidBoxes, Pierces(s), EnteredAt(s) < MaxT
  PROVE  s[1] \in Intersected /\ EntryOf(s[1]) <= EnteredAt(s)
<1> DEFINE c == s[1]
           chunk == scene[c]
           from == From(chunk)
           e == EnteredAt(s)
           a == BoxOf(s)
           b == Root(chunk)
<1>1. /\ Listed(c) /\ s[2] \in DOMAIN chunk.solids /\ a = VoxelCube(chunk, s[2])
      /\ Moving # {} /\ e \in Int /\ 0 <= e
      /\ \A i \in Moving : /\ InAt(from, a, i) \in Int /\ OutAt(from, a, i) \in Int
                           /\ InAt(from, a, i) <= e /\ e < OutAt(from, a, i)
      /\ \A i \in Axes \ Moving : a.lo[i] < from[i] /\ from[i] < a.hi[i]
  BY PiercedAreSpanned DEF Spanned
<1>2. WellMade(chunk)
  BY <1>1, ChunksAreGrown
<1>3. /\ IsBox(a) /\ IsBox(b) /\ from \in [Axes -> Int]
      /\ \A i \in Axes : /\ b.lo[i] = 0 /\ b.hi[i] = chunk.worldSize
                         /\ 0 <= a.lo[i] /\ a.hi[i] <= chunk.worldSize
  BY <1>1, <1>2, VoxelsAreBoxed, NodesAreBoxed, RootIsNode DEF WellMade
<1>4. e < MaxT /\ MaxT \in Int
  BY UnitIsShared
<1>5. /\ Span(c) = Interval(from, b)
      /\ EntryOf(c) = Max({Span(c).entry, 0})
  BY DEF Span, EntryOf
<1>6. c \in Intersected <=>
        /\ c \in DOMAIN scene /\ Meets(from, b) /\ Span(c).entry < Span(c).exit
        /\ Span(c).exit > 0 /\ Span(c).entry < MaxT
  BY DEF Intersected
<1> HIDE DEF c, chunk, from, e, a, b
<1>7. ASSUME NEW i \in Moving
      PROVE  /\ InAt(from, b, i) \in Int /\ OutAt(from, b, i) \in Int
             /\ InAt(from, b, i) <= e /\ e < OutAt(from, b, i)
  <2>1. i \in Axes
    BY DEF Moving
  <2>2. /\ a.lo[i] \in Int /\ a.hi[i] \in Int /\ b.lo[i] \in Int /\ b.hi[i] \in Int
        /\ b.lo[i] <= a.lo[i] /\ a.hi[i] <= b.hi[i]
    BY <1>3, <2>1 DEF IsBox
  <2>3. InAt(from, b, i) <= InAt(from, a, i) /\ OutAt(from, a, i) <= OutAt(from, b, i)
    <3>1. CASE Forward(i)
      <4>1. /\ InAt(from, a, i) = Crossing(from, i, a.lo[i]) /\ OutAt(from, a, i) = Crossing(from, i, a.hi[i])
            /\ InAt(from, b, i) = Crossing(from, i, b.lo[i]) /\ OutAt(from, b, i) = Crossing(from, i, b.hi[i])
        BY <3>1 DEF InAt, OutAt, EntryPlane, ExitPlane, Forward
      <4>2. /\ Crossing(from, i, b.lo[i]) <= Crossing(from, i, a.lo[i]) <=> b.lo[i] <= a.lo[i]
            /\ Crossing(from, i, a.hi[i]) <= Crossing(from, i, b.hi[i]) <=> a.hi[i] <= b.hi[i]
        BY <1>3, <2>2, <3>1, CrossingsInOrder
      <4> QED BY <2>2, <4>1, <4>2
    <3>2. CASE ~Forward(i)
      <4>1. /\ InAt(from, a, i) = Crossing(from, i, a.hi[i]) /\ OutAt(from, a, i) = Crossing(from, i, a.lo[i])
            /\ InAt(from, b, i) = Crossing(from, i, b.hi[i]) /\ OutAt(from, b, i) = Crossing(from, i, b.lo[i])
        BY <3>2 DEF InAt, OutAt, EntryPlane, ExitPlane, Forward
      <4>2. /\ Crossing(from, i, a.lo[i]) <= Crossing(from, i, b.lo[i]) <=> b.lo[i] <= a.lo[i]
            /\ Crossing(from, i, b.hi[i]) <= Crossing(from, i, a.hi[i]) <=> a.hi[i] <= b.hi[i]
        BY <1>3, <2>2, <3>2, CrossingsInOrder
      <4> QED BY <2>2, <4>1, <4>2
    <3> QED BY <3>1, <3>2
  <2>4. InAt(from, b, i) \in Int /\ OutAt(from, b, i) \in Int
    BY <1>1, <1>3, IntervalEnds
  <2> QED BY <1>1, <2>3, <2>4
<1>8. /\ Span(c).entry \in Int /\ Span(c).exit \in Int
      /\ Span(c).entry <= e /\ e < Span(c).exit
  <2>1. /\ Span(c).entry \in Int /\ Span(c).exit \in Int
        /\ \E i \in Moving : Span(c).entry = InAt(from, b, i)
        /\ \E i \in Moving : Span(c).exit = OutAt(from, b, i)
    BY <1>1, <1>3, <1>5, IntervalEnds
  <2> QED BY <1>7, <2>1
<1>9. Meets(from, b)
  <2>1. \A i \in Axes \ Moving : b.lo[i] <= from[i] /\ from[i] <= b.hi[i]
    <3> TAKE i \in Axes \ Moving
    <3>1. a.lo[i] \in Int /\ a.hi[i] \in Int /\ from[i] \in Int /\ b.lo[i] \in Int /\ b.hi[i] \in Int
      BY <1>3 DEF IsBox
    <3> QED BY <1>1, <1>3, <3>1
  <2>2. Interval(from, b).entry <= Interval(from, b).exit
    BY <1>1, <1>5, <1>8
  <2> QED BY <1>1, <2>1, <2>2 DEF Meets
<1>10. c \in Intersected
  BY <1>1, <1>4, <1>6, <1>8, <1>9 DEF Listed
<1>11. EntryOf(c) <= e
  <2>1. EntryOf(c) = IF Span(c).entry <= 0 THEN 0 ELSE Span(c).entry
    <3> DEFINE x == Span(c).entry
    <3>1. x \in Int /\ 0 \in Int /\ EntryOf(c) = Max({x, 0})
      BY <1>5, <1>8
    <3> HIDE DEF x
    <3>2. Max({x, 0}) = IF x <= 0 THEN 0 ELSE x
      BY ONLY <3>1, MinMaxOfTwo
    <3> QED BY <3>1, <3>2 DEF x
  <2> QED BY <1>1, <1>8, <2>1
<1> QED BY <1>10, <1>11 DEF c, e

-----------------------------------------------------------------------------
(* A node that is solid has a solid voxel wherever it is touched.          *)

\* A number between two multiples is between two that are next to each other.
LEMMA PlaceBetween ==
  ASSUME NEW u \in Nat, u > 0, NEW a \in Nat, NEW b \in Nat, a < b, NEW x \in Int,
         u * a <= x, x <= u * b
  PROVE  \E n \in a..(b - 1) : u * n <= x /\ x <= u * (n + 1)
<1>1. CASE x = u * b
  <2> DEFINE n == b - 1
  <2>1. n \in a..(b - 1) /\ n \in Int /\ n + 1 = b
    OBVIOUS
  <2>2. u * n <= u * b
    <3> HIDE DEF n
    <3>1. n <= b
      BY <2>1
    <3> QED BY <2>1, <3>1, OrderOfProducts
  <2> HIDE DEF n
  <2> QED BY <1>1, <2>1, <2>2
<1>2. CASE x # u * b
  <2> DEFINE n == x \div u
             r == x % u
  <2>1. n \in Int /\ r \in 0..(u - 1) /\ x = u * n + r
    OBVIOUS
  <2> HIDE DEF n, r
  <2>2. u * n \in Int /\ u * (n + 1) \in Int /\ u * (n + 1) = u * n + u /\ u * b \in Int /\ u * a \in Int
    BY <2>1
  <2>3. u * n <= x /\ x < u * (n + 1) /\ x < u * b
    BY <1>2, <2>1, <2>2
  <2>4. u * a < u * (n + 1) /\ u * n < u * b
    BY <2>1, <2>2, <2>3
  <2>5. a < n + 1 /\ n < b
    <3>1. n + 1 \in Int
      BY <2>1
    <3> QED BY <2>1, <2>4, <3>1, OrderOfProducts
  <2>6. n \in a..(b - 1)
    BY <2>1, <2>5
  <2> QED BY <2>3, <2>2, <2>6
<1> QED BY <1>1, <1>2

\* A point of the ray in a solid node is in a solid voxel of it.
LEMMA SolidIsTouched ==
  ASSUME Asked, NEW chunk, WellMade(chunk), NEW b, IsNode(chunk, b), IsSolidNode(chunk, b),
         NEW t \in Int, WithinAt(From(chunk), b, t)
  PROVE  \E v \in SolidsIn(chunk, b) : Holds(VoxelCube(chunk, v), PointAt(From(chunk), t))
<1> DEFINE P == PointAt(From(chunk), t)
<1>1. PICK k, m : IsNodeAt(chunk, b, k, m)
  BY DEF IsNode
<1>2. IsBox(b) /\ From(chunk) \in [Axes -> Int]
  BY NodesAreBoxed DEF WellMade
<1>3. Holds(b, P) /\ P \in [Axes -> Int]
  BY <1>2, WithinHolds, PointIsInt
<1> HIDE DEF P
<1>4. ASSUME NEW i \in Axes
      PROVE  \E n \in AlongIn(k, m, i) : /\ Fine(chunk.voxelSize * n) <= P[i]
                                         /\ P[i] <= Fine(chunk.voxelSize * n + chunk.voxelSize)
  <2> DEFINE s == chunk.voxelSize
             lo == Width(k) * m[i]
             hi == lo + Width(k)
             q == Unit
             u == 2 * (q * s)
             x == P[i]
  <2>1. /\ s \in Nat /\ s > 0 /\ q \in Nat /\ q > 0
    BY UnitIsShared DEF WellMade
  <2>2. lo \in Nat /\ hi \in Nat /\ lo < hi /\ b.lo[i] = s * lo /\ b.hi[i] = s * hi
        /\ Width(k) \in Nat
    BY <1>1, EdgesOfNode
  <2>3. x \in Int /\ Fine(b.lo[i]) <= x /\ x <= Fine(b.hi[i])
    BY <1>3 DEF Holds
  <2>4. AlongIn(k, m, i) = lo..(hi - 1)
    <3>1. AlongIn(k, m, i) = lo..(lo + Width(k) - 1)
      BY DEF AlongIn
    <3> QED BY <2>2, <3>1
  <2> HIDE DEF s, lo, hi, x, q
  <2>5. u \in Nat /\ u > 0
    <3>1. q * s \in Nat /\ q * s > 0
      BY <2>1
    <3> QED BY <3>1
  <2>6. \A n \in Int : Fine(s * n) = u * n
    <3> TAKE n \in Int
    <3>1. Fine(s * n) = 2 * q * (s * n)
      BY DEF Fine, q
    <3> QED BY <2>1, <3>1
  <2> HIDE DEF u
  <2>7. u * lo <= x /\ x <= u * hi
    BY <2>2, <2>3, <2>6
  <2>8. PICK n \in lo..(hi - 1) : u * n <= x /\ x <= u * (n + 1)
    BY ONLY <2>2, <2>3, <2>5, <2>7, PlaceBetween
  <2>9. n \in Int /\ n + 1 \in Int /\ s * (n + 1) = s * n + s
    BY <2>1, <2>2, <2>8
  <2>10. Fine(s * n) <= x /\ x <= Fine(s * n + s)
    BY <2>6, <2>8, <2>9
  <2> QED BY <2>4, <2>8, <2>10 DEF s, x
<1>5. PICK x \in AlongIn(k, m, 1) : /\ Fine(chunk.voxelSize * x) <= P[1]
                                    /\ P[1] <= Fine(chunk.voxelSize * x + chunk.voxelSize)
  BY <1>4 DEF Axes
<1>6. PICK y \in AlongIn(k, m, 2) : /\ Fine(chunk.voxelSize * y) <= P[2]
                                    /\ P[2] <= Fine(chunk.voxelSize * y + chunk.voxelSize)
  BY <1>4 DEF Axes
<1>7. PICK z \in AlongIn(k, m, 3) : /\ Fine(chunk.voxelSize * z) <= P[3]
                                    /\ P[3] <= Fine(chunk.voxelSize * z + chunk.voxelSize)
  BY <1>4 DEF Axes
<1> DEFINE v == <<x, y, z>>
<1>8. v \in SolidsIn(chunk, b)
  <2>1. v \in VoxelsIn(chunk, b)
    BY <1>1, VoxelsOfNode
  <2> QED BY <2>1 DEF IsSolidNode
<1>9. Holds(VoxelCube(chunk, v), P)
  <2>1. /\ VoxelCube(chunk, v).lo = [i \in Axes |-> chunk.voxelSize * v[i]]
        /\ VoxelCube(chunk, v).hi = [i \in Axes |-> chunk.voxelSize * v[i] + chunk.voxelSize]
    BY DEF VoxelCube, Cube
  <2>2. v[1] = x /\ v[2] = y /\ v[3] = z
    OBVIOUS
  <2> HIDE DEF v
  <2>3. \A i \in Axes : i = 1 \/ i = 2 \/ i = 3
    BY DEF Axes
  <2>4. \A i \in Axes : /\ Fine(chunk.voxelSize * v[i]) <= P[i]
                        /\ P[i] <= Fine(chunk.voxelSize * v[i] + chunk.voxelSize)
    BY <1>5, <1>6, <1>7, <2>2, <2>3
  <2> QED BY <2>1, <2>4 DEF Holds
<1> QED BY <1>8, <1>9 DEF P

-----------------------------------------------------------------------------
(* What a query is about does not change.                                  *)

\* Nothing that depends on scene, ray and limits only changes in a query.
LEMMA QueryRests ==
  ASSUME UNCHANGED queryVars
  PROVE  /\ Asked' = Asked /\ Moving' = Moving /\ MaxT' = MaxT /\ Intact' = Intact
         /\ SolidBoxes' = SolidBoxes /\ scene' = scene /\ query' = query /\ limits' = limits
         /\ \A chunk : From(chunk)' = From(chunk)
         /\ \A a, t : PointAt(a, t)' = PointAt(a, t)
         /\ \A a, p, t : Carried(a, p, t)' <=> Carried(a, p, t)
         /\ \A b, p : Holds(b, p)' <=> Holds(b, p)
         /\ \A s : (Pierces(s)' <=> Pierces(s)) /\ EnteredAt(s)' = EnteredAt(s)
         /\ \A s, t : Touches(s, t)' <=> Touches(s, t)
<1>1. scene' = scene /\ ray' = ray /\ query' = query /\ limits' = limits
  BY DEF queryVars
<1>2. Asked' = Asked /\ Intact' = Intact /\ SolidBoxes' = SolidBoxes
  BY <1>1 DEF Asked, Intact, SolidBoxes
<1>3. Moving' = Moving /\ Unit' = Unit
  BY <1>1 DEF Moving, Unit, Scale
<1>4. MaxT' = MaxT /\ \A n : Fine(n)' = Fine(n)
  BY <1>1, <1>3 DEF MaxT, Fine
<1>5. \A chunk : From(chunk)' = From(chunk)
  BY <1>1 DEF From
<1>6. \A a, t : PointAt(a, t)' = PointAt(a, t)
  BY <1>1, <1>4 DEF PointAt
<1>7. \A a, p, t : Carried(a, p, t)' <=> Carried(a, p, t)
  BY <1>1, <1>3, <1>4, <1>6 DEF Carried, Nudged, Onward, Forward
<1>8. \A b, p : Holds(b, p)' <=> Holds(b, p)
  BY <1>4 DEF Holds
<1>9. \A a, b : Interval(a, b)' = Interval(a, b)
  BY <1>1, <1>3 DEF Interval, Crossing
<1>10. \A a, b : Meets(a, b)' <=> Meets(a, b)
  BY <1>3, <1>9 DEF Meets
<1>11. \A s : BoxOf(s)' = BoxOf(s)
  BY <1>1 DEF BoxOf
<1>12. \A s : (Pierces(s)' <=> Pierces(s)) /\ EnteredAt(s)' = EnteredAt(s)
  BY <1>1, <1>3, <1>5, <1>9, <1>10, <1>11 DEF Pierces, EnteredAt
<1>13. \A s, t : Touches(s, t)' <=> Touches(s, t)
  BY <1>1, <1>5, <1>6, <1>8, <1>11 DEF Touches
<1> QED BY <1>1, <1>2, <1>3, <1>4, <1>5, <1>6, <1>7, <1>8, <1>12, <1>13

-----------------------------------------------------------------------------
(* The state of a march.                                                   *)

Nodes(chunk) ==
  {b \in {NodeAt(chunk, k, m) : k \in 0..chunk.depth, m \in [Axes -> Nat]} : IsNode(chunk, b)}

\* The nodes that are enumerated are those of the octree.
LEMMA NodesAreNodes ==
  ASSUME NEW chunk, NEW b
  PROVE  b \in Nodes(chunk) <=> IsNode(chunk, b)
BY DEF Nodes, IsNode, IsNodeAt

MarchOf(c) ==
  [busy : {TRUE}, chunk : {c}, t : Int, p : [Axes -> Int], here : Nodes(scene[c]),
   stack : Seq(Nodes(scene[c])), left : Int]

\* A march under way: its box holds the point, and the root is at the bottom.
AtRoot(chunk, m) ==
  IF m.stack = <<>> THEN m.here = Root(chunk) ELSE m.stack[1] = Root(chunk)
Under(m) ==
  /\ Listed(m.chunk) /\ m \in MarchOf(m.chunk)
  /\ Moving # {} /\ 0 <= m.t
  /\ Carried(From(scene[m.chunk]), m.p, m.t)
  /\ Holds(m.here, m.p)
  /\ AtRoot(scene[m.chunk], m)
MarchOK == march = Idle \/ Under(march)

Phases ==
  /\ answer \in {"asked", "open", "hit", "clear"}
  /\ ahead \subseteq Intersected
  /\ answer # "open" => march = Idle
  /\ answer = "asked" \/ query = "occluded" => closest = None

RayTypeOK == Asked /\ Phases /\ MarchOK

\* A march begins within the chunk it enters, before the ray leaves it.
LEMMA EntersWithin ==
  ASSUME Asked, NEW c \in Intersected
  PROVE  /\ Listed(c) /\ Moving # {} /\ EntryOf(c) \in Int /\ 0 <= EntryOf(c)
         /\ WithinAt(From(scene[c]), Root(scene[c]), EntryOf(c))
         /\ \A i \in Moving : EntryOf(c) < OutAt(From(scene[c]), Root(scene[c]), i)
<1> DEFINE chunk == scene[c]
           from == From(chunk)
           b == Root(chunk)
<1>1. /\ Listed(c) /\ Meets(from, b) /\ Span(c) = Interval(from, b)
      /\ Span(c).entry < Span(c).exit /\ Span(c).exit > 0 /\ EntryOf(c) = Max({Span(c).entry, 0})
  BY DEF Intersected, Listed, Span, EntryOf
<1>2. WellMade(chunk)
  BY <1>1, ChunksAreGrown
<1>3. IsBox(b) /\ from \in [Axes -> Int]
  BY <1>2, RootIsNode, NodesAreBoxed DEF WellMade
<1>4. Moving # {} /\ \A i \in Axes \ Moving : b.lo[i] <= from[i] /\ from[i] <= b.hi[i]
  BY <1>1 DEF Meets
<1> HIDE DEF chunk, from, b
<1>5. /\ Span(c).entry \in Int /\ Span(c).exit \in Int
      /\ \A i \in Moving : /\ InAt(from, b, i) \in Int /\ OutAt(from, b, i) \in Int
                           /\ InAt(from, b, i) <= Span(c).entry
                           /\ Span(c).exit <= OutAt(from, b, i)
  BY <1>1, <1>3, <1>4, IntervalEnds
<1>6. EntryOf(c) = IF Span(c).entry <= 0 THEN 0 ELSE Span(c).entry
  <2> DEFINE x == Span(c).entry
  <2>1. x \in Int /\ 0 \in Int /\ EntryOf(c) = Max({x, 0})
    BY <1>1, <1>5
  <2> HIDE DEF x
  <2>2. Max({x, 0}) = IF x <= 0 THEN 0 ELSE x
    BY ONLY <2>1, MinMaxOfTwo
  <2> QED BY <2>1, <2>2 DEF x
<1>7. /\ EntryOf(c) \in Int /\ 0 <= EntryOf(c) /\ Span(c).entry <= EntryOf(c)
      /\ EntryOf(c) < Span(c).exit
  BY <1>1, <1>5, <1>6
<1>8. \A i \in Moving : InAt(from, b, i) <= EntryOf(c) /\ EntryOf(c) < OutAt(from, b, i)
  BY <1>5, <1>7
<1>9. WithinAt(from, b, EntryOf(c))
  BY <1>4, <1>5, <1>7, <1>8 DEF WithinAt
<1> QED BY <1>1, <1>4, <1>7, <1>8, <1>9 DEF chunk, from, b

\* A point of the ray is carried by itself.
LEMMA PointsAreCarried ==
  ASSUME Asked, NEW from \in [Axes -> Int], NEW t \in Int
  PROVE  Carried(from, PointAt(from, t), t)
BY PointIsInt DEF Carried

\* What is known of a march that is under way.
LEMMA UnderIs ==
  ASSUME Asked, NEW m, Under(m)
  PROVE  /\ m.busy /\ Listed(m.chunk) /\ WellMade(scene[m.chunk]) /\ m.t \in Int /\ m.p \in [Axes -> Int]
         /\ From(scene[m.chunk]) \in [Axes -> Int]
         /\ IsNode(scene[m.chunk], m.here) /\ m.stack \in Seq(Nodes(scene[m.chunk])) /\ m.left \in Int
         /\ IsBox(m.here) /\ WithinAt(From(scene[m.chunk]), m.here, m.t)
<1>1. /\ m.busy /\ Listed(m.chunk) /\ m.t \in Int /\ m.p \in [Axes -> Int]
      /\ m.here \in Nodes(scene[m.chunk]) /\ m.stack \in Seq(Nodes(scene[m.chunk])) /\ m.left \in Int
  BY DEF Under, MarchOf
<1>2. WellMade(scene[m.chunk]) /\ From(scene[m.chunk]) \in [Axes -> Int]
  BY <1>1, ChunksAreGrown DEF WellMade
<1>3. IsNode(scene[m.chunk], m.here)
  BY <1>1, NodesAreNodes
<1>4. IsBox(m.here)
  BY <1>2, <1>3, NodesAreBoxed
<1>5. WithinAt(From(scene[m.chunk]), m.here, m.t)
  BY <1>1, <1>2, <1>4, CarriedIsWithin DEF Under
<1> QED BY <1>1, <1>2, <1>3, <1>4, <1>5

\* The root is a box and a node.
LEMMA RootIsBoxed ==
  ASSUME NEW chunk, WellMade(chunk)
  PROVE  IsBox(Root(chunk)) /\ Root(chunk) \in Nodes(chunk)
BY RootIsNode, NodesAreBoxed, NodesAreNodes

\* What a skip leaves: nothing, or the march at its landing.
Skipped(m, b, next, n) ==
  /\ Lands(From(scene[m.chunk]), b, m.t, next)
  /\ \/ n = Idle /\ ~Holds(Root(scene[m.chunk]), next.p)
     \/ /\ Under(n) /\ n.chunk = m.chunk /\ n.t = next.t /\ n.p = next.p /\ n.left = m.left - 1

\* After a skip the march is over, or under way where the skip landed.
LEMMA SkipCases ==
  ASSUME Asked, Under(march), NEW b, IsNode(Chunk, b), Holds(b, march.p), SkipPast(b)
  PROVE  Skipped(march, b, ExitOf(b), march')
<1> DEFINE next == ExitOf(b)
           onward == [march EXCEPT !.t = next.t, !.p = next.p, !.left = @ - 1]
           back == {n \in DOMAIN march.stack : Holds(march.stack[n], next.p)}
           c == march.chunk
<1>1. /\ march.busy /\ Listed(c) /\ WellMade(Chunk) /\ march.t \in Int /\ march.p \in [Axes -> Int]
      /\ From(Chunk) \in [Axes -> Int] /\ march.here \in Nodes(Chunk)
      /\ march.stack \in Seq(Nodes(Chunk)) /\ march.left \in Int /\ Moving # {}
      /\ Carried(From(Chunk), march.p, march.t) /\ 0 <= march.t
      /\ AtRoot(Chunk, march)
  BY UnderIs, NodesAreNodes DEF Chunk, Under
<1>2. IsBox(b)
  BY <1>1, NodesAreBoxed
<1>3. WithinAt(From(Chunk), b, march.t)
  BY <1>1, <1>2, CarriedIsWithin
<1>4. Lands(From(Chunk), b, march.t, next)
  BY <1>1, <1>2, <1>3, SkipLands
<1>5. next.t \in Int /\ march.t <= next.t /\ Carried(From(Chunk), next.p, next.t) /\ next.p \in [Axes -> Int]
  BY <1>4 DEF Lands, Carried
<1>6. 0 <= next.t
  BY <1>1, <1>5
<1>7. march \in MarchOf(c) /\ scene[c] = Chunk
  BY DEF Under, Chunk
<1>8. IF Holds(march.here, next.p) THEN march' = onward
      ELSE IF back = {} THEN march' = Idle
      ELSE \E n \in back : /\ \A k \in back : k <= n
                           /\ march' = [onward EXCEPT !.here = march.stack[n],
                                                     !.stack = SubSeq(@, 1, n - 1)]
  BY DEF SkipPast
<1> HIDE DEF next
<1>9. CASE Holds(march.here, next.p)
  <2>1. march' = onward
    BY <1>8, <1>9
  <2>2. /\ march' \in MarchOf(c) /\ march'.chunk = c /\ march'.t = next.t /\ march'.p = next.p
        /\ march'.left = march.left - 1 /\ march'.here = march.here /\ march'.stack = march.stack
    <3>1. /\ march'.chunk = c /\ march'.t = next.t /\ march'.p = next.p /\ march'.busy = TRUE
          /\ march'.left = march.left - 1 /\ march'.here = march.here /\ march'.stack = march.stack
          /\ march' = [busy |-> TRUE, chunk |-> c, t |-> next.t, p |-> next.p, here |-> march.here,
                       stack |-> march.stack, left |-> march.left - 1]
      BY <1>7, <2>1 DEF MarchOf
    <3> QED BY <1>1, <1>5, <1>7, <3>1 DEF MarchOf
  <2> HIDE DEF onward
  <2>3. AtRoot(Chunk, march')
    BY <1>1, <2>2 DEF AtRoot
  <2>4. Under(march')
    BY <1>1, <1>5, <1>6, <1>7, <1>9, <2>2, <2>3 DEF Under
  <2> QED BY <1>4, <1>7, <2>2, <2>4 DEF Skipped, next
<1>10. CASE ~Holds(march.here, next.p) /\ back = {}
  <2>1. march' = Idle
    BY <1>8, <1>10
  <2>2. ~Holds(Root(Chunk), next.p)
    <3>1. CASE march.stack = <<>>
      BY <1>1, <1>10, <3>1 DEF AtRoot
    <3>2. CASE march.stack # <<>>
      <4>1. 1 \in DOMAIN march.stack /\ march.stack[1] = Root(Chunk)
        BY <1>1, <3>2 DEF AtRoot
      <4> QED BY <1>10, <4>1
    <3> QED BY <3>1, <3>2
  <2> QED BY <1>4, <1>7, <2>1, <2>2 DEF Skipped, next
<1>11. CASE ~Holds(march.here, next.p) /\ back # {}
  <2>1. PICK n \in back : march' = [onward EXCEPT !.here = march.stack[n],
                                                 !.stack = SubSeq(@, 1, n - 1)]
    BY <1>8, <1>11
  <2>2. n \in DOMAIN march.stack /\ Holds(march.stack[n], next.p) /\ n \in 1..Len(march.stack)
    BY <1>1, <2>1
  <2>3. march.stack[n] \in Nodes(Chunk)
    BY <1>1, <2>2
  <2>4. /\ SubSeq(march.stack, 1, n - 1) \in Seq(Nodes(Chunk))
        /\ Len(SubSeq(march.stack, 1, n - 1)) = n - 1
        /\ n > 1 => SubSeq(march.stack, 1, n - 1)[1] = march.stack[1]
    BY <1>1, <2>2
  <2>5. /\ march' \in MarchOf(c) /\ march'.chunk = c /\ march'.t = next.t /\ march'.p = next.p
        /\ march'.left = march.left - 1 /\ march'.here = march.stack[n]
        /\ march'.stack = SubSeq(march.stack, 1, n - 1)
    <3> DEFINE rest == SubSeq(march.stack, 1, n - 1)
    <3>1. march' = [onward EXCEPT !.here = march.stack[n], !.stack = rest]
      <4>1. onward.stack = march.stack
        BY <1>7 DEF MarchOf
      <4> QED BY <2>1, <4>1
    <3>2. rest \in Seq(Nodes(Chunk))
      BY <2>4
    <3> HIDE DEF rest
    <3>3. /\ march'.chunk = c /\ march'.t = next.t /\ march'.p = next.p /\ march'.busy = TRUE
          /\ march'.left = march.left - 1 /\ march'.here = march.stack[n] /\ march'.stack = rest
          /\ march' = [busy |-> TRUE, chunk |-> c, t |-> next.t, p |-> next.p,
                       here |-> march.stack[n], stack |-> rest, left |-> march.left - 1]
      BY <1>7, <3>1 DEF MarchOf
    <3>4. march' \in MarchOf(c)
      BY <1>1, <1>5, <1>7, <2>3, <3>2, <3>3 DEF MarchOf
    <3> QED BY <3>3, <3>4 DEF rest
  <2> HIDE DEF onward
  <2>6. AtRoot(Chunk, march')
    <3>1. march.stack # <<>> /\ march.stack[1] = Root(Chunk)
      BY <1>1, <2>2 DEF AtRoot
    <3>2. n = 1 \/ n > 1
      BY <2>2
    <3>3. CASE n = 1
      <4>1. march'.stack = <<>>
        BY <1>1, <2>5, <3>3
      <4> QED BY <2>5, <3>1, <3>3, <4>1 DEF AtRoot
    <3>4. CASE n > 1
      <4>1. march'.stack # <<>>
        <5>1. Len(march'.stack) > 0
          BY <2>2, <2>4, <2>5, <3>4
        <5> QED BY <5>1
      <4> QED BY <2>4, <2>5, <3>1, <3>4, <4>1 DEF AtRoot
    <3> QED BY <3>2, <3>3, <3>4
  <2>7. Under(march')
    BY <1>1, <1>5, <1>6, <1>7, <2>2, <2>5, <2>6 DEF Under
  <2> QED BY <1>4, <1>7, <2>5, <2>7 DEF Skipped, next
<1> QED BY <1>9, <1>10, <1>11

\* Nor does which chunks are met, or what a march that is under way is.
LEMMA ChunksRest ==
  ASSUME UNCHANGED queryVars
  PROVE  /\ Intersected' = Intersected /\ \A c : EntryOf(c)' = EntryOf(c)
         /\ \A m : Under(m)' <=> Under(m)
<1>1. /\ Moving' = Moving /\ MaxT' = MaxT /\ scene' = scene /\ ray' = ray
      /\ \A chunk : From(chunk)' = From(chunk)
      /\ \A a, p, t : Carried(a, p, t)' <=> Carried(a, p, t)
      /\ \A b, p : Holds(b, p)' <=> Holds(b, p)
  BY QueryRests DEF queryVars
<1>2. \A a, b : Interval(a, b)' = Interval(a, b)
  <2>1. Unit' = Unit
    BY <1>1 DEF Unit, Scale
  <2> QED BY <1>1, <2>1 DEF Interval, Crossing
<1>3. \A a, b : Meets(a, b)' <=> Meets(a, b)
  BY <1>1, <1>2 DEF Meets
<1>4. \A c : Span(c)' = Span(c)
  BY <1>1, <1>2 DEF Span
<1>5. Intersected' = Intersected
  BY <1>1, <1>3, <1>4 DEF Intersected
<1>6. \A c : EntryOf(c)' = EntryOf(c)
  BY <1>4 DEF EntryOf
<1>7. \A m : Under(m)' <=> Under(m)
  BY <1>1 DEF Under, Listed, MarchOf
<1> QED BY <1>5, <1>6, <1>7

\* A node that is neither air nor solid is not a voxel.
LEMMA InteriorHasChildren ==
  ASSUME Asked, Under(march), Interior
  PROVE  \E k \in 1..Chunk.depth : \E n \in [Axes -> Nat] :
           /\ IsNodeAt(Chunk, march.here, k, n)
           /\ OctantNow \in 0..7
           /\ Holds(Child(march.here, OctantNow), march.p)
           /\ IsNodeAt(Chunk, Child(march.here, OctantNow), k - 1, HalfOfPlace(n, OctantNow))
           /\ HalfOf(Chunk, march.here, OctantNow, k)
           /\ IsNode(Chunk, Child(march.here, OctantNow))
<1>1. WellMade(Chunk) /\ march.p \in [Axes -> Int] /\ IsNode(Chunk, march.here) /\ Holds(march.here, march.p)
  BY UnderIs DEF Chunk, Under
<1>2. PICK k \in 0..Chunk.depth, n \in [Axes -> Nat] : IsNodeAt(Chunk, march.here, k, n)
  BY <1>1 DEF IsNode
<1>3. k # 0
  BY <1>1, <1>2, VoxelsAreLeaves DEF Interior
<1>4. k \in 1..Chunk.depth /\ k > 0 /\ k - 1 \in 0..Chunk.depth
  BY <1>1, <1>2, <1>3 DEF WellMade
<1>5. OctantNow \in 0..7 /\ Holds(Child(march.here, OctantNow), march.p)
  BY <1>1, <1>2, <1>4, OctantHoldsPoint
<1>6. /\ IsNodeAt(Chunk, Child(march.here, OctantNow), k - 1, HalfOfPlace(n, OctantNow))
      /\ HalfOf(Chunk, march.here, OctantNow, k)
  BY ONLY <1>1, <1>2, <1>4, <1>5, ChildOfNode
<1>7. IsNode(Chunk, Child(march.here, OctantNow))
  BY <1>4, <1>6 DEF IsNode, IsNodeAt
<1> QED BY <1>2, <1>4, <1>5, <1>6, <1>7

\* One frame deeper, if the stack has room.
Deeper(m, b, n) ==
  /\ Under(n) /\ n.chunk = m.chunk /\ n.t = m.t /\ n.p = m.p /\ n.left = m.left - 1 /\ n.here = b
  /\ n.stack = IF Len(m.stack) < limits.frames THEN Append(m.stack, m.here) ELSE m.stack

\* After a descent the march is in the child that holds its point.
LEMMA DescendCases ==
  ASSUME Asked, Under(march), Descend
  PROVE  Deeper(march, Child(march.here, OctantNow), march')
<1> DEFINE b == Child(march.here, OctantNow)
           c == march.chunk
           rest == IF Len(march.stack) < limits.frames THEN Append(march.stack, march.here)
                   ELSE march.stack
<1>1. /\ march.busy /\ Listed(c) /\ WellMade(Chunk) /\ march.t \in Int /\ march.p \in [Axes -> Int]
      /\ march.here \in Nodes(Chunk)
      /\ march.stack \in Seq(Nodes(Chunk)) /\ march.left \in Int /\ Moving # {}
      /\ Carried(From(Chunk), march.p, march.t) /\ 0 <= march.t
      /\ AtRoot(Chunk, march)
  BY UnderIs, NodesAreNodes DEF Chunk, Under
<1>2. march \in MarchOf(c) /\ scene[c] = Chunk
  BY DEF Under, Chunk
<1>3. b \in Nodes(Chunk) /\ Holds(b, march.p)
  BY InteriorHasChildren, NodesAreNodes DEF Descend
<1>4. march' = [march EXCEPT !.stack = rest, !.here = b, !.left = march.left - 1]
  <2>1. march' = [march EXCEPT
          !.stack = IF Len(march.stack) < limits.frames THEN Append(march.stack, march.here)
                    ELSE march.stack,
          !.here = b, !.left = march.left - 1]
    BY <1>2 DEF Descend, MarchOf
  <2> QED BY <2>1
<1>5. limits.frames \in Nat /\ limits.frames > 0
  <2>1. limits.frames \in Nat \ {0}
    BY RayAssumption DEF Asked
  <2> QED BY <2>1
<1>6. rest \in Seq(Nodes(Chunk)) /\ Len(rest) > 0 /\ rest[1] = Root(Chunk)
  <2>1. CASE Len(march.stack) < limits.frames
    <3>1. rest = Append(march.stack, march.here)
      BY <2>1
    <3>2. rest \in Seq(Nodes(Chunk)) /\ Len(rest) > 0
      BY <1>1, <3>1
    <3>3. CASE march.stack = <<>>
      BY <1>1, <3>1, <3>2, <3>3 DEF AtRoot
    <3>4. CASE march.stack # <<>>
      <4>1. rest[1] = march.stack[1]
        BY <1>1, <3>1, <3>4
      <4> QED BY <1>1, <3>2, <3>4, <4>1 DEF AtRoot
    <3> QED BY <3>3, <3>4
  <2>2. CASE ~(Len(march.stack) < limits.frames)
    <3>1. Len(march.stack) > 0 /\ march.stack # <<>>
      BY <1>1, <1>5, <2>2
    <3> QED BY <1>1, <2>2, <3>1 DEF AtRoot
  <2> QED BY <2>1, <2>2
<1>7. rest = IF Len(march.stack) < limits.frames THEN Append(march.stack, march.here) ELSE march.stack
  OBVIOUS
<1> HIDE DEF rest, b
<1>8. /\ march'.chunk = c /\ march'.t = march.t /\ march'.p = march.p /\ march'.busy = TRUE
      /\ march'.left = march.left - 1 /\ march'.here = b /\ march'.stack = rest
      /\ march' = [busy |-> TRUE, chunk |-> c, t |-> march.t, p |-> march.p, here |-> b,
                   stack |-> rest, left |-> march.left - 1]
  BY <1>2, <1>4 DEF MarchOf
<1>9. march' \in MarchOf(c)
  BY <1>1, <1>2, <1>3, <1>6, <1>8 DEF MarchOf
<1>10. AtRoot(Chunk, march')
  BY <1>6, <1>8 DEF AtRoot
<1>11. Under(march')
  BY <1>1, <1>2, <1>3, <1>8, <1>9, <1>10 DEF Under
<1> QED BY <1>7, <1>8, <1>11 DEF Deeper, b

\* The budget that is estimated is for every plane on every level.
LEMMA BudgetIs ==
  ASSUME Asked, NEW c, Listed(c)
  PROVE  /\ Estimated(scene[c]) = (3 * Width(scene[c].depth) + 1) * (scene[c].depth + 1) + 16
         /\ StepBudget(scene[c]) \in Int
         /\ limits.steps >= Estimated(scene[c]) => StepBudget(scene[c]) >= Estimated(scene[c])
<1> DEFINE chunk == scene[c]
           d == chunk.depth
           w == Width(d)
           e == Estimated(chunk)
<1>1. WellMade(chunk)
  BY ChunksAreGrown
<1>2. d \in Nat /\ w \in Nat /\ w > 0 /\ chunk.voxelSize \in Nat /\ chunk.voxelSize > 0
      /\ chunk.worldSize = chunk.voxelSize * w
  <2>1. d \in Nat /\ d \in 0..d
    BY <1>1 DEF WellMade
  <2> QED BY <1>1, <2>1 DEF WellMade
<1>3. chunk.worldSize \div chunk.voxelSize = w
  BY <1>2, QuotientOfProduct
<1>4. Max({chunk.worldSize \div chunk.voxelSize, 2 ^ d}) = w
  <2>1. w = 2 ^ d
    BY DEF Width
  <2> HIDE DEF w
  <2>2. Max({w, w}) = w
    <3>1. w \in Int
      BY <1>2
    <3> QED BY ONLY <3>1, MinMaxOfTwo
  <2> QED BY <1>3, <2>1, <2>2
<1>5. e = (3 * w + 1) * (d + 1) + 16
  BY <1>4 DEF Estimated
<1>6. e \in Int
  <2> HIDE DEF e, d, w
  <2> QED BY <1>2, <1>5
<1>7. limits.steps \in Int
  <2>1. limits.steps \in Nat \ {0}
    BY RayAssumption DEF Asked
  <2> QED BY <2>1
<1> DEFINE x == Max({e, MinSteps})
           y == Min({x, limits.steps})
<1>8. y = StepBudget(chunk)
  BY DEF StepBudget
<1>9. x \in Int /\ e <= x
  <2>1. 160 \in Int /\ MinSteps = 160
    BY DEF MinSteps
  <2> HIDE DEF e
  <2>2. Max({e, MinSteps}) = IF e <= MinSteps THEN MinSteps ELSE e
    BY ONLY <1>6, <2>1, MinMaxOfTwo
  <2> QED BY <1>6, <2>1, <2>2
<1> HIDE DEF x
<1>10. y = IF x <= limits.steps THEN x ELSE limits.steps
  BY ONLY <1>7, <1>9, MinMaxOfTwo
<1> HIDE DEF y, e
<1>11. y \in Int /\ (limits.steps >= e => y >= e)
  BY <1>6, <1>7, <1>9, <1>10
<1> QED BY <1>5, <1>8, <1>11 DEF e

\* A march begins at the root, where the chunk is entered.
Entered(c, m) ==
  /\ Under(m) /\ m.chunk = c /\ m.t = EntryOf(c) /\ m.p = PointAt(From(scene[c]), EntryOf(c))
  /\ m.here = Root(scene[c]) /\ m.stack = <<>> /\ m.left = StepBudget(scene[c])

\* A march that begins is at the root, with nothing on the stack.
LEMMA EnterCases ==
  ASSUME Asked, NEW c \in Intersected,
         march' = [busy |-> TRUE, chunk |-> c, t |-> EntryOf(c),
                   p |-> PointAt(From(scene[c]), EntryOf(c)),
                   here |-> Root(scene[c]), stack |-> <<>>, left |-> StepBudget(scene[c])]
  PROVE  Entered(c, march')
<1> DEFINE from == From(scene[c])
           p == PointAt(from, EntryOf(c))
<1>1. /\ Listed(c) /\ Moving # {} /\ EntryOf(c) \in Int /\ 0 <= EntryOf(c)
      /\ WithinAt(from, Root(scene[c]), EntryOf(c))
  BY EntersWithin
<1>2. WellMade(scene[c])
  BY <1>1, ChunksAreGrown
<1>3. from \in [Axes -> Int] /\ IsBox(Root(scene[c])) /\ Root(scene[c]) \in Nodes(scene[c])
  BY <1>2, RootIsBoxed DEF WellMade
<1> HIDE DEF from
<1>4. p \in [Axes -> Int] /\ Carried(from, p, EntryOf(c)) /\ Holds(Root(scene[c]), p)
  BY <1>1, <1>3, PointIsInt, PointsAreCarried, WithinHolds
<1>5. StepBudget(scene[c]) \in Int
  BY <1>1, BudgetIs
<1>6. march' = [busy |-> TRUE, chunk |-> c, t |-> EntryOf(c), p |-> p,
                here |-> Root(scene[c]), stack |-> <<>>, left |-> StepBudget(scene[c])]
  BY DEF from
<1> HIDE DEF p
<1>7. /\ march'.chunk = c /\ march'.t = EntryOf(c) /\ march'.p = p
      /\ march'.here = Root(scene[c]) /\ march'.stack = <<>> /\ march'.left = StepBudget(scene[c])
  BY <1>6
<1>8. march' \in MarchOf(c)
  BY <1>1, <1>3, <1>4, <1>5, <1>6 DEF MarchOf
<1>9. Under(march')
  BY <1>1, <1>4, <1>7, <1>8 DEF Under, AtRoot, from
<1> QED BY <1>7, <1>9 DEF Entered, from, p

\* Every step keeps marches in nodes that hold their points.
LEMMA RayTypeStep ==
  ASSUME RayTypeOK, [RayNext]_rayVars
  PROVE  RayTypeOK'
<1>1. UNCHANGED queryVars
  BY DEF rayVars, RayNext, Ask, Enter, Answer, OutOfReach, Indeterminate, Hit, SkipLeaf, SkipOctant,
         Descend, Leave
<1>2. /\ Asked /\ Asked' /\ Intersected' = Intersected /\ query' = query
      /\ \A m : Under(m)' <=> Under(m)
  BY <1>1, QueryRests, ChunksRest DEF RayTypeOK
<1>3. /\ answer \in {"asked", "open", "hit", "clear"} /\ ahead \subseteq Intersected
      /\ answer # "open" => march = Idle
      /\ answer = "asked" \/ query = "occluded" => closest = None
      /\ march = Idle \/ Under(march)
  BY DEF RayTypeOK, Phases, MarchOK
<1>4. SUFFICES /\ answer' \in {"asked", "open", "hit", "clear"} /\ ahead' \subseteq Intersected
               /\ answer' # "open" => march' = Idle
               /\ answer' = "asked" \/ query = "occluded" => closest' = None
               /\ march' = Idle \/ Under(march')
  BY <1>2 DEF RayTypeOK, Phases, MarchOK
<1>5. march.busy => Under(march)
  BY <1>3 DEF Idle
<1>6. CASE Ask
  BY <1>3, <1>6 DEF Ask
<1>7. CASE Enter
  <2>1. PICK c \in ahead :
          /\ march' = [busy |-> TRUE, chunk |-> c, t |-> EntryOf(c),
                       p |-> PointAt(From(scene[c]), EntryOf(c)),
                       here |-> Root(scene[c]), stack |-> <<>>, left |-> StepBudget(scene[c])]
          /\ ahead' = ahead \ {c}
    BY <1>7 DEF Enter
  <2>2. c \in Intersected
    BY <1>3
  <2>3. Entered(c, march')
    BY ONLY <1>2, <2>1, <2>2, EnterCases
  <2>4. Under(march')
    BY <2>3 DEF Entered
  <2> QED BY <1>3, <1>7, <2>1, <2>4 DEF Enter
<1>8. CASE Answer
  <2>1. march = Idle
    BY <1>3, <1>5, <1>8, UnderIs, <1>2 DEF Answer
  <2> QED BY <1>3, <1>8, <2>1 DEF Answer
<1>9. CASE OutOfReach
  BY <1>3, <1>9 DEF OutOfReach, Leave, Marching
<1>10. CASE Indeterminate
  BY <1>3, <1>10 DEF Indeterminate, Leave, Marching
<1>11. CASE Hit
  BY <1>3, <1>11 DEF Hit, Leave, Turning, Marching
<1>12. CASE SkipLeaf \/ SkipOctant
  <2>1. /\ answer = "open" /\ march.busy
        /\ ahead' = ahead /\ closest' = closest /\ answer' = answer
    BY <1>12 DEF SkipLeaf, SkipOctant, Interior, Turning, Marching
  <2>2. Under(march)
    BY <1>5, <2>1
  <2>3. march' = Idle \/ Under(march')
    <3>1. CASE SkipLeaf
      <4>1. IsNode(Chunk, march.here) /\ Holds(march.here, march.p) /\ SkipPast(march.here)
        BY <1>2, <2>2, <3>1, UnderIs DEF SkipLeaf, Under, Chunk
      <4>2. Skipped(march, march.here, ExitOf(march.here), march')
        BY <1>2, <2>2, <4>1, SkipCases
      <4> QED BY <4>2 DEF Skipped
    <3>2. CASE SkipOctant
      <4> DEFINE b == Child(march.here, OctantNow)
      <4>1. IsNode(Chunk, b) /\ Holds(b, march.p) /\ SkipPast(b)
        BY <1>2, <2>2, <3>2, InteriorHasChildren DEF SkipOctant
      <4> HIDE DEF b
      <4>2. Skipped(march, b, ExitOf(b), march')
        BY <1>2, <2>2, <4>1, SkipCases
      <4> QED BY <4>2 DEF Skipped
    <3> QED BY <1>12, <3>1, <3>2
  <2> QED BY <1>3, <2>1, <2>3
<1>13. CASE Descend
  <2>1. Under(march) /\ ahead' = ahead /\ closest' = closest /\ answer' = answer /\ answer = "open"
    BY <1>5, <1>13 DEF Descend, Interior, Turning, Marching
  <2>2. Under(march')
    BY <1>2, <1>13, <2>1, DescendCases DEF Deeper
  <2> QED BY <1>3, <2>1, <2>2
<1>14. CASE UNCHANGED rayVars
  BY <1>3, <1>14 DEF rayVars
<1> QED BY <1>6, <1>7, <1>8, <1>9, <1>10, <1>11, <1>12, <1>13, <1>14 DEF RayNext

\* Every march has a root, a box that holds its point, and a stack of boxes.
THEOREM MarchesAreRooted == RaySpec => []RayTypeOK
<1>1. RayInit => RayTypeOK
  BY DEF RayInit, RayTypeOK, Asked, Phases, MarchOK
<1>2. RayTypeOK /\ [RayNext]_rayVars => RayTypeOK'
  BY RayTypeStep
<1> QED BY <1>1, <1>2, PTL DEF RaySpec

-----------------------------------------------------------------------------
(* What every query finds.                                                 *)

Struck(s) == s \in SolidBoxes /\ Pierces(s) /\ EnteredAt(s) < MaxT
Blocks(s) ==
  LET from == From(scene[s[1]])
  IN  /\ Meets(from, BoxOf(s)) /\ Interval(from, BoxOf(s)).exit >= 0
      /\ Interval(from, BoxOf(s)).entry <= MaxT
KindOf(s) == scene[s[1]].solids[s[2]]
Sure == Intact \/ query = "occluded"

\* A march has passed no solid, and every solid waits in a chunk that is not
\* left yet or is not nearer than what was found.
NothingPassed == march.busy => \A s : Struck(s) /\ s[1] = march.chunk => march.t <= EnteredAt(s)
Found(s) == closest.found /\ closest.t <= EnteredAt(s)
AllWait ==
  answer = "open" /\ Sure =>
    \A s : Struck(s) => s[1] \in ahead \/ (march.busy /\ march.chunk = s[1]) \/ Found(s)
ClosestOK ==
  closest.found =>
    /\ closest.t \in Int /\ closest.t <= MaxT
    /\ \E s \in SolidBoxes : Touches(s, closest.t) /\ KindOf(s) = closest.voxelType
ClearOK == answer = "clear" /\ Sure => \A s : ~Struck(s)
BlockedOK == answer = "hit" /\ Intact /\ query = "occluded" => \E s \in SolidBoxes : Blocks(s)
NearestOK == answer = "hit" /\ closest.found /\ Intact => \A s : Struck(s) => closest.t <= EnteredAt(s)

RayInv == NothingPassed /\ AllWait /\ ClosestOK /\ ClearOK /\ BlockedOK /\ NearestOK

\* Work does not run out.
Budgeted == Intact /\ march.busy => march.left > 0

\* Nor does which solids are struck, and when.
LEMMA StruckRests ==
  ASSUME UNCHANGED queryVars
  PROVE  /\ \A s : Struck(s)' <=> Struck(s)
         /\ \A s : Blocks(s)' <=> Blocks(s)
         /\ \A s : KindOf(s)' = KindOf(s)
         /\ Sure' = Sure
<1>1. /\ Moving' = Moving /\ MaxT' = MaxT /\ scene' = scene /\ ray' = ray /\ query' = query
      /\ SolidBoxes' = SolidBoxes /\ Intact' = Intact
      /\ \A chunk : From(chunk)' = From(chunk)
      /\ \A s : (Pierces(s)' <=> Pierces(s)) /\ EnteredAt(s)' = EnteredAt(s)
  BY QueryRests DEF queryVars
<1>2. \A a, b : Interval(a, b)' = Interval(a, b)
  <2>1. Unit' = Unit
    BY <1>1 DEF Unit, Scale
  <2> QED BY <1>1, <2>1 DEF Interval, Crossing
<1>3. \A a, b : Meets(a, b)' <=> Meets(a, b)
  BY <1>1, <1>2 DEF Meets
<1>4. \A s : BoxOf(s)' = BoxOf(s)
  BY <1>1 DEF BoxOf
<1>5. \A s : Struck(s)' <=> Struck(s)
  BY <1>1 DEF Struck
<1>6. \A s : Blocks(s)' <=> Blocks(s)
  BY <1>1, <1>2, <1>3, <1>4 DEF Blocks
<1>7. \A s : KindOf(s)' = KindOf(s)
  BY <1>1 DEF KindOf
<1>8. Sure' = Sure
  BY <1>1 DEF Sure
<1> QED BY <1>5, <1>6, <1>7, <1>8

\* A solid that is struck is in a chunk that is met, no earlier than that chunk.
LEMMA StruckIs ==
  ASSUME Asked, NEW s, Struck(s)
  PROVE  /\ s \in SolidBoxes /\ Pierces(s) /\ EnteredAt(s) \in Int /\ 0 <= EnteredAt(s)
         /\ EnteredAt(s) < MaxT /\ MaxT \in Int
         /\ s[1] \in Intersected /\ EntryOf(s[1]) <= EnteredAt(s) /\ EntryOf(s[1]) \in Int
<1>1. s \in SolidBoxes /\ Pierces(s) /\ EnteredAt(s) < MaxT
  BY DEF Struck
<1>2. EnteredAt(s) \in Int /\ 0 <= EnteredAt(s)
  BY <1>1, PiercedAreSpanned DEF Spanned
<1>3. s[1] \in Intersected /\ EntryOf(s[1]) <= EnteredAt(s)
  BY <1>1, PiercedPassChunk
<1>4. EntryOf(s[1]) \in Int /\ MaxT \in Int
  BY <1>3, EntersWithin, UnitIsShared
<1> QED BY <1>1, <1>2, <1>3, <1>4

\* A march that skips air passes no solid, and leaves none behind in its chunk.
LEMMA SkipPassesNothing ==
  ASSUME Asked, Under(march), NEW b, IsNode(Chunk, b), IsAirNode(Chunk, b), Holds(b, march.p),
         NEW next, Skipped(march, b, next, march'),
         NEW s, Struck(s), s[1] = march.chunk, march.t <= EnteredAt(s)
  PROVE  march' # Idle /\ next.t <= EnteredAt(s)
<1>1. /\ Listed(march.chunk) /\ WellMade(Chunk) /\ From(Chunk) \in [Axes -> Int]
      /\ march.t \in Int /\ scene[s[1]] = Chunk /\ Carried(From(Chunk), march.p, march.t)
  BY UnderIs DEF Chunk, Under
<1>2. /\ s \in SolidBoxes /\ Pierces(s) /\ EnteredAt(s) \in Int
  BY StruckIs
<1>3. IsBox(b) /\ \A i \in Axes : 0 <= b.lo[i] /\ b.hi[i] <= Chunk.worldSize
  BY <1>1, NodesAreBoxed
<1>4. WithinAt(From(Chunk), b, march.t)
  BY <1>1, <1>3, CarriedIsWithin
<1>5. Lands(From(Chunk), b, march.t, next)
  BY <1>1 DEF Skipped, Chunk
<1>6. next.t <= EnteredAt(s)
  BY <1>1, <1>2, <1>4, <1>5, SkipsMissNothing
<1>7. ASSUME march' = Idle PROVE FALSE
  <2> DEFINE r == Root(Chunk)
             from == From(Chunk)
             a == BoxOf(s)
             e == EnteredAt(s)
  <2>1. ~Holds(r, next.p)
    <3>1. ~Under(Idle)
      BY <1>1, UnderIs DEF Idle
    <3> QED BY <1>7, <3>1 DEF Skipped, Chunk
  <2>2. IsBox(r) /\ \A i \in Axes : r.lo[i] = 0 /\ r.hi[i] = Chunk.worldSize
    BY <1>1, RootIsBoxed, RootIsNode
  <2>3. PICK i \in Moving : OutAt(from, r, i) = next.t
    <3>1. \A i \in Axes : r.lo[i] <= b.lo[i] /\ b.hi[i] <= r.hi[i]
      BY <1>3, <2>2
    <3> HIDE DEF r, from
    <3> QED BY <1>1, <1>3, <1>5, <2>1, <2>2, <3>1, LeftForGood DEF from
  <2>4. /\ a = VoxelCube(Chunk, s[2]) /\ s[2] \in DOMAIN Chunk.solids
        /\ OutAt(from, a, i) \in Int /\ e < OutAt(from, a, i) /\ Moving # {}
    BY <1>1, <1>2, PiercedAreSpanned DEF Spanned
  <2>5. IsBox(a) /\ \A j \in Axes : 0 <= a.lo[j] /\ a.hi[j] <= Chunk.worldSize
    BY <1>1, <2>4, VoxelsAreBoxed
  <2>6. i \in Axes
    BY DEF Moving
  <2>7. next.t \in Int
    BY <1>5 DEF Lands
  <2>8. OutAt(from, a, i) <= OutAt(from, r, i)
    <3>1. /\ a.lo[i] \in Int /\ a.hi[i] \in Int /\ r.lo[i] \in Int /\ r.hi[i] \in Int
          /\ r.lo[i] <= a.lo[i] /\ a.hi[i] <= r.hi[i]
      BY <2>2, <2>5, <2>6 DEF IsBox
    <3> HIDE DEF r, from, a
    <3>2. CASE Forward(i)
      <4>1. OutAt(from, a, i) = Crossing(from, i, a.hi[i]) /\ OutAt(from, r, i) = Crossing(from, i, r.hi[i])
        BY <3>2 DEF OutAt, ExitPlane, Forward
      <4>2. Crossing(from, i, a.hi[i]) <= Crossing(from, i, r.hi[i]) <=> a.hi[i] <= r.hi[i]
        BY <1>1, <3>1, <3>2, CrossingsInOrder DEF from
      <4> QED BY <3>1, <4>1, <4>2
    <3>3. CASE ~Forward(i)
      <4>1. OutAt(from, a, i) = Crossing(from, i, a.lo[i]) /\ OutAt(from, r, i) = Crossing(from, i, r.lo[i])
        BY <3>3 DEF OutAt, ExitPlane, Forward
      <4>2. Crossing(from, i, a.lo[i]) <= Crossing(from, i, r.lo[i]) <=> r.lo[i] <= a.lo[i]
        BY <1>1, <3>1, <3>3, CrossingsInOrder DEF from
      <4> QED BY <3>1, <4>1, <4>2
    <3> QED BY <3>2, <3>3
  <2> QED BY <1>2, <1>6, <2>3, <2>4, <2>7, <2>8
<1> QED BY <1>6, <1>7

\* A march at a solid touches a voxel of it, of its kind.
LEMMA HitTouches ==
  ASSUME Asked, Under(march), march.t <= MaxT, IsSolidNode(Chunk, march.here)
  PROVE  \E s \in SolidBoxes :
           /\ Touches(s, march.t) /\ Blocks(s)
           /\ KindOf(s) = CHOOSE k \in VoxelTypes(Chunk, march.here) : TRUE
<1>1. /\ Listed(march.chunk) /\ WellMade(Chunk) /\ From(Chunk) \in [Axes -> Int] /\ march.t \in Int
      /\ 0 <= march.t /\ Moving # {}
      /\ IsNode(Chunk, march.here) /\ WithinAt(From(Chunk), march.here, march.t) /\ Chunk = scene[march.chunk]
  BY UnderIs DEF Chunk, Under
<1>2. PICK v \in SolidsIn(Chunk, march.here) : Holds(VoxelCube(Chunk, v), PointAt(From(Chunk), march.t))
  BY <1>1, SolidIsTouched
<1> DEFINE s == <<march.chunk, v>>
           b == VoxelCube(Chunk, v)
           from == From(Chunk)
<1>3. v \in DOMAIN Chunk.solids
  BY DEF SolidsIn
<1>4. s \in SolidBoxes /\ BoxOf(s) = b /\ scene[s[1]] = Chunk
  BY <1>1, <1>3 DEF SolidBoxes, BoxOf, Listed
<1>5. IsBox(b)
  BY <1>1, <1>3, VoxelsAreBoxed
<1> HIDE DEF b, s, from
<1>6. WithinAt(from, b, march.t)
  BY <1>1, <1>2, <1>5, WithinHolds DEF from, b
<1>7. /\ Interval(from, b).entry \in Int /\ Interval(from, b).exit \in Int
      /\ Interval(from, b).entry <= march.t /\ march.t <= Interval(from, b).exit
  <2>1. /\ Interval(from, b).entry \in Int /\ Interval(from, b).exit \in Int
        /\ \E i \in Moving : Interval(from, b).entry = InAt(from, b, i)
        /\ \E i \in Moving : Interval(from, b).exit = OutAt(from, b, i)
    BY <1>1, <1>5, IntervalEnds DEF from
  <2> QED BY <1>6, <2>1 DEF WithinAt
<1>8. Meets(from, b)
  BY <1>1, <1>6, <1>7 DEF Meets, WithinAt
<1>9. MaxT \in Int
  BY UnitIsShared
<1>10. Blocks(s)
  BY <1>1, <1>4, <1>7, <1>8, <1>9 DEF Blocks, from
<1>11. Touches(s, march.t)
  BY <1>2, <1>4 DEF Touches, b
<1>12. KindOf(s) = CHOOSE k \in VoxelTypes(Chunk, march.here) : TRUE
  <2>1. PICK k \in VoxelTypes(Chunk, march.here) : VoxelTypes(Chunk, march.here) = {k}
    BY DEF IsSolidNode
  <2>2. (CHOOSE x \in VoxelTypes(Chunk, march.here) : TRUE) \in VoxelTypes(Chunk, march.here)
    BY <2>1
  <2>3. Chunk.solids[v] \in VoxelTypes(Chunk, march.here)
    BY DEF VoxelTypes
  <2>4. KindOf(s) = Chunk.solids[v]
    BY <1>4 DEF KindOf, s
  <2> QED BY <2>1, <2>2, <2>3, <2>4
<1> QED BY <1>4, <1>10, <1>11, <1>12

\* An action that keeps the answer open and what was found.
LEMMA KeepsLooking ==
  ASSUME RayInv, UNCHANGED queryVars, answer = "open", answer' = "open", closest' = closest,
         NothingPassed', AllWait'
  PROVE  RayInv'
<1>1. /\ MaxT' = MaxT /\ SolidBoxes' = SolidBoxes
      /\ \A s, t : Touches(s, t)' <=> Touches(s, t)
      /\ \A s : KindOf(s)' = KindOf(s)
  BY QueryRests, StruckRests
<1>2. ClosestOK'
  BY <1>1 DEF RayInv, ClosestOK
<1>3. ClearOK' /\ BlockedOK' /\ NearestOK'
  BY DEF ClearOK, BlockedOK, NearestOK
<1> QED BY <1>2, <1>3 DEF RayInv

\* A march that ends with its chunk behind it.
LEMMA LeavesNothing ==
  ASSUME RayInv, UNCHANGED queryVars, answer = "open", answer' = "open", closest' = closest,
         ahead' = ahead, march.busy, march' = Idle,
         \A s : Struck(s) => s[1] # march.chunk
  PROVE  RayInv'
<1>1. /\ \A s : (Struck(s)' <=> Struck(s)) /\ EnteredAt(s)' = EnteredAt(s)
      /\ Sure' = Sure
  BY QueryRests, StruckRests
<1>2. NothingPassed'
  BY DEF NothingPassed, Idle
<1>3. AllWait'
  BY <1>1 DEF RayInv, AllWait, Found
<1> QED BY <1>2, <1>3, KeepsLooking

\* The question puts every chunk that is met ahead.
LEMMA AskStep ==
  ASSUME RayTypeOK, RayInv, UNCHANGED queryVars, Ask
  PROVE  RayInv'
<1>1. /\ \A s : (Struck(s)' <=> Struck(s)) /\ EnteredAt(s)' = EnteredAt(s)
      /\ Asked /\ march = Idle /\ closest = None /\ march' = march /\ closest' = closest
  BY QueryRests, StruckRests DEF RayTypeOK, Phases, Ask
<1>2. NothingPassed'
  BY <1>1 DEF NothingPassed, Idle
<1>3. ClosestOK' /\ NearestOK'
  BY <1>1 DEF ClosestOK, NearestOK, None
<1>4. BlockedOK'
  BY DEF Ask, BlockedOK
<1>5. CASE query = "occluded" /\ ray.maxT <= 0
  <2>1. answer' = "clear"
    BY <1>5 DEF Ask
  <2>2. \A s : ~Struck(s)
    <3> SUFFICES ASSUME NEW s, Struck(s) PROVE FALSE
      OBVIOUS
    <3>1. EnteredAt(s) \in Int /\ 0 <= EnteredAt(s) /\ EnteredAt(s) < MaxT
      BY <1>1, StruckIs
    <3>2. Unit \in Nat /\ ray.maxT \in Int
      BY <1>1, UnitIsShared
    <3>3. MaxT <= 0
      <4> DEFINE u == Unit
                 x == ray.maxT
      <4>1. MaxT = -((-x) * u) /\ (-x) \in Nat /\ u \in Nat
        BY <1>5, <3>2 DEF MaxT
      <4>2. \A y \in Nat, z \in Nat : y * z \in Nat
        OBVIOUS
      <4>3. (-x) * u \in Nat
        BY ONLY <4>1, <4>2
      <4> HIDE DEF u, x
      <4> QED BY <4>1, <4>3
    <3> QED BY <1>1, <3>1, <3>3, UnitIsShared
  <2> QED BY <1>1, <1>2, <1>3, <1>4, <2>1, <2>2 DEF RayInv, ClearOK, AllWait
<1>6. CASE ~(query = "occluded" /\ ray.maxT <= 0)
  <2>1. answer' = "open" /\ ahead' = Intersected
    BY <1>6 DEF Ask
  <2>2. \A s : Struck(s) => s[1] \in Intersected
    BY <1>1, StruckIs
  <2> QED BY <1>1, <1>2, <1>3, <1>4, <2>1, <2>2 DEF RayInv, ClearOK, AllWait
<1> QED BY <1>5, <1>6

\* Entering a chunk passes no solid: one that waited in it is in the march now.
LEMMA EnterStep ==
  ASSUME RayTypeOK, RayInv, UNCHANGED queryVars, Enter
  PROVE  RayInv'
<1>1. /\ \A s : (Struck(s)' <=> Struck(s)) /\ EnteredAt(s)' = EnteredAt(s)
      /\ Sure' = Sure /\ Asked /\ ahead \subseteq Intersected
      /\ answer = "open" /\ answer' = "open" /\ closest' = closest /\ ~march.busy
  BY QueryRests, StruckRests DEF RayTypeOK, Phases, Enter
<1>2. PICK c \in ahead :
        /\ march' = [busy |-> TRUE, chunk |-> c, t |-> EntryOf(c),
                     p |-> PointAt(From(scene[c]), EntryOf(c)),
                     here |-> Root(scene[c]), stack |-> <<>>, left |-> StepBudget(scene[c])]
        /\ ahead' = ahead \ {c}
  BY DEF Enter
<1>3. march'.busy /\ march'.chunk = c /\ march'.t = EntryOf(c)
  BY <1>2
<1>4. NothingPassed'
  BY <1>1, <1>3, StruckIs DEF NothingPassed
<1>5. AllWait'
  BY <1>1, <1>2, <1>3 DEF RayInv, AllWait, Found
<1> QED BY <1>1, <1>4, <1>5, KeepsLooking

\* The answer is what was found closest, when no chunk is left.
LEMMA AnswerStep ==
  ASSUME RayTypeOK, RayInv, UNCHANGED queryVars, Answer
  PROVE  RayInv'
<1>1. /\ \A s : (Struck(s)' <=> Struck(s)) /\ EnteredAt(s)' = EnteredAt(s)
      /\ \A s : KindOf(s)' = KindOf(s)
      /\ \A s, t : Touches(s, t)' <=> Touches(s, t)
      /\ SolidBoxes' = SolidBoxes /\ MaxT' = MaxT /\ query' = query /\ Intact' = Intact
      /\ Sure' = Sure /\ Asked /\ ahead \subseteq Intersected
      /\ answer = "open" /\ closest' = closest /\ ~march.busy /\ march' = march
      /\ answer' = (IF closest.found THEN "hit" ELSE "clear")
  BY QueryRests, StruckRests DEF RayTypeOK, Phases, Answer
<1>2. query = "occluded" => ~closest.found
  BY DEF RayTypeOK, Phases, None
<1>3. ASSUME Sure, NEW s, Struck(s) PROVE Found(s)
  <2>1. s[1] \in ahead \/ Found(s)
    BY <1>1, <1>3 DEF RayInv, AllWait
  <2>2. CASE s[1] \in ahead
    <3>1. PICK c \in ahead : IsNext(c) /\ Settled(c)
      BY <2>2 DEF Answer
    <3>2. closest.found /\ closest.t <= EntryOf(c) /\ query = "front to back" /\ closest.t \in Int
      BY <3>1 DEF Settled, RayInv, ClosestOK
    <3>3. /\ EntryOf(c) \in Int /\ EntryOf(s[1]) \in Int /\ EntryOf(s[1]) <= EnteredAt(s)
          /\ EnteredAt(s) \in Int
      BY <1>1, <1>3, StruckIs, EntersWithin
    <3> DEFINE x == EntryOf(c)
               y == EntryOf(s[1])
               e == EnteredAt(s)
    <3>4. x = y \/ x < y
      <4>1. CASE s[1] # c
        <5>1. Before(c, s[1])
          BY <2>2, <3>1, <4>1 DEF IsNext
        <5>2. x # y => x < y
          BY <3>2, <5>1 DEF Before
        <5> QED BY <5>2
      <4> QED BY <4>1
    <3>5. x \in Int /\ y \in Int /\ e \in Int /\ y <= e /\ closest.t \in Int /\ closest.t <= x
      BY <3>2, <3>3
    <3>6. Found(s) <=> closest.found /\ closest.t <= e
      BY DEF Found
    <3> HIDE DEF x, y, e
    <3>7. closest.t <= e
      BY <3>4, <3>5
    <3> QED BY <3>2, <3>6, <3>7
  <2> QED BY <2>1, <2>2
<1>4. NothingPassed'
  BY <1>1 DEF NothingPassed
<1>5. AllWait'
  BY <1>1 DEF AllWait
<1>6. ClosestOK'
  BY <1>1 DEF RayInv, ClosestOK
<1>7. ClearOK'
  BY <1>1, <1>3 DEF ClearOK, Found
<1>8. BlockedOK'
  BY <1>1, <1>2 DEF BlockedOK
<1>9. NearestOK'
  BY <1>1, <1>3 DEF NearestOK, Found, Sure
<1> QED BY <1>4, <1>5, <1>6, <1>7, <1>8, <1>9 DEF RayInv

\* A march that is farther than the hit or the end of the segment has no nearer
\* solid before it.
LEMMA OutOfReachStep ==
  ASSUME RayTypeOK, RayInv, UNCHANGED queryVars, OutOfReach
  PROVE  RayInv'
<1>1. /\ answer = "open" /\ answer' = "open" /\ closest' = closest /\ ahead' = ahead
      /\ march.busy /\ march' = Idle /\ march.t > MaxT
  BY DEF OutOfReach, Leave, Marching
<1>2. Asked /\ Under(march)
  BY <1>1 DEF RayTypeOK, MarchOK, Idle
<1>3. march.t \in Int
  BY <1>2, UnderIs
<1>4. ASSUME NEW s, Struck(s), s[1] = march.chunk PROVE FALSE
  <2>1. march.t <= EnteredAt(s)
    BY <1>1, <1>4 DEF RayInv, NothingPassed
  <2>2. EnteredAt(s) \in Int /\ EnteredAt(s) < MaxT /\ MaxT \in Int
    BY <1>2, <1>4, StruckIs
  <2> QED BY <1>1, <1>3, <2>1, <2>2
<1> QED BY <1>1, <1>4, LeavesNothing

\* Giving up answers that a segment is blocked, and only damage makes a march give up.
LEMMA IndeterminateStep ==
  ASSUME RayTypeOK, RayInv, Budgeted, UNCHANGED queryVars, Indeterminate
  PROVE  RayInv'
<1>1. /\ \A s : (Struck(s)' <=> Struck(s)) /\ EnteredAt(s)' = EnteredAt(s)
      /\ \A s : KindOf(s)' = KindOf(s)
      /\ \A s, t : Touches(s, t)' <=> Touches(s, t)
      /\ SolidBoxes' = SolidBoxes /\ MaxT' = MaxT /\ query' = query /\ Intact' = Intact
      /\ Sure' = Sure
      /\ answer = "open" /\ closest' = closest /\ march.busy /\ march' = Idle
      /\ answer' = (IF query = "occluded" THEN "hit" ELSE answer)
      /\ march.left = 0 \/ IsLost(Chunk, march.here)
  BY QueryRests, StruckRests DEF Indeterminate, Leave, Marching
<1>2. Under(march) /\ Asked
  BY <1>1 DEF RayTypeOK, MarchOK, Idle
<1>3. ~Intact
  <2> SUFFICES ASSUME Intact PROVE FALSE
    OBVIOUS
  <2>1. march.left > 0
    BY <1>1 DEF Budgeted
  <2>2. Listed(march.chunk)
    BY <1>2, UnderIs
  <2>3. Chunk.lost = {}
    BY <2>2 DEF Intact, Listed, Chunk
  <2> QED BY <1>1, <2>1, <2>3 DEF IsLost
<1>4. NothingPassed'
  BY <1>1 DEF NothingPassed, Idle
<1>5. AllWait'
  BY <1>1, <1>3 DEF AllWait, Sure
<1>6. ClosestOK'
  BY <1>1 DEF RayInv, ClosestOK
<1>7. ClearOK' /\ BlockedOK' /\ NearestOK'
  BY <1>1, <1>3 DEF ClearOK, BlockedOK, NearestOK
<1> QED BY <1>4, <1>5, <1>6, <1>7 DEF RayInv

\* A hit touches a solid, and none before it was passed.
LEMMA HitStep ==
  ASSUME RayTypeOK, RayInv, UNCHANGED queryVars, Hit
  PROVE  RayInv'
<1>1. /\ \A s : (Struck(s)' <=> Struck(s)) /\ EnteredAt(s)' = EnteredAt(s)
      /\ \A s : (Blocks(s)' <=> Blocks(s)) /\ KindOf(s)' = KindOf(s)
      /\ \A s, t : Touches(s, t)' <=> Touches(s, t)
      /\ SolidBoxes' = SolidBoxes /\ MaxT' = MaxT /\ query' = query /\ Intact' = Intact
      /\ Sure' = Sure
      /\ answer = "open" /\ ahead' = ahead /\ march.busy /\ march' = Idle
      /\ march.t <= MaxT /\ IsSolidNode(Chunk, march.here)
  BY QueryRests, StruckRests DEF Hit, Leave, Turning, Marching
<1>2. Under(march) /\ Asked
  BY <1>1 DEF RayTypeOK, MarchOK, Idle
<1>3. march.t \in Int
  BY <1>2, UnderIs
<1> DEFINE kind == CHOOSE k \in VoxelTypes(Chunk, march.here) : TRUE
<1>4. PICK s \in SolidBoxes : Touches(s, march.t) /\ Blocks(s) /\ KindOf(s) = kind
  BY <1>1, <1>2, HitTouches
<1>5. NothingPassed'
  BY <1>1 DEF NothingPassed, Idle
<1>6. CASE query = "occluded"
  <2>1. answer' = "hit" /\ closest' = closest /\ ~closest.found
    BY <1>6 DEF Hit, RayTypeOK, Phases, None
  <2> QED BY <1>1, <1>4, <1>5, <1>6, <2>1
          DEF RayInv, AllWait, ClosestOK, ClearOK, BlockedOK, NearestOK
<1>7. CASE query # "occluded"
  <2>1. /\ answer' = answer
        /\ closest' = IF closest.found /\ closest.t <= march.t THEN closest
                      ELSE [found |-> TRUE, t |-> march.t, voxelType |-> kind]
    BY <1>7 DEF Hit
  <2> HIDE DEF kind
  <2>2. /\ closest'.found /\ closest'.t \in Int /\ closest'.t <= march.t
        /\ closest.found => closest'.t <= closest.t /\ closest.t \in Int
    <3>1. closest.found => closest.t \in Int
      BY DEF RayInv, ClosestOK
    <3> QED BY <1>3, <2>1, <3>1
  <2>3. AllWait'
    <3> SUFFICES ASSUME Sure, NEW r, Struck(r), r[1] \notin ahead
                 PROVE  closest'.t <= EnteredAt(r)
      BY <1>1, <2>2 DEF AllWait, Found
    <3>1. EnteredAt(r) \in Int
      BY <1>2, StruckIs
    <3>2. r[1] = march.chunk \/ Found(r)
      BY <1>1 DEF RayInv, AllWait
    <3>3. CASE r[1] = march.chunk
      <4>1. march.t <= EnteredAt(r)
        BY <1>1, <3>3 DEF RayInv, NothingPassed
      <4> QED BY <1>3, <2>2, <3>1, <4>1
    <3>4. CASE Found(r)
      BY <2>2, <3>1, <3>4 DEF Found
    <3> QED BY <3>2, <3>3, <3>4
  <2>4. ClosestOK'
    BY <1>1, <1>3, <1>4, <2>1 DEF RayInv, ClosestOK
  <2>5. ClearOK' /\ BlockedOK' /\ NearestOK'
    BY <1>1, <2>1 DEF ClearOK, BlockedOK, NearestOK
  <2> QED BY <1>5, <2>3, <2>4, <2>5 DEF RayInv
<1> QED BY <1>6, <1>7

\* A skip passes nothing, since what it skips has no solid in it.
LEMMA SkipStep ==
  ASSUME RayTypeOK, RayInv, UNCHANGED queryVars, SkipLeaf \/ SkipOctant
  PROVE  RayInv'
<1>1. /\ \A s : (Struck(s)' <=> Struck(s)) /\ EnteredAt(s)' = EnteredAt(s)
      /\ Sure' = Sure
      /\ answer = "open" /\ answer' = "open" /\ ahead' = ahead /\ closest' = closest /\ march.busy
  BY QueryRests, StruckRests DEF SkipLeaf, SkipOctant, Interior, Turning, Marching
<1>2. Under(march) /\ Asked
  BY <1>1 DEF RayTypeOK, MarchOK, Idle
<1>3. PICK b : /\ IsNode(Chunk, b) /\ IsAirNode(Chunk, b) /\ Holds(b, march.p) /\ SkipPast(b)
  <2>1. CASE SkipLeaf
    <3>1. IsNode(Chunk, march.here) /\ Holds(march.here, march.p)
      BY <1>2, UnderIs DEF Under, Chunk
    <3> QED BY <2>1, <3>1 DEF SkipLeaf
  <2>2. CASE SkipOctant
    <3> DEFINE b == Child(march.here, OctantNow)
    <3>1. IsNode(Chunk, b) /\ Holds(b, march.p) /\ OctantNow \in 0..7
      BY <1>2, <2>2, InteriorHasChildren DEF SkipOctant
    <3>2. IsAirNode(Chunk, b) /\ SkipPast(b)
      BY <2>2, <3>1 DEF SkipOctant, ChildMask
    <3> QED BY <3>1, <3>2
  <2> QED BY <2>1, <2>2
<1> DEFINE next == ExitOf(b)
<1>4. Skipped(march, b, next, march')
  BY <1>2, <1>3, SkipCases
<1> HIDE DEF next
<1>5. ASSUME NEW s, Struck(s), s[1] = march.chunk
      PROVE  march' # Idle /\ next.t <= EnteredAt(s)
  <2>1. march.t <= EnteredAt(s)
    BY <1>1, <1>5 DEF RayInv, NothingPassed
  <2> QED BY <1>2, <1>3, <1>4, <1>5, <2>1, SkipPassesNothing
<1>6. CASE march' = Idle
  BY <1>1, <1>5, <1>6, LeavesNothing
<1>7. CASE march' # Idle
  <2>1. Under(march') /\ march'.chunk = march.chunk /\ march'.t = next.t
    BY <1>4, <1>7 DEF Skipped
  <2>2. march'.busy
    BY <1>2, <2>1, UnderIs
  <2>3. NothingPassed'
    BY <1>1, <1>5, <2>1 DEF NothingPassed
  <2>4. AllWait'
    BY <1>1, <2>1, <2>2 DEF RayInv, AllWait, Found
  <2> QED BY <1>1, <2>3, <2>4, KeepsLooking
<1> QED BY <1>6, <1>7

\* A descent moves the march nowhere.
LEMMA DescendStep ==
  ASSUME RayTypeOK, RayInv, UNCHANGED queryVars, Descend
  PROVE  RayInv'
<1>1. /\ \A s : (Struck(s)' <=> Struck(s)) /\ EnteredAt(s)' = EnteredAt(s)
      /\ Sure' = Sure
      /\ answer = "open" /\ answer' = "open" /\ ahead' = ahead /\ closest' = closest /\ march.busy
  BY QueryRests, StruckRests DEF Descend, Interior, Turning, Marching
<1>2. Under(march) /\ Asked
  BY <1>1 DEF RayTypeOK, MarchOK, Idle
<1>3. Under(march') /\ march'.chunk = march.chunk /\ march'.t = march.t
  BY <1>2, DescendCases DEF Deeper
<1>4. march'.busy
  BY <1>2, <1>3, UnderIs
<1>5. NothingPassed'
  BY <1>1, <1>3 DEF RayInv, NothingPassed
<1>6. AllWait'
  BY <1>1, <1>3, <1>4 DEF RayInv, AllWait, Found
<1> QED BY <1>1, <1>5, <1>6, KeepsLooking

\* Nor does anything of it where nothing happens.
LEMMA RayRests ==
  ASSUME RayInv, UNCHANGED rayVars
  PROVE  RayInv'
<1>1. UNCHANGED queryVars
  BY DEF rayVars
<1>2. /\ \A s : (Struck(s)' <=> Struck(s)) /\ EnteredAt(s)' = EnteredAt(s)
      /\ \A s : (Blocks(s)' <=> Blocks(s)) /\ KindOf(s)' = KindOf(s)
      /\ \A s, t : Touches(s, t)' <=> Touches(s, t)
      /\ SolidBoxes' = SolidBoxes /\ MaxT' = MaxT /\ query' = query /\ Intact' = Intact
      /\ Sure' = Sure
  BY <1>1, QueryRests, StruckRests
<1>3. ahead' = ahead /\ march' = march /\ closest' = closest /\ answer' = answer
  BY DEF rayVars
<1> QED BY <1>2, <1>3 DEF RayInv, NothingPassed, AllWait, Found, ClosestOK, ClearOK, BlockedOK, NearestOK

\* Every step keeps what is said of solids passed, waiting and found.
LEMMA RayInvStep ==
  ASSUME RayTypeOK, Budgeted, RayInv, [RayNext]_rayVars
  PROVE  RayInv'
<1>1. UNCHANGED queryVars
  BY DEF rayVars, RayNext, Ask, Enter, Answer, OutOfReach, Indeterminate, Hit, SkipLeaf, SkipOctant,
         Descend, Leave
<1> QED BY <1>1, AskStep, EnterStep, AnswerStep, OutOfReachStep, IndeterminateStep, HitStep, SkipStep,
           DescendStep, RayRests DEF RayNext

\* What is said of them shows the property.
LEMMA RayInvShows ==
  ASSUME RayTypeOK, RayInv
  PROVE  RaysStopAtSolids
<1>1. {s \in SolidBoxes : Pierces(s) /\ EnteredAt(s) < MaxT} = {s \in SolidBoxes : Struck(s)}
  BY DEF Struck
<1>2. answer = "clear" /\ (Intact \/ query = "occluded") => {s \in SolidBoxes : Struck(s)} = {}
  BY DEF RayInv, ClearOK, Sure
<1>3. answer = "hit" /\ Intact /\ query = "occluded" => \E s \in SolidBoxes : Blocks(s)
  BY DEF RayInv, BlockedOK
<1>4. closest.found =>
        /\ closest.t <= MaxT
        /\ \E s \in SolidBoxes :
             Touches(s, closest.t) /\ scene[s[1]].solids[s[2]] = closest.voxelType
  BY DEF RayInv, ClosestOK, KindOf
<1>5. answer = "hit" /\ closest.found /\ Intact =>
        \A s \in {r \in SolidBoxes : Struck(r)} : EnteredAt(s) >= closest.t
  <2> SUFFICES ASSUME answer = "hit", closest.found, Intact, NEW s, Struck(s)
               PROVE  EnteredAt(s) >= closest.t
    OBVIOUS
  <2>1. closest.t <= EnteredAt(s) /\ closest.t \in Int
    BY DEF RayInv, NearestOK, ClosestOK
  <2>2. EnteredAt(s) \in Int
    BY StruckIs DEF RayTypeOK
  <2> QED BY <2>1, <2>2
<1> QED BY <1>1, <1>2, <1>3, <1>4, <1>5 DEF RaysStopAtSolids, Blocks

-----------------------------------------------------------------------------
(* Work does not run out: every skip passes a plane, which is never ahead  *)
(* again.  Where several planes meet, a skip passes one of them and        *)
(* rescales the point, so an axis that was past its plane is on it again;  *)
(* but planes are then passed from the finest level to the coarsest, and   *)
(* the boxes that are left have the coarser ones for their upper faces.    *)

Encloses(a, b) == \A i \in Axes : a.lo[i] <= b.lo[i] /\ b.hi[i] <= a.hi[i]
PlaneAt(chunk, k, n) == Fine(chunk.voxelSize * (Width(k) * n))
Aligned(chunk, k, x) == \E n \in Int : x = PlaneAt(chunk, k, n)

\* The planes of a grid are in the order of their numbers.
LEMMA PlanesInOrder ==
  ASSUME Asked, NEW chunk, WellMade(chunk), NEW k \in 0..chunk.depth, NEW n \in Int, NEW m \in Int
  PROVE  /\ PlaneAt(chunk, k, n) \in Int
         /\ PlaneAt(chunk, k, n) < PlaneAt(chunk, k, m) <=> n < m
         /\ PlaneAt(chunk, k, n) <= PlaneAt(chunk, k, m) <=> n <= m
<1> DEFINE s == chunk.voxelSize
           w == Width(k)
           a == w * n
           b == w * m
<1>1. s \in Nat /\ s > 0 /\ w \in Nat /\ w > 0
  BY DEF WellMade
<1>2. PlaneAt(chunk, k, n) = Fine(s * a) /\ PlaneAt(chunk, k, m) = Fine(s * b)
  BY DEF PlaneAt
<1>3. a \in Int /\ b \in Int /\ (a < b <=> n < m) /\ (a <= b <=> n <= m)
  <2> HIDE DEF w
  <2> QED BY <1>1, OrderOfProducts
<1> HIDE DEF a, b, s
<1>4. s * a \in Int /\ s * b \in Int /\ (s * a < s * b <=> a < b) /\ (s * a <= s * b <=> a <= b)
  BY <1>1, <1>3, OrderOfProducts
<1> DEFINE x == s * a
           y == s * b
<1>5. x \in Int /\ y \in Int
  BY <1>4
<1> HIDE DEF x, y
<1>6. /\ Fine(x) \in Int /\ (x <= y <=> Fine(x) <= Fine(y)) /\ (x < y <=> Fine(x) < Fine(y))
  BY <1>5, FineIsEven
<1> QED BY <1>2, <1>3, <1>4, <1>6 DEF x, y

\* The planes of a node are in the grid of its level.
LEMMA NodesAreAligned ==
  ASSUME NEW chunk, WellMade(chunk), NEW b, NEW k, NEW m, IsNodeAt(chunk, b, k, m), NEW i \in Axes
  PROVE  /\ k \in 0..chunk.depth /\ m[i] \in Int /\ m[i] >= 0
         /\ Fine(b.lo[i]) = PlaneAt(chunk, k, m[i]) /\ Fine(b.hi[i]) = PlaneAt(chunk, k, m[i] + 1)
         /\ Aligned(chunk, k, Fine(b.lo[i])) /\ Aligned(chunk, k, Fine(b.hi[i]))
<1>1. k \in 0..chunk.depth /\ m[i] \in Int /\ m[i] >= 0 /\ m[i] + 1 \in Int
  BY DEF IsNodeAt
<1>2. /\ Width(k) \in Nat /\ b.lo[i] = chunk.voxelSize * (Width(k) * m[i])
      /\ b.hi[i] = chunk.voxelSize * (Width(k) * m[i] + Width(k))
  BY EdgesOfNode
<1>3. Width(k) * m[i] + Width(k) = Width(k) * (m[i] + 1)
  BY <1>1, <1>2
<1>4. Fine(b.lo[i]) = PlaneAt(chunk, k, m[i]) /\ Fine(b.hi[i]) = PlaneAt(chunk, k, m[i] + 1)
  BY <1>2, <1>3 DEF PlaneAt
<1> QED BY <1>1, <1>4 DEF Aligned

\* No plane of its level is inside a node.
LEMMA AlignedInNode ==
  ASSUME Asked, NEW chunk, WellMade(chunk), NEW b, NEW k, NEW m, IsNodeAt(chunk, b, k, m),
         NEW i \in Axes, NEW x, Aligned(chunk, k, x), Fine(b.lo[i]) < x, x <= Fine(b.hi[i])
  PROVE  x = Fine(b.hi[i])
<1>1. PICK n \in Int : x = PlaneAt(chunk, k, n)
  BY DEF Aligned
<1>2. /\ k \in 0..chunk.depth /\ m[i] \in Int /\ m[i] + 1 \in Int
      /\ Fine(b.lo[i]) = PlaneAt(chunk, k, m[i]) /\ Fine(b.hi[i]) = PlaneAt(chunk, k, m[i] + 1)
  BY NodesAreAligned
<1>3. m[i] < n
  BY <1>1, <1>2, PlanesInOrder
<1>4. n <= m[i] + 1
  BY <1>1, <1>2, PlanesInOrder
<1>5. n = m[i] + 1
  BY <1>1, <1>2, <1>3, <1>4
<1> QED BY <1>1, <1>2, <1>5

\* A plane of a coarse grid is one of every finer grid.
LEMMA AlignedBelow ==
  ASSUME NEW chunk, WellMade(chunk), NEW k \in 0..chunk.depth, NEW j \in 0..k, NEW x, Aligned(chunk, k, x)
  PROVE  Aligned(chunk, j, x)
<1> DEFINE v == Width(j)
           u == Width(k - j)
<1>1. j \in 0..chunk.depth /\ k - j \in 0..chunk.depth
  BY DEF WellMade
<1>2. Width(k) = v * u
  BY DEF WellMade, Factored
<1>3. v \in Nat /\ u \in Nat
  BY <1>1 DEF WellMade
<1>4. PICK n \in Int : x = PlaneAt(chunk, k, n)
  BY DEF Aligned
<1> HIDE DEF v, u
<1>5. u * n \in Int /\ (v * u) * n = v * (u * n)
  BY <1>3
<1>6. x = PlaneAt(chunk, j, u * n)
  BY <1>2, <1>4, <1>5 DEF PlaneAt, v
<1> QED BY <1>5, <1>6 DEF Aligned

\* A ray moves along every axis it has a direction on.
LEMMA PointsInOrder ==
  ASSUME Asked, NEW from \in [Axes -> Int], NEW i \in Moving, NEW t \in Int, NEW e \in Int, t <= e
  PROVE  /\ PointAt(from, t)[i] \in Int /\ PointAt(from, e)[i] \in Int
         /\ Forward(i) => /\ PointAt(from, t)[i] <= PointAt(from, e)[i]
                          /\ t < e => PointAt(from, t)[i] < PointAt(from, e)[i]
         /\ ~Forward(i) => /\ PointAt(from, e)[i] <= PointAt(from, t)[i]
                           /\ t < e => PointAt(from, e)[i] < PointAt(from, t)[i]
<1> DEFINE d == Dir(i)
           f == Fine(from[i])
           x == PointAt(from, t)[i]
           y == PointAt(from, e)[i]
<1>1. i \in Axes /\ d \in Int /\ (Forward(i) <=> d > 0)
  BY UnitIsShared DEF Moving, Forward, Dir
<1>2. x \in Int /\ y \in Int /\ x = f + 2 * t * d /\ y = f + 2 * e * d
  BY <1>1, PointIsInt
<1>3. f \in Int
  BY <1>1, FineIsEven
<1> HIDE DEF d, f, x, y
<1> DEFINE g == e - t
<1>4. g \in Nat /\ e = t + g /\ (t < e <=> g > 0)
  OBVIOUS
<1> HIDE DEF g
<1>5. y = x + 2 * (g * d)
  BY <1>1, <1>2, <1>3, <1>4
<1>6. CASE d > 0
  <2>1. g * d >= 0 /\ (g > 0 => g * d > 0)
    BY <1>1, <1>4, <1>6
  <2> QED BY <1>1, <1>2, <1>4, <1>5, <1>6, <2>1 DEF x, y
<1>7. CASE ~(d > 0)
  <2>1. g * d <= 0 /\ (g > 0 => g * d < 0)
    <3> DEFINE h == -d
    <3>1. h \in Nat /\ h > 0 /\ g * d = -(g * h)
      <4>1. d # 0
        BY UnitIsShared DEF d
      <4> QED BY <1>1, <1>4, <1>7, <4>1
    <3> HIDE DEF h
    <3>2. g * h >= 0 /\ (g > 0 => g * h > 0)
      BY <1>4, <3>1
    <3> QED BY <1>4, <3>1, <3>2
  <2> QED BY <1>1, <1>2, <1>4, <1>5, <1>7, <2>1 DEF x, y
<1> QED BY <1>6, <1>7

Backward == {i \in Moving : ~Forward(i)}
At(m) == PointAt(From(scene[m.chunk]), m.t)

\* The plane the ray is on is behind it: it was passed, or the box ends there.
Past(m, i) == i \in Backward /\ (m.p[i] < At(m)[i] \/ Fine(m.here.hi[i]) = At(m)[i])
Facing(m) == \A i \in Moving : Forward(i) => m.p[i] < Fine(m.here.hi[i])

\* Planes that are behind are coarser than those the ray has yet to pass.
Ranked(m) ==
  \A i \in Axes : Past(m, i) =>
    \E k \in 0..scene[m.chunk].depth :
      /\ Aligned(scene[m.chunk], k, At(m)[i])
      /\ \A j \in Backward : ~Past(m, j) => ~Aligned(scene[m.chunk], k, At(m)[j])

\* The box to be skipped lies ahead.
Chosen(m, b) ==
  /\ \A i \in Moving : Forward(i) => m.p[i] < Fine(b.hi[i])
  /\ \A i \in Backward : Past(m, i) => Fine(b.lo[i]) < At(m)[i]
  /\ \A i \in Backward : ~Past(m, i) => m.p[i] = At(m)[i] /\ At(m)[i] < Fine(b.hi[i])

\* The point a march carries is the ray's, or next to it on the side it goes to.
LEMMA NudgedByOne ==
  ASSUME Asked, NEW m, Under(m), NEW i \in Axes
  PROVE  /\ At(m)[i] \in Int /\ m.p[i] \in Int
         /\ i \in Backward => m.p[i] = At(m)[i] \/ m.p[i] = At(m)[i] - 1
         /\ i \notin Backward => m.p[i] = At(m)[i] \/ m.p[i] = At(m)[i] + 1
<1> DEFINE from == From(scene[m.chunk])
           x == At(m)[i]
           p == m.p[i]
<1>1. from \in [Axes -> Int] /\ m.t \in Int /\ p \in Int
  BY UnderIs
<1>2. x \in Int
  BY <1>1, PointIsInt DEF At
<1>3. p = x \/ \E n \in Int : x = Fine(n) /\ p = Fine(n) + Onward(i)
  BY DEF Under, Carried, Nudged, At
<1>4. p = x \/ p = x + Onward(i)
  BY <1>3
<1>5. p # x => i \in Moving
  BY DEF Under, Carried, Nudged, At
<1>6. i \in Moving => Onward(i) = IF i \in Backward THEN -1 ELSE 1
  BY DEF Onward, Backward
<1> HIDE DEF x, p
<1>7. /\ i \in Backward => p = x \/ p = x - 1
      /\ i \notin Backward => p = x \/ p = x + 1
  BY <1>1, <1>2, <1>4, <1>5, <1>6
<1> QED BY <1>1, <1>2, <1>7 DEF x, p

\* A box around the point within the node of the march lies ahead.
LEMMA ChosenIs ==
  ASSUME Asked, NEW m, Under(m), Facing(m), NEW b, IsBox(b), Holds(b, m.p), Encloses(m.here, b),
         \A i \in Axes : m.p[i] < Fine(b.hi[i]) \/ b.hi[i] = m.here.hi[i]
  PROVE  Chosen(m, b)
<1>1. ASSUME NEW i \in Axes
      PROVE  /\ At(m)[i] \in Int /\ m.p[i] \in Int
             /\ Fine(b.lo[i]) \in Int /\ Fine(b.hi[i]) \in Int /\ Fine(m.here.hi[i]) \in Int
             /\ Fine(b.lo[i]) < Fine(m.here.hi[i])
             /\ Fine(b.lo[i]) <= m.p[i] /\ m.p[i] <= Fine(m.here.hi[i])
             /\ m.p[i] < Fine(b.hi[i]) \/ Fine(b.hi[i]) = Fine(m.here.hi[i])
             /\ i \in Backward => m.p[i] = At(m)[i] \/ m.p[i] = At(m)[i] - 1
  <2>1. /\ b.lo[i] \in Int /\ b.hi[i] \in Int /\ m.here.hi[i] \in Int
        /\ b.lo[i] < b.hi[i] /\ b.hi[i] <= m.here.hi[i]
    BY UnderIs DEF IsBox, Encloses
  <2>2. b.lo[i] < m.here.hi[i]
    BY <2>1
  <2>3. /\ Fine(b.lo[i]) \in Int /\ Fine(m.here.hi[i]) \in Int
        /\ Fine(b.lo[i]) < Fine(m.here.hi[i])
    BY <2>1, <2>2, FineIsEven
  <2>4. Fine(b.hi[i]) \in Int
    BY <2>1, FineIsEven
  <2>5. Holds(b, m.p) /\ Holds(m.here, m.p)
    BY DEF Under
  <2> QED BY <2>3, <2>4, <2>5, NudgedByOne DEF Holds
<1>2. \A i \in Backward : i \in Axes
  BY DEF Backward, Moving
<1>3. ASSUME NEW i \in Moving, Forward(i) PROVE m.p[i] < Fine(b.hi[i])
  <2>1. i \in Axes
    BY DEF Moving
  <2>2. m.p[i] < Fine(m.here.hi[i])
    BY <1>3 DEF Facing
  <2> QED BY <1>1, <2>1, <2>2
<1>4. ASSUME NEW i \in Backward, Past(m, i) PROVE Fine(b.lo[i]) < At(m)[i]
  <2> DEFINE x == At(m)[i]
             p == m.p[i]
             l == Fine(b.lo[i])
             g == Fine(m.here.hi[i])
  <2>1. x \in Int /\ p \in Int /\ l \in Int /\ g \in Int /\ l < g /\ l <= p
    BY <1>1, <1>2
  <2>2. p < x \/ g = x
    BY <1>4 DEF Past
  <2> HIDE DEF x, p, l, g
  <2>3. l < x
    BY <2>1, <2>2
  <2> QED BY <2>3 DEF x, l
<1>5. ASSUME NEW i \in Backward, ~Past(m, i) PROVE m.p[i] = At(m)[i] /\ At(m)[i] < Fine(b.hi[i])
  <2> DEFINE x == At(m)[i]
             p == m.p[i]
             h == Fine(b.hi[i])
             g == Fine(m.here.hi[i])
  <2>1. /\ x \in Int /\ p \in Int /\ h \in Int /\ g \in Int /\ p <= g /\ (p < h \/ h = g)
        /\ p = x \/ p = x - 1
    BY <1>1, <1>2
  <2>2. ~(p < x) /\ g # x
    BY <1>5 DEF Past
  <2> HIDE DEF x, p, h, g
  <2>3. p = x /\ x < h
    BY <2>1, <2>2
  <2> QED BY <2>3 DEF x, p, h
<1> QED BY <1>3, <1>4, <1>5 DEF Chosen

Exits(m, b, next, i) == i \in Moving /\ OutAt(From(scene[m.chunk]), b, i) = next.t

Onto(m, next) == PointAt(From(scene[m.chunk]), next.t)
StepsForward(m, b, next, i) ==
  /\ At(m)[i] <= Onto(m, next)[i]
  /\ Exits(m, b, next, i) => /\ Onto(m, next)[i] = Fine(b.hi[i]) /\ next.p[i] = Onto(m, next)[i] + 1
                             /\ At(m)[i] < Onto(m, next)[i] /\ m.t < next.t
  /\ ~Exits(m, b, next, i) => Onto(m, next)[i] < Fine(b.hi[i]) /\ next.p[i] = Onto(m, next)[i]
StepsBackward(m, b, next, i) ==
  /\ Onto(m, next)[i] <= At(m)[i]
  /\ m.t < next.t => Onto(m, next)[i] < At(m)[i] /\ Onto(m, next)[i] < Fine(b.hi[i])
  /\ Exits(m, b, next, i) => /\ Onto(m, next)[i] = Fine(b.lo[i]) /\ next.p[i] = Onto(m, next)[i] - 1
                             /\ m.t < next.t \/ ~Past(m, i)
  /\ ~Exits(m, b, next, i) => Fine(b.lo[i]) < Onto(m, next)[i] /\ next.p[i] = Onto(m, next)[i]

\* On each axis a skip goes onto a plane of the box, or past none.
LEMMA SkipSteps ==
  ASSUME Asked, NEW m, Under(m), NEW b, IsBox(b), Chosen(m, b),
         NEW next, WithinAt(From(scene[m.chunk]), b, m.t), Lands(From(scene[m.chunk]), b, m.t, next),
         NEW i \in Moving
  PROVE  /\ Onto(m, next)[i] \in Int /\ next.t \in Int /\ m.t <= next.t
         /\ m.t = next.t => Onto(m, next)[i] = At(m)[i]
         /\ Forward(i) => StepsForward(m, b, next, i)
         /\ ~Forward(i) => StepsBackward(m, b, next, i)
<1> DEFINE from == From(scene[m.chunk])
           x == At(m)[i]
           y == Onto(m, next)[i]
           t == m.t
           e == next.t
           out == OutAt(from, b, i)
           in == InAt(from, b, i)
           lo == Fine(b.lo[i])
           hi == Fine(b.hi[i])
           p == m.p[i]
           q == next.p[i]
<1>1. i \in Axes /\ from \in [Axes -> Int] /\ t \in Int /\ e \in Int /\ t <= e
  BY UnderIs DEF Lands, Moving
<1>2. b.lo[i] \in Int /\ b.hi[i] \in Int /\ lo \in Int /\ hi \in Int
  <2>1. b.lo[i] \in Int /\ b.hi[i] \in Int
    BY <1>1 DEF IsBox
  <2> QED BY <2>1, FineIsEven
<1>3. x = PointAt(from, t)[i] /\ y = PointAt(from, e)[i]
  BY DEF At, Onto
<1>4. /\ x \in Int /\ y \in Int
      /\ Forward(i) => x <= y /\ (t < e => x < y)
      /\ ~Forward(i) => y <= x /\ (t < e => y < x)
  BY <1>1, <1>3, PointsInOrder
<1>5. in <= t /\ t <= out /\ e <= out
  BY DEF WithinAt, Lands
<1>6. SideOf(from, i, e, b.lo[i]) /\ SideOf(from, i, e, b.hi[i])
  BY <1>1, <1>2, SidesOfPlanes
<1>7. /\ Forward(i) => out = Crossing(from, i, b.hi[i])
      /\ ~Forward(i) => out = Crossing(from, i, b.lo[i]) /\ in = Crossing(from, i, b.hi[i])
  BY DEF OutAt, InAt, EntryPlane, ExitPlane, Forward
<1>8. /\ Forward(i) => out \in Int /\ (y <= hi <=> e <= out) /\ (hi <= y <=> out <= e)
      /\ ~Forward(i) => /\ out \in Int /\ in \in Int
                        /\ (y <= lo <=> out <= e) /\ (lo <= y <=> e <= out)
                        /\ (y <= hi <=> in <= e) /\ (hi <= y <=> e <= in)
  BY <1>3, <1>6, <1>7 DEF SideOf
<1>9. /\ out = e => q = (IF Forward(i) THEN hi ELSE lo) + (IF Forward(i) THEN 1 ELSE -1)
      /\ out # e => q = y
  BY <1>1, <1>3 DEF Lands, Onward, ExitPlane, Forward
<1>10. Exits(m, b, next, i) <=> out = e
  BY DEF Exits
<1>11. /\ Forward(i) => p < hi /\ (p = x \/ p = x + 1)
       /\ ~Forward(i) /\ Past(m, i) => lo < x
       /\ p \in Int
  BY <1>1, NudgedByOne DEF Chosen, Backward
<1>12. t = e => x = y
  BY <1>3
<1>13. /\ Forward(i) => (StepsForward(m, b, next, i) <=>
            /\ x <= y
            /\ out = e => y = hi /\ q = y + 1 /\ x < y /\ t < e
            /\ out # e => y < hi /\ q = y)
       /\ ~Forward(i) => (StepsBackward(m, b, next, i) <=>
            /\ y <= x
            /\ t < e => y < x /\ y < hi
            /\ out = e => y = lo /\ q = y - 1 /\ (t < e \/ ~Past(m, i))
            /\ out # e => lo < y /\ q = y)
  BY <1>10 DEF StepsForward, StepsBackward
<1> HIDE DEF from, x, y, t, e, out, in, lo, hi, p, q
<1>14. CASE Forward(i)
  <2>1. out = e => y = hi /\ q = y + 1 /\ x < y /\ t < e
    BY <1>1, <1>2, <1>4, <1>8, <1>9, <1>11, <1>12, <1>14
  <2>2. out # e => y < hi /\ q = y
    BY <1>1, <1>2, <1>4, <1>5, <1>8, <1>9, <1>14
  <2> QED BY <1>1, <1>4, <1>12, <1>13, <1>14, <2>1, <2>2 DEF x, y, t, e
<1>15. CASE ~Forward(i)
  <2>1. t < e => y < x /\ y < hi
    BY <1>1, <1>2, <1>4, <1>5, <1>8, <1>15
  <2>2. out = e => y = lo /\ q = y - 1
    BY <1>1, <1>2, <1>4, <1>8, <1>9, <1>15
  <2>3. out = e /\ Past(m, i) => t < e
    BY <1>1, <1>2, <1>4, <1>11, <1>12, <1>15, <2>2
  <2>4. out # e => lo < y /\ q = y
    BY <1>1, <1>2, <1>4, <1>5, <1>8, <1>9, <1>15
  <2> QED BY <1>1, <1>4, <1>12, <1>13, <1>15, <2>1, <2>2, <2>3, <2>4 DEF x, y, t, e
<1> QED BY <1>14, <1>15

\* The stack has every box around this one, the innermost last.
DepthOf(m) == scene[m.chunk].depth
OnLevel(m, b, k) == \E n \in [Axes -> Nat] : IsNodeAt(scene[m.chunk], b, k, n)
Stacked(m, k) ==
  /\ k \in 0..DepthOf(m) /\ OnLevel(m, m.here, k)
  /\ Len(m.stack) = DepthOf(m) - k
  /\ \A n \in 1..Len(m.stack) : /\ OnLevel(m, m.stack[n], DepthOf(m) + 1 - n)
                                /\ Encloses(m.stack[n], m.here)
  /\ \A n \in 1..Len(m.stack) : \A l \in 1..n : Encloses(m.stack[l], m.stack[n])
Around(m, k, l) == IF l = k THEN m.here ELSE m.stack[DepthOf(m) + 1 - l]

BackTo(m, next, n) ==
  /\ n.chunk = m.chunk
  /\ IF Holds(m.here, next.p) THEN n.here = m.here /\ n.stack = m.stack
     ELSE \E f \in DOMAIN m.stack :
            /\ Holds(m.stack[f], next.p)
            /\ \A l \in DOMAIN m.stack : Holds(m.stack[l], next.p) => l <= f
            /\ n.here = m.stack[f] /\ n.stack = SubSeq(m.stack, 1, f - 1)

\* After a skip the march is on the nearest ancestor that holds its point.
LEMMA SkipReturns ==
  ASSUME Asked, Under(march), NEW b, SkipPast(b), march' # Idle
  PROVE  BackTo(march, ExitOf(b), march')
<1> DEFINE next == ExitOf(b)
           onward == [march EXCEPT !.t = next.t, !.p = next.p, !.left = @ - 1]
           back == {n \in DOMAIN march.stack : Holds(march.stack[n], next.p)}
<1>1. march \in MarchOf(march.chunk)
  BY DEF Under
<1>2. IF Holds(march.here, next.p) THEN march' = onward
      ELSE IF back = {} THEN march' = Idle
      ELSE \E n \in back : /\ \A k \in back : k <= n
                           /\ march' = [onward EXCEPT !.here = march.stack[n],
                                                     !.stack = SubSeq(@, 1, n - 1)]
  BY DEF SkipPast
<1> HIDE DEF next
<1>3. /\ onward.chunk = march.chunk /\ onward.here = march.here /\ onward.stack = march.stack
  BY <1>1 DEF MarchOf
<1>4. CASE Holds(march.here, next.p)
  BY <1>2, <1>3, <1>4 DEF BackTo, next
<1>5. CASE ~Holds(march.here, next.p)
  <2>1. PICK n \in back : /\ \A k \in back : k <= n
                          /\ march' = [onward EXCEPT !.here = march.stack[n],
                                                    !.stack = SubSeq(@, 1, n - 1)]
    BY <1>2, <1>5
  <2>2. /\ n \in DOMAIN march.stack /\ Holds(march.stack[n], next.p)
        /\ \A l \in DOMAIN march.stack : Holds(march.stack[l], next.p) => l <= n
    BY <2>1
  <2>3. /\ march'.chunk = march.chunk /\ march'.here = march.stack[n]
        /\ march'.stack = SubSeq(march.stack, 1, n - 1)
    <3>1. march' = [onward EXCEPT !.here = march.stack[n], !.stack = SubSeq(onward.stack, 1, n - 1)]
      BY <2>1
    <3>2. DOMAIN onward = {"busy", "chunk", "t", "p", "here", "stack", "left"}
      BY <1>1 DEF MarchOf
    <3> HIDE DEF onward
    <3> QED BY <1>3, <3>1, <3>2
  <2> QED BY <1>5, <2>2, <2>3 DEF BackTo, next
<1> QED BY <1>4, <1>5

\* The stack has an ancestor of the node for every level above it.
LEMMA AroundIs ==
  ASSUME Asked, NEW m, Under(m), NEW k, Stacked(m, k), NEW l \in k..DepthOf(m)
  PROVE  OnLevel(m, Around(m, k, l), l) /\ Encloses(Around(m, k, l), m.here)
<1>1. IsBox(m.here) /\ DepthOf(m) \in Nat /\ k \in 0..DepthOf(m)
  BY UnderIs DEF WellMade, DepthOf, Stacked
<1>2. CASE l = k
  <2>1. \A i \in Axes : m.here.lo[i] \in Int /\ m.here.hi[i] \in Int
    BY <1>1 DEF IsBox
  <2>2. Encloses(m.here, m.here)
    BY <2>1 DEF Encloses
  <2> QED BY <1>2, <2>2 DEF Around, Stacked
<1>3. CASE l # k
  <2> DEFINE n == DepthOf(m) + 1 - l
  <2>1. n \in 1..Len(m.stack) /\ DepthOf(m) + 1 - n = l
    BY <1>1, <1>3 DEF Stacked
  <2>2. Around(m, k, l) = m.stack[n]
    BY <1>3 DEF Around
  <2> HIDE DEF n
  <2> QED BY <2>1, <2>2 DEF Stacked
<1> QED BY <1>2, <1>3

\* A march returns to the innermost of the boxes around it that holds the point.
LEMMA ReturnsInward ==
  ASSUME Asked, NEW m, Under(m), NEW k, Stacked(m, k), NEW next, NEW n, BackTo(m, next, n)
  PROVE  \E e \in k..DepthOf(m) :
           /\ Stacked(n, e) /\ n.here = Around(m, k, e)
           /\ \A l \in k..DepthOf(m) : Holds(Around(m, k, l), next.p) => e <= l
<1> DEFINE d == DepthOf(m)
<1>1. /\ d \in Nat /\ k \in 0..d /\ Len(m.stack) = d - k /\ DepthOf(n) = d
      /\ m.stack \in Seq(Nodes(scene[m.chunk])) /\ DOMAIN m.stack = 1..Len(m.stack)
      /\ \A b, l : OnLevel(n, b, l) <=> OnLevel(m, b, l)
  BY UnderIs DEF WellMade, DepthOf, Stacked, BackTo, OnLevel
<1> HIDE DEF d
<1>2. CASE Holds(m.here, next.p)
  <2>1. n.here = m.here /\ n.stack = m.stack
    BY <1>2 DEF BackTo
  <2>2. Stacked(n, k)
    <3>1. /\ k \in 0..d /\ OnLevel(m, m.here, k) /\ Len(m.stack) = d - k
          /\ \A f \in 1..Len(m.stack) : OnLevel(m, m.stack[f], d + 1 - f) /\ Encloses(m.stack[f], m.here)
          /\ \A f \in 1..Len(m.stack) : \A l \in 1..f : Encloses(m.stack[l], m.stack[f])
      BY DEF Stacked, d
    <3> QED BY <1>1, <2>1, <3>1 DEF Stacked
  <2>3. n.here = Around(m, k, k) /\ k \in k..d
    BY <1>1, <2>1 DEF Around
  <2> QED BY <1>1, <2>2, <2>3 DEF d
<1>3. CASE ~Holds(m.here, next.p)
  <2>1. PICK f \in DOMAIN m.stack :
          /\ Holds(m.stack[f], next.p)
          /\ \A l \in DOMAIN m.stack : Holds(m.stack[l], next.p) => l <= f
          /\ n.here = m.stack[f] /\ n.stack = SubSeq(m.stack, 1, f - 1)
    BY <1>3 DEF BackTo
  <2> DEFINE e == d + 1 - f
  <2>2. f \in 1..Len(m.stack) /\ f \in Int /\ 1 <= f /\ f <= d - k
    BY <1>1, <2>1
  <2>3. e \in k..d /\ e # k /\ d + 1 - e = f /\ e \in 0..d /\ d - e = f - 1
    <3>1. d \in Nat /\ k \in 0..d
      BY <1>1
    <3> QED BY ONLY <2>2, <3>1
  <2> HIDE DEF e
  <2>4. n.here = Around(m, k, e)
    BY <2>1, <2>3 DEF Around, d
  <2>5. Len(n.stack) = f - 1 /\ \A l \in 1..(f - 1) : n.stack[l] = m.stack[l]
    BY <1>1, <2>1, <2>2
  <2>6. Stacked(n, e)
    <3>1. /\ \A l \in 1..Len(m.stack) : OnLevel(m, m.stack[l], d + 1 - l)
          /\ \A g \in 1..Len(m.stack) : \A l \in 1..g : Encloses(m.stack[l], m.stack[g])
      BY DEF Stacked, d
    <3>2. OnLevel(n, n.here, e)
      BY <1>1, <2>1, <2>2, <3>1 DEF e
    <3>3. \A l \in 1..(f - 1) : /\ OnLevel(n, n.stack[l], d + 1 - l)
                                /\ Encloses(n.stack[l], n.here)
                                /\ \A g \in 1..l : Encloses(n.stack[g], n.stack[l])
      <4> TAKE l \in 1..(f - 1)
      <4>1. l \in 1..Len(m.stack) /\ l \in 1..f /\ \A g \in 1..l : g \in 1..(f - 1)
        BY <2>2
      <4>2. n.stack[l] = m.stack[l] /\ \A g \in 1..l : n.stack[g] = m.stack[g]
        BY <2>5, <4>1
      <4>3. OnLevel(n, n.stack[l], d + 1 - l)
        BY <1>1, <3>1, <4>1, <4>2
      <4>4. Encloses(n.stack[l], n.here)
        BY <2>1, <2>2, <3>1, <4>1, <4>2
      <4>5. \A g \in 1..l : Encloses(n.stack[g], n.stack[l])
        BY <3>1, <4>1, <4>2
      <4> QED BY <4>3, <4>4, <4>5
    <3> QED BY <1>1, <2>3, <2>5, <3>2, <3>3 DEF Stacked
  <2>7. ASSUME NEW l \in k..d, Holds(Around(m, k, l), next.p) PROVE e <= l
    <3>1. l # k
      BY <1>3, <2>7 DEF Around
    <3>2. d + 1 - l \in DOMAIN m.stack /\ Holds(m.stack[d + 1 - l], next.p)
      BY <1>1, <2>7, <3>1 DEF Around, d
    <3>3. d + 1 - l <= f
      BY <2>1, <3>2
    <3> QED BY <1>1, <2>2, <3>3 DEF e
  <2> QED BY <2>3, <2>4, <2>6, <2>7 DEF d
<1> QED BY <1>2, <1>3

Skipping(m, k, b, l, next, n) ==
  /\ Under(m) /\ Under(n) /\ n.chunk = m.chunk /\ n.t = next.t /\ n.p = next.p
  /\ Stacked(m, k) /\ Ranked(m)
  /\ OnLevel(m, b, l) /\ l \in 0..k /\ k <= l + 1 /\ Encloses(m.here, b) /\ Chosen(m, b)
  /\ Holds(b, m.p) /\ Lands(From(scene[m.chunk]), b, m.t, next)
  /\ BackTo(m, next, n)

\* What encloses a box encloses what is in that box.
LEMMA EnclosesTwice ==
  ASSUME NEW a, IsBox(a), NEW b, IsBox(b), NEW c, IsBox(c), Encloses(a, b), Encloses(b, c)
  PROVE  Encloses(a, c)
<1>1. \A i \in Axes : /\ a.lo[i] \in Int /\ a.hi[i] \in Int /\ b.lo[i] \in Int /\ b.hi[i] \in Int
                      /\ c.lo[i] \in Int /\ c.hi[i] \in Int
  BY DEF IsBox
<1> QED BY <1>1 DEF Encloses

\* What is on a level is a node of it.
LEMMA LevelsAreNodes ==
  ASSUME Asked, NEW m, Under(m), NEW b, NEW k, OnLevel(m, b, k)
  PROVE  IsNode(scene[m.chunk], b) /\ IsBox(b) /\ k \in 0..DepthOf(m)
<1>1. IsNode(scene[m.chunk], b) /\ k \in 0..DepthOf(m)
  BY DEF OnLevel, IsNode, IsNodeAt, DepthOf
<1> QED BY <1>1, UnderIs, NodesAreBoxed

\* The facts of a skip that its consequences rest on.
LEMMA SkippingIs ==
  ASSUME Asked, NEW m, NEW k, NEW b, NEW l, NEW next, NEW n, Skipping(m, k, b, l, next, n)
  PROVE  /\ WellMade(scene[m.chunk]) /\ IsBox(b) /\ IsBox(m.here) /\ IsBox(n.here)
         /\ From(scene[m.chunk]) \in [Axes -> Int]
         /\ WithinAt(From(scene[m.chunk]), b, m.t)
         /\ At(n) = Onto(m, next) /\ m.t \in Int /\ next.t \in Int
         /\ Encloses(n.here, m.here) /\ Encloses(n.here, b)
         /\ \A i \in Axes : /\ Onto(m, next)[i] \in Int
                            /\ Fine(b.lo[i]) <= Onto(m, next)[i] /\ Onto(m, next)[i] <= Fine(b.hi[i])
                            /\ ~Exits(m, b, next, i) => next.p[i] = Onto(m, next)[i]
         /\ \E i \in Moving : Exits(m, b, next, i)
<1> DEFINE from == From(scene[m.chunk])
<1>1. /\ Under(m) /\ Under(n) /\ n.chunk = m.chunk /\ n.t = next.t /\ n.p = next.p
      /\ Stacked(m, k) /\ OnLevel(m, b, l) /\ Encloses(m.here, b)
      /\ Holds(b, m.p) /\ Lands(from, b, m.t, next) /\ BackTo(m, next, n)
  BY DEF Skipping
<1>2. WellMade(scene[m.chunk]) /\ IsBox(m.here) /\ from \in [Axes -> Int] /\ m.t \in Int
  BY <1>1, UnderIs
<1>3. IsBox(n.here)
  BY <1>1, UnderIs
<1>4. IsBox(b)
  BY <1>1, LevelsAreNodes
<1>5. WithinAt(from, b, m.t)
  BY <1>1, <1>2, <1>4, CarriedIsWithin DEF Under
<1>6. At(n) = Onto(m, next)
  BY <1>1 DEF At, Onto
<1>7. Encloses(n.here, m.here)
  <2>1. PICK e \in k..DepthOf(m) : n.here = Around(m, k, e)
    BY <1>1, ReturnsInward
  <2> QED BY <1>1, <2>1, AroundIs
<1>8. Encloses(n.here, b)
  BY <1>1, <1>2, <1>3, <1>4, <1>7, EnclosesTwice
<1>9. next.t \in Int /\ WithinAt(from, b, next.t)
  BY <1>1 DEF Lands
<1>10. Holds(b, Onto(m, next)) /\ Onto(m, next) \in [Axes -> Int]
  BY <1>2, <1>4, <1>9, WithinHolds, PointIsInt DEF Onto
<1>11. \A i \in Axes : ~Exits(m, b, next, i) => next.p[i] = Onto(m, next)[i]
  BY <1>1 DEF Lands, Exits, Onto
<1>12. \E i \in Moving : Exits(m, b, next, i)
  BY <1>1 DEF Lands, Exits
<1> QED BY <1>2, <1>3, <1>4, <1>5, <1>6, <1>7, <1>8, <1>9, <1>10, <1>11, <1>12 DEF Holds

\* A plane that was behind at this moment stays behind.
LEMMA PastStays ==
  ASSUME Asked, NEW m, NEW k, NEW b, NEW l, NEW next, NEW n, Skipping(m, k, b, l, next, n),
         m.t = next.t, NEW i \in Backward, Past(m, i)
  PROVE  Past(n, i)
<1> DEFINE chunk == scene[m.chunk]
           x == At(m)
           d == DepthOf(m)
<1>1. /\ Under(m) /\ Under(n) /\ n.chunk = m.chunk
      /\ Stacked(m, k) /\ Ranked(m) /\ n.p = next.p
      /\ OnLevel(m, b, l) /\ l \in 0..k /\ k <= l + 1 /\ Encloses(m.here, b) /\ Chosen(m, b)
      /\ Lands(From(scene[m.chunk]), b, m.t, next) /\ BackTo(m, next, n)
  BY DEF Skipping
<1>2. /\ WellMade(chunk) /\ IsBox(b) /\ IsBox(m.here) /\ IsBox(n.here)
      /\ WithinAt(From(scene[m.chunk]), b, m.t)
      /\ At(n) = Onto(m, next) /\ Encloses(n.here, m.here) /\ Encloses(n.here, b)
      /\ \A a \in Axes : /\ Onto(m, next)[a] \in Int
                         /\ Fine(b.lo[a]) <= Onto(m, next)[a] /\ Onto(m, next)[a] <= Fine(b.hi[a])
                         /\ ~Exits(m, b, next, a) => next.p[a] = Onto(m, next)[a]
      /\ \E a \in Moving : Exits(m, b, next, a)
  BY SkippingIs
<1>3. Onto(m, next) = x
  BY DEF Onto, At
<1>4. i \in Axes /\ i \in Moving /\ ~Forward(i) /\ d \in Nat /\ chunk.depth = d
  BY <1>2 DEF Backward, Moving, WellMade, DepthOf
<1>5. PICK K \in 0..d : /\ Aligned(chunk, K, x[i])
                        /\ \A j \in Backward : ~Past(m, j) => ~Aligned(chunk, K, x[j])
  BY <1>1, <1>4 DEF Ranked
<1>6. ASSUME NEW j \in Axes, Exits(m, b, next, j)
      PROVE  /\ j \in Backward /\ ~Past(m, j) /\ x[j] = Fine(b.lo[j]) /\ next.p[j] = x[j] - 1
             /\ ~Aligned(chunk, K, x[j])
  <2>1. j \in Moving
    BY <1>6 DEF Exits
  <2>2. /\ Forward(j) => StepsForward(m, b, next, j)
        /\ ~Forward(j) => StepsBackward(m, b, next, j)
        /\ next.t \in Int
    BY <1>1, <1>2, <2>1, SkipSteps
  <2>3. ~Forward(j)
    BY <1>6, <2>2 DEF StepsForward
  <2>4. j \in Backward
    BY <2>1, <2>3 DEF Backward
  <2>5. ~Past(m, j) /\ x[j] = Fine(b.lo[j]) /\ next.p[j] = x[j] - 1
    BY <1>3, <1>6, <2>2, <2>3 DEF StepsBackward
  <2> QED BY <1>5, <2>4, <2>5
<1>7. K \in k..d
  <2>1. PICK j \in Moving : Exits(m, b, next, j)
    BY <1>2
  <2>2. j \in Axes
    BY DEF Moving
  <2>3. x[j] = Fine(b.lo[j]) /\ ~Aligned(chunk, K, x[j])
    BY <1>6, <2>1, <2>2
  <2>4. Aligned(chunk, l, x[j]) /\ l \in 0..chunk.depth
    BY <1>1, <1>2, <2>2, <2>3, NodesAreAligned DEF OnLevel
  <2>5. ~(K \in 0..l)
    BY <1>2, <2>3, <2>4, AlignedBelow
  <2>6. k \in 0..d /\ l \in Int
    BY <1>1 DEF Stacked
  <2> QED BY <1>1, <1>4, <2>5, <2>6
<1> DEFINE a == Around(m, k, K)
<1>8. OnLevel(m, a, K) /\ Encloses(a, m.here)
  BY <1>1, <1>7, AroundIs
<1>9. IsBox(a)
  BY <1>1, <1>8, LevelsAreNodes
<1>10. Encloses(a, b)
  BY <1>1, <1>2, <1>8, <1>9, EnclosesTwice
<1> HIDE DEF a, x, d
<1>11. Holds(a, next.p)
  <2> SUFFICES ASSUME NEW j \in Axes PROVE Fine(a.lo[j]) <= next.p[j] /\ next.p[j] <= Fine(a.hi[j])
    BY DEF Holds
  <2>1. /\ a.lo[j] \in Int /\ a.hi[j] \in Int /\ b.lo[j] \in Int /\ b.hi[j] \in Int
        /\ a.lo[j] <= b.lo[j] /\ b.hi[j] <= a.hi[j] /\ b.lo[j] < b.hi[j]
    BY <1>2, <1>9, <1>10 DEF IsBox, Encloses
  <2>2. /\ Fine(a.lo[j]) \in Int /\ Fine(a.hi[j]) \in Int /\ Fine(b.lo[j]) \in Int /\ Fine(b.hi[j]) \in Int
        /\ Fine(a.lo[j]) <= Fine(b.lo[j]) /\ Fine(b.hi[j]) <= Fine(a.hi[j])
        /\ Fine(b.lo[j]) < Fine(b.hi[j])
        /\ a.lo[j] < b.lo[j] => Fine(a.lo[j]) + 1 <= Fine(b.lo[j])
    BY <2>1, FineIsEven
  <2>3. CASE Exits(m, b, next, j)
    <3>1. x[j] = Fine(b.lo[j]) /\ next.p[j] = Fine(b.lo[j]) - 1 /\ ~Aligned(chunk, K, x[j])
      BY <1>6, <2>3
    <3>2. Aligned(chunk, K, Fine(a.lo[j]))
      BY <1>2, <1>8, NodesAreAligned DEF OnLevel
    <3>3. a.lo[j] # b.lo[j]
      BY <3>1, <3>2
    <3>4. a.lo[j] < b.lo[j]
      BY <2>1, <3>3
    <3> QED BY <2>2, <3>1, <3>4
  <2>4. CASE ~Exits(m, b, next, j)
    BY <1>2, <2>2, <2>4
  <2> QED BY <2>3, <2>4
<1>12. PICK e \in k..DepthOf(m) : Stacked(n, e) /\ e <= K
  <2>1. PICK e \in k..DepthOf(m) :
          /\ Stacked(n, e)
          /\ \A g \in k..DepthOf(m) : Holds(Around(m, k, g), next.p) => e <= g
    BY <1>1, ReturnsInward
  <2> QED BY <1>7, <1>11, <2>1 DEF a, d
<1>13. Aligned(chunk, e, x[i])
  <2>1. e \in 0..K /\ K \in 0..chunk.depth
    BY <1>1, <1>4, <1>5, <1>12 DEF Stacked
  <2> QED BY ONLY <1>2, <1>5, <2>1, AlignedBelow
<1>14. x[i] = Fine(n.here.hi[i])
  <2>1. PICK g \in [Axes -> Nat] : IsNodeAt(chunk, n.here, e, g)
    BY <1>1, <1>12 DEF Stacked, OnLevel
  <2>2. /\ b.lo[i] \in Int /\ b.hi[i] \in Int /\ n.here.lo[i] \in Int /\ n.here.hi[i] \in Int
        /\ n.here.lo[i] <= b.lo[i] /\ b.hi[i] <= n.here.hi[i]
    BY <1>2, <1>4 DEF IsBox, Encloses
  <2>3. /\ Fine(n.here.lo[i]) \in Int /\ Fine(n.here.hi[i]) \in Int /\ Fine(b.lo[i]) \in Int
        /\ Fine(b.hi[i]) \in Int
        /\ Fine(n.here.lo[i]) <= Fine(b.lo[i]) /\ Fine(b.hi[i]) <= Fine(n.here.hi[i])
    BY <2>2, FineIsEven
  <2>4. Fine(b.lo[i]) < x[i] /\ x[i] <= Fine(b.hi[i]) /\ x[i] \in Int
    BY <1>1, <1>2, <1>3, <1>4 DEF Chosen, x
  <2>5. Fine(n.here.lo[i]) < x[i] /\ x[i] <= Fine(n.here.hi[i])
    BY <2>3, <2>4
  <2> QED BY ONLY <1>2, <1>4, <1>13, <2>1, <2>5, Asked, AlignedInNode
<1> QED BY <1>2, <1>3, <1>14 DEF Past, x

\* After a skip the planes behind are those of the exit and, if no time went by,
\* those that were behind before.
LEMMA PastAfter ==
  ASSUME Asked, NEW m, NEW k, NEW b, NEW l, NEW next, NEW n, Skipping(m, k, b, l, next, n),
         NEW i \in Backward
  PROVE  /\ Past(n, i) <=> Exits(m, b, next, i) \/ (m.t = next.t /\ Past(m, i))
         /\ ~Past(n, i) => Fine(b.lo[i]) < At(n)[i] /\ At(n)[i] < Fine(b.hi[i])
<1> DEFINE y == Onto(m, next)[i]
           hi == Fine(b.hi[i])
           g == Fine(n.here.hi[i])
<1>1. /\ Under(m) /\ n.p = next.p /\ Chosen(m, b)
      /\ Lands(From(scene[m.chunk]), b, m.t, next)
  BY DEF Skipping
<1>2. /\ IsBox(b) /\ IsBox(n.here) /\ WithinAt(From(scene[m.chunk]), b, m.t)
      /\ At(n) = Onto(m, next) /\ Encloses(n.here, b) /\ m.t \in Int /\ next.t \in Int
  BY SkippingIs
<1>3. i \in Axes /\ i \in Moving /\ ~Forward(i)
  BY DEF Backward, Moving
<1>4. /\ StepsBackward(m, b, next, i) /\ y \in Int /\ m.t <= next.t
      /\ m.t = next.t => y = At(m)[i]
  BY <1>1, <1>2, <1>3, SkipSteps
<1>5. hi \in Int /\ g \in Int /\ hi <= g
  <2>1. b.hi[i] \in Int /\ n.here.hi[i] \in Int /\ b.hi[i] <= n.here.hi[i]
    BY <1>2, <1>3 DEF IsBox, Encloses
  <2> QED BY <2>1, FineIsEven
<1>6. CASE Exits(m, b, next, i)
  <2>1. n.p[i] = y - 1
    BY <1>1, <1>4, <1>6 DEF StepsBackward
  <2>2. n.p[i] < y
    BY <1>4, <2>1
  <2> QED BY <1>2, <1>6, <2>2 DEF Past
<1>7. CASE m.t = next.t /\ Past(m, i)
  BY <1>7, PastStays
<1>8. CASE ~Exits(m, b, next, i) /\ ~(m.t = next.t /\ Past(m, i))
  <2>1. n.p[i] = y /\ Fine(b.lo[i]) < y
    BY <1>1, <1>4, <1>8 DEF StepsBackward
  <2>2. y < hi
    <3>1. CASE m.t < next.t
      BY <1>4, <3>1 DEF StepsBackward
    <3>2. CASE ~(m.t < next.t)
      <4>1. m.t = next.t
        BY <1>2, <1>4, <3>2
      <4>2. ~Past(m, i)
        BY <1>8, <4>1
      <4> QED BY <1>1, <1>4, <4>1, <4>2 DEF Chosen
    <3> QED BY <3>1, <3>2
  <2> HIDE DEF y, hi, g
  <2>3. ~(y < y) /\ g # y
    BY <1>4, <1>5, <2>2 DEF y
  <2>4. ~Past(n, i)
    BY <1>2, <2>1, <2>3 DEF Past, y, g
  <2> QED BY <1>2, <1>8, <2>1, <2>2, <2>4 DEF y, hi
<1> QED BY <1>6, <1>7, <1>8

\* After a skip the march still faces its node.
LEMMA FacingAfter ==
  ASSUME Asked, NEW m, NEW k, NEW b, NEW l, NEW next, NEW n, Skipping(m, k, b, l, next, n)
  PROVE  Facing(n)
<1> SUFFICES ASSUME NEW i \in Moving, Forward(i) PROVE n.p[i] < Fine(n.here.hi[i])
  BY DEF Facing
<1>1. /\ Under(m) /\ Under(n) /\ n.p = next.p /\ Chosen(m, b)
      /\ Lands(From(scene[m.chunk]), b, m.t, next)
  BY DEF Skipping
<1>2. /\ IsBox(b) /\ IsBox(n.here) /\ WithinAt(From(scene[m.chunk]), b, m.t)
      /\ Encloses(n.here, b)
  BY SkippingIs
<1>3. i \in Axes
  BY DEF Moving
<1>4. StepsForward(m, b, next, i) /\ Onto(m, next)[i] \in Int
  BY <1>1, <1>2, SkipSteps
<1>5. b.hi[i] \in Int /\ n.here.hi[i] \in Int /\ b.hi[i] <= n.here.hi[i]
  BY <1>2, <1>3 DEF IsBox, Encloses
<1>6. /\ Fine(b.hi[i]) \in Int /\ Fine(n.here.hi[i]) \in Int /\ Fine(b.hi[i]) <= Fine(n.here.hi[i])
      /\ Fine(b.hi[i]) + 1 # Fine(n.here.hi[i])
  BY <1>5, FineIsEven
<1>7. n.p[i] <= Fine(n.here.hi[i])
  BY <1>1, <1>3 DEF Under, Holds
<1>8. CASE Exits(m, b, next, i)
  <2>1. n.p[i] = Fine(b.hi[i]) + 1
    BY <1>1, <1>4, <1>8 DEF StepsForward
  <2> QED BY <1>6, <1>7, <2>1
<1>9. CASE ~Exits(m, b, next, i)
  <2>1. n.p[i] = Onto(m, next)[i] /\ Onto(m, next)[i] < Fine(b.hi[i])
    BY <1>1, <1>4, <1>9 DEF StepsForward
  <2> QED BY <1>4, <1>6, <2>1
<1> QED BY <1>8, <1>9

\* After a skip the planes behind are still coarser than those yet to pass.
LEMMA RankedAfter ==
  ASSUME Asked, NEW m, NEW k, NEW b, NEW l, NEW next, NEW n, Skipping(m, k, b, l, next, n)
  PROVE  Ranked(n)
<1> DEFINE chunk == scene[m.chunk]
<1>1. /\ Under(m) /\ n.chunk = m.chunk /\ Ranked(m) /\ OnLevel(m, b, l)
      /\ Chosen(m, b) /\ Lands(From(chunk), b, m.t, next)
  BY DEF Skipping
<1>2. /\ WellMade(chunk) /\ IsBox(b) /\ At(n) = Onto(m, next) /\ WithinAt(From(chunk), b, m.t)
      /\ m.t \in Int /\ next.t \in Int
  BY SkippingIs
<1>3. \A j \in Backward : j \in Axes /\ j \in Moving /\ ~Forward(j)
  BY DEF Backward, Moving
<1> SUFFICES ASSUME NEW i \in Axes, Past(n, i)
             PROVE  \E e \in 0..chunk.depth :
                      /\ Aligned(chunk, e, At(n)[i])
                      /\ \A j \in Backward : ~Past(n, j) => ~Aligned(chunk, e, At(n)[j])
  BY <1>1 DEF Ranked
<1>4. i \in Backward
  BY DEF Past
<1>5. Exits(m, b, next, i) \/ (m.t = next.t /\ Past(m, i))
  BY <1>4, PastAfter
<1>6. CASE Exits(m, b, next, i)
  <2>1. PICK g \in [Axes -> Nat] : IsNodeAt(chunk, b, l, g)
    BY <1>1 DEF OnLevel
  <2>2. At(n)[i] = Fine(b.lo[i])
    <3>1. StepsBackward(m, b, next, i)
      BY <1>1, <1>2, <1>3, <1>4, SkipSteps
    <3> QED BY <1>2, <1>6, <3>1 DEF StepsBackward
  <2>3. l \in 0..chunk.depth /\ Aligned(chunk, l, At(n)[i])
    BY <1>2, <2>1, <2>2, NodesAreAligned
  <2>4. ASSUME NEW j \in Backward, ~Past(n, j), Aligned(chunk, l, At(n)[j]) PROVE FALSE
    <3>1. Fine(b.lo[j]) < At(n)[j] /\ At(n)[j] < Fine(b.hi[j])
      BY <2>4, PastAfter
    <3>2. j \in Axes
      BY <1>3
    <3>3. Fine(b.hi[j]) \in Int /\ At(n)[j] \in Int
      <4>1. b.hi[j] \in Int
        BY <1>2, <3>2 DEF IsBox
      <4>2. \A a \in Axes : Onto(m, next)[a] \in Int
        BY SkippingIs
      <4>3. At(n)[j] \in Int
        BY <1>2, <3>2, <4>2
      <4> QED BY <4>1, <4>3, FineIsEven
    <3>4. At(n)[j] <= Fine(b.hi[j])
      BY <3>1, <3>3
    <3>5. At(n)[j] = Fine(b.hi[j])
      BY <1>2, <2>1, <2>4, <3>1, <3>2, <3>4, AlignedInNode
    <3> QED BY <3>1, <3>3, <3>5
  <2> QED BY <2>3, <2>4
<1>7. CASE m.t = next.t /\ Past(m, i)
  <2>1. At(n) = At(m)
    BY <1>2, <1>7 DEF At, Onto
  <2>2. PICK e \in 0..chunk.depth :
          /\ Aligned(chunk, e, At(m)[i])
          /\ \A j \in Backward : ~Past(m, j) => ~Aligned(chunk, e, At(m)[j])
    BY <1>1, <1>7 DEF Ranked
  <2>3. \A j \in Backward : ~Past(n, j) => ~Past(m, j)
    BY <1>7, PastAfter
  <2> QED BY <2>1, <2>2, <2>3
<1> QED BY <1>5, <1>6, <1>7

-----------------------------------------------------------------------------
(* The planes that are still ahead.                                        *)

Plane(chunk, n) == Fine(chunk.voxelSize * n)
Remains(m, i, r) ==
  /\ r \in Nat /\ r <= Width(DepthOf(m))
  /\ i \in Moving /\ Forward(i) => Plane(scene[m.chunk], Width(DepthOf(m)) - r) <= At(m)[i]
  /\ i \in Backward => /\ At(m)[i] <= Plane(scene[m.chunk], r)
                       /\ ~Past(m, i) => At(m)[i] < Plane(scene[m.chunk], r)

\* The planes of voxels are in the order of their numbers.
LEMMA PlaneOrder ==
  ASSUME Asked, NEW chunk, WellMade(chunk), NEW n \in Int, NEW m \in Int
  PROVE  /\ Plane(chunk, n) \in Int /\ Plane(chunk, m) \in Int
         /\ Plane(chunk, n) < Plane(chunk, m) <=> n < m
         /\ Plane(chunk, n) <= Plane(chunk, m) <=> n <= m
<1> DEFINE s == chunk.voxelSize
           x == s * n
           y == s * m
<1>1. s \in Nat /\ s > 0
  BY DEF WellMade
<1>2. x \in Int /\ y \in Int /\ (x < y <=> n < m) /\ (x <= y <=> n <= m)
  <2> HIDE DEF s
  <2> QED BY <1>1, OrderOfProducts
<1> HIDE DEF x, y
<1>3. /\ Fine(x) \in Int /\ Fine(y) \in Int
      /\ (x <= y <=> Fine(x) <= Fine(y)) /\ (x < y <=> Fine(x) < Fine(y))
  BY <1>2, FineIsEven
<1> QED BY <1>2, <1>3 DEF Plane, x, y

\* A skip leaves fewer planes ahead on the axes it exits on, and no more on the others.
LEMMA RemainsAfter ==
  ASSUME Asked, NEW m, NEW k, NEW b, NEW l, NEW next, NEW n, Skipping(m, k, b, l, next, n),
         NEW i \in Axes, NEW r, Remains(m, i, r)
  PROVE  \E q : Remains(n, i, q) /\ q <= r /\ (Exits(m, b, next, i) => q < r)
<1> DEFINE chunk == scene[m.chunk]
           w == Width(DepthOf(m))
           x == At(m)[i]
           y == At(n)[i]
<1>1. /\ Under(m) /\ n.chunk = m.chunk /\ OnLevel(m, b, l)
      /\ Chosen(m, b) /\ Lands(From(chunk), b, m.t, next)
  BY DEF Skipping
<1>2. /\ WellMade(chunk) /\ IsBox(b) /\ At(n) = Onto(m, next) /\ WithinAt(From(chunk), b, m.t)
      /\ m.t \in Int /\ next.t \in Int
  BY SkippingIs
<1>3. PICK g \in [Axes -> Nat] : IsNodeAt(chunk, b, l, g)
  BY <1>1 DEF OnLevel
<1> DEFINE lo == Width(l) * g[i]
           hi == lo + Width(l)
<1>4. /\ lo \in Nat /\ hi \in Nat /\ hi <= w /\ lo < hi /\ w \in Nat
      /\ Fine(b.lo[i]) = Plane(chunk, lo) /\ Fine(b.hi[i]) = Plane(chunk, hi)
  <2>1. /\ Width(l) \in Nat /\ Width(l) > 0 /\ lo \in Nat
        /\ b.lo[i] = chunk.voxelSize * lo /\ b.hi[i] = chunk.voxelSize * hi
    BY <1>2, <1>3, EdgesOfNode
  <2>2. hi <= w /\ w \in Nat
    <3>1. chunk.depth \in 0..chunk.depth
      BY <1>2 DEF WellMade
    <3> QED BY <1>2, <1>3, <3>1 DEF IsNodeAt, DepthOf, WellMade
  <2> HIDE DEF lo
  <2>3. hi \in Nat /\ lo < hi
    BY <2>1
  <2> QED BY <2>1, <2>2, <2>3 DEF Plane
<1>5. /\ Remains(m, i, r) <=>
           /\ r \in Nat /\ r <= w
           /\ i \in Moving /\ Forward(i) => Plane(chunk, w - r) <= x
           /\ i \in Backward => x <= Plane(chunk, r) /\ (~Past(m, i) => x < Plane(chunk, r))
      /\ \A q : Remains(n, i, q) <=>
           /\ q \in Nat /\ q <= w
           /\ i \in Moving /\ Forward(i) => Plane(chunk, w - q) <= y
           /\ i \in Backward => y <= Plane(chunk, q) /\ (~Past(n, i) => y < Plane(chunk, q))
  BY <1>1 DEF Remains, DepthOf
<1>6. i \in Backward <=> i \in Moving /\ ~Forward(i)
  BY DEF Backward
<1>7. /\ i \in Moving /\ Forward(i) => StepsForward(m, b, next, i)
      /\ i \in Backward => StepsBackward(m, b, next, i)
      /\ i \in Moving => y \in Int /\ x \in Int /\ m.t <= next.t
  <2>1. i \in Moving => x \in Int
    BY <1>1, NudgedByOne
  <2> QED BY <1>1, <1>2, <1>6, <2>1, SkipSteps
<1>8. i \in Backward => (Past(n, i) <=> Exits(m, b, next, i) \/ (m.t = next.t /\ Past(m, i)))
  BY PastAfter
<1>9. r \in Nat /\ r <= w
  BY <1>5
<1>10. Plane(chunk, w - r) \in Int /\ Plane(chunk, r) \in Int /\ Plane(chunk, lo) \in Int /\ Plane(chunk, hi) \in Int
  <2>1. w - r \in Int /\ r \in Int /\ lo \in Int /\ hi \in Int
    BY <1>4, <1>9
  <2> HIDE DEF w, lo, hi, chunk
  <2> QED BY <1>2, <2>1, PlaneOrder DEF chunk
<1> HIDE DEF chunk, w, x, y, lo, hi
<1>11. CASE i \in Moving /\ Forward(i) /\ Exits(m, b, next, i)
  <2> DEFINE q == w - hi
  <2>1. y = Plane(chunk, hi) /\ x < y
    BY <1>2, <1>4, <1>7, <1>11 DEF StepsForward, x, y
  <2>2. Plane(chunk, w - r) < Plane(chunk, hi)
    BY <1>5, <1>7, <1>10, <1>11, <2>1
  <2>3. w - r < hi
    <3>1. w - r \in Int /\ hi \in Int
      BY <1>4, <1>9
    <3> QED BY <1>2, <2>2, <3>1, PlaneOrder DEF chunk
  <2>4. q \in Nat /\ q <= w /\ q < r /\ q <= r /\ w - q = hi
    BY <1>4, <1>9, <2>3
  <2>5. Plane(chunk, w - q) <= y
    BY <1>10, <2>1, <2>4
  <2> HIDE DEF q
  <2> QED BY <1>5, <1>6, <1>11, <2>4, <2>5
<1>12. CASE i \in Backward /\ Exits(m, b, next, i)
  <2>1. y = Plane(chunk, lo) /\ y <= x /\ (m.t < next.t => y < x) /\ (m.t < next.t \/ ~Past(m, i))
    BY <1>2, <1>4, <1>7, <1>12 DEF StepsBackward, x, y
  <2>2. x <= Plane(chunk, r) /\ (~Past(m, i) => x < Plane(chunk, r))
    BY <1>5, <1>12
  <2>3. Plane(chunk, lo) < Plane(chunk, r)
    BY <1>6, <1>7, <1>10, <1>12, <2>1, <2>2
  <2>4. lo < r
    BY <1>2, <1>4, <1>9, <2>3, PlaneOrder DEF chunk
  <2>5. lo \in Nat /\ lo <= w /\ lo <= r
    BY <1>4, <1>9, <2>4
  <2>6. y <= Plane(chunk, lo) /\ Past(n, i)
    BY <1>8, <1>10, <1>12, <2>1
  <2> QED BY <1>5, <1>6, <1>12, <2>4, <2>5, <2>6
<1>13. CASE ~Exits(m, b, next, i)
  <2>1. ASSUME i \in Moving, Forward(i) PROVE Plane(chunk, w - r) <= y
    <3>1. x <= y
      BY <1>2, <1>7, <2>1 DEF StepsForward, x, y
    <3> QED BY <1>5, <1>7, <1>10, <2>1, <3>1
  <2>2. ASSUME i \in Backward PROVE y <= Plane(chunk, r) /\ (~Past(n, i) => y < Plane(chunk, r))
    <3>1. y <= x /\ (m.t < next.t => y < x)
      BY <1>2, <1>7, <2>2 DEF StepsBackward, x, y
    <3>2. x <= Plane(chunk, r) /\ (~Past(m, i) => x < Plane(chunk, r))
      BY <1>5, <2>2
    <3>3. ~Past(n, i) => m.t < next.t \/ ~Past(m, i)
      BY <1>2, <1>6, <1>7, <1>8, <2>2
    <3> QED BY <1>6, <1>7, <1>10, <2>2, <3>1, <3>2, <3>3
  <2>3. Remains(n, i, r)
    BY <1>5, <1>9, <2>1, <2>2
  <2> QED BY <1>9, <1>13, <2>3
<1>14. Exits(m, b, next, i) => i \in Moving
  BY DEF Exits
<1> QED BY <1>6, <1>11, <1>12, <1>13, <1>14

\* Each plane ahead may cost a skip and a descent to the last level.
Afford(m, k, r) ==
  (DepthOf(m) + 1) * (r[1] + r[2] + r[3]) + k + 1 <= m.left
Steady(m) ==
  \E k \in 0..DepthOf(m) : \E r \in [Axes -> Nat] :
    /\ Stacked(m, k) /\ Facing(m) /\ Ranked(m)
    /\ \A i \in Axes : Remains(m, i, r[i])
    /\ Afford(m, k, r)

\* A march that can afford its way has a step left.
LEMMA SteadyHasWork ==
  ASSUME Asked, NEW m, Under(m), Steady(m)
  PROVE  m.left > 0
<1>1. PICK k \in 0..DepthOf(m), r \in [Axes -> Nat] : Afford(m, k, r)
  BY DEF Steady
<1> DEFINE d == DepthOf(m)
           s == r[1] + r[2] + r[3]
<1>2. d \in Nat /\ k \in Nat /\ m.left \in Int
  BY UnderIs DEF WellMade, DepthOf
<1>3. s \in Nat
  <2>1. r[1] \in Nat /\ r[2] \in Nat /\ r[3] \in Nat
    BY DEF Axes
  <2> QED BY <2>1
<1>4. (d + 1) * s + k + 1 <= m.left
  BY <1>1 DEF Afford
<1> HIDE DEF d, s
<1>5. (d + 1) * s \in Nat
  BY <1>2, <1>3
<1> QED BY <1>2, <1>4, <1>5

\* A skip leaves a march that can afford its way: some axis has a plane less.
LEMMA SteadyAfterSkip ==
  ASSUME Asked, NEW m, NEW k, NEW b, NEW l, NEW next, NEW n, Skipping(m, k, b, l, next, n),
         NEW r \in [Axes -> Nat], \A i \in Axes : Remains(m, i, r[i]), Afford(m, k, r),
         n.left = m.left - 1
  PROVE  Steady(n)
<1>1. /\ Under(m) /\ Under(n) /\ n.chunk = m.chunk /\ Stacked(m, k) /\ BackTo(m, next, n)
  BY DEF Skipping
<1>2. Facing(n) /\ Ranked(n)
  BY FacingAfter, RankedAfter
<1>3. PICK e \in k..DepthOf(m) : Stacked(n, e)
  BY <1>1, ReturnsInward
<1>4. \A i \in Axes : \E q : Remains(n, i, q) /\ q <= r[i] /\ (Exits(m, b, next, i) => q < r[i])
  BY RemainsAfter
<1> DEFINE v == [i \in Axes |-> CHOOSE q : /\ Remains(n, i, q) /\ q <= r[i]
                                           /\ Exits(m, b, next, i) => q < r[i]]
<1>5. \A i \in Axes : Remains(n, i, v[i]) /\ v[i] <= r[i] /\ (Exits(m, b, next, i) => v[i] < r[i])
  BY <1>4
<1>6. v \in [Axes -> Nat]
  BY <1>5 DEF Remains
<1> HIDE DEF v
<1>7. PICK j \in Axes : Exits(m, b, next, j)
  BY SkippingIs DEF Moving
<1> DEFINE d == DepthOf(m)
           s == r[1] + r[2] + r[3]
           u == v[1] + v[2] + v[3]
<1>8. s \in Nat /\ u \in Nat /\ u + 1 <= s
  <2>1. /\ r[1] \in Nat /\ r[2] \in Nat /\ r[3] \in Nat /\ v[1] \in Nat /\ v[2] \in Nat /\ v[3] \in Nat
        /\ v[1] <= r[1] /\ v[2] <= r[2] /\ v[3] <= r[3]
    BY <1>5, <1>6 DEF Axes
  <2>2. v[1] < r[1] \/ v[2] < r[2] \/ v[3] < r[3]
    BY <1>5, <1>7 DEF Axes
  <2> QED BY <2>1, <2>2
<1>9. d \in Nat /\ k \in Nat /\ e \in Nat /\ e <= d /\ DepthOf(n) = d /\ m.left \in Int
  BY <1>1, UnderIs DEF WellMade, DepthOf, Stacked
<1>10. (d + 1) * s + k + 1 <= m.left
  BY DEF Afford
<1> HIDE DEF d, s, u
<1>11. (d + 1) * u + e + 1 <= n.left
  <2> DEFINE x == (d + 1) * u
             y == (d + 1) * s
  <2>1. x \in Int /\ y \in Int /\ x + d + 1 <= y
    <3> DEFINE g == s - u - 1
    <3>1. g \in Nat /\ s = u + 1 + g
      BY <1>8
    <3> HIDE DEF g
    <3>2. y = x + (d + 1) + (d + 1) * g
      BY <1>8, <1>9, <3>1
    <3>3. (d + 1) * g \in Nat /\ x \in Nat
      BY <1>8, <1>9, <3>1
    <3> DEFINE z == (d + 1) * g
    <3>4. z \in Nat /\ y = x + (d + 1) + z
      BY <3>2, <3>3
    <3> HIDE DEF x, y, z
    <3> QED BY <1>9, <3>3, <3>4
  <2>2. y + k + 1 <= m.left
    BY <1>10
  <2> HIDE DEF x, y
  <2>3. x + e + 1 <= m.left - 1
    BY <1>9, <2>1, <2>2
  <2> QED BY <2>3 DEF x
<1>12. Afford(n, e, v)
  BY <1>9, <1>11 DEF Afford, u
<1>13. e \in 0..DepthOf(n)
  BY <1>3 DEF Stacked
<1> QED BY <1>2, <1>3, <1>5, <1>6, <1>12, <1>13 DEF Steady

\* The budget affords the way through a whole chunk (StepBudget).
LEMMA SteadyAtStart ==
  ASSUME Asked, Intact, NEW c \in Intersected, NEW m, Entered(c, m)
  PROVE  Steady(m)
<1> DEFINE chunk == scene[c]
           b == Root(chunk)
           d == chunk.depth
           w == Width(d)
           from == From(chunk)
           t == EntryOf(c)
           r == [i \in Axes |-> w]
<1>1. /\ Under(m) /\ m.chunk = c /\ m.t = t /\ m.p = PointAt(from, t)
      /\ m.here = b /\ m.stack = <<>> /\ m.left = StepBudget(chunk) /\ DepthOf(m) = d
      /\ At(m) = m.p
  BY DEF Entered, DepthOf, At
<1>2. /\ Listed(c) /\ t \in Int /\ WithinAt(from, b, t)
      /\ \A i \in Moving : t < OutAt(from, b, i)
  BY EntersWithin
<1>3. WellMade(chunk)
  BY <1>2, ChunksAreGrown
<1>4. /\ IsBox(b) /\ from \in [Axes -> Int] /\ d \in Nat /\ d \in 0..d /\ w \in Nat /\ w > 0
      /\ chunk.worldSize = chunk.voxelSize * w /\ chunk.voxelSize \in Nat
  BY <1>3, RootIsBoxed DEF WellMade
<1>5. PICK g \in [Axes -> Nat] : IsNodeAt(chunk, b, d, g)
  BY <1>3, RootIsNode
<1>6. \A i \in Axes : /\ b.lo[i] = 0 /\ b.hi[i] = chunk.voxelSize * w
                      /\ Fine(b.lo[i]) = Plane(chunk, 0) /\ Fine(b.hi[i]) = Plane(chunk, w)
                      /\ Fine(b.lo[i]) \in Int /\ Fine(b.hi[i]) \in Int
  <2> TAKE i \in Axes
  <2>1. b.lo[i] = 0 /\ b.hi[i] = chunk.voxelSize * w
    BY <1>3, <1>4, RootIsNode
  <2>2. b.lo[i] \in Int /\ b.hi[i] \in Int
    BY <1>4 DEF IsBox
  <2>3. chunk.voxelSize * 0 = 0
    BY <1>4
  <2>4. Fine(b.lo[i]) = Plane(chunk, 0) /\ Fine(b.hi[i]) = Plane(chunk, w)
    BY <2>1, <2>3 DEF Plane
  <2>5. Fine(b.lo[i]) \in Int /\ Fine(b.hi[i]) \in Int
    BY <2>2, FineIsEven
  <2> QED BY <2>1, <2>4, <2>5
<1> HIDE DEF b, from, t, w, d
<1>7. m.p \in [Axes -> Int] /\ Holds(b, m.p)
  BY <1>1, UnderIs DEF Under
<1>8. ASSUME NEW i \in Moving
      PROVE  /\ i \in Axes
             /\ Forward(i) => m.p[i] < Fine(b.hi[i])
             /\ ~Forward(i) => Fine(b.lo[i]) < m.p[i]
  <2>1. i \in Axes
    BY DEF Moving
  <2>2. b.lo[i] \in Int /\ b.hi[i] \in Int
    BY <1>4, <2>1 DEF IsBox
  <2>3. SideOf(from, i, t, b.hi[i]) /\ SideOf(from, i, t, b.lo[i])
    BY <1>2, <1>4, <2>2, SidesOfPlanes
  <2> DEFINE out == OutAt(from, b, i)
             p == m.p[i]
             lo == Fine(b.lo[i])
             hi == Fine(b.hi[i])
  <2>4. t < out /\ p \in Int /\ lo \in Int /\ hi \in Int /\ t \in Int
    BY <1>2, <1>6, <1>7, <2>1
  <2>5. /\ Forward(i) => out \in Int /\ (hi <= p <=> out <= t)
        /\ ~Forward(i) => out \in Int /\ (p <= lo <=> out <= t)
    BY <1>1, <2>3 DEF SideOf, OutAt, ExitPlane, Forward
  <2> HIDE DEF out, p, lo, hi
  <2>6. (Forward(i) => p < hi) /\ (~Forward(i) => lo < p)
    BY <2>4, <2>5
  <2> QED BY <2>1, <2>6 DEF p, lo, hi
<1>9. Facing(m)
  BY <1>1, <1>8 DEF Facing
<1>10. \A i \in Backward : i \in Moving /\ i \in Axes /\ ~Forward(i)
  BY DEF Backward, Moving
<1>11. ASSUME NEW i \in Backward
       PROVE  /\ Past(m, i) <=> At(m)[i] = Fine(b.hi[i])
              /\ Fine(b.lo[i]) < At(m)[i] /\ At(m)[i] <= Fine(b.hi[i]) /\ At(m)[i] \in Int
  <2>1. ~(m.p[i] < m.p[i]) /\ m.p[i] \in Int /\ m.p[i] <= Fine(b.hi[i])
    BY <1>7, <1>10 DEF Holds
  <2> QED BY <1>1, <1>8, <1>10, <2>1 DEF Past
<1>12. Ranked(m)
  <2> SUFFICES ASSUME NEW i \in Axes, Past(m, i)
               PROVE  /\ Aligned(chunk, d, At(m)[i])
                      /\ \A j \in Backward : ~Past(m, j) => ~Aligned(chunk, d, At(m)[j])
    BY <1>1, <1>4 DEF Ranked, d
  <2>1. i \in Backward
    BY DEF Past
  <2>2. Aligned(chunk, d, At(m)[i])
    BY <1>3, <1>5, <1>10, <1>11, <2>1, NodesAreAligned
  <2>3. ASSUME NEW j \in Backward, ~Past(m, j), Aligned(chunk, d, At(m)[j]) PROVE FALSE
    <3>1. At(m)[j] # Fine(b.hi[j]) /\ Fine(b.lo[j]) < At(m)[j] /\ At(m)[j] <= Fine(b.hi[j]) /\ j \in Axes
      BY <1>10, <1>11, <2>3
    <3> HIDE DEF chunk
    <3> QED BY ONLY Asked, <1>3, <1>5, <2>3, <3>1, AlignedInNode
  <2> QED BY <2>2, <2>3
<1>13. ASSUME NEW i \in Axes PROVE Remains(m, i, r[i])
  <2>1. r[i] = w /\ w - w = 0 /\ w <= w
    BY <1>4
  <2>2. ASSUME i \in Moving, Forward(i) PROVE Plane(chunk, 0) <= At(m)[i]
    BY <1>1, <1>6, <1>7 DEF Holds
  <2>3. ASSUME i \in Backward
        PROVE  At(m)[i] <= Plane(chunk, w) /\ (~Past(m, i) => At(m)[i] < Plane(chunk, w))
    <3>1. Plane(chunk, w) \in Int /\ Fine(b.hi[i]) = Plane(chunk, w)
      BY <1>6
    <3> QED BY <1>11, <2>3, <3>1
  <2> QED BY <1>1, <1>4, <2>1, <2>2, <2>3 DEF Remains, w
<1>14. Afford(m, d, r)
  <2>1. m.left >= (3 * w + 1) * (d + 1) + 16 /\ m.left \in Int
    <3>1. limits.steps >= Estimated(chunk)
      BY <1>2 DEF Intact, Listed
    <3>2. /\ Estimated(chunk) = (3 * w + 1) * (d + 1) + 16
          /\ StepBudget(chunk) \in Int
          /\ limits.steps >= Estimated(chunk) => StepBudget(chunk) >= Estimated(chunk)
      BY <1>2, BudgetIs DEF w, d
    <3> QED BY <1>1, <3>1, <3>2
  <2>2. r[1] + r[2] + r[3] = 3 * w
    BY <1>4 DEF Axes
  <2> DEFINE x == (d + 1) * (3 * w)
  <2>3. (3 * w + 1) * (d + 1) = x + d + 1 /\ x \in Int
    BY <1>4
  <2> HIDE DEF x
  <2>4. x + d + 1 <= m.left
    BY <1>4, <2>1, <2>3
  <2> QED BY <1>1, <2>2, <2>4 DEF Afford, x
<1>15. Stacked(m, d)
  <2>1. Len(m.stack) = 0
    BY <1>1
  <2>2. OnLevel(m, m.here, d)
    BY <1>1, <1>5 DEF OnLevel
  <2> QED BY <1>1, <1>4, <2>1, <2>2 DEF Stacked
<1>16. r \in [Axes -> Nat]
  BY <1>4
<1> HIDE DEF r
<1> QED BY <1>1, <1>4, <1>9, <1>12, <1>13, <1>14, <1>15, <1>16 DEF Steady

-----------------------------------------------------------------------------
(* The work of every turn.                                                 *)

\* A skip, of the node or of an octant of it, starts from a steady march.
LEMMA SkippingHolds ==
  ASSUME Asked, Under(march), NEW k, Stacked(march, k), Facing(march), Ranked(march),
         SkipLeaf \/ SkipOctant, march' # Idle
  PROVE  /\ \E b, l, next : Skipping(march, k, b, l, next, march')
         /\ march'.left = march.left - 1
<1>1. /\ WellMade(Chunk) /\ march.p \in [Axes -> Int] /\ IsNode(Chunk, march.here) /\ IsBox(march.here)
      /\ Holds(march.here, march.p) /\ scene[march.chunk] = Chunk
  BY UnderIs DEF Chunk, Under
<1>2. k \in 0..Chunk.depth /\ OnLevel(march, march.here, k)
  BY <1>1 DEF Stacked, DepthOf
<1>3. PICK n \in [Axes -> Nat] : IsNodeAt(Chunk, march.here, k, n)
  BY <1>1, <1>2 DEF OnLevel
<1>4. Chunk.depth \in Nat /\ k \in Nat
  BY <1>1, <1>2 DEF WellMade
<1>5. ASSUME NEW b, NEW l \in 0..k, k <= l + 1, OnLevel(march, b, l), IsBox(b), IsNode(Chunk, b),
             Encloses(march.here, b), Holds(b, march.p), SkipPast(b),
             \A i \in Axes : march.p[i] < Fine(b.hi[i]) \/ b.hi[i] = march.here.hi[i]
      PROVE  Skipping(march, k, b, l, ExitOf(b), march') /\ march'.left = march.left - 1
  <2>1. Chosen(march, b)
    BY ONLY Asked, Under(march), Facing(march), <1>5, ChosenIs
  <2>2. Skipped(march, b, ExitOf(b), march')
    BY ONLY Asked, Under(march), <1>5, SkipCases
  <2>3. BackTo(march, ExitOf(b), march')
    BY ONLY Asked, Under(march), march' # Idle, <1>5, SkipReturns
  <2> QED BY <1>1, <1>5, <2>1, <2>2, <2>3 DEF Skipping, Skipped
<1>6. CASE SkipLeaf
  <2>1. Encloses(march.here, march.here)
    BY <1>1 DEF IsBox, Encloses
  <2>2. SkipPast(march.here)
    BY <1>6 DEF SkipLeaf
  <2>3. k \in 0..k /\ k <= k + 1
    BY <1>4
  <2> QED BY ONLY <1>1, <1>2, <1>5, <2>1, <2>2, <2>3
<1>7. CASE SkipOctant
  <2> DEFINE b == Child(march.here, OctantNow)
  <2>1. SkipPast(b) /\ ~IsAirNode(Chunk, march.here) /\ ~IsSolidNode(Chunk, march.here)
    BY <1>7 DEF SkipOctant, Interior
  <2>2. k > 0
    <3>1. k # 0
      BY <1>1, <1>3, <2>1, VoxelsAreLeaves
    <3> QED BY <1>4, <3>1
  <2>3. /\ OctantNow \in 0..7 /\ Holds(b, march.p)
        /\ \A i \in Axes : march.p[i] < Fine(b.hi[i]) \/ b.hi[i] = march.here.hi[i]
    BY <1>1, <1>3, <2>2, OctantHoldsPoint
  <2>4. IsNodeAt(Chunk, b, k - 1, HalfOfPlace(n, OctantNow)) /\ HalfOf(Chunk, march.here, OctantNow, k)
    BY <1>1, <1>3, <2>2, <2>3, ChildOfNode
  <2>5. Encloses(march.here, b)
    BY <2>4 DEF HalfOf, Encloses
  <2>6. HalfOfPlace(n, OctantNow) \in [Axes -> Nat] /\ k - 1 \in 0..Chunk.depth
    BY <2>4 DEF IsNodeAt
  <2> HIDE DEF b
  <2>7. OnLevel(march, b, k - 1) /\ IsNode(Chunk, b)
    BY <1>1, <2>4, <2>6 DEF OnLevel, IsNode
  <2>8. IsBox(b)
    BY <1>1, <2>7, NodesAreBoxed
  <2>9. k - 1 \in 0..k /\ k <= (k - 1) + 1
    BY <1>4, <2>2
  <2> QED BY ONLY <1>5, <2>1, <2>3, <2>5, <2>7, <2>8, <2>9
<1> QED BY <1>6, <1>7

\* Going into an octant costs a step and a level.
LEMMA SteadyAfterDescend ==
  ASSUME Asked, Intact, Under(march), Steady(march), Descend
  PROVE  Steady(march')
<1> DEFINE b == Child(march.here, OctantNow)
           n == march'
           d == Chunk.depth
           c == march.chunk
<1>1. PICK k \in 0..DepthOf(march), r \in [Axes -> Nat] :
        /\ Stacked(march, k) /\ Facing(march) /\ Ranked(march)
        /\ \A i \in Axes : Remains(march, i, r[i])
        /\ Afford(march, k, r)
  BY DEF Steady
<1>2. /\ WellMade(Chunk) /\ march.p \in [Axes -> Int] /\ IsNode(Chunk, march.here) /\ IsBox(march.here)
      /\ Holds(march.here, march.p) /\ scene[march.chunk] = Chunk /\ Listed(march.chunk)
      /\ march.stack \in Seq(Nodes(Chunk)) /\ march.left \in Int /\ From(Chunk) \in [Axes -> Int]
      /\ march.t \in Int
  BY UnderIs DEF Chunk, Under
<1>3. PICK g \in [Axes -> Nat] : IsNodeAt(Chunk, march.here, k, g)
  BY <1>1, <1>2 DEF Stacked, OnLevel
<1>4. d \in Nat /\ k \in 0..d /\ k \in Nat /\ k <= d /\ DepthOf(march) = d
  BY <1>1, <1>2 DEF WellMade, DepthOf
<1>5. ~IsAirNode(Chunk, march.here) /\ ~IsSolidNode(Chunk, march.here)
  BY DEF Descend, Interior
<1>6. k > 0
  <2>1. k # 0
    BY <1>2, <1>3, <1>5, VoxelsAreLeaves
  <2> QED BY <1>4, <2>1
<1>7. /\ OctantNow \in 0..7 /\ Holds(b, march.p)
      /\ \A i \in Axes : march.p[i] < Fine(b.hi[i]) \/ b.hi[i] = march.here.hi[i]
  BY <1>2, <1>3, <1>6, OctantHoldsPoint
<1>8. IsNodeAt(Chunk, b, k - 1, HalfOfPlace(g, OctantNow)) /\ HalfOf(Chunk, march.here, OctantNow, k)
  BY <1>2, <1>3, <1>6, <1>7, ChildOfNode
<1>9. Encloses(march.here, b)
  BY <1>8 DEF HalfOf, Encloses
<1>10. HalfOfPlace(g, OctantNow) \in [Axes -> Nat] /\ k - 1 \in 0..d
  BY <1>8 DEF IsNodeAt
<1>11. Deeper(march, b, n)
  BY DescendCases
<1> HIDE DEF b, n, d
<1>12. OnLevel(march, b, k - 1) /\ IsBox(b)
  <2>1. OnLevel(march, b, k - 1) /\ IsNode(Chunk, b)
    BY <1>2, <1>8, <1>10 DEF OnLevel, IsNode, d
  <2> QED BY <1>2, <2>1, NodesAreBoxed
<1>13. /\ Under(n) /\ n.chunk = c /\ n.t = march.t /\ n.p = march.p /\ n.left = march.left - 1
       /\ n.here = b /\ n.stack = Append(march.stack, march.here) /\ DepthOf(n) = d
       /\ At(n) = At(march)
       /\ \A a, l : OnLevel(n, a, l) <=> OnLevel(march, a, l)
  <2>1. Len(march.stack) < limits.frames
    <3>1. limits.frames >= d
      BY <1>2 DEF Intact, Listed, d
    <3>2. limits.frames \in Nat \ {0}
      BY RayAssumption DEF Asked
    <3>3. Len(march.stack) = d - k
      BY <1>1, <1>4 DEF Stacked
    <3> QED BY <1>4, <1>6, <3>1, <3>2, <3>3
  <2>2. /\ Under(n) /\ n.chunk = c /\ n.t = march.t /\ n.p = march.p /\ n.left = march.left - 1
        /\ n.here = b /\ n.stack = Append(march.stack, march.here)
    BY <1>11, <2>1 DEF Deeper
  <2> QED BY <1>2, <2>2 DEF DepthOf, At, OnLevel, d
<1>14. Stacked(n, k - 1)
  <2> DEFINE s == march.stack
             e == Len(march.stack)
  <2>1. e = d - k /\ e \in Nat /\ s \in Seq(Nodes(Chunk))
    BY <1>1, <1>2, <1>4 DEF Stacked
  <2>2. /\ Len(n.stack) = e + 1 /\ n.stack[e + 1] = march.here
        /\ \A l \in 1..e : n.stack[l] = s[l]
    BY <1>2, <1>13
  <2>3. \A l \in 1..e : OnLevel(march, s[l], d + 1 - l) /\ Encloses(s[l], march.here) /\ IsBox(s[l])
    <3>1. \A l \in 1..e : OnLevel(march, s[l], d + 1 - l) /\ Encloses(s[l], march.here)
      BY <1>1, <1>4 DEF Stacked
    <3>2. \A l \in 1..e : IsBox(s[l])
      BY <3>1, LevelsAreNodes
    <3> QED BY <3>1, <3>2
  <2>4. \A l \in 1..e : \A a \in 1..l : Encloses(s[a], s[l])
    BY <1>1 DEF Stacked
  <2> HIDE DEF s, e
  <2>5. \A l \in 1..e : Encloses(s[l], b)
    BY ONLY <1>2, <1>9, <1>12, <2>3, EnclosesTwice
  <2>6. Encloses(march.here, march.here)
    BY <1>2 DEF Encloses, IsBox
  <2>7. \A l \in 1..(e + 1) : OnLevel(n, n.stack[l], d + 1 - l) /\ Encloses(n.stack[l], b)
    <3> TAKE l \in 1..(e + 1)
    <3>1. CASE l = e + 1
      <4>1. d + 1 - l = k /\ n.stack[l] = march.here
        BY <1>4, <2>1, <2>2, <3>1
      <4>2. OnLevel(march, march.here, k)
        BY <1>1 DEF Stacked
      <4> QED BY <1>9, <1>13, <4>1, <4>2
    <3>2. CASE l # e + 1
      <4>1. l \in 1..e
        BY <2>1, <3>2
      <4> QED BY <1>13, <2>2, <2>3, <2>5, <4>1
    <3> QED BY <3>1, <3>2
  <2>8. \A l \in 1..(e + 1) : \A a \in 1..l : Encloses(n.stack[a], n.stack[l])
    <3> TAKE l \in 1..(e + 1)
    <3> TAKE a \in 1..l
    <3>1. CASE l = e + 1
      <4>1. CASE a = e + 1
        BY <2>2, <2>6, <3>1, <4>1
      <4>2. CASE a # e + 1
        <5>1. a \in 1..e
          BY <2>1, <3>1, <4>2
        <5> QED BY <2>2, <2>3, <3>1, <5>1
      <4> QED BY <4>1, <4>2
    <3>2. CASE l # e + 1
      <4>1. l \in 1..e /\ a \in 1..e
        BY <2>1, <3>2
      <4> QED BY <2>2, <2>4, <4>1
    <3> QED BY <3>1, <3>2
  <2>9. e + 1 = d - (k - 1)
    BY <1>4, <2>1
  <2> QED BY <1>10, <1>12, <1>13, <2>2, <2>7, <2>8, <2>9 DEF Stacked
<1>15. \A i \in Axes : Past(n, i) <=> Past(march, i)
  <2> TAKE i \in Axes
  <2>1. b.hi[i] \in Int /\ march.here.hi[i] \in Int /\ b.hi[i] <= march.here.hi[i] /\ At(march)[i] \in Int
    <3>1. PointAt(From(Chunk), march.t) \in [Axes -> Int] /\ At(march) = PointAt(From(Chunk), march.t)
      BY <1>2, PointIsInt DEF At
    <3> QED BY <1>2, <1>9, <1>12, <3>1 DEF IsBox, Encloses
  <2>2. Fine(b.hi[i]) \in Int /\ Fine(march.here.hi[i]) \in Int
    BY <2>1, FineIsEven
  <2>3. march.p[i] < Fine(b.hi[i]) \/ b.hi[i] = march.here.hi[i]
    BY <1>7
  <2>4. march.p[i] <= Fine(march.here.hi[i]) /\ march.p[i] <= Fine(b.hi[i]) /\ march.p[i] \in Int
    BY <1>2, <1>7 DEF Holds
  <2>5. Fine(b.hi[i]) <= Fine(march.here.hi[i])
    BY <2>1, FineIsEven
  <2>6. march.p[i] < At(march)[i] \/ Fine(b.hi[i]) = At(march)[i]
          <=> march.p[i] < At(march)[i] \/ Fine(march.here.hi[i]) = At(march)[i]
    BY <2>1, <2>2, <2>3, <2>4, <2>5
  <2> QED BY <1>13, <2>6 DEF Past
<1>16. Facing(n)
  <2> SUFFICES ASSUME NEW i \in Moving, Forward(i) PROVE march.p[i] < Fine(b.hi[i])
    BY <1>13 DEF Facing
  <2>1. i \in Axes
    BY DEF Moving
  <2>2. march.p[i] < Fine(march.here.hi[i])
    BY <1>1 DEF Facing
  <2> QED BY <1>7, <2>1, <2>2
<1>17. \A i \in Backward : i \in Axes
  BY DEF Backward, Moving
<1>18. Ranked(n)
  BY <1>1, <1>13, <1>15, <1>17 DEF Ranked
<1>19. \A i \in Axes : Remains(n, i, r[i])
  <2>1. DepthOf(n) = DepthOf(march)
    BY <1>4, <1>13
  <2> QED BY <1>1, <1>13, <1>15, <2>1 DEF Remains
<1>20. Afford(n, k - 1, r)
  <2> DEFINE x == (d + 1) * (r[1] + r[2] + r[3])
  <2>1. x \in Int /\ x + k + 1 <= march.left
    BY <1>1, <1>4 DEF Afford, Axes
  <2> HIDE DEF x
  <2>2. x + (k - 1) + 1 <= march.left - 1
    BY <1>2, <1>4, <2>1
  <2> QED BY <1>13, <2>2 DEF Afford, x
<1>21. k - 1 \in 0..DepthOf(n)
  BY <1>10, <1>13
<1> QED BY <1>14, <1>16, <1>18, <1>19, <1>20, <1>21 DEF Steady, n

\* The march of a chunk whose words are all there keeps its work ahead of it.
Working == Intact /\ march.busy => Steady(march)

\* Nor does whether a march can afford its way.
LEMMA WorkRests ==
  ASSUME UNCHANGED queryVars
  PROVE  /\ Intact' <=> Intact
         /\ \A m : Steady(m)' <=> Steady(m)
<1>1. /\ Moving' = Moving /\ scene' = scene /\ ray' = ray /\ limits' = limits
      /\ \A chunk : From(chunk)' = From(chunk)
      /\ \A b, p : Holds(b, p)' <=> Holds(b, p)
  BY QueryRests DEF queryVars
<1>2. /\ Unit' = Unit /\ \A x : Fine(x)' = Fine(x)
      /\ \A i : Forward(i)' <=> Forward(i)
      /\ \A a, t : PointAt(a, t)' = PointAt(a, t)
  <2>1. Unit' = Unit
    BY <1>1 DEF Unit, Scale
  <2>2. \A x : Fine(x)' = Fine(x)
    BY <2>1 DEF Fine
  <2>3. \A i : Forward(i)' <=> Forward(i)
    BY <1>1 DEF Forward
  <2>4. \A a, t : PointAt(a, t)' = PointAt(a, t)
    BY <1>1, <2>2 DEF PointAt
  <2> QED BY <2>1, <2>2, <2>3, <2>4
<1>3. Intact' <=> Intact
  BY <1>1 DEF Intact, Estimated
<1>4. /\ Backward' = Backward
      /\ \A m : At(m)' = At(m) /\ DepthOf(m)' = DepthOf(m)
      /\ \A chunk, k, n : PlaneAt(chunk, k, n)' = PlaneAt(chunk, k, n)
      /\ \A chunk, n : Plane(chunk, n)' = Plane(chunk, n)
  BY <1>1, <1>2 DEF Backward, At, DepthOf, PlaneAt, Plane
<1>5. \A chunk, k, x : Aligned(chunk, k, x)' <=> Aligned(chunk, k, x)
  BY <1>4 DEF Aligned
<1>6. \A m, i : Past(m, i)' <=> Past(m, i)
  BY <1>2, <1>4 DEF Past
<1>7. \A m : Facing(m)' <=> Facing(m)
  BY <1>1, <1>2 DEF Facing
<1>8. \A m : Ranked(m)' <=> Ranked(m)
  BY <1>1, <1>4, <1>5, <1>6 DEF Ranked
<1>9. \A m, b, k : OnLevel(m, b, k)' <=> OnLevel(m, b, k)
  BY <1>1 DEF OnLevel
<1>10. \A m, k : Stacked(m, k)' <=> Stacked(m, k)
  BY <1>4, <1>9 DEF Stacked
<1>11. \A m, i, r : Remains(m, i, r)' <=> Remains(m, i, r)
  BY <1>1, <1>2, <1>4, <1>6 DEF Remains
<1>12. \A m, k, r : Afford(m, k, r)' <=> Afford(m, k, r)
  BY <1>4 DEF Afford
<1>13. \A m : Steady(m)' <=> Steady(m)
  BY <1>4, <1>7, <1>8, <1>10, <1>11, <1>12 DEF Steady
<1> QED BY <1>3, <1>13

\* Every step leaves marches that can afford their way.
LEMMA WorkStep ==
  ASSUME RayTypeOK, Working, [RayNext]_rayVars
  PROVE  Working'
<1>1. UNCHANGED queryVars
  BY DEF rayVars, RayNext, Ask, Enter, Answer, OutOfReach, Indeterminate, Hit, SkipLeaf, SkipOctant,
         Descend, Leave
<1>2. Asked /\ ahead \subseteq Intersected /\ (march.busy => Under(march))
  BY DEF RayTypeOK, Phases, MarchOK, Idle
<1>3. /\ Intact' <=> Intact
      /\ \A m : Steady(m)' <=> Steady(m)
  BY ONLY <1>1, WorkRests
<1>4. SUFFICES ASSUME Intact, march'.busy PROVE Steady(march')
  BY <1>3 DEF Working
<1>5. march.busy => Under(march) /\ Steady(march)
  BY <1>2, <1>4 DEF Working
<1>6. march' # Idle
  BY <1>4 DEF Idle
<1>7. CASE Enter
  <2>1. PICK c \in ahead :
          march' = [busy |-> TRUE, chunk |-> c, t |-> EntryOf(c),
                    p |-> PointAt(From(scene[c]), EntryOf(c)),
                    here |-> Root(scene[c]), stack |-> <<>>, left |-> StepBudget(scene[c])]
    BY <1>7 DEF Enter
  <2>2. c \in Intersected
    BY <1>2
  <2>3. Entered(c, march')
    BY ONLY <1>2, <2>1, <2>2, EnterCases
  <2> QED BY ONLY <1>2, <1>4, <2>2, <2>3, SteadyAtStart
<1>8. CASE SkipLeaf \/ SkipOctant
  <2>1. march.busy
    BY <1>8 DEF SkipLeaf, SkipOctant, Interior, Turning, Marching
  <2>2. PICK k \in 0..DepthOf(march), r \in [Axes -> Nat] :
          /\ Stacked(march, k) /\ Facing(march) /\ Ranked(march)
          /\ \A i \in Axes : Remains(march, i, r[i])
          /\ Afford(march, k, r)
    BY <1>5, <2>1 DEF Steady
  <2>3. /\ \E b, l, next : Skipping(march, k, b, l, next, march')
        /\ march'.left = march.left - 1
    BY ONLY <1>2, <1>5, <1>6, <1>8, <2>1, <2>2, SkippingHolds
  <2> QED BY ONLY <1>2, <2>2, <2>3, SteadyAfterSkip
<1>9. CASE Descend
  <2>1. march.busy
    BY <1>9 DEF Descend, Interior, Turning, Marching
  <2> QED BY ONLY <1>2, <1>4, <1>5, <1>9, <2>1, SteadyAfterDescend
<1>10. CASE OutOfReach \/ Indeterminate \/ Hit
  BY <1>6, <1>10 DEF OutOfReach, Indeterminate, Hit, Leave
<1>11. CASE Ask \/ Answer \/ UNCHANGED rayVars
  <2>1. march' = march
    BY <1>11 DEF Ask, Answer, rayVars
  <2> QED BY <1>4, <1>5, <2>1
<1> QED BY <1>7, <1>8, <1>9, <1>10, <1>11 DEF RayNext

\* The step budget is enough: no march through a chunk whose words are all
\* there runs out of steps before it leaves the chunk or hits a solid.
THEOREM WorkSuffices == RaySpec => []Budgeted
<1>1. RayInit => Working
  BY DEF RayInit, Working, Idle
<1>2. RayTypeOK /\ Working /\ [RayNext]_rayVars => Working'
  BY WorkStep
<1>3. RayTypeOK /\ Working => Budgeted
  BY SteadyHasWork DEF RayTypeOK, MarchOK, Working, Budgeted, Idle
<1> QED BY <1>1, <1>2, <1>3, MarchesAreRooted, PTL DEF RaySpec

\* No light leaks: a ray stops at the solid that is nearest to its origin.
THEOREM RaysStop == RaySpec => []RaysStopAtSolids
<1>1. RayInit => RayInv
  BY DEF RayInit, RayInv, NothingPassed, AllWait, ClosestOK, ClearOK, BlockedOK, NearestOK, None, Idle
<1>2. RayTypeOK /\ Budgeted /\ RayInv /\ [RayNext]_rayVars => RayInv'
  BY RayInvStep
<1>3. RayTypeOK /\ RayInv => RaysStopAtSolids
  BY RayInvShows
<1> QED BY <1>1, <1>2, <1>3, MarchesAreRooted, WorkSuffices, PTL DEF RaySpec
=============================================================================
