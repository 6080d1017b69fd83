---------------------------- MODULE RedRoomProofs ----------------------------
(***************************************************************************)
(* Proofs about Reality, for any set of rooms and gates, of any kind,      *)
(* about RedRooms, for any nesting of rooms and any chunks, and about      *)
(* WorldPlan, for any outcome of the hashes.                               *)
(***************************************************************************)
EXTENDS RedRooms, WorldPlan, TLAPS

-----------------------------------------------------------------------------
(* Reality: stamps, revisions and leases.                                  *)

(* The newest revision is one of the revisions and none exceeds it.        *)
LEMMA NewestIsNewest ==
  ASSUME TypeOK, NewestExists
  PROVE  /\ Newest \in Nat /\ Newest \in Epochs
         /\ \A e \in Epochs : e <= Newest
         /\ Epochs \subseteq Nat
<1>1. Epochs \subseteq Nat
  BY DEF Epochs, TypeOK, Stamp
<1>2. Newest \in Epochs /\ \A e \in Epochs : e <= Newest
  BY DEF NewestExists, Newest
<1> QED BY <1>1, <1>2

(* The next revision is greater than every recorded one.                   *)
LEMMA NextEpochIsFresh ==
  ASSUME TypeOK, NewestExists, NEW i
  PROVE  /\ NextEpoch(i) \in Nat
         /\ \A j \in DOMAIN stamps : stamps[j].epoch < NextEpoch(i)
<1>1. /\ Newest \in Nat
      /\ \A e \in Epochs : e <= Newest /\ e \in Nat
  BY NewestIsNewest
<1>2. \A j \in DOMAIN stamps : stamps[j].epoch \in Epochs
  BY DEF Epochs
<1>3. NextEpoch(i) = Newest + 1
  BY DEF NextEpoch
<1> QED BY <1>1, <1>2, <1>3

(* What a stamp is before the reduction of an event on its instance.       *)
LEMMA BeforeType ==
  ASSUME TypeOK, NewestExists, NEW i \in Instance
  PROVE  /\ Before(i) \in [epoch : Nat, phase : Phase, loops : Nat]
         /\ Known(i) => /\ Before(i).epoch = stamps[i].epoch
                        /\ Before(i).phase = stamps[i].phase
                        /\ Before(i).loops = stamps[i].loops
         /\ ~Known(i) => /\ Before(i).epoch = NextEpoch(i)
                         /\ Before(i).phase = "outside"
                         /\ Before(i).loops = 0
<1>1. NextEpoch(i) \in Nat
  BY NextEpochIsFresh
<1>2. CASE Known(i)
  <2>1. stamps[i] \in Stamp
    BY <1>2 DEF Known, TypeOK
  <2> QED BY <1>2, <2>1 DEF Before, Stamp
<1>3. CASE ~Known(i)
  BY <1>1, <1>3 DEF Before, Phase
<1> QED BY <1>2, <1>3

(* What an accepted loop crossing makes of a room.                         *)
LEMMA LoopResults ==
  ASSUME NEW s \in [epoch : Nat, phase : Phase, loops : Nat], NEW i
  PROVE  /\ WalkLoop(s, i) =
              [epoch |-> NextEpoch(i),
               phase |-> IF s.loops + 1 >= LoopsToOpenEscape THEN "escape" ELSE "sealed",
               loops |-> s.loops + 1]
         /\ Withdraw(s, i) =
              [epoch |-> NextEpoch(i), phase |-> "sealed", loops |-> 0]
<1> DEFINE phase == IF s.loops + 1 >= LoopsToOpenEscape THEN "escape" ELSE "sealed"
<1>1. s = [epoch |-> s.epoch, phase |-> s.phase, loops |-> s.loops]
  OBVIOUS
<1>2. WalkLoop(s, i) = [epoch |-> NextEpoch(i), phase |-> phase, loops |-> s.loops + 1]
  <2> HIDE DEF phase
  <2>1. WalkLoop(s, i) = [s EXCEPT !.phase = phase, !.loops = @ + 1, !.epoch = NextEpoch(i)]
    BY DEF WalkLoop, phase
  <2> QED BY <1>1, <2>1
<1>3. Withdraw(s, i) = [epoch |-> NextEpoch(i), phase |-> "sealed", loops |-> 0]
  <2> DEFINE q == "sealed"
             z == 0
  <2>1. Withdraw(s, i) = [s EXCEPT !.phase = q, !.loops = z, !.epoch = NextEpoch(i)]
    BY DEF Withdraw
  <2> HIDE DEF q, z
  <2>2. Withdraw(s, i) = [epoch |-> NextEpoch(i), phase |-> q, loops |-> z]
    BY <1>1, <2>1
  <2> QED BY <2>2 DEF q, z
<1> QED BY <1>2, <1>3

(* One reduction: the revision is fresh or the recorded one; an event that *)
(* moves a committed encounter commits and takes a fresh revision; any     *)
(* other event leaves phase and revision of a committed encounter alone.   *)
LEMMA Reduction ==
  ASSUME TypeOK, NewestExists, NEW g \in Gate, NEW d \in Direction
  PROVE  LET i == Of[g]
             n == NewStamp(g, d)
         IN  /\ i \in Instance
             /\ n \in Stamp
             /\ n.epoch = NextEpoch(i) \/ (Known(i) /\ n.epoch = stamps[i].epoch)
             /\ Moves(g, d) => n.phase # "outside" /\ n.epoch = NextEpoch(i)
             /\ ~Moves(g, d) /\ i \in Committed =>
                  n.phase = stamps[i].phase /\ n.epoch = stamps[i].epoch
             /\ ~Moves(g, d) /\ i \notin Committed => n.phase = "outside"
<1> DEFINE i == Of[g]
           s == Before(i)
           t == TransitionFor(g, d)
<1>1. i \in Instance /\ Kind[g] \in GateKind /\ Forward[g] \in Direction
  BY RealityAssumption
<1>2. /\ s \in [epoch : Nat, phase : Phase, loops : Nat]
      /\ Known(i) => s.epoch = stamps[i].epoch /\ s.phase = stamps[i].phase
      /\ ~Known(i) => s.epoch = NextEpoch(i) /\ s.phase = "outside"
  BY <1>1, BeforeType
<1>3. NextEpoch(i) \in Nat
  BY NextEpochIsFresh
<1>4. i \in Committed <=> s.phase # "outside"
  BY <1>2 DEF Committed, Known
<1> DEFINE Result ==
      /\ t \in [epoch : Nat, phase : Phase, loops : Nat]
      /\ t.epoch = NextEpoch(i) \/ (Known(i) /\ t.epoch = stamps[i].epoch)
      /\ Moves(g, d) => t.phase # "outside" /\ t.epoch = NextEpoch(i)
      /\ ~Moves(g, d) /\ i \in Committed =>
           t.phase = stamps[i].phase /\ t.epoch = stamps[i].epoch
      /\ ~Moves(g, d) /\ i \notin Committed => t.phase = "outside"
<1>11. NewStamp(g, d) = [epoch |-> t.epoch, phase |-> t.phase, loops |-> t.loops,
                         direction |-> d, gate |-> g]
  BY DEF NewStamp
<1> SUFFICES Result
  <2> HIDE DEF t
  <2> QED BY <1>1, <1>11 DEF Stamp
<1>5. s.epoch = NextEpoch(i) \/ (Known(i) /\ s.epoch = stamps[i].epoch)
  BY <1>2
<1>6. i \in Committed => s.phase = stamps[i].phase /\ s.epoch = stamps[i].epoch
  BY <1>2 DEF Committed, Known
<1>7. CASE Kind[g] = "remap"
  <2>1. t = AdvanceRemap(s, i)
    BY <1>7 DEF TransitionFor
  <2>2. t = [epoch |-> NextEpoch(i), phase |-> s.phase, loops |-> s.loops]
    BY <2>1, <1>2 DEF AdvanceRemap
  <2>3. Moves(g, d) <=> i \in Committed
    BY <1>7 DEF Moves
  <2> HIDE DEF t
  <2> QED BY <2>2, <2>3, <1>2, <1>3, <1>4
<1>8. CASE Kind[g] = "threshold"
  <2>1. t = AdvanceRedThreshold(s, i, d = Forward[g])
    BY <1>8 DEF TransitionFor
  <2>2. Moves(g, d) <=> d = Forward[g]
    BY <1>8 DEF Moves
  <2>3. CASE d = Forward[g]
    <3>1. t = [epoch |-> NextEpoch(i), phase |-> "sealed", loops |-> s.loops]
      BY <2>1, <2>3, <1>2 DEF AdvanceRedThreshold
    <3> HIDE DEF t
    <3> QED BY <3>1, <2>2, <2>3, <1>2, <1>3 DEF Phase
  <2>4. CASE d # Forward[g]
    <3>1. t = s
      BY <2>1, <2>4 DEF AdvanceRedThreshold
    <3> HIDE DEF t
    <3> QED BY <3>1, <2>2, <2>4, <1>2, <1>4, <1>5, <1>6
  <2> QED BY <2>3, <2>4
<1>9. CASE Kind[g] = "loop"
  <2>1. t = AdvanceRedLoop(s, i)
    BY <1>9 DEF TransitionFor
  <2>2. Moves(g, d) <=> i \in Committed
    BY <1>9 DEF Moves
  <2>3. CASE s.phase = "outside"
    <3>1. t = s
      BY <2>1, <2>3 DEF AdvanceRedLoop
    <3> HIDE DEF t
    <3> QED BY <3>1, <2>2, <2>3, <1>2, <1>4, <1>5
  <2>4. CASE s.phase = "sealed"
    <3>1. t = WalkLoop(s, i)
      BY <2>1, <2>4 DEF AdvanceRedLoop
    <3>2. /\ t.epoch = NextEpoch(i) /\ t.phase \in {"sealed", "escape"}
          /\ t \in [epoch : Nat, phase : Phase, loops : Nat]
      BY <3>1, <1>2, <1>3, LoopResults DEF Phase
    <3> HIDE DEF t
    <3> QED BY <3>2, <2>2, <2>4, <1>4
  <2>5. CASE s.phase = "escape"
    <3>1. t = Withdraw(s, i)
      BY <2>1, <2>5 DEF AdvanceRedLoop
    <3>2. /\ t.epoch = NextEpoch(i) /\ t.phase = "sealed"
          /\ t \in [epoch : Nat, phase : Phase, loops : Nat]
      BY <3>1, <1>2, <1>3, LoopResults DEF Phase
    <3> HIDE DEF t
    <3> QED BY <3>2, <2>2, <2>5, <1>4
  <2> QED BY <2>3, <2>4, <2>5, <1>2 DEF Phase
<1>10. CASE Kind[g] = "escape"
  <2>1. t = s
    BY <1>10 DEF TransitionFor
  <2>2. ~Moves(g, d)
    BY <1>10 DEF Moves
  <2> HIDE DEF t
  <2> QED BY <2>1, <2>2, <1>2, <1>4, <1>5, <1>6
<1> QED BY <1>1, <1>7, <1>8, <1>9, <1>10 DEF GateKind

(* One reduction counts no loop that was not walked, and opens an escape   *)
(* only after the seventh.                                                 *)
LEMMA ReductionLoops ==
  ASSUME TypeOK, NewestExists, LoopsAreWalked, NEW g \in Gate, NEW d \in Direction
  PROVE  LET n == NewStamp(g, d)
         IN  /\ LoopsWalked(g) \in Nat
             /\ n.loops <= LoopsWalked(g)
             /\ n.phase = "escape" => LoopsWalked(g) >= LoopsToOpenEscape
<1> DEFINE i == Of[g]
           s == Before(i)
           t == TransitionFor(g, d)
           w == LoopsWalked(g)
           Result == /\ w \in Nat /\ t.loops <= w
                     /\ t.phase = "escape" => w >= LoopsToOpenEscape
<1>1. i \in Instance /\ Kind[g] \in GateKind /\ walked[i] \in Nat
  BY RealityAssumption DEF TypeOK
<1>2. /\ s \in [epoch : Nat, phase : Phase, loops : Nat]
      /\ Known(i) => s.phase = stamps[i].phase /\ s.loops = stamps[i].loops
      /\ ~Known(i) => s.phase = "outside" /\ s.loops = 0
  BY <1>1, BeforeType
<1>3. /\ s.loops <= walked[i]
      /\ s.phase = "escape" => walked[i] >= LoopsToOpenEscape
  BY <1>1, <1>2 DEF LoopsAreWalked, Known
<1>4. i \in Committed <=> s.phase # "outside"
  BY <1>2 DEF Committed, Known
<1>5. NewStamp(g, d) = [epoch |-> t.epoch, phase |-> t.phase, loops |-> t.loops,
                        direction |-> d, gate |-> g]
  BY DEF NewStamp
<1>6. NextEpoch(i) \in Nat
  BY NextEpochIsFresh
<1> SUFFICES Result
  <2> HIDE DEF t
  <2> QED BY <1>5
<1>7. CASE Kind[g] # "loop"
  <2>1. w = walked[i]
    BY <1>7 DEF LoopsWalked
  <2>2. t \in {s, AdvanceRemap(s, i), AdvanceRedThreshold(s, i, d = Forward[g])}
    BY <1>1, <1>7 DEF TransitionFor, GateKind
  <2>3. /\ AdvanceRemap(s, i).loops = s.loops
        /\ AdvanceRemap(s, i).phase = s.phase
    BY <1>2 DEF AdvanceRemap
  <2>4. LET a == AdvanceRedThreshold(s, i, d = Forward[g])
        IN  a.loops = s.loops /\ (a.phase = s.phase \/ a.phase = "sealed")
    BY <1>2 DEF AdvanceRedThreshold
  <2>5. t.loops = s.loops /\ (t.phase = "escape" => s.phase = "escape")
    BY <2>2, <2>3, <2>4
  <2> HIDE DEF t, w, s
  <2> QED BY <2>1, <2>5, <1>1, <1>2, <1>3
<1>8. CASE Kind[g] = "loop"
  <2>1. t = AdvanceRedLoop(s, i)
    BY <1>8 DEF TransitionFor
  <2>2. CASE s.phase = "outside"
    <3>1. t = s
      BY <2>1, <2>2 DEF AdvanceRedLoop
    <3>2. w = walked[i]
      BY <2>2, <1>4 DEF LoopsWalked
    <3> HIDE DEF t, w, s
    <3> QED BY <3>1, <3>2, <1>1, <1>3
  <2>3. CASE s.phase = "sealed"
    <3>1. t = WalkLoop(s, i)
      BY <2>1, <2>3 DEF AdvanceRedLoop
    <3>2. /\ t.loops = s.loops + 1
          /\ t.phase = "escape" => s.loops + 1 >= LoopsToOpenEscape
      BY <3>1, <1>2, LoopResults
    <3>3. w = walked[i] + 1
      BY <2>3, <1>2, <1>4, <1>8 DEF LoopsWalked
    <3> HIDE DEF t, w, s
    <3> QED BY <3>2, <3>3, <1>1, <1>2, <1>3 DEF LoopsToOpenEscape
  <2>4. CASE s.phase = "escape"
    <3>1. t = Withdraw(s, i)
      BY <2>1, <2>4 DEF AdvanceRedLoop
    <3>2. t.loops = 0 /\ t.phase = "sealed"
      BY <3>1, <1>2, LoopResults
    <3>3. w = 0
      BY <2>4, <1>2, <1>4, <1>8 DEF LoopsWalked
    <3> HIDE DEF t, w, s
    <3> QED BY <3>2, <3>3
  <2> QED BY <2>2, <2>3, <2>4, <1>2 DEF Phase
<1> QED BY <1>7, <1>8

-----------------------------------------------------------------------------
(* The invariant.                                                          *)

\* At first no room was met.
LEMMA InitInductive == Init => Inductive
<1> SUFFICES ASSUME Init PROVE Inductive
  OBVIOUS
<1>1. DOMAIN stamps = {} /\ Committed = {} /\ Epochs = {0}
  BY DEF Init, Committed, Epochs
<1>2. TypeOK
  BY <1>1, RealityAssumption DEF Init, TypeOK
<1>3. NewestExists
  BY <1>1 DEF NewestExists
<1> QED
  BY <1>1, <1>2, <1>3
  DEF Inductive, EpochsUnambiguous, LatestIsNewest, LoopsAreWalked

(* Crossing a gate replaces one stamp.                                     *)
LEMMA CrossedStamps ==
  ASSUME TypeOK, NewestExists, NEW g \in Gate, NEW d \in Direction, CrossGate(g, d)
  PROVE  /\ DOMAIN stamps' = DOMAIN stamps \cup {Of[g]}
         /\ stamps'[Of[g]] = NewStamp(g, d)
         /\ \A j \in DOMAIN stamps \ {Of[g]} : stamps'[j] = stamps[j]
         /\ TypeOK'
<1>1. stamps' = WithStamp(Of[g], NewStamp(g, d))
  BY DEF CrossGate
<1>2. Of[g] \in Instance /\ NewStamp(g, d) \in Stamp
  BY Reduction
<1>3. /\ DOMAIN stamps' = DOMAIN stamps \cup {Of[g]}
      /\ stamps'[Of[g]] = NewStamp(g, d)
      /\ \A j \in DOMAIN stamps \ {Of[g]} : stamps'[j] = stamps[j]
  BY <1>1 DEF WithStamp
<1>4. stamps' \in [DOMAIN stamps' -> Stamp]
  BY <1>1, <1>2 DEF WithStamp, TypeOK
<1>5. walked' \in [Instance -> Nat]
  <2>1. LoopsWalked(g) \in Nat
    BY <1>2 DEF LoopsWalked, TypeOK
  <2> QED BY <2>1 DEF CrossGate, TypeOK
<1>6. latest' \in Instance
  BY <1>2 DEF CrossGate, TypeOK
<1>7. crossings' \in 0..MaxCrossings
  BY RealityAssumption DEF CrossGate, TypeOK
<1>8. UNCHANGED <<drift, consumed, delirium>>
  BY DEF CrossGate
<1>9. DOMAIN stamps' \subseteq Instance
  BY <1>2, <1>3 DEF TypeOK
<1> QED
  <2>1. drift' \in [Cell -> Nat] /\ consumed' \subseteq Supply /\ delirium' \in 0..MaxDelirium
    BY <1>8 DEF TypeOK
  <2> QED BY <1>3, <1>4, <1>5, <1>6, <1>7, <1>9, <2>1 DEF TypeOK

(* The revision of a stamp, after the crossing, is fresh or what it was.   *)
LEMMA CrossedEpochs ==
  ASSUME TypeOK, NewestExists, NEW g \in Gate, NEW d \in Direction, CrossGate(g, d)
  PROVE  /\ NextEpoch(Of[g]) \in Nat
         /\ \A j \in DOMAIN stamps : /\ stamps[j].epoch \in Nat
                                     /\ stamps[j].epoch < NextEpoch(Of[g])
         /\ \A j \in DOMAIN stamps' \ {Of[g]} :
               j \in DOMAIN stamps /\ stamps'[j] = stamps[j]
         /\ \/ stamps'[Of[g]].epoch = NextEpoch(Of[g])
            \/ Of[g] \in DOMAIN stamps /\ stamps'[Of[g]].epoch = stamps[Of[g]].epoch
<1>1. NextEpoch(Of[g]) \in Nat /\ \A j \in DOMAIN stamps : stamps[j].epoch < NextEpoch(Of[g])
  BY NextEpochIsFresh
<1>2. \A j \in DOMAIN stamps : stamps[j].epoch \in Nat
  BY DEF TypeOK, Stamp
<1>3. \A j \in DOMAIN stamps' \ {Of[g]} : j \in DOMAIN stamps /\ stamps'[j] = stamps[j]
  BY CrossedStamps
<1>4. stamps'[Of[g]] = NewStamp(g, d)
  BY CrossedStamps
<1>5. \/ NewStamp(g, d).epoch = NextEpoch(Of[g])
      \/ Known(Of[g]) /\ NewStamp(g, d).epoch = stamps[Of[g]].epoch
  BY Reduction
<1> QED BY <1>1, <1>2, <1>3, <1>4, <1>5 DEF Known

\* A gate that is crossed leaves the revisions in order.
LEMMA CrossGatePreserves ==
  ASSUME Inductive, NEW g \in Gate, NEW d \in Direction, CrossGate(g, d)
  PROVE  Inductive'
<1> DEFINE i == Of[g]
           e == NextEpoch(i)
<1>0. TypeOK /\ NewestExists /\ EpochsUnambiguous /\ LatestIsNewest /\ LoopsAreWalked
  BY DEF Inductive
<1>1. /\ DOMAIN stamps' = DOMAIN stamps \cup {i}
      /\ stamps'[i] = NewStamp(g, d)
      /\ TypeOK'
  BY <1>0, CrossedStamps
<1>2. /\ e \in Nat
      /\ \A j \in DOMAIN stamps : stamps[j].epoch \in Nat /\ stamps[j].epoch < e
      /\ \A j \in DOMAIN stamps' \ {i} : j \in DOMAIN stamps /\ stamps'[j] = stamps[j]
      /\ \/ stamps'[i].epoch = e
         \/ i \in DOMAIN stamps /\ stamps'[i].epoch = stamps[i].epoch
  BY <1>0, CrossedEpochs
<1>3. /\ Moves(g, d) => stamps'[i].phase # "outside" /\ stamps'[i].epoch = e
      /\ ~Moves(g, d) /\ i \in Committed =>
           stamps'[i].phase = stamps[i].phase /\ stamps'[i].epoch = stamps[i].epoch
      /\ ~Moves(g, d) /\ i \notin Committed => stamps'[i].phase = "outside"
  BY <1>0, <1>1, Reduction
<1>4. EpochsUnambiguous'
  <2> SUFFICES ASSUME NEW j \in DOMAIN stamps', NEW k \in DOMAIN stamps',
                      stamps'[j].epoch = stamps'[k].epoch, j # k
               PROVE  FALSE
    BY DEF EpochsUnambiguous
  <2> HIDE DEF e, i
  <2>1. CASE j # i /\ k # i
    BY <2>1, <1>0, <1>2 DEF EpochsUnambiguous
  <2>2. CASE j = i /\ k # i
    <3>1. k \in DOMAIN stamps /\ stamps'[k] = stamps[k]
      BY <2>2, <1>2
    <3> QED BY <2>2, <3>1, <1>0, <1>2 DEF EpochsUnambiguous
  <2>3. CASE j # i /\ k = i
    <3>1. j \in DOMAIN stamps /\ stamps'[j] = stamps[j]
      BY <2>3, <1>2
    <3> QED BY <2>3, <3>1, <1>0, <1>2 DEF EpochsUnambiguous
  <2> QED BY <2>1, <2>2, <2>3
<1>5. NewestExists'
  <2>1. Epochs' = {0} \cup {stamps'[j].epoch : j \in DOMAIN stamps'}
    BY DEF Epochs
  <2>2. Newest \in Nat /\ Newest \in Epochs /\ \A x \in Epochs : x <= Newest
    BY <1>0, NewestIsNewest
  <2>3. e = Newest + 1
    BY DEF NextEpoch
  <2>4. \A j \in DOMAIN stamps : stamps[j].epoch \in Epochs
    BY DEF Epochs
  <2>5. CASE stamps'[i].epoch = e
    <3>1. e \in Epochs'
      BY <2>1, <2>5, <1>1
    <3>2. ASSUME NEW j \in DOMAIN stamps' PROVE stamps'[j].epoch <= e
      <4> HIDE DEF e, i
      <4> QED BY <2>5, <1>2
    <3>3. \A x \in Epochs' : x <= e
      BY <2>1, <3>2, <1>2
    <3> QED BY <3>1, <3>3 DEF NewestExists
  <2>6. CASE i \in DOMAIN stamps /\ stamps'[i].epoch = stamps[i].epoch
    <3>1. DOMAIN stamps' = DOMAIN stamps
      BY <2>6, <1>1
    <3>2. \A j \in DOMAIN stamps : stamps'[j].epoch = stamps[j].epoch
      BY <2>6, <3>1, <1>2
    <3>3. Epochs' = Epochs
      BY <2>1, <3>1, <3>2 DEF Epochs
    <3> QED BY <3>3, <1>0 DEF NewestExists
  <2> QED BY <2>5, <2>6, <1>2
<1>6. LatestIsNewest'
  <2>1. Committed' = {j \in DOMAIN stamps' : stamps'[j].phase # "outside"}
    BY DEF Committed
  <2>2. latest' = IF Moves(g, d) THEN i ELSE latest
    BY DEF CrossGate
  <2>3. CASE Moves(g, d)
    <3>1. latest' = i /\ i \in Committed'
      BY <2>1, <2>2, <2>3, <1>1, <1>3
    <3>2. ASSUME NEW j \in Committed' PROVE stamps'[j].epoch <= stamps'[i].epoch
      <4>1. j \in DOMAIN stamps' /\ stamps'[i].epoch = e
        BY <2>1, <2>3, <1>3
      <4> HIDE DEF e, i
      <4> QED BY <4>1, <1>2
    <3> QED BY <3>1, <3>2 DEF LatestIsNewest
  <2>4. CASE ~Moves(g, d)
    <3>1. Committed' = Committed
      <4>1. ASSUME NEW j PROVE j \in Committed' <=> j \in Committed
        <5>1. CASE j = i
          BY <5>1, <2>1, <2>4, <1>1, <1>3 DEF Committed
        <5>2. CASE j # i
          BY <5>2, <2>1, <1>1, <1>2 DEF Committed
        <5> QED BY <5>1, <5>2
      <4> QED BY <4>1
    <3>2. ASSUME NEW j \in Committed PROVE stamps'[j].epoch = stamps[j].epoch
      <4>1. CASE j = i
        BY <4>1, <2>4, <1>3
      <4>2. CASE j # i
        BY <4>2, <1>1, <1>2 DEF Committed
      <4> QED BY <4>1, <4>2
    <3>3. latest' = latest
      BY <2>2, <2>4
    <3> QED BY <3>1, <3>2, <3>3, <1>0 DEF LatestIsNewest
  <2> QED BY <2>3, <2>4
<1>7. LoopsAreWalked'
  <2>1. /\ LoopsWalked(g) \in Nat
        /\ stamps'[i].loops <= LoopsWalked(g)
        /\ stamps'[i].phase = "escape" => LoopsWalked(g) >= LoopsToOpenEscape
    BY <1>0, <1>1, ReductionLoops
  <2>2. walked' = [walked EXCEPT ![i] = LoopsWalked(g)] /\ walked \in [Instance -> Nat]
    BY <1>0 DEF CrossGate, TypeOK
  <2>3. i \in Instance
    BY RealityAssumption
  <2>4. walked'[i] = LoopsWalked(g) /\ \A j \in Instance \ {i} : walked'[j] = walked[j]
    BY <2>2, <2>3
  <2> SUFFICES ASSUME NEW j \in DOMAIN stamps'
               PROVE  /\ stamps'[j].loops <= walked'[j]
                      /\ stamps'[j].phase = "escape" => walked'[j] >= LoopsToOpenEscape
    BY DEF LoopsAreWalked
  <2>5. CASE j = i
    BY <2>5, <2>1, <2>4
  <2>6. CASE j # i
    <3>1. j \in DOMAIN stamps /\ stamps'[j] = stamps[j] /\ j \in Instance
      BY <2>6, <1>2, <1>0 DEF TypeOK
    <3> QED BY <3>1, <2>4, <2>6, <1>0 DEF LoopsAreWalked
  <2> QED BY <2>5, <2>6
<1> QED BY <1>1, <1>4, <1>5, <1>6, <1>7 DEF Inductive

(* Nothing but a crossing touches the encounters.                          *)
LEMMA OthersPreserve ==
  ASSUME Inductive, UNCHANGED encounterVars, TypeOK'
  PROVE  Inductive'
<1>1. stamps' = stamps /\ latest' = latest /\ walked' = walked
  BY DEF encounterVars
<1>2. Committed' = Committed /\ Epochs' = Epochs
  BY <1>1 DEF Committed, Epochs
<1> QED
  BY <1>1, <1>2
  DEF Inductive, EpochsUnambiguous, NewestExists, LatestIsNewest, LoopsAreWalked

\* So does every step.
LEMMA StepPreserves == Inductive /\ [Next]_vars => Inductive'
<1> SUFFICES ASSUME Inductive, [Next]_vars PROVE Inductive'
  OBVIOUS
<1>0. TypeOK
  BY DEF Inductive
<1>1. CASE \E g \in Gate, d \in Direction : CrossGate(g, d)
  BY <1>1, CrossGatePreserves
<1>2. CASE \E cells \in SUBSET Cell : AdvanceDrift(cells)
  <2>1. UNCHANGED encounterVars /\ TypeOK'
    BY <1>0, <1>2 DEF AdvanceDrift, TypeOK, encounterVars
  <2> QED BY <2>1, OthersPreserve
<1>3. CASE \E id \in Supply : Consume(id)
  <2>1. UNCHANGED encounterVars /\ TypeOK'
    BY <1>0, <1>3 DEF Consume, TypeOK, encounterVars
  <2> QED BY <2>1, OthersPreserve
<1>4. CASE \E tier \in 0..MaxDelirium : ChangeDelirium(tier)
  <2>1. UNCHANGED encounterVars /\ TypeOK'
    BY <1>0, <1>4 DEF ChangeDelirium, TypeOK, encounterVars
  <2> QED BY <2>1, OthersPreserve
<1>5. CASE UNCHANGED vars
  <2>1. UNCHANGED encounterVars /\ TypeOK'
    BY <1>0, <1>5 DEF vars, TypeOK, encounterVars
  <2> QED BY <2>1, OthersPreserve
<1> QED BY <1>1, <1>2, <1>3, <1>4, <1>5 DEF Next

(* The conjunction of the invariants is inductive, for every set of rooms, *)
(* gates and gate kinds (with_advanced_gate and its siblings).             *)
THEOREM RealityIsOrdered == Spec => []Inductive
<1> QED BY InitInductive, StepPreserves, PTL DEF Spec

(* The world shown, active_red_room(), is that of the Red Room entered or  *)
(* moved last.                                                             *)
THEOREM ActiveRoomIsLatest == Spec => []ActiveIsLatest
<1>1. Inductive => ActiveIsLatest
  <2> SUFFICES ASSUME Inductive, Committed # {} PROVE Active = latest
    BY DEF ActiveIsLatest
  <2>1. /\ latest \in Committed
        /\ \A j \in Committed : stamps[j].epoch <= stamps[latest].epoch
    BY DEF Inductive, LatestIsNewest
  <2>2. /\ Active \in Committed
        /\ \A j \in Committed : stamps[j].epoch <= stamps[Active].epoch
    BY <2>1 DEF Active
  <2>3. /\ Active \in DOMAIN stamps
        /\ latest \in DOMAIN stamps
        /\ stamps[Active].epoch \in Nat
        /\ stamps[latest].epoch \in Nat
    BY <2>1, <2>2 DEF Committed, Inductive, TypeOK, Stamp
  <2>4. stamps[Active].epoch = stamps[latest].epoch
    BY <2>1, <2>2, <2>3
  <2> QED BY <2>3, <2>4 DEF Inductive, EpochsUnambiguous
<1> QED BY <1>1, RealityIsOrdered, PTL

(* No escape opens before seven loop crossings.                            *)
THEOREM EscapesAreEarned == Spec => []EscapeIsEarned
<1>1. Inductive => EscapeIsEarned
  BY DEF Inductive, LoopsAreWalked, EscapeIsEarned, Committed
<1> QED BY <1>1, RealityIsOrdered, PTL

-----------------------------------------------------------------------------
(* RedRooms: worlds are reached through their parents.                     *)

RoomsInductive ==
  /\ Inductive
  /\ OnlyOpenedWorlds
  /\ ReachedThroughParent

(* A committed room stays committed.                                       *)
LEMMA CommittedForGood ==
  ASSUME Inductive, NEW g \in Gate, NEW d \in Direction, CrossGate(g, d)
  PROVE  Committed \subseteq Committed'
<1>1. TypeOK /\ NewestExists
  BY DEF Inductive
<1>2. /\ DOMAIN stamps' = DOMAIN stamps \cup {Of[g]}
      /\ stamps'[Of[g]] = NewStamp(g, d)
      /\ \A j \in DOMAIN stamps \ {Of[g]} : stamps'[j] = stamps[j]
  BY <1>1, CrossedStamps
<1>3. Of[g] \in Committed => NewStamp(g, d).phase # "outside"
  <2>1. /\ Moves(g, d) => NewStamp(g, d).phase # "outside"
        /\ ~Moves(g, d) /\ Of[g] \in Committed => NewStamp(g, d).phase = stamps[Of[g]].phase
    BY <1>1, Reduction
  <2> QED BY <2>1 DEF Committed
<1> SUFFICES ASSUME NEW j \in Committed PROVE j \in Committed'
  OBVIOUS
<1>4. j \in DOMAIN stamps /\ stamps[j].phase # "outside"
  BY DEF Committed
<1>5. CASE j = Of[g]
  BY <1>2, <1>3, <1>5 DEF Committed
<1>6. CASE j # Of[g]
  BY <1>2, <1>4, <1>6 DEF Committed
<1> QED BY <1>5, <1>6

(* The address orders are placed for is that of an open world.             *)
LEMMA CurrentAddressIsOpen ==
  ASSUME Inductive
  PROVE  CurrentAddress \in {Base} \cup Committed
<1>1. CASE Committed = {}
  BY <1>1 DEF CurrentAddress
<1>2. CASE Committed # {}
  <2>1. /\ latest \in Committed
        /\ \A j \in Committed : stamps[j].epoch <= stamps[latest].epoch
    BY <1>2 DEF Inductive, LatestIsNewest
  <2>2. Active \in Committed
    BY <2>1 DEF Active
  <2> QED BY <1>2, <2>2 DEF CurrentAddress
<1> QED BY <1>1, <1>2

(* A gate in the store belongs to the outer level or to an open world.     *)
LEMMA GatesOfOpenWorlds ==
  ASSUME OnlyOpenedWorlds, NEW g \in GatesInStore
  PROVE  Home[Of[g]] \in {Base} \cup Committed
<1>1. PICK c \in Resident : g \in Exported(c, store[c])
  BY DEF GatesInStore
<1>2. store[c] \in {Base} \cup Committed
  BY <1>1 DEF OnlyOpenedWorlds, Resident
<1>3. g \in Authored(store[c]) \/ g \in Authored(Base)
  BY <1>1 DEF Exported, Checkpoint
<1> QED BY <1>2, <1>3 DEF Authored

\* At first no world was opened but the base.
LEMMA RoomsInit_Inductive == RoomsInit => RoomsInductive
<1> SUFFICES ASSUME RoomsInit PROVE RoomsInductive
  OBVIOUS
<1>1. Inductive
  BY InitInductive DEF RoomsInit
<1>2. DOMAIN stamps = {}
  BY DEF RoomsInit, Init
<1>3. OnlyOpenedWorlds
  BY DEF RoomsInit, OnlyOpenedWorlds
<1> QED BY <1>1, <1>2, <1>3 DEF RoomsInductive, ReachedThroughParent

\* Every step opens worlds through their parents only.
LEMMA RoomsStep == RoomsInductive /\ [RoomsNext]_roomVars => RoomsInductive'
<1> SUFFICES ASSUME RoomsInductive, [RoomsNext]_roomVars PROVE RoomsInductive'
  OBVIOUS
<1> DEFINE Opened == {Absent, Base} \cup Committed
<1>0. /\ Inductive /\ ReachedThroughParent /\ OnlyOpenedWorlds
      /\ store \in [Chunk -> Opened] /\ order \in [Chunk -> Opened]
  BY DEF RoomsInductive, OnlyOpenedWorlds
<1>1. ASSUME NEW g \in Gate, NEW d \in Direction, WalkThrough(g, d)
      PROVE  RoomsInductive'
  <2>1. g \in GatesInStore /\ CrossGate(g, d)
    BY <1>1 DEF WalkThrough
  <2>2. Inductive'
    BY <1>0, <2>1, CrossGatePreserves
  <2>3. Committed \subseteq Committed'
    BY <1>0, <2>1, CommittedForGood
  <2>4. OnlyOpenedWorlds'
    <3>1. store' = store
          /\ order' = [c \in Chunk |-> IF c \in Resident THEN Absent ELSE order[c]]
      BY <1>1 DEF WalkThrough
    <3> QED BY <1>0, <2>3, <3>1 DEF OnlyOpenedWorlds
  <2>5. ReachedThroughParent'
    <3>1. Home[Of[g]] \in {Base} \cup Committed
      BY <1>0, <2>1, GatesOfOpenWorlds
    <3>2. DOMAIN stamps' = DOMAIN stamps \cup {Of[g]}
      BY <1>0, <2>1, CrossedStamps DEF Inductive
    <3> QED BY <1>0, <2>3, <3>1, <3>2 DEF ReachedThroughParent
  <2> QED BY <2>2, <2>4, <2>5 DEF RoomsInductive
<1>2. ASSUME UNCHANGED vars,
             store' \in [Chunk -> Opened], order' \in [Chunk -> Opened]
      PROVE  RoomsInductive'
  <2>1. /\ stamps' = stamps
        /\ UNCHANGED encounterVars
        /\ UNCHANGED <<drift, consumed, delirium>>
    BY <1>2 DEF vars, encounterVars
  <2>2. Inductive'
    <3>1. TypeOK'
      BY <1>0, <2>1 DEF Inductive, TypeOK, encounterVars
    <3> QED BY <1>0, <2>1, <3>1, OthersPreserve
  <2>3. Committed' = Committed
    BY <2>1 DEF Committed
  <2>4. OnlyOpenedWorlds' /\ ReachedThroughParent'
    BY <1>0, <1>2, <2>1, <2>3 DEF OnlyOpenedWorlds, ReachedThroughParent
  <2> QED BY <2>2, <2>4 DEF RoomsInductive
<1>3. ASSUME NEW c \in Chunk, Order(c) PROVE RoomsInductive'
  <2>1. CurrentAddress \in Opened
    BY <1>0, CurrentAddressIsOpen
  <2>2. /\ UNCHANGED vars /\ store' = store
        /\ order' = [order EXCEPT ![c] = CurrentAddress]
    BY <1>3 DEF Order
  <2> QED BY <1>0, <1>2, <2>1, <2>2
<1>4. ASSUME NEW c \in Chunk, Install(c) PROVE RoomsInductive'
  BY <1>0, <1>2, <1>4 DEF Install
<1>5. ASSUME NEW c \in Chunk, Evict(c) PROVE RoomsInductive'
  BY <1>0, <1>2, <1>5 DEF Evict
<1>6. CASE UNCHANGED roomVars
  BY <1>0, <1>2, <1>6 DEF roomVars, streaming
<1> QED BY <1>1, <1>3, <1>4, <1>5, <1>6 DEF RoomsNext

(* However late its chunks arrive, a room authored in the world of another *)
(* is only met after committing to that other one, and chunks are only     *)
(* shown and ordered from worlds that were opened.                         *)
THEOREM RoomsAreReachedThroughParents ==
  RoomsSpec => [](ReachedThroughParent /\ OnlyOpenedWorlds)
<1>1. RoomsSpec => []RoomsInductive
  BY RoomsInit_Inductive, RoomsStep, PTL DEF RoomsSpec
<1>2. RoomsInductive => ReachedThroughParent /\ OnlyOpenedWorlds
  BY DEF RoomsInductive
<1> QED BY <1>1, <1>2, PTL
-----------------------------------------------------------------------------
(* WorldPlan: every plan is the answer to its query, so what two regions   *)
(* say of one thing is a matter of the queries alone.                      *)

Answer(r) == [event |-> EventFor(r), anomalies |-> Anomalies(Query(r))]

PlansInv ==
  /\ world \in Worlds
  /\ DOMAIN plans \subseteq Regions
  /\ \A r \in DOMAIN plans : plans[r] = Answer(r)

\* Every plan is what its region would be told again.
LEMMA PlansAreAnswers == PlanSpec => []PlansInv
<1>1. PlanInit => PlansInv
  BY DEF PlanInit, PlansInv
<1>2. PlansInv /\ [PlanNext]_planVars => PlansInv'
  <2> SUFFICES ASSUME PlansInv, [PlanNext]_planVars PROVE PlansInv'
    OBVIOUS
  <2>1. CASE UNCHANGED planVars
    <3>1. world' = world /\ plans' = plans
      BY <2>1 DEF planVars
    <3>2. \A q \in Regions : Answer(q)' = Answer(q)
      BY <3>1 DEF Answer, EventFor, Fires, Beats, Targeted, Anomalies, Forced, Organic, MacroInstance
    <3> QED BY <3>1, <3>2 DEF PlansInv
  <2>2. ASSUME NEW r \in Regions, PlanRegion(r) PROVE PlansInv'
    <3>1. world' = world
      BY <2>2 DEF PlanRegion
    <3>2. \A q \in Regions : Answer(q)' = Answer(q)
      BY <3>1 DEF Answer, EventFor, Fires, Beats, Targeted, Anomalies, Forced, Organic, MacroInstance
    <3>3. /\ DOMAIN plans' = DOMAIN plans \cup {r}
          /\ \A q \in DOMAIN plans' : plans'[q] = IF q = r THEN Answer(r) ELSE plans[q]
      BY <2>2 DEF PlanRegion, Answer
    <3> QED BY <2>2, <3>1, <3>2, <3>3 DEF PlansInv
  <2> QED BY <2>1, <2>2 DEF PlanNext
<1> QED BY <1>1, <1>2, PTL DEF PlanSpec

\* A place is in the cell its quotient names.
LEMMA CellFloor ==
  ASSUME NEW n \in Int
  PROVE  /\ n \div MacroCellSize \in Int
         /\ MacroCellSize * (n \div MacroCellSize) <= n
         /\ n < MacroCellSize * (n \div MacroCellSize) + MacroCellSize
BY DEF MacroCellSize

(* Whatever reaches into a region has its anchor among those the region    *)
(* looks at: half the largest anomaly and its shift are less than the      *)
(* margin, along one axis.                                                 *)
LEMMA MarginSuffices ==
  ASSUME NEW a \in Int, NEW d \in -Jitter..Jitter, NEW h \in 0..MaxHalf, NEW n \in Int,
         NEW c, c = a * MacroCellSize + MacroCellSize \div 2 + d,
         c - h <= n * RegionSize + RegionSize, c + h >= n * RegionSize
  PROVE  /\ (n * RegionSize - MaxQueryMargin) \div MacroCellSize <= a
         /\ a <= (n * RegionSize + RegionSize + MaxQueryMargin) \div MacroCellSize
<1>1. MacroCellSize \div 2 = 800
  BY DEF MacroCellSize
<1>2. d \in Int /\ -240 <= d /\ d <= 240 /\ h \in Int /\ h <= 3200
  BY DEF Jitter, MaxHalf
<1>3. /\ a * 1600 + 800 + d - h <= n * 800 + 800
      /\ a * 1600 + 800 + d + h >= n * 800
  BY <1>1 DEF MacroCellSize, RegionSize
<1> DEFINE low == (n * RegionSize - MaxQueryMargin) \div MacroCellSize
           high == (n * RegionSize + RegionSize + MaxQueryMargin) \div MacroCellSize
<1>4. /\ low \in Int /\ 1600 * low <= n * 800 - 4000
      /\ high \in Int /\ n * 800 + 4800 < 1600 * high + 1600
  <2>1. n * RegionSize - MaxQueryMargin \in Int /\ n * RegionSize + RegionSize + MaxQueryMargin \in Int
    BY DEF RegionSize, MaxQueryMargin
  <2>2. /\ low \in Int /\ MacroCellSize * low <= n * RegionSize - MaxQueryMargin
        /\ high \in Int
        /\ n * RegionSize + RegionSize + MaxQueryMargin < MacroCellSize * high + MacroCellSize
    BY <2>1, CellFloor
  <2> QED BY <2>2 DEF MacroCellSize, RegionSize, MaxQueryMargin
<1> HIDE DEF low, high
<1>5. low <= a /\ a <= high
  BY <1>2, <1>3, <1>4
<1> QED BY <1>5 DEF low, high

\* An anomaly that reaches a region has its anchor in the region's window.
LEMMA ReachesAreSeen ==
  ASSUME world \in Worlds, NEW a \in DOMAIN world.family, NEW q \in Regions,
         Intersects(Bounds(MacroInstance(a, world.family[a])), Query(q))
  PROVE  InWindow(a, Query(q))
<1> DEFINE s == world.shape[a][world.family[a]]
           hx == IF s.turned THEN s.halfZ ELSE s.halfX
           hz == IF s.turned THEN s.halfX ELSE s.halfZ
<1>1. a.x \in Int /\ a.z \in Int /\ q.x \in Int /\ q.z \in Int /\ s \in Shape
  BY WorldAssumption DEF Point
<1>2. /\ s.dx \in -Jitter..Jitter /\ s.dz \in -Jitter..Jitter
      /\ hx \in 0..MaxHalf /\ hz \in 0..MaxHalf
  BY <1>1 DEF Shape
<1> DEFINE i == MacroInstance(a, world.family[a])
<1>3. /\ i.shape = s
      /\ i.center.x = a.x * MacroCellSize + MacroCellSize \div 2 + s.dx
      /\ i.center.z = a.z * MacroCellSize + MacroCellSize \div 2 + s.dz
  BY DEF MacroInstance
<1> HIDE DEF i
<1>4. /\ i.center.x - hx <= q.x * RegionSize + RegionSize
      /\ i.center.x + hx >= q.x * RegionSize
      /\ i.center.z - hz <= q.z * RegionSize + RegionSize
      /\ i.center.z + hz >= q.z * RegionSize
  BY <1>3 DEF Intersects, Bounds, Query, i
<1> HIDE DEF s, hx, hz
<1>5. /\ (q.x * RegionSize - MaxQueryMargin) \div MacroCellSize <= a.x
      /\ a.x <= (q.x * RegionSize + RegionSize + MaxQueryMargin) \div MacroCellSize
  BY <1>1, <1>2, <1>3, <1>4, MarginSuffices
<1>6. /\ (q.z * RegionSize - MaxQueryMargin) \div MacroCellSize <= a.z
      /\ a.z <= (q.z * RegionSize + RegionSize + MaxQueryMargin) \div MacroCellSize
  BY <1>1, <1>2, <1>3, <1>4, MarginSuffices
<1> QED BY <1>5, <1>6 DEF InWindow, Expanded, Query

(* The forced anomaly: one, wherever it is asked for, and but for the      *)
(* archway the very one the lattice would have.                            *)
LEMMA ForcedIsOne ==
  ASSUME NEW f, NEW g, NEW r \in Regions, NEW q \in Regions,
         f \in Forced(Query(r)), g \in Forced(Query(q))
  PROVE  f = g
BY DEF Forced

\* A forced anomaly is that of its anchor, unless it takes the place of another.
LEMMA ForcedIsMacro ==
  ASSUME NEW r \in Regions, NEW f \in Forced(Query(r))
  PROVE  /\ f.kind = world.forced /\ f.anchor = ForcedAt(world)
         /\ Usurped(f) \/ f = MacroInstance(f.anchor, f.kind)
<1> DEFINE there == MacroInstance(ForcedAt(world), world.forced)
<1>1. there.kind = world.forced /\ there.anchor = ForcedAt(world)
  BY DEF MacroInstance
<1>2. CASE world.forced = "archway"
  <2>1. f = [there EXCEPT !.center = Beside(world)]
    BY <1>2 DEF Forced
  <2>2. f.kind = there.kind /\ f.anchor = there.anchor
    BY <2>1 DEF MacroInstance
  <2> QED BY <1>1, <1>2, <2>2 DEF Usurped
<1>3. CASE world.forced # "archway"
  <2>1. f = there
    BY <1>3 DEF Forced
  <2> QED BY <1>1, <2>1
<1> QED BY <1>2, <1>3

\* An organic anomaly is that of its anchor.
LEMMA OrganicIsMacro ==
  ASSUME NEW r \in Regions, NEW i \in Organic(Query(r))
  PROVE  /\ i.anchor \in DOMAIN world.family /\ i.kind = world.family[i.anchor]
         /\ i = MacroInstance(i.anchor, i.kind)
<1>1. PICK a \in DOMAIN world.family : i = MacroInstance(a, world.family[a])
  BY DEF Organic
<1>2. i.anchor = a /\ i.kind = world.family[a]
  BY <1>1 DEF MacroInstance
<1> QED BY <1>1, <1>2

\* What a region is told of reaches it.
LEMMA AnomaliesReachTheirRegion ==
  ASSUME NEW r \in Regions, NEW i \in Anomalies(Query(r))
  PROVE  Intersects(Bounds(i), Query(r))
<1>1. i \in Forced(Query(r)) \/ i \in Organic(Query(r))
  BY DEF Anomalies
<1> QED BY <1>1 DEF Forced, Organic

\* What one region is told of, every region it reaches is told of.
LEMMA AnomaliesAreShared ==
  ASSUME world \in Worlds, NEW r \in Regions, NEW q \in Regions,
         NEW i \in Anomalies(Query(r)), Intersects(Bounds(i), Query(q)), ~Usurped(i)
  PROVE  i \in Anomalies(Query(q))
<1>1. CASE i \in Forced(Query(r))
  <2>1. i \in Forced(Query(q))
    BY <1>1 DEF Forced
  <2> QED BY <2>1 DEF Anomalies
<1>2. CASE i \notin Forced(Query(r))
  <2>1. i \in Organic(Query(r)) /\ world.frequent
    BY <1>2 DEF Anomalies
  <2>2. /\ i.anchor \in DOMAIN world.family
        /\ i = MacroInstance(i.anchor, world.family[i.anchor])
    BY <2>1, OrganicIsMacro
  <2>3. InWindow(i.anchor, Query(q))
    BY <2>2, ReachesAreSeen
  <2>4. i \in Organic(Query(q))
    BY <2>1, <2>2, <2>3 DEF Organic
  <2>5. ASSUME NEW f \in Forced(Query(q)), SameId(i, f) PROVE i = f
    <3>1. ~Usurped(f)
      BY <2>5 DEF SameId, Usurped
    <3> QED BY <2>1, <2>5, <3>1, ForcedIsMacro, OrganicIsMacro DEF SameId
  <2> QED BY <2>1, <2>4, <2>5 DEF Anomalies
<1> QED BY <1>1, <1>2

\* What has one id is one anomaly.
LEMMA OneIdentityIsOneAnomaly ==
  ASSUME NEW r \in Regions, NEW q \in Regions,
         NEW i \in Anomalies(Query(r)), NEW j \in Anomalies(Query(q)),
         SameId(i, j), r = q \/ ~Usurped(i)
  PROVE  i = j
<1>1. /\ i \in Forced(Query(r)) \/ i \in Organic(Query(r))
      /\ j \in Forced(Query(q)) \/ j \in Organic(Query(q))
  BY DEF Anomalies
<1>2. CASE ~Usurped(i)
  <2>1. ~Usurped(j)
    BY <1>2 DEF SameId, Usurped
  <2>2. i = MacroInstance(i.anchor, i.kind)
    BY <1>1, <1>2, ForcedIsMacro, OrganicIsMacro
  <2>3. j = MacroInstance(j.anchor, j.kind)
    BY <1>1, <2>1, ForcedIsMacro, OrganicIsMacro
  <2> QED BY <2>2, <2>3 DEF SameId
<1>3. CASE r = q
  <2>1. CASE i \in Forced(Query(r)) /\ j \in Forced(Query(r))
    BY <2>1, ForcedIsOne
  <2>2. CASE i \in Organic(Query(r)) /\ j \in Organic(Query(r))
    BY <2>2, OrganicIsMacro DEF SameId
  <2>3. CASE i \in Forced(Query(r)) /\ j \notin Forced(Query(r))
    BY <1>3, <2>3 DEF Anomalies, SameId
  <2>4. CASE i \notin Forced(Query(r)) /\ j \in Forced(Query(r))
    BY <1>3, <2>4 DEF Anomalies, SameId
  <2> QED BY <1>1, <1>3, <2>1, <2>2, <2>3, <2>4
<1> QED BY <1>2, <1>3

(* Of two candidates one beats the other, so cells that fire do not touch. *)
LEMMA EventsKeepApart ==
  ASSUME world \in Worlds, NEW r \in Regions, NEW q \in Regions,
         EventFor(r), EventFor(q), r # q
  PROVE  ~Intersects(Expanded(Query(r), MacroCellSize - 1), Query(q))
<1> DEFINE c == CellOf(r)
           d == CellOf(q)
<1>1. /\ c \in DOMAIN world.score /\ d \in DOMAIN world.score
      /\ Targeted(c) = r /\ Targeted(d) = q
      /\ \A rival \in DOMAIN world.score : Adjacent(rival, c) => ~Beats(rival, c)
      /\ \A rival \in DOMAIN world.score : Adjacent(rival, d) => ~Beats(rival, d)
  BY DEF EventFor, Fires
<1>2. /\ c \in Point /\ d \in Point /\ world.score[c] \in Nat /\ world.score[d] \in Nat
      /\ world.target[c] \in [x : {0, 1}, z : {0, 1}]
      /\ world.target[d] \in [x : {0, 1}, z : {0, 1}]
  BY <1>1, WorldAssumption
<1> HIDE DEF c, d
<1>3. c # d
  BY <1>1
<1>4. c.x # d.x \/ c.z # d.z
  BY <1>2, <1>3 DEF Point
<1>5. Beats(c, d) \/ Beats(d, c)
  BY <1>2, <1>4 DEF Beats, Point
<1>6. ~Adjacent(c, d)
  BY <1>1, <1>2, <1>5 DEF Adjacent, Point
<1>7. \/ c.x - d.x >= 2 \/ d.x - c.x >= 2 \/ c.z - d.z >= 2 \/ d.z - c.z >= 2
  BY <1>2, <1>3, <1>6 DEF Adjacent, Point
<1>8. /\ r.x - 2 * c.x \in {0, 1} /\ r.z - 2 * c.z \in {0, 1}
      /\ q.x - 2 * d.x \in {0, 1} /\ q.z - 2 * d.z \in {0, 1}
  BY <1>1, <1>2 DEF Targeted, Point
<1>9. r.x \in Int /\ r.z \in Int /\ q.x \in Int /\ q.z \in Int
  BY WorldAssumption DEF Point
<1>10. r.x - q.x >= 3 \/ q.x - r.x >= 3 \/ r.z - q.z >= 3 \/ q.z - r.z >= 3
  BY <1>2, <1>7, <1>8, <1>9 DEF Point
<1> QED BY <1>9, <1>10 DEF Intersects, Expanded, Query, RegionSize, MacroCellSize

(* For every outcome of the hashes and any regions, asked in any order:    *)
(* regions agree on the anomalies they share, and Red Rooms are a macro    *)
(* cell apart.                                                             *)
THEOREM RegionsPlanOneWorld == PlanSpec => []RegionsFitTogether
<1>1. PlansInv => RegionsFitTogether
  <2> SUFFICES ASSUME PlansInv PROVE RegionsFitTogether
    OBVIOUS
  <2>1. \A r \in DOMAIN plans : /\ r \in Regions
                                /\ plans[r].event = EventFor(r)
                                /\ plans[r].anomalies = Anomalies(Query(r))
    BY DEF PlansInv, Answer
  <2>2. SharedAnomalies
    BY <2>1, AnomaliesReachTheirRegion, AnomaliesAreShared, OneIdentityIsOneAnomaly
       DEF SharedAnomalies, PlansInv
  <2>3. RareRedRooms
    BY <2>1, EventsKeepApart DEF RareRedRooms, PlansInv
  <2> QED BY <2>2, <2>3 DEF RegionsFitTogether
<1> QED BY <1>1, PlansAreAnswers, PTL
=============================================================================
