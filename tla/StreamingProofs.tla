-------------------------- MODULE StreamingProofs --------------------------
(***************************************************************************)
(* Proofs about ChunkStreaming, for every footprint geometry, level set,   *)
(* pool size and load budget, and for a source that answers in any order,  *)
(* and about FrameStreaming and AtlasPool, for every footprint, pool, kind *)
(* of renderer and kind of chunk source.                                   *)
(***************************************************************************)
EXTENDS FrameStreaming, SequenceTheorems, FiniteSetTheorems, TLAPS

-----------------------------------------------------------------------------
(* What the queues of the model hold.                                      *)

(* Appending adds the element and nothing else.                            *)
LEMMA RangeOfAppend ==
  ASSUME NEW S, NEW s \in Seq(S), NEW e \in S
  PROVE  Range(Append(s, e)) = Range(s) \cup {e}
<1>1. /\ Append(s, e) \in Seq(S)
      /\ Len(Append(s, e)) = Len(s) + 1
      /\ \A i \in 1..Len(s) : Append(s, e)[i] = s[i]
      /\ Append(s, e)[Len(s) + 1] = e
  OBVIOUS
<1>2. DOMAIN Append(s, e) = 1..(Len(s) + 1) /\ DOMAIN s = 1..Len(s) /\ Len(s) \in Nat
  BY <1>1, LenProperties
<1>3. Range(s) \cup {e} \subseteq Range(Append(s, e))
  BY <1>1, <1>2 DEF Range
<1>4. Range(Append(s, e)) \subseteq Range(s) \cup {e}
  BY <1>1, <1>2 DEF Range
<1> QED BY <1>3, <1>4

(* A nonempty sequence holds its head and what its tail holds.             *)
LEMMA RangeOfHeadTail ==
  ASSUME NEW S, NEW s \in Seq(S), s # <<>>
  PROVE  /\ Head(s) \in S /\ Tail(s) \in Seq(S)
         /\ Range(s) = {Head(s)} \cup Range(Tail(s))
<1>1. /\ Head(s) \in S /\ Tail(s) \in Seq(S)
      /\ Len(Tail(s)) = Len(s) - 1
      /\ \A i \in 1..Len(Tail(s)) : Tail(s)[i] = s[i + 1]
  BY HeadTailProperties
<1>2. /\ Len(s) \in Nat \ {0} /\ Head(s) = s[1]
      /\ DOMAIN s = 1..Len(s) /\ DOMAIN Tail(s) = 1..(Len(s) - 1)
  BY <1>1, LenProperties, EmptySeq
<1>3. Range(Tail(s)) \subseteq Range(s)
  <2> SUFFICES ASSUME NEW i \in 1..(Len(s) - 1) PROVE Tail(s)[i] \in Range(s)
    BY <1>2 DEF Range
  <2>1. i + 1 \in 1..Len(s) /\ Tail(s)[i] = s[i + 1]
    BY <1>1, <1>2
  <2> QED BY <2>1, <1>2 DEF Range
<1>4. Range(s) \subseteq {Head(s)} \cup Range(Tail(s))
  <2> SUFFICES ASSUME NEW i \in 1..Len(s) PROVE s[i] \in {Head(s)} \cup Range(Tail(s))
    BY <1>2 DEF Range
  <2>1. CASE i = 1
    BY <2>1, <1>2
  <2>2. CASE i # 1
    <3>1. i - 1 \in 1..(Len(s) - 1) /\ Tail(s)[i - 1] = s[i]
      BY <2>2, <1>1, <1>2
    <3> QED BY <3>1, <1>2 DEF Range
  <2> QED BY <2>1, <2>2
<1>5. Head(s) \in Range(s)
  BY <1>2 DEF Range
<1> QED BY <1>1, <1>3, <1>4, <1>5

-----------------------------------------------------------------------------
(* Types.                                                                  *)

(* A new version of the reality is a reality.                              *)
LEMMA NextWorldType ==
  ASSUME reality \in Reality
  PROVE  /\ NextWorld \in Reality
         /\ NextWorld.world = reality.world + 1
         /\ NextWorld.delirium = reality.delirium
BY DEF NextWorld, Reality

(* What force_rebuild leaves behind is well typed.                         *)
LEMMA ForceRebuildType ==
  ASSUME TypeOK, NEW keys \in SUBSET Chunk, ForceRebuild(keys), reality' \in Reality
  PROVE  /\ forced' \in SUBSET Chunk
         /\ pending' \in SUBSET Request
         /\ need' \in [Chunk -> Nat]
BY DEF TypeOK, ForceRebuild, Reality

(* Resident keys are chunks.                                               *)
LEMMA StoreKeys == TypeOK => Keys(store) \subseteq Chunk
BY DEF TypeOK, Keys, Resident

(* Requests to the source keep the types of its queues.                    *)
LEMMA SubmitType ==
  ASSUME TypeOK, NEW r \in Request, Source!Submit(r)
  PROVE  /\ open' \in SUBSET Request
         /\ completed' \in Seq(Request)
         /\ failed' \in SUBSET Request
<1>1. CASE Source!Accept(r)
  BY <1>1 DEF TypeOK, Source!Accept
<1>2. CASE Source!AnswerNow(r)
  BY <1>2 DEF TypeOK, Source!AnswerNow
<1>3. ASSUME NEW others \in SUBSET open, Source!Refuse(r, others)
      PROVE  open' \in SUBSET Request /\ completed' \in Seq(Request) /\ failed' \in SUBSET Request
  BY <1>3 DEF TypeOK, Source!Refuse
<1> QED BY <1>1, <1>2, <1>3 DEF Source!Submit

(* A request is built from a chunk, a level of detail and a reality.       *)
LEMMA IssueType ==
  ASSUME TypeOK, NEW k \in Chunk, NEW lod \in {FineLod, CoarseLod},
         NEW rl \in Reality, Issue(k, lod, rl), pc' \in PCs
  PROVE  TypeOK'
<1>1. PICK i \in RequestId :
        LET r == [id |-> i, key |-> k, level |-> level, lod |-> lod, reality |-> rl]
        IN  /\ pending' = pending \cup {r}
            /\ Source!Submit(r)
            /\ faults' = IF failed' = failed THEN faults ELSE faults + 1
            /\ UNCHANGED <<position, level, reality, store, forced, installVars,
                           historyVars, events>>
  BY DEF Issue
<1> DEFINE r == [id |-> i, key |-> k, level |-> level, lod |-> lod, reality |-> rl]
<1>2. r \in Request
  BY DEF TypeOK, Request
<1>3. /\ open' \in SUBSET Request
      /\ completed' \in Seq(Request)
      /\ failed' \in SUBSET Request
  <2> HIDE DEF r
  <2> QED BY <1>1, <1>2, SubmitType DEF r
<1> QED BY <1>1, <1>2, <1>3 DEF TypeOK, installVars, historyVars

(* The first completion of the backlog is a request.                       *)
LEMMA NextCompletionType ==
  ASSUME TypeOK, NEW r, NextCompletion(r)
  PROVE  r \in Request /\ backlog' \in Seq(Request)
BY HeadTailProperties DEF TypeOK, NextCompletion

(* Installing touches only engine state, and keeps its types.              *)
LEMMA InstallType ==
  ASSUME TypeOK, InstallOne
  PROVE  TypeOK'
<1>1. PICK r \in Range(backlog) :
        \/ DeferOverBudget(r) \/ DropStale(r) \/ DropUnwanted(r)
        \/ DeferBuried(r) \/ Install(r)
  BY DEF InstallOne
<1>2. NextCompletion(r)
  BY <1>1 DEF DeferOverBudget, DropStale, DropUnwanted, DeferBuried, Install
<1>3. r \in Request /\ backlog' \in Seq(Request)
  BY <1>2, NextCompletionType
<1>4. /\ r.key \in Chunk /\ r.level \in Level /\ r.reality \in Reality
      /\ r.lod \in {FineLod, CoarseLod}
  BY <1>3 DEF Request
<1>5. CASE DeferOverBudget(r) \/ DropStale(r) \/ DropUnwanted(r) \/ DeferBuried(r)
  <2>1. UNCHANGED <<store, forced, budget>>
    BY <1>5 DEF DeferOverBudget, DropStale, DropUnwanted, DeferBuried
  <2>2. pending' \in SUBSET Request
    BY <1>5 DEF TypeOK, DeferOverBudget, DropStale, DropUnwanted, DeferBuried
  <2>3. deferred' = deferred \/ deferred' = Append(deferred, r)
    BY <1>5 DEF DeferOverBudget, DropStale, DropUnwanted, DeferBuried
  <2>4. deferred \in Seq(Request) /\ Append(deferred, r) \in Seq(Request)
    BY <1>3, AppendProperties DEF TypeOK
  <2>5. deferred' \in Seq(Request)
    BY <2>3, <2>4
  <2> QED BY <1>2, <1>3, <2>1, <2>2, <2>5 DEF TypeOK, NextCompletion, sourceVars, historyVars
<1>6. CASE Install(r)
  <2>1. budget' \in Nat
    BY <1>4, <1>6 DEF TypeOK, Install, Affordable, InstallCost, FineLod, CoarseLod,
       FineLoadCost
  <2>2. store' \in SUBSET Resident
    BY <1>4, <1>6 DEF TypeOK, Install, Put, ResidentAt, Resident
  <2> QED BY <1>3, <1>6, <2>1, <2>2 DEF TypeOK, Install, NextCompletion,
            sourceVars, historyVars
<1> QED BY <1>1, <1>5, <1>6

(* Arriving on another level keeps the types.                              *)
LEMMA SwitchLevelType ==
  ASSUME TypeOK, NEW target \in Level, NEW arrival \in Position,
         SwitchLevel(target, arrival), pc' \in PCs, events' \in Nat
  PROVE  TypeOK'
<1>1. reality' \in Reality
  BY NextWorldType DEF TypeOK, SwitchLevel
<1>2. left' \in Nat
  BY DEF TypeOK, SwitchLevel, Reality
<1>3. backlog' \in Seq(Request)
  BY DEF SwitchLevel
<1> QED BY <1>1, <1>2, <1>3 DEF TypeOK, SwitchLevel, sourceVars

(* Every step keeps the types.                                             *)
LEMMA TypeStep == TypeOK /\ [Next]_vars => TypeOK'
<1> SUFFICES ASSUME TypeOK, [Next]_vars PROVE TypeOK'
  OBVIOUS
<1> USE DEF engineVars, installVars, sourceVars, historyVars
<1>c. /\ {Backrooms, Grassland} \subseteq Level /\ Spawn \in Position
      /\ MaxLoads \in Nat /\ MaxDelirium \in Nat
      /\ \A p \in Position : Under[p] \subseteq Chunk
      /\ MaxEvents \in Nat /\ MaxFaults \in Nat
  BY ConstantsAssumption
<1>e. Event => events' \in Nat
  BY DEF Event, TypeOK
<1>1. CASE BeginTick \/ EndReload \/ EndCoarse \/ SkipRefine \/ EndTick
  BY <1>1 DEF TypeOK, BeginTick, EndReload, EndCoarse, SkipRefine, EndTick, PCs
<1>2. CASE Move
  BY <1>2, <1>e DEF TypeOK, Move, PCs
<1>3. CASE CrossRedGate
  <2>1. Keys(store) \in SUBSET Chunk
    BY StoreKeys
  <2>2. reality' \in Reality /\ ForceRebuild(Keys(store))
    BY <1>3, NextWorldType DEF CrossRedGate, TypeOK
  <2>3. sealed' \in Nat
    BY <1>3, <2>2 DEF CrossRedGate, Reality
  <2> QED BY <1>3, <1>e, <2>1, <2>2, <2>3, ForceRebuildType DEF TypeOK, CrossRedGate
<1>4. CASE CrossRemapGate \/ AbandonDriftCells
  BY <1>4, <1>e, NextWorldType DEF TypeOK, CrossRemapGate, AbandonDriftCells, PCs
<1>5. ASSUME NEW k \in Chunk, PickUpSupply(k) PROVE TypeOK'
  <2>1. reality' \in Reality /\ ForceRebuild({k})
    BY <1>5, NextWorldType DEF PickUpSupply, TypeOK
  <2> QED BY <1>5, <1>e, <2>1, ForceRebuildType DEF TypeOK, PickUpSupply, PCs
<1>6. ASSUME NEW keys \in SUBSET Keys(store), RearShift(keys) PROVE TypeOK'
  <2>1. reality' \in Reality /\ ForceRebuild(keys) /\ keys \in SUBSET Chunk
    BY <1>6, NextWorldType, StoreKeys DEF RearShift, TypeOK
  <2> QED BY <1>6, <1>e, <2>1, ForceRebuildType DEF TypeOK, RearShift, PCs
<1>7. CASE TakeDoor
  BY <1>7, <1>e, SwitchLevelType DEF TakeDoor, PCs
<1>8. CASE Noclip
  BY <1>8, <1>c, <1>e, SwitchLevelType DEF Noclip, PCs, TypeOK
<1>9. ASSUME NEW tier \in 0..MaxDelirium, ChangeDelirium(tier) PROVE TypeOK'
  BY <1>9, <1>e DEF TypeOK, ChangeDelirium, Reality, PCs
<1>10. CASE BeginStreaming
  <2>1. backlog' \in Seq(Request) /\ deferred' \in Seq(Request) /\ completed' \in Seq(Request)
    BY <1>10, ConcatProperties DEF TypeOK, BeginStreaming, Source!Poll
  <2>2. budget' \in Nat
    BY <1>10, <1>c DEF BeginStreaming, InstallBudget, Max2, FineLoadCost
  <2> QED BY <1>10, <2>1, <2>2 DEF TypeOK, BeginStreaming, StillOrdered, Source!Poll, PCs
<1>11. CASE InstallOne
  BY <1>11, InstallType
<1>12. CASE EndInstall
  BY <1>12 DEF TypeOK, EndInstall, PCs
<1>13. CASE IssueReload
  <2>1. PICK c \in ReloadTargets : Issue(c.key, c.lod, ReloadReality(c))
    BY <1>13 DEF IssueReload
  <2>2. /\ c.key \in Chunk /\ c.lod \in {FineLod, CoarseLod}
        /\ ReloadReality(c) \in Reality /\ pc' \in PCs
    BY <1>13 DEF TypeOK, ReloadTargets, Resident, ReloadReality, IssueReload
  <2> QED BY <2>1, <2>2, IssueType
<1>14. CASE IssueCoarse
  <2>1. PICK k \in MissingTarget : Issue(k, CoarseLod, reality)
    BY <1>14 DEF IssueCoarse
  <2>2. k \in Chunk /\ reality \in Reality /\ pc' \in PCs
    BY <1>14 DEF TypeOK, MissingTarget, Nearest, IssueCoarse
  <2> QED BY <2>1, <2>2, IssueType
<1>15. CASE IssueRefine
  <2>1. PICK k \in RefineTarget :
          \E c \in ResidentAt(k) : Issue(k, FineLod, RefineReality(c))
    BY <1>15 DEF IssueRefine
  <2>2. PICK c \in ResidentAt(k) : Issue(k, FineLod, RefineReality(c))
    BY <2>1
  <2>3. k \in Chunk /\ RefineReality(c) \in Reality /\ pc' \in PCs
    BY <1>15 DEF TypeOK, ResidentAt, Resident, RefineReality, IssueRefine, PCs
  <2> QED BY <2>2, <2>3, IssueType
<1>16. ASSUME NEW r \in open, SourceCompletes(r) PROVE TypeOK'
  BY <1>16 DEF TypeOK, SourceCompletes, Source!Complete
<1>17. ASSUME NEW rs \in SUBSET open, SourceFails(rs) PROVE TypeOK'
  BY <1>17 DEF TypeOK, SourceFails, Source!Fail
<1>18. CASE UNCHANGED vars
  BY <1>18 DEF TypeOK, vars
<1> QED BY <1>1, <1>2, <1>3, <1>4, <1>5, <1>6, <1>7, <1>8, <1>9, <1>10, <1>11,
       <1>12, <1>13, <1>14, <1>15, <1>16, <1>17, <1>18
       DEF Next, Happenings, Streaming

(* The engine starts well typed.                                           *)
LEMMA TypeInit == Init => TypeOK
<1> SUFFICES ASSUME Init PROVE TypeOK
  OBVIOUS
<1>1. reality \in Reality
  BY ConstantsAssumption DEF Init, Reality
<1> QED BY <1>1, ConstantsAssumption DEF Init, TypeOK, Source!Init, PCs

(* TypeOK holds for every footprint geometry, pool size and load budget.   *)
THEOREM Typing == Spec => []TypeOK
<1>1. Init => TypeOK
  BY TypeInit
<1>2. TypeOK /\ [Next]_vars => TypeOK'
  BY TypeStep
<1> QED BY <1>1, <1>2, PTL DEF Spec

-----------------------------------------------------------------------------
(* Which realities meet: how each kind of step keeps RealityInOrder.       *)

(* Dropping orders, or time passing, disturbs nothing.                     *)
LEMMA FewerOrders ==
  ASSUME TypeOK, TypeOK', RealityInOrder,
         pending' \subseteq pending,
         reality'.world >= reality.world,
         UNCHANGED <<level, store, forced, need, left>>
  PROVE  RealityInOrder'
<1>1. OnePerChunk' /\ RebuildsReachTheirReality' /\ HallwaysNeverReturn'
  BY DEF RealityInOrder, OnePerChunk, RebuildsReachTheirReality, HallwaysNeverReturn
<1>2. OrdersAreCurrent'
  BY DEF TypeOK, RealityInOrder, OrdersAreCurrent, Request, Reality
<1>3. ResidentsAreOlder'
  BY DEF TypeOK, RealityInOrder, ResidentsAreOlder, Resident, Reality
<1>4. MarksArePast'
  BY DEF TypeOK, RealityInOrder, MarksArePast, Reality
<1> QED BY <1>1, <1>2, <1>3, <1>4 DEF RealityInOrder

(* A forced rebuild: orders for the marked chunks are dropped, and what is *)
(* resident there is older than the reality that marks it.                 *)
LEMMA ForcedRebuild ==
  ASSUME TypeOK, TypeOK', RealityInOrder,
         NEW keys \in SUBSET Chunk, ForceRebuild(keys), reality' = NextWorld,
         UNCHANGED <<level, store, left>>
  PROVE  RealityInOrder'
<1>0. reality'.world = reality.world + 1 /\ reality.world \in Nat
  BY NextWorldType DEF TypeOK, Reality
<1>1. OnePerChunk'
  BY DEF RealityInOrder, OnePerChunk, ForceRebuild
<1>2. RebuildsReachTheirReality'
  BY DEF TypeOK, RealityInOrder, RebuildsReachTheirReality, ForceRebuild, Resident
<1>3. HallwaysNeverReturn'
  BY DEF RealityInOrder, HallwaysNeverReturn
<1>4. OrdersAreCurrent'
  BY <1>0, SMTT(60) DEF TypeOK, RealityInOrder, OrdersAreCurrent, ForceRebuild, Request, Reality
<1>5. ResidentsAreOlder'
  BY <1>0, SMTT(60) DEF TypeOK, RealityInOrder, ResidentsAreOlder, ForceRebuild, Resident, Reality
<1>6. MarksArePast'
  BY <1>0 DEF TypeOK, RealityInOrder, MarksArePast, ForceRebuild, Reality
<1> QED BY <1>1, <1>2, <1>3, <1>4, <1>5, <1>6 DEF RealityInOrder

(* Arriving on a level: nothing is resident or on order.                   *)
LEMMA ArrivingElsewhere ==
  ASSUME TypeOK, TypeOK', RealityInOrder,
         NEW target, NEW arrival, SwitchLevel(target, arrival)
  PROVE  RealityInOrder'
<1>1. store' = {} /\ pending' = {}
  BY DEF SwitchLevel
<1>2. MarksArePast'
  BY NextWorldType DEF TypeOK, RealityInOrder, MarksArePast, SwitchLevel, Reality
<1> QED BY <1>1, <1>2 DEF RealityInOrder, OnePerChunk, RebuildsReachTheirReality,
       HallwaysNeverReturn, OrdersAreCurrent, ResidentsAreOlder

(* Eviction: a chunk loses its mark only together with its payload.        *)
LEMMA Eviction ==
  ASSUME TypeOK, TypeOK', RealityInOrder, BeginStreaming
  PROVE  RealityInOrder'
<1>1. /\ store' = {c \in store : c.key \in Keep}
      /\ forced' = forced \cap Keep
      /\ pending' \subseteq pending
      /\ UNCHANGED <<level, reality, need, left>>
  BY DEF BeginStreaming, StillOrdered, historyVars
<1>2. OnePerChunk' /\ RebuildsReachTheirReality' /\ HallwaysNeverReturn'
  BY <1>1 DEF RealityInOrder, OnePerChunk, RebuildsReachTheirReality, HallwaysNeverReturn
<1>3. OrdersAreCurrent' /\ ResidentsAreOlder' /\ MarksArePast'
  BY <1>1 DEF RealityInOrder, OrdersAreCurrent, ResidentsAreOlder, MarksArePast
<1> QED BY <1>2, <1>3 DEF RealityInOrder

(* Installing the completion of the exact pending order.                   *)
LEMMA Installation ==
  ASSUME TypeOK, TypeOK', RealityInOrder, NEW r, Install(r)
  PROVE  RealityInOrder'
<1> DEFINE new == [key |-> r.key, level |-> r.level, lod |-> r.lod, reality |-> r.reality]
<1>1. /\ store' = {c \in store : c.key # r.key} \cup {new}
      /\ pending' = {q \in pending : q.key # r.key}
      /\ forced' = forced \ {r.key}
      /\ UNCHANGED <<level, reality, need, left>>
  BY DEF Install, Put, ResidentAt, NextCompletion, historyVars
<1>2. /\ r \in pending /\ r \in Request
      /\ r.level = level
      /\ r.reality.world >= need[r.key] /\ r.reality.world <= reality.world
      /\ level = Backrooms => r.reality.world > left
  BY DEF TypeOK, Install, IsCurrent, RealityInOrder, OrdersAreCurrent, Request, Reality
<1>3. OnePerChunk'
  BY <1>1 DEF RealityInOrder, OnePerChunk
<1>4. RebuildsReachTheirReality'
  BY <1>1, <1>2 DEF RealityInOrder, RebuildsReachTheirReality
<1>5. HallwaysNeverReturn'
  BY <1>1, <1>2 DEF RealityInOrder, HallwaysNeverReturn
<1>6. OrdersAreCurrent' /\ ResidentsAreOlder' /\ MarksArePast'
  BY <1>1, <1>2 DEF RealityInOrder, OrdersAreCurrent, ResidentsAreOlder, MarksArePast
<1> QED BY <1>3, <1>4, <1>5, <1>6 DEF RealityInOrder

(* A new order for a chunk without one, for a reality that is allowed.     *)
LEMMA NewOrder ==
  ASSUME TypeOK, TypeOK', RealityInOrder,
         NEW k \in Chunk, NEW lod, NEW rl \in Reality, Issue(k, lod, rl),
         k \notin Keys(pending),
         need[k] <= rl.world, rl.world <= reality.world,
         level = Backrooms => rl.world > left
  PROVE  RealityInOrder'
<1>1. PICK i \in RequestId :
        pending' = pending \cup {[id |-> i, key |-> k, level |-> level,
                                  lod |-> lod, reality |-> rl]}
  BY DEF Issue
<1>2. UNCHANGED <<level, reality, store, forced, need, left>>
  BY DEF Issue, historyVars
<1>3. OnePerChunk'
  BY <1>1, <1>2 DEF RealityInOrder, OnePerChunk, Keys
<1>4. OrdersAreCurrent'
  BY <1>1, <1>2 DEF RealityInOrder, OrdersAreCurrent
<1>5. /\ RebuildsReachTheirReality' /\ HallwaysNeverReturn'
      /\ ResidentsAreOlder' /\ MarksArePast'
  BY <1>2 DEF RealityInOrder, RebuildsReachTheirReality, HallwaysNeverReturn,
     ResidentsAreOlder, MarksArePast
<1> QED BY <1>3, <1>4, <1>5 DEF RealityInOrder

(* What a reload, a first load and a refinement ask for is allowed.        *)
LEMMA OrdersAskForAllowedRealities ==
  ASSUME Inductive, TypeOK', IssueReload \/ IssueCoarse \/ IssueRefine
  PROVE  RealityInOrder'
<1>1. TypeOK /\ RealityInOrder /\ reality \in Reality
  BY DEF Inductive, TypeOK
<1>2. \A k \in Chunk : need[k] <= reality.world
  BY <1>1 DEF RealityInOrder, MarksArePast
<1>3. level = Backrooms => reality.world > left
  BY <1>1 DEF TypeOK, RealityInOrder, MarksArePast, Reality
<1>4. reality.world <= reality.world
  BY <1>1 DEF Reality
<1>5. CASE IssueReload
  <2>1. PICK c \in ReloadTargets : Issue(c.key, c.lod, reality)
    BY <1>5 DEF IssueReload, ReloadReality
  <2>2. c.key \in Chunk /\ c.key \notin Keys(pending)
    BY <1>1 DEF ReloadTargets, TypeOK, Resident
  <2> QED BY <1>1, <1>2, <1>3, <1>4, <2>1, <2>2, NewOrder
<1>6. CASE IssueCoarse
  <2>1. PICK k \in MissingTarget : Issue(k, CoarseLod, reality)
    BY <1>6 DEF IssueCoarse
  <2>2. k \in Chunk /\ k \notin Keys(pending)
    BY DEF MissingTarget, Nearest
  <2> QED BY <1>1, <1>2, <1>3, <1>4, <2>1, <2>2, NewOrder
<1>7. CASE IssueRefine
  <2>1. PICK k \in RefineTarget : \E c \in ResidentAt(k) : Issue(k, FineLod, RefineReality(c))
    BY <1>7 DEF IssueRefine
  <2>2. PICK c \in ResidentAt(k) : Issue(k, FineLod, c.reality)
    BY <2>1 DEF RefineReality
  <2>3. /\ c \in store /\ c.key = k /\ k \notin Keys(pending)
        /\ k \in Chunk /\ c.reality \in Reality
    BY <1>1 DEF RefineTarget, Nearest, ResidentAt, TypeOK, Resident
  <2>4. k \notin forced
    BY <1>7, <2>3 DEF IssueRefine, Inductive, RebuildsComeFirst, ReloadTargets
  <2>5. need[k] <= c.reality.world
    BY <1>1, <2>3, <2>4 DEF RealityInOrder, RebuildsReachTheirReality, TypeOK, Reality
  <2>6. /\ c.reality.world <= reality.world
        /\ level = Backrooms => c.reality.world > left
    BY <1>1, <2>3 DEF RealityInOrder, ResidentsAreOlder, HallwaysNeverReturn
  <2> QED BY <1>1, <2>2, <2>3, <2>5, <2>6, NewOrder
<1> QED BY <1>5, <1>6, <1>7

(* Every step keeps RealityInOrder.                                        *)
LEMMA RealityStep == Inductive /\ TypeOK' /\ [Next]_vars => RealityInOrder'
<1> SUFFICES ASSUME Inductive, TypeOK', [Next]_vars PROVE RealityInOrder'
  OBVIOUS
<1> USE DEF engineVars, installVars, historyVars
<1>0. TypeOK /\ RealityInOrder
  BY DEF Inductive
<1>w. /\ reality.world >= reality.world
      /\ NextWorld.world >= reality.world
  BY <1>0, NextWorldType DEF TypeOK, Reality
<1>1. CASE BeginTick \/ EndReload \/ EndCoarse \/ SkipRefine \/ EndTick \/ Move
  BY <1>0, <1>1, <1>w, FewerOrders
     DEF BeginTick, EndReload, EndCoarse, SkipRefine, EndTick, Move
<1>2. CASE CrossRedGate
  BY <1>0, <1>2, StoreKeys, ForcedRebuild DEF CrossRedGate
<1>3. CASE CrossRemapGate \/ AbandonDriftCells
  BY <1>0, <1>3, <1>w, FewerOrders DEF CrossRemapGate, AbandonDriftCells
<1>4. ASSUME NEW k \in Chunk, PickUpSupply(k) PROVE RealityInOrder'
  BY <1>0, <1>4, ForcedRebuild DEF PickUpSupply
<1>5. ASSUME NEW keys \in SUBSET Keys(store), RearShift(keys) PROVE RealityInOrder'
  <2>1. keys \in SUBSET Chunk
    BY <1>0, StoreKeys
  <2> QED BY <1>0, <1>5, <2>1, ForcedRebuild DEF RearShift
<1>6. CASE TakeDoor \/ Noclip
  BY <1>0, <1>6, ArrivingElsewhere DEF TakeDoor, Noclip
<1>7. ASSUME NEW tier \in 0..MaxDelirium, ChangeDelirium(tier) PROVE RealityInOrder'
  <2>1. reality'.world = reality.world
    BY <1>0, <1>7 DEF ChangeDelirium, TypeOK, Reality
  <2> QED BY <1>0, <1>7, <1>w, <2>1, FewerOrders DEF ChangeDelirium
<1>8. CASE BeginStreaming
  BY <1>0, <1>8, Eviction
<1>9. CASE InstallOne
  <2>1. PICK r \in Range(backlog) :
          \/ DeferOverBudget(r) \/ DropStale(r) \/ DropUnwanted(r) \/ DeferBuried(r)
          \/ Install(r)
    BY <1>9 DEF InstallOne
  <2>2. CASE Install(r)
    BY <1>0, <2>2, Installation
  <2>3. CASE DeferOverBudget(r) \/ DropStale(r) \/ DropUnwanted(r) \/ DeferBuried(r)
    <3>1. pending' \subseteq pending /\ UNCHANGED <<level, reality, store, forced, need, left>>
      BY <2>3 DEF DeferOverBudget, DropStale, DropUnwanted, DeferBuried, NextCompletion
    <3> QED BY <1>0, <1>w, <3>1, FewerOrders
  <2> QED BY <2>1, <2>2, <2>3
<1>10. CASE EndInstall
  BY <1>0, <1>10, <1>w, FewerOrders DEF EndInstall
<1>11. CASE IssueReload \/ IssueCoarse \/ IssueRefine
  BY <1>11, OrdersAskForAllowedRealities
<1>12. ASSUME NEW r \in open, SourceCompletes(r) PROVE RealityInOrder'
  BY <1>0, <1>12, <1>w, FewerOrders DEF SourceCompletes
<1>13. ASSUME NEW rs \in SUBSET open, SourceFails(rs) PROVE RealityInOrder'
  BY <1>0, <1>13, <1>w, FewerOrders DEF SourceFails
<1>14. CASE UNCHANGED vars
  BY <1>0, <1>14, <1>w, FewerOrders DEF vars
<1> QED BY <1>1, <1>2, <1>3, <1>4, <1>5, <1>6, <1>7, <1>8, <1>9, <1>10, <1>11,
       <1>12, <1>13, <1>14 DEF Next, Happenings, Streaming

(* No refinement is asked for while a resident chunk waits for its rebuild *)
(* to be asked for.                                                        *)
LEMMA RebuildsComeFirstStep == Inductive /\ [Next]_vars => RebuildsComeFirst'
<1> SUFFICES ASSUME Inductive, [Next]_vars, pc' \in {"coarse", "refine"}
             PROVE  Full' \/ ReloadTargets' = {}
  BY DEF RebuildsComeFirst
<1>1. CASE EndReload
  BY <1>1 DEF EndReload, Full, ReloadTargets, engineVars
<1>2. CASE EndCoarse \/ UNCHANGED vars
  BY <1>2 DEF EndCoarse, vars, Inductive, RebuildsComeFirst, Full, ReloadTargets, engineVars
<1>3. CASE IssueCoarse
  <2>1. ReloadTargets = {}
    BY <1>3 DEF IssueCoarse, Inductive, RebuildsComeFirst
  <2>2. UNCHANGED <<store, forced>> /\ pending \subseteq pending'
    BY <1>3 DEF IssueCoarse, Issue
  <2> QED BY <2>1, <2>2 DEF ReloadTargets, Keys
<1>4. pc' \notin {"coarse", "refine"} \/ EndReload \/ EndCoarse \/ IssueCoarse \/ UNCHANGED vars
  BY DEF Next, Happenings, Streaming, BeginTick, Move, CrossRedGate, CrossRemapGate,
     AbandonDriftCells, PickUpSupply, RearShift, TakeDoor, Noclip, ChangeDelirium,
     BeginStreaming, InstallOne, DeferOverBudget, DropStale, DropUnwanted, DeferBuried,
     Install, NextCompletion, EndInstall, IssueReload, IssueRefine, SkipRefine, EndTick,
     SourceCompletes, SourceFails
<1> QED BY <1>1, <1>2, <1>3, <1>4

(* Deferred completions are back in the backlog when installing ends.      *)
LEMMA DeferredStep == Inductive /\ [Next]_vars => DeferredWhileInstalling'
<1> SUFFICES ASSUME Inductive, [Next]_vars, pc' # "install" PROVE deferred' = <<>>
  BY DEF DeferredWhileInstalling
<1> USE DEF Inductive, DeferredWhileInstalling, installVars
<1>1. CASE EndInstall
  BY <1>1 DEF EndInstall
<1>2. ASSUME NEW k, NEW lod, NEW rl, Issue(k, lod, rl) PROVE UNCHANGED deferred
  BY <1>2 DEF Issue
<1>3. CASE IssueReload \/ IssueCoarse \/ IssueRefine
  BY <1>2, <1>3 DEF IssueReload, IssueCoarse, IssueRefine
<1>4. \/ EndInstall \/ IssueReload \/ IssueCoarse \/ IssueRefine
      \/ pc # "install" /\ UNCHANGED deferred
  BY DEF Next, Happenings, Streaming, BeginTick, Move, CrossRedGate, CrossRemapGate,
     AbandonDriftCells, PickUpSupply, RearShift, TakeDoor, Noclip, ChangeDelirium,
     SwitchLevel, BeginStreaming, InstallOne, DeferOverBudget, DropStale, DropUnwanted,
     DeferBuried, Install, NextCompletion, EndReload, EndCoarse, SkipRefine, EndTick,
     SourceCompletes, SourceFails, vars
<1>5. CASE pc # "install" /\ UNCHANGED deferred
  BY <1>5
<1>6. pc # "install" \/ EndInstall
  BY <1>4 DEF IssueReload, IssueCoarse, IssueRefine
<1>7. CASE IssueReload \/ IssueCoarse \/ IssueRefine
  BY <1>3, <1>7, <1>6 DEF IssueReload, IssueCoarse, IssueRefine
<1> QED BY <1>1, <1>4, <1>5, <1>7

(* The engine starts in order.                                             *)
LEMMA InductiveInit == Init => Inductive
<1> SUFFICES ASSUME Init PROVE Inductive
  OBVIOUS
<1>1. TypeOK
  BY TypeInit
<1>2. RealityInOrder
  BY <1>1 DEF Init, RealityInOrder, OnePerChunk, RebuildsReachTheirReality,
     HallwaysNeverReturn, OrdersAreCurrent, ResidentsAreOlder, MarksArePast
<1>3. RebuildsComeFirst /\ DeferredWhileInstalling
  BY DEF Init, RebuildsComeFirst, DeferredWhileInstalling
<1> QED BY <1>1, <1>2, <1>3 DEF Inductive

(* Every step keeps the engine in order.                                   *)
LEMMA InductiveStep == Inductive /\ [Next]_vars => Inductive'
<1> SUFFICES ASSUME Inductive, [Next]_vars PROVE Inductive'
  OBVIOUS
<1>1. TypeOK'
  BY TypeStep DEF Inductive
<1> QED BY <1>1, RealityStep, RebuildsComeFirstStep, DeferredStep DEF Inductive

(* The strengthening of RebuildsReachTheirReality and HallwaysNeverReturn  *)
(* that every step preserves.                                              *)
THEOREM InductiveInvariant == Spec => []Inductive
<1> QED BY InductiveInit, InductiveStep, PTL DEF Spec

(* A chunk that lost its mark shows a reality at least as new as the event *)
(* that marked it, whatever the interleaving of late completions.          *)
THEOREM RebuildsReach == Spec => []RebuildsReachTheirReality
<1>1. Inductive => RebuildsReachTheirReality
  BY DEF Inductive, RealityInOrder
<1> QED BY <1>1, InductiveInvariant, PTL

(* No payload ordered in an earlier visit to a level is ever resident.     *)
THEOREM HallwaysStayLeft == Spec => []HallwaysNeverReturn
<1>1. Inductive => HallwaysNeverReturn
  BY DEF Inductive, RealityInOrder
<1> QED BY <1>1, InductiveInvariant, PTL

(* A resident payload is only replaced by a finer one of the same reality  *)
(* or by one of a newer reality.                                           *)
THEOREM ResidentsNeverRegress == Spec => NeverRegresses
<1> DEFINE Replaced ==
      \A c \in store, d \in store' :
        c.key = d.key /\ c # d =>
          \/ d.reality.world > c.reality.world
          \/ d.reality = c.reality /\ d.lod < c.lod
<1>1. Inductive /\ [Next]_vars => [Replaced]_vars
  <2> SUFFICES ASSUME Inductive, [Next]_vars PROVE Replaced
    OBVIOUS
  <2>0. TypeOK /\ OnePerChunk /\ RealityInOrder
    BY DEF Inductive, RealityInOrder
  <2>1. CASE store' \subseteq store
    BY <2>0, <2>1 DEF OnePerChunk
  <2>2. ASSUME NEW r, Install(r) PROVE Replaced
    <3> DEFINE new == [key |-> r.key, level |-> r.level, lod |-> r.lod,
                       reality |-> r.reality]
    <3>1. store' = {c \in store : c.key # r.key} \cup {new}
      BY <2>2 DEF Install, Put, ResidentAt
    <3>2. SUFFICES ASSUME NEW c \in store, c.key = r.key, c # new
                   PROVE  \/ r.reality.world > c.reality.world
                          \/ r.reality = c.reality /\ r.lod < c.lod
      BY <2>0, <3>1 DEF OnePerChunk
    <3>3. IF c.reality = r.reality THEN r.lod < c.lod ELSE r.key \in forced
      BY <2>2, <3>2 DEF Install, Wanted, Improves, ResidentAt
    <3>4. /\ c.key \in forced => c.reality.world < need[c.key]
          /\ need[r.key] <= r.reality.world
      BY <2>0, <2>2, <3>2 DEF RealityInOrder, ResidentsAreOlder, OrdersAreCurrent,
         Install, IsCurrent
    <3>5. c.reality.world \in Nat /\ r.reality.world \in Nat /\ need[r.key] \in Nat
      BY <2>0, <2>2, <3>2 DEF TypeOK, Resident, Request, Reality, Install, IsCurrent
    <3> QED BY <3>2, <3>3, <3>4, <3>5
  <2>3. store' \subseteq store \/ \E r \in Range(backlog) : Install(r)
    <3>1. ASSUME NEW k, NEW lod, NEW rl, Issue(k, lod, rl) PROVE UNCHANGED store
      BY <3>1 DEF Issue
    <3>2. CASE IssueReload \/ IssueCoarse \/ IssueRefine
      BY <3>1, <3>2 DEF IssueReload, IssueCoarse, IssueRefine
    <3> QED BY <3>2 DEF Next, Happenings, Streaming, BeginTick, Move, CrossRedGate,
            CrossRemapGate, AbandonDriftCells, PickUpSupply, RearShift, TakeDoor, Noclip,
            ChangeDelirium, SwitchLevel, BeginStreaming, InstallOne, DeferOverBudget,
            DropStale, DropUnwanted, DeferBuried, EndInstall, EndReload, EndCoarse,
            SkipRefine, EndTick, SourceCompletes, SourceFails, vars, engineVars
  <2> QED BY <2>1, <2>2, <2>3
<1> QED BY <1>1, InductiveInvariant, PTL DEF Spec, NeverRegresses

-----------------------------------------------------------------------------
(* Who holds an order.                                                     *)

Held == open \cup failed \cup Range(completed) \cup Range(backlog) \cup Range(deferred)

(* Looking at one completion loses none.                                   *)
LEMMA InstallLosesNothing ==
  ASSUME TypeOK, pending \subseteq Held, InstallOne
  PROVE  pending' \subseteq Held'
<1>1. PICK r \in Range(backlog) :
        \/ DeferOverBudget(r) \/ DropStale(r) \/ DropUnwanted(r)
        \/ DeferBuried(r) \/ Install(r)
  BY DEF InstallOne
<1>2. NextCompletion(r)
  BY <1>1 DEF DeferOverBudget, DropStale, DropUnwanted, DeferBuried, Install
<1>3. r \in Request /\ deferred \in Seq(Request) /\ backlog \in Seq(Request)
  BY <1>2, NextCompletionType DEF TypeOK
<1>4. Range(backlog) = {r} \cup Range(backlog') /\ UNCHANGED <<open, failed, completed>>
  BY <1>2, <1>3, RangeOfHeadTail DEF NextCompletion, sourceVars
<1>5. CASE DeferOverBudget(r) \/ DeferBuried(r)
  <2>1. deferred' = Append(deferred, r) /\ UNCHANGED pending
    BY <1>5 DEF DeferOverBudget, DeferBuried
  <2>2. Range(deferred') = Range(deferred) \cup {r}
    BY <1>3, <2>1, RangeOfAppend
  <2> QED BY <1>4, <2>1, <2>2 DEF Held
<1>6. CASE DropStale(r) \/ DropUnwanted(r) \/ Install(r)
  <2>1. pending' \subseteq pending /\ r \notin pending' /\ UNCHANGED deferred
    BY <1>6 DEF DropStale, DropUnwanted, Install, IsCurrent
  <2> QED BY <1>4, <2>1 DEF Held
<1> QED BY <1>1, <1>5, <1>6

(* A new order is held by the source, however it takes it.                 *)
LEMMA IssueLosesNothing ==
  ASSUME TypeOK, pending \subseteq Held,
         NEW k \in Chunk, NEW lod \in {FineLod, CoarseLod}, NEW rl \in Reality,
         Issue(k, lod, rl)
  PROVE  pending' \subseteq Held'
<1>1. PICK i \in RequestId :
        LET r == [id |-> i, key |-> k, level |-> level, lod |-> lod, reality |-> rl]
        IN  pending' = pending \cup {r} /\ Source!Submit(r) /\ UNCHANGED installVars
  BY DEF Issue
<1> DEFINE r == [id |-> i, key |-> k, level |-> level, lod |-> lod, reality |-> rl]
<1>2. r \in Request /\ completed \in Seq(Request)
  BY DEF TypeOK, Request
<1> HIDE DEF r
<1>3. pending' = pending \cup {r} /\ Source!Submit(r) /\ UNCHANGED <<backlog, deferred>>
  BY <1>1 DEF r, installVars
<1>4. CASE Source!Accept(r)
  BY <1>3, <1>4 DEF Held, Source!Accept
<1>5. CASE Source!AnswerNow(r)
  <2>1. Range(completed') = Range(completed) \cup {r}
    BY <1>2, <1>5, RangeOfAppend DEF Source!AnswerNow
  <2> QED BY <1>3, <1>5, <2>1 DEF Held, Source!AnswerNow
<1>6. CASE \E others \in SUBSET open : Source!Refuse(r, others)
  BY <1>3, <1>6 DEF Held, Source!Refuse
<1> QED BY <1>3, <1>4, <1>5, <1>6 DEF Source!Submit

(* What is asked for is a request.                                         *)
LEMMA OrdersAreTyped ==
  ASSUME TypeOK, IssueReload \/ IssueCoarse \/ IssueRefine
  PROVE  \E k \in Chunk, lod \in {FineLod, CoarseLod}, rl \in Reality : Issue(k, lod, rl)
<1>1. CASE IssueReload
  BY <1>1 DEF IssueReload, ReloadTargets, ReloadReality, TypeOK, Resident
<1>2. CASE IssueCoarse
  BY <1>2 DEF IssueCoarse, MissingTarget, Nearest, TypeOK
<1>3. CASE IssueRefine
  BY <1>3 DEF IssueRefine, RefineTarget, Nearest, RefineReality, ResidentAt, TypeOK, Resident
<1> QED BY <1>1, <1>2, <1>3

(* Whatever the engine believes to be in flight is held by somebody who    *)
(* will hand it back: no interleaving of evictions, rebuilds, failures and *)
(* deferrals makes the engine wait for an answer that cannot come.         *)
THEOREM OrdersAreNeverLost == Spec => []NoOrderLost
<1>1. Init => pending \subseteq Held
  BY DEF Init
<1>2. Inductive /\ pending \subseteq Held /\ [Next]_vars => (pending \subseteq Held)'
  <2> SUFFICES ASSUME Inductive, pending \subseteq Held, [Next]_vars
               PROVE  pending' \subseteq Held'
    OBVIOUS
  <2> USE DEF engineVars, installVars, sourceVars
  <2>0. TypeOK
    BY DEF Inductive
  <2>1. CASE pending' \subseteq pending /\ UNCHANGED <<open, failed, completed, backlog, deferred>>
    BY <2>1 DEF Held
  <2>2. CASE TakeDoor \/ Noclip
    BY <2>2 DEF TakeDoor, Noclip, SwitchLevel
  <2>3. CASE BeginStreaming
    <3>1. deferred = <<>>
      BY <2>3 DEF Inductive, DeferredWhileInstalling, BeginStreaming
    <3>2. Range(deferred) = {}
      BY <3>1 DEF Range
    <3>3. Range(backlog') = Range(backlog) \cup Range(completed)
      BY <2>0, <2>3, RangeConcatenation DEF TypeOK, BeginStreaming
    <3> QED BY <2>3, <3>2, <3>3 DEF Held, BeginStreaming, StillOrdered, Source!Poll
  <2>4. CASE InstallOne
    BY <2>0, <2>4, InstallLosesNothing
  <2>5. CASE EndInstall
    <3>1. Range(backlog) = {}
      BY <2>5 DEF EndInstall, Range
    <3>2. backlog' = deferred /\ pending' \subseteq pending /\ UNCHANGED <<open, failed, completed>>
      BY <2>5 DEF EndInstall
    <3> QED BY <3>1, <3>2 DEF Held
  <2>6. CASE IssueReload \/ IssueCoarse \/ IssueRefine
    BY <2>0, <2>6, OrdersAreTyped, IssueLosesNothing
  <2>7. ASSUME NEW r \in open, SourceCompletes(r) PROVE pending' \subseteq Held'
    <3>1. Range(completed') = Range(completed) \cup {r}
      BY <2>0, <2>7, RangeOfAppend DEF TypeOK, SourceCompletes, Source!Complete
    <3> QED BY <2>7, <3>1 DEF Held, SourceCompletes, Source!Complete
  <2>8. ASSUME NEW rs \in SUBSET open, SourceFails(rs) PROVE pending' \subseteq Held'
    BY <2>8 DEF Held, SourceFails, Source!Fail
  <2>9. ASSUME NEW keys, ForceRebuild(keys) PROVE pending' \subseteq pending
    BY <2>9 DEF ForceRebuild
  <2> QED BY <2>1, <2>2, <2>3, <2>4, <2>5, <2>6, <2>7, <2>8, <2>9
          DEF Next, Happenings, Streaming, BeginTick, Move, CrossRedGate, CrossRemapGate,
          AbandonDriftCells, PickUpSupply, RearShift, ChangeDelirium, EndReload, EndCoarse,
          SkipRefine, EndTick, vars
<1>3. pending \subseteq Held => NoOrderLost
  BY DEF Held, NoOrderLost
<1> QED BY <1>1, <1>2, <1>3, InductiveInvariant, PTL DEF Spec

-----------------------------------------------------------------------------
(* How many orders there are.                                              *)

OneFineOrder ==
  \A q, r \in pending :
    /\ q.lod = FineLod /\ r.lod = FineLod
    /\ q.key \notin forced /\ r.key \notin forced
    /\ pc = "install" => {q.key, r.key} \subseteq Keep
    => q = r

FewOrders == IsFiniteSet(pending) /\ Cardinality(pending) <= MaxPending

(* Dropping orders keeps their number below the bound.                     *)
LEMMA FewerStayFew ==
  ASSUME FewOrders, pending' \subseteq pending
  PROVE  FewOrders'
<1>1. /\ IsFiniteSet(pending') /\ Cardinality(pending') <= Cardinality(pending)
      /\ Cardinality(pending) \in Nat /\ Cardinality(pending') \in Nat
  BY FS_Subset, FS_CardinalityType DEF FewOrders
<1>2. MaxPending \in Nat
  BY ConstantsAssumption DEF MaxPending, Max2
<1> QED BY <1>1, <1>2 DEF FewOrders, MaxPending

(* An order is only added below the bound.                                 *)
LEMMA OneMoreIsFew ==
  ASSUME FewOrders, ~Full, NEW k, NEW lod, NEW rl, Issue(k, lod, rl)
  PROVE  FewOrders'
<1>1. PICK r : pending' = pending \cup {r}
  BY DEF Issue
<1>2. /\ IsFiniteSet(pending') /\ Cardinality(pending') <= Cardinality(pending) + 1
      /\ Cardinality(pending) \in Nat /\ Cardinality(pending') \in Nat
  BY <1>1, FS_AddElement, FS_CardinalityType DEF FewOrders
<1>3. Cardinality(pending) < MaxPending /\ MaxPending \in Nat
  BY <1>2, ConstantsAssumption DEF Full, MaxPending, Max2
<1> QED BY <1>2, <1>3 DEF FewOrders, MaxPending

(* issue_requests keeps generation concurrency bounded: at most MaxPending *)
(* orders, and at most one of them a refinement, for every footprint.      *)
THEOREM OrdersStayBounded == Spec => []OrdersBounded
<1>1. Init => FewOrders /\ OneFineOrder
  <2>1. MaxPending \in Nat
    BY ConstantsAssumption DEF MaxPending, Max2
  <2> QED BY <2>1, FS_EmptySet DEF Init, FewOrders, OneFineOrder
<1>2. FewOrders /\ [Next]_vars => FewOrders'
  <2> SUFFICES ASSUME FewOrders, [Next]_vars PROVE FewOrders'
    OBVIOUS
  <2>1. CASE pending' \subseteq pending
    BY <2>1, FewerStayFew
  <2>2. CASE IssueReload \/ IssueCoarse \/ IssueRefine
    BY <2>2, OneMoreIsFew DEF IssueReload, IssueCoarse, IssueRefine
  <2>3. ASSUME NEW keys, ForceRebuild(keys) PROVE pending' \subseteq pending
    BY <2>3 DEF ForceRebuild
  <2> QED BY <2>1, <2>2, <2>3
          DEF Next, Happenings, Streaming, BeginTick, Move, CrossRedGate, CrossRemapGate,
          AbandonDriftCells, PickUpSupply, RearShift, TakeDoor, Noclip, SwitchLevel,
          ChangeDelirium, BeginStreaming, StillOrdered, InstallOne, DeferOverBudget,
          DropStale, DropUnwanted, DeferBuried, Install, EndInstall, EndReload, EndCoarse,
          SkipRefine, EndTick, SourceCompletes, SourceFails, vars, engineVars
<1>3. OneFineOrder /\ [Next]_vars => OneFineOrder'
  <2> SUFFICES ASSUME OneFineOrder, [Next]_vars PROVE OneFineOrder'
    OBVIOUS
  <2> USE DEF engineVars, OneFineOrder
  <2>1. CASE /\ pending' \subseteq pending /\ forced \subseteq forced'
             /\ pc # "install" /\ pc' # "install"
    BY <2>1
  <2>2. CASE TakeDoor \/ Noclip
    BY <2>2 DEF TakeDoor, Noclip, SwitchLevel
  <2>3. CASE BeginStreaming
    <3>1. /\ pending' \subseteq pending /\ forced' = forced \cap Keep /\ Keep' = Keep
          /\ pc # "install" /\ pc' = "install"
      BY <2>3 DEF BeginStreaming, StillOrdered, Keep
    <3> QED BY <3>1
  <2>4. CASE InstallOne
    <3>1. PICK r \in Range(backlog) :
            \/ DeferOverBudget(r) \/ DropStale(r) \/ DropUnwanted(r)
            \/ DeferBuried(r) \/ Install(r)
      BY <2>4 DEF InstallOne
    <3>2. Keep' = Keep /\ pc' = pc /\ pending' \subseteq pending
      BY <3>1 DEF DeferOverBudget, DropStale, DropUnwanted, DeferBuried, Install,
         NextCompletion, Keep
    <3>3. \A q \in pending' : q.key \notin forced' => q.key \notin forced
      BY <3>1 DEF DeferOverBudget, DropStale, DropUnwanted, DeferBuried, Install
    <3> QED BY <3>2, <3>3
  <2>5. CASE EndInstall
    <3>1. /\ pending' \subseteq pending /\ UNCHANGED forced
          /\ \A q \in pending' : q.key \in Keep
      BY <2>5 DEF EndInstall
    <3> QED BY <3>1
  <2>6. CASE IssueReload
    <3>1. PICK c \in ReloadTargets, i \in RequestId :
            pending' = pending \cup {[id |-> i, key |-> c.key, level |-> level,
                                      lod |-> c.lod, reality |-> ReloadReality(c)]}
      BY <2>6 DEF IssueReload, Issue
    <3>2. c.key \in forced /\ UNCHANGED forced /\ pc # "install" /\ pc' # "install"
      BY <2>6 DEF IssueReload, Issue, ReloadTargets
    <3> QED BY <3>1, <3>2
  <2>7. CASE IssueCoarse
    <3>1. PICK k \in MissingTarget, i \in RequestId :
            pending' = pending \cup {[id |-> i, key |-> k, level |-> level,
                                      lod |-> CoarseLod, reality |-> reality]}
      BY <2>7 DEF IssueCoarse, Issue
    <3>2. CoarseLod # FineLod /\ UNCHANGED forced /\ pc # "install" /\ pc' # "install"
      BY <2>7 DEF IssueCoarse, Issue, CoarseLod, FineLod
    <3> QED BY <3>1, <3>2
  <2>8. CASE IssueRefine
    <3>1. PICK r : pending' = pending \cup {r}
      BY <2>8 DEF IssueRefine, Issue
    <3>2. \A q \in pending : q.lod # FineLod
      BY <2>8 DEF IssueRefine, FineInFlight
    <3> QED BY <3>1, <3>2
  <2>9. ASSUME NEW keys, ForceRebuild(keys)
        PROVE  pending' \subseteq pending /\ forced \subseteq forced'
    BY <2>9 DEF ForceRebuild
  <2>10. CASE UNCHANGED vars
    BY <2>10 DEF vars, Keep
  <2> QED BY <2>1, <2>2, <2>3, <2>4, <2>5, <2>6, <2>7, <2>8, <2>9, <2>10
          DEF Next, Happenings, Streaming, BeginTick, Move, CrossRedGate, CrossRemapGate,
          AbandonDriftCells, PickUpSupply, RearShift, ChangeDelirium, EndReload, EndCoarse,
          SkipRefine, EndTick, SourceCompletes, SourceFails
<1>4. FewOrders /\ OneFineOrder => OrdersBounded
  BY DEF FewOrders, OneFineOrder, OrdersBounded
<1> QED BY <1>1, <1>2, <1>3, <1>4, PTL DEF Spec

-----------------------------------------------------------------------------
(* Ranks in finite sets.                                                   *)

(* What has one element more is larger.                                    *)
LEMMA OneMoreIsLarger ==
  ASSUME NEW S, IsFiniteSet(S), NEW A \in SUBSET S, NEW B \in SUBSET S,
         NEW x \in B, x \notin A, A \subseteq B
  PROVE  /\ Cardinality(A) \in Nat /\ Cardinality(B) \in Nat
         /\ Cardinality(A) < Cardinality(B)
<1>1. IsFiniteSet(A) /\ IsFiniteSet(B)
  BY FS_Subset
<1>2. Cardinality(A) \in Nat /\ Cardinality(B) \in Nat
  BY <1>1, FS_CardinalityType
<1>3. Cardinality(A \cup {x}) = Cardinality(A) + 1
  BY <1>1, FS_AddElement
<1>4. A \cup {x} \in SUBSET B
  OBVIOUS
<1>5. Cardinality(A \cup {x}) <= Cardinality(B)
  BY <1>1, <1>4, FS_Subset
<1> QED BY <1>2, <1>3, <1>5

(* Every rank below the size of a finite set of numbers is somebody's.     *)
LEMMA EveryRankIsTaken ==
  ASSUME NEW F \in SUBSET Nat, IsFiniteSet(F), NEW r \in Nat, r < Cardinality(F)
  PROVE  \E i \in F : Cardinality({j \in F : j < i}) = r
<1> DEFINE Below(i) == {j \in F : j < i}
           rank == [i \in F |-> Cardinality(Below(i))]
           others == (0..(Cardinality(F) - 1)) \ {r}
<1>1. Cardinality(F) \in Nat
  BY FS_CardinalityType
<1>2. \A i \in F : /\ Cardinality(Below(i)) \in Nat
                   /\ Cardinality(Below(i)) < Cardinality(F)
  <2> TAKE i \in F
  <2>1. Below(i) \in SUBSET F /\ i \notin Below(i)
    OBVIOUS
  <2> HIDE DEF Below
  <2> QED BY <2>1, OneMoreIsLarger
<1>3. \A i, j \in F : i # j => Cardinality(Below(i)) # Cardinality(Below(j))
  <2>1. ASSUME NEW i \in F, NEW j \in F, i < j
        PROVE  Cardinality(Below(i)) # Cardinality(Below(j))
    <3>1. /\ Below(i) \in SUBSET F /\ Below(j) \in SUBSET F
          /\ i \in Below(j) /\ i \notin Below(i)
      BY <2>1
    <3>2. Below(i) \subseteq Below(j)
      <4> SUFFICES ASSUME NEW m \in F, m < i PROVE m < j
        OBVIOUS
      <4>1. m \in Nat /\ i \in Nat /\ j \in Nat
        OBVIOUS
      <4> QED BY <2>1, <4>1
    <3>3. /\ Cardinality(Below(i)) \in Nat /\ Cardinality(Below(j)) \in Nat
          /\ Cardinality(Below(i)) < Cardinality(Below(j))
      <4> HIDE DEF Below
      <4> QED BY <3>1, <3>2, OneMoreIsLarger
    <3> HIDE DEF Below
    <3> QED BY <3>3
  <2>2. \A i, j \in F : i # j => i < j \/ j < i
    OBVIOUS
  <2> HIDE DEF Below
  <2> QED BY <2>1, <2>2
<1>4. IsFiniteSet(others) /\ Cardinality(others) = Cardinality(F) - 1
  <2> DEFINE last == Cardinality(F) - 1
  <2>1. 0 \in Int /\ last \in Int /\ ~(0 > last) /\ last - 0 + 1 = Cardinality(F) /\ r \in 0..last
    BY <1>1
  <2>2. IsFiniteSet(0..last) /\ Cardinality(0..last) = Cardinality(F)
    <3> HIDE DEF last
    <3> QED BY <2>1, FS_Interval
  <2> QED BY <2>1, <2>2, FS_RemoveElement, ZenonT(60)
<1>5. SUFFICES ASSUME \A i \in F : Cardinality(Below(i)) # r PROVE FALSE
  OBVIOUS
<1>6. rank \in [F -> others]
  <2> HIDE DEF Below
  <2> QED BY <1>1, <1>2, <1>5
<1>7. \A i \in F : rank[i] = Cardinality(Below(i))
  OBVIOUS
<1>8. Cardinality(others) < Cardinality(F)
  BY <1>1, <1>4
<1> HIDE DEF rank, others, Below
<1>9. \E i, j \in F : i # j /\ rank[i] = rank[j]
  BY <1>4, <1>6, <1>8, FS_PigeonHole
<1> QED BY <1>3, <1>7, <1>9

-----------------------------------------------------------------------------
(* The pool: who gets which slot.                                          *)

Pools == [rows : Nat, slots : Seq(SUBSET Chunk)]

(* A slot has one occupant, and nobody occupies two.                       *)
Apart(p) ==
  /\ \A i \in DOMAIN p.slots : \A k, l \in p.slots[i] : k = l
  /\ \A i, j \in DOMAIN p.slots : \A k \in p.slots[i] : k \in p.slots[j] => i = j

(* Everybody in keys is older or younger than everybody else.              *)
Aged(older, keys) ==
  /\ \A k, l \in keys : <<k, l>> \in older <=> k # l /\ <<l, k>> \notin older
  /\ \A k, l, m \in keys : <<k, l>> \in older /\ <<l, m>> \in older => <<k, m>> \in older

(* The slots of a pool are finitely many, with numbers of their own.       *)
LEMMA SlotsAreFew ==
  ASSUME NEW p \in Pools
  PROVE  /\ Len(p.slots) \in Nat /\ p.rows \in Nat
         /\ DOMAIN p.slots = 1..Len(p.slots)
         /\ DOMAIN p.slots \subseteq Nat
         /\ IsFiniteSet(DOMAIN p.slots) /\ Cardinality(DOMAIN p.slots) = Len(p.slots)
         /\ FreeSlots(p) \subseteq DOMAIN p.slots /\ IsFiniteSet(FreeSlots(p))
         /\ \A i \in DOMAIN p.slots : p.slots[i] \subseteq Chunk
<1>1. p.slots \in Seq(SUBSET Chunk) /\ p.rows \in Nat
  BY DEF Pools
<1>2. /\ Len(p.slots) \in Nat /\ DOMAIN p.slots = 1..Len(p.slots)
      /\ \A i \in DOMAIN p.slots : p.slots[i] \in SUBSET Chunk
  BY <1>1, LenProperties, ElementOfSeq
<1>3. IsFiniteSet(1..Len(p.slots)) /\ Cardinality(1..Len(p.slots)) = Len(p.slots)
  BY <1>2, FS_Interval
<1>4. FreeSlots(p) \subseteq DOMAIN p.slots
  BY DEF FreeSlots
<1>5. IsFiniteSet(FreeSlots(p))
  BY <1>2, <1>3, <1>4, FS_Subset
<1> QED BY <1>1, <1>2, <1>3, <1>4, <1>5

(* assign(): nobody loses a slot, no two meet in one, and all have one if  *)
(* there are enough of them.                                               *)
LEMMA AssignPlaces ==
  ASSUME NEW p \in Pools, Apart(p), NEW keys \in SUBSET Chunk, IsFiniteSet(keys),
         NEW older, Aged(older, keys)
  PROVE  LET q == Assign(p, keys, older) IN
         /\ q \in Pools /\ Apart(q)
         /\ q.rows = p.rows /\ Len(q.slots) = Len(p.slots)
         /\ DOMAIN q.slots = DOMAIN p.slots
         /\ \A i \in DOMAIN p.slots : /\ p.slots[i] \subseteq q.slots[i]
                                      /\ q.slots[i] \subseteq p.slots[i] \cup keys
         /\ Cardinality(Unplaced(p, keys)) <= Cardinality(FreeSlots(p))
              => \A k \in keys : SlotOf(q, k) # {}
<1> DEFINE waiting == Unplaced(p, keys)
           Elders(k) == {m \in waiting : <<m, k>> \in older}
           Lower(i) == FreeBelow(p, i)
           q == Assign(p, keys, older)
<1>0. /\ Len(p.slots) \in Nat
      /\ DOMAIN p.slots = 1..Len(p.slots) /\ DOMAIN p.slots \subseteq Nat
      /\ FreeSlots(p) \subseteq DOMAIN p.slots /\ IsFiniteSet(FreeSlots(p))
      /\ \A i \in DOMAIN p.slots : p.slots[i] \subseteq Chunk
  BY SlotsAreFew
<1>1. waiting \in SUBSET keys /\ IsFiniteSet(waiting)
  BY FS_Subset DEF Unplaced
<1>2. /\ \A k \in waiting : /\ Cardinality(Elders(k)) \in Nat
                            /\ Cardinality(Elders(k)) < Cardinality(waiting)
      /\ \A k, l \in waiting : Cardinality(Elders(k)) = Cardinality(Elders(l)) => k = l
  <2>1. ASSUME NEW k \in waiting
        PROVE  /\ Cardinality(Elders(k)) \in Nat
               /\ Cardinality(Elders(k)) < Cardinality(waiting)
    <3>1. Elders(k) \in SUBSET waiting /\ k \notin Elders(k)
      BY <1>1 DEF Aged
    <3> HIDE DEF Elders, waiting
    <3> QED BY <1>1, <3>1, OneMoreIsLarger
  <2>2. ASSUME NEW k \in waiting, NEW l \in waiting, <<k, l>> \in older
        PROVE  Cardinality(Elders(k)) # Cardinality(Elders(l))
    <3>1. /\ Elders(k) \in SUBSET waiting /\ Elders(l) \in SUBSET waiting
          /\ k \in Elders(l) /\ k \notin Elders(k) /\ Elders(k) \subseteq Elders(l)
      BY <1>1, <2>2 DEF Aged
    <3>2. /\ Cardinality(Elders(k)) \in Nat /\ Cardinality(Elders(l)) \in Nat
          /\ Cardinality(Elders(k)) < Cardinality(Elders(l))
      <4> HIDE DEF Elders, waiting
      <4> QED BY <1>1, <3>1, OneMoreIsLarger
    <3> HIDE DEF Elders, waiting
    <3> QED BY <3>2
  <2>3. \A k, l \in waiting : k # l => <<k, l>> \in older \/ <<l, k>> \in older
    BY <1>1 DEF Aged
  <2> HIDE DEF Elders, waiting
  <2> QED BY <2>1, <2>2, <2>3
<1>3. \A i, j \in FreeSlots(p) : Cardinality(Lower(i)) = Cardinality(Lower(j)) => i = j
  <2>1. ASSUME NEW i \in FreeSlots(p), NEW j \in FreeSlots(p), i < j
        PROVE  Cardinality(Lower(i)) # Cardinality(Lower(j))
    <3>1. /\ Lower(i) \in SUBSET FreeSlots(p) /\ Lower(j) \in SUBSET FreeSlots(p)
          /\ i \in Lower(j) /\ i \notin Lower(i) /\ Lower(i) \subseteq Lower(j)
      BY <1>0, <2>1 DEF FreeBelow
    <3>2. /\ Cardinality(Lower(i)) \in Nat /\ Cardinality(Lower(j)) \in Nat
          /\ Cardinality(Lower(i)) < Cardinality(Lower(j))
      <4> HIDE DEF Lower
      <4> QED BY <1>0, <3>1, OneMoreIsLarger
    <3> HIDE DEF Lower
    <3> QED BY <3>2
  <2>2. \A i, j \in FreeSlots(p) : i # j => i < j \/ j < i
    BY <1>0
  <2> HIDE DEF Lower
  <2> QED BY <2>1, <2>2
<1> DEFINE Given(i) == IF p.slots[i] # {} THEN p.slots[i]
                       ELSE {k \in waiting : Cardinality(Elders(k)) = Cardinality(Lower(i))}
<1>4. q = [p EXCEPT !.slots = [i \in DOMAIN p.slots |-> Given(i)]]
  BY DEF Assign
<1>5. \A i \in DOMAIN p.slots :
        IF p.slots[i] # {} THEN Given(i) = p.slots[i]
        ELSE Given(i) = {k \in waiting : Cardinality(Elders(k)) = Cardinality(Lower(i))}
  OBVIOUS
<1>6. \A i \in DOMAIN p.slots : Given(i) \subseteq p.slots[i] \cup waiting /\ p.slots[i] \subseteq Given(i)
  OBVIOUS
<1> HIDE DEF Given
<1>7. /\ q.rows = p.rows /\ q.slots = [i \in 1..Len(p.slots) |-> Given(i)]
      /\ q = [rows |-> q.rows, slots |-> q.slots]
  BY <1>0, <1>4 DEF Pools
<1> HIDE DEF q
<1>8. \A i \in 1..Len(p.slots) : Given(i) \in SUBSET Chunk
  BY <1>0, <1>1, <1>6
<1>9. q.slots \in Seq(SUBSET Chunk) /\ Len(q.slots) = Len(p.slots)
  BY <1>0, <1>7, <1>8, LenProperties, IsASeq
<1>10. q \in Pools /\ DOMAIN q.slots = DOMAIN p.slots
  BY <1>0, <1>7, <1>9 DEF Pools
<1>11. \A i \in DOMAIN p.slots : q.slots[i] = Given(i)
  BY <1>0, <1>7
<1>12. Apart(q)
  <2>1. ASSUME NEW i \in DOMAIN p.slots, NEW k \in Given(i), NEW l \in Given(i) PROVE k = l
    <3>1. CASE p.slots[i] # {}
      BY <1>5, <2>1, <3>1 DEF Apart
    <3>2. CASE p.slots[i] = {}
      <4> HIDE DEF Elders, Lower, waiting
      <4> QED BY <1>2, <1>5, <2>1, <3>2
    <3> QED BY <3>1, <3>2
  <2>2. ASSUME NEW i \in DOMAIN p.slots, NEW j \in DOMAIN p.slots, NEW k \in Given(i), k \in Given(j)
        PROVE  i = j
    <3>1. \A m \in waiting : \A n \in DOMAIN p.slots : m \notin p.slots[n]
      BY DEF Unplaced, SlotOf
    <3>2. CASE p.slots[i] # {} /\ p.slots[j] # {}
      BY <1>5, <2>2, <3>2 DEF Apart
    <3>3. CASE p.slots[i] = {} /\ p.slots[j] = {}
      <4>1. i \in FreeSlots(p) /\ j \in FreeSlots(p)
        BY <3>3 DEF FreeSlots
      <4>2. Cardinality(Elders(k)) = Cardinality(Lower(i)) /\ Cardinality(Elders(k)) = Cardinality(Lower(j))
        <5> HIDE DEF Elders, Lower, waiting
        <5> QED BY <1>5, <2>2, <3>3
      <4> HIDE DEF Elders, Lower, waiting
      <4> QED BY <1>3, <4>1, <4>2
    <3>4. CASE p.slots[i] # {} /\ p.slots[j] = {}
      <4> HIDE DEF Elders, Lower, waiting
      <4> QED BY <1>5, <2>2, <3>1, <3>4
    <3>5. CASE p.slots[i] = {} /\ p.slots[j] # {}
      <4> HIDE DEF Elders, Lower, waiting
      <4> QED BY <1>5, <2>2, <3>1, <3>5
    <3> QED BY <3>2, <3>3, <3>4, <3>5
  <2> QED BY <1>10, <1>11, <2>1, <2>2 DEF Apart
<1>13. \A i \in DOMAIN p.slots : /\ p.slots[i] \subseteq q.slots[i]
                                 /\ q.slots[i] \subseteq p.slots[i] \cup keys
  BY <1>1, <1>6, <1>11
<1>14. ASSUME Cardinality(waiting) <= Cardinality(FreeSlots(p)), NEW k \in keys
       PROVE  SlotOf(q, k) # {}
  <2>1. CASE SlotOf(p, k) # {}
    BY <2>1, <1>10, <1>13 DEF SlotOf
  <2>2. CASE SlotOf(p, k) = {}
    <3>1. k \in waiting
      BY <2>2 DEF Unplaced
    <3>2. Cardinality(Elders(k)) \in Nat /\ Cardinality(Elders(k)) < Cardinality(FreeSlots(p))
      <4>1. Cardinality(waiting) \in Nat /\ Cardinality(FreeSlots(p)) \in Nat
        BY <1>0, <1>1, FS_CardinalityType
      <4> HIDE DEF Elders, waiting
      <4> QED BY <1>2, <1>14, <3>1, <4>1
    <3>3. PICK i \in FreeSlots(p) : Cardinality(FreeBelow(p, i)) = Cardinality(Elders(k))
      <4>1. FreeSlots(p) \in SUBSET Nat
        BY <1>0
      <4>2. \A i : FreeBelow(p, i) = {j \in FreeSlots(p) : j < i}
        BY DEF FreeBelow
      <4> HIDE DEF Elders, waiting
      <4> QED BY <1>0, <3>2, <4>1, <4>2, EveryRankIsTaken
    <3>4. p.slots[i] = {} /\ i \in DOMAIN p.slots
      BY DEF FreeSlots
    <3>5. k \in Given(i)
      <4> HIDE DEF Elders, waiting
      <4> QED BY <1>5, <3>1, <3>3, <3>4
    <3> QED BY <1>10, <1>11, <3>4, <3>5 DEF SlotOf
  <2> QED BY <2>1, <2>2
<1> QED BY <1>7, <1>9, <1>10, <1>12, <1>13, <1>14 DEF q

(* A pool with a slot for each key has a free one for each that waits.     *)
LEMMA RoomForAll ==
  ASSUME NEW p \in Pools, Apart(p), NEW keys \in SUBSET Chunk, IsFiniteSet(keys),
         \A i \in DOMAIN p.slots : p.slots[i] \subseteq keys,
         Cardinality(keys) <= Len(p.slots)
  PROVE  Cardinality(Unplaced(p, keys)) <= Cardinality(FreeSlots(p))
<1> DEFINE taken == DOMAIN p.slots \ FreeSlots(p)
           placed == keys \ Unplaced(p, keys)
           who == [i \in taken |-> CHOOSE k \in p.slots[i] : TRUE]
<1>1. /\ Len(p.slots) \in Nat /\ IsFiniteSet(DOMAIN p.slots)
      /\ Cardinality(DOMAIN p.slots) = Len(p.slots)
      /\ FreeSlots(p) \in SUBSET (DOMAIN p.slots) /\ IsFiniteSet(FreeSlots(p))
  BY SlotsAreFew
<1>2. Unplaced(p, keys) \in SUBSET keys /\ IsFiniteSet(Unplaced(p, keys))
  BY FS_Subset DEF Unplaced
<1>3. IsFiniteSet(placed) /\ Cardinality(placed) = Cardinality(keys) - Cardinality(Unplaced(p, keys))
  <2>1. keys \cap Unplaced(p, keys) = Unplaced(p, keys)
    BY <1>2
  <2>2. IsFiniteSet(placed)
    BY FS_Difference
  <2>3. Cardinality(placed) = Cardinality(keys) - Cardinality(keys \cap Unplaced(p, keys))
    BY FS_Difference
  <2> QED BY <2>1, <2>2, <2>3
<1>4. Cardinality(taken) = Cardinality(DOMAIN p.slots) - Cardinality(FreeSlots(p))
  <2>1. DOMAIN p.slots \cap FreeSlots(p) = FreeSlots(p)
    BY <1>1
  <2>2. Cardinality(taken) = Cardinality(DOMAIN p.slots) - Cardinality(DOMAIN p.slots \cap FreeSlots(p))
    BY <1>1, FS_Difference
  <2> QED BY <2>1, <2>2
<1>5. \A i \in taken : who[i] \in p.slots[i] /\ who[i] \in placed
  <2> SUFFICES ASSUME NEW i \in taken PROVE who[i] \in p.slots[i] /\ who[i] \in placed
    OBVIOUS
  <2>1. p.slots[i] # {}
    BY DEF FreeSlots
  <2>2. who[i] \in p.slots[i]
    BY <2>1
  <2>3. who[i] \in keys
    BY <2>2
  <2> HIDE DEF who
  <2> QED BY <2>2, <2>3 DEF Unplaced, SlotOf
<1>6. who \in Injection(taken, placed)
  <2>1. who \in [taken -> placed]
    BY <1>5
  <2>2. \A i, j \in taken : who[i] = who[j] => i = j
    <3> HIDE DEF who
    <3> QED BY <1>5 DEF Apart
  <2> HIDE DEF who
  <2> QED BY <2>1, <2>2 DEF Injection, IsInjective
<1>7. Cardinality(taken) <= Cardinality(placed)
  <2> HIDE DEF who, taken, placed
  <2> QED BY <1>3, <1>6, FS_Injection
<1>8. /\ Cardinality(FreeSlots(p)) \in Nat /\ Cardinality(Unplaced(p, keys)) \in Nat
      /\ Cardinality(keys) \in Nat
  BY <1>1, <1>2, FS_CardinalityType
<1> HIDE DEF taken, placed, who
<1> QED BY <1>1, <1>3, <1>4, <1>7, <1>8

(* ensure_layout(): what is too small is replaced by a larger, empty pool. *)
LEMMA LayoutGrows ==
  ASSUME NEW p \in Pools, NEW slots \in Nat, NEW rows \in Nat, NeedsLayout(p, slots, rows)
  PROVE  LET q == EnsureLayout(p, slots, rows) IN
         /\ q \in Pools /\ Apart(q) /\ q.rows >= rows /\ Len(q.slots) >= slots
         /\ \A i \in DOMAIN q.slots : q.slots[i] = {}
<1> DEFINE q == EnsureLayout(p, slots, rows)
           len == Wider(Len(p.slots), slots)
           none == [i \in 1..len |-> {}]
<1>1. Len(p.slots) \in Nat /\ p.rows \in Nat
  BY SlotsAreFew
<1>2. len \in Nat /\ len >= slots /\ Wider(p.rows, rows) \in Nat /\ Wider(p.rows, rows) >= rows
  BY <1>1 DEF Wider
<1>3. q.rows = Wider(p.rows, rows) /\ q.slots = none /\ q = [rows |-> q.rows, slots |-> q.slots]
  BY DEF EnsureLayout
<1> HIDE DEF q, len
<1>4. none \in Seq(SUBSET Chunk) /\ Len(none) = len /\ DOMAIN none = 1..len
      /\ \A i \in 1..len : none[i] = {}
  <2>1. \A i \in 1..len : none[i] \in SUBSET Chunk
    OBVIOUS
  <2> QED BY <1>2, <2>1, LenProperties, IsASeq
<1> HIDE DEF none
<1> QED BY <1>2, <1>3, <1>4 DEF Pools, Apart, q

-----------------------------------------------------------------------------
(* The texture.                                                            *)

(* The rows of a slot come after those of the slots before it, and all are *)
(* rows of the pool.                                                       *)
LEMMA SlotsDoNotOverlap ==
  ASSUME NEW p \in Pools
  PROVE  /\ \A i \in DOMAIN p.slots : /\ FirstRow(p, i) \in Nat
                                      /\ FirstRow(p, i) + p.rows <= Len(p.slots) * p.rows
         /\ \A i, j \in DOMAIN p.slots : i < j => FirstRow(p, i) + p.rows <= FirstRow(p, j)
         /\ Len(p.slots) * p.rows \in Nat
<1>1. /\ Len(p.slots) \in Nat /\ p.rows \in Nat /\ DOMAIN p.slots = 1..Len(p.slots)
  BY SlotsAreFew
<1>2. \A a, b, r \in Nat : a * r \in Nat /\ (a <= b => a * r <= b * r)
  OBVIOUS
<1>3. \A i, r \in Nat : i >= 1 => (i - 1) * r + r = i * r /\ (i - 1) * r \in Nat
  OBVIOUS
<1>4. ASSUME NEW i \in DOMAIN p.slots
      PROVE  /\ FirstRow(p, i) \in Nat
             /\ FirstRow(p, i) + p.rows <= Len(p.slots) * p.rows
  <2>1. i \in Nat /\ i >= 1 /\ i <= Len(p.slots)
    BY <1>1
  <2>2. FirstRow(p, i) + p.rows = i * p.rows /\ FirstRow(p, i) \in Nat
    BY <1>1, <1>3, <2>1 DEF FirstRow
  <2> QED BY <1>1, <1>2, <2>1, <2>2
<1>5. ASSUME NEW i \in DOMAIN p.slots, NEW j \in DOMAIN p.slots, i < j
      PROVE  FirstRow(p, i) + p.rows <= FirstRow(p, j)
  <2>1. i \in Nat /\ i >= 1 /\ j - 1 \in Nat /\ i <= j - 1
    BY <1>1, <1>5
  <2>2. FirstRow(p, i) + p.rows = i * p.rows /\ FirstRow(p, j) = (j - 1) * p.rows
    BY <1>1, <1>3, <2>1 DEF FirstRow
  <2> QED BY <1>1, <1>2, <2>1, <2>2
<1> QED BY <1>1, <1>2, <1>4, <1>5

(* A row belongs to one slot only.                                         *)
LEMMA RowsHaveOneSlot ==
  ASSUME NEW p \in Pools, NEW i \in DOMAIN p.slots, NEW j \in DOMAIN p.slots,
         NEW r \in 1..p.rows, (FirstRow(p, i) + r) - FirstRow(p, j) \in 1..p.rows
  PROVE  i = j
<1>1. /\ i \in Nat /\ j \in Nat /\ p.rows \in Nat
      /\ FirstRow(p, i) \in Nat /\ FirstRow(p, j) \in Nat
  BY SlotsAreFew, SlotsDoNotOverlap
<1>2. /\ i < j => FirstRow(p, i) + p.rows <= FirstRow(p, j)
      /\ j < i => FirstRow(p, j) + p.rows <= FirstRow(p, i)
  BY SlotsDoNotOverlap
<1>3. /\ (FirstRow(p, i) + r) - FirstRow(p, j) >= 1
      /\ (FirstRow(p, i) + r) - FirstRow(p, j) <= p.rows
      /\ r >= 1 /\ r <= p.rows
  BY <1>1
<1> QED BY <1>1, <1>2, <1>3

(* The block of a payload holds it.                                        *)
LEMMA BlocksHold ==
  ASSUME NEW p \in Pools, NEW i \in DOMAIN p.slots, NEW c, RowsOf[c.lod] \in Nat,
         RowsOf[c.lod] <= p.rows
  PROVE  /\ DOMAIN RebasedBlock(p, i, c) = 1..p.rows
         /\ \A r \in 1..RowsOf[c.lod] :
              /\ r \in 1..p.rows
              /\ RebasedBlock(p, i, c)[r] = [of |-> {c}, row |-> r, base |-> FirstRow(p, i)]
<1>1. p.rows \in Nat
  BY SlotsAreFew
<1>2. \A r \in 1..RowsOf[c.lod] : r \in 1..p.rows
  BY <1>1
<1> QED BY <1>1, <1>2 DEF RebasedBlock

(* full_texels(): everybody who has a slot is there.                       *)
LEMMA FullTexelsHold ==
  ASSUME NEW p \in Pools, Apart(p), NEW residents,
         \A c, d \in residents : c.key = d.key => c = d,
         NEW i \in DOMAIN p.slots, NEW c \in residents, c.key \in p.slots[i],
         RowsOf[c.lod] \in Nat, RowsOf[c.lod] <= p.rows
  PROVE  Holds(FullTexels(p, residents), FirstRow(p, i), c)
<1>1. p.rows \in Nat /\ FirstRow(p, i) \in Nat /\ Len(p.slots) * p.rows \in Nat
      /\ FirstRow(p, i) + p.rows <= Len(p.slots) * p.rows
  BY SlotsAreFew, SlotsDoNotOverlap
<1>2. SlotTexels(p, i, residents) = RebasedBlock(p, i, c)
  <2>1. {d \in residents : d.key \in p.slots[i]} = {c}
    BY DEF Apart
  <2> QED BY <2>1 DEF SlotTexels
<1>3. ASSUME NEW r \in 1..RowsOf[c.lod]
      PROVE  /\ FirstRow(p, i) + r \in DOMAIN FullTexels(p, residents)
             /\ FullTexels(p, residents)[FirstRow(p, i) + r]
                  = [of |-> {c}, row |-> r, base |-> FirstRow(p, i)]
  <2> DEFINE n == FirstRow(p, i) + r
  <2>1. r \in 1..p.rows /\ n \in 1..(Len(p.slots) * p.rows) /\ n - FirstRow(p, i) = r
    BY <1>1
  <2>2. SlotAt(p, n) = i
    <3>1. i \in DOMAIN p.slots /\ n - FirstRow(p, i) \in 1..p.rows
      BY <2>1
    <3>2. SlotAt(p, n) \in DOMAIN p.slots /\ n - FirstRow(p, SlotAt(p, n)) \in 1..p.rows
      <4> HIDE DEF n
      <4> QED BY <3>1 DEF SlotAt
    <3> QED BY <2>1, <3>2, RowsHaveOneSlot
  <2>3. FullTexels(p, residents)[n] = SlotTexels(p, SlotAt(p, n), residents)[n - FirstRow(p, SlotAt(p, n))]
    <3> HIDE DEF n
    <3> QED BY <2>1 DEF FullTexels
  <2>4. FullTexels(p, residents)[n] = RebasedBlock(p, i, c)[r]
    <3> HIDE DEF n
    <3> QED BY <1>2, <2>1, <2>2, <2>3
  <2>5. n \in DOMAIN FullTexels(p, residents)
    <3> HIDE DEF n
    <3> QED BY <2>1 DEF FullTexels
  <2> QED BY <2>4, <2>5, BlocksHold
<1> QED BY <1>3 DEF Holds

(* A patch of one slot: its payload is there, and what other slots hold    *)
(* stays.                                                                  *)
LEMMA PatchesHold ==
  ASSUME NEW p \in Pools, NEW i \in DOMAIN p.slots, NEW c,
         RowsOf[c.lod] \in Nat, RowsOf[c.lod] <= p.rows,
         NEW rows, DOMAIN rows = 1..(Len(p.slots) * p.rows)
  PROVE  LET patched == UpdateRows(rows, FirstRow(p, i), RebasedBlock(p, i, c)) IN
         /\ DOMAIN patched = DOMAIN rows
         /\ Holds(patched, FirstRow(p, i), c)
         /\ \A j \in DOMAIN p.slots : \A d :
              /\ j # i /\ RowsOf[d.lod] \in Nat /\ RowsOf[d.lod] <= p.rows
              /\ Holds(rows, FirstRow(p, j), d)
              => Holds(patched, FirstRow(p, j), d)
<1> DEFINE block == RebasedBlock(p, i, c)
           patched == UpdateRows(rows, FirstRow(p, i), block)
<1>1. /\ p.rows \in Nat /\ FirstRow(p, i) \in Nat /\ Len(p.slots) * p.rows \in Nat
      /\ FirstRow(p, i) + p.rows <= Len(p.slots) * p.rows
  BY SlotsAreFew, SlotsDoNotOverlap
<1>2. /\ DOMAIN patched = DOMAIN rows
      /\ \A n \in DOMAIN rows :
           patched[n] = IF n - FirstRow(p, i) \in DOMAIN block THEN block[n - FirstRow(p, i)] ELSE rows[n]
  BY DEF UpdateRows
<1>3. /\ DOMAIN block = 1..p.rows
      /\ \A r \in 1..RowsOf[c.lod] :
              /\ r \in 1..p.rows
              /\ block[r] = [of |-> {c}, row |-> r, base |-> FirstRow(p, i)]
  BY BlocksHold
<1> HIDE DEF block, patched
<1>4. Holds(patched, FirstRow(p, i), c)
  <2> SUFFICES ASSUME NEW r \in 1..RowsOf[c.lod]
               PROVE  /\ FirstRow(p, i) + r \in DOMAIN patched
                      /\ patched[FirstRow(p, i) + r] = [of |-> {c}, row |-> r, base |-> FirstRow(p, i)]
    BY DEF Holds
  <2>1. r \in 1..p.rows /\ FirstRow(p, i) + r \in DOMAIN rows /\ (FirstRow(p, i) + r) - FirstRow(p, i) = r
    BY <1>1, <1>3
  <2> QED BY <1>2, <1>3, <2>1
<1>5. ASSUME NEW j \in DOMAIN p.slots, NEW d, j # i, RowsOf[d.lod] \in Nat, RowsOf[d.lod] <= p.rows,
             Holds(rows, FirstRow(p, j), d)
      PROVE  Holds(patched, FirstRow(p, j), d)
  <2> SUFFICES ASSUME NEW r \in 1..RowsOf[d.lod]
               PROVE  /\ FirstRow(p, j) + r \in DOMAIN patched
                      /\ patched[FirstRow(p, j) + r] = [of |-> {d}, row |-> r, base |-> FirstRow(p, j)]
    BY DEF Holds
  <2>1. /\ FirstRow(p, j) + r \in DOMAIN rows
        /\ rows[FirstRow(p, j) + r] = [of |-> {d}, row |-> r, base |-> FirstRow(p, j)]
    BY <1>5 DEF Holds
  <2>2. r \in 1..p.rows
    BY <1>1, <1>5
  <2>3. (FirstRow(p, j) + r) - FirstRow(p, i) \notin 1..p.rows
    BY <1>5, <2>2, RowsHaveOneSlot
  <2> QED BY <1>2, <1>3, <2>1, <2>3
<1> QED BY <1>2, <1>4, <1>5 DEF block, patched

(***************************************************************************)
(* The scene invariant.                                                    *)
(***************************************************************************)
Streams == {"install", "reload", "coarse", "refine", "vitals"}

(* What changed is streamed in or out in this tick, within the footprint,  *)
(* and what was loaded is resident.                                        *)
Footing ==
  /\ background \in BOOLEAN
  /\ backend \in Backend /\ (backend # "surfaces" => AtlasFits)
  /\ loaded \in Seq(Chunk) /\ Range(loaded) \subseteq Keys(store)
  /\ changed \in BOOLEAN /\ (~changed => loaded = <<>>)
  /\ changed => pc \in Streams
  /\ pc \in Streams => Keys(store) \subseteq Keep

(* The insertion order is one of the resident chunks, one per key.         *)
Insertions ==
  /\ store \subseteq Resident
  /\ \A c, d \in store : c.key = d.key => c = d
  /\ order \subseteq Keys(store) \X Keys(store)
  /\ Aged(order, Keys(store))

(* But for what was loaded and not uploaded yet, meshes are of what is     *)
(* resident ...                                                            *)
MeshesFit ==
  backend = "surfaces" =>
    \A s \in surfaces \cup store :
      s.key \notin Range(loaded) => (s \in surfaces <=> s \in store)

(* ... or the atlas holds it, each in its slot.                            *)
AtlasHolds ==
  backend # "surfaces" =>
    /\ pool \in Pools /\ Apart(pool)
    /\ \A i \in DOMAIN pool.slots : pool.slots[i] \subseteq Keys(store)
    /\ pool.slots # <<>> => DOMAIN texture = 1..(Len(pool.slots) * pool.rows)
    /\ \A c \in store : c.key \notin Range(loaded) =>
         /\ RowsOf[c.lod] <= pool.rows
         /\ \E i \in SlotOf(pool, c.key) : Holds(texture, FirstRow(pool, i), c)

Published ==
  ~changed =>
    /\ Shown = store /\ solids = store
    /\ {d.of : d \in draws} \subseteq store

SceneInv == Footing /\ Insertions /\ MeshesFit /\ AtlasHolds /\ Published

\* Every resident chunk has a number of rows.
LEMMA RowsTyped ==
  ASSUME store \subseteq Resident
  PROVE  /\ \A c \in store : RowsOf[c.lod] \in Nat \ {0} /\ c.key \in Chunk
         /\ Keys(store) \subseteq Chunk
BY FrameAssumption DEF Resident, Keys

(* The rows of a slot are enough for every resident payload.               *)
LEMMA RowsSuffice ==
  ASSUME store \subseteq Resident
  PROVE  NumRows \in Nat \ {0} /\ \A c \in store : RowsOf[c.lod] <= NumRows
<1>1. /\ RowsOf[FineLod] \in Nat \ {0} /\ RowsOf[CoarseLod] \in Nat \ {0}
      /\ \A c \in store : c.lod \in {FineLod, CoarseLod}
  BY FrameAssumption DEF Resident
<1> DEFINE N == {1} \cup {RowsOf[c.lod] : c \in store}
<1>2. N \subseteq Nat \ {0}
  BY <1>1
<1>3. \E n \in N : \A c \in store : RowsOf[c.lod] <= n
  <2>1. CASE store = {}
    BY <2>1
  <2>2. ASSUME NEW c \in store, NEW d \in store, c.lod = FineLod, d.lod = CoarseLod
        PROVE  \E n \in N : \A e \in store : RowsOf[e.lod] <= n
    <3>1. CASE RowsOf[FineLod] <= RowsOf[CoarseLod]
      BY <1>1, <2>2, <3>1
    <3>2. CASE RowsOf[CoarseLod] <= RowsOf[FineLod]
      BY <1>1, <2>2, <3>2
    <3> QED BY <1>1, <3>1, <3>2
  <2>3. ASSUME NEW c \in store, \A d \in store : d.lod = c.lod
        PROVE  \E n \in N : \A e \in store : RowsOf[e.lod] <= n
    BY <1>1, <2>3
  <2>4. ASSUME NEW c \in store, NEW d \in store, c.lod # d.lod
        PROVE  \E e, f \in store : e.lod = FineLod /\ f.lod = CoarseLod
    BY <1>1, <2>4 DEF FineLod, CoarseLod
  <2> HIDE DEF N
  <2> QED BY <2>1, <2>2, <2>3, <2>4
<1>4. NumRows \in N /\ \A c \in store : RowsOf[c.lod] <= NumRows
  BY <1>3 DEF NumRows
<1> QED BY <1>2, <1>4

(* An atlas has as many slots as chunks can be resident in the footprint.  *)
LEMMA FootprintIsSmall ==
  ASSUME AtlasFits, position \in Position
  PROVE  /\ NumSlots \in Nat
         /\ IsFiniteSet(Keep) /\ Cardinality(Keep) <= NumSlots
         /\ NumSlots <= MaxChunks /\ MaxChunks \in Nat
<1> DEFINE seen == Visual[position]
<1>1. seen \in Seq(Chunk) /\ Desired[position] = seen /\ Len(seen) <= MaxChunks
  BY ConstantsAssumption DEF AtlasFits
<1>2. Len(seen) \in Nat /\ DOMAIN seen = 1..Len(seen)
  BY <1>1, LenProperties
<1> HIDE DEF seen
<1>3. MaxChunks \in Nat /\ NumSlots = Len(seen)
  BY <1>1, <1>2, FrameAssumption DEF NumSlots, Narrower
<1>4. Keep = {seen[i] : i \in 1..Len(seen)}
  BY <1>2 DEF Keep, seen, Range
<1>4a. IsFiniteSet(1..Len(seen)) /\ Cardinality(1..Len(seen)) = Len(seen)
  <2> DEFINE n == Len(seen)
  <2>1. n \in Nat
    BY <1>2
  <2> HIDE DEF n
  <2>2. IsFiniteSet(1..n) /\ Cardinality(1..n) = n
    BY <2>1, FS_Interval
  <2> QED BY <2>2 DEF n
<1> DEFINE f == [i \in 1..Len(seen) |-> seen[i]]
<1>5. f \in Surjection(1..Len(seen), Keep)
  <2>1. f \in [1..Len(seen) -> Keep] /\ \A i \in 1..Len(seen) : f[i] = seen[i]
    BY <1>4
  <2>2. \A k \in Keep : \E i \in 1..Len(seen) : f[i] = k
    BY <1>4
  <2> HIDE DEF f
  <2> QED BY <2>1, <2>2 DEF Surjection
<1> HIDE DEF f
<1>7. IsFiniteSet(Keep) /\ Cardinality(Keep) <= Len(seen)
  BY <1>4a, <1>5, FS_Surjection
<1> QED BY <1>1, <1>2, <1>3, <1>7

(* Where nothing moves, nothing has to be published.                       *)
LEMMA NothingMoves ==
  ASSUME SceneInv,
         UNCHANGED <<store, rigidVars, localVars, sceneVars>>,
         pc' \in Streams => pc \in Streams /\ position' = position,
         changed => pc' \in Streams
  PROVE  SceneInv'
<1> USE DEF rigidVars, localVars, sceneVars
<1>1. Footing'
  BY DEF SceneInv, Footing, Keep
<1>2. Insertions'
  BY DEF SceneInv, Insertions
<1>3. MeshesFit' /\ AtlasHolds'
  BY DEF SceneInv, MeshesFit, AtlasHolds
<1>4. Published'
  BY DEF SceneInv, Published, Shown
<1> QED BY <1>1, <1>2, <1>3, <1>4 DEF SceneInv

(* A level switch leaves nothing to show.                                  *)
LEMMA ScenesAreCleared ==
  ASSUME SceneInv, ClearScene, store' = {}, ~changed, pc' \notin Streams
  PROVE  SceneInv'
<1> USE DEF ClearScene, rigidVars
<1>0. Keys(store') = {} /\ Range(<<>>) = {} /\ loaded' = <<>> /\ ~changed'
  BY DEF SceneInv, Footing, Keys, Range
<1>1. Footing'
  BY <1>0 DEF SceneInv, Footing
<1>2. Insertions'
  BY <1>0 DEF Insertions, Aged
<1>3. MeshesFit'
  BY <1>0 DEF MeshesFit, ClearSurfaces
<1>4. AtlasHolds'
  <2>1. NewPool \in Pools /\ NewPool.slots = <<>>
    BY DEF NewPool, Pools
  <2>2. DOMAIN NewPool.slots = {}
    BY <2>1
  <2>3. Apart(NewPool)
    BY <2>2 DEF Apart
  <2> QED BY <1>0, <2>1, <2>2, <2>3 DEF AtlasHolds
<1>5. Published'
  BY DEF Published, Shown, ClearSurfaces
<1> QED BY <1>1, <1>2, <1>3, <1>4, <1>5 DEF SceneInv

(* Eviction: slots and meshes go with their chunks.                        *)
LEMMA EvictionFits ==
  ASSUME SceneInv, EvictFromScene, pc \notin Streams, pc' \in Streams,
         store' = {c \in store : c.key \in Keep}, position' = position
  PROVE  SceneInv'
<1> USE DEF EvictFromScene, rigidVars
<1>0. /\ ~changed /\ loaded = <<>> /\ loaded' = <<>> /\ Range(<<>>) = {}
      /\ Keep' = Keep /\ Keys(store') = Keys(store) \cap Keep
      /\ Evicted = {} => store' = store
  BY SMTT(60) DEF SceneInv, Footing, Keep, Keys, Evicted, Range
<1>1. Footing'
  <2>1. Range(loaded') \subseteq Keys(store') /\ loaded' \in Seq(Chunk)
    BY <1>0
  <2>2. Keys(store') \subseteq Keep'
    BY <1>0
  <2> QED BY <1>0, <2>1, <2>2 DEF SceneInv, Footing, Keys
<1>2. Insertions'
  <2>1. Aged(order', Keys(store'))
    BY <1>0 DEF SceneInv, Insertions, Aged
  <2>2. order' \subseteq Keys(store') \X Keys(store')
    BY <1>0 DEF SceneInv, Insertions
  <2> QED BY <2>1, <2>2 DEF SceneInv, Insertions, Keys
<1>3. MeshesFit'
  BY <1>0 DEF SceneInv, MeshesFit, Evicted, Keys
<1>4. ASSUME backend # "surfaces"
      PROVE  AtlasHolds'
  <2> DEFINE slots == [i \in DOMAIN pool.slots |-> pool.slots[i] \ Evicted]
  <2>1. pool \in Pools /\ Apart(pool)
    BY <1>4 DEF SceneInv, AtlasHolds
  <2>2. /\ pool' = [pool EXCEPT !.slots = slots]
        /\ pool'.rows = pool.rows /\ pool'.slots = slots
        /\ pool' = [rows |-> pool'.rows, slots |-> pool'.slots]
    BY <1>4, <2>1 DEF ReleaseSlots, Release, Pools
  <2>3. /\ DOMAIN pool.slots = 1..Len(pool.slots) /\ Len(pool.slots) \in Nat
        /\ \A i \in DOMAIN pool.slots : pool.slots[i] \subseteq Chunk
    BY <2>1, SlotsAreFew
  <2>4. /\ slots \in Seq(SUBSET Chunk) /\ Len(slots) = Len(pool.slots)
        /\ DOMAIN slots = DOMAIN pool.slots
        /\ \A i \in DOMAIN pool.slots : slots[i] = pool.slots[i] \ Evicted
    <3>1. \A i \in 1..Len(pool.slots) : slots[i] \in SUBSET Chunk
      BY <2>3
    <3> QED BY <2>3, <3>1, LenProperties, IsASeq
  <2> HIDE DEF slots
  <2>5. pool' \in Pools
    BY <2>1, <2>2, <2>4 DEF Pools
  <2>6. Apart(pool')
    BY <2>1, <2>2, <2>4 DEF Apart
  <2>7. \A i \in DOMAIN pool'.slots : pool'.slots[i] \subseteq Keys(store')
    BY <1>0, <1>4, <2>2, <2>4 DEF SceneInv, AtlasHolds, Evicted
  <2>8. pool'.slots # <<>> => DOMAIN texture' = 1..(Len(pool'.slots) * pool'.rows)
    <3>1. pool.slots = <<>> => pool'.slots = <<>>
      BY <2>2, <2>4, EmptySeq
    <3> QED BY <1>4, <2>2, <2>4, <3>1 DEF SceneInv, AtlasHolds
  <2>9. ASSUME NEW c \in store'
        PROVE  /\ RowsOf[c.lod] <= pool'.rows
               /\ \E i \in SlotOf(pool', c.key) : Holds(texture', FirstRow(pool', i), c)
    <3>1. c \in store /\ c.key \notin Range(loaded) /\ c.key \notin Evicted
      BY <1>0, <2>9 DEF Evicted
    <3>2. PICK i \in SlotOf(pool, c.key) : Holds(texture, FirstRow(pool, i), c)
      BY <1>4, <3>1 DEF SceneInv, AtlasHolds
    <3>3. i \in SlotOf(pool', c.key) /\ FirstRow(pool', i) = FirstRow(pool, i)
      BY <2>2, <2>4, <3>1, <3>2 DEF SlotOf, FirstRow
    <3>4. texture' = texture /\ RowsOf[c.lod] <= pool.rows
      BY <1>4, <3>1 DEF SceneInv, AtlasHolds
    <3> QED BY <2>2, <3>2, <3>3, <3>4
  <2> QED BY <2>5, <2>6, <2>7, <2>8, <2>9 DEF AtlasHolds
<1>5. Published'
  <2> SUFFICES ASSUME ~changed' PROVE Shown' = store' /\ solids' = store' /\ {d.of : d \in draws'} \subseteq store'
    BY DEF Published
  <2>1. store' = store /\ UNCHANGED <<backend, draws, texture, solids>>
    BY <1>0
  <2>2. backend = "surfaces" => surfaces' = surfaces
    BY <1>0, <2>1 DEF SceneInv, MeshesFit
  <2>3. Shown' = Shown
    BY <2>1, <2>2 DEF Shown
  <2> QED BY <1>0, <2>1, <2>3 DEF SceneInv, Published
<1>6. AtlasHolds'
  BY <1>4 DEF AtlasHolds
<1> QED BY <1>1, <1>2, <1>3, <1>5, <1>6 DEF SceneInv

(* A payload is put into the store: it is still to be uploaded.            *)
LEMMA LoadingFits ==
  ASSUME SceneInv, NEW c \in Resident, c.key \in Keep, Loaded(c.key),
         store' = Put(c), pc \in Streams, pc' = pc, position' = position
  PROVE  SceneInv'
<1> USE DEF Loaded, rigidVars, sceneVars
<1>0. /\ Keep' = Keep /\ changed'
      /\ store' = {d \in store : d.key # c.key} \cup {c}
      /\ Keys(store') = Keys(store) \cup {c.key}
      /\ loaded \in Seq(Chunk) /\ c.key \in Chunk
  BY DEF SceneInv, Footing, Keep, Put, ResidentAt, Keys, Resident
<1>1. loaded' \in Seq(Chunk) /\ Range(loaded') = Range(loaded) \cup {c.key}
  BY <1>0, RangeOfAppend, AppendProperties
<1>2. Footing'
  BY <1>0, <1>1 DEF SceneInv, Footing
<1>3. Insertions'
  <2>1. Aged(order', Keys(store'))
    BY <1>0 DEF SceneInv, Insertions, Aged
  <2>2. order' \subseteq Keys(store') \X Keys(store')
    BY <1>0 DEF SceneInv, Insertions
  <2>3. store' \subseteq Resident /\ \A d, e \in store' : d.key = e.key => d = e
    BY <1>0 DEF SceneInv, Insertions
  <2> QED BY <2>1, <2>2, <2>3 DEF Insertions
<1>4. MeshesFit'
  BY <1>0, <1>1 DEF SceneInv, MeshesFit
<1>5. AtlasHolds'
  <2> SUFFICES ASSUME backend # "surfaces" PROVE AtlasHolds'
    BY DEF AtlasHolds
  <2>1. \A d \in store' : d.key \notin Range(loaded') => d \in store /\ d.key \notin Range(loaded)
    BY <1>0, <1>1
  <2> QED BY <1>0, <2>1 DEF SceneInv, AtlasHolds
<1>6. Published'
  BY <1>0 DEF Published
<1> QED BY <1>2, <1>3, <1>4, <1>5, <1>6 DEF SceneInv

(* Meshes of what was loaded replace those under the same keys.            *)
LEMMA UploadedMeshesFit ==
  ASSUME SceneInv, UploadSurfaces
  PROVE  SceneInv'
<1> USE DEF UploadSurfaces, Undisturbed, Publishing, vars, engineVars, rigidVars
<1>0. /\ Keep' = Keep /\ loaded' = <<>> /\ Range(<<>>) = {} /\ changed /\ changed' = changed
      /\ UNCHANGED <<store, position, pc, order, background, backend>>
  BY DEF Keep, Range
<1>1. Footing'
  BY <1>0 DEF SceneInv, Footing
<1>2. Insertions'
  BY <1>0 DEF SceneInv, Insertions
<1>3. MeshesFit'
  <2>1. \A k \in Range(loaded) : PayloadOf(k) \in store /\ PayloadOf(k).key = k
    BY DEF SceneInv, Footing, Keys, PayloadOf
  <2>2. surfaces' = store
    <3>1. surfaces' \subseteq store
      BY <2>1 DEF SceneInv, MeshesFit
    <3>2. ASSUME NEW s \in store PROVE s \in surfaces'
      <4>1. CASE s.key \in Range(loaded)
        <5>1. PayloadOf(s.key) = s
          BY <2>1, <3>2, <4>1 DEF SceneInv, Insertions
        <5> QED BY <4>1, <5>1
      <4>2. CASE s.key \notin Range(loaded)
        BY <3>2, <4>2 DEF SceneInv, MeshesFit
      <4> QED BY <4>1, <4>2
    <3> QED BY <3>1, <3>2
  <2> QED BY <1>0, <2>2 DEF MeshesFit
<1>4. AtlasHolds'
  BY <1>0 DEF AtlasHolds
<1>5. Published'
  BY <1>0 DEF Published
<1> QED BY <1>1, <1>2, <1>3, <1>4, <1>5 DEF SceneInv

(* While a frame is published, the resident chunks are few and have an     *)
(* order.                                                                  *)
LEMMA ResidentsFit ==
  ASSUME SceneInv, Publishing, backend # "surfaces", position \in Position
  PROVE  /\ Keys(store) \in SUBSET Chunk /\ IsFiniteSet(Keys(store))
         /\ Cardinality(Keys(store)) <= NumSlots
         /\ Cardinality(Keys(store)) <= MaxChunks
         /\ Cardinality(Keys(store)) \in Nat /\ NumSlots \in Nat /\ MaxChunks \in Nat
<1>1. Keys(store) \in SUBSET Keep /\ AtlasFits /\ store \subseteq Resident
  BY DEF SceneInv, Footing, Publishing, Insertions, Streams
<1>2. /\ NumSlots \in Nat /\ IsFiniteSet(Keep) /\ Cardinality(Keep) <= NumSlots
      /\ NumSlots <= MaxChunks /\ MaxChunks \in Nat
  BY <1>1, FootprintIsSmall
<1>3. IsFiniteSet(Keys(store)) /\ Cardinality(Keys(store)) <= Cardinality(Keep)
  BY <1>1, <1>2, FS_Subset
<1>4. Cardinality(Keys(store)) \in Nat /\ Cardinality(Keep) \in Nat
  BY <1>2, <1>3, FS_CardinalityType
<1> QED BY <1>1, <1>2, <1>3, <1>4, RowsTyped

(* The whole atlas is uploaded from a pool that is large enough: everybody *)
(* has a slot, and is there.                                               *)
LEMMA WholeAtlasFits ==
  ASSUME SceneInv, Publishing, backend # "surfaces", position \in Position,
         NEW laid \in Pools, Apart(laid),
         \A i \in DOMAIN laid.slots : laid.slots[i] \subseteq Keys(store),
         NumRows <= laid.rows, NumSlots <= Len(laid.slots),
         UploadAtlas(laid), UNCHANGED <<surfaces, draws, solids>>
  PROVE  SceneInv'
<1> USE DEF UploadAtlas, Undisturbed, Publishing, vars, engineVars, rigidVars
<1>0. /\ Keep' = Keep /\ loaded' = <<>> /\ Range(<<>>) = {} /\ changed /\ changed' = changed
      /\ UNCHANGED <<store, position, pc, order, background, backend>>
  BY DEF Keep, Range
<1>1. Footing'
  BY <1>0 DEF SceneInv, Footing
<1>2. Insertions'
  BY <1>0 DEF SceneInv, Insertions
<1>3. MeshesFit' /\ Published'
  BY <1>0 DEF MeshesFit, Published
<1>4. AtlasHolds'
  <2>1. /\ Keys(store) \in SUBSET Chunk /\ IsFiniteSet(Keys(store))
        /\ Cardinality(Keys(store)) <= NumSlots
        /\ Cardinality(Keys(store)) \in Nat /\ NumSlots \in Nat
    BY ResidentsFit
  <2>2. Len(laid.slots) \in Nat /\ laid.rows \in Nat
    BY SlotsAreFew
  <2>3. Cardinality(Keys(store)) <= Len(laid.slots)
    BY <2>1, <2>2
  <2>4. Cardinality(Unplaced(laid, Keys(store))) <= Cardinality(FreeSlots(laid))
    BY <2>1, <2>3, RoomForAll
  <2>5. Aged(order, Keys(store)) /\ store \subseteq Resident
        /\ \A c, d \in store : c.key = d.key => c = d
    BY DEF SceneInv, Insertions
  <2> DEFINE q == Assign(laid, Keys(store), order)
  <2>6. /\ q \in Pools /\ Apart(q)
        /\ q.rows = laid.rows
        /\ \A i \in DOMAIN q.slots : q.slots[i] \subseteq Keys(store)
        /\ \A k \in Keys(store) : SlotOf(q, k) # {}
    BY <2>1, <2>4, <2>5, AssignPlaces
  <2> HIDE DEF q
  <2>7. pool' = q /\ texture' = FullTexels(q, store)
    BY DEF q
  <2>8. DOMAIN texture' = 1..(Len(q.slots) * q.rows)
    BY <2>7 DEF FullTexels
  <2>9. ASSUME NEW c \in store
        PROVE  /\ RowsOf[c.lod] <= q.rows
               /\ \E i \in SlotOf(q, c.key) : Holds(texture', FirstRow(q, i), c)
    <3>1. RowsOf[c.lod] \in Nat /\ RowsOf[c.lod] <= NumRows /\ NumRows \in Nat
      BY <2>5, RowsSuffice, RowsTyped
    <3>2. RowsOf[c.lod] <= q.rows
      BY <2>2, <2>6, <3>1
    <3>3. PICK i \in SlotOf(q, c.key) : TRUE
      BY <2>6 DEF Keys
    <3>4. i \in DOMAIN q.slots /\ c.key \in q.slots[i]
      BY DEF SlotOf
    <3>5. Holds(FullTexels(q, store), FirstRow(q, i), c)
      BY <2>5, <2>6, <3>1, <3>2, <3>4, FullTexelsHold
    <3> QED BY <2>7, <3>2, <3>5
  <2> QED BY <1>0, <2>6, <2>7, <2>8, <2>9 DEF AtlasHolds
<1> QED BY <1>1, <1>2, <1>3, <1>4 DEF SceneInv

(* A layout that has to grow is filled anew.                               *)
LEMMA NewLayoutsFit ==
  ASSUME SceneInv, position \in Position, LayOutAgain
  PROVE  SceneInv'
<1> DEFINE laid == EnsureLayout(pool, NumSlots, NumRows)
<1>1. /\ Publishing /\ backend # "surfaces" /\ UploadAtlas(laid)
      /\ UNCHANGED <<surfaces, draws, solids>>
      /\ NeedsLayout(pool, NumSlots, NumRows)
  BY DEF LayOutAgain, LayoutFits, UploadAtlas
<1>2. pool \in Pools /\ NumSlots \in Nat /\ NumRows \in Nat
  <2>1. store \subseteq Resident
    BY DEF SceneInv, Insertions
  <2> QED BY <1>1, <2>1, ResidentsFit, RowsSuffice DEF SceneInv, AtlasHolds
<1>3. /\ laid \in Pools /\ Apart(laid) /\ laid.rows >= NumRows /\ Len(laid.slots) >= NumSlots
      /\ \A i \in DOMAIN laid.slots : laid.slots[i] = {}
  BY <1>1, <1>2, LayoutGrows
<1>4. Len(laid.slots) \in Nat /\ laid.rows \in Nat
  BY <1>3, SlotsAreFew
<1> HIDE DEF laid
<1>5. NumRows <= laid.rows /\ NumSlots <= Len(laid.slots)
      /\ \A i \in DOMAIN laid.slots : laid.slots[i] \subseteq Keys(store)
  BY <1>2, <1>3, <1>4
<1> QED BY <1>1, <1>3, <1>5, WholeAtlasFits

(* The first chunk to be uploaded gets a slot if there is one.             *)
LEMMA HeadIsAssigned ==
  ASSUME SceneInv, Publishing, backend # "surfaces", loaded # <<>>, LayoutFits,
         position \in Position
  PROVE  LET h == Head(loaded)
             q == Assign(pool, {h}, order) IN
         /\ h \in Range(loaded) /\ h \in Keys(store)
         /\ Range(loaded) = {h} \cup Range(Tail(loaded)) /\ Tail(loaded) \in Seq(Chunk)
         /\ pool \in Pools /\ q \in Pools /\ Apart(q)
         /\ q.rows = pool.rows /\ Len(q.slots) = Len(pool.slots)
         /\ DOMAIN q.slots = DOMAIN pool.slots
         /\ \A i \in DOMAIN pool.slots : /\ pool.slots[i] \subseteq q.slots[i]
                                         /\ q.slots[i] \subseteq Keys(store)
         /\ NumRows <= q.rows /\ NumSlots <= Len(q.slots)
<1> DEFINE h == Head(loaded)
           q == Assign(pool, {h}, order)
<1>1. loaded \in Seq(Chunk) /\ Range(loaded) \subseteq Keys(store)
  BY DEF SceneInv, Footing
<1>2. /\ h \in Chunk /\ Range(loaded) = {h} \cup Range(Tail(loaded))
      /\ Tail(loaded) \in Seq(Chunk)
  BY <1>1, RangeOfHeadTail
<1>3. h \in Range(loaded) /\ h \in Keys(store)
  BY <1>1, <1>2
<1>4. /\ pool \in Pools /\ Apart(pool)
      /\ \A i \in DOMAIN pool.slots : pool.slots[i] \subseteq Keys(store)
  BY DEF SceneInv, AtlasHolds
<1>5. Aged(order, {h})
  BY <1>3 DEF SceneInv, Insertions, Aged
<1>6. {h} \in SUBSET Chunk /\ IsFiniteSet({h})
  BY <1>2, FS_Singleton
<1> HIDE DEF h
<1>7. /\ q \in Pools /\ Apart(q)
      /\ q.rows = pool.rows /\ Len(q.slots) = Len(pool.slots)
      /\ DOMAIN q.slots = DOMAIN pool.slots
      /\ \A i \in DOMAIN pool.slots : /\ pool.slots[i] \subseteq q.slots[i]
                                      /\ q.slots[i] \subseteq pool.slots[i] \cup {h}
  BY <1>4, <1>5, <1>6, AssignPlaces
<1> HIDE DEF q
<1>8. NumRows <= pool.rows /\ NumSlots <= Len(pool.slots)
  <2>1. Len(pool.slots) \in Nat /\ pool.rows \in Nat
    BY <1>4, SlotsAreFew
  <2>2. NumSlots \in Nat /\ NumRows \in Nat
    <3>1. store \subseteq Resident
      BY DEF SceneInv, Insertions
    <3> QED BY <3>1, ResidentsFit, RowsSuffice
  <2> QED BY <2>1, <2>2 DEF LayoutFits, NeedsLayout
<1>9. \A i \in DOMAIN pool.slots : q.slots[i] \subseteq Keys(store)
  BY <1>3, <1>4, <1>7
<1> QED BY <1>2, <1>3, <1>4, <1>7, <1>8, <1>9 DEF h, q

(* A refused patch: everything is assigned and uploaded.                   *)
LEMMA RefusedPatchesFit ==
  ASSUME SceneInv, position \in Position, PatchRefused
  PROVE  SceneInv'
<1> DEFINE q == Assign(pool, {Head(loaded)}, order)
<1>1. /\ Publishing /\ backend # "surfaces" /\ LayoutFits /\ loaded # <<>>
      /\ UploadAtlas(q) /\ UNCHANGED <<surfaces, draws, solids>>
  BY DEF PatchRefused, UploadAtlas
<1>2. /\ q \in Pools /\ Apart(q) /\ NumRows <= q.rows /\ NumSlots <= Len(q.slots)
      /\ \A i \in DOMAIN q.slots : q.slots[i] \subseteq Keys(store)
  BY <1>1, HeadIsAssigned
<1> HIDE DEF q
<1> QED BY <1>1, <1>2, WholeAtlasFits

(* A patch: the loaded chunk is in its slot, and the others are untouched. *)
LEMMA PatchesFit ==
  ASSUME SceneInv, position \in Position, PatchLoaded
  PROVE  SceneInv'
<1> USE DEF PatchLoaded, Undisturbed, Publishing, vars, engineVars, rigidVars
<1> DEFINE h == Head(loaded)
           q == Assign(pool, {h}, order)
<1>0. /\ Publishing /\ backend # "surfaces" /\ LayoutFits /\ loaded # <<>>
      /\ Keep' = Keep /\ loaded' = Tail(loaded) /\ changed /\ changed' = changed
      /\ UNCHANGED <<store, position, pc, order, background, backend, solids>>
      /\ pool' = q
  BY DEF Keep
<1>1. /\ h \in Range(loaded) /\ h \in Keys(store)
      /\ Range(loaded) = {h} \cup Range(Tail(loaded)) /\ Tail(loaded) \in Seq(Chunk)
      /\ pool \in Pools /\ q \in Pools /\ Apart(q)
      /\ q.rows = pool.rows /\ Len(q.slots) = Len(pool.slots)
      /\ DOMAIN q.slots = DOMAIN pool.slots
      /\ \A i \in DOMAIN pool.slots : /\ pool.slots[i] \subseteq q.slots[i]
                                      /\ q.slots[i] \subseteq Keys(store)
      /\ NumRows <= q.rows
  BY <1>0, HeadIsAssigned
<1> DEFINE c == PayloadOf(h)
<1>2. PICK slot \in SlotOf(q, h) :
        texture' = UpdateRows(texture, FirstRow(q, slot), RebasedBlock(q, slot, c))
  BY <1>0
<1> HIDE DEF h, q
<1>3. c \in store /\ c.key = h
  BY <1>1 DEF Keys, PayloadOf
<1> HIDE DEF c
<1>4. /\ store \subseteq Resident /\ (\A d, e \in store : d.key = e.key => d = e)
      /\ slot \in DOMAIN q.slots /\ h \in q.slots[slot]
  BY DEF SceneInv, Insertions, SlotOf
<1>5. \A d \in store : RowsOf[d.lod] \in Nat /\ RowsOf[d.lod] <= q.rows
  <2>1. NumRows \in Nat /\ q.rows \in Nat
    BY <1>1, <1>4, RowsSuffice, SlotsAreFew
  <2> QED BY <1>1, <1>4, <2>1, RowsSuffice, RowsTyped
<1>6. DOMAIN texture = 1..(Len(q.slots) * q.rows)
  <2>1. pool.slots # <<>>
    <3>1. DOMAIN pool.slots # {}
      BY <1>1, <1>4
    <3> QED BY <3>1
  <2> QED BY <1>0, <1>1, <2>1 DEF SceneInv, AtlasHolds
<1>7. /\ DOMAIN texture' = DOMAIN texture
      /\ Holds(texture', FirstRow(q, slot), c)
      /\ \A j \in DOMAIN q.slots : \A d \in store :
           j # slot /\ Holds(texture, FirstRow(q, j), d) => Holds(texture', FirstRow(q, j), d)
  <2>1. \A j \in DOMAIN q.slots : \A d :
           /\ j # slot /\ RowsOf[d.lod] \in Nat /\ RowsOf[d.lod] <= q.rows
           /\ Holds(texture, FirstRow(q, j), d)
           => Holds(texture', FirstRow(q, j), d)
    BY <1>1, <1>2, <1>3, <1>4, <1>5, <1>6, PatchesHold
  <2>2. DOMAIN texture' = DOMAIN texture /\ Holds(texture', FirstRow(q, slot), c)
    BY <1>1, <1>2, <1>3, <1>4, <1>5, <1>6, PatchesHold
  <2> QED BY <1>5, <2>1, <2>2
<1>8. Footing'
  BY <1>0, <1>1 DEF SceneInv, Footing
<1>9. Insertions'
  BY <1>0 DEF SceneInv, Insertions
<1>10. MeshesFit' /\ Published'
  BY <1>0 DEF MeshesFit, Published
<1>11. ASSUME NEW d \in store, d.key \notin Range(loaded')
       PROVE  \E i \in SlotOf(q, d.key) : Holds(texture', FirstRow(q, i), d)
  <2>1. CASE d.key = h
    <3>1. d = c
      BY <1>3, <1>4, <2>1
    <3> QED BY <1>2, <1>7, <2>1, <3>1
  <2>2. CASE d.key # h
    <3>1. d.key \notin Range(loaded)
      BY <1>0, <1>1, <1>11, <2>2
    <3>2. PICK i \in SlotOf(pool, d.key) : Holds(texture, FirstRow(pool, i), d)
      BY <1>0, <3>1 DEF SceneInv, AtlasHolds
    <3>3. i \in DOMAIN q.slots /\ d.key \in q.slots[i]
      BY <1>1, <3>2 DEF SlotOf
    <3>4. i # slot
      BY <1>1, <1>4, <2>2, <3>3 DEF Apart
    <3>5. FirstRow(pool, i) = FirstRow(q, i)
      BY <1>1 DEF FirstRow
    <3> QED BY <1>7, <3>2, <3>3, <3>4, <3>5 DEF SlotOf
  <2> QED BY <2>1, <2>2
<1>12. AtlasHolds'
  BY <1>0, <1>1, <1>5, <1>6, <1>7, <1>11 DEF AtlasHolds
<1> QED BY <1>8, <1>9, <1>10, <1>12 DEF SceneInv

(* Publishing: everybody resident is drawn, from the slot that holds it.   *)
LEMMA PublishedFits ==
  ASSUME SceneInv, position \in Position, Publish
  PROVE  SceneInv'
<1> USE DEF Publish, Publishing, vars, engineVars, rigidVars
<1>0. /\ Keep' = Keep /\ loaded = <<>> /\ loaded' = <<>> /\ Range(<<>>) = {} /\ changed
      /\ changed' = FALSE /\ draws' = DrawList /\ solids' = store
      /\ UNCHANGED <<store, position, pc, order, background, backend, pool, texture, surfaces>>
  BY DEF Keep, Range
<1>1. Footing'
  BY <1>0 DEF SceneInv, Footing
<1>2. Insertions'
  BY <1>0 DEF SceneInv, Insertions
<1>3. MeshesFit'
  BY <1>0 DEF SceneInv, MeshesFit
<1>4. AtlasHolds'
  BY <1>0 DEF SceneInv, AtlasHolds
<1>5. \A k \in Keys(store) : PayloadOf(k) \in store /\ PayloadOf(k).key = k
  BY DEF Keys, PayloadOf
<1>6. \A c \in store : PayloadOf(c.key) = c /\ c.key \in Keys(store)
  BY <1>5 DEF SceneInv, Insertions, Keys
<1>7. \A d \in draws' : \E k \in Keys(store) : d.of = PayloadOf(k) /\ d.first = RootRow(k)
  <2>1. \A k, f : DrawEntry(k, f).of = PayloadOf(k) /\ DrawEntry(k, f).first = f
    BY DEF DrawEntry
  <2>2. \A d \in draws' : \E k \in Keys(store) : d = DrawEntry(k, RootRow(k))
    BY <1>0 DEF DrawList, Drawable
  <2> QED BY <2>1, <2>2
<1>8. CASE backend = "surfaces"
  <2>1. surfaces = store
    BY <1>0, <1>8 DEF SceneInv, MeshesFit
  <2>2. Shown' = store
    BY <1>0, <1>8, <2>1 DEF Shown
  <2>3. Published'
    BY <1>0, <1>5, <1>7, <2>2 DEF Published
  <2> QED BY <1>1, <1>2, <1>3, <1>4, <2>3 DEF SceneInv
<1>9. CASE backend # "surfaces"
  <2>1. /\ pool \in Pools /\ Apart(pool)
        /\ \A c \in store : \E i \in SlotOf(pool, c.key) : Holds(texture, FirstRow(pool, i), c)
    BY <1>0, <1>9 DEF SceneInv, AtlasHolds
  <2>2. \A c \in store : Holds(texture, RootRow(c.key), c)
    <3> SUFFICES ASSUME NEW c \in store PROVE Holds(texture, RootRow(c.key), c)
      OBVIOUS
    <3>1. PICK i \in SlotOf(pool, c.key) : Holds(texture, FirstRow(pool, i), c)
      BY <2>1
    <3>2. SlotOf(pool, c.key) = {i}
      BY <2>1 DEF SlotOf, Apart
    <3> QED BY <1>9, <3>1, <3>2 DEF RootRow
  <2>3. Drawable = Keys(store)
    BY <2>1 DEF Drawable, Keys
  <2>4. \A k \in Keys(store) : Cardinality({j \in Drawable : <<j, k>> \in order}) < MaxChunks
    <3> SUFFICES ASSUME NEW k \in Keys(store)
                 PROVE  Cardinality({j \in Drawable : <<j, k>> \in order}) < MaxChunks
      OBVIOUS
    <3> DEFINE elders == {j \in Drawable : <<j, k>> \in order}
    <3>1. elders \in SUBSET Keys(store) /\ k \notin elders
      BY <2>3 DEF SceneInv, Insertions, Aged
    <3>2. /\ IsFiniteSet(Keys(store)) /\ Cardinality(Keys(store)) <= MaxChunks
          /\ Cardinality(Keys(store)) \in Nat /\ MaxChunks \in Nat
      BY <1>9, ResidentsFit
    <3> HIDE DEF elders
    <3>3. Cardinality(elders) \in Nat /\ Cardinality(elders) < Cardinality(Keys(store))
      BY <3>1, <3>2, OneMoreIsLarger
    <3> QED BY <3>2, <3>3 DEF elders
  <2>5. draws' = {DrawEntry(k, RootRow(k)) : k \in Keys(store)}
    BY <1>0, <2>3, <2>4 DEF DrawList
  <2>6. \A d \in draws' : /\ d.of \in store /\ Decoded(texture, d.first, d.of) = {d.of}
    <3> SUFFICES ASSUME NEW d \in draws'
                 PROVE  d.of \in store /\ Decoded(texture, d.first, d.of) = {d.of}
      OBVIOUS
    <3>1. PICK k \in Keys(store) : d.of = PayloadOf(k) /\ d.first = RootRow(k)
      BY <1>7
    <3>2. Holds(texture, RootRow(k), PayloadOf(k))
      BY <1>5, <2>2
    <3> QED BY <1>5, <3>1, <3>2 DEF Decoded
  <2>7. \A c \in store : \E d \in draws' : d.of = c
    <3> SUFFICES ASSUME NEW c \in store PROVE \E d \in draws' : d.of = c
      OBVIOUS
    <3>1. DrawEntry(c.key, RootRow(c.key)).of = c
      BY <1>6 DEF DrawEntry
    <3>2. DrawEntry(c.key, RootRow(c.key)) \in draws'
      BY <1>6, <2>5
    <3> QED BY <3>1, <3>2
  <2>8. UNION {Decoded(texture, d.first, d.of) : d \in draws'} = store
    <3> DEFINE part(d) == Decoded(texture, d.first, d.of)
    <3>1. \A d \in draws' : part(d) \subseteq store
      BY <2>6
    <3>2. \A c \in store : \E d \in draws' : c \in part(d)
      BY <2>6, <2>7
    <3> HIDE DEF part
    <3>3. UNION {part(d) : d \in draws'} = store
      BY <3>1, <3>2
    <3> QED BY <3>3 DEF part
  <2>9. Shown' = store
    BY <1>0, <1>9, <2>8 DEF Shown
  <2>10. Published'
    BY <1>0, <1>5, <1>7, <2>9 DEF Published
  <2> QED BY <1>1, <1>2, <1>3, <1>4, <2>10 DEF SceneInv
<1> QED BY <1>8, <1>9

-----------------------------------------------------------------------------
(* Both branches of stream_chunks keep the types, and what is needed of a  *)
(* chunk that loses its mark.                                              *)

(* The steps that are the engine's with a source in the background, or are *)
(* common to both.                                                         *)
EngineSteps ==
  \/ Happens
  \/ BeginTick /\ UNCHANGED frameVars
  \/ BeginBackground \/ Background \/ Draws \/ SourceSteps

\* A step of the engine with a source in the background is one of ChunkStreaming.
LEMMA EngineStepsAreNext == EngineSteps => Next
BY DEF EngineSteps, Happens, BeginBackground, Background, BackgroundStep, InstallLoaded,
   Draws, SourceSteps, Next, Streaming, InstallOne

(* What the synchronous branch puts into the store is in the footprint.    *)
LEMMA WhatIsPutNow ==
  ASSUME TypeOK, NEW k, NEW lod, NEW rl, PutNow(k, lod, rl),
         k \in Chunk, lod \in {FineLod, CoarseLod}, rl \in Reality
  PROVE  LET c == [key |-> k, level |-> level, lod |-> lod, reality |-> rl] IN
         c \in Resident /\ store' = Put(c) /\ Loaded(c.key) /\ store' \subseteq Resident
BY DEF TypeOK, PutNow, Put, ResidentAt, Resident

(* The arguments of the synchronous branch.                                *)
LEMMA NowIsTyped ==
  ASSUME TypeOK
  PROVE  /\ \A c \in store : c.key \in Chunk /\ c.lod \in {FineLod, CoarseLod} /\ c.reality \in Reality
         /\ reality \in Reality
         /\ MissingTarget \subseteq Chunk /\ MissingTarget \subseteq Keep
BY DEF TypeOK, Resident, MissingTarget, Nearest, Keep, Range

(* Every step keeps the types.                                             *)
LEMMA FrameTypeStep == TypeOK /\ [FrameNext]_allVars => TypeOK'
<1> SUFFICES ASSUME TypeOK, [FrameNext]_allVars PROVE TypeOK'
  OBVIOUS
<1> USE DEF engineVars, installVars, sourceVars, historyVars
<1>0. \A c \in store : c.key \in Chunk /\ c.lod \in {FineLod, CoarseLod} /\ c.reality \in Reality
  BY NowIsTyped
<1>1. CASE EngineSteps
  BY <1>1, EngineStepsAreNext, TypeStep
<1>2. CASE Publication \/ UNCHANGED allVars
  <2>1. UNCHANGED vars
    BY <1>2 DEF Publication, UploadSurfaces, LayOutAgain, PatchLoaded, PatchRefused, UploadAtlas,
       Publish, Undisturbed, allVars
  <2> QED BY <2>1, TypeStep
<1>3. CASE BeginNow
  <2>1. budget' \in Nat
    BY <1>3, ConstantsAssumption DEF BeginNow, FineLoadCost
  <2>2. store' \in SUBSET Resident /\ forced' \in SUBSET Chunk
    BY <1>3 DEF TypeOK, BeginNow
  <2> QED BY <1>3, <2>1, <2>2 DEF TypeOK, BeginNow, PCs
<1>4. ASSUME NEW c \in store, RebuildNow(c) \/ RefineNow(c) PROVE TypeOK'
  <2>1. \E lod \in {FineLod, CoarseLod}, rl \in Reality : PutNow(c.key, lod, rl)
    BY <1>0, <1>4, NowIsTyped DEF RebuildNow, RefineNow, ReloadReality, RefineReality
  <2>2. store' \in SUBSET Resident
    BY <1>0, <2>1, WhatIsPutNow
  <2>3. budget' \in Nat /\ forced' \in SUBSET Chunk
    BY <1>4 DEF TypeOK, RebuildNow, RefineNow, FineLoadCost
  <2> QED BY <2>1, <2>2, <2>3 DEF TypeOK, PutNow
<1>5. ASSUME NEW k \in Chunk, LoadMissing(k) PROVE TypeOK'
  <2>1. PutNow(k, CoarseLod, reality)
    BY <1>5 DEF LoadMissing
  <2>2. store' \in SUBSET Resident
    BY <2>1, NowIsTyped, WhatIsPutNow
  <2>3. budget' \in Nat /\ forced' \in SUBSET Chunk
    BY <1>5 DEF TypeOK, LoadMissing
  <2> QED BY <2>1, <2>2, <2>3 DEF TypeOK, PutNow
<1>6. ASSUME NEW c \in store, DropOverPlayer(c) PROVE TypeOK'
  BY <1>6 DEF TypeOK, DropOverPlayer
<1>7. CASE EndRebuilds \/ EndMissing \/ EndRefinement
  BY <1>7 DEF TypeOK, EndRebuilds, EndMissing, EndRefinement, NextStep, PCs
<1> QED BY <1>1, <1>2, <1>3, <1>4, <1>5, <1>6, <1>7
        DEF FrameNext, Frames, Foreground, EngineSteps

(* What happens before streaming either leaves the level and its chunks    *)
(* alone, or leaves the level and empties the store.                       *)
LEMMA LevelsAreEmptied ==
  ASSUME Happenings
  PROVE  /\ pc' \notin Streams
         /\ level' = level => store' = store
         /\ level' # level => store' = {}
<1>1. CASE TakeDoor
  BY <1>1 DEF TakeDoor, SwitchLevel, Streams
<1>2. CASE Noclip
  BY <1>2, FrameAssumption DEF Noclip, SwitchLevel, Streams
<1>3. CASE Move \/ CrossRedGate \/ CrossRemapGate \/ AbandonDriftCells
  BY <1>3 DEF Move, CrossRedGate, CrossRemapGate, AbandonDriftCells, Streams
<1>4. ASSUME NEW k \in Chunk, PickUpSupply(k)
      PROVE  pc' \notin Streams /\ level' = level /\ store' = store
  BY <1>4 DEF PickUpSupply, Streams
<1>5. ASSUME NEW keys \in SUBSET Keys(store), RearShift(keys)
      PROVE  pc' \notin Streams /\ level' = level /\ store' = store
  BY <1>5 DEF RearShift, Streams
<1>6. ASSUME NEW tier \in 0..MaxDelirium, ChangeDelirium(tier)
      PROVE  pc' \notin Streams /\ level' = level /\ store' = store
  BY <1>6 DEF ChangeDelirium, Streams
<1> QED BY <1>1, <1>2, <1>3, <1>4, <1>5, <1>6 DEF Happenings

(* Orders and answers that install nothing.                                *)
LEMMA OrdersShowNothing ==
  ASSUME BackgroundStep
  PROVE  /\ UNCHANGED <<store, position>>
         /\ pc \in Streams /\ pc' \in Streams
<1>1. ASSUME NEW r, NextCompletion(r)
      PROVE  UNCHANGED position /\ pc \in Streams /\ pc' \in Streams
  BY <1>1 DEF NextCompletion, Streams
<1>2. ASSUME NEW r, DeferOverBudget(r) \/ DropStale(r) \/ DropUnwanted(r) \/ DeferBuried(r)
      PROVE  NextCompletion(r) /\ UNCHANGED store
  BY <1>2 DEF DeferOverBudget, DropStale, DropUnwanted, DeferBuried
<1>3. CASE EndInstall \/ EndReload \/ EndCoarse \/ SkipRefine
  BY <1>3 DEF EndInstall, EndReload, EndCoarse, SkipRefine, Streams, engineVars
<1>4. ASSUME NEW k, NEW lod, NEW rl, Issue(k, lod, rl)
      PROVE  UNCHANGED <<store, position>>
  BY <1>4 DEF Issue
<1>5. CASE IssueReload \/ IssueCoarse \/ IssueRefine
  <2>1. UNCHANGED <<store, position>>
    BY <1>4, <1>5 DEF IssueReload, IssueCoarse, IssueRefine
  <2> QED BY <1>5, <2>1 DEF IssueReload, IssueCoarse, IssueRefine, Streams
<1> QED BY <1>1, <1>2, <1>3, <1>5 DEF BackgroundStep

(* What one answer puts into the store is in the footprint.                *)
LEMMA WhatIsInstalled ==
  ASSUME TypeOK, NEW r, Install(r)
  PROVE  LET c == [key |-> r.key, level |-> r.level, lod |-> r.lod, reality |-> r.reality] IN
         /\ c \in Resident /\ c.key = r.key /\ c.key \in Keep /\ store' = Put(c)
         /\ pc \in Streams /\ pc' = pc /\ position' = position
<1>1. r \in Request
  BY NextCompletionType DEF Install
<1> QED BY <1>1 DEF Install, NextCompletion, Wanted, Request, Resident, Streams

(* Every step keeps the scene in step with the chunk store.                *)
LEMMA SceneStep == TypeOK /\ SceneInv /\ [FrameNext]_allVars => SceneInv'
<1> SUFFICES ASSUME TypeOK, SceneInv, [FrameNext]_allVars PROVE SceneInv'
  OBVIOUS
<1> USE DEF engineVars, installVars, sourceVars, historyVars
<1>0. /\ position \in Position
      /\ changed => pc \in Streams
      /\ pc \in Streams => Keys(store) \subseteq Keep
  BY DEF TypeOK, SceneInv, Footing
<1>1. CASE Happens
  <2>1. CASE level' = level
    BY <1>1, <2>1, LevelsAreEmptied, NothingMoves DEF Happens, frameVars
  <2>2. CASE level' # level
    BY <1>1, <2>2, LevelsAreEmptied, ScenesAreCleared DEF Happens
  <2> QED BY <2>1, <2>2
<1>2. CASE BeginTick /\ UNCHANGED frameVars
  BY <1>0, <1>2, NothingMoves DEF BeginTick, frameVars, Streams
<1>3. CASE BeginBackground
  BY <1>3, EvictionFits DEF BeginBackground, BeginStreaming, Streams
<1>4. CASE Background
  <2>1. ASSUME NEW r \in Range(backlog), InstallLoaded(r) PROVE SceneInv'
    <3> DEFINE c == [key |-> r.key, level |-> r.level, lod |-> r.lod, reality |-> r.reality]
    <3>1. /\ c \in Resident /\ c.key = r.key /\ c.key \in Keep /\ store' = Put(c)
          /\ pc \in Streams /\ pc' = pc /\ position' = position
      BY <2>1, WhatIsInstalled DEF InstallLoaded
    <3>2. Loaded(c.key)
      BY <2>1 DEF InstallLoaded
    <3> HIDE DEF c
    <3> QED BY <3>1, <3>2, LoadingFits
  <2>2. CASE BackgroundStep /\ UNCHANGED frameVars
    BY <2>2, OrdersShowNothing, NothingMoves DEF frameVars
  <2> QED BY <1>4, <2>1, <2>2 DEF Background
<1>5. CASE BeginNow
  BY <1>5, EvictionFits DEF BeginNow, Streams
<1>6. ASSUME NEW k, NEW lod, NEW rl, PutNow(k, lod, rl), pc \in Streams,
             k \in Chunk, k \in Keep, lod \in {FineLod, CoarseLod}, rl \in Reality
      PROVE  SceneInv'
  <2> DEFINE c == [key |-> k, level |-> level, lod |-> lod, reality |-> rl]
  <2>1. c \in Resident /\ c.key = k /\ store' = Put(c) /\ Loaded(c.key)
    BY <1>6, WhatIsPutNow
  <2>2. pc' = pc /\ position' = position
    BY <1>6 DEF PutNow
  <2> HIDE DEF c
  <2> QED BY <1>6, <2>1, <2>2, LoadingFits
<1>7. ASSUME NEW c \in store, RebuildNow(c) \/ RefineNow(c) PROVE SceneInv'
  <2>1. \E lod \in {FineLod, CoarseLod}, rl \in Reality : PutNow(c.key, lod, rl)
    BY <1>7, NowIsTyped DEF RebuildNow, RefineNow, ReloadReality, RefineReality
  <2>2. pc \in Streams
    BY <1>7 DEF RebuildNow, RefineNow, AtStep, Streams
  <2>3. c.key \in Chunk /\ c.key \in Keep
    BY <1>0, <2>2, NowIsTyped DEF Keys
  <2> QED BY <1>6, <2>1, <2>2, <2>3
<1>8. ASSUME NEW k \in Chunk, LoadMissing(k) PROVE SceneInv'
  <2>1. PutNow(k, CoarseLod, reality) /\ pc \in Streams /\ k \in Keep
    BY <1>8, NowIsTyped DEF LoadMissing, AtStep, Streams
  <2> QED BY <1>6, <2>1, NowIsTyped
<1>9. ASSUME NEW c \in store, DropOverPlayer(c) PROVE SceneInv'
  BY <1>0, <1>9, NothingMoves DEF DropOverPlayer
<1>10. CASE EndRebuilds \/ EndMissing \/ EndRefinement
  BY <1>10, NothingMoves
     DEF EndRebuilds, EndMissing, EndRefinement, NextStep, AtStep, frameVars, Streams
<1>11. CASE Publication
  BY <1>0, <1>11, UploadedMeshesFit, NewLayoutsFit, PatchesFit, RefusedPatchesFit, PublishedFits
     DEF Publication
<1>12. CASE Draws
  BY <1>12, NothingMoves DEF Draws, EndTick, frameVars, Streams
<1>13. CASE SourceSteps
  BY <1>0, <1>13, NothingMoves
     DEF SourceSteps, SourceCompletes, SourceFails, frameVars
<1>14. CASE UNCHANGED allVars
  BY <1>0, <1>14, NothingMoves DEF allVars, vars, frameVars
<1> QED BY <1>1, <1>2, <1>3, <1>4, <1>5, <1>7, <1>8, <1>9, <1>10, <1>11, <1>12, <1>13, <1>14
        DEF FrameNext, Frames, Foreground

(* At the start nothing is resident and nothing shown.                     *)
LEMMA SceneInit == FrameInit => SceneInv
<1> SUFFICES ASSUME FrameInit PROVE SceneInv
  OBVIOUS
<1>1. /\ store = {} /\ Keys(store) = {} /\ order = {} /\ loaded = <<>> /\ ~changed
      /\ Range(<<>>) = {} /\ draws = {} /\ solids = {} /\ surfaces = {}
      /\ pool = NewPool /\ pc = "frame"
  BY DEF FrameInit, Init, Keys, Range
<1>2. Footing
  <2>1. changed = FALSE /\ loaded \in Seq(Chunk) /\ Range(loaded) \subseteq Keys(store)
    BY <1>1 DEF FrameInit
  <2>2. pc \notin Streams
    BY <1>1 DEF Streams
  <2> QED BY <1>1, <2>1, <2>2 DEF FrameInit, Footing
<1>3. Insertions /\ MeshesFit
  BY <1>1 DEF Insertions, MeshesFit, Aged
<1>4. AtlasHolds
  <2>1. pool.rows = 0 /\ pool.slots = <<>> /\ <<>> \in Seq(SUBSET Chunk) /\ DOMAIN <<>> = {}
    BY <1>1 DEF NewPool
  <2>2. pool \in Pools /\ DOMAIN pool.slots = {}
    BY <1>1, <2>1 DEF NewPool, Pools
  <2> QED BY <1>1, <2>1, <2>2 DEF AtlasHolds, Apart
<1>5. Published
  BY <1>1 DEF Published, Shown
<1> QED BY <1>2, <1>3, <1>4, <1>5 DEF SceneInv

(* ShownIsResident: a frame shows every resident chunk and nothing else,   *)
(* and the player collides with the same, for every footprint, pool,       *)
(* renderer and source.                                                    *)
THEOREM FramesShowResidents == FrameSpec => []ShownIsResident
<1>1. FrameInit => TypeOK /\ SceneInv
  BY TypeInit, SceneInit DEF FrameInit
<1>2. TypeOK /\ SceneInv /\ [FrameNext]_allVars => TypeOK' /\ SceneInv'
  BY FrameTypeStep, SceneStep
<1>3. SceneInv => ShownIsResident
  BY DEF SceneInv, Footing, Published, ShownIsResident, Streams
<1> QED BY <1>1, <1>2, <1>3, PTL DEF FrameSpec

(* What happens before streaming only adds marks, each of the new reality, *)
(* or leaves the level.                                                    *)
LEMMA MarksOnlyGrow ==
  ASSUME TypeOK, MarksArePast, Happenings
  PROVE  /\ MarksArePast'
         /\ level' = level => /\ forced \subseteq forced'
                              /\ \A k \in Chunk : k \in forced' \/ need'[k] = need[k]
<1> USE DEF engineVars, installVars, sourceVars, historyVars
<1>0. /\ reality.world \in Nat /\ left \in Nat /\ left < reality.world
      /\ \A k \in Chunk : need[k] \in Nat /\ need[k] <= reality.world
      /\ NextWorld.world = reality.world + 1
      /\ Keys(store) \subseteq Chunk
  BY NextWorldType, StoreKeys DEF TypeOK, Reality, MarksArePast
<1>1. ASSUME NEW keys \in SUBSET Chunk, ForceRebuild(keys), reality' = NextWorld,
             UNCHANGED left
      PROVE  /\ MarksArePast'
             /\ forced \subseteq forced'
             /\ \A k \in Chunk : k \in forced' \/ need'[k] = need[k]
  BY <1>0, <1>1 DEF ForceRebuild, MarksArePast
<1>2. ASSUME reality'.world \in Nat, reality'.world >= reality.world,
             UNCHANGED <<left, need, forced>>
      PROVE  /\ MarksArePast'
             /\ forced \subseteq forced'
             /\ \A k \in Chunk : k \in forced' \/ need'[k] = need[k]
  BY <1>0, <1>2 DEF MarksArePast
<1>3. CASE Move
  BY <1>0, <1>2, <1>3 DEF Move
<1>4. CASE CrossRedGate
  BY <1>0, <1>1, <1>4 DEF CrossRedGate
<1>5. CASE CrossRemapGate \/ AbandonDriftCells
  BY <1>0, <1>2, <1>5 DEF CrossRemapGate, AbandonDriftCells
<1>6. ASSUME NEW k \in Chunk, PickUpSupply(k)
      PROVE  /\ MarksArePast'
             /\ forced \subseteq forced'
             /\ \A j \in Chunk : j \in forced' \/ need'[j] = need[j]
  BY <1>1, <1>6 DEF PickUpSupply
<1>7. ASSUME NEW keys \in SUBSET Keys(store), RearShift(keys)
      PROVE  /\ MarksArePast'
             /\ forced \subseteq forced'
             /\ \A k \in Chunk : k \in forced' \/ need'[k] = need[k]
  BY <1>0, <1>1, <1>7 DEF RearShift
<1>8. CASE TakeDoor \/ Noclip
  <2>1. PICK target, arrival : SwitchLevel(target, arrival) /\ target # level
    BY <1>8, FrameAssumption DEF TakeDoor, Noclip
  <2>2. level' # level
    BY <2>1 DEF SwitchLevel
  <2>3. MarksArePast'
    BY <1>0, <2>1 DEF SwitchLevel, MarksArePast
  <2> QED BY <2>2, <2>3
<1>9. ASSUME NEW tier \in 0..MaxDelirium, ChangeDelirium(tier)
      PROVE  /\ MarksArePast'
             /\ forced \subseteq forced'
             /\ \A k \in Chunk : k \in forced' \/ need'[k] = need[k]
  <2>1. reality'.world = reality.world
    BY <1>9 DEF ChangeDelirium, TypeOK, Reality
  <2> QED BY <1>0, <1>2, <1>9, <2>1 DEF ChangeDelirium
<1> QED BY <1>3, <1>4, <1>5, <1>6, <1>7, <1>8, <1>9 DEF Happenings

-----------------------------------------------------------------------------
(* Which realities are shown: with a source in the background the          *)
(* invariant of ChunkStreaming, and no rebuild is ever dropped; without,   *)
(* every resident chunk has been rebuilt, is marked, or is excused.        *)
Unburied ==
  \A c \in store : c.key \notin forced \cup excused => c.reality.world >= need[c.key]

RebuildInv ==
  /\ background \in BOOLEAN
  /\ background => Inductive /\ excused = {}
  /\ ~background => TypeOK /\ MarksArePast /\ Unburied

(* With a source in the background.                                        *)
LEMMA BackgroundRebuilds ==
  ASSUME RebuildInv, background, [FrameNext]_allVars
  PROVE  background' = background /\ Inductive' /\ excused' = {}
<1> USE DEF rigidVars, localVars, sceneVars, frameVars
<1>1. CASE EngineSteps
  <2>1. [Next]_vars
    BY <1>1, EngineStepsAreNext
  <2>2. Inductive'
    BY <2>1, InductiveStep DEF RebuildInv
  <2>3. background' = background /\ excused' = {}
    BY <1>1 DEF RebuildInv, EngineSteps, Happens, ClearScene, BeginBackground, EvictFromScene,
       Background, InstallLoaded, Loaded, Draws, SourceSteps
  <2> QED BY <2>2, <2>3
<1>2. CASE Publication \/ UNCHANGED allVars
  <2>1. UNCHANGED <<vars, background, excused>>
    BY <1>2 DEF Publication, UploadSurfaces, LayOutAgain, PatchLoaded, PatchRefused, UploadAtlas,
       Publish, Undisturbed, allVars
  <2>2. Inductive'
    BY <2>1, InductiveStep DEF RebuildInv
  <2> QED BY <2>1, <2>2 DEF RebuildInv
<1>3. ~Foreground
  BY DEF Foreground, BeginNow, RebuildNow, DropOverPlayer, RefineNow, LoadMissing, EndRebuilds,
     EndMissing, EndRefinement, AtStep
<1> QED BY <1>1, <1>2, <1>3 DEF FrameNext, Frames, EngineSteps

(* A chunk that is put into the store in a reality of its mark, or that    *)
(* keeps the reality it had.                                               *)
LEMMA PuttingRebuilds ==
  ASSUME MarksArePast, Unburied, NEW k, NEW lod, NEW rl, PutNow(k, lod, rl),
         forced \subseteq forced' \cup {k}, excused \subseteq excused' \cup {k},
         k \notin forced' \cup excused' => rl.world >= need[k]
  PROVE  background' = background /\ MarksArePast' /\ Unburied'
<1>1. /\ store' = {c \in store : c.key # k}
                  \cup {[key |-> k, level |-> level, lod |-> lod, reality |-> rl]}
      /\ UNCHANGED <<background, need, left, reality>>
  BY DEF PutNow, Put, ResidentAt, Loaded, rigidVars, historyVars
<1>2. MarksArePast'
  BY <1>1 DEF MarksArePast
<1>3. ASSUME NEW c \in store', c.key \notin forced' \cup excused'
      PROVE  c.reality.world >= need'[c.key]
  BY <1>1, <1>3 DEF Unburied
<1> QED BY <1>1, <1>2, <1>3 DEF Unburied

(* Without: every rebuild is done at once, or dropped over the player.     *)
LEMMA ForegroundRebuilds ==
  ASSUME RebuildInv, ~background, TypeOK', [FrameNext]_allVars
  PROVE  background' = background /\ MarksArePast' /\ Unburied'
<1> USE DEF engineVars, installVars, sourceVars, historyVars,
            rigidVars, localVars, sceneVars, frameVars
<1>0. TypeOK /\ MarksArePast /\ Unburied
  BY DEF RebuildInv
<1>r. /\ \A c \in store : c.key \in Chunk /\ c.reality.world \in Nat
      /\ \A k \in Chunk : need[k] \in Nat /\ reality.world >= need[k]
      /\ reality.world \in Nat
  BY <1>0 DEF TypeOK, Resident, Reality, MarksArePast
<1>1. CASE Happens
  <2>1. MarksArePast' /\ background' = background
    BY <1>0, <1>1, MarksOnlyGrow DEF Happens, ClearScene
  <2>2. CASE level' = level
    BY <1>0, <1>1, <1>r, <2>1, <2>2, MarksOnlyGrow, LevelsAreEmptied DEF Happens, Unburied
  <2>3. CASE level' # level
    BY <1>1, <2>1, <2>3, LevelsAreEmptied DEF Happens, Unburied
  <2> QED BY <2>2, <2>3, <2>1
<1>2. CASE UNCHANGED <<background, store, forced, excused, need, left, reality>>
  BY <1>0, <1>2 DEF MarksArePast, Unburied
<1>3. \/ BeginTick /\ UNCHANGED frameVars
      \/ Publication \/ Draws \/ SourceSteps \/ UNCHANGED allVars
      \/ EndRebuilds \/ EndMissing \/ EndRefinement
      => UNCHANGED <<background, store, forced, excused, need, left, reality>>
  BY DEF BeginTick, Publication, UploadSurfaces, LayOutAgain, PatchLoaded, PatchRefused,
     UploadAtlas, Publish, Undisturbed, Draws, EndTick, SourceSteps, SourceCompletes, SourceFails,
     EndRebuilds, EndMissing, EndRefinement, NextStep, allVars, vars
<1>4. ~BeginBackground /\ ~Background
  BY DEF BeginBackground, Background
<1>5. CASE BeginNow
  <2>1. /\ store' = {c \in store : c.key \in Keep} /\ forced' = forced \cap Keep
        /\ excused' = excused \cap Keep /\ UNCHANGED <<background, need, left, reality>>
    BY <1>5 DEF BeginNow, EvictFromScene
  <2> QED BY <1>0, <2>1 DEF MarksArePast, Unburied
<1>6. ASSUME NEW c \in store, RebuildNow(c)
      PROVE  background' = background /\ MarksArePast' /\ Unburied'
  <2>1. PutNow(c.key, c.lod, reality) /\ forced' = forced \ {c.key} /\ excused' = excused \ {c.key}
    BY <1>6 DEF RebuildNow, ReloadReality
  <2> QED BY <1>0, <1>r, <2>1, PuttingRebuilds
<1>7. ASSUME NEW c \in store, RefineNow(c)
      PROVE  background' = background /\ MarksArePast' /\ Unburied'
  <2>1. PutNow(c.key, FineLod, c.reality) /\ forced' = forced /\ excused' = excused
    BY <1>7 DEF RefineNow, RefineReality
  <2>2. c.key \notin forced' \cup excused' => c.reality.world >= need[c.key]
    BY <1>0, <2>1 DEF Unburied
  <2> QED BY <1>0, <2>1, <2>2, PuttingRebuilds
<1>8. ASSUME NEW k \in Chunk, LoadMissing(k)
      PROVE  background' = background /\ MarksArePast' /\ Unburied'
  <2>1. PutNow(k, CoarseLod, reality) /\ forced' = forced /\ excused' = excused \ {k}
    BY <1>8 DEF LoadMissing
  <2> QED BY <1>0, <1>r, <2>1, PuttingRebuilds
<1>9. ASSUME NEW c \in store, DropOverPlayer(c)
      PROVE  background' = background /\ MarksArePast' /\ Unburied'
  <2>1. /\ forced' = forced \ {c.key} /\ excused' = excused \cup {c.key}
        /\ UNCHANGED <<background, store, need, left, reality>>
    BY <1>9 DEF DropOverPlayer
  <2> QED BY <1>0, <2>1 DEF MarksArePast, Unburied
<1> QED BY <1>1, <1>2, <1>3, <1>4, <1>5, <1>6, <1>7, <1>8, <1>9
        DEF FrameNext, Frames, Foreground

(* RebuiltUnlessBuried: in both branches of stream_chunks a resident chunk *)
(* that is not marked shows a reality at least as new as its last mark,    *)
(* unless its rebuild was dropped over the player (never with a source in  *)
(* the background).                                                        *)
THEOREM RebuildsReachBothWays == FrameSpec => []RebuiltUnlessBuried
<1>1. FrameInit => RebuildInv
  <2> SUFFICES ASSUME FrameInit PROVE RebuildInv
    OBVIOUS
  <2>1. Inductive
    BY InductiveInit DEF FrameInit
  <2>2. Unburied
    BY DEF FrameInit, Init, Unburied
  <2> QED BY <2>1, <2>2 DEF FrameInit, RebuildInv, Inductive, RealityInOrder
<1>2. RebuildInv /\ [FrameNext]_allVars => RebuildInv'
  <2> SUFFICES ASSUME RebuildInv, [FrameNext]_allVars PROVE RebuildInv'
    OBVIOUS
  <2>1. CASE background
    BY <2>1, BackgroundRebuilds DEF RebuildInv
  <2>2. CASE ~background
    <3>1. TypeOK'
      BY <2>2, FrameTypeStep DEF RebuildInv
    <3> QED BY <2>2, <3>1, ForegroundRebuilds DEF RebuildInv
  <2> QED BY <2>1, <2>2
<1>3. RebuildInv => RebuiltUnlessBuried
  BY DEF RebuildInv, RebuiltUnlessBuried, Unburied, Inductive, RealityInOrder,
     RebuildsReachTheirReality
<1> QED BY <1>1, <1>2, <1>3, PTL DEF FrameSpec
=============================================================================
