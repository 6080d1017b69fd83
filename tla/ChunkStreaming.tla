--------------------------- MODULE ChunkStreaming ---------------------------
(***************************************************************************)
(* Background chunk streaming: Engine::tick (application/engine.rs) reduced *)
(* to what decides which chunk is resident, at which level of detail and   *)
(* from which reality, composed with an asynchronous chunk source.         *)
(*                                                                         *)
(* One tick is a sequence of steps, told apart by pc, in the order of the  *)
(* code: move, anomalies, provisions, peripheral shift, noclip, then       *)
(* stream_chunks (evict and poll, install the backlog one completion at a  *)
(* time, request forced rebuilds, missing chunks and one refinement), then *)
(* the vitals.  The browser runs worker callbacks between two ticks only,  *)
(* so the source moves when pc = "frame".                                  *)
(*                                                                         *)
(* Abstracted data.  A chunk is its key.  A reality snapshot is a version  *)
(* number of its monotone part (encounter epochs, fabric drifts, consumed  *)
(* supplies: every change is a new version) and its delirium tier, which   *)
(* goes up and down.  A payload is what it was generated from.  The        *)
(* monotonic request id only tells apart requests for the same chunk, so   *)
(* it is any id that no live request for that chunk carries.               *)
(***************************************************************************)
EXTENDS Naturals, Sequences, FiniteSets, Functions

CONSTANTS
  Chunk,          \* chunk keys
  Position,       \* the player positions told apart
  Visual,         \* position -> chunks of the visual footprint, nearest first
  Desired,        \* position -> chunks of the fine footprint, nearest first
  Near,           \* position -> chunks within fine_distance
  Under,          \* position -> chunks the player's body or reach touches
  Spawn,          \* the spawn position
  Level,          \* level ids
  Backrooms, Grassland,
  RequestId,
  MaxConcurrent,  \* max_concurrent_requests(): the worker pool size
  MaxLoads,       \* config.max_loads_per_tick
  MaxDelirium,
  PoolCanExhaust, \* whether the source may serve a request on the spot
  MaxEvents,      \* bound on what happens to the player, for TLC
  MaxFaults       \* bound on source failures, for TLC

ASSUME ConstantsAssumption ==
  /\ Visual \in [Position -> Seq(Chunk)]
  /\ Desired \in [Position -> Seq(Chunk)]
  /\ Near \in [Position -> SUBSET Chunk]
  /\ Under \in [Position -> SUBSET Chunk]
  /\ Spawn \in Position
  /\ {Backrooms, Grassland} \subseteq Level
  /\ RequestId \subseteq Nat
  /\ MaxConcurrent \in Nat /\ MaxLoads \in Nat /\ MaxDelirium \in Nat
  /\ PoolCanExhaust \in BOOLEAN
  /\ MaxEvents \in Nat /\ MaxFaults \in Nat

VARIABLES
  pc,         \* the step the tick is at; "frame" between two ticks
  position,
  level,
  reality,    \* the active reality snapshot
  store,      \* resident chunks
  pending,    \* outstanding requests, at most one per chunk
  forced,     \* chunks that must rebuild (forced_reloads)
  backlog,    \* completed_backlog: completions still to be looked at
  deferred,   \* completions this tick puts back into the backlog
  budget,     \* install budget left in this tick
  open, completed, failed,   \* the chunk source
  need,       \* history: reality version of a chunk's last forced rebuild
  left,       \* history: reality version Backrooms was last left with
  sealed,     \* history: reality version of the last Red Room crossing
  events, faults             \* counters behind the two bounds

engineVars  == <<position, level, reality, store, pending, forced>>
installVars == <<backlog, deferred, budget>>
sourceVars  == <<open, completed, failed>>
historyVars == <<need, left, sealed>>
vars == <<pc, engineVars, installVars, sourceVars, historyVars, events, faults>>

CoarseLod == 1
FineLod == 0
FineLoadCost == 4

Reality == [world : Nat, delirium : 0..MaxDelirium]

Request == [id : RequestId, key : Chunk, level : Level,
            lod : {FineLod, CoarseLod}, reality : Reality]

Resident == [key : Chunk, level : Level, lod : {FineLod, CoarseLod},
             reality : Reality]

Source == INSTANCE ChunkSource

PCs == {"frame", "anomalies", "provisions", "shift", "noclip", "stream",
        "install", "reload", "coarse", "refine", "vitals"}

Max2(a, b) == IF a >= b THEN a ELSE b

MaxPending == Max2(Max2(MaxConcurrent, 2 * MaxLoads), 4)
InstallBudget == Max2(MaxLoads * FineLoadCost, 1)
InstallCost(r) == IF r.lod = FineLod THEN FineLoadCost ELSE 1

Keys(S) == {x.key : x \in S}
Keep == Range(Visual[position])
(* Mutant: off by one.                                                     *)
Full == Cardinality(pending) >= MaxPending

(* Every copy of a request that somebody may still look at.                *)
Live == pending \cup open \cup failed \cup Range(completed)
        \cup Range(backlog) \cup Range(deferred)
Fresh(k, i) == \A r \in Live : r.key = k => r.id # i

NextWorld == [reality EXCEPT !.world = @ + 1]

Init ==
  /\ pc = "frame"
  /\ position = Spawn
  /\ level \in Level
  /\ reality = [world |-> 1, delirium |-> 0]
  /\ store = {} /\ pending = {} /\ forced = {}
  /\ backlog = <<>> /\ deferred = <<>> /\ budget = 0
  /\ Source!Init
  /\ need = [k \in Chunk |-> 0] /\ left = 0 /\ sealed = 0
  /\ events = 0 /\ faults = 0

-----------------------------------------------------------------------------
(* The tick up to streaming: what happens to the player and to reality.    *)

Event == events < MaxEvents /\ events' = events + 1

(* Mutant: the outstanding request for the chunk stays.                    *)
ForceRebuildKeepsOrders(keys) ==
  /\ forced' = forced \cup keys
  /\ UNCHANGED pending
  /\ need' = [k \in Chunk |-> IF k \in keys THEN reality'.world ELSE need[k]]

(* force_rebuild(): also drops the outstanding request for the chunk, so   *)
(* that its late completion cannot clear the new order.                    *)
ForceRebuild(keys) ==
  /\ forced' = forced \cup keys
  /\ pending' = {r \in pending : r.key \notin keys}
  /\ need' = [k \in Chunk |-> IF k \in keys THEN reality'.world ELSE need[k]]

BeginTick ==
  /\ pc = "frame"
  /\ pc' = "anomalies"
  /\ UNCHANGED <<engineVars, installVars, sourceVars, historyVars, events, faults>>

(* Walking, pit recovery and teleports only choose another position.       *)
Move ==
  /\ pc = "frame"
  /\ pc' = "anomalies"
  /\ Event
  /\ \E p \in Position \ {position} : position' = p
  /\ UNCHANGED <<level, reality, store, pending, forced, installVars,
                 sourceVars, historyVars, faults>>

(* A committed Red Room crossing: another Level 0 address.                 *)
CrossRedGate ==
  /\ pc = "anomalies"
  /\ level = Backrooms /\ store # {}
  /\ Event
  /\ reality' = NextWorld
  /\ ForceRebuild(Keys(store))
  /\ sealed' = reality'.world
  /\ UNCHANGED <<pc, position, level, store, installVars, sourceVars, left, faults>>

(* Any other gate, and fabric drift of abandoned cells: the new reality is *)
(* taken up lazily, by the chunks streamed in from now on.                 *)
CrossRemapGate ==
  /\ pc = "anomalies"
  /\ level = Backrooms /\ store # {}
  /\ Event
  /\ reality' = NextWorld
  /\ UNCHANGED <<pc, position, level, store, pending, forced, installVars,
                 sourceVars, historyVars, faults>>

AbandonDriftCells ==
  /\ pc \in {"anomalies", "provisions", "shift"}
  /\ pc' = "shift"
  /\ level = Backrooms
  /\ Event
  /\ reality' = NextWorld
  /\ UNCHANGED <<position, level, store, pending, forced, installVars,
                 sourceVars, historyVars, faults>>

(* A supply may be listed by the halo of a resident neighbour, so its own  *)
(* chunk k need not be resident.                                           *)
PickUpSupply(k) ==
  /\ pc \in {"anomalies", "provisions"}
  /\ pc' = "provisions"
  /\ k \in Under[position] /\ store # {}
  /\ Event
  /\ reality' = NextWorld
  /\ ForceRebuild({k})
  /\ UNCHANGED <<position, level, store, installVars, sourceVars, left, sealed, faults>>

(* Tier 2 of the peripheral shift: cells behind the player, inside a       *)
(* blackout, rearrange and their resident chunks rebuild in place.         *)
RearShift(keys) ==
  /\ pc \in {"anomalies", "provisions", "shift"}
  /\ pc' = "noclip"
  /\ level = Backrooms /\ store # {}
  /\ keys \subseteq Keys(store)
  /\ Event
  /\ reality' = NextWorld
  /\ ForceRebuild(keys)
  /\ UNCHANGED <<position, level, store, installVars, sourceVars, left, sealed, faults>>

(* switch_level(): leaving Backrooms also advances every watched drift     *)
(* cell.                                                                   *)
SwitchLevel(target, arrival) ==
  /\ level' = target
  /\ position' = arrival
  /\ store' = {} /\ pending' = {} /\ forced' = {} /\ backlog' = <<>>
  /\ reality' = IF level = Backrooms THEN NextWorld ELSE reality
  /\ left' = IF level = Backrooms THEN reality.world ELSE left
  /\ UNCHANGED <<deferred, budget, sourceVars, need, sealed, faults>>

TakeDoor ==
  /\ pc \in {"anomalies", "provisions"}
  /\ pc' = "shift"
  /\ store # {}
  /\ Event
  /\ \E target \in Level \ {level}, arrival \in Position :
       SwitchLevel(target, arrival)

Noclip ==
  /\ pc \in {"anomalies", "provisions", "shift", "noclip"}
  /\ pc' = "stream"
  /\ Event
  /\ IF level = Backrooms THEN SwitchLevel(Grassland, position)
                          ELSE SwitchLevel(Backrooms, Spawn)

-----------------------------------------------------------------------------
(* stream_chunks(): evict, take what the source answered, install.         *)

(* Mutant: failures are not polled for their orders.                       *)
FailuresIgnored == pending

(* A failed request retires the exact pending order and no newer one.      *)
StillOrdered == pending \ failed

(* Eviction, retirement of failed requests, and the merge of fresh         *)
(* completions into the backlog.                                           *)
BeginStreaming ==
  /\ pc \in {"anomalies", "provisions", "shift", "noclip", "stream"}
  /\ pc' = "install"
  /\ store' = {c \in store : c.key \in Keep}
  /\ forced' = forced \cap Keep
  /\ pending' = StillOrdered
  /\ backlog' = backlog \o completed
  /\ deferred' = <<>>
  /\ budget' = InstallBudget
  /\ Source!Poll
  /\ UNCHANGED <<position, level, reality, historyVars, events, faults>>

(* Mutant: any outstanding order for the chunk on this level will do.      *)
IsCurrentByKey(r) == \E q \in pending : q.key = r.key /\ q.level = r.level

(* A completion is authoritative only while the exact order is pending.    *)
IsCurrent(r) == r \in pending

ResidentAt(k) == {c \in store : c.key = k}

Improves(r) ==
  \A c \in ResidentAt(r.key) :
    IF c.reality = r.reality THEN r.lod < c.lod ELSE r.key \in forced

Wanted(r) == r.level = level /\ r.key \in Keep /\ Improves(r)

Put(c) == (store \ ResidentAt(c.key)) \cup {c}

NextCompletion(r) ==
  /\ pc = "install"
  /\ backlog # <<>>
  /\ r = Head(backlog)
  /\ backlog' = Tail(backlog)
  /\ UNCHANGED <<pc, position, level, reality, sourceVars, historyVars, events, faults>>

Affordable(r) == InstallCost(r) <= budget

DeferOverBudget(r) ==
  /\ NextCompletion(r)
  /\ ~Affordable(r)
  /\ deferred' = Append(deferred, r)
  /\ UNCHANGED <<store, pending, forced, budget>>

DropStale(r) ==
  /\ NextCompletion(r)
  /\ Affordable(r) /\ ~IsCurrent(r)
  /\ UNCHANGED <<store, pending, forced, deferred, budget>>

DropUnwanted(r) ==
  /\ NextCompletion(r)
  /\ Affordable(r) /\ IsCurrent(r) /\ ~Wanted(r)
  /\ pending' = {q \in pending : q.key # r.key}
  /\ UNCHANGED <<store, forced, deferred, budget>>

(* A forced payload whose solids overlap the player waits: it stays        *)
(* pending and goes back into the backlog.                                 *)
DeferBuried(r) ==
  /\ NextCompletion(r)
  /\ Affordable(r) /\ IsCurrent(r) /\ Wanted(r)
  /\ r.key \in forced \cap Under[position]
  /\ deferred' = Append(deferred, r)
  /\ UNCHANGED <<store, pending, forced, budget>>

Install(r) ==
  /\ NextCompletion(r)
  /\ Affordable(r) /\ IsCurrent(r) /\ Wanted(r)
  /\ store' = Put([key |-> r.key, level |-> r.level, lod |-> r.lod,
                   reality |-> r.reality])
  /\ pending' = {q \in pending : q.key # r.key}
  /\ forced' = forced \ {r.key}
  /\ budget' = budget - InstallCost(r)
  /\ UNCHANGED deferred

InstallOne == \E r \in Range(backlog) :
  \/ DeferOverBudget(r) \/ DropStale(r) \/ DropUnwanted(r)
  \/ DeferBuried(r) \/ Install(r)

(* The rest of the backlog waits for the next tick; orders that left the   *)
(* footprint or the level free their slots.                                *)
EndInstall ==
  /\ pc = "install"
  /\ backlog = <<>>
  /\ pc' = "reload"
  /\ backlog' = deferred
  /\ deferred' = <<>>
  /\ budget' = 0
  /\ pending' = {r \in pending : r.key \in Keep /\ r.level = level}
  /\ UNCHANGED <<position, level, reality, store, forced, sourceVars,
                 historyVars, events, faults>>

-----------------------------------------------------------------------------
(* issue_requests(): forced rebuilds, then missing chunks, then at most    *)
(* one refinement.                                                         *)

Issue(k, lod, rl) ==
  \E i \in RequestId :
    LET r == [id |-> i, key |-> k, level |-> level, lod |-> lod, reality |-> rl]
    IN  /\ Fresh(k, i) /\ \A j \in RequestId : Fresh(k, j) => i <= j
        /\ pending' = pending \cup {r}
        /\ Source!Submit(r)
        /\ PoolCanExhaust \/ completed' = completed
        /\ faults' = IF failed' = failed THEN faults ELSE faults + 1
        /\ faults' <= MaxFaults
        /\ UNCHANGED <<position, level, reality, store, forced, installVars,
                       historyVars, events>>

ReloadTargets == {c \in store : c.key \in forced \ Keys(pending)}

(* Mutant: a rebuild asks for the reality the chunk already shows.         *)
ReloadTheSame(c) == c.reality

(* A rebuild asks for the current reality at the resident level of detail. *)
ReloadReality(c) == reality

IssueReload ==
  /\ pc = "reload" /\ pc' = pc
  /\ ~Full
  /\ \E c \in ReloadTargets : Issue(c.key, c.lod, ReloadReality(c))

EndReload ==
  /\ pc = "reload"
  /\ Full \/ ReloadTargets = {}
  /\ pc' = "coarse"
  /\ UNCHANGED <<engineVars, installVars, sourceVars, historyVars, events, faults>>

(* The first element of a nearest-first sequence that is in S.             *)
Nearest(seq, S) ==
  {seq[i] : i \in {i \in DOMAIN seq :
                     seq[i] \in S /\ \A j \in 1..(i-1) : seq[j] \notin S}}

MissingTarget == Nearest(Visual[position], Chunk \ (Keys(store) \cup Keys(pending)))

IssueCoarse ==
  /\ pc = "coarse" /\ pc' = pc
  /\ ~Full
  /\ \E k \in MissingTarget : Issue(k, CoarseLod, reality)

EndCoarse ==
  /\ pc = "coarse"
  /\ Full \/ MissingTarget = {}
  /\ pc' = "refine"
  /\ UNCHANGED <<engineVars, installVars, sourceVars, historyVars, events, faults>>

FineInFlight == \E r \in pending : r.lod = FineLod

Refinable == Keys({c \in store : c.lod > FineLod}) \cap Near[position]
RefineTarget == Nearest(Desired[position], Refinable \ Keys(pending))

(* Mutant: a refinement asks for the present reality.                      *)
RefineToPresent(c) == reality

(* A refinement asks for the reality the chunk already shows.              *)
RefineReality(c) == c.reality

IssueRefine ==
  /\ pc = "refine" /\ pc' = "vitals"
  /\ ~FineInFlight /\ ~Full
  /\ \E k \in RefineTarget : \E c \in ResidentAt(k) : Issue(k, FineLod, RefineReality(c))

SkipRefine ==
  /\ pc = "refine" /\ pc' = "vitals"
  /\ FineInFlight \/ Full \/ RefineTarget = {}
  /\ UNCHANGED <<engineVars, installVars, sourceVars, historyVars, events, faults>>

(* The delirium tier follows the vitals, both ways; resident chunks keep   *)
(* the reality they were built in.                                         *)
ChangeDelirium(tier) ==
  /\ pc = "vitals"
  /\ tier # reality.delirium
  /\ Event
  /\ pc' = "frame"
  /\ reality' = [reality EXCEPT !.delirium = tier]
  /\ UNCHANGED <<position, level, store, pending, forced, installVars,
                 sourceVars, historyVars, faults>>

EndTick ==
  /\ pc = "vitals"
  /\ pc' = "frame"
  /\ UNCHANGED <<engineVars, installVars, sourceVars, historyVars, events, faults>>

-----------------------------------------------------------------------------
(* The source, between two ticks.                                          *)

SourceCompletes(r) ==
  /\ pc = "frame"
  /\ Source!Complete(r)
  /\ UNCHANGED <<pc, engineVars, installVars, historyVars, events, faults>>

SourceFails(rs) ==
  /\ pc = "frame"
  /\ faults < MaxFaults /\ faults' = faults + 1
  /\ Source!Fail(rs)
  /\ UNCHANGED <<pc, engineVars, installVars, historyVars, events>>

Answers(k) ==
  \/ \E r \in open : r.key = k /\ SourceCompletes(r)
  \/ \E rs \in SUBSET open : k \in Keys(rs) /\ SourceFails(rs)

-----------------------------------------------------------------------------
Happenings ==
  \/ Move \/ CrossRedGate \/ CrossRemapGate \/ AbandonDriftCells
  \/ \E k \in Chunk : PickUpSupply(k)
  \/ \E keys \in SUBSET Keys(store) : RearShift(keys)
  \/ TakeDoor \/ Noclip
  \/ \E tier \in 0..MaxDelirium : ChangeDelirium(tier)

Streaming ==
  \/ BeginTick \/ BeginStreaming \/ InstallOne \/ EndInstall
  \/ IssueReload \/ EndReload \/ IssueCoarse \/ EndCoarse
  \/ IssueRefine \/ SkipRefine \/ EndTick

Next ==
  \/ Happenings
  \/ Streaming
  \/ \E r \in open : SourceCompletes(r)
  \/ \E rs \in SUBSET open : SourceFails(rs)

Spec == Init /\ [][Next]_vars

(* The display keeps calling tick, and the browser runs the callbacks of   *)
(* the workers between ticks: an order for a chunk that again and again    *)
(* could be answered is answered.                                          *)
FairSpec ==
  /\ Spec
  /\ WF_vars(Streaming)
  /\ \A k \in Chunk : SF_vars(Answers(k))

-----------------------------------------------------------------------------
(* Every variable keeps its type.                                          *)
TypeOK ==
  /\ pc \in PCs
  /\ position \in Position
  /\ level \in Level
  /\ reality \in Reality
  /\ store \in SUBSET Resident
  /\ pending \in SUBSET Request
  /\ forced \in SUBSET Chunk
  /\ backlog \in Seq(Request)
  /\ deferred \in Seq(Request)
  /\ budget \in Nat
  /\ open \in SUBSET Request
  /\ completed \in Seq(Request)
  /\ failed \in SUBSET Request
  /\ need \in [Chunk -> Nat]
  /\ left \in Nat /\ sealed \in Nat
  /\ events \in Nat /\ faults \in Nat

(* The hash maps of the code: one resident payload and one outstanding     *)
(* order per chunk.                                                        *)
OnePerChunk ==
  /\ \A c, d \in store : c.key = d.key => c = d
  /\ \A q, r \in pending : q.key = r.key => q = r

(* A rebuild really happens: a resident chunk that is no longer marked for *)
(* rebuilding was generated from a reality at least as new as the event    *)
(* that marked it last (force_rebuild, install_completed), whatever late   *)
(* completions of older orders arrived in between.                         *)
RebuildsReachTheirReality ==
  \A c \in store : c.key \notin forced => c.reality.world >= need[c.key]

(* "phasing out and back never returns the wanderer to the hallways they   *)
(* left" (peripheral_shift.rs): every resident chunk belongs to the active *)
(* level, and in Backrooms to a reality newer than at the last departure,  *)
(* although orders of the earlier visit may still be answered.             *)
HallwaysNeverReturn ==
  \A c \in store :
    /\ c.level = level
    /\ level = Backrooms => c.reality.world > left

(* Why rebuilds reach their reality and hallways never return: an          *)
(* outstanding order is for the active level, and asks for a reality       *)
(* between the chunk's last mark and the present one, newer than the last  *)
(* departure from Backrooms.                                               *)
OrdersAreCurrent ==
  \A r \in pending :
    /\ r.level = level
    /\ need[r.key] <= r.reality.world /\ r.reality.world <= reality.world
    /\ level = Backrooms => r.reality.world > left

(* A resident chunk is no newer than the present, and one that is marked   *)
(* is older than its mark.                                                 *)
ResidentsAreOlder ==
  \A c \in store :
    /\ c.reality.world <= reality.world
    /\ c.key \in forced => c.reality.world < need[c.key]

(* Marks and departures happened in realities that are there.               *)
MarksArePast ==
  /\ left < reality.world
  /\ \A k \in Chunk : need[k] <= reality.world

RealityInOrder ==
  /\ OnePerChunk
  /\ RebuildsReachTheirReality
  /\ HallwaysNeverReturn
  /\ OrdersAreCurrent
  /\ ResidentsAreOlder
  /\ MarksArePast

(* A refinement is only asked for when no resident chunk still waits for   *)
(* its rebuild to be asked for.                                            *)
RebuildsComeFirst == pc \in {"coarse", "refine"} => Full \/ ReloadTargets = {}

DeferredWhileInstalling == pc # "install" => deferred = <<>>

Inductive ==
  /\ TypeOK
  /\ RealityInOrder
  /\ RebuildsComeFirst
  /\ DeferredWhileInstalling

(* No order is lost: whatever the engine believes to be in flight is held  *)
(* by somebody who will hand it back (the source, or the backlog).         *)
NoOrderLost ==
  \A r \in pending :
    r \in open \cup failed \cup Range(completed) \cup Range(backlog) \cup Range(deferred)

(* issue_requests: generation concurrency is bounded, and at most one      *)
(* refinement (a fine order that is not a forced rebuild) is in flight.    *)
(* While completions are installed, orders that left the footprint are     *)
(* still there: they are dropped at the end.                               *)
OrdersBounded ==
  /\ Cardinality(pending) <= MaxPending
  /\ \A q, r \in pending :
       /\ q.lod = FineLod /\ r.lod = FineLod
       /\ q.key \notin forced /\ r.key \notin forced
       /\ pc = "install" => {q.key, r.key} \subseteq Keep
       => q = r

(* While a chunk stays resident it is only ever replaced by a finer        *)
(* payload of the same reality or by one of a newer reality                *)
(* (install_completed: "LOD is monotonic only inside one exact reality").  *)
NeverRegresses ==
  [][\A c \in store, d \in store' :
       c.key = d.key /\ c # d =>
         \/ d.reality.world > c.reality.world
         \/ d.reality = c.reality /\ d.lod < c.lod]_vars

(* "Every resident chunk belongs to the old address, so replacing only the *)
(* vestibule would splice two realities" (engine.rs, update_anomalies):    *)
(* after a Red Room crossing every resident chunk is of the new address or *)
(* marked for rebuilding.                                                  *)
NoSplicedAddress ==
  \A c \in store :
    level = Backrooms /\ c.key \notin forced => c.reality.world >= sealed

(* The footprint fills: once nothing more happens to the player, every     *)
(* chunk of the visual footprint becomes and stays resident (a chunk that  *)
(* was marked while missing waits while the player stands in its solids).  *)
FootprintFills ==
  <>[](Keep \subseteq Keys(store) \cup (forced \cap Under[position]))

(* A rebuild is never abandoned: once nothing more happens, every marked   *)
(* chunk is rebuilt unless the player stands in its new solids.            *)
RebuildsHappen == <>[](forced \subseteq Under[position])

(* Refinement: once nothing more happens, every near chunk of the fine     *)
(* footprint gets its full resolution, unless a buried rebuild waits.      *)
FineFootprint == Range(Desired[position]) \cap Near[position]
RefinementCompletes ==
  <>[]( \/ forced # {}
        \/ \A c \in store : c.key \in FineFootprint => c.lod = FineLod)
=============================================================================
