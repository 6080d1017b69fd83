----------------------------- MODULE WorkerPool -----------------------------
(***************************************************************************)
(* The generation-worker pool: the main thread's transport                 *)
(* (drivers/worker_source.rs) with its ledger of requests in flight        *)
(* (drivers/generation_worker_requests.rs), and the workers themselves     *)
(* (static/worker.js), which serialise their messages through a promise    *)
(* chain.  Main-thread handlers are atomic; workers run in parallel.       *)
(*                                                                         *)
(* Messages of one worker are delivered in order; its error event is a     *)
(* task of its own and overtakes them freely.  terminate() stops a worker; *)
(* replies it had already posted may or may not still arrive.              *)
(***************************************************************************)
EXTENDS Naturals, Sequences, FiniteSets, SequencesExt

CONSTANTS
  PoolSize,       \* number of workers, 1..32
  MaxRequests,    \* bound on the requests made, for TLC
  MaxFaults,      \* bound on worker errors and refused sends, for TLC
  MaxLostReports  \* bound on failures that could not be reported, for TLC

ASSUME PoolAssumption ==
  /\ PoolSize \in Nat \ {0}
  /\ MaxRequests \in Nat /\ MaxFaults \in Nat /\ MaxLostReports \in Nat

VARIABLES
  issued,      \* requests made so far: request r is the r-th
  accepting,   \* accepting_work of every worker
  inFlight,    \* in_flight of every worker, oldest first
  nextWorker,  \* round-robin start of the next assignment
  completed,   \* finished loads not polled yet
  failed,      \* failed requests not polled yet
  inbox,       \* messages posted to a worker and not processed yet
  outbox,      \* replies of a worker not delivered yet
  running,     \* the worker executes (not terminated, not dead)
  usable,      \* the worker's wasm module is initialised
  errorDue,    \* the worker's error event is not delivered yet
  returned,    \* history: requests whose answer the engine has polled
  faults, lostReports   \* counters behind the two bounds

ledgerVars == <<accepting, inFlight>>
answerVars == <<completed, failed>>
workerVars == <<inbox, outbox, running, usable, errorDue>>
boundVars  == <<faults, lostReports>>
vars == <<issued, ledgerVars, nextWorker, answerVars, workerVars, returned, boundVars>>

Worker == 0..(PoolSize - 1)
Request == 1..MaxRequests

(* Messages to a worker: initialise, or generate a request.  Replies name  *)
(* the request they are about; a malformed one hides it from the receiver. *)
InitMessage == 0
Message == {InitMessage} \cup Request
Reply == [kind : {"done", "failed", "malformed"}, of : Request]
         \cup [kind : {"fatal"}, of : {InitMessage}]

(* new(): every worker is accepting and gets its init message first.       *)
Init ==
  /\ issued = 0
  /\ accepting = [w \in Worker |-> TRUE]
  /\ inFlight = [w \in Worker |-> <<>>]
  /\ nextWorker = 0
  /\ completed = <<>> /\ failed = <<>>
  /\ inbox = [w \in Worker |-> <<InitMessage>>]
  /\ outbox = [w \in Worker |-> <<>>]
  /\ running = [w \in Worker |-> TRUE]
  /\ usable = [w \in Worker |-> FALSE]
  /\ errorDue = [w \in Worker |-> FALSE]
  /\ returned = {}
  /\ faults = 0 /\ lostReports = 0

Fault == faults < MaxFaults /\ faults' = faults + 1 /\ UNCHANGED lostReports

-----------------------------------------------------------------------------
(* The ledger.                                                             *)

(* next_accepting(): the next healthy worker, wrapping once from start.    *)
NextAccepting(start) ==
  {w \in Worker : /\ accepting[w]
                  /\ \A d \in 0..(PoolSize - 1) :
                       w = (start + d) % PoolSize =>
                         \A e \in 0..(d - 1) : ~accepting[(start + e) % PoolSize]}

Assign(w, r) ==
  /\ inFlight' = [inFlight EXCEPT ![w] = Append(@, r)]
  /\ UNCHANGED accepting

(* take_exact(): retires the request wherever it is in the worker's queue; *)
(* an unknown one leaves the ledger untouched.                             *)
Owns(w, r) == r \in Range(inFlight[w])

TakeExact(w, r) ==
  \E i \in DOMAIN inFlight[w] :
    /\ inFlight[w][i] = r
    /\ \A j \in 1..(i-1) : inFlight[w][j] # r
    /\ inFlight' = [inFlight EXCEPT ![w] = RemoveAt(@, i)]
    /\ UNCHANGED accepting

(* Mutant: the worker is disabled, and its queue is kept.                  *)
DisableWithoutDrain(w) ==
  /\ accepting' = [accepting EXCEPT ![w] = FALSE]
  /\ UNCHANGED inFlight

(* disable_and_drain(), then the caller reports the abandoned requests and *)
(* terminates the worker.                                                  *)
Disable(w) ==
  /\ accepting' = [accepting EXCEPT ![w] = FALSE]
  /\ inFlight' = [inFlight EXCEPT ![w] = <<>>]

Terminate(w) ==
  /\ running' = [running EXCEPT ![w] = FALSE]
  /\ inbox' = [inbox EXCEPT ![w] = <<>>]
  /\ errorDue' = [errorDue EXCEPT ![w] = FALSE]
  /\ UNCHANGED usable

-----------------------------------------------------------------------------
(* request()                                                               *)

(* Where the next assignment starts.                                       *)
After(w) == (w + 1) % PoolSize

NewRequest(r) == r \in Request /\ r = issued + 1 /\ issued' = r

RequestPosted(r) ==
  /\ NewRequest(r)
  /\ \E w \in NextAccepting(nextWorker) :
       /\ Assign(w, r)
       /\ nextWorker' = After(w)
       /\ inbox' = IF running[w] THEN [inbox EXCEPT ![w] = Append(@, r)] ELSE inbox
  /\ UNCHANGED <<answerVars, outbox, running, usable, errorDue, returned, boundVars>>

(* The send fails: the worker is given up with all it had been assigned.   *)
RequestRefused(r) ==
  /\ NewRequest(r)
  /\ Fault
  /\ \E w \in NextAccepting(nextWorker) :
       /\ Disable(w)
       /\ nextWorker' = After(w)
       /\ failed' = failed \o Append(inFlight[w], r)
       /\ Terminate(w)
       /\ \E late \in {outbox[w], <<>>} : outbox' = [outbox EXCEPT ![w] = late]
  /\ UNCHANGED <<completed, returned>>

(* No healthy worker is left: the main thread generates the chunk itself.  *)
RequestFallback(r) ==
  /\ NewRequest(r)
  /\ NextAccepting(nextWorker) = {}
  /\ completed' = Append(completed, r)
  /\ UNCHANGED <<ledgerVars, nextWorker, failed, workerVars, returned, boundVars>>

(* poll_failed_requests() and poll_completed(), called together by a tick. *)
Poll ==
  /\ completed # <<>> \/ failed # <<>>
  /\ completed' = <<>> /\ failed' = <<>>
  /\ returned' = returned \cup Range(completed) \cup Range(failed)
  /\ UNCHANGED <<issued, ledgerVars, nextWorker, workerVars, boundVars>>

-----------------------------------------------------------------------------
(* Message and error handlers of the main thread.                          *)

Deliver(w, reply) ==
  /\ outbox[w] # <<>>
  /\ reply = Head(outbox[w])
  /\ UNCHANGED <<issued, nextWorker, returned, boundVars>>

Consume(w) == outbox' = [outbox EXCEPT ![w] = Tail(@)]
WorkerUndisturbed == UNCHANGED <<inbox, running, usable, errorDue>>

(* Mutant: a late reply of a worker that was given up still completes.     *)
OnDoneUnchecked(w) == \E reply \in Reply :
  /\ Deliver(w, reply) /\ reply.kind = "done"
  /\ IF Owns(w, reply.of) THEN TakeExact(w, reply.of) ELSE UNCHANGED ledgerVars
  /\ completed' = Append(completed, reply.of)
  /\ Consume(w) /\ WorkerUndisturbed /\ UNCHANGED failed

OnDone(w) == \E reply \in Reply :
  /\ Deliver(w, reply) /\ reply.kind = "done"
  /\ IF Owns(w, reply.of)
     THEN TakeExact(w, reply.of) /\ completed' = Append(completed, reply.of)
     ELSE UNCHANGED <<ledgerVars, completed>>
  /\ Consume(w) /\ WorkerUndisturbed /\ UNCHANGED failed

OnFailed(w) == \E reply \in Reply :
  /\ Deliver(w, reply) /\ reply.kind = "failed"
  /\ IF Owns(w, reply.of)
     THEN TakeExact(w, reply.of) /\ failed' = Append(failed, reply.of)
     ELSE UNCHANGED <<ledgerVars, failed>>
  /\ Consume(w) /\ WorkerUndisturbed /\ UNCHANGED completed

(* fail_oldest(): the reply does not say which request it is about.        *)
OnMalformed(w) == \E reply \in Reply :
  /\ Deliver(w, reply) /\ reply.kind = "malformed"
  /\ IF inFlight[w] # <<>>
     THEN /\ inFlight' = [inFlight EXCEPT ![w] = Tail(@)]
          /\ failed' = Append(failed, Head(inFlight[w]))
     ELSE UNCHANGED <<inFlight, failed>>
  /\ Consume(w) /\ WorkerUndisturbed /\ UNCHANGED <<accepting, completed>>

(* Mutant: the abandoned requests are not reported.                        *)
GiveUpSilently(w) ==
  /\ Disable(w)
  /\ Terminate(w)
  /\ UNCHANGED answerVars

GiveUp(w) ==
  /\ Disable(w)
  /\ failed' = failed \o inFlight[w]
  /\ Terminate(w)
  /\ UNCHANGED completed

OnFatal(w) == \E reply \in Reply :
  /\ Deliver(w, reply) /\ reply.kind = "fatal"
  /\ GiveUp(w)
  /\ \E late \in {Tail(outbox[w]), <<>>} : outbox' = [outbox EXCEPT ![w] = late]

OnError(w) ==
  /\ errorDue[w]
  /\ GiveUp(w)
  /\ \E late \in {outbox[w], <<>>} : outbox' = [outbox EXCEPT ![w] = late]
  /\ UNCHANGED <<issued, nextWorker, returned, boundVars>>

-----------------------------------------------------------------------------
(* static/worker.js                                                        *)

(* Mutant: no promise chain, so handlers overtake each other.              *)
ProcessUnserialised(w, message) ==
  /\ running[w]
  /\ \E i \in DOMAIN inbox[w] :
       /\ message = inbox[w][i]
       /\ inbox' = [inbox EXCEPT ![w] = RemoveAt(@, i)]
  /\ UNCHANGED <<issued, ledgerVars, nextWorker, answerVars, running, errorDue, returned>>

Process(w, message) ==
  /\ running[w]
  /\ inbox[w] # <<>>
  /\ message = Head(inbox[w])
  /\ inbox' = [inbox EXCEPT ![w] = Tail(@)]
  /\ UNCHANGED <<issued, ledgerVars, nextWorker, answerVars, running, errorDue, returned>>

Post(w, kind, r) ==
  outbox' = [outbox EXCEPT ![w] = Append(@, [kind |-> kind, of |-> r])]

WorkerInitialises(w) ==
  /\ Process(w, InitMessage)
  /\ usable' = [usable EXCEPT ![w] = TRUE]
  /\ UNCHANGED <<outbox, boundVars>>

(* A failed initialisation is fatal; what is queued behind it fails.       *)
WorkerInitFails(w) ==
  /\ Process(w, InitMessage)
  /\ Fault
  /\ Post(w, "fatal", InitMessage)
  /\ UNCHANGED usable

WorkerGenerates(w) == \E r \in Request :
  /\ Process(w, r)
  /\ usable[w]
  /\ Post(w, "done", r)
  /\ UNCHANGED <<usable, boundVars>>

(* The payload or the echoed request cannot be decoded by the receiver.    *)
WorkerGarbles(w) == \E r \in Request :
  /\ Process(w, r)
  /\ usable[w]
  /\ Fault
  /\ Post(w, "malformed", r)
  /\ UNCHANGED usable

(* Mutant: a worker whose initialisation failed ignores its requests.      *)
WorkerSwallowsFailure(w) == \E r \in Request :
  /\ Process(w, r)
  /\ IF usable[w] THEN Fault /\ Post(w, "failed", r) ELSE UNCHANGED <<outbox, boundVars>>
  /\ UNCHANGED usable

(* A generation error is reported; a worker whose initialisation failed    *)
(* reports one for every request.                                          *)
WorkerReportsFailure(w) == \E r \in Request :
  /\ Process(w, r)
  /\ IF usable[w] THEN Fault ELSE UNCHANGED boundVars
  /\ Post(w, "failed", r)
  /\ UNCHANGED usable

(* Posting the report fails too: the catch block only logs.                *)
WorkerLosesReport(w) == \E r \in Request :
  /\ Process(w, r)
  /\ lostReports < MaxLostReports /\ lostReports' = lostReports + 1
  /\ UNCHANGED <<outbox, usable, faults>>

(* The browser raises the worker's error event: the script failed to load  *)
(* or died (dies), or an error escaped the promise chain.                  *)
WorkerErrors(w) ==
  /\ running[w] /\ ~errorDue[w]
  /\ Fault
  /\ errorDue' = [errorDue EXCEPT ![w] = TRUE]
  /\ \E dies \in BOOLEAN :
       /\ running' = [running EXCEPT ![w] = ~dies]
       /\ inbox' = [inbox EXCEPT ![w] = IF dies THEN <<>> ELSE @]
  /\ UNCHANGED <<issued, ledgerVars, nextWorker, answerVars, outbox, usable, returned>>

-----------------------------------------------------------------------------
Handlers(w) == OnDone(w) \/ OnFailed(w) \/ OnMalformed(w) \/ OnFatal(w)
               \/ OnError(w)

Works(w) == WorkerInitialises(w) \/ WorkerGenerates(w) \/ WorkerReportsFailure(w)
            \/ WorkerInitFails(w) \/ WorkerGarbles(w) \/ WorkerLosesReport(w)

Next ==
  \/ \E r \in Request : RequestPosted(r) \/ RequestRefused(r) \/ RequestFallback(r)
  \/ Poll
  \/ \E w \in Worker : Handlers(w) \/ Works(w) \/ WorkerErrors(w)

Spec == Init /\ [][Next]_vars

(* Workers are threads of their own, the browser dispatches posted         *)
(* messages and error events, and the engine polls every tick.             *)
FairSpec ==
  /\ Spec
  /\ WF_vars(Poll)
  /\ \A w \in Worker : WF_vars(Handlers(w)) /\ WF_vars(Works(w))

-----------------------------------------------------------------------------
(* Every variable keeps its type.                                          *)
TypeOK ==
  /\ issued \in 0..MaxRequests
  /\ accepting \in [Worker -> BOOLEAN]
  /\ inFlight \in [Worker -> Seq(Request)]
  /\ nextWorker \in Worker
  /\ completed \in Seq(Request)
  /\ failed \in Seq(Request)
  /\ inbox \in [Worker -> Seq(Message)]
  /\ outbox \in [Worker -> Seq(Reply)]
  /\ running \in [Worker -> BOOLEAN]
  /\ usable \in [Worker -> BOOLEAN]
  /\ errorDue \in [Worker -> BOOLEAN]
  /\ returned \in SUBSET Request
  /\ faults \in Nat /\ lostReports \in Nat

InFlight == UNION {Range(inFlight[w]) : w \in Worker}

(* Every request made is in exactly one place: in the queue of one worker, *)
(* among the finished loads, among the failures or already returned.  So   *)
(* none is answered twice by a late reply of a worker that was given up,   *)
(* and none is dropped by draining it.                                     *)
ExactlyOneAnswer ==
  /\ \A v, w \in Worker : \A r \in Request : Owns(v, r) /\ Owns(w, r) => v = w
  /\ \A w \in Worker : IsInjective(inFlight[w])
  /\ IsInjective(completed) /\ IsInjective(failed)
  /\ InFlight \cup Range(completed) \cup Range(failed) \cup returned = 1..issued
  /\ InFlight \cap (Range(completed) \cup Range(failed) \cup returned) = {}
  /\ Range(completed) \cap (Range(failed) \cup returned) = {}
  /\ Range(failed) \cap returned = {}

(* "A worker processes its queue serially, so a malformed response belongs *)
(* to its oldest outstanding request" (generation_worker_requests.rs): the *)
(* request fail_oldest blames is the one the reply was about, as long as   *)
(* no report was lost.                                                     *)
MalformedBlamesItsRequest ==
  lostReports = 0 => \A w \in Worker :
    outbox[w] # <<>> /\ Head(outbox[w]).kind = "malformed" /\ inFlight[w] # <<>>
      => Head(inFlight[w]) = Head(outbox[w]).of

(* Nobody is going to answer r any more: neither its message to worker w   *)
(* nor its reply is under way, nor the error event that would drain w.     *)
Stranded(w) ==
  {r \in Range(inFlight[w]) :
     /\ ~errorDue[w]
     /\ r \notin Range(inbox[w])
     /\ \A reply \in Range(outbox[w]) : reply.of # r}

(* A request in flight is never stranded.  "The browser Worker error event *)
(* is the final recovery path" (worker.js).                                *)
NeverStranded == \A w \in Worker : Stranded(w) = {}

(* Of everything that can go wrong, only a report that itself could not be *)
(* posted strands a request, and it strands one.                           *)
StrandedByLostReportsOnly ==
  Cardinality(UNION {Stranded(w) : w \in Worker}) <= lostReports

(* Every request is answered, by the pool or by the same-thread fallback,  *)
(* unless a report was lost.                                               *)
EveryRequestAnswered ==
  \A r \in Request : issued >= r ~> (r \in returned \/ lostReports > 0)

(* The pool keeps the promise the engine is built on; that it answers at   *)
(* all is EveryRequestAnswered.                                            *)
Promise == INSTANCE ChunkSource WITH open <- InFlight, failed <- Range(failed)
KeepsPromise == Promise!Init /\ [][Promise!Next]_(Promise!sourceVars)
=============================================================================
