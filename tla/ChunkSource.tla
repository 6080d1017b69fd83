---------------------------- MODULE ChunkSource ----------------------------
(***************************************************************************)
(* What the engine may rely on of an asynchronous chunk source: the        *)
(* promise of the trait ChunkSourcePort (application/ports.rs), stated     *)
(* without workers, queues or transports.  A request is queued once, is    *)
(* answered at most once (completed or definitively failed), in any order, *)
(* and is answered eventually.  WorkerPool implements this specification;  *)
(* ChunkStreaming composes the engine with it.                             *)
(***************************************************************************)
EXTENDS Sequences, Functions

CONSTANT Request   \* the requests the engine may make

VARIABLES
  open,       \* requests queued and not answered yet
  completed,  \* finished loads not taken yet, in arrival order
  failed      \* requests reported as failed and not taken yet

sourceVars == <<open, completed, failed>>

Unanswered == open \cup Range(completed) \cup failed

Init ==
  /\ open = {}
  /\ completed = <<>>
  /\ failed = {}

(* request(): the order is queued ...                                      *)
Accept(r) ==
  /\ open' = open \cup {r}
  /\ UNCHANGED <<completed, failed>>

(* ... or, with no background worker left, it is served on the spot ...    *)
AnswerNow(r) ==
  /\ completed' = Append(completed, r)
  /\ UNCHANGED <<open, failed>>

(* ... or the transport refuses it, together with other queued orders.     *)
Refuse(r, others) ==
  /\ open' = open \ others
  /\ failed' = failed \cup others \cup {r}
  /\ UNCHANGED completed

Submit(r) ==
  /\ r \notin Unanswered
  /\ \/ Accept(r)
     \/ AnswerNow(r)
     \/ \E others \in SUBSET open : Refuse(r, others)

Complete(r) ==
  /\ r \in open
  /\ open' = open \ {r}
  /\ completed' = Append(completed, r)
  /\ UNCHANGED failed

(* One transport failure may take down several queued orders at once.      *)
Fail(rs) ==
  /\ rs # {}
  /\ rs \subseteq open
  /\ open' = open \ rs
  /\ failed' = failed \cup rs
  /\ UNCHANGED completed

Answer(r) == Complete(r) \/ \E rs \in SUBSET open : r \in rs /\ Fail(rs)

(* poll_completed() and poll_failed_requests(), which one tick calls       *)
(* together.                                                               *)
Poll ==
  /\ completed' = <<>>
  /\ failed' = {}
  /\ UNCHANGED open

Next ==
  \/ \E r \in Request : Submit(r) \/ Answer(r)
  \/ Poll

Spec ==
  /\ Init
  /\ [][Next]_sourceVars
  /\ \A r \in Request : WF_sourceVars(Answer(r))
=============================================================================
