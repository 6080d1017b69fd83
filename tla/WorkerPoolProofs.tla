-------------------------- MODULE WorkerPoolProofs --------------------------
(***************************************************************************)
(* Proofs about WorkerPool, for any number of workers, requests, faults    *)
(* and lost reports.                                                       *)
(***************************************************************************)
EXTENDS WorkerPool, SequenceTheorems, FiniteSetTheorems, TLAPS

-----------------------------------------------------------------------------
(* Queues without duplicates.                                              *)

(* Appending a new element.                                                *)
LEMMA Appended ==
  ASSUME NEW S, NEW s \in Seq(S), NEW e \in S
  PROVE  /\ Append(s, e) \in Seq(S)
         /\ Range(Append(s, e)) = Range(s) \cup {e}
         /\ IsInjective(s) /\ e \notin Range(s) => IsInjective(Append(s, e))
<1>1. /\ Append(s, e) \in Seq(S) /\ Len(s) \in Nat
      /\ DOMAIN Append(s, e) = 1..(Len(s) + 1) /\ DOMAIN s = 1..Len(s)
      /\ \A i \in 1..Len(s) : Append(s, e)[i] = s[i]
      /\ Append(s, e)[Len(s) + 1] = e
  BY LenProperties, AppendProperties
<1>2. Range(Append(s, e)) = Range(s) \cup {e}
  <2>1. Range(s) \cup {e} \subseteq Range(Append(s, e))
    BY <1>1 DEF Range
  <2>2. Range(Append(s, e)) \subseteq Range(s) \cup {e}
    BY <1>1 DEF Range
  <2> QED BY <2>1, <2>2
<1>3. ASSUME IsInjective(s), e \notin Range(s) PROVE IsInjective(Append(s, e))
  BY <1>1, <1>3 DEF IsInjective, Range
<1> QED BY <1>1, <1>2, <1>3

(* Joining two queues.                                                     *)
LEMMA Joined ==
  ASSUME NEW S, NEW s \in Seq(S), NEW t \in Seq(S)
  PROVE  /\ s \o t \in Seq(S)
         /\ Range(s \o t) = Range(s) \cup Range(t)
         /\ IsInjective(s) /\ IsInjective(t) /\ Range(s) \cap Range(t) = {}
              => IsInjective(s \o t)
<1>1. /\ s \o t \in Seq(S) /\ Len(s) \in Nat /\ Len(t) \in Nat
      /\ DOMAIN (s \o t) = 1..(Len(s) + Len(t))
      /\ DOMAIN s = 1..Len(s) /\ DOMAIN t = 1..Len(t)
      /\ \A i \in 1..Len(s) : (s \o t)[i] = s[i]
      /\ \A i \in 1..(Len(s) + Len(t)) : i > Len(s) => (s \o t)[i] = t[i - Len(s)]
  BY LenProperties, ConcatProperties
<1>2. Range(s \o t) = Range(s) \cup Range(t)
  <2>1. Range(s) \subseteq Range(s \o t)
    BY <1>1 DEF Range
  <2>2. ASSUME NEW e \in Range(t) PROVE e \in Range(s \o t)
    <3>1. PICK i \in 1..Len(t) : e = t[i]
      BY <1>1 DEF Range
    <3>2. (s \o t)[i + Len(s)] = e /\ i + Len(s) \in DOMAIN (s \o t)
      BY <1>1, <3>1
    <3> QED BY <3>2 DEF Range
  <2>3. ASSUME NEW e \in Range(s \o t) PROVE e \in Range(s) \cup Range(t)
    <3>1. PICK i \in 1..(Len(s) + Len(t)) : e = (s \o t)[i]
      BY <1>1 DEF Range
    <3>2. CASE i \in 1..Len(s)
      BY <1>1, <3>1, <3>2 DEF Range
    <3>3. CASE i > Len(s)
      <4>1. e = t[i - Len(s)] /\ i - Len(s) \in 1..Len(t)
        BY <1>1, <3>1, <3>3
      <4> QED BY <1>1, <4>1 DEF Range
    <3> QED BY <1>1, <3>2, <3>3
  <2> QED BY <2>1, <2>2, <2>3
<1>3. ASSUME IsInjective(s), IsInjective(t), Range(s) \cap Range(t) = {}
      PROVE  IsInjective(s \o t)
  <2> SUFFICES ASSUME NEW a \in DOMAIN (s \o t), NEW b \in DOMAIN (s \o t),
                      (s \o t)[a] = (s \o t)[b]
               PROVE  a = b
    BY DEF IsInjective
  <2>1. /\ a \in 1..(Len(s) + Len(t)) /\ b \in 1..(Len(s) + Len(t))
    BY <1>1
  <2>2. \A i \in 1..(Len(s) + Len(t)) :
           \/ i \in 1..Len(s) /\ (s \o t)[i] = s[i] /\ s[i] \in Range(s)
           \/ /\ i > Len(s) /\ i - Len(s) \in 1..Len(t)
              /\ (s \o t)[i] = t[i - Len(s)] /\ t[i - Len(s)] \in Range(t)
    BY <1>1 DEF Range
  <2>3. CASE a \in 1..Len(s) /\ b \in 1..Len(s)
    BY <1>1, <1>3, <2>3 DEF IsInjective
  <2>4. CASE a > Len(s) /\ b > Len(s)
    <3>1. a - Len(s) \in DOMAIN t /\ b - Len(s) \in DOMAIN t
          /\ t[a - Len(s)] = t[b - Len(s)]
      BY <1>1, <2>1, <2>2, <2>4
    <3>2. a - Len(s) = b - Len(s)
      BY <1>3, <3>1 DEF IsInjective
    <3> QED BY <1>1, <2>1, <3>2
  <2>5. CASE \/ a \in 1..Len(s) /\ b > Len(s)
             \/ b \in 1..Len(s) /\ a > Len(s)
    BY <1>1, <1>3, <2>1, <2>2, <2>5
  <2>6. /\ a \in 1..Len(s) \/ a > Len(s)
        /\ b \in 1..Len(s) \/ b > Len(s)
    BY <1>1, <2>1
  <2> QED BY <2>1, <2>3, <2>4, <2>5, <2>6
<1> QED BY <1>1, <1>2, <1>3

(* Taking an element out of a queue without duplicates.                    *)
LEMMA Removed ==
  ASSUME NEW S, NEW s \in Seq(S), NEW i \in DOMAIN s, IsInjective(s)
  PROVE  /\ RemoveAt(s, i) \in Seq(S)
         /\ Range(RemoveAt(s, i)) = Range(s) \ {s[i]}
         /\ IsInjective(RemoveAt(s, i))
         /\ DOMAIN RemoveAt(s, i) = 1..(Len(s) - 1)
         /\ \A k \in 1..(Len(s) - 1) : RemoveAt(s, i)[k] = IF k < i THEN s[k] ELSE s[k + 1]
<1> DEFINE t == RemoveAt(s, i)
<1>1. Len(s) \in Nat /\ DOMAIN s = 1..Len(s) /\ i \in 1..Len(s)
  BY LenProperties
<1>2. /\ t \in Seq(S) /\ DOMAIN t = 1..(Len(s) - 1)
      /\ \A k \in 1..(Len(s) - 1) : t[k] = IF k < i THEN s[k] ELSE s[k + 1]
  <2>1. /\ SubSeq(s, 1, i - 1) \in Seq(S) /\ Len(SubSeq(s, 1, i - 1)) = i - 1
        /\ \A k \in 1..(i - 1) : SubSeq(s, 1, i - 1)[k] = s[k]
    BY <1>1, SubSeqProperties
  <2>2. /\ SubSeq(s, i + 1, Len(s)) \in Seq(S)
        /\ Len(SubSeq(s, i + 1, Len(s))) = Len(s) - i
        /\ \A k \in 1..(Len(s) - i) : SubSeq(s, i + 1, Len(s))[k] = s[i + k]
    <3>1. CASE i = Len(s)
      BY <1>1, <3>1
    <3>2. CASE i < Len(s)
      BY <1>1, <3>2, SubSeqProperties
    <3> QED BY <1>1, <3>1, <3>2
  <2> DEFINE before == SubSeq(s, 1, i - 1)
             after == SubSeq(s, i + 1, Len(s))
  <2>3. t = before \o after
    BY DEF RemoveAt
  <2>4. before \in Seq(S) /\ after \in Seq(S)
    BY <2>1, <2>2
  <2> HIDE DEF before, after, t
  <2>5. /\ t \in Seq(S) /\ Len(t) = Len(before) + Len(after)
        /\ \A k \in 1..(Len(before) + Len(after)) :
              t[k] = IF k <= Len(before) THEN before[k]
                     ELSE after[k - Len(before)]
    BY <2>3, <2>4, ConcatProperties
  <2>6. /\ Len(before) = i - 1 /\ Len(after) = Len(s) - i
        /\ \A k \in 1..(i - 1) : before[k] = s[k]
        /\ \A k \in 1..(Len(s) - i) : after[k] = s[i + k]
    BY <2>1, <2>2 DEF before, after
  <2>7. DOMAIN t = 1..(Len(s) - 1)
    BY <1>1, <2>5, <2>6, LenProperties
  <2>8. ASSUME NEW k \in 1..(Len(s) - 1)
        PROVE  t[k] = IF k < i THEN s[k] ELSE s[k + 1]
    <3>1. CASE k < i
      BY <1>1, <2>5, <2>6, <3>1
    <3>2. CASE ~(k < i)
      <4>1. k - (i - 1) \in 1..(Len(s) - i) /\ i + (k - (i - 1)) = k + 1
        BY <1>1, <3>2
      <4> QED BY <1>1, <2>5, <2>6, <3>2, <4>1, SMTT(60)
    <3> QED BY <3>1, <3>2
  <2> QED BY <2>5, <2>7, <2>8
<1> HIDE DEF t
<1>3. Range(t) = Range(s) \ {s[i]}
  <2>1. ASSUME NEW e \in Range(t) PROVE e \in Range(s) \ {s[i]}
    <3>1. PICK k \in 1..(Len(s) - 1) : e = t[k]
      BY <1>2 DEF Range
    <3>2. PICK j \in 1..Len(s) : j # i /\ e = s[j]
      BY <1>1, <1>2, <3>1
    <3> QED BY <1>1, <3>2 DEF Range, IsInjective
  <2>2. ASSUME NEW e \in Range(s) \ {s[i]} PROVE e \in Range(t)
    <3>1. PICK j \in 1..Len(s) : e = s[j] /\ j # i
      BY <1>1 DEF Range
    <3>2. PICK k \in 1..(Len(s) - 1) : e = t[k]
      <4>1. CASE j < i
        BY <1>1, <1>2, <3>1, <4>1
      <4>2. CASE j > i
        <5>1. j - 1 \in 1..(Len(s) - 1) /\ ~(j - 1 < i) /\ (j - 1) + 1 = j
          BY <1>1, <3>1, <4>2
        <5> QED BY <1>2, <3>1, <5>1
      <4> QED BY <1>1, <3>1, <4>1, <4>2
    <3> QED BY <1>2, <3>2 DEF Range
  <2> QED BY <2>1, <2>2
<1>4. IsInjective(t)
  BY <1>1, <1>2 DEF IsInjective
<1> QED BY <1>2, <1>3, <1>4 DEF t

(* Taking the head.                                                        *)
LEMMA Headed ==
  ASSUME NEW S, NEW s \in Seq(S), s # <<>>
  PROVE  /\ Head(s) \in S /\ Head(s) \in Range(s) /\ Head(s) = s[1]
         /\ Tail(s) \in Seq(S)
         /\ Len(s) \in Nat \ {0} /\ DOMAIN s = 1..Len(s)
         /\ Len(Tail(s)) = Len(s) - 1
         /\ \A k \in 1..(Len(s) - 1) : Tail(s)[k] = s[k + 1]
         /\ IsInjective(s) => /\ Range(Tail(s)) = Range(s) \ {Head(s)}
                              /\ IsInjective(Tail(s))
<1>1. /\ Len(s) \in Nat \ {0} /\ DOMAIN s = 1..Len(s)
      /\ Head(s) = s[1] /\ s[1] \in S
      /\ Tail(s) \in Seq(S) /\ Len(Tail(s)) = Len(s) - 1
      /\ DOMAIN Tail(s) = 1..(Len(s) - 1)
      /\ \A k \in 1..(Len(s) - 1) : Tail(s)[k] = s[k + 1]
  BY HeadTailProperties, LenProperties, EmptySeq, ElementOfSeq
<1>2. Head(s) \in Range(s)
  BY <1>1 DEF Range
<1>3. ASSUME IsInjective(s)
      PROVE  Range(Tail(s)) = Range(s) \ {Head(s)} /\ IsInjective(Tail(s))
  <2>1. ASSUME NEW e \in Range(Tail(s)) PROVE e \in Range(s) \ {Head(s)}
    <3>1. PICK k \in 1..(Len(s) - 1) : e = s[k + 1]
      BY <1>1 DEF Range
    <3>2. k + 1 \in DOMAIN s /\ k + 1 # 1 /\ 1 \in DOMAIN s
      BY <1>1
    <3> QED BY <1>1, <1>3, <3>1, <3>2 DEF Range, IsInjective
  <2>2. ASSUME NEW e \in Range(s) \ {Head(s)} PROVE e \in Range(Tail(s))
    <3>1. PICK j \in 1..Len(s) : e = s[j] /\ j # 1
      BY <1>1 DEF Range
    <3>2. j - 1 \in 1..(Len(s) - 1) /\ (j - 1) + 1 = j
      BY <1>1, <3>1
    <3> QED BY <1>1, <3>1, <3>2 DEF Range
  <2>3. IsInjective(Tail(s))
    BY <1>1, <1>3 DEF IsInjective
  <2> QED BY <2>1, <2>2, <2>3
<1> QED BY <1>1, <1>2, <1>3

-----------------------------------------------------------------------------
(* Types.                                                                  *)

(* The next assignment starts at a worker that exists.                     *)
LEMMA AfterIsWorker ==
  ASSUME NEW w \in Worker
  PROVE  After(w) \in Worker
<1>1. PoolSize \in Nat \ {0} /\ w \in Nat
  BY PoolAssumption DEF PoolAssumption, Worker
<1>2. (w + 1) % PoolSize \in 0..(PoolSize - 1)
  BY <1>1
<1> QED BY <1>2 DEF After, Worker

(* The ledger's operations keep its type.                                  *)
LEMMA LedgerTypes ==
  ASSUME TypeOK, NEW w \in Worker
  PROVE  /\ \A r \in Request :
                Assign(w, r) \/ TakeExact(w, r) =>
                  /\ inFlight' \in [Worker -> Seq(Request)]
                  /\ accepting' \in [Worker -> BOOLEAN]
         /\ Disable(w) =>
              /\ inFlight' \in [Worker -> Seq(Request)]
              /\ accepting' \in [Worker -> BOOLEAN]
         /\ Terminate(w) =>
              /\ inbox' \in [Worker -> Seq(Message)]
              /\ running' \in [Worker -> BOOLEAN]
              /\ errorDue' \in [Worker -> BOOLEAN]
              /\ usable' = usable
<1>1. /\ inFlight \in [Worker -> Seq(Request)] /\ accepting \in [Worker -> BOOLEAN]
      /\ inbox \in [Worker -> Seq(Message)] /\ running \in [Worker -> BOOLEAN]
      /\ errorDue \in [Worker -> BOOLEAN]
  BY DEF TypeOK
<1>2. ASSUME NEW r \in Request, Assign(w, r)
      PROVE  inFlight' \in [Worker -> Seq(Request)] /\ accepting' \in [Worker -> BOOLEAN]
  <2>1. Append(inFlight[w], r) \in Seq(Request)
    BY <1>1, Appended
  <2> QED BY <1>1, <1>2, <2>1 DEF Assign
<1>3. ASSUME NEW r \in Request, TakeExact(w, r)
      PROVE  inFlight' \in [Worker -> Seq(Request)] /\ accepting' \in [Worker -> BOOLEAN]
  <2>1. PICK i \in DOMAIN inFlight[w] :
           inFlight' = [inFlight EXCEPT ![w] = RemoveAt(@, i)]
    BY <1>3 DEF TakeExact
  <2>2. RemoveAt(inFlight[w], i) \in Seq(Request)
    <3>1. /\ inFlight[w] \in Seq(Request)
          /\ Len(inFlight[w]) \in Nat /\ i \in 1..Len(inFlight[w])
      BY <1>1, LenProperties
    <3> DEFINE s == inFlight[w]
    <3> HIDE DEF s
    <3>2. SubSeq(s, 1, i - 1) \in Seq(Request) /\ SubSeq(s, i + 1, Len(s)) \in Seq(Request)
      BY <3>1 DEF s
    <3> QED BY <3>2 DEF RemoveAt, s
  <2> QED BY <1>1, <1>3, <2>1, <2>2 DEF TakeExact
<1>4. ASSUME Disable(w)
      PROVE  inFlight' \in [Worker -> Seq(Request)] /\ accepting' \in [Worker -> BOOLEAN]
  BY <1>1, <1>4 DEF Disable
<1>5. ASSUME Terminate(w)
      PROVE  /\ inbox' \in [Worker -> Seq(Message)]
             /\ running' \in [Worker -> BOOLEAN]
             /\ errorDue' \in [Worker -> BOOLEAN]
             /\ usable' = usable
  BY <1>1, <1>5 DEF Terminate
<1> QED BY <1>2, <1>3, <1>4, <1>5

(* Every variable keeps its type.                                          *)
LEMMA TypeStep ==
  ASSUME TypeOK, [Next]_vars
  PROVE  TypeOK'
<1> USE PoolAssumption DEF PoolAssumption
<1>0. /\ issued \in 0..MaxRequests
      /\ accepting \in [Worker -> BOOLEAN] /\ inFlight \in [Worker -> Seq(Request)]
      /\ nextWorker \in Worker
      /\ completed \in Seq(Request) /\ failed \in Seq(Request)
      /\ inbox \in [Worker -> Seq(Message)] /\ outbox \in [Worker -> Seq(Reply)]
      /\ running \in [Worker -> BOOLEAN] /\ usable \in [Worker -> BOOLEAN]
      /\ errorDue \in [Worker -> BOOLEAN]
      /\ returned \in SUBSET Request /\ faults \in Nat /\ lostReports \in Nat
  BY DEF TypeOK
<1>1. \A r : NewRequest(r) => r \in Request /\ issued' \in 0..MaxRequests
  BY <1>0 DEF NewRequest, Request
<1>2. \A w \in NextAccepting(nextWorker) : w \in Worker
  BY DEF NextAccepting
<1>3. Fault => faults' \in Nat /\ lostReports' \in Nat
  BY <1>0 DEF Fault
<1>4. ASSUME NEW r \in Request, RequestPosted(r) PROVE TypeOK'
  <2>1. PICK w \in NextAccepting(nextWorker) :
           /\ Assign(w, r) /\ nextWorker' = After(w)
           /\ inbox' = IF running[w] THEN [inbox EXCEPT ![w] = Append(@, r)] ELSE inbox
    BY <1>4 DEF RequestPosted
  <2>2. w \in Worker
    BY <1>2
  <2>3. Append(inbox[w], r) \in Seq(Message)
    BY <1>0, <2>2, Appended DEF Message
  <2>4. inbox' \in [Worker -> Seq(Message)]
    BY <1>0, <2>1, <2>3
  <2>5. /\ inFlight' \in [Worker -> Seq(Request)] /\ accepting' \in [Worker -> BOOLEAN]
        /\ nextWorker' \in Worker
    BY <2>1, <2>2, LedgerTypes, AfterIsWorker
  <2>6. issued' \in 0..MaxRequests
    BY <1>1, <1>4 DEF RequestPosted
  <2> QED BY <1>0, <1>4, <2>4, <2>5, <2>6 DEF RequestPosted, TypeOK, answerVars, boundVars
<1>5. ASSUME NEW r \in Request, RequestRefused(r) PROVE TypeOK'
  <2>1. PICK w \in NextAccepting(nextWorker) :
           /\ Disable(w) /\ nextWorker' = After(w)
           /\ failed' = failed \o Append(inFlight[w], r)
           /\ Terminate(w)
           /\ \E late \in {outbox[w], <<>>} : outbox' = [outbox EXCEPT ![w] = late]
    BY <1>5 DEF RequestRefused
  <2>2. w \in Worker
    BY <1>2
  <2>3. failed' \in Seq(Request)
    BY <1>0, <2>1, <2>2, Appended, Joined
  <2>4. outbox' \in [Worker -> Seq(Reply)]
    <3>1. outbox[w] \in Seq(Reply) /\ <<>> \in Seq(Reply)
      BY <1>0, <2>2
    <3> QED BY <1>0, <2>1, <3>1
  <2>5. /\ inFlight' \in [Worker -> Seq(Request)] /\ accepting' \in [Worker -> BOOLEAN]
        /\ inbox' \in [Worker -> Seq(Message)] /\ running' \in [Worker -> BOOLEAN]
        /\ errorDue' \in [Worker -> BOOLEAN] /\ usable' = usable
        /\ nextWorker' \in Worker
    BY <2>1, <2>2, LedgerTypes, AfterIsWorker
  <2>6. issued' \in 0..MaxRequests /\ faults' \in Nat /\ lostReports' \in Nat
    BY <1>1, <1>3, <1>5 DEF RequestRefused
  <2> QED BY <1>0, <1>5, <2>3, <2>4, <2>5, <2>6 DEF RequestRefused, TypeOK
<1>6. ASSUME NEW r \in Request, RequestFallback(r) PROVE TypeOK'
  <2>1. completed' \in Seq(Request) /\ issued' \in 0..MaxRequests
    BY <1>0, <1>1, <1>6, Appended DEF RequestFallback
  <2> QED BY <1>0, <1>6, <2>1 DEF RequestFallback, TypeOK, ledgerVars, workerVars, boundVars
<1>7. ASSUME Poll PROVE TypeOK'
  <2>1. Range(completed) \subseteq Request /\ Range(failed) \subseteq Request
    BY <1>0, RangeOfSeq DEF Range
  <2>2. <<>> \in Seq(Request)
    OBVIOUS
  <2> QED BY <1>0, <1>7, <2>1, <2>2 DEF Poll, TypeOK, ledgerVars, workerVars, boundVars
<1>8. ASSUME NEW w \in Worker, Handlers(w) PROVE TypeOK'
  <2>0. Tail(outbox[w]) \in Seq(Reply) \/ outbox[w] = <<>>
    BY <1>0, Headed
  <2>1. ASSUME OnDone(w) \/ OnFailed(w) PROVE TypeOK'
    <3>1. PICK reply \in Reply :
             /\ Deliver(w, reply) /\ reply.kind \in {"done", "failed"}
             /\ \/ TakeExact(w, reply.of) /\ completed' = Append(completed, reply.of) /\ failed' = failed
                \/ TakeExact(w, reply.of) /\ failed' = Append(failed, reply.of) /\ completed' = completed
                \/ UNCHANGED <<ledgerVars, completed, failed>>
             /\ Consume(w) /\ WorkerUndisturbed
      BY <2>1 DEF OnDone, OnFailed
    <3>2. reply.of \in Request
      BY <3>1 DEF Reply
    <3>3. /\ inFlight' \in [Worker -> Seq(Request)] /\ accepting' \in [Worker -> BOOLEAN]
          /\ completed' \in Seq(Request) /\ failed' \in Seq(Request)
      <4>1. CASE /\ TakeExact(w, reply.of)
                 /\ completed' = Append(completed, reply.of) /\ failed' = failed
        BY <1>0, <3>2, <4>1, LedgerTypes, Appended
      <4>2. CASE /\ TakeExact(w, reply.of)
                 /\ failed' = Append(failed, reply.of) /\ completed' = completed
        BY <1>0, <3>2, <4>2, LedgerTypes, Appended
      <4>3. CASE UNCHANGED <<ledgerVars, completed, failed>>
        BY <1>0, <4>3 DEF ledgerVars
      <4> QED BY <3>1, <4>1, <4>2, <4>3
    <3>4. outbox' \in [Worker -> Seq(Reply)]
      BY <1>0, <2>0, <3>1 DEF Deliver, Consume
    <3> QED BY <1>0, <3>1, <3>3, <3>4 DEF Deliver, WorkerUndisturbed, TypeOK, boundVars
  <2>2. ASSUME OnMalformed(w) PROVE TypeOK'
    <3>1. PICK reply \in Reply :
             /\ Deliver(w, reply)
             /\ \/ /\ inFlight[w] # <<>>
                   /\ inFlight' = [inFlight EXCEPT ![w] = Tail(@)]
                   /\ failed' = Append(failed, Head(inFlight[w]))
                \/ UNCHANGED <<inFlight, failed>>
             /\ Consume(w) /\ WorkerUndisturbed /\ UNCHANGED <<accepting, completed>>
      BY <2>2 DEF OnMalformed
    <3>2. inFlight[w] # <<>> =>
            Head(inFlight[w]) \in Request /\ Tail(inFlight[w]) \in Seq(Request)
      BY <1>0, Headed
    <3>3. inFlight' \in [Worker -> Seq(Request)] /\ failed' \in Seq(Request)
      <4>1. CASE /\ inFlight[w] # <<>>
                 /\ inFlight' = [inFlight EXCEPT ![w] = Tail(@)]
                 /\ failed' = Append(failed, Head(inFlight[w]))
        <5>1. Append(failed, Head(inFlight[w])) \in Seq(Request)
          BY <1>0, <3>2, <4>1, Appended
        <5> QED BY <1>0, <3>2, <4>1, <5>1
      <4>2. CASE UNCHANGED <<inFlight, failed>>
        BY <1>0, <4>2
      <4> QED BY <3>1, <4>1, <4>2
    <3>4. outbox' \in [Worker -> Seq(Reply)]
      BY <1>0, <2>0, <3>1 DEF Deliver, Consume
    <3> QED BY <1>0, <3>1, <3>3, <3>4 DEF Deliver, WorkerUndisturbed, TypeOK, boundVars
  <2>3. ASSUME OnFatal(w) \/ OnError(w) PROVE TypeOK'
    <3>1. GiveUp(w) /\ UNCHANGED <<issued, nextWorker, returned, boundVars>>
      BY <2>3 DEF OnFatal, OnError, Deliver
    <3>2. outbox' \in [Worker -> Seq(Reply)]
      <4>1. \E late \in Seq(Reply) : outbox' = [outbox EXCEPT ![w] = late]
        <5>1. <<>> \in Seq(Reply) /\ outbox[w] \in Seq(Reply)
          BY <1>0
        <5>2. CASE OnFatal(w)
          <6>1. outbox[w] # <<>>
            BY <5>2 DEF OnFatal, Deliver
          <6> QED BY <2>0, <5>1, <5>2, <6>1 DEF OnFatal
        <5>3. CASE OnError(w)
          BY <5>1, <5>3 DEF OnError
        <5> QED BY <2>3, <5>2, <5>3
      <4> QED BY <1>0, <4>1
    <3>3. failed' \in Seq(Request)
      BY <1>0, <3>1, Joined DEF GiveUp
    <3>4. /\ inFlight' \in [Worker -> Seq(Request)] /\ accepting' \in [Worker -> BOOLEAN]
          /\ inbox' \in [Worker -> Seq(Message)] /\ running' \in [Worker -> BOOLEAN]
          /\ errorDue' \in [Worker -> BOOLEAN] /\ usable' = usable
      BY <3>1, LedgerTypes DEF GiveUp
    <3> QED BY <1>0, <3>1, <3>2, <3>3, <3>4 DEF GiveUp, TypeOK, boundVars
  <2> QED BY <1>8, <2>1, <2>2, <2>3 DEF Handlers
<1>9. ASSUME NEW w \in Worker, Works(w) PROVE TypeOK'
  <2>1. PICK message \in Message : Process(w, message)
    BY <1>9 DEF Works, WorkerInitialises, WorkerGenerates, WorkerReportsFailure,
                WorkerInitFails, WorkerGarbles, WorkerLosesReport, Message
  <2>2. inbox' \in [Worker -> Seq(Message)]
    BY <1>0, <2>1, Headed DEF Process
  <2>3. outbox' \in [Worker -> Seq(Reply)]
    <3>1. \/ outbox' = outbox
          \/ Post(w, "fatal", InitMessage)
          \/ \E r \in Request, kind \in {"done", "failed", "malformed"} : Post(w, kind, r)
      BY <1>9 DEF Works, WorkerInitialises, WorkerGenerates, WorkerReportsFailure,
                  WorkerInitFails, WorkerGarbles, WorkerLosesReport
    <3>2. PICK reply \in Reply :
             outbox' = outbox \/ outbox' = [outbox EXCEPT ![w] = Append(@, reply)]
      <4>1. [kind |-> "fatal", of |-> InitMessage] \in Reply
        BY DEF Reply
      <4>2. \A r \in Request, kind \in {"done", "failed", "malformed"} :
               [kind |-> kind, of |-> r] \in Reply
        BY DEF Reply
      <4> QED BY <3>1, <4>1, <4>2 DEF Post
    <3>3. Append(outbox[w], reply) \in Seq(Reply)
      BY <1>0, Appended
    <3> QED BY <1>0, <3>2, <3>3
  <2>4. usable' \in [Worker -> BOOLEAN] /\ faults' \in Nat /\ lostReports' \in Nat
    <3>1. usable' = [usable EXCEPT ![w] = TRUE] \/ usable' = usable
      BY <1>9 DEF Works, WorkerInitialises, WorkerGenerates, WorkerReportsFailure,
                  WorkerInitFails, WorkerGarbles, WorkerLosesReport
    <3>2. \/ Fault \/ UNCHANGED boundVars
          \/ lostReports' = lostReports + 1 /\ UNCHANGED faults
      BY <1>9 DEF Works, WorkerInitialises, WorkerGenerates, WorkerReportsFailure,
                  WorkerInitFails, WorkerGarbles, WorkerLosesReport, boundVars
    <3>3. usable' \in [Worker -> BOOLEAN]
      BY <1>0, <3>1
    <3>4. CASE Fault
      BY <1>3, <3>3, <3>4
    <3>5. CASE UNCHANGED boundVars
      BY <1>0, <3>3, <3>5 DEF boundVars
    <3>6. CASE lostReports' = lostReports + 1 /\ UNCHANGED faults
      BY <1>0, <3>3, <3>6
    <3> QED BY <3>2, <3>4, <3>5, <3>6
  <2> QED BY <1>0, <2>1, <2>2, <2>3, <2>4 DEF Process, TypeOK, ledgerVars, answerVars
<1>10. ASSUME NEW w \in Worker, WorkerErrors(w) PROVE TypeOK'
  <2>1. inbox' \in [Worker -> Seq(Message)]
    <3>1. PICK dies \in BOOLEAN :
             inbox' = [inbox EXCEPT ![w] = IF dies THEN <<>> ELSE @]
      BY <1>10 DEF WorkerErrors
    <3>2. <<>> \in Seq(Message)
      OBVIOUS
    <3> QED BY <1>0, <3>1, <3>2
  <2>2. running' \in [Worker -> BOOLEAN] /\ errorDue' \in [Worker -> BOOLEAN]
    BY <1>0, <1>10 DEF WorkerErrors
  <2>3. faults' \in Nat /\ lostReports' \in Nat
    BY <1>3, <1>10 DEF WorkerErrors
  <2> QED BY <1>0, <1>10, <2>1, <2>2, <2>3 DEF WorkerErrors, TypeOK, ledgerVars, answerVars
<1>11. ASSUME UNCHANGED vars PROVE TypeOK'
  BY <1>11 DEF TypeOK, vars, ledgerVars, answerVars, workerVars, boundVars
<1> QED BY <1>4, <1>5, <1>6, <1>7, <1>8, <1>9, <1>10, <1>11 DEF Next

-----------------------------------------------------------------------------
(* Answers.                                                                *)

Held(w) == Range(inFlight[w])
Answered == Range(completed) \cup Range(failed) \cup returned

(* ExactlyOneAnswer, worker by worker.                                     *)
Placed ==
  /\ \A w \in Worker : IsInjective(inFlight[w])
  /\ IsInjective(completed) /\ IsInjective(failed)
  /\ \A v, w \in Worker : v # w => Held(v) \cap Held(w) = {}
  /\ \A w \in Worker : Held(w) \subseteq (1..issued) \ Answered
  /\ Answered \subseteq 1..issued
  /\ Range(completed) \cap Range(failed) = {}
  /\ Range(completed) \cap returned = {}
  /\ Range(failed) \cap returned = {}
  /\ \A r \in 1..issued : r \in Answered \/ \E w \in Worker : r \in Held(w)

\* Worker by worker, the property says where each request is.
LEMMA PlacedMeans ==
  /\ TypeOK /\ ExactlyOneAnswer => Placed
  /\ Placed => ExactlyOneAnswer
<1>1. ASSUME TypeOK, ExactlyOneAnswer PROVE Placed
  <2>1. /\ \A w \in Worker : Held(w) \in SUBSET InFlight
        /\ \A r \in InFlight : \E w \in Worker : r \in Held(w)
    BY DEF InFlight, Held
  <2>2. \A w \in Worker : Held(w) \in SUBSET Request
    BY <1>1, RangeOfSeq DEF TypeOK, Held, Range
  <2>3. \A v, w \in Worker : v # w => Held(v) \cap Held(w) = {}
    BY <1>1, <2>2 DEF ExactlyOneAnswer, Owns, Held
  <2> QED BY <1>1, <2>1, <2>3 DEF ExactlyOneAnswer, Placed, Answered
<1>2. ASSUME Placed PROVE ExactlyOneAnswer
  <2>1. /\ \A w \in Worker : Held(w) \in SUBSET InFlight
        /\ \A r \in InFlight : \E w \in Worker : r \in Held(w)
    BY DEF InFlight, Held
  <2>2. \A v, w \in Worker : \A r \in Request : Owns(v, r) /\ Owns(w, r) => v = w
    BY <1>2 DEF Placed, Owns, Held
  <2>3. /\ InFlight \cup Answered = 1..issued
        /\ InFlight \cap Answered = {}
    BY <1>2, <2>1 DEF Placed
  <2> QED BY <1>2, <2>2, <2>3 DEF ExactlyOneAnswer, Placed, Answered
<1> QED BY <1>1, <1>2

(* An answer moves requests of one worker to one of the two queues.        *)
LEMMA AnswerMoves ==
  ASSUME TypeOK, Placed, NEW w \in Worker, NEW R \in SUBSET Held(w),
         inFlight' \in [Worker -> Seq(Request)],
         \A v \in Worker \ {w} : inFlight'[v] = inFlight[v],
         IsInjective(inFlight'[w]), Held(w)' = Held(w) \ R,
         \/ /\ IsInjective(completed') /\ Range(completed') = Range(completed) \cup R
            /\ failed' = failed
         \/ /\ IsInjective(failed') /\ Range(failed') = Range(failed) \cup R
            /\ completed' = completed,
         UNCHANGED <<issued, returned>>
  PROVE  Placed'
<1>1. \A v \in Worker \ {w} : Held(v)' = Held(v)
  BY DEF Held
<1>2. /\ \A v \in Worker : IsInjective(inFlight'[v])
      /\ IsInjective(completed') /\ IsInjective(failed')
  BY DEF Placed
<1>3. Answered' = Answered \cup R
  BY DEF Answered
<1>4. R \subseteq (1..issued) \ Answered
  BY DEF Placed
<1>5. /\ \A u, v \in Worker : u # v => Held(u)' \cap Held(v)' = {}
      /\ \A v \in Worker : Held(v)' \subseteq (1..issued) \ Answered'
  <2>1. \A v \in Worker : Held(v)' \subseteq Held(v)
    BY <1>1
  <2>2. \A v \in Worker : Held(v)' \cap R = {}
    BY <1>1 DEF Placed
  <2> QED BY <1>3, <2>1, <2>2 DEF Placed
<1>6. /\ Answered' \subseteq 1..issued
      /\ Range(completed') \cap Range(failed') = {}
      /\ Range(completed') \cap returned = {}
      /\ Range(failed') \cap returned = {}
  BY <1>3, <1>4 DEF Placed, Answered
<1>7. \A r \in 1..issued : r \in Answered' \/ \E v \in Worker : r \in Held(v)'
  BY <1>1, <1>3 DEF Placed
<1> QED BY <1>2, <1>5, <1>6, <1>7 DEF Placed

\* Every step moves a request to one place only.
LEMMA PlacedStep ==
  ASSUME TypeOK, Placed, [Next]_vars
  PROVE  Placed'
<1> USE PoolAssumption DEF PoolAssumption
<1>0. /\ issued \in 0..MaxRequests /\ inFlight \in [Worker -> Seq(Request)]
      /\ completed \in Seq(Request) /\ failed \in Seq(Request)
      /\ returned \in SUBSET Request
  BY DEF TypeOK
<1>1. /\ \A w \in Worker : IsInjective(inFlight[w]) /\ inFlight[w] \in Seq(Request)
      /\ IsInjective(completed) /\ IsInjective(failed)
  BY <1>0 DEF Placed
<1>2. TypeOK'
  BY TypeStep
<1>3. \A r : NewRequest(r) => /\ r \in Request /\ issued' = r
                              /\ 1..issued' = (1..issued) \cup {r}
                              /\ r \notin 1..issued
                              /\ r \notin Answered
                              /\ \A w \in Worker : r \notin Held(w)
  BY <1>0 DEF NewRequest, Request, Placed
<1>4. IsInjective(<<>>) /\ Range(<<>>) = {} /\ <<>> \in Seq(Request)
  BY DEF IsInjective, Range
<1>5. \A w \in NextAccepting(nextWorker) : w \in Worker
  BY DEF NextAccepting
<1>6. ASSUME NEW r \in Request, RequestPosted(r) PROVE Placed'
  <2>1. PICK w \in Worker : Assign(w, r)
    BY <1>5, <1>6 DEF RequestPosted
  <2>2. /\ \A v \in Worker \ {w} : inFlight'[v] = inFlight[v] /\ Held(v)' = Held(v)
        /\ inFlight'[w] = Append(inFlight[w], r)
    BY <1>0, <2>1 DEF Assign, Held
  <2>3. /\ NewRequest(r) /\ UNCHANGED <<completed, failed, returned>>
    BY <1>6 DEF RequestPosted, answerVars
  <2>4. IsInjective(inFlight'[w]) /\ Held(w)' = Held(w) \cup {r}
    BY <1>1, <1>3, <2>2, <2>3, Appended DEF Held
  <2>5. Answered' = Answered
    BY <2>3 DEF Answered
  <2>6. \A v \in Worker : IsInjective(inFlight'[v])
    BY <1>1, <2>2, <2>4
  <2>7. \A u, v \in Worker : u # v => Held(u)' \cap Held(v)' = {}
    BY <1>3, <2>2, <2>3, <2>4 DEF Placed
  <2>8. \A v \in Worker : Held(v)' \subseteq (1..issued') \ Answered'
    BY <1>3, <2>2, <2>3, <2>4, <2>5 DEF Placed
  <2>9. \A q \in 1..issued' : q \in Answered' \/ \E v \in Worker : q \in Held(v)'
    BY <1>3, <2>2, <2>3, <2>4, <2>5 DEF Placed
  <2> QED BY <1>3, <2>3, <2>5, <2>6, <2>7, <2>8, <2>9 DEF Placed
<1>7. ASSUME NEW r \in Request, RequestRefused(r) PROVE Placed'
  <2>1. PICK w \in Worker : /\ Disable(w)
                            /\ failed' = failed \o Append(inFlight[w], r)
    BY <1>5, <1>7 DEF RequestRefused
  <2>2. /\ \A v \in Worker \ {w} : inFlight'[v] = inFlight[v] /\ Held(v)' = Held(v)
        /\ inFlight'[w] = <<>> /\ Held(w)' = {}
    BY <1>0, <1>4, <2>1 DEF Disable, Held
  <2>3. /\ NewRequest(r) /\ UNCHANGED <<completed, returned>>
    BY <1>7 DEF RequestRefused
  <2> DEFINE rest == Append(inFlight[w], r)
  <2>4. rest \in Seq(Request) /\ Range(rest) = Held(w) \cup {r} /\ IsInjective(rest)
    BY <1>1, <1>3, <2>3, Appended DEF Held
  <2> HIDE DEF rest
  <2>5. Range(failed) \cap Range(rest) = {}
    BY <1>3, <2>3, <2>4 DEF Placed, Answered
  <2>6. IsInjective(failed') /\ Range(failed') = Range(failed) \cup Held(w) \cup {r}
    <3>1. failed' = failed \o rest
      BY <2>1 DEF rest
    <3> QED BY <1>0, <1>1, <2>4, <2>5, <3>1, Joined
  <2>7. Answered' = Answered \cup Held(w) \cup {r}
    BY <2>3, <2>6 DEF Answered
  <2>8. \A v \in Worker : IsInjective(inFlight'[v])
    BY <1>1, <1>4, <2>2
  <2>9. \A u, v \in Worker : u # v => Held(u)' \cap Held(v)' = {}
    BY <2>2 DEF Placed
  <2>10. \A v \in Worker : Held(v)' \subseteq (1..issued') \ Answered'
    BY <1>3, <2>2, <2>3, <2>7 DEF Placed
  <2>11. \A q \in 1..issued' : q \in Answered' \/ \E v \in Worker : q \in Held(v)'
    BY <1>3, <2>2, <2>3, <2>7 DEF Placed
  <2>12. /\ Answered' \subseteq 1..issued'
         /\ Range(completed') \cap Range(failed') = {}
         /\ Range(failed') \cap returned' = {}
    BY <1>3, <2>3, <2>6, <2>7 DEF Placed, Answered
  <2> QED BY <2>3, <2>6, <2>8, <2>9, <2>10, <2>11, <2>12 DEF Placed
<1>8. ASSUME NEW r \in Request, RequestFallback(r) PROVE Placed'
  <2>1. NewRequest(r) /\ UNCHANGED <<inFlight, failed, returned>>
        /\ completed' = Append(completed, r)
    BY <1>8 DEF RequestFallback, ledgerVars
  <2>2. r \notin Range(completed) /\ r \notin Range(failed) \cup returned
    BY <1>3, <2>1 DEF Answered
  <2>3. IsInjective(completed') /\ Range(completed') = Range(completed) \cup {r}
    BY <1>0, <1>1, <2>1, <2>2, Appended
  <2>4. Answered' = Answered \cup {r} /\ \A w \in Worker : Held(w)' = Held(w)
    BY <2>1, <2>3 DEF Answered, Held
  <2>5. \A w \in Worker : Held(w)' \subseteq (1..issued') \ Answered'
    BY <1>3, <2>1, <2>4 DEF Placed
  <2>6. \A q \in 1..issued' : q \in Answered' \/ \E v \in Worker : q \in Held(v)'
    BY <1>3, <2>1, <2>4 DEF Placed
  <2>7. Answered' \subseteq 1..issued'
    BY <1>3, <2>1, <2>4 DEF Placed
  <2>8. /\ Range(failed') = Range(failed) /\ returned' = returned
        /\ IsInjective(failed') /\ \A w \in Worker : IsInjective(inFlight'[w])
    BY <1>1, <2>1
  <2>9. Range(completed') \cap Range(failed') = {}
    BY <2>2, <2>3, <2>8 DEF Placed
  <2>10. Range(completed') \cap returned' = {} /\ Range(failed') \cap returned' = {}
    BY <2>2, <2>3, <2>8 DEF Placed
  <2>11. \A u, v \in Worker : u # v => Held(u)' \cap Held(v)' = {}
    BY <2>4 DEF Placed
  <2> QED BY <2>3, <2>5, <2>6, <2>7, <2>8, <2>9, <2>10, <2>11 DEF Placed
<1>9. ASSUME Poll PROVE Placed'
  <2>1. /\ UNCHANGED <<inFlight, issued>>
        /\ completed' = <<>> /\ failed' = <<>>
        /\ returned' = returned \cup Range(completed) \cup Range(failed)
    BY <1>9 DEF Poll, ledgerVars
  <2>2. Answered' = Answered /\ \A w \in Worker : Held(w)' = Held(w)
    BY <1>4, <2>1 DEF Answered, Held
  <2> QED BY <1>4, <2>1, <2>2 DEF Placed
<1>10. ASSUME NEW w \in Worker, OnDone(w) \/ OnFailed(w) PROVE Placed'
  <2>1. PICK reply \in Reply :
           /\ reply.kind \in {"done", "failed"} /\ Deliver(w, reply)
           /\ \/ /\ TakeExact(w, reply.of)
                 /\ \/ completed' = Append(completed, reply.of) /\ failed' = failed
                    \/ failed' = Append(failed, reply.of) /\ completed' = completed
              \/ UNCHANGED <<ledgerVars, completed, failed>>
    BY <1>10 DEF OnDone, OnFailed
  <2>2. UNCHANGED <<issued, returned>> /\ reply.of \in Request
    BY <2>1 DEF Deliver, Reply
  <2>3. CASE UNCHANGED <<ledgerVars, completed, failed>>
    BY <2>2, <2>3 DEF Placed, Held, Answered, ledgerVars
  <2>4. CASE /\ TakeExact(w, reply.of)
             /\ \/ completed' = Append(completed, reply.of) /\ failed' = failed
                \/ failed' = Append(failed, reply.of) /\ completed' = completed
    <3>1. PICK i \in DOMAIN inFlight[w] :
             /\ inFlight[w][i] = reply.of
             /\ inFlight' = [inFlight EXCEPT ![w] = RemoveAt(@, i)]
      BY <2>4 DEF TakeExact
    <3>2. /\ \A v \in Worker \ {w} : inFlight'[v] = inFlight[v]
          /\ inFlight'[w] = RemoveAt(inFlight[w], i)
      BY <1>0, <3>1
    <3>3. IsInjective(inFlight'[w]) /\ Held(w)' = Held(w) \ {reply.of}
      BY <1>1, <3>1, <3>2, Removed DEF Held
    <3>4. {reply.of} \in SUBSET Held(w)
      BY <3>1 DEF Held, Range
    <3>5. reply.of \notin Range(completed) /\ reply.of \notin Range(failed)
      BY <3>4 DEF Placed, Answered
    <3>6. \/ /\ IsInjective(completed')
             /\ Range(completed') = Range(completed) \cup {reply.of}
             /\ failed' = failed
          \/ /\ IsInjective(failed')
             /\ Range(failed') = Range(failed) \cup {reply.of}
             /\ completed' = completed
      <4>1. /\ IsInjective(Append(completed, reply.of))
            /\ Range(Append(completed, reply.of)) = Range(completed) \cup {reply.of}
        BY <1>0, <1>1, <2>2, <3>5, Appended
      <4>2. /\ IsInjective(Append(failed, reply.of))
            /\ Range(Append(failed, reply.of)) = Range(failed) \cup {reply.of}
        BY <1>0, <1>1, <2>2, <3>5, Appended
      <4> QED BY <2>4, <4>1, <4>2
    <3>7. inFlight' \in [Worker -> Seq(Request)]
      BY <1>2 DEF TypeOK
    <3> QED BY <2>2, <3>2, <3>3, <3>4, <3>6, <3>7, AnswerMoves
  <2> QED BY <2>1, <2>3, <2>4
<1>11. ASSUME NEW w \in Worker, OnMalformed(w) PROVE Placed'
  <2>1. UNCHANGED <<issued, returned, completed>>
    BY <1>11 DEF OnMalformed, Deliver
  <2>2. CASE inFlight[w] = <<>>
    <3>1. UNCHANGED <<inFlight, failed>>
      BY <1>11, <2>2 DEF OnMalformed
    <3> QED BY <2>1, <3>1 DEF Placed, Held, Answered
  <2>3. CASE inFlight[w] # <<>>
    <3>1. /\ inFlight' = [inFlight EXCEPT ![w] = Tail(@)]
          /\ failed' = Append(failed, Head(inFlight[w]))
      BY <1>11, <2>3 DEF OnMalformed
    <3>2. /\ \A v \in Worker \ {w} : inFlight'[v] = inFlight[v]
          /\ inFlight'[w] = Tail(inFlight[w])
      BY <1>0, <3>1
    <3> DEFINE r == Head(inFlight[w])
    <3>3. /\ IsInjective(inFlight'[w]) /\ Held(w)' = Held(w) \ {r}
          /\ r \in Request /\ {r} \in SUBSET Held(w)
      BY <1>1, <2>3, <3>2, Headed DEF Held
    <3> HIDE DEF r
    <3>4. r \notin Range(failed)
      BY <3>3 DEF Placed, Answered
    <3>5. IsInjective(failed') /\ Range(failed') = Range(failed) \cup {r}
      <4>1. failed' = Append(failed, r)
        BY <3>1 DEF r
      <4> QED BY <1>0, <1>1, <3>3, <3>4, <4>1, Appended
    <3>6. inFlight' \in [Worker -> Seq(Request)]
      BY <1>2 DEF TypeOK
    <3> QED BY <2>1, <3>2, <3>3, <3>5, <3>6, AnswerMoves
  <2> QED BY <2>2, <2>3
<1>12. ASSUME NEW w \in Worker, OnFatal(w) \/ OnError(w) PROVE Placed'
  <2>1. UNCHANGED <<issued, returned, completed>> /\ GiveUp(w)
    BY <1>12 DEF OnFatal, OnError, Deliver, GiveUp
  <2>2. /\ \A v \in Worker \ {w} : inFlight'[v] = inFlight[v]
        /\ inFlight'[w] = <<>> /\ failed' = failed \o inFlight[w]
    BY <1>0, <2>1 DEF GiveUp, Disable
  <2>3. /\ IsInjective(inFlight'[w]) /\ Held(w)' = Held(w) \ Held(w)
        /\ Held(w) \in SUBSET Held(w)
    BY <1>4, <2>2 DEF Held
  <2>4. Range(failed) \cap Held(w) = {}
    BY DEF Placed, Answered
  <2>5. IsInjective(failed') /\ Range(failed') = Range(failed) \cup Held(w)
    BY <1>0, <1>1, <2>2, <2>4, Joined DEF Held
  <2>6. inFlight' \in [Worker -> Seq(Request)]
    BY <1>2 DEF TypeOK
  <2> QED BY <2>1, <2>2, <2>3, <2>5, <2>6, AnswerMoves
<1>13. ASSUME \/ \E w \in Worker : Works(w) \/ WorkerErrors(w)
              \/ UNCHANGED vars
       PROVE  Placed'
  <2>1. UNCHANGED <<issued, inFlight, completed, failed, returned>>
    BY <1>13 DEF Works, WorkerInitialises, WorkerGenerates, WorkerReportsFailure,
                 WorkerInitFails, WorkerGarbles, WorkerLosesReport, Process,
                 WorkerErrors, vars, ledgerVars, answerVars
  <2> QED BY <2>1 DEF Placed, Held, Answered
<1> QED BY <1>6, <1>7, <1>8, <1>9, <1>10, <1>11, <1>12, <1>13 DEF Next, Handlers

-----------------------------------------------------------------------------
(* The promise of ChunkSource.                                             *)

(* What one worker gives up is no longer in flight anywhere.               *)
LEMMA LeavesFlight ==
  ASSUME Placed, NEW w \in Worker, NEW R \in SUBSET Held(w),
         \A v \in Worker \ {w} : inFlight'[v] = inFlight[v],
         Held(w)' = Held(w) \ R
  PROVE  /\ R \in SUBSET InFlight
         /\ InFlight' = InFlight \ R
<1>1. \A v \in Worker \ {w} : Held(v)' = Held(v) /\ Held(v) \cap R = {}
  BY DEF Held, Placed
<1>2. /\ InFlight = UNION {Held(v) : v \in Worker}
      /\ InFlight' = UNION {Held(v)' : v \in Worker}
  BY DEF InFlight, Held
<1> QED BY <1>1, <1>2

(* A new request is in flight with the worker it is assigned to.           *)
LEMMA EntersFlight ==
  ASSUME NEW w \in Worker, NEW r,
         \A v \in Worker \ {w} : inFlight'[v] = inFlight[v],
         Held(w)' = Held(w) \cup {r}
  PROVE  InFlight' = InFlight \cup {r}
<1>1. \A v \in Worker \ {w} : Held(v)' = Held(v)
  BY DEF Held
<1>2. /\ InFlight = UNION {Held(v) : v \in Worker}
      /\ InFlight' = UNION {Held(v)' : v \in Worker}
  BY DEF InFlight, Held
<1> QED BY <1>1, <1>2

(* Answers of the pool are answers of the source.                          *)
LEMMA AnswersRefine ==
  ASSUME TypeOK, Placed, NEW w \in Worker,
         OnDone(w) \/ OnFailed(w) \/ OnMalformed(w) \/ OnFatal(w) \/ OnError(w)
  PROVE  [Promise!Next]_(Promise!sourceVars)
<1>0. /\ inFlight \in [Worker -> Seq(Request)]
      /\ completed \in Seq(Request) /\ failed \in Seq(Request)
  BY DEF TypeOK
<1>1. inFlight[w] \in Seq(Request) /\ IsInjective(inFlight[w])
  BY <1>0 DEF Placed
<1>2. \A r \in Held(w) : r \in Request
  BY <1>1, RangeOfSeq DEF Held, Range
<1>3. ASSUME UNCHANGED <<inFlight, completed, failed>>
      PROVE  [Promise!Next]_(Promise!sourceVars)
  BY <1>3 DEF Promise!sourceVars, InFlight
<1>4. ASSUME NEW r \in Held(w), completed' = Append(completed, r), failed' = failed,
             InFlight' = InFlight \ {r}, r \in InFlight
      PROVE  [Promise!Next]_(Promise!sourceVars)
  <2>1. Promise!Answer(r)
    BY <1>4 DEF Promise!Answer, Promise!Complete
  <2> QED BY <1>2, <2>1 DEF Promise!Next
<1>5. ASSUME NEW R \in SUBSET Held(w), R # {}, completed' = completed,
             Range(failed') = Range(failed) \cup R,
             R \in SUBSET InFlight, InFlight' = InFlight \ R
      PROVE  [Promise!Next]_(Promise!sourceVars)
  <2>1. PICK r \in R : r \in Request
    BY <1>2, <1>5
  <2>2. Promise!Fail(R)
    BY <1>5 DEF Promise!Fail
  <2>3. Promise!Answer(r)
    BY <1>5, <2>1, <2>2 DEF Promise!Answer
  <2> QED BY <2>1, <2>3 DEF Promise!Next
<1>6. CASE OnDone(w) \/ OnFailed(w)
  <2>1. PICK reply \in Reply :
           /\ reply.kind \in {"done", "failed"} /\ Deliver(w, reply)
           /\ \/ /\ TakeExact(w, reply.of)
                 /\ \/ completed' = Append(completed, reply.of) /\ failed' = failed
                    \/ failed' = Append(failed, reply.of) /\ completed' = completed
              \/ UNCHANGED <<ledgerVars, completed, failed>>
    BY <1>6 DEF OnDone, OnFailed
  <2>2. CASE UNCHANGED <<ledgerVars, completed, failed>>
    BY <1>3, <2>2 DEF ledgerVars
  <2>3. CASE /\ TakeExact(w, reply.of)
             /\ \/ completed' = Append(completed, reply.of) /\ failed' = failed
                \/ failed' = Append(failed, reply.of) /\ completed' = completed
    <3>1. PICK i \in DOMAIN inFlight[w] :
             /\ inFlight[w][i] = reply.of
             /\ inFlight' = [inFlight EXCEPT ![w] = RemoveAt(@, i)]
      BY <2>3 DEF TakeExact
    <3>2. /\ \A v \in Worker \ {w} : inFlight'[v] = inFlight[v]
          /\ inFlight'[w] = RemoveAt(inFlight[w], i)
      BY <1>0, <3>1
    <3>3. Held(w)' = Held(w) \ {reply.of}
      BY <1>1, <3>1, <3>2, Removed DEF Held
    <3>4. {reply.of} \in SUBSET Held(w)
      BY <3>1 DEF Held, Range
    <3>5. reply.of \in InFlight /\ InFlight' = InFlight \ {reply.of}
      BY <3>2, <3>3, <3>4, LeavesFlight, ZenonT(60)
    <3>6. CASE completed' = Append(completed, reply.of) /\ failed' = failed
      BY <1>4, <3>4, <3>5, <3>6
    <3>7. CASE failed' = Append(failed, reply.of) /\ completed' = completed
      <4>1. Range(failed') = Range(failed) \cup {reply.of}
        BY <1>0, <1>2, <3>4, <3>7, Appended
      <4> QED BY <1>5, <3>4, <3>5, <3>7, <4>1
    <3> QED BY <2>3, <3>6, <3>7
  <2> QED BY <2>1, <2>2, <2>3
<1>7. CASE OnMalformed(w)
  <2>1. UNCHANGED completed
    BY <1>7 DEF OnMalformed
  <2>2. CASE inFlight[w] = <<>>
    <3>1. UNCHANGED <<inFlight, failed>>
      BY <1>7, <2>2 DEF OnMalformed
    <3> QED BY <1>3, <2>1, <3>1
  <2>3. CASE inFlight[w] # <<>>
    <3> DEFINE r == Head(inFlight[w])
    <3>1. /\ inFlight' = [inFlight EXCEPT ![w] = Tail(@)]
          /\ failed' = Append(failed, r)
      BY <1>7, <2>3 DEF OnMalformed
    <3>2. /\ \A v \in Worker \ {w} : inFlight'[v] = inFlight[v]
          /\ inFlight'[w] = Tail(inFlight[w])
      BY <1>0, <3>1
    <3>3. Held(w)' = Held(w) \ {r} /\ r \in Request /\ {r} \in SUBSET Held(w)
      BY <1>1, <2>3, <3>2, Headed DEF Held
    <3> HIDE DEF r
    <3>4. Range(failed') = Range(failed) \cup {r}
      BY <1>0, <3>1, <3>3, Appended
    <3>5. {r} \in SUBSET InFlight /\ InFlight' = InFlight \ {r}
      BY <3>2, <3>3, LeavesFlight
    <3> QED BY <1>5, <2>1, <3>3, <3>4, <3>5
  <2> QED BY <2>2, <2>3
<1>8. CASE OnFatal(w) \/ OnError(w)
  <2>1. UNCHANGED completed /\ GiveUp(w)
    BY <1>8 DEF OnFatal, OnError, GiveUp
  <2>2. /\ \A v \in Worker \ {w} : inFlight'[v] = inFlight[v]
        /\ inFlight'[w] = <<>> /\ failed' = failed \o inFlight[w]
    BY <1>0, <2>1 DEF GiveUp, Disable
  <2>3. Held(w)' = Held(w) \ Held(w) /\ Held(w) \in SUBSET Held(w)
    BY <2>2 DEF Held, Range
  <2>4. Range(failed') = Range(failed) \cup Held(w)
    BY <1>0, <1>1, <2>2, Joined DEF Held
  <2>5. Held(w) \in SUBSET InFlight /\ InFlight' = InFlight \ Held(w)
    BY <2>2, <2>3, LeavesFlight
  <2>6. CASE Held(w) = {}
    BY <2>1, <2>4, <2>5, <2>6 DEF Promise!sourceVars
  <2>7. CASE Held(w) # {}
    BY <1>5, <2>1, <2>3, <2>4, <2>5, <2>7
  <2> QED BY <2>6, <2>7
<1> QED BY <1>6, <1>7, <1>8

\* Every step is one of the chunk source, or none.
LEMMA PromiseStep ==
  ASSUME TypeOK, Placed, [Next]_vars
  PROVE  [Promise!Next]_(Promise!sourceVars)
<1>0. /\ issued \in 0..MaxRequests /\ inFlight \in [Worker -> Seq(Request)]
      /\ completed \in Seq(Request) /\ failed \in Seq(Request)
      /\ MaxRequests \in Nat
  BY PoolAssumption DEF PoolAssumption, TypeOK
<1>1. \A w \in NextAccepting(nextWorker) : w \in Worker
  BY DEF NextAccepting
<1>2. \A r : NewRequest(r) => /\ r \notin Promise!Unanswered
                              /\ \A w \in Worker : r \notin Held(w)
  <2>1. \A r : NewRequest(r) => r \notin 1..issued
    BY <1>0 DEF NewRequest
  <2>2. InFlight \cup Answered \subseteq 1..issued
    BY DEF Placed, InFlight, Held
  <2>3. \A w \in Worker : Held(w) \subseteq 1..issued
    BY DEF Placed
  <2> QED BY <2>1, <2>2, <2>3 DEF Promise!Unanswered, Promise!Range, Answered, Range
<1>3. ASSUME NEW r \in Request, RequestPosted(r)
      PROVE  [Promise!Next]_(Promise!sourceVars)
  <2>1. PICK w \in Worker : Assign(w, r)
    BY <1>1, <1>3 DEF RequestPosted
  <2>2. /\ \A v \in Worker \ {w} : inFlight'[v] = inFlight[v]
        /\ inFlight'[w] = Append(inFlight[w], r) /\ inFlight[w] \in Seq(Request)
    BY <1>0, <2>1 DEF Assign
  <2>3. NewRequest(r) /\ UNCHANGED <<completed, failed>>
    BY <1>3 DEF RequestPosted, answerVars
  <2>4. InFlight' = InFlight \cup {r}
    <3>1. Held(w)' = Held(w) \cup {r}
      BY <2>2, Appended DEF Held
    <3> QED BY <2>2, <3>1, EntersFlight
  <2>5. Promise!Submit(r)
    BY <1>2, <2>3, <2>4 DEF Promise!Submit, Promise!Accept
  <2> QED BY <2>5 DEF Promise!Next
<1>4. ASSUME NEW r \in Request, RequestRefused(r)
      PROVE  [Promise!Next]_(Promise!sourceVars)
  <2>1. PICK w \in Worker : /\ Disable(w)
                            /\ failed' = failed \o Append(inFlight[w], r)
    BY <1>1, <1>4 DEF RequestRefused
  <2>2. /\ \A v \in Worker \ {w} : inFlight'[v] = inFlight[v]
        /\ inFlight'[w] = <<>> /\ inFlight[w] \in Seq(Request)
    BY <1>0, <2>1 DEF Disable
  <2>3. NewRequest(r) /\ UNCHANGED completed
    BY <1>4 DEF RequestRefused
  <2>4. Range(failed') = Range(failed) \cup Held(w) \cup {r}
    <3> DEFINE rest == Append(inFlight[w], r)
    <3>1. rest \in Seq(Request) /\ Range(rest) = Held(w) \cup {r}
      BY <2>2, Appended DEF Held
    <3> HIDE DEF rest
    <3>2. failed' = failed \o rest
      BY <2>1 DEF rest
    <3> QED BY <1>0, <3>1, <3>2, Joined
  <2>5. Held(w) \in SUBSET InFlight /\ InFlight' = InFlight \ Held(w)
    <3>1. Held(w)' = Held(w) \ Held(w) /\ Held(w) \in SUBSET Held(w)
      BY <2>2 DEF Held, Range
    <3> QED BY <2>2, <3>1, LeavesFlight
  <2>6. Promise!Refuse(r, Held(w))
    BY <2>3, <2>4, <2>5 DEF Promise!Refuse
  <2>7. Promise!Submit(r)
    BY <1>2, <2>3, <2>5, <2>6 DEF Promise!Submit
  <2> QED BY <2>7 DEF Promise!Next
<1>5. ASSUME NEW r \in Request, RequestFallback(r)
      PROVE  [Promise!Next]_(Promise!sourceVars)
  <2>1. /\ NewRequest(r) /\ UNCHANGED <<inFlight, failed>>
        /\ completed' = Append(completed, r)
    BY <1>5 DEF RequestFallback, ledgerVars
  <2>2. Promise!Submit(r)
    BY <1>2, <2>1 DEF Promise!Submit, Promise!AnswerNow, InFlight
  <2> QED BY <2>2 DEF Promise!Next
<1>6. ASSUME Poll PROVE [Promise!Next]_(Promise!sourceVars)
  <2>1. UNCHANGED inFlight /\ completed' = <<>> /\ failed' = <<>>
    BY <1>6 DEF Poll, ledgerVars
  <2>2. Range(failed') = {} /\ InFlight' = InFlight
    BY <2>1 DEF Range, InFlight
  <2>3. Promise!Poll
    BY <2>1, <2>2 DEF Promise!Poll
  <2> QED BY <2>3 DEF Promise!Next
<1>7. ASSUME NEW w \in Worker, Handlers(w) PROVE [Promise!Next]_(Promise!sourceVars)
  BY <1>7, AnswersRefine DEF Handlers
<1>8. ASSUME \/ \E w \in Worker : Works(w) \/ WorkerErrors(w)
             \/ UNCHANGED vars
      PROVE  [Promise!Next]_(Promise!sourceVars)
  <2>1. UNCHANGED <<inFlight, completed, failed>>
    BY <1>8 DEF Works, WorkerInitialises, WorkerGenerates, WorkerReportsFailure,
                WorkerInitFails, WorkerGarbles, WorkerLosesReport, Process,
                WorkerErrors, vars, ledgerVars, answerVars
  <2> QED BY <2>1 DEF Promise!sourceVars, InFlight
<1> QED BY <1>3, <1>4, <1>5, <1>6, <1>7, <1>8 DEF Next

-----------------------------------------------------------------------------
Inductive == TypeOK /\ Placed

\* At first nothing is in flight.
LEMMA InductiveInit ==
  Init => Inductive
<1> SUFFICES ASSUME Init PROVE Inductive
  OBVIOUS
<1>1. TypeOK
  <2>1. 0 \in Worker /\ 0 \in 0..MaxRequests
    BY PoolAssumption DEF PoolAssumption, Worker
  <2>2. <<InitMessage>> \in Seq(Message)
    BY DEF Message
  <2>3. <<>> \in Seq(Request) /\ <<>> \in Seq(Reply)
    OBVIOUS
  <2> QED BY <2>1, <2>2, <2>3 DEF Init, TypeOK
<1>2. IsInjective(<<>>) /\ Range(<<>>) = {}
  BY DEF IsInjective, Range
<1>3. Placed
  BY <1>2 DEF Init, Placed, Held, Answered
<1> QED BY <1>1, <1>3 DEF Inductive

\* Every step keeps types and places.
LEMMA InductiveStep ==
  Inductive /\ [Next]_vars => Inductive'
<1> QED BY TypeStep, PlacedStep DEF Inductive

(* Every variable keeps its type, for any pool.                            *)
THEOREM PoolTyping == Spec => []TypeOK
<1>1. Inductive => TypeOK
  BY DEF Inductive
<1> QED BY <1>1, InductiveInit, InductiveStep, PTL DEF Spec

(* Every request made is in exactly one place, whatever workers do.        *)
THEOREM RequestsHaveOneAnswer == Spec => []ExactlyOneAnswer
<1>1. Inductive => ExactlyOneAnswer
  BY PlacedMeans DEF Inductive
<1> QED BY <1>1, InductiveInit, InductiveStep, PTL DEF Spec

(* The pool implements the source the engine is built on.                  *)
THEOREM PoolKeepsPromise == Spec => KeepsPromise
<1>1. Init => Promise!Init
  BY DEF Init, Promise!Init, InFlight, Range
<1>2. Inductive /\ [Next]_vars => [Promise!Next]_(Promise!sourceVars)
  BY PromiseStep DEF Inductive
<1> QED BY <1>1, <1>2, InductiveInit, InductiveStep, PTL DEF Spec, KeepsPromise

-----------------------------------------------------------------------------
(* Blame.                                                                  *)

(* What a worker still has to say is about the requests in its replies     *)
(* under way, then about those in its inbox; the first may be the init     *)
(* message or the report that it failed.                                   *)
Subject(o, b, k) == IF k <= Len(o) THEN o[k].of ELSE b[k - Len(o)]
Said(o, b) == Len(o) + Len(b)
Prelude(o, b) == IF Said(o, b) > 0 /\ Subject(o, b, 1) = InitMessage THEN 1 ELSE 0

(* It is about the requests in flight from the oldest on, and about all of *)
(* them as long as the worker runs.                                        *)
InOrder(o, b, f, runs) ==
  LET n == Said(o, b) - Prelude(o, b)
  IN  /\ n <= Len(f)
      /\ runs => n = Len(f)
      /\ \A k \in 1..n : Subject(o, b, k + Prelude(o, b)) = f[k]

\* How much a worker still has to say.
LEMMA Sizes ==
  ASSUME NEW o \in Seq(Reply), NEW b \in Seq(Message)
  PROVE  /\ Len(o) \in Nat /\ Len(b) \in Nat /\ Said(o, b) \in Nat
         /\ Prelude(o, b) \in {0, 1} /\ Prelude(o, b) <= Said(o, b)
         /\ \A k \in 1..Len(o) : o[k] \in Reply
         /\ \A k \in 1..Len(b) : b[k] \in Message
<1>1. Len(o) \in Nat /\ Len(b) \in Nat
  BY LenProperties
<1> QED BY <1>1, ElementOfSeq DEF Said, Prelude

\* A request is not the message a worker is set up with.
LEMMA RequestIsNoInit ==
  \A r \in Request : r # InitMessage
<1> QED BY PoolAssumption DEF PoolAssumption, Request, InitMessage

(* A reply about a request is about the oldest one.                        *)
LEMMA Delivered ==
  ASSUME NEW o \in Seq(Reply), NEW b \in Seq(Message), NEW f \in Seq(Request),
         NEW runs \in BOOLEAN, o # <<>>, Head(o).of # InitMessage,
         InOrder(o, b, f, runs)
  PROVE  /\ f # <<>> /\ f[1] = Head(o).of
         /\ InOrder(Tail(o), b, Tail(f), runs)
<1>1. /\ Len(o) \in Nat \ {0} /\ Head(o) = o[1]
      /\ Tail(o) \in Seq(Reply) /\ Len(Tail(o)) = Len(o) - 1
      /\ \A k \in 1..(Len(o) - 1) : Tail(o)[k] = o[k + 1]
  BY Headed
<1>2. Len(b) \in Nat /\ Len(f) \in Nat
  BY LenProperties
<1>3. Prelude(o, b) = 0 /\ Subject(o, b, 1) = Head(o).of
  BY <1>1, <1>2 DEF Prelude, Subject
<1>4. /\ Said(o, b) <= Len(f) /\ Said(o, b) >= 1
      /\ runs => Said(o, b) = Len(f)
      /\ \A k \in 1..Said(o, b) : Subject(o, b, k) = f[k]
  <2>1. Said(o, b) - 0 = Said(o, b) /\ Said(o, b) >= 1
    BY <1>1, <1>2 DEF Said
  <2>2. \A k \in 1..Said(o, b) : k + 0 = k
    BY <1>1, <1>2 DEF Said
  <2> QED BY <1>3, <2>1, <2>2 DEF InOrder
<1>5. f # <<>> /\ f[1] = Head(o).of
  <2>1. 1 \in 1..Said(o, b)
    BY <1>1, <1>2, <1>4 DEF Said
  <2>2. Len(f) >= 1
    BY <1>1, <1>2, <1>4 DEF Said
  <2> QED BY <1>3, <1>4, <2>1, <2>2
<1>6. /\ Len(Tail(f)) = Len(f) - 1
      /\ \A k \in 1..(Len(f) - 1) : Tail(f)[k] = f[k + 1] /\ f[k + 1] \in Request
  <2>1. \A k \in 1..(Len(f) - 1) : k + 1 \in 1..Len(f)
    BY <1>2
  <2> QED BY <1>5, <2>1, Headed, ElementOfSeq
<1>7. /\ Said(Tail(o), b) = Said(o, b) - 1
      /\ \A k \in 1..(Said(o, b) - 1) : Subject(Tail(o), b, k) = Subject(o, b, k + 1)
  <2>1. Said(Tail(o), b) = Said(o, b) - 1
    BY <1>1, <1>2 DEF Said
  <2>2. ASSUME NEW k \in 1..(Said(o, b) - 1)
        PROVE  Subject(Tail(o), b, k) = Subject(o, b, k + 1)
    <3>1. CASE k <= Len(o) - 1
      <4>1. k \in 1..(Len(o) - 1) /\ k + 1 <= Len(o)
        BY <1>1, <1>2, <3>1 DEF Said
      <4> QED BY <1>1, <3>1, <4>1 DEF Subject
    <3>2. CASE ~(k <= Len(o) - 1)
      <4>1. k - (Len(o) - 1) = (k + 1) - Len(o) /\ ~(k + 1 <= Len(o))
        BY <1>1, <1>2, <3>2 DEF Said
      <4> QED BY <1>1, <3>2, <4>1 DEF Subject
    <3> QED BY <3>1, <3>2
  <2> QED BY <2>1, <2>2
<1>8. \A k \in 1..(Said(o, b) - 1) :
         Subject(Tail(o), b, k) = Tail(f)[k] /\ Subject(Tail(o), b, k) # InitMessage
  <2> TAKE k \in 1..(Said(o, b) - 1)
  <2>1. k + 1 \in 1..Said(o, b) /\ k \in 1..(Len(f) - 1)
    BY <1>1, <1>2, <1>4 DEF Said
  <2> QED BY <1>4, <1>6, <1>7, <2>1, RequestIsNoInit
<1>9. Prelude(Tail(o), b) = 0
  <2>1. CASE Said(o, b) = 1
    BY <1>7, <2>1 DEF Prelude
  <2>2. CASE Said(o, b) # 1
    <3>1. 1 \in 1..(Said(o, b) - 1)
      BY <1>1, <1>2, <2>2 DEF Said
    <3> QED BY <1>8, <3>1 DEF Prelude
  <2> QED BY <2>1, <2>2
<1>10. InOrder(Tail(o), b, Tail(f), runs)
  <2> DEFINE n == Said(Tail(o), b) - Prelude(Tail(o), b)
  <2>1. n = Said(o, b) - 1 /\ \A k \in 1..n : k + 0 = k
    BY <1>1, <1>2, <1>7, <1>9 DEF Said
  <2> QED BY <1>1, <1>2, <1>4, <1>6, <1>8, <1>9, <2>1 DEF InOrder, Said
<1> QED BY <1>5, <1>10

(* A worker that answers the message at the head of its inbox keeps order; *)
(* so does one that is done with its initialisation.                       *)
LEMMA Processed ==
  ASSUME NEW o \in Seq(Reply), NEW b \in Seq(Message), NEW f \in Seq(Request),
         NEW runs \in BOOLEAN, b # <<>>, InOrder(o, b, f, runs)
  PROVE  /\ \A reply \in Reply :
              reply.of = Head(b) => InOrder(Append(o, reply), Tail(b), f, runs)
         /\ Head(b) = InitMessage => InOrder(o, Tail(b), f, runs)
<1>1. /\ Len(b) \in Nat \ {0} /\ Head(b) = b[1]
      /\ Tail(b) \in Seq(Message) /\ Len(Tail(b)) = Len(b) - 1
      /\ \A k \in 1..(Len(b) - 1) : Tail(b)[k] = b[k + 1]
  BY Headed
<1>2. Len(o) \in Nat /\ Len(f) \in Nat
  BY LenProperties
<1>3. ASSUME NEW reply \in Reply, reply.of = Head(b)
      PROVE  InOrder(Append(o, reply), Tail(b), f, runs)
  <2> DEFINE p == Append(o, reply)
  <2>1. /\ p \in Seq(Reply) /\ Len(p) = Len(o) + 1
        /\ \A k \in 1..Len(o) : p[k] = o[k]
        /\ p[Len(o) + 1] = reply
    BY AppendProperties
  <2> HIDE DEF p
  <2>2. Said(p, Tail(b)) = Said(o, b)
    BY <1>1, <1>2, <2>1 DEF Said
  <2>3. \A k \in 1..Said(o, b) : Subject(p, Tail(b), k) = Subject(o, b, k)
    <3> TAKE k \in 1..Said(o, b)
    <3>1. CASE k <= Len(o)
      BY <1>1, <1>2, <2>1, <3>1 DEF Subject, Said
    <3>2. CASE k = Len(o) + 1
      BY <1>1, <1>2, <1>3, <2>1, <3>2 DEF Subject, Said
    <3>3. CASE k > Len(o) + 1
      <4>1. /\ k - (Len(o) + 1) \in 1..(Len(b) - 1)
            /\ (k - (Len(o) + 1)) + 1 = k - Len(o)
        BY <1>1, <1>2, <3>3 DEF Said
      <4> QED BY <1>1, <1>2, <2>1, <3>3, <4>1 DEF Subject
    <3> QED BY <1>1, <1>2, <3>1, <3>2, <3>3 DEF Said
  <2>4. Prelude(p, Tail(b)) = Prelude(o, b)
    <3>1. Said(o, b) > 0 => 1 \in 1..Said(o, b)
      BY <1>1, <1>2 DEF Said
    <3> QED BY <2>2, <2>3, <3>1 DEF Prelude
  <2>5. \A k \in 1..(Said(o, b) - Prelude(o, b)) : k + Prelude(o, b) \in 1..Said(o, b)
    BY Sizes
  <2> QED BY <2>2, <2>3, <2>4, <2>5 DEF InOrder, p
<1>4. ASSUME Head(b) = InitMessage PROVE InOrder(o, Tail(b), f, runs)
  <2>1. Said(o, b) \in Nat /\ Len(o) + 1 \in 1..Said(o, b)
        /\ Subject(o, b, Len(o) + 1) = InitMessage
    BY <1>1, <1>2, <1>4 DEF Said, Subject
  <2>2. Prelude(o, b) \in {0, 1} /\ Said(o, b) - Prelude(o, b) <= Len(f)
    BY Sizes DEF InOrder
  <2>3. \A k \in 1..Said(o, b) : k > Prelude(o, b) =>
           Subject(o, b, k) = f[k - Prelude(o, b)] /\ Subject(o, b, k) # InitMessage
    <3> SUFFICES ASSUME NEW k \in 1..Said(o, b), k > Prelude(o, b)
                 PROVE  /\ Subject(o, b, k) = f[k - Prelude(o, b)]
                        /\ Subject(o, b, k) # InitMessage
      OBVIOUS
    <3> DEFINE j == k - Prelude(o, b)
    <3>1. /\ j \in 1..(Said(o, b) - Prelude(o, b)) /\ j \in 1..Len(f)
          /\ j + Prelude(o, b) = k
      BY <1>2, <2>1, <2>2
    <3>2. Subject(o, b, j + Prelude(o, b)) = f[j]
      BY <3>1 DEF InOrder
    <3> QED BY <3>1, <3>2, RequestIsNoInit, ElementOfSeq
  <2>4. Len(o) = 0 /\ Prelude(o, b) = 1
    BY <1>2, <2>1, <2>2, <2>3
  <2>5. /\ Said(o, Tail(b)) = Said(o, b) - 1
        /\ \A k \in 1..(Said(o, b) - 1) : Subject(o, Tail(b), k) = Subject(o, b, k + 1)
    BY <1>1, <2>4 DEF Said, Subject
  <2>6. \A k \in 1..(Said(o, b) - 1) :
           Subject(o, Tail(b), k) = f[k] /\ Subject(o, Tail(b), k) # InitMessage
    <3> TAKE k \in 1..(Said(o, b) - 1)
    <3>1. k + 1 \in 1..Said(o, b) /\ k + 1 > 1 /\ (k + 1) - 1 = k
      BY <2>1
    <3> QED BY <2>3, <2>4, <2>5, <3>1
  <2>7. Prelude(o, Tail(b)) = 0
    <3>1. Said(o, b) - 1 > 0 => 1 \in 1..(Said(o, b) - 1)
      BY <2>1
    <3> QED BY <2>5, <2>6, <3>1 DEF Prelude
  <2>8. /\ (Said(o, b) - 1) - 0 = Said(o, b) - 1
        /\ \A k \in 1..(Said(o, b) - 1) : k + 0 = k
    BY <2>1
  <2>9. runs => Said(o, b) - 1 = Len(f)
    BY <2>4 DEF InOrder
  <2> QED BY <2>2, <2>4, <2>5, <2>6, <2>7, <2>8, <2>9 DEF InOrder
<1> QED BY <1>3, <1>4

(* The last thing said is about the end of the inbox.                      *)
LEMMA LastSubject ==
  ASSUME NEW o, NEW c, Len(o) \in Nat, Len(c) \in Nat, Len(c) > 0
  PROVE  Subject(o, c, Len(o) + Len(c)) = c[Len(c)]
<1>1. ~(Len(o) + Len(c) <= Len(o))
  OBVIOUS
<1>2. Len(o) + Len(c) - Len(o) = Len(c)
  OBVIOUS
<1>3. ASSUME NEW k, ~(k <= Len(o)) PROVE Subject(o, c, k) = c[k - Len(o)]
  BY <1>3 DEF Subject
<1>4. Subject(o, c, Len(o) + Len(c)) = c[Len(o) + Len(c) - Len(o)]
  BY <1>1, <1>3
<1> QED BY <1>2, <1>4

(* A request joins the inbox of a worker that runs and its queue in flight, *)
(* or only the queue of a worker that died.                                *)
LEMMA Posted ==
  ASSUME NEW o \in Seq(Reply), NEW b \in Seq(Message), NEW f \in Seq(Request),
         NEW r \in Request
  PROVE  /\ InOrder(o, b, f, TRUE) => InOrder(o, Append(b, r), Append(f, r), TRUE)
         /\ InOrder(o, b, f, FALSE) => InOrder(o, b, Append(f, r), FALSE)
<1>1. Len(o) \in Nat /\ Len(b) \in Nat /\ Len(f) \in Nat
  BY LenProperties
<1>2. /\ Len(Append(f, r)) = Len(f) + 1 /\ Append(f, r)[Len(f) + 1] = r
      /\ \A k \in 1..Len(f) : Append(f, r)[k] = f[k]
  BY AppendProperties
<1>3. ASSUME InOrder(o, b, f, FALSE) PROVE InOrder(o, b, Append(f, r), FALSE)
  <2>1. /\ Said(o, b) - Prelude(o, b) <= Len(f)
        /\ Said(o, b) - Prelude(o, b) \in Int
    BY <1>3, Sizes DEF InOrder
  <2>2. \A k \in 1..(Said(o, b) - Prelude(o, b)) : k \in 1..Len(f)
    BY <1>1, <2>1
  <2>3. Said(o, b) - Prelude(o, b) <= Len(f) + 1
    BY <1>1, <2>1
  <2> QED BY <1>2, <1>3, <2>2, <2>3 DEF InOrder
<1>4. ASSUME InOrder(o, b, f, TRUE)
      PROVE  InOrder(o, Append(b, r), Append(f, r), TRUE)
  <2> DEFINE c == Append(b, r)
             n == Said(o, b) - Prelude(o, b)
  <2>1. /\ Len(c) = Len(b) + 1 /\ c[Len(b) + 1] = r
        /\ \A k \in 1..Len(b) : c[k] = b[k]
    BY AppendProperties, <1>1 DEF Message
  <2> HIDE DEF c
  <2>2. /\ Said(o, b) \in Nat /\ Prelude(o, b) \in {0, 1}
        /\ Prelude(o, b) <= Said(o, b) /\ Said(o, c) = Said(o, b) + 1
    BY <1>1, <2>1, Sizes DEF Said
  <2>3. /\ \A k \in 1..Said(o, b) : Subject(o, c, k) = Subject(o, b, k)
        /\ Subject(o, c, Said(o, b) + 1) = r
    <3>1. ASSUME NEW k \in 1..Said(o, b) PROVE Subject(o, c, k) = Subject(o, b, k)
      <4>1. CASE k <= Len(o)
        BY <4>1 DEF Subject
      <4>2. CASE ~(k <= Len(o))
        <5>1. k - Len(o) \in 1..Len(b)
          BY <1>1, <4>2 DEF Said
        <5> QED BY <2>1, <4>2, <5>1 DEF Subject
      <4> QED BY <4>1, <4>2
    <3>2. ~(Said(o, b) + 1 <= Len(o)) /\ Said(o, b) + 1 - Len(o) = Len(b) + 1
      BY <1>1 DEF Said
    <3>3. Subject(o, c, Said(o, b) + 1) = r
      <4>1. Said(o, b) + 1 = Len(o) + Len(c)
        BY <1>1, <2>1 DEF Said
      <4>2. Len(c) \in Nat /\ Len(c) > 0 /\ Len(o) \in Nat
        BY <1>1, <2>1
      <4>3. Subject(o, c, Len(o) + Len(c)) = c[Len(c)]
        BY ONLY <4>2, LastSubject, Zenon
      <4>4. c[Len(c)] = r
        BY <2>1
      <4> QED BY <4>1, <4>3, <4>4, Zenon
    <3> QED BY <3>1, <3>3
  <2>4. Prelude(o, c) = Prelude(o, b)
    <3>1. CASE Said(o, b) = 0
      BY <2>2, <2>3, <3>1, RequestIsNoInit DEF Prelude
    <3>2. CASE Said(o, b) > 0
      <4>1. 1 \in 1..Said(o, b)
        BY <2>2, <3>2
      <4> QED BY <2>2, <2>3, <3>2, <4>1 DEF Prelude
    <3> QED BY <2>2, <3>1, <3>2
  <2>5. /\ n = Len(f) /\ Said(o, c) - Prelude(o, c) = Len(f) + 1
        /\ \A k \in 1..n : Subject(o, b, k + Prelude(o, b)) = f[k]
    <3>1. n = Len(f) /\ \A k \in 1..n : Subject(o, b, k + Prelude(o, b)) = f[k]
      BY <1>4 DEF InOrder
    <3> QED BY <1>1, <2>2, <2>4, <3>1
  <2>6. ASSUME NEW k \in 1..(Len(f) + 1)
        PROVE  Subject(o, c, k + Prelude(o, c)) = Append(f, r)[k]
    <3>1. CASE k \in 1..Len(f)
      <4>1. k \in 1..n /\ k + Prelude(o, b) \in 1..Said(o, b)
        BY <1>1, <2>2, <2>5, <3>1
      <4> QED BY <1>2, <2>3, <2>4, <2>5, <3>1, <4>1
    <3>2. CASE k = Len(f) + 1
      <4>1. k + Prelude(o, b) = Said(o, b) + 1
        BY <1>1, <2>2, <2>5, <3>2
      <4> QED BY <1>2, <2>3, <2>4, <3>2, <4>1
    <3> QED BY <1>1, <3>1, <3>2
  <2>7. Len(f) + 1 <= Len(f) + 1
    BY <1>1
  <2> QED BY <1>2, <2>5, <2>6, <2>7 DEF InOrder, c
<1> QED BY <1>3, <1>4

(* A worker that dies leaves its inbox unread.                             *)
LEMMA Died ==
  ASSUME NEW o \in Seq(Reply), NEW b \in Seq(Message), NEW f \in Seq(Request),
         NEW runs \in BOOLEAN, InOrder(o, b, f, runs)
  PROVE  InOrder(o, <<>>, f, FALSE)
<1>1. Len(o) \in Nat /\ Len(b) \in Nat /\ Len(f) \in Nat /\ Len(<<>>) = 0
  BY LenProperties
<1>2. CASE Len(o) = 0
  <2>1. Said(o, <<>>) = 0 /\ Prelude(o, <<>>) = 0
    BY <1>1, <1>2 DEF Said, Prelude
  <2> QED BY <1>1, <2>1 DEF InOrder
<1>3. CASE Len(o) > 0
  <2>1. /\ Said(o, <<>>) = Len(o) /\ Said(o, b) = Len(o) + Len(b)
        /\ Prelude(o, <<>>) = Prelude(o, b) /\ Prelude(o, b) \in {0, 1}
        /\ \A k \in 1..Len(o) : Subject(o, <<>>, k) = Subject(o, b, k)
    BY <1>1, <1>3 DEF Said, Prelude, Subject
  <2>2. \A k \in 1..(Len(o) - Prelude(o, b)) :
           k + Prelude(o, b) \in 1..Len(o) /\ k \in 1..(Said(o, b) - Prelude(o, b))
    BY <1>1, <2>1
  <2>3. Len(o) - Prelude(o, b) <= Len(f)
    <3>1. Said(o, b) - Prelude(o, b) <= Len(f)
      BY DEF InOrder
    <3> QED BY <1>1, <2>1, <3>1
  <2> QED BY <2>1, <2>2, <2>3 DEF InOrder
<1>4. Len(o) = 0 \/ Len(o) > 0
  BY <1>1
<1> QED BY <1>2, <1>3, <1>4

(* As long as no report is lost, the queue of every worker that was not    *)
(* given up is in the order of what the worker still has to say.           *)
Ordered ==
  /\ \A w \in Worker : ~accepting[w] => inFlight[w] = <<>>
  /\ lostReports = 0 =>
       \A w \in Worker : accepting[w] =>
         InOrder(outbox[w], inbox[w], inFlight[w], running[w])

(* A step of one worker's part of the pool.                                *)
LEMMA OneWorkerStep ==
  ASSUME TypeOK, TypeOK', Ordered, NEW w \in Worker,
         \A v \in Worker \ {w} :
            /\ accepting'[v] = accepting[v] /\ inFlight'[v] = inFlight[v]
            /\ outbox'[v] = outbox[v] /\ inbox'[v] = inbox[v]
            /\ running'[v] = running[v],
         lostReports' = 0 => lostReports = 0,
         ~accepting'[w] => inFlight'[w] = <<>>,
         lostReports' = 0 /\ accepting'[w] =>
           InOrder(outbox'[w], inbox'[w], inFlight'[w], running'[w])
  PROVE  Ordered'
<1>1. \A v \in Worker : ~accepting'[v] => inFlight'[v] = <<>>
  BY DEF Ordered
<1>2. ASSUME lostReports' = 0, NEW v \in Worker, accepting'[v]
      PROVE  InOrder(outbox'[v], inbox'[v], inFlight'[v], running'[v])
  <2>1. CASE v = w
    BY <1>2, <2>1
  <2>2. CASE v # w
    BY <1>2, <2>2 DEF Ordered
  <2> QED BY <2>1, <2>2
<1> QED BY <1>1, <1>2 DEF Ordered

(* What the handlers and the worker leave of the other workers.            *)
LEMMA OnlyOneWorker ==
  ASSUME TypeOK, NEW w \in Worker,
         Handlers(w) \/ Works(w) \/ WorkerErrors(w)
  PROVE  \A v \in Worker \ {w} :
            /\ accepting'[v] = accepting[v] /\ inFlight'[v] = inFlight[v]
            /\ outbox'[v] = outbox[v] /\ inbox'[v] = inbox[v]
            /\ running'[v] = running[v]
<1>0. /\ accepting \in [Worker -> BOOLEAN] /\ inFlight \in [Worker -> Seq(Request)]
      /\ inbox \in [Worker -> Seq(Message)] /\ outbox \in [Worker -> Seq(Reply)]
      /\ running \in [Worker -> BOOLEAN]
  BY DEF TypeOK
<1> SUFFICES ASSUME NEW v \in Worker, v # w
             PROVE  /\ accepting'[v] = accepting[v] /\ inFlight'[v] = inFlight[v]
                    /\ outbox'[v] = outbox[v] /\ inbox'[v] = inbox[v]
                    /\ running'[v] = running[v]
  OBVIOUS
<1>1. CASE OnDone(w) \/ OnFailed(w)
  <2>1. /\ \/ \E r : TakeExact(w, r)
           \/ UNCHANGED ledgerVars
        /\ Consume(w) /\ WorkerUndisturbed
    BY <1>1 DEF OnDone, OnFailed
  <2>2. accepting' = accepting /\ inFlight'[v] = inFlight[v]
    BY <1>0, <2>1 DEF TakeExact, ledgerVars
  <2> QED BY <1>0, <2>1, <2>2 DEF Consume, WorkerUndisturbed
<1>2. CASE OnMalformed(w)
  <2>1. inFlight'[v] = inFlight[v] /\ accepting' = accepting
    BY <1>0, <1>2 DEF OnMalformed
  <2> QED BY <1>0, <1>2, <2>1 DEF OnMalformed, Consume, WorkerUndisturbed
<1>3. CASE OnFatal(w) \/ OnError(w)
  <2>1. GiveUp(w) /\ \E late : outbox' = [outbox EXCEPT ![w] = late]
    BY <1>3 DEF OnFatal, OnError
  <2> QED BY <1>0, <2>1 DEF GiveUp, Disable, Terminate
<1>4. CASE Works(w)
  <2>1. PICK message : Process(w, message)
    BY <1>4 DEF Works, WorkerInitialises, WorkerGenerates, WorkerReportsFailure,
                WorkerInitFails, WorkerGarbles, WorkerLosesReport
  <2>2. \/ outbox' = outbox
        \/ \E kind, r : Post(w, kind, r)
    BY <1>4 DEF Works, WorkerInitialises, WorkerGenerates, WorkerReportsFailure,
                WorkerInitFails, WorkerGarbles, WorkerLosesReport
  <2>3. outbox'[v] = outbox[v]
    BY <1>0, <2>2 DEF Post
  <2> QED BY <1>0, <2>1, <2>3 DEF Process, ledgerVars
<1>5. CASE WorkerErrors(w)
  BY <1>0, <1>5 DEF WorkerErrors, ledgerVars
<1> QED BY <1>1, <1>2, <1>3, <1>4, <1>5 DEF Handlers

(* The oldest request in flight is the only one the head of the queue of   *)
(* replies can retire.                                                     *)
LEMMA TakesTheOldest ==
  ASSUME TypeOK, Placed, NEW w \in Worker, NEW r, inFlight[w] # <<>>,
         inFlight[w][1] = r
  PROVE  /\ Owns(w, r)
         /\ TakeExact(w, r) => inFlight'[w] = Tail(inFlight[w])
<1> DEFINE s == inFlight[w]
<1>1. s \in Seq(Request) /\ inFlight \in [Worker -> Seq(Request)]
  BY DEF TypeOK
<1>2. Len(s) \in Nat \ {0} /\ DOMAIN s = 1..Len(s)
  BY <1>1, Headed
<1>3. Owns(w, r)
  BY <1>2 DEF Owns, Range
<1>4. ASSUME TakeExact(w, r) PROVE inFlight'[w] = Tail(inFlight[w])
  <2>1. PICK i \in DOMAIN s :
           /\ s[i] = r /\ \A j \in 1..(i - 1) : s[j] # r
           /\ inFlight' = [inFlight EXCEPT ![w] = RemoveAt(@, i)]
    BY <1>4 DEF TakeExact
  <2>2. i = 1
    <3>1. i \in 1..Len(s) /\ (i > 1 => 1 \in 1..(i - 1))
      BY <1>2
    <3> QED BY <1>2, <2>1, <3>1
  <2>3. RemoveAt(s, 1) = Tail(s)
    <3> HIDE DEF s
    <3>1. RemoveAt(s, 1) = SubSeq(s, 1, 0) \o SubSeq(s, 2, Len(s))
      <4>1. 1 - 1 = 0 /\ 1 + 1 = 2
        OBVIOUS
      <4> QED BY <4>1 DEF RemoveAt
    <3>2. SubSeq(s, 1, 0) = <<>>
      BY <1>1, SubSeqEmpty
    <3>3. SubSeq(s, 2, Len(s)) = Tail(s)
      BY <1>1, <1>2, TailIsSubSeq
    <3>4. Tail(s) \in Seq(Request)
      BY <1>1, <1>2, Headed
    <3> QED BY <3>1, <3>2, <3>3, <3>4, ConcatEmptySeq
  <2> QED BY <1>1, <2>1, <2>2, <2>3
<1> QED BY <1>3, <1>4

(* What a worker says when it is done with a message.                      *)
LEMMA Says ==
  ASSUME NEW w \in Worker, NEW message, Process(w, message), Works(w)
  PROVE  \/ \E reply \in Reply : /\ reply.of = message
                                 /\ outbox' = [outbox EXCEPT ![w] = Append(@, reply)]
                                 /\ lostReports' = lostReports
         \/ message = InitMessage /\ outbox' = outbox /\ lostReports' = lostReports
         \/ message \in Request /\ outbox' = outbox /\ lostReports' = lostReports + 1
<1>1. Fault => lostReports' = lostReports
  BY DEF Fault
<1>2. ASSUME NEW r \in Request, NEW kind \in {"done", "failed", "malformed"},
             Process(w, r), Post(w, kind, r)
      PROVE  \E reply \in Reply : /\ reply.of = message
                                  /\ outbox' = [outbox EXCEPT ![w] = Append(@, reply)]
  <2>1. [kind |-> kind, of |-> r] \in Reply /\ r = message
    BY <1>2 DEF Reply, Process
  <2> QED BY <1>2, <2>1 DEF Post
<1>3. ASSUME WorkerInitFails(w)
      PROVE  /\ lostReports' = lostReports
             /\ \E reply \in Reply : /\ reply.of = message
                                     /\ outbox' = [outbox EXCEPT ![w] = Append(@, reply)]
  <2>1. [kind |-> "fatal", of |-> InitMessage] \in Reply /\ message = InitMessage
    BY <1>3 DEF Reply, Process, WorkerInitFails
  <2> QED BY <1>1, <1>3, <2>1 DEF WorkerInitFails, Post
<1>4. ASSUME WorkerInitialises(w)
      PROVE  message = InitMessage /\ outbox' = outbox /\ lostReports' = lostReports
  BY <1>4 DEF WorkerInitialises, Process, boundVars
<1>5. ASSUME WorkerGenerates(w) \/ WorkerReportsFailure(w) \/ WorkerGarbles(w)
      PROVE  /\ lostReports' = lostReports
             /\ \E r \in Request, kind \in {"done", "failed", "malformed"} :
                   Process(w, r) /\ Post(w, kind, r)
  BY <1>1, <1>5 DEF WorkerGenerates, WorkerReportsFailure, WorkerGarbles, boundVars
<1>6. ASSUME WorkerLosesReport(w)
      PROVE  message \in Request /\ outbox' = outbox /\ lostReports' = lostReports + 1
  BY <1>6 DEF WorkerLosesReport, Process
<1> QED BY <1>2, <1>3, <1>4, <1>5, <1>6 DEF Works

\* Every step keeps what a worker has to say in the order of its requests.
LEMMA OrderedStep ==
  ASSUME TypeOK, Placed, Ordered, [Next]_vars
  PROVE  Ordered'
<1>0. /\ accepting \in [Worker -> BOOLEAN] /\ inFlight \in [Worker -> Seq(Request)]
      /\ inbox \in [Worker -> Seq(Message)] /\ outbox \in [Worker -> Seq(Reply)]
      /\ running \in [Worker -> BOOLEAN] /\ lostReports \in Nat
  BY DEF TypeOK
<1>1. TypeOK'
  BY TypeStep
<1>2. \A w \in NextAccepting(nextWorker) : w \in Worker /\ accepting[w]
  BY DEF NextAccepting
<1>3. Fault => lostReports' = lostReports
  BY DEF Fault
<1>4. ASSUME NEW r \in Request, RequestPosted(r) PROVE Ordered'
  <2>1. PICK w \in Worker :
           /\ accepting[w] /\ Assign(w, r)
           /\ inbox' = IF running[w] THEN [inbox EXCEPT ![w] = Append(@, r)] ELSE inbox
    BY <1>2, <1>4 DEF RequestPosted
  <2>2. UNCHANGED <<accepting, outbox, running, lostReports>>
    BY <1>4, <2>1 DEF RequestPosted, Assign, boundVars
  <2>3. inFlight'[w] = Append(inFlight[w], r)
        /\ \A v \in Worker \ {w} : inFlight'[v] = inFlight[v]
    BY <1>0, <2>1 DEF Assign
  <2>4. /\ inbox'[w] = IF running[w] THEN Append(inbox[w], r) ELSE inbox[w]
        /\ \A v \in Worker \ {w} : inbox'[v] = inbox[v]
    BY <1>0, <2>1
  <2>5. ASSUME lostReports' = 0
        PROVE  InOrder(outbox'[w], inbox'[w], inFlight'[w], running'[w])
    <3>1. /\ InOrder(outbox[w], inbox[w], inFlight[w], running[w])
          /\ outbox[w] \in Seq(Reply) /\ inbox[w] \in Seq(Message)
          /\ inFlight[w] \in Seq(Request)
      BY <1>0, <2>1, <2>2, <2>5 DEF Ordered
    <3>2. CASE running[w] = TRUE
      BY <2>2, <2>3, <2>4, <3>1, <3>2, Posted
    <3>3. CASE running[w] = FALSE
      BY <2>2, <2>3, <2>4, <3>1, <3>3, Posted
    <3> QED BY <1>0, <3>2, <3>3
  <2> QED BY <1>1, <2>1, <2>2, <2>3, <2>4, <2>5, OneWorkerStep
<1>5. ASSUME NEW r \in Request, RequestRefused(r) PROVE Ordered'
  <2>1. PICK w \in Worker :
           /\ Disable(w) /\ Terminate(w)
           /\ \E late : outbox' = [outbox EXCEPT ![w] = late]
    BY <1>2, <1>5 DEF RequestRefused
  <2>2. /\ accepting'[w] = FALSE /\ inFlight'[w] = <<>>
        /\ \A v \in Worker \ {w} :
              /\ accepting'[v] = accepting[v] /\ inFlight'[v] = inFlight[v]
              /\ outbox'[v] = outbox[v] /\ inbox'[v] = inbox[v]
              /\ running'[v] = running[v]
    BY <1>0, <2>1 DEF Disable, Terminate
  <2>3. lostReports' = lostReports
    BY <1>3, <1>5 DEF RequestRefused
  <2> QED BY <1>1, <2>2, <2>3, OneWorkerStep
<1>6. ASSUME \/ \E r \in Request : RequestFallback(r)
             \/ Poll \/ UNCHANGED vars
      PROVE  Ordered'
  <2>1. UNCHANGED <<accepting, inFlight, inbox, outbox, running, lostReports>>
    BY <1>6 DEF RequestFallback, Poll, vars, ledgerVars, workerVars, boundVars
  <2> QED BY <2>1 DEF Ordered
<1>7. ASSUME NEW w \in Worker, OnDone(w) \/ OnFailed(w) \/ OnMalformed(w)
      PROVE  Ordered'
  <2>1. PICK reply \in Reply :
           /\ reply.kind \in {"done", "failed", "malformed"} /\ Deliver(w, reply)
           /\ Consume(w) /\ WorkerUndisturbed /\ UNCHANGED accepting
           /\ \/ /\ reply.kind # "malformed"
                 /\ IF Owns(w, reply.of) THEN TakeExact(w, reply.of)
                    ELSE UNCHANGED inFlight
              \/ /\ reply.kind = "malformed"
                 /\ IF inFlight[w] # <<>>
                    THEN inFlight' = [inFlight EXCEPT ![w] = Tail(@)]
                    ELSE UNCHANGED inFlight
    BY <1>7 DEF OnDone, OnFailed, OnMalformed, TakeExact, ledgerVars
  <2>2. /\ reply.of # InitMessage
        /\ outbox[w] # <<>> /\ Head(outbox[w]) = reply
        /\ outbox'[w] = Tail(outbox[w])
        /\ inbox' = inbox /\ running' = running /\ accepting' = accepting
        /\ lostReports' = lostReports
    <3>1. reply.of \in Request
      BY <2>1 DEF Reply
    <3> QED BY <1>0, <2>1, <3>1, RequestIsNoInit
            DEF Deliver, Consume, WorkerUndisturbed, boundVars
  <2>3. ~accepting[w] => inFlight'[w] = <<>>
    <3>1. ~accepting[w] => inFlight[w] = <<>> /\ Range(inFlight[w]) = {}
      BY DEF Ordered, Range
    <3> QED BY <2>1, <3>1 DEF Owns
  <2>4. ASSUME lostReports' = 0, accepting'[w]
        PROVE  InOrder(outbox'[w], inbox'[w], inFlight'[w], running'[w])
    <3>1. /\ InOrder(outbox[w], inbox[w], inFlight[w], running[w])
          /\ outbox[w] \in Seq(Reply) /\ inbox[w] \in Seq(Message)
          /\ inFlight[w] \in Seq(Request) /\ running[w] \in BOOLEAN
      BY <1>0, <2>2, <2>4 DEF Ordered
    <3>2. /\ inFlight[w] # <<>> /\ inFlight[w][1] = reply.of
          /\ InOrder(Tail(outbox[w]), inbox[w], Tail(inFlight[w]), running[w])
      BY <2>2, <3>1, Delivered
    <3>3. inFlight'[w] = Tail(inFlight[w])
      <4>1. CASE reply.kind # "malformed"
        BY <2>1, <3>2, <4>1, TakesTheOldest
      <4>2. CASE reply.kind = "malformed"
        BY <1>0, <2>1, <3>2, <4>2
      <4> QED BY <4>1, <4>2
    <3> QED BY <2>2, <3>2, <3>3
  <2>5. Handlers(w)
    BY <1>7 DEF Handlers
  <2> QED BY <1>1, <2>2, <2>3, <2>4, <2>5, OnlyOneWorker, OneWorkerStep
<1>8. ASSUME NEW w \in Worker, OnFatal(w) \/ OnError(w) PROVE Ordered'
  <2>1. GiveUp(w) /\ UNCHANGED lostReports
    BY <1>8 DEF OnFatal, OnError, Deliver, boundVars
  <2>2. accepting'[w] = FALSE /\ inFlight'[w] = <<>>
    BY <1>0, <2>1 DEF GiveUp, Disable
  <2>3. Handlers(w)
    BY <1>8 DEF Handlers
  <2> QED BY <1>1, <2>1, <2>2, <2>3, OnlyOneWorker, OneWorkerStep
<1>9. ASSUME NEW w \in Worker, Works(w) PROVE Ordered'
  <2>1. PICK message \in Message : Process(w, message)
    BY <1>9 DEF Works, WorkerInitialises, WorkerGenerates, WorkerReportsFailure,
                WorkerInitFails, WorkerGarbles, WorkerLosesReport, Message
  <2>2. /\ inbox[w] # <<>> /\ message = Head(inbox[w]) /\ inbox'[w] = Tail(inbox[w])
        /\ inFlight' = inFlight /\ accepting' = accepting /\ running' = running
    BY <1>0, <2>1 DEF Process, ledgerVars
  <2>3. \/ \E reply \in Reply : /\ reply.of = message
                                /\ outbox' = [outbox EXCEPT ![w] = Append(@, reply)]
                                /\ lostReports' = lostReports
        \/ message = InitMessage /\ outbox' = outbox /\ lostReports' = lostReports
        \/ lostReports' = lostReports + 1
    BY <1>9, <2>1, Says
  <2>4. lostReports' = 0 => lostReports = 0 /\ lostReports' = lostReports
    BY <1>0, <2>3
  <2>5. ASSUME lostReports' = 0, accepting'[w]
        PROVE  InOrder(outbox'[w], inbox'[w], inFlight'[w], running'[w])
    <3>1. /\ InOrder(outbox[w], inbox[w], inFlight[w], running[w])
          /\ outbox[w] \in Seq(Reply) /\ inbox[w] \in Seq(Message)
          /\ inFlight[w] \in Seq(Request) /\ running[w] \in BOOLEAN
      BY <1>0, <2>2, <2>4, <2>5 DEF Ordered
    <3>2. lostReports' # lostReports + 1
      BY <1>0, <2>4, <2>5
    <3>3. CASE message = InitMessage /\ outbox' = outbox
      BY <2>2, <3>1, <3>3, Processed
    <3>4. CASE \E reply \in Reply : /\ reply.of = message
                                    /\ outbox' = [outbox EXCEPT ![w] = Append(@, reply)]
      <4>1. PICK reply \in Reply : /\ reply.of = message
                                   /\ outbox'[w] = Append(outbox[w], reply)
        BY <1>0, <3>4
      <4> QED BY <2>2, <3>1, <4>1, Processed
    <3> QED BY <2>3, <3>2, <3>3, <3>4
  <2>6. ~accepting'[w] => inFlight'[w] = <<>>
    BY <2>2 DEF Ordered
  <2> QED BY <1>1, <1>9, <2>4, <2>5, <2>6, OnlyOneWorker, OneWorkerStep
<1>10. ASSUME NEW w \in Worker, WorkerErrors(w) PROVE Ordered'
  <2>1. PICK dies \in BOOLEAN :
           /\ running'[w] = ~dies
           /\ inbox'[w] = IF dies THEN <<>> ELSE inbox[w]
    BY <1>0, <1>10 DEF WorkerErrors
  <2>2. /\ running[w] /\ inFlight' = inFlight /\ accepting' = accepting
        /\ outbox' = outbox /\ lostReports' = lostReports
    BY <1>3, <1>10 DEF WorkerErrors, ledgerVars
  <2>3. ASSUME lostReports' = 0, accepting'[w]
        PROVE  InOrder(outbox'[w], inbox'[w], inFlight'[w], running'[w])
    <3>1. /\ InOrder(outbox[w], inbox[w], inFlight[w], running[w])
          /\ outbox[w] \in Seq(Reply) /\ inbox[w] \in Seq(Message)
          /\ inFlight[w] \in Seq(Request) /\ running[w] = TRUE
      BY <1>0, <2>2, <2>3 DEF Ordered
    <3>2. CASE dies = TRUE
      BY <2>1, <2>2, <3>1, <3>2, Died
    <3>3. CASE dies = FALSE
      BY <2>1, <2>2, <3>1, <3>3
    <3> QED BY <3>2, <3>3
  <2>4. ~accepting'[w] => inFlight'[w] = <<>>
    BY <2>2 DEF Ordered
  <2> QED BY <1>1, <1>10, <2>2, <2>3, <2>4, OnlyOneWorker, OneWorkerStep
<1> QED BY <1>4, <1>5, <1>6, <1>7, <1>8, <1>9, <1>10 DEF Next, Handlers

\* At first no worker has anything to say.
LEMMA OrderedInit ==
  Init => Ordered
<1> SUFFICES ASSUME Init, NEW w \in Worker
             PROVE  InOrder(outbox[w], inbox[w], inFlight[w], running[w])
  BY DEF Init, Ordered
<1>1. outbox[w] = <<>> /\ inbox[w] = <<InitMessage>> /\ inFlight[w] = <<>>
  BY DEF Init
<1>2. Said(<<>>, <<InitMessage>>) = 1 /\ Prelude(<<>>, <<InitMessage>>) = 1
  BY DEF Said, Prelude, Subject
<1> QED BY <1>1, <1>2 DEF InOrder

(* With no report lost, a malformed reply is blamed on the request it was  *)
(* about, for any number of workers and faults.                            *)
THEOREM BlameIsRight == Spec => []MalformedBlamesItsRequest
<1>1. Inductive /\ Ordered => MalformedBlamesItsRequest
  <2> SUFFICES ASSUME TypeOK, Ordered, lostReports = 0, NEW w \in Worker,
                      outbox[w] # <<>>, Head(outbox[w]).kind = "malformed",
                      inFlight[w] # <<>>
               PROVE  Head(inFlight[w]) = Head(outbox[w]).of
    BY DEF Inductive, MalformedBlamesItsRequest
  <2>1. /\ outbox[w] \in Seq(Reply) /\ inbox[w] \in Seq(Message)
        /\ inFlight[w] \in Seq(Request) /\ running[w] \in BOOLEAN
        /\ accepting[w] \in BOOLEAN
    BY DEF TypeOK
  <2>2. Head(outbox[w]).of # InitMessage
    <3>1. Head(outbox[w]) \in Reply
      BY <2>1, Headed
    <3>2. Head(outbox[w]).of \in Request
      BY <3>1 DEF Reply
    <3> QED BY <3>2, RequestIsNoInit
  <2>3. InOrder(outbox[w], inbox[w], inFlight[w], running[w])
    BY <2>1 DEF Ordered
  <2>4. inFlight[w][1] = Head(outbox[w]).of
    BY <2>1, <2>2, <2>3, Delivered
  <2> QED BY <2>1, <2>4, Headed
<1>2. Inductive /\ Ordered /\ [Next]_vars => Ordered'
  BY OrderedStep DEF Inductive
<1> QED BY <1>1, <1>2, OrderedInit, InductiveInit, InductiveStep, PTL DEF Spec

-----------------------------------------------------------------------------
(* What lost reports strand.  Requests are numbered as they are issued, so *)
(* the order in which a worker is asked is the order of the numbers.       *)

Rising(s) == \A i, j \in DOMAIN s : i < j => s[i] < s[j]

(* The replies o, the inbox b and the requests in flight f of a worker are *)
(* in order of issue, up to request n, and the replies come first.         *)
AsIssued(n, o, b, f) ==
  /\ Rising(f) /\ Rising(b)
  /\ \A i, j \in DOMAIN o : i < j => o[i].of < o[j].of
  /\ \A i \in DOMAIN o, m \in Range(b) : o[i].of < m
  /\ \A m \in Range(f) \cup Range(b) : m <= n
  /\ \A i \in DOMAIN o : o[i].of <= n

(* Whatever is still to be answered is in flight.                          *)
Awaited(o, b, f) ==
  /\ \A m \in Range(b) : m \in Range(f) \cup {InitMessage}
  /\ \A i \in DOMAIN o : o[i].of \in Range(f) \cup {InitMessage}

\* What rises has nothing twice.
LEMMA RisingIsInjective ==
  ASSUME NEW s \in Seq(Message), Rising(s)
  PROVE  IsInjective(s)
<1>1. DOMAIN s = 1..Len(s) /\ Len(s) \in Nat /\ \A i \in DOMAIN s : s[i] \in Message
  BY LenProperties, ElementOfSeq
<1>2. Message \subseteq Nat
  BY PoolAssumption DEF PoolAssumption, Message, Request, InitMessage
<1> SUFFICES ASSUME NEW i \in 1..Len(s), NEW j \in 1..Len(s), s[i] = s[j]
             PROVE  i = j
  BY <1>1 DEF IsInjective
<1>3. (i < j => s[i] < s[j]) /\ (j < i => s[j] < s[i])
  BY <1>1 DEF Rising
<1>4. s[i] \in Nat
  BY <1>1, <1>2
<1> QED BY <1>1, <1>3, <1>4

(* Taking the head or another element keeps a queue rising.                *)
LEMMA RisingWithout ==
  ASSUME NEW s \in Seq(Message), Rising(s), s # <<>>
  PROVE  /\ Rising(Tail(s)) /\ Range(Tail(s)) = Range(s) \ {Head(s)}
         /\ \A m \in Range(Tail(s)) : Head(s) < m
         /\ \A i \in DOMAIN s : /\ Rising(RemoveAt(s, i))
                                /\ Range(RemoveAt(s, i)) = Range(s) \ {s[i]}
<1>1. IsInjective(s)
  BY RisingIsInjective
<1>2. /\ Len(s) \in Nat \ {0} /\ DOMAIN s = 1..Len(s) /\ Tail(s) \in Seq(Message)
      /\ Len(Tail(s)) = Len(s) - 1 /\ DOMAIN Tail(s) = 1..(Len(s) - 1)
      /\ \A k \in 1..(Len(s) - 1) : Tail(s)[k] = s[k + 1]
      /\ Range(Tail(s)) = Range(s) \ {Head(s)} /\ Head(s) = s[1]
  BY <1>1, Headed, LenProperties
<1>3. Rising(Tail(s))
  BY <1>2 DEF Rising
<1>4. \A m \in Range(Tail(s)) : Head(s) < m
  <2> SUFFICES ASSUME NEW k \in 1..(Len(s) - 1) PROVE s[1] < Tail(s)[k]
    BY <1>2 DEF Range
  <2>1. k + 1 \in 1..Len(s) /\ 1 < k + 1 /\ 1 \in 1..Len(s)
    BY <1>2
  <2> QED BY <1>2, <2>1 DEF Rising
<1>5. ASSUME NEW i \in DOMAIN s
      PROVE  Rising(RemoveAt(s, i)) /\ Range(RemoveAt(s, i)) = Range(s) \ {s[i]}
  <2>1. /\ DOMAIN RemoveAt(s, i) = 1..(Len(s) - 1)
        /\ \A k \in 1..(Len(s) - 1) : RemoveAt(s, i)[k] = IF k < i THEN s[k] ELSE s[k + 1]
        /\ Range(RemoveAt(s, i)) = Range(s) \ {s[i]}
    BY <1>1, Removed
  <2>2. Rising(RemoveAt(s, i))
    <3> SUFFICES ASSUME NEW j \in 1..(Len(s) - 1), NEW k \in 1..(Len(s) - 1), j < k
                 PROVE  RemoveAt(s, i)[j] < RemoveAt(s, i)[k]
      BY <2>1 DEF Rising
    <3>1. /\ j \in 1..Len(s) /\ k \in 1..Len(s) /\ j + 1 \in 1..Len(s) /\ k + 1 \in 1..Len(s)
          /\ j < k + 1 /\ j + 1 < k + 1 /\ i \in 1..Len(s)
      BY <1>2
    <3>2. s[j] < s[k] /\ s[j] < s[k + 1] /\ s[j + 1] < s[k + 1]
      BY <1>2, <3>1 DEF Rising
    <3>3. ~(k < i /\ ~(j < i))
      BY <1>2, <3>1
    <3> QED BY <2>1, <3>2, <3>3
  <2> QED BY <2>1, <2>2
<1> QED BY <1>2, <1>3, <1>4, <1>5

(* Appending the next request keeps a queue rising.                        *)
LEMMA RisingWith ==
  ASSUME NEW s \in Seq(Message), Rising(s), NEW m \in Message, \A k \in Range(s) : k < m
  PROVE  Rising(Append(s, m)) /\ Range(Append(s, m)) = Range(s) \cup {m}
<1>1. /\ DOMAIN Append(s, m) = 1..(Len(s) + 1) /\ DOMAIN s = 1..Len(s) /\ Len(s) \in Nat
      /\ \A i \in 1..Len(s) : Append(s, m)[i] = s[i]
      /\ Append(s, m)[Len(s) + 1] = m
  BY LenProperties, AppendProperties
<1>2. \A i \in 1..Len(s) : s[i] < m
  BY <1>1 DEF Range
<1>3. Rising(Append(s, m))
  <2> SUFFICES ASSUME NEW i \in 1..(Len(s) + 1), NEW j \in 1..(Len(s) + 1), i < j
               PROVE  Append(s, m)[i] < Append(s, m)[j]
    BY <1>1 DEF Rising
  <2>1. i \in 1..Len(s) /\ (j \in 1..Len(s) \/ j = Len(s) + 1)
    BY <1>1
  <2> QED BY <1>1, <1>2, <2>1 DEF Rising
<1> QED BY <1>3, Appended

-----------------------------------------------------------------------------
(* The steps of the pool, seen from the one worker they are about.         *)

Parts(w) == <<accepting[w], inFlight[w], inbox[w], outbox[w], running[w], errorDue[w]>>

(* A request is posted to the worker.                                      *)
Given(w) ==
  /\ accepting[w] /\ accepting'[w]
  /\ issued' = issued + 1 /\ issued' \in Request
  /\ inFlight'[w] = Append(inFlight[w], issued')
  /\ inbox'[w] = IF running[w] THEN Append(inbox[w], issued') ELSE inbox[w]
  /\ outbox'[w] = outbox[w] /\ running'[w] = running[w] /\ errorDue'[w] = errorDue[w]
  /\ lostReports' = lostReports

(* The worker is given up.                                                 *)
Dropped(w) ==
  /\ ~accepting'[w] /\ inFlight'[w] = <<>> /\ inbox'[w] = <<>>
  /\ \/ outbox'[w] \in {outbox[w], <<>>}
     \/ outbox[w] # <<>> /\ outbox'[w] = Tail(outbox[w])
  /\ issued' >= issued /\ lostReports' = lostReports

(* A reply is heard, and a request retired: the one it is about, if that   *)
(* is in flight, or, if it cannot be read, the oldest.                     *)
Heard(w) ==
  /\ outbox[w] # <<>> /\ outbox'[w] = Tail(outbox[w])
  /\ Head(outbox[w]).of \in Request
  /\ accepting'[w] = accepting[w] /\ inbox'[w] = inbox[w]
  /\ running'[w] = running[w] /\ errorDue'[w] = errorDue[w]
  /\ \/ Head(outbox[w]).of \notin Range(inFlight[w]) /\ inFlight'[w] = inFlight[w]
     \/ \E i \in DOMAIN inFlight[w] : /\ inFlight[w][i] = Head(outbox[w]).of
                                      /\ inFlight'[w] = RemoveAt(inFlight[w], i)
     \/ inFlight[w] # <<>> /\ inFlight'[w] = Tail(inFlight[w])
  /\ issued' = issued /\ lostReports' = lostReports

(* The worker is done with a message, and says so or, of a request, fails  *)
(* to.                                                                     *)
Worked(w) ==
  /\ running[w] /\ inbox[w] # <<>> /\ inbox'[w] = Tail(inbox[w])
  /\ accepting'[w] = accepting[w] /\ inFlight'[w] = inFlight[w]
  /\ running'[w] = running[w] /\ errorDue'[w] = errorDue[w]
  /\ \/ \E reply \in Reply : /\ reply.of = Head(inbox[w])
                             /\ outbox'[w] = Append(outbox[w], reply)
                             /\ lostReports' = lostReports
     \/ /\ Head(inbox[w]) = InitMessage /\ outbox'[w] = outbox[w]
        /\ lostReports' = lostReports
     \/ /\ Head(inbox[w]) \in Request /\ outbox'[w] = outbox[w]
        /\ lostReports' = lostReports + 1
  /\ issued' = issued

(* The worker raises an error event, and may have died of it.              *)
Erred(w) ==
  /\ accepting'[w] = accepting[w] /\ inFlight'[w] = inFlight[w]
  /\ outbox'[w] = outbox[w] /\ inbox'[w] \in {inbox[w], <<>>}
  /\ errorDue'[w]
  /\ issued' = issued /\ lostReports' = lostReports

\* The forms a step can have: what concerns no worker, or one of five that concern
\* one.
LEMMA PoolMoves ==
  ASSUME TypeOK, [Next]_vars
  PROVE  \/ /\ \A v \in Worker : Parts(v)' = Parts(v)
            /\ issued' >= issued /\ lostReports' = lostReports
         \/ \E w \in Worker :
               /\ \A v \in Worker \ {w} : Parts(v)' = Parts(v)
               /\ Given(w) \/ Dropped(w) \/ Heard(w) \/ Worked(w) \/ Erred(w)
<1> DEFINE Goal == \/ /\ \A v \in Worker : Parts(v)' = Parts(v)
                      /\ issued' >= issued /\ lostReports' = lostReports
                   \/ \E w \in Worker :
                         /\ \A v \in Worker \ {w} : Parts(v)' = Parts(v)
                         /\ Given(w) \/ Dropped(w) \/ Heard(w) \/ Worked(w) \/ Erred(w)
<1>0. /\ accepting \in [Worker -> BOOLEAN] /\ inFlight \in [Worker -> Seq(Request)]
      /\ inbox \in [Worker -> Seq(Message)] /\ outbox \in [Worker -> Seq(Reply)]
      /\ running \in [Worker -> BOOLEAN] /\ errorDue \in [Worker -> BOOLEAN]
      /\ issued \in Nat /\ lostReports \in Nat
  BY PoolAssumption DEF TypeOK, PoolAssumption
<1>2. \A w \in NextAccepting(nextWorker) : w \in Worker /\ accepting[w]
  BY DEF NextAccepting
<1>3. Fault => lostReports' = lostReports
  BY DEF Fault
<1>4. ASSUME NEW r \in Request, RequestPosted(r) PROVE Goal
  <2>1. PICK w \in Worker :
           /\ accepting[w] /\ Assign(w, r)
           /\ inbox' = IF running[w] THEN [inbox EXCEPT ![w] = Append(@, r)] ELSE inbox
    BY <1>2, <1>4 DEF RequestPosted
  <2>2. UNCHANGED <<accepting, outbox, running, errorDue, lostReports>>
        /\ issued' = issued + 1 /\ issued' = r
    BY <1>4, <2>1 DEF RequestPosted, Assign, boundVars, NewRequest
  <2>3. inFlight'[w] = Append(inFlight[w], r)
        /\ \A v \in Worker \ {w} : inFlight'[v] = inFlight[v]
    BY <1>0, <2>1 DEF Assign
  <2>4. /\ inbox'[w] = IF running[w] THEN Append(inbox[w], r) ELSE inbox[w]
        /\ \A v \in Worker \ {w} : inbox'[v] = inbox[v]
    BY <1>0, <2>1
  <2>5. Given(w)
    BY <2>1, <2>2, <2>3, <2>4 DEF Given
  <2> QED BY <2>2, <2>3, <2>4, <2>5 DEF Parts
<1>5. ASSUME NEW r \in Request, RequestRefused(r) PROVE Goal
  <2>1. PICK w \in Worker :
           /\ Disable(w) /\ Terminate(w)
           /\ \E late \in {outbox[w], <<>>} : outbox' = [outbox EXCEPT ![w] = late]
    BY <1>2, <1>5 DEF RequestRefused
  <2>2. /\ ~accepting'[w] /\ inFlight'[w] = <<>> /\ inbox'[w] = <<>>
        /\ outbox'[w] \in {outbox[w], <<>>}
        /\ \A v \in Worker \ {w} :
              /\ accepting'[v] = accepting[v] /\ inFlight'[v] = inFlight[v]
              /\ outbox'[v] = outbox[v] /\ inbox'[v] = inbox[v]
              /\ running'[v] = running[v] /\ errorDue'[v] = errorDue[v]
    BY <1>0, <2>1 DEF Disable, Terminate
  <2>3. lostReports' = lostReports /\ issued' = issued + 1
    BY <1>3, <1>5 DEF RequestRefused, NewRequest
  <2>4. Dropped(w)
    BY <1>0, <2>2, <2>3 DEF Dropped
  <2> QED BY <2>2, <2>4 DEF Parts
<1>6. ASSUME \/ \E r \in Request : RequestFallback(r)
             \/ Poll \/ UNCHANGED vars
      PROVE  Goal
  <2>1. /\ UNCHANGED <<accepting, inFlight, inbox, outbox, running, errorDue, lostReports>>
        /\ issued' = issued \/ issued' = issued + 1
    BY <1>6 DEF RequestFallback, Poll, vars, ledgerVars, workerVars, boundVars, NewRequest
  <2>2. \A v \in Worker : Parts(v)' = Parts(v)
    BY <2>1 DEF Parts
  <2> QED BY <1>0, <2>1, <2>2
<1>7. ASSUME NEW w \in Worker, OnDone(w) \/ OnFailed(w) \/ OnMalformed(w)
      PROVE  Goal
  <2>1. PICK reply \in Reply :
           /\ reply.kind \in {"done", "failed", "malformed"} /\ Deliver(w, reply)
           /\ Consume(w) /\ WorkerUndisturbed /\ UNCHANGED accepting
           /\ \/ IF Owns(w, reply.of) THEN TakeExact(w, reply.of) ELSE UNCHANGED inFlight
              \/ IF inFlight[w] # <<>>
                 THEN inFlight' = [inFlight EXCEPT ![w] = Tail(@)]
                 ELSE UNCHANGED inFlight
    BY <1>7 DEF OnDone, OnFailed, OnMalformed, TakeExact, ledgerVars
  <2>2. /\ reply.of \in Request
        /\ outbox[w] # <<>> /\ Head(outbox[w]) = reply
        /\ outbox'[w] = Tail(outbox[w]) /\ \A v \in Worker \ {w} : outbox'[v] = outbox[v]
        /\ UNCHANGED <<inbox, running, accepting, errorDue, lostReports, issued>>
    BY <1>0, <2>1 DEF Deliver, Consume, WorkerUndisturbed, boundVars, Reply
  <2>3. /\ \A v \in Worker \ {w} : inFlight'[v] = inFlight[v]
        /\ \/ reply.of \notin Range(inFlight[w]) /\ inFlight'[w] = inFlight[w]
           \/ \E i \in DOMAIN inFlight[w] : /\ inFlight[w][i] = reply.of
                                            /\ inFlight'[w] = RemoveAt(inFlight[w], i)
           \/ inFlight[w] # <<>> /\ inFlight'[w] = Tail(inFlight[w])
    <3>1. CASE Owns(w, reply.of) /\ TakeExact(w, reply.of)
      BY <1>0, <3>1 DEF TakeExact
    <3>2. CASE ~Owns(w, reply.of) /\ UNCHANGED inFlight
      BY <3>2 DEF Owns
    <3>3. CASE inFlight[w] # <<>> /\ inFlight' = [inFlight EXCEPT ![w] = Tail(@)]
      BY <1>0, <3>3
    <3>4. CASE inFlight[w] = <<>> /\ UNCHANGED inFlight
      <4>1. Range(inFlight[w]) = {}
        BY <3>4 DEF Range
      <4> QED BY <3>4, <4>1
    <3> QED BY <2>1, <3>1, <3>2, <3>3, <3>4
  <2>4. Heard(w)
    BY <2>2, <2>3 DEF Heard
  <2> QED BY <2>2, <2>3, <2>4 DEF Parts
<1>8. ASSUME NEW w \in Worker, OnFatal(w) \/ OnError(w) PROVE Goal
  <2>1. /\ Disable(w) /\ Terminate(w) /\ UNCHANGED <<lostReports, issued>>
        /\ \/ \E late \in {outbox[w], <<>>} : outbox' = [outbox EXCEPT ![w] = late]
           \/ /\ outbox[w] # <<>>
              /\ \E late \in {Tail(outbox[w]), <<>>} : outbox' = [outbox EXCEPT ![w] = late]
    BY <1>8 DEF OnFatal, OnError, Deliver, boundVars, GiveUp
  <2>2. /\ ~accepting'[w] /\ inFlight'[w] = <<>> /\ inbox'[w] = <<>>
        /\ \A v \in Worker \ {w} :
              /\ accepting'[v] = accepting[v] /\ inFlight'[v] = inFlight[v]
              /\ outbox'[v] = outbox[v] /\ inbox'[v] = inbox[v]
              /\ running'[v] = running[v] /\ errorDue'[v] = errorDue[v]
    BY <1>0, <2>1 DEF Disable, Terminate
  <2>3. \/ outbox'[w] \in {outbox[w], <<>>}
        \/ outbox[w] # <<>> /\ outbox'[w] = Tail(outbox[w])
    BY <1>0, <2>1
  <2>4. Dropped(w)
    BY <1>0, <2>1, <2>2, <2>3 DEF Dropped
  <2> QED BY <2>2, <2>4 DEF Parts
<1>9. ASSUME NEW w \in Worker, Works(w) PROVE Goal
  <2>1. PICK message \in Message : Process(w, message)
    BY <1>9 DEF Works, WorkerInitialises, WorkerGenerates, WorkerReportsFailure,
                WorkerInitFails, WorkerGarbles, WorkerLosesReport, Message
  <2>2. /\ running[w] /\ inbox[w] # <<>> /\ message = Head(inbox[w])
        /\ inbox'[w] = Tail(inbox[w]) /\ \A v \in Worker \ {w} : inbox'[v] = inbox[v]
        /\ UNCHANGED <<inFlight, accepting, running, errorDue, issued>>
    BY <1>0, <2>1 DEF Process, ledgerVars
  <2>3. \/ \E reply \in Reply : /\ reply.of = message
                                /\ outbox' = [outbox EXCEPT ![w] = Append(@, reply)]
                                /\ lostReports' = lostReports
        \/ message = InitMessage /\ outbox' = outbox /\ lostReports' = lostReports
        \/ message \in Request /\ outbox' = outbox /\ lostReports' = lostReports + 1
    BY <1>9, <2>1, Says
  <2>4. /\ \/ \E reply \in Reply : /\ reply.of = message
                                   /\ outbox'[w] = Append(outbox[w], reply)
                                   /\ lostReports' = lostReports
           \/ message = InitMessage /\ outbox'[w] = outbox[w] /\ lostReports' = lostReports
           \/ message \in Request /\ outbox'[w] = outbox[w] /\ lostReports' = lostReports + 1
        /\ \A v \in Worker \ {w} : outbox'[v] = outbox[v]
    BY <1>0, <2>3
  <2>5. Worked(w)
    BY <2>2, <2>4 DEF Worked
  <2> QED BY <2>2, <2>4, <2>5 DEF Parts
<1>10. ASSUME NEW w \in Worker, WorkerErrors(w) PROVE Goal
  <2>1. PICK dies \in BOOLEAN :
           /\ running' = [running EXCEPT ![w] = ~dies]
           /\ inbox' = [inbox EXCEPT ![w] = IF dies THEN <<>> ELSE @]
    BY <1>10 DEF WorkerErrors
  <2>2. /\ UNCHANGED <<inFlight, accepting, outbox, lostReports, issued>>
        /\ errorDue' = [errorDue EXCEPT ![w] = TRUE]
    BY <1>3, <1>10 DEF WorkerErrors, ledgerVars
  <2>3. Erred(w)
    BY <1>0, <2>1, <2>2 DEF Erred
  <2> QED BY <1>0, <2>1, <2>2, <2>3 DEF Parts
<1> QED BY <1>4, <1>5, <1>6, <1>7, <1>8, <1>9, <1>10 DEF Next, Handlers

(* What holds of every worker between two steps.                           *)
OrderAt(w) ==
  /\ AsIssued(issued, outbox[w], inbox[w], inFlight[w])
  /\ accepting[w] => /\ running[w] \/ errorDue[w]
                     /\ Awaited(outbox[w], inbox[w], inFlight[w])
  /\ ~accepting[w] => inFlight[w] = <<>>

InIssueOrder == \A w \in Worker : OrderAt(w)

\* An empty queue rises.
LEMMA NoneIsRising == Rising(<<>>) /\ Range(<<>>) = {}
<1> QED BY DEF Rising, Range

(* More requests may be issued meanwhile.                                  *)
LEMMA AsIssuedLater ==
  ASSUME NEW n \in Nat, NEW m \in Nat, n <= m, NEW o \in Seq(Reply), NEW b \in Seq(Message),
         NEW f \in Seq(Request), AsIssued(n, o, b, f)
  PROVE  AsIssued(m, o, b, f)
<1>1. Message \subseteq Nat /\ Request \subseteq Message
  BY PoolAssumption DEF PoolAssumption, Message, Request, InitMessage
<1>2. \A k \in Range(f) \cup Range(b) : k \in Nat
  BY <1>1, RangeOfSeq, ZenonT(60) DEF Range
<1>3. \A i \in DOMAIN o : o[i].of \in Nat
  BY <1>1, ElementOfSeq, LenProperties DEF Reply, Message
<1> QED BY <1>2, <1>3 DEF AsIssued

\* A reply is about a message.
LEMMA Subjects ==
  ASSUME NEW o \in Seq(Reply)
  PROVE  \A i \in DOMAIN o : o[i].of \in Message
<1>1. \A reply \in Reply : reply.of \in Message
  BY DEF Reply, Message
<1> QED BY <1>1, ElementOfSeq, LenProperties

(* The next request goes to the end of the queues.                         *)
LEMMA AsIssuedGiven ==
  ASSUME NEW n \in Nat, n + 1 \in Request, NEW o \in Seq(Reply), NEW b \in Seq(Message),
         NEW f \in Seq(Request), AsIssued(n, o, b, f)
  PROVE  /\ AsIssued(n + 1, o, b, Append(f, n + 1))
         /\ AsIssued(n + 1, o, Append(b, n + 1), Append(f, n + 1))
<1>1. Message \subseteq Nat /\ Request \subseteq Message
  BY PoolAssumption DEF PoolAssumption, Message, Request, InitMessage
<1>2. f \in Seq(Message)
  BY <1>1, SeqMonotonic
<1>3. Range(f) \subseteq Nat /\ Range(b) \subseteq Nat
  BY <1>1, <1>2, RangeOfSeq
<1>4. \A i \in DOMAIN o : o[i].of \in Nat
  BY <1>1, Subjects
<1>5. /\ Rising(Append(f, n + 1)) /\ Range(Append(f, n + 1)) = Range(f) \cup {n + 1}
      /\ Rising(Append(b, n + 1)) /\ Range(Append(b, n + 1)) = Range(b) \cup {n + 1}
  <2>1. \A k \in Range(f) \cup Range(b) : k < n + 1
    BY <1>3 DEF AsIssued
  <2> QED BY <1>1, <1>2, <2>1, RisingWith DEF AsIssued
<1>6. \A i \in DOMAIN o : o[i].of < n + 1
  BY <1>4 DEF AsIssued
<1>7. \A k \in Range(f) \cup Range(b) \cup {n + 1} : k <= n + 1
  BY <1>3 DEF AsIssued
<1> QED BY <1>4, <1>5, <1>6, <1>7 DEF AsIssued

(* Replies are heard and requests retired in any order.                    *)
LEMMA AsIssuedHeard ==
  ASSUME NEW n \in Nat, NEW o \in Seq(Reply), NEW b \in Seq(Message),
         NEW f \in Seq(Request), AsIssued(n, o, b, f), o # <<>>,
         NEW g, Rising(g), Range(g) \subseteq Range(f)
  PROVE  /\ AsIssued(n, Tail(o), b, g)
         /\ \A i \in DOMAIN Tail(o) :
              /\ Head(o).of < Tail(o)[i].of
              /\ \E j \in DOMAIN o : Tail(o)[i] = o[j]
         /\ \A m \in Range(b) : Head(o).of < m
<1>1. /\ Len(o) \in Nat \ {0} /\ DOMAIN o = 1..Len(o) /\ Head(o) = o[1]
      /\ DOMAIN Tail(o) = 1..(Len(o) - 1)
      /\ \A k \in 1..(Len(o) - 1) : Tail(o)[k] = o[k + 1]
  BY Headed, LenProperties
<1>2. \A k \in 1..(Len(o) - 1) : k + 1 \in DOMAIN o /\ 1 \in DOMAIN o /\ 1 < k + 1
  BY <1>1
<1>3. \A i \in DOMAIN Tail(o) :
         Head(o).of < Tail(o)[i].of /\ \E j \in DOMAIN o : Tail(o)[i] = o[j]
  BY <1>1, <1>2 DEF AsIssued
<1>4. \A m \in Range(b) : Head(o).of < m
  BY <1>1 DEF AsIssued
<1>5. AsIssued(n, Tail(o), b, g)
  <2>1. ASSUME NEW i \in 1..(Len(o) - 1), NEW j \in 1..(Len(o) - 1), i < j
        PROVE  Tail(o)[i].of < Tail(o)[j].of
    <3>1. i + 1 \in DOMAIN o /\ j + 1 \in DOMAIN o /\ i + 1 < j + 1
      BY <1>1, <2>1
    <3>2. o[i + 1].of < o[j + 1].of
      BY <3>1 DEF AsIssued
    <3> QED BY <1>1, <3>2
  <2>2. \A i \in DOMAIN Tail(o) : /\ \A m \in Range(b) : Tail(o)[i].of < m
                                 /\ Tail(o)[i].of <= n
    BY <1>3 DEF AsIssued
  <2> QED BY <1>1, <2>1, <2>2 DEF AsIssued
<1> QED BY <1>3, <1>4, <1>5

(* A message that a worker is done with goes behind all it has said.       *)
LEMMA AsIssuedWorked ==
  ASSUME NEW n \in Nat, NEW o \in Seq(Reply), NEW b \in Seq(Message),
         NEW f \in Seq(Request), AsIssued(n, o, b, f), b # <<>>
  PROVE  /\ AsIssued(n, o, Tail(b), f)
         /\ \A reply \in Reply : reply.of = Head(b) =>
              AsIssued(n, Append(o, reply), Tail(b), f)
<1>1. /\ Rising(Tail(b)) /\ Range(Tail(b)) = Range(b) \ {Head(b)}
      /\ \A m \in Range(Tail(b)) : Head(b) < m
      /\ Head(b) \in Range(b)
  BY RisingWithout, Headed DEF AsIssued
<1>2. AsIssued(n, o, Tail(b), f)
  BY <1>1 DEF AsIssued
<1>3. ASSUME NEW reply \in Reply, reply.of = Head(b)
      PROVE  AsIssued(n, Append(o, reply), Tail(b), f)
  <2> DEFINE p == Append(o, reply)
  <2>1. /\ DOMAIN p = 1..(Len(o) + 1) /\ DOMAIN o = 1..Len(o) /\ Len(o) \in Nat
        /\ \A i \in 1..Len(o) : p[i] = o[i]
        /\ p[Len(o) + 1] = reply
    BY LenProperties, AppendProperties
  <2> HIDE DEF p
  <2>2. \A i \in 1..Len(o) : p[i].of < reply.of
    BY <1>1, <1>3, <2>1 DEF AsIssued
  <2>3. \A i \in 1..(Len(o) + 1) : i \in 1..Len(o) \/ i = Len(o) + 1
    BY <2>1
  <2>4. ASSUME NEW i \in DOMAIN p, NEW j \in DOMAIN p, i < j PROVE p[i].of < p[j].of
    <3>1. i \in 1..Len(o) /\ (j \in 1..Len(o) \/ j = Len(o) + 1)
      BY <2>1, <2>4
    <3> QED BY <2>1, <2>2, <2>4, <3>1 DEF AsIssued
  <2>5. \A i \in DOMAIN p : p[i].of <= n /\ \A m \in Range(Tail(b)) : p[i].of < m
    BY <1>1, <1>3, <2>1, <2>3 DEF AsIssued
  <2> QED BY <1>1, <2>4, <2>5 DEF AsIssued, p
<1> QED BY <1>2, <1>3

(* What a step may strand.                                                 *)
Strands(w) ==
  \/ Stranded(w)' \subseteq Stranded(w) /\ lostReports' = lostReports
  \/ \E r \in Request : Stranded(w)' \subseteq Stranded(w) \cup {r}
                        /\ lostReports' = lostReports + 1
  \/ \E q \in Stranded(w), r \in Request :
        /\ Stranded(w)' \subseteq (Stranded(w) \ {q}) \cup {r} /\ q \notin Range(inFlight'[w])
        /\ lostReports' = lostReports

WorkerTypes(w) ==
  /\ accepting[w] \in BOOLEAN /\ inFlight[w] \in Seq(Request) /\ inbox[w] \in Seq(Message)
  /\ outbox[w] \in Seq(Reply) /\ running[w] \in BOOLEAN /\ errorDue[w] \in BOOLEAN
  /\ issued \in Nat /\ lostReports \in Nat

\* The types of the pool, worker by worker.
LEMMA TypesOfWorkers ==
  TypeOK => \A w \in Worker : WorkerTypes(w)
<1> QED BY PoolAssumption DEF TypeOK, WorkerTypes, PoolAssumption

\* A worker that a step does not concern keeps its order and what it stranded.
LEMMA OthersStay ==
  ASSUME NEW w \in Worker, WorkerTypes(w), WorkerTypes(w)', OrderAt(w),
         Parts(w)' = Parts(w), issued' >= issued
  PROVE  OrderAt(w)' /\ Stranded(w)' = Stranded(w)
<1>1. /\ accepting'[w] = accepting[w] /\ inFlight'[w] = inFlight[w]
      /\ outbox'[w] = outbox[w] /\ inbox'[w] = inbox[w]
      /\ running'[w] = running[w] /\ errorDue'[w] = errorDue[w]
  BY DEF Parts
<1>2. AsIssued(issued', outbox[w], inbox[w], inFlight[w])
  BY AsIssuedLater DEF OrderAt, WorkerTypes
<1> QED BY <1>1, <1>2 DEF OrderAt, Stranded

\* A request that is posted keeps the order and strands none.
LEMMA GivenStays ==
  ASSUME NEW w \in Worker, WorkerTypes(w), OrderAt(w), Given(w)
  PROVE  OrderAt(w)' /\ Strands(w)
<1> DEFINE o == outbox[w]
           b == inbox[w]
           f == inFlight[w]
           r == issued + 1
<1>1. /\ o \in Seq(Reply) /\ b \in Seq(Message) /\ f \in Seq(Request)
      /\ issued \in Nat /\ r \in Request /\ running[w] \in BOOLEAN
      /\ Request \subseteq Message
  BY DEF WorkerTypes, Given, Message
<1>2. /\ accepting[w] /\ accepting'[w] /\ issued' = r /\ lostReports' = lostReports
      /\ outbox'[w] = o /\ running'[w] = running[w] /\ errorDue'[w] = errorDue[w]
      /\ inFlight'[w] = Append(f, r)
      /\ inbox'[w] = IF running[w] THEN Append(b, r) ELSE b
  BY DEF Given
<1>3. /\ AsIssued(issued, o, b, f) /\ Awaited(o, b, f) /\ (running[w] \/ errorDue[w])
  BY <1>2 DEF OrderAt
<1>4. /\ AsIssued(r, o, b, Append(f, r))
      /\ AsIssued(r, o, Append(b, r), Append(f, r))
  BY <1>1, <1>3, AsIssuedGiven
<1>5. Range(Append(f, r)) = Range(f) \cup {r} /\ Range(Append(b, r)) = Range(b) \cup {r}
  BY <1>1, Appended
<1> HIDE DEF o, b, f, r
<1>6. Awaited(o, b, Append(f, r)) /\ Awaited(o, Append(b, r), Append(f, r))
  BY <1>3, <1>5 DEF Awaited
<1>7. CASE running[w]
  <2>1. inbox'[w] = Append(b, r)
    BY <1>2, <1>7
  <2>2. OrderAt(w)'
    BY <1>2, <1>4, <1>6, <1>7, <2>1 DEF OrderAt
  <2>3. Stranded(w)' \subseteq Stranded(w)
    BY <1>2, <1>5, <2>1 DEF Stranded, o, b, f
  <2> QED BY <1>2, <2>2, <2>3 DEF Strands
<1>8. CASE ~running[w]
  <2>1. inbox'[w] = b /\ errorDue'[w]
    BY <1>2, <1>3, <1>8
  <2>2. OrderAt(w)'
    BY <1>2, <1>4, <1>6, <2>1 DEF OrderAt
  <2>3. Stranded(w)' = {}
    BY <2>1 DEF Stranded
  <2> QED BY <1>2, <2>2, <2>3 DEF Strands
<1> QED BY <1>7, <1>8

\* Nor does giving the worker up strand any.
LEMMA DroppedStays ==
  ASSUME NEW w \in Worker, WorkerTypes(w), WorkerTypes(w)', OrderAt(w), Dropped(w)
  PROVE  OrderAt(w)' /\ Strands(w)
<1>1. /\ ~accepting'[w] /\ inFlight'[w] = <<>> /\ inbox'[w] = <<>>
      /\ lostReports' = lostReports /\ issued' >= issued
  BY DEF Dropped
<1>2. AsIssued(issued, outbox[w], <<>>, <<>>)
  BY NoneIsRising DEF OrderAt, AsIssued
<1>3. <<>> \in Seq(Message) /\ <<>> \in Seq(Request) /\ outbox[w] \in Seq(Reply)
      /\ outbox'[w] \in Seq(Reply) /\ issued \in Nat /\ issued' \in Nat
  BY DEF WorkerTypes
<1>4. AsIssued(issued, outbox'[w], <<>>, <<>>)
  <2>1. CASE outbox'[w] = outbox[w]
    BY <1>2, <2>1
  <2>2. CASE outbox'[w] = <<>>
    BY <2>2, NoneIsRising DEF AsIssued
  <2>3. CASE outbox[w] # <<>> /\ outbox'[w] = Tail(outbox[w])
    <3>1. AsIssued(issued, Tail(outbox[w]), <<>>, <<>>)
      <4>1. Rising(<<>>) /\ Range(<<>>) \subseteq Range(<<>>)
        BY NoneIsRising
      <4> QED BY <1>2, <1>3, <2>3, <4>1, AsIssuedHeard
    <3> QED BY <2>3, <3>1
  <2> QED BY <2>1, <2>2, <2>3 DEF Dropped
<1>5. AsIssued(issued', outbox'[w], <<>>, <<>>)
  BY <1>1, <1>3, <1>4, AsIssuedLater
<1>6. Stranded(w)' = {}
  BY <1>1, NoneIsRising DEF Stranded
<1> QED BY <1>1, <1>5, <1>6 DEF OrderAt, Strands

\* Nor does an error that is raised.
LEMMA ErredStays ==
  ASSUME NEW w \in Worker, WorkerTypes(w), OrderAt(w), Erred(w)
  PROVE  OrderAt(w)' /\ Strands(w)
<1>1. /\ accepting'[w] = accepting[w] /\ inFlight'[w] = inFlight[w]
      /\ outbox'[w] = outbox[w] /\ inbox'[w] \in {inbox[w], <<>>}
      /\ errorDue'[w] /\ issued' = issued /\ lostReports' = lostReports
  BY DEF Erred
<1>2. Stranded(w)' = {}
  BY <1>1 DEF Stranded
<1>3. AsIssued(issued', outbox'[w], inbox'[w], inFlight'[w])
  <2>1. AsIssued(issued, outbox[w], <<>>, inFlight[w])
    BY NoneIsRising DEF OrderAt, AsIssued
  <2> QED BY <1>1, <2>1 DEF OrderAt
<1>4. Awaited(outbox[w], inbox[w], inFlight[w]) => Awaited(outbox'[w], inbox'[w], inFlight'[w])
  BY <1>1, NoneIsRising DEF Awaited
<1> QED BY <1>1, <1>2, <1>3, <1>4 DEF OrderAt, Strands

\* Nor what the worker does.
LEMMA WorkedStays ==
  ASSUME NEW w \in Worker, WorkerTypes(w), OrderAt(w), Worked(w)
  PROVE  OrderAt(w)' /\ Strands(w)
<1> DEFINE o == outbox[w]
           b == inbox[w]
           f == inFlight[w]
           m == Head(b)
<1>1. /\ o \in Seq(Reply) /\ b \in Seq(Message) /\ f \in Seq(Request)
      /\ issued \in Nat /\ b # <<>>
  BY DEF WorkerTypes, Worked
<1>2. /\ accepting'[w] = accepting[w] /\ inFlight'[w] = f /\ inbox'[w] = Tail(b)
      /\ running'[w] = running[w] /\ errorDue'[w] = errorDue[w] /\ issued' = issued
  BY DEF Worked
<1>3. AsIssued(issued, o, b, f) /\ (accepting[w] => Awaited(o, b, f))
  BY DEF OrderAt
<1>4. /\ AsIssued(issued, o, Tail(b), f)
      /\ \A reply \in Reply : reply.of = m => AsIssued(issued, Append(o, reply), Tail(b), f)
  BY <1>1, <1>3, AsIssuedWorked
<1>5. m \in Message /\ m \in Range(b) /\ Range(Tail(b)) = Range(b) \ {m}
  BY <1>1, <1>3, Headed, RisingWithout DEF AsIssued
<1>6. \A reply \in Reply : Range(Append(o, reply)) = Range(o) \cup {reply}
  BY <1>1, Appended
<1>7. InitMessage \notin Range(f) /\ Range(f) \subseteq Request
  BY <1>1, RequestIsNoInit, RangeOfSeq
<1> HIDE DEF o, b, f, m
<1>8. ASSUME NEW reply \in Reply, reply.of = m, outbox'[w] = Append(o, reply),
             lostReports' = lostReports
      PROVE  OrderAt(w)' /\ Strands(w)
  <2>1. Awaited(o, b, f) => Awaited(Append(o, reply), Tail(b), f)
    <3> SUFFICES ASSUME Awaited(o, b, f) PROVE Awaited(Append(o, reply), Tail(b), f)
      OBVIOUS
    <3>1. m \in Range(f) \cup {InitMessage}
      BY <1>5 DEF Awaited
    <3>2. \A k \in Range(Tail(b)) : k \in Range(f) \cup {InitMessage}
      BY <1>5 DEF Awaited
    <3>3. \A said \in Range(o) : said.of \in Range(f) \cup {InitMessage}
      BY DEF Awaited, Range
    <3>4. \A said \in Range(Append(o, reply)) : said.of \in Range(f) \cup {InitMessage}
      BY <1>6, <1>8, <3>1, <3>3
    <3>5. \A i \in DOMAIN Append(o, reply) : Append(o, reply)[i] \in Range(Append(o, reply))
      BY DEF Range
    <3> QED BY <3>2, <3>4, <3>5 DEF Awaited
  <2>2. OrderAt(w)'
    <3>1. /\ AsIssued(issued', outbox'[w], inbox'[w], inFlight'[w])
          /\ accepting'[w] => /\ running'[w] \/ errorDue'[w]
                              /\ Awaited(outbox'[w], inbox'[w], inFlight'[w])
          /\ ~accepting'[w] => inFlight'[w] = <<>>
      BY <1>2, <1>3, <1>4, <1>8, <2>1 DEF OrderAt, f
    <3> QED BY <3>1 DEF OrderAt
  <2>3. Stranded(w)' \subseteq Stranded(w)
    <3> SUFFICES ASSUME NEW r \in Range(f), ~errorDue[w], r \notin Range(Tail(b)),
                        \A said \in Range(Append(o, reply)) : said.of # r
                 PROVE  r \notin Range(b) /\ \A said \in Range(o) : said.of # r
      BY <1>2, <1>8 DEF Stranded, o, b, f
    <3> QED BY <1>5, <1>6, <1>8
  <2> QED BY <1>8, <2>2, <2>3 DEF Strands
<1>9. ASSUME outbox'[w] = o PROVE OrderAt(w)'
  <2>1. Awaited(o, b, f) => Awaited(o, Tail(b), f)
    BY <1>5 DEF Awaited
  <2>2. /\ AsIssued(issued', outbox'[w], inbox'[w], inFlight'[w])
        /\ accepting'[w] => /\ running'[w] \/ errorDue'[w]
                            /\ Awaited(outbox'[w], inbox'[w], inFlight'[w])
        /\ ~accepting'[w] => inFlight'[w] = <<>>
    BY <1>2, <1>3, <1>4, <1>9, <2>1 DEF OrderAt, f
  <2> QED BY <2>2 DEF OrderAt
<1>10. ASSUME outbox'[w] = o PROVE Stranded(w)' \subseteq Stranded(w) \cup {m}
  BY <1>2, <1>5, <1>10 DEF Stranded, o, b, f
<1>11. ASSUME m = InitMessage, outbox'[w] = o, lostReports' = lostReports
       PROVE  Strands(w)
  <2>1. Stranded(w)' \subseteq Range(f)
    BY <1>2 DEF Stranded
  <2> QED BY <1>7, <1>10, <1>11, <2>1 DEF Strands
<1>12. ASSUME m \in Request, outbox'[w] = o, lostReports' = lostReports + 1
       PROVE  Strands(w)
  BY <1>10, <1>12 DEF Strands
<1> QED BY <1>8, <1>9, <1>11, <1>12 DEF Worked, o, b, m

\* Nor a reply that is heard, even if it is blamed on another request.
LEMMA HeardStays ==
  ASSUME NEW w \in Worker, WorkerTypes(w), OrderAt(w), Heard(w)
  PROVE  OrderAt(w)' /\ Strands(w)
<1> DEFINE o == outbox[w]
           b == inbox[w]
           f == inFlight[w]
           g == inFlight'[w]
           r == Head(o).of
<1>1. /\ o \in Seq(Reply) /\ b \in Seq(Message) /\ f \in Seq(Request)
      /\ issued \in Nat /\ o # <<>> /\ r \in Request
      /\ f \in Seq(Message) /\ accepting[w] \in BOOLEAN
  <2>1. Request \subseteq Message
    BY DEF Message
  <2> QED BY <2>1, SeqMonotonic DEF WorkerTypes, Heard
<1>2. /\ accepting'[w] = accepting[w] /\ inbox'[w] = b /\ outbox'[w] = Tail(o)
      /\ running'[w] = running[w] /\ errorDue'[w] = errorDue[w] /\ issued' = issued
      /\ lostReports' = lostReports
  BY DEF Heard
<1>3. AsIssued(issued, o, b, f) /\ (accepting[w] => Awaited(o, b, f))
      /\ (~accepting[w] => f = <<>>)
  BY DEF OrderAt
<1>4. Range(f) \subseteq Request /\ Request \subseteq Nat /\ r \notin {InitMessage}
      /\ InitMessage \notin Range(f) /\ r \in Nat
  BY <1>1, RangeOfSeq, RequestIsNoInit, PoolAssumption DEF Request, PoolAssumption
\* What becomes of the requests in flight.
<1>5. /\ Rising(g)
      /\ \/ r \notin Range(f) /\ Range(g) = Range(f)
         \/ Range(g) = Range(f) \ {r}
         \/ /\ f # <<>> /\ Head(f) \in Range(f) /\ Range(g) = Range(f) \ {Head(f)}
            /\ \A k \in Range(f) \ {Head(f)} : Head(f) < k
  <2>1. CASE r \notin Range(f) /\ g = f
    BY <1>3, <2>1 DEF AsIssued
  <2>2. ASSUME NEW i \in DOMAIN f, f[i] = r, g = RemoveAt(f, i)
        PROVE  Rising(g) /\ Range(g) = Range(f) \ {r}
    <3>1. f # <<>>
      BY <2>2
    <3> QED BY <1>1, <1>3, <2>2, <3>1, RisingWithout DEF AsIssued
  <2>3. CASE f # <<>> /\ g = Tail(f)
    <3>1. Rising(g) /\ Range(g) = Range(f) \ {Head(f)} /\ \A k \in Range(g) : Head(f) < k
      BY <1>1, <1>3, <2>3, RisingWithout DEF AsIssued
    <3>2. Head(f) \in Range(f)
      BY <1>1, <2>3, Headed
    <3> QED BY <2>3, <3>1, <3>2
  <2> QED BY <2>1, <2>2, <2>3 DEF Heard
<1> HIDE DEF g
<1>6. Range(g) \subseteq Range(f)
  BY <1>5
<1>7. /\ AsIssued(issued, Tail(o), b, g)
      /\ \A said \in Range(Tail(o)) : r < said.of /\ said \in Range(o)
      /\ \A m \in Range(b) : r < m
  <2>1. /\ AsIssued(issued, Tail(o), b, g)
        /\ \A i \in DOMAIN Tail(o) : r < Tail(o)[i].of /\ \E j \in DOMAIN o : Tail(o)[i] = o[j]
        /\ \A m \in Range(b) : r < m
    BY <1>1, <1>3, <1>5, <1>6, AsIssuedHeard
  <2> QED BY <2>1 DEF Range
<1>8. Head(o) \in Range(o) /\ \A said \in Range(o) : said = Head(o) \/ said \in Range(Tail(o))
  <2>1. /\ Head(o) \in Range(o) /\ Head(o) = o[1] /\ DOMAIN o = 1..Len(o) /\ Len(o) \in Nat
        /\ DOMAIN Tail(o) = 1..(Len(o) - 1)
        /\ \A k \in 1..(Len(o) - 1) : Tail(o)[k] = o[k + 1]
    BY <1>1, Headed, LenProperties
  <2>2. ASSUME NEW i \in 1..Len(o), i # 1 PROVE o[i] \in Range(Tail(o))
    <3>1. i - 1 \in 1..(Len(o) - 1) /\ (i - 1) + 1 = i
      BY <2>1, <2>2
    <3>2. Tail(o)[i - 1] = o[i] /\ i - 1 \in DOMAIN Tail(o)
      BY <2>1, <3>1
    <3> QED BY <3>2 DEF Range
  <2> QED BY <2>1, <2>2 DEF Range
<1>9. ASSUME Awaited(o, b, f)
      PROVE  /\ \A m \in Range(b) : m \in Range(f) \cup {InitMessage}
             /\ \A said \in Range(o) : said.of \in Range(f) \cup {InitMessage}
  BY <1>9 DEF Awaited, Range
<1> HIDE DEF o, b, f, r
\* What is still to be answered is not what was retired.
<1>10. ASSUME NEW m, r < m, m \in Range(f) \cup {InitMessage}, Awaited(o, b, f)
       PROVE  m \in Range(g) \cup {InitMessage}
  <2>1. CASE m = InitMessage
    BY <2>1
  <2>2. CASE m \in Range(f) /\ Range(g) = Range(f) \ {Head(f)}
             /\ \A k \in Range(f) \ {Head(f)} : Head(f) < k
    <3>1. r \in Range(f)
      BY <1>4, <1>8, <1>9, <1>10 DEF r
    <3>2. m # Head(f)
      BY <1>4, <1>10, <2>2, <3>1
    <3> QED BY <2>2, <3>2
  <2>3. CASE m \in Range(f) /\ (Range(g) = Range(f) \/ Range(g) = Range(f) \ {r})
    BY <1>4, <1>10, <2>3
  <2> QED BY <1>5, <1>10, <2>1, <2>2, <2>3
<1>11. Awaited(o, b, f) => Awaited(Tail(o), b, g)
  <2> SUFFICES ASSUME Awaited(o, b, f) PROVE Awaited(Tail(o), b, g)
    OBVIOUS
  <2>1. \A m \in Range(b) : m \in Range(g) \cup {InitMessage}
    BY <1>7, <1>9, <1>10
  <2>2. \A said \in Range(Tail(o)) : said.of \in Range(g) \cup {InitMessage}
    BY <1>7, <1>9, <1>10
  <2> QED BY <2>1, <2>2 DEF Awaited, Range
<1>12. OrderAt(w)'
  <2>1. ~accepting[w] => g = <<>>
    <3>1. f = <<>> => g = <<>>
      BY NoneIsRising DEF Heard, f, g
    <3> QED BY <1>3, <3>1
  <2>2. /\ AsIssued(issued', outbox'[w], inbox'[w], inFlight'[w])
        /\ accepting'[w] => /\ running'[w] \/ errorDue'[w]
                            /\ Awaited(outbox'[w], inbox'[w], inFlight'[w])
        /\ ~accepting'[w] => inFlight'[w] = <<>>
    BY <1>2, <1>3, <1>7, <1>11, <2>1 DEF OrderAt, g
  <2> QED BY <2>2 DEF OrderAt
<1>13. Stranded(w)' = {k \in Range(g) : /\ ~errorDue[w] /\ k \notin Range(b)
                                        /\ \A said \in Range(Tail(o)) : said.of # k}
  BY <1>2 DEF Stranded, g
<1>14. Stranded(w) = {k \in Range(f) : /\ ~errorDue[w] /\ k \notin Range(b)
                                       /\ \A said \in Range(o) : said.of # k}
  BY DEF Stranded, o, b, f
<1>15. Stranded(w)' \subseteq Stranded(w) \cup ({r} \cap Range(g))
  BY <1>6, <1>8, <1>13, <1>14 DEF r
<1>16. CASE r \notin Range(g)
  <2>1. Stranded(w)' \subseteq Stranded(w)
    BY <1>15, <1>16
  <2> QED BY <1>2, <1>12, <2>1 DEF Strands
<1>17. CASE r \in Range(g) /\ errorDue[w]
  <2>1. Stranded(w)' = {}
    BY <1>13, <1>17
  <2> QED BY <1>2, <1>12, <2>1 DEF Strands
\* The reply could not be read, and the oldest request is blamed for another:
\* so that one has no reply under way and is stranded already.
<1>18. CASE r \in Range(g) /\ ~errorDue[w]
  <2> DEFINE q == Head(f)
  <2>1. /\ f # <<>> /\ q \in Range(f) /\ Range(g) = Range(f) \ {q}
        /\ \A k \in Range(f) \ {q} : q < k
    BY <1>5, <1>6, <1>18
  <2> HIDE DEF q
  <2>2. q < r /\ q \in Nat /\ q # r
    BY <1>4, <1>18, <2>1
  <2>3. r \in Nat
    BY <1>4
  <2>4. q \notin Range(b)
    BY <1>7, <2>2, <2>3
  <2>5. \A said \in Range(o) : said.of # q
    BY <1>7, <1>8, <2>2, <2>3 DEF r
  <2>6. q \in Stranded(w)
    BY <1>14, <1>18, <2>1, <2>4, <2>5
  <2>7. Stranded(w)' \subseteq (Stranded(w) \ {q}) \cup {r} /\ q \notin Range(g)
    <3>1. Stranded(w)' \subseteq Range(g)
      BY <1>13
    <3> QED BY <1>15, <2>1, <3>1
  <2>8. r \in Request
    BY <1>4, <1>6, <1>18
  <2> QED BY <1>2, <1>12, <2>6, <2>7, <2>8 DEF Strands, g
<1> QED BY <1>16, <1>17, <1>18

\* Every step keeps the order, and one worker at most strands a request.
LEMMA IssueOrderStep ==
  ASSUME TypeOK, InIssueOrder, [Next]_vars
  PROVE  /\ InIssueOrder'
         /\ \/ /\ \A v \in Worker : Stranded(v)' = Stranded(v)
               /\ lostReports' = lostReports
            \/ \E w \in Worker : /\ Strands(w)
                                  /\ \A v \in Worker \ {w} : Stranded(v)' = Stranded(v)
<1>1. TypeOK'
  BY TypeStep
<1>2. \A v \in Worker : WorkerTypes(v) /\ OrderAt(v)
  BY TypesOfWorkers DEF InIssueOrder
<1>3. \A v \in Worker : WorkerTypes(v)'
  BY <1>1, PoolAssumption DEF TypeOK, WorkerTypes, PoolAssumption
<1>4. \A v \in Worker : Parts(v)' = Parts(v) /\ issued' >= issued =>
                        OrderAt(v)' /\ Stranded(v)' = Stranded(v)
  BY <1>2, <1>3, OthersStay
<1>5. CASE /\ \A v \in Worker : Parts(v)' = Parts(v)
           /\ issued' >= issued /\ lostReports' = lostReports
  BY <1>4, <1>5 DEF InIssueOrder
<1>6. ASSUME NEW w \in Worker, \A v \in Worker \ {w} : Parts(v)' = Parts(v),
             Given(w) \/ Dropped(w) \/ Heard(w) \/ Worked(w) \/ Erred(w)
      PROVE  /\ InIssueOrder' /\ Strands(w)
             /\ \A v \in Worker \ {w} : Stranded(v)' = Stranded(v)
  <2>1. OrderAt(w)' /\ Strands(w)
    BY <1>2, <1>3, <1>6, GivenStays, DroppedStays, HeardStays, WorkedStays, ErredStays
  <2>2. issued' >= issued
    <3>1. issued \in Nat
      BY <1>2 DEF WorkerTypes
    <3> QED BY <1>6, <3>1 DEF Given, Dropped, Heard, Worked, Erred
  <2>3. \A v \in Worker \ {w} : OrderAt(v)' /\ Stranded(v)' = Stranded(v)
    BY <1>4, <1>6, <2>2
  <2> QED BY <2>1, <2>3 DEF InIssueOrder
<1> QED BY <1>5, <1>6, PoolMoves

\* At first no worker has anything in flight.
LEMMA IssueOrderInit ==
  Init => InIssueOrder
<1> SUFFICES ASSUME Init, NEW w \in Worker PROVE OrderAt(w)
  BY DEF InIssueOrder
<1>1. /\ outbox[w] = <<>> /\ inbox[w] = <<InitMessage>> /\ inFlight[w] = <<>>
      /\ accepting[w] /\ running[w] /\ issued = 0
  BY DEF Init
<1>2. Range(<<InitMessage>>) = {InitMessage} /\ Rising(<<InitMessage>>)
  BY DEF Range, Rising
<1>3. AsIssued(0, <<>>, <<InitMessage>>, <<>>)
  BY <1>2, NoneIsRising DEF AsIssued, InitMessage
<1>4. Awaited(<<>>, <<InitMessage>>, <<>>)
  BY <1>2 DEF Awaited
<1> QED BY <1>1, <1>3, <1>4 DEF OrderAt

\* A part is no larger than the whole.
LEMMA AtMostAll ==
  ASSUME NEW X, IsFiniteSet(X), NEW Y, Y \subseteq X
  PROVE  Cardinality(Y) \in Nat /\ Cardinality(Y) <= Cardinality(X)
<1>1. Y \in SUBSET X
  OBVIOUS
<1> QED BY <1>1, FS_Subset, FS_CardinalityType

\* The count of stranded requests grows only with a loss.
LEMMA StrandedCount ==
  ASSUME TypeOK, Placed, Placed', InIssueOrder, StrandedByLostReportsOnly, [Next]_vars
  PROVE  StrandedByLostReportsOnly'
<1> DEFINE S == UNION {Stranded(w) : w \in Worker}
           T == UNION {Stranded(w)' : w \in Worker}
<1>1. lostReports \in Nat /\ IsFiniteSet(Request) /\ S \subseteq Request
  <2>1. MaxRequests \in Nat /\ lostReports \in Nat
    BY PoolAssumption DEF PoolAssumption, TypeOK
  <2>2. IsFiniteSet(Request)
    BY <2>1, FS_Interval DEF Request
  <2>3. \A w \in Worker : Stranded(w) \subseteq Request
    BY RangeOfSeq DEF TypeOK, Stranded
  <2> QED BY <2>1, <2>2, <2>3
<1>2. IsFiniteSet(S) /\ Cardinality(S) \in Nat /\ Cardinality(S) <= lostReports
  BY <1>1, FS_Subset, FS_CardinalityType DEF StrandedByLostReportsOnly
<1>3. /\ \A r \in Request : /\ IsFiniteSet(S \cup {r}) /\ Cardinality(S \cup {r}) \in Nat
                            /\ Cardinality(S \cup {r}) <= Cardinality(S) + 1
      /\ \A q \in S, r \in Request :
            /\ IsFiniteSet((S \ {q}) \cup {r}) /\ Cardinality((S \ {q}) \cup {r}) \in Nat
            /\ Cardinality((S \ {q}) \cup {r}) <= Cardinality(S)
  <2>1. ASSUME NEW X, IsFiniteSet(X), NEW r
        PROVE  /\ IsFiniteSet(X \cup {r}) /\ Cardinality(X \cup {r}) \in Nat
               /\ Cardinality(X \cup {r}) <= Cardinality(X) + 1
    <3>1. /\ Cardinality(X) \in Nat /\ IsFiniteSet(X \cup {r})
          /\ Cardinality(X \cup {r}) = IF r \in X THEN Cardinality(X) ELSE Cardinality(X) + 1
      BY <2>1, FS_AddElement, FS_CardinalityType
    <3> QED BY <3>1
  <2>2. \A q \in S : IsFiniteSet(S \ {q}) /\ Cardinality(S \ {q}) = Cardinality(S) - 1
    BY <1>2, FS_RemoveElement
  <2> HIDE DEF S
  <2>3. \A r : /\ IsFiniteSet(S \cup {r}) /\ Cardinality(S \cup {r}) \in Nat
               /\ Cardinality(S \cup {r}) <= Cardinality(S) + 1
    BY <1>2, <2>1
  <2>4. ASSUME NEW q \in S, NEW r \in Request
        PROVE  /\ IsFiniteSet((S \ {q}) \cup {r}) /\ Cardinality((S \ {q}) \cup {r}) \in Nat
               /\ Cardinality((S \ {q}) \cup {r}) <= Cardinality(S)
    <3> DEFINE X == S \ {q}
    <3>1. IsFiniteSet(X) /\ Cardinality(X) = Cardinality(S) - 1
      BY <2>2
    <3>2. /\ IsFiniteSet(X \cup {r}) /\ Cardinality(X \cup {r}) \in Nat
          /\ Cardinality(X \cup {r}) <= Cardinality(X) + 1
      BY <2>1, <3>1
    <3> QED BY <1>2, <3>1, <3>2
  <2> QED BY <2>3, <2>4
<1>4. \/ T \subseteq S /\ lostReports' = lostReports
      \/ \E r \in Request : T \subseteq S \cup {r} /\ lostReports' = lostReports + 1
      \/ \E q \in S, r \in Request : T \subseteq (S \ {q}) \cup {r} /\ lostReports' = lostReports
  <2>1. CASE /\ \A v \in Worker : Stranded(v)' = Stranded(v)
             /\ lostReports' = lostReports
    BY <2>1
  <2>2. ASSUME NEW w \in Worker, Strands(w),
               \A v \in Worker \ {w} : Stranded(v)' = Stranded(v)
        PROVE  \/ T \subseteq S /\ lostReports' = lostReports
               \/ \E r \in Request : T \subseteq S \cup {r} /\ lostReports' = lostReports + 1
               \/ \E q \in S, r \in Request :
                     T \subseteq (S \ {q}) \cup {r} /\ lostReports' = lostReports
    <3>1. CASE Stranded(w)' \subseteq Stranded(w) /\ lostReports' = lostReports
      BY <2>2, <3>1
    <3>2. ASSUME NEW r \in Request, Stranded(w)' \subseteq Stranded(w) \cup {r},
                 lostReports' = lostReports + 1
          PROVE  T \subseteq S \cup {r}
      BY <2>2, <3>2
    <3>3. ASSUME NEW q \in Stranded(w), NEW r \in Request, q \notin Range(inFlight'[w]),
                 Stranded(w)' \subseteq (Stranded(w) \ {q}) \cup {r}
          PROVE  q \in S /\ T \subseteq (S \ {q}) \cup {r}
      <4>1. \A v \in Worker \ {w} : q \notin Stranded(v)
        BY DEF Placed, Held, Stranded
      <4> QED BY <2>2, <3>3, <4>1
    <3> QED BY <2>2, <3>1, <3>2, <3>3 DEF Strands
  <2> QED BY <2>1, <2>2, IssueOrderStep
<1> HIDE DEF S, T
<1>5. Cardinality(T) <= lostReports'
  <2>1. CASE T \subseteq S /\ lostReports' = lostReports
    <3>1. Cardinality(T) \in Nat /\ Cardinality(T) <= Cardinality(S)
      BY <1>2, <2>1, AtMostAll
    <3> QED BY <1>1, <1>2, <2>1, <3>1
  <2>2. ASSUME NEW r \in Request, T \subseteq S \cup {r}, lostReports' = lostReports + 1
        PROVE  Cardinality(T) <= lostReports'
    <3>1. Cardinality(T) \in Nat /\ Cardinality(T) <= Cardinality(S \cup {r})
      BY <1>3, <2>2, AtMostAll
    <3>2. Cardinality(S \cup {r}) \in Nat /\ Cardinality(S \cup {r}) <= Cardinality(S) + 1
      BY <1>3
    <3> QED BY <1>1, <1>2, <2>2, <3>1, <3>2
  <2>3. ASSUME NEW q \in S, NEW r \in Request, T \subseteq (S \ {q}) \cup {r},
               lostReports' = lostReports
        PROVE  Cardinality(T) <= lostReports'
    <3>1. Cardinality(T) \in Nat /\ Cardinality(T) <= Cardinality((S \ {q}) \cup {r})
      BY <1>3, <2>3, AtMostAll
    <3>2. /\ Cardinality((S \ {q}) \cup {r}) \in Nat
          /\ Cardinality((S \ {q}) \cup {r}) <= Cardinality(S)
      BY <1>3
    <3> QED BY <1>1, <1>2, <2>3, <3>1, <3>2
  <2> QED BY <1>4, <2>1, <2>2, <2>3
<1> QED BY <1>5 DEF StrandedByLostReportsOnly, T

(* A report that could not be posted strands one request, and nothing else *)
(* strands any (worker_source.rs, generation_worker_requests.rs            *)
(* fail_oldest, worker.js).                                                *)
THEOREM LostReportsStrandOneEach == Spec => []StrandedByLostReportsOnly
<1>1. Init => StrandedByLostReportsOnly
  <2> SUFFICES ASSUME Init PROVE StrandedByLostReportsOnly
    OBVIOUS
  <2>1. \A w \in Worker : Stranded(w) = {}
    <3>1. \A w \in Worker : inFlight[w] = <<>>
      BY DEF Init
    <3> QED BY <3>1, NoneIsRising DEF Stranded
  <2>2. UNION {Stranded(w) : w \in Worker} = {}
    BY <2>1
  <2>3. lostReports = 0
    BY DEF Init
  <2> QED BY <2>2, <2>3, FS_EmptySet DEF StrandedByLostReportsOnly
<1>2. Inductive /\ InIssueOrder /\ [Next]_vars => InIssueOrder'
  BY IssueOrderStep DEF Inductive
<1>3. /\ Inductive /\ Inductive' /\ InIssueOrder /\ StrandedByLostReportsOnly /\ [Next]_vars
        => StrandedByLostReportsOnly'
  BY StrandedCount DEF Inductive
<1> QED BY <1>1, <1>2, <1>3, IssueOrderInit, InductiveInit, InductiveStep, PTL DEF Spec
=============================================================================
