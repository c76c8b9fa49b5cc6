------------------------ MODULE IdempotencyGateProofs ------------------------
(***************************************************************************)
(* The gate lets one invocation at a time process an event, and none after *)
(* the event was completed, for any number of invocations, messages,       *)
(* receives and failures.  The argument: between its claim and its mark an *)
(* invocation owns the record, which is in progress, leased and kept; a    *)
(* claim needs a record that is not all of that, so nobody else is there.  *)
(* And while the record is anything but a kept completion, every message   *)
(* that is left was sent after the last completion.  And a message's       *)
(* receives are accounted for: each goes to another failure, or, once, to  *)
(* a record that is being deleted.                                         *)
(***************************************************************************)
EXTENDS IdempotencyGate, TLAPS

\* The record of an event in progress is the claim of whoever processes it.
Owned ==
  \A w \in Workers : pc[w] \in Claiming =>
     record.status = "IN_PROGRESS" /\ record.token = token[w] /\ record.leased /\ record.kept
\* An invocation at work holds a message.
Holding == \A w \in Workers : pc[w] # "idle" => held[w] \in Messages
TypeInv == TypeOK /\ Holding
\* The last completion was no later than the record's last update.
Counted == covered <= stamped /\ stamped <= sent
\* What is left was sent after the last completion.
Fresh ==
  /\ \A m \in queue : m.id > covered
  /\ \A w \in Workers : pc[w] # "idle" => held[w].id > covered
FreshUnlessDone == ~(record.status = "COMPLETED" /\ record.kept) => Fresh

IInv == TypeInv /\ Owned /\ OneProcessor /\ Counted /\ FreshUnlessDone

----------------------------------------------------------------------------
\* The invariant holds of the empty table and queue.
LEMMA InitEstablishes == Init => IInv
  BY GateAssumption DEF Init, IInv, TypeInv, TypeOK, Holding, Owned, OneProcessor, Counted, FreshUnlessDone, Fresh,
     Records, NoRecord, NoMessage, Messages, Claiming

\* A returned message keeps its id and has the shape of a message.
LEMMA ReturnedShape ==
  ASSUME TypeOK, NEW m \in Messages, NEW others \in SUBSET Messages, Returned(m, others)
  PROVE  /\ queue' \subseteq Messages /\ dead' \subseteq Nat
         /\ \A n \in queue' : n \in others \/ n.id = m.id
<1>1. CASE m.left > 1
  <2>1. m.left - 1 \in 1 .. MaxReceives BY <1>1, GateAssumption DEF Messages
  <2>. DEFINE back == [m EXCEPT !.left = @ - 1, !.after = record.token]
  <2>2. back \in Messages /\ back.id = m.id
    BY <2>1 DEF Messages, TypeOK, Records
  <2>3. queue' = others \cup {back} /\ dead' = dead
    BY <1>1 DEF Returned
  <2>. HIDE DEF back
  <2>. QED BY <2>2, <2>3 DEF TypeOK
<1>2. CASE ~(m.left > 1) BY <1>2 DEF Returned, TypeOK, Messages
<1>. QED BY <1>1, <1>2

\* What an invocation leaves behind when it raises.
LEMMA RaisedShape ==
  ASSUME TypeInv, NEW w \in Workers, pc[w] # "idle", Raised(w)
  PROVE  /\ queue' \subseteq Messages /\ dead' \subseteq Nat
         /\ \A n \in queue' : n \in queue \/ n.id = held[w].id
         /\ pc' = [pc EXCEPT ![w] = "idle"]
         /\ held' \in [Workers -> Messages \cup {NoMessage}] /\ token' \in [Workers -> Nat]
         /\ \A v \in Workers \ {w} : held'[v] = held[v] /\ token'[v] = token[v]
         /\ sent' = sent /\ covered' = covered
<1>1. held[w] \in Messages /\ queue \in SUBSET Messages BY DEF TypeInv, TypeOK, Holding
<1>3. Returned(held[w], queue) /\ Rests(w) BY DEF Raised
<1>4. /\ queue' \subseteq Messages /\ dead' \subseteq Nat
      /\ \A n \in queue' : n \in queue \/ n.id = held[w].id
  BY <1>1, <1>3, ReturnedShape DEF TypeInv
<1>. QED BY <1>3, <1>4 DEF Rests, TypeInv, TypeOK, Raised

\* A claim is made when nobody processes the event, for a fresh message.
LEMMA ClaimIsExclusive ==
  ASSUME IInv, NEW w \in Workers,
         \/ \E m \in queue : PutClaim(w, m)
         \/ Reclaim(w) /\ Reclaimable
  PROVE  /\ \A v \in Workers : pc[v] \notin Claiming
         /\ Fresh
  BY DEF IInv, Owned, FreshUnlessDone, PutClaim, Reclaim, Reclaimable

----------------------------------------------------------------------------
\* Every action keeps the shapes.
LEMMA TypeStep == TypeInv /\ [Next]_vars => TypeInv'
<1>. SUFFICES ASSUME TypeInv, [Next]_vars PROVE TypeInv'
  OBVIOUS
<1>0. sent + 1 \in Nat /\ claims + 1 \in Nat /\ failures + 1 \in Nat BY DEF TypeInv, TypeOK, Holding
<1>1. CASE Send
  <2>1. [id |-> sent + 1, left |-> MaxReceives, after |-> 0] \in Messages
    BY <1>0, GateAssumption DEF Messages
  <2>. QED BY <1>0, <1>1, <2>1 DEF Send, TypeInv, TypeOK, Holding, gateVars, workerVars
<1>2. ASSUME NEW m \in queue, Defer(m) PROVE TypeInv'
  <2>1. m \in Messages /\ queue \ {m} \in SUBSET Messages BY DEF TypeInv, TypeOK, Holding
  <2>2. queue' \subseteq Messages /\ dead' \subseteq Nat
    BY <1>2, <2>1, ReturnedShape DEF Defer, TypeInv
  <2>. QED BY <1>0, <1>2, <2>2 DEF Defer, TypeInv, TypeOK, Holding, gateVars, workerVars
<1>3. ASSUME NEW w \in Workers, NEW m \in queue, PutClaim(w, m) PROVE TypeInv'
  BY <1>0, <1>3 DEF PutClaim, Holds, Claimed, TypeInv, TypeOK, Holding, Claiming, Records
<1>4. ASSUME NEW w \in Workers, NEW m \in queue, PutRefused(w, m) PROVE TypeInv'
  BY <1>4 DEF PutRefused, Holds, TypeInv, TypeOK, Holding, gateVars
<1>5. ASSUME NEW w \in Workers, LoadRecord(w) PROVE TypeInv'
  <2>2. CASE Acknowledged(w) /\ UNCHANGED covered
    BY <1>5, <2>2 DEF LoadRecord, Acknowledged, Rests, TypeInv, TypeOK, Holding, gateVars
  <2>3. CASE Raised(w)
    BY <1>5, <2>3, RaisedShape DEF LoadRecord, TypeInv, TypeOK, Holding, gateVars
  <2>4. CASE pc' = [pc EXCEPT ![w] = "reclaiming"] /\ UNCHANGED <<queueVars, held, token>>
    BY <1>5, <2>4 DEF LoadRecord, TypeInv, TypeOK, Holding, gateVars, queueVars
  <2>. QED BY <1>5, <2>2, <2>3, <2>4 DEF LoadRecord
<1>6. ASSUME NEW w \in Workers, Reclaim(w) PROVE TypeInv'
  <2>1. CASE Reclaimable
    <3>1. TypeOK'
      <4>1. Claimed(w) /\ UNCHANGED <<queueVars, held, failures>>
        BY <1>6, <2>1 DEF Reclaim
      <4>2. record' \in Records BY <1>0, <4>1 DEF Claimed, Records
      <4>. QED
        BY <1>0, <4>1, <4>2 DEF Claimed, TypeInv, TypeOK, queueVars, Claiming
    <3>2. Holding'
      BY <1>6, <2>1 DEF Reclaim, Claimed, TypeInv, TypeOK, Holding
    <3>. QED BY <3>1, <3>2 DEF TypeInv
  <2>2. CASE ~Reclaimable
    BY <1>6, <2>2, RaisedShape DEF Reclaim, TypeInv, TypeOK, Holding, gateVars
  <2>. QED BY <2>1, <2>2
<1>7. ASSUME NEW w \in Workers, ProcessorReturns(w) \/ ProcessorRaises(w) PROVE TypeInv'
  BY <1>0, <1>7 DEF ProcessorReturns, ProcessorRaises, TypeInv, TypeOK, Holding, gateVars, queueVars, Claiming
<1>8. ASSUME NEW w \in Workers, MarkCompleted(w) PROVE TypeInv'
  <2>2. CASE Owns(w)
    <3>1. TypeOK'
      <4>1. record' \in Records
        BY <1>8, <2>2 DEF MarkCompleted, TypeInv, TypeOK, Records
      <4>. QED
        BY <1>8, <2>2, <4>1 DEF MarkCompleted, Acknowledged, Rests, TypeInv, TypeOK
    <3>2. Holding'
      BY <1>8, <2>2 DEF MarkCompleted, Acknowledged, Rests, TypeInv, TypeOK, Holding
    <3>. QED BY <3>1, <3>2 DEF TypeInv
  <2>3. CASE ~Owns(w)
    BY <1>8, <2>3, RaisedShape DEF MarkCompleted, TypeInv, TypeOK, Holding
  <2>. QED BY <2>2, <2>3
<1>9. ASSUME NEW w \in Workers, MarkFailed(w) PROVE TypeInv'
  <2>1. TypeOK'
    <3>1. record' \in Records /\ stamped' \in Nat
      BY <1>9 DEF MarkFailed, TypeInv, TypeOK, Records
    <3>. QED BY <1>9, <3>1, RaisedShape DEF MarkFailed, TypeInv, TypeOK
  <2>2. Holding'
    BY <1>9, RaisedShape DEF MarkFailed, TypeInv, TypeOK, Holding
  <2>. QED BY <2>1, <2>2 DEF TypeInv
<1>10. ASSUME NEW w \in Workers, Crash(w) PROVE TypeInv'
  BY <1>0, <1>10, RaisedShape DEF Crash, TypeInv, TypeOK, Holding, gateVars
<1>11. CASE LeaseExpires \/ RecordExpires \/ RecordDeleted
  <2>1. TypeOK'
    <3>1. record' \in Records
      <4>1. record \in Records BY DEF TypeInv, TypeOK
      <4>2. record' \in {NoRecord, [record EXCEPT !.leased = FALSE], [record EXCEPT !.kept = FALSE]}
        BY <1>11 DEF LeaseExpires, RecordExpires, RecordDeleted
      <4>3. NoRecord \in Records BY DEF NoRecord, Records
      <4>4. [record EXCEPT !.leased = FALSE] \in Records BY <4>1 DEF Records
      <4>5. [record EXCEPT !.kept = FALSE] \in Records BY <4>1 DEF Records
      <4>. QED BY <4>2, <4>3, <4>4, <4>5
    <3>. QED
      BY <1>11, <3>1 DEF LeaseExpires, RecordExpires, RecordDeleted, TypeInv, TypeOK, queueVars, workerVars
  <2>2. Holding'
    BY <1>11 DEF LeaseExpires, RecordExpires, RecordDeleted, TypeInv, Holding, workerVars
  <2>. QED BY <2>1, <2>2 DEF TypeInv
<1>12. CASE UNCHANGED vars
  BY <1>12 DEF vars, gateVars, queueVars, workerVars, TypeInv, TypeOK, Holding
<1>. QED BY <1>1, <1>2, <1>3, <1>4, <1>5, <1>6, <1>7, <1>8, <1>9, <1>10, <1>11, <1>12
        DEF Next, Consume, Works
----------------------------------------------------------------------------
\* Whoever processes the event owns the record, and is alone.
LEMMA OwnedStep == IInv /\ [Next]_vars => Owned' /\ OneProcessor'
<1>. SUFFICES ASSUME IInv, [Next]_vars PROVE Owned' /\ OneProcessor'
  OBVIOUS
<1>. USE DEF Claiming
<1>0. TypeOK /\ TypeInv BY DEF IInv, TypeInv
\* A step after which nobody claims who did not, and the record is as it was.
<1>. DEFINE Keeps == /\ record' = record
                     /\ \A v \in Workers : pc'[v] \in Claiming =>
                          pc[v] \in Claiming /\ token'[v] = token[v]
<1>a. Keeps => Owned' /\ OneProcessor' BY DEF IInv, Owned, OneProcessor
\* A step of the only invocation that processes the event, which ends it.
<1>b. ASSUME NEW w \in Workers, pc[w] \in Claiming, pc' = [pc EXCEPT ![w] = "idle"]
      PROVE  Owned' /\ OneProcessor'
  BY <1>0, <1>b DEF IInv, OneProcessor, Owned, TypeOK
\* A step that begins it.
<1>c. ASSUME NEW w \in Workers, Claimed(w), \A v \in Workers : pc[v] \notin Claiming
      PROVE  Owned' /\ OneProcessor'
  BY <1>0, <1>c DEF Claimed, OneProcessor, Owned, TypeOK
<1>1. CASE Send BY <1>1, <1>a DEF Send, gateVars, workerVars
<1>2. ASSUME NEW m \in queue, Defer(m) PROVE Keeps BY <1>2 DEF Defer, gateVars, workerVars
<1>3. ASSUME NEW w \in Workers, NEW m \in queue, PutClaim(w, m) PROVE Owned' /\ OneProcessor'
  BY <1>3, <1>c, ClaimIsExclusive DEF PutClaim
<1>4. ASSUME NEW w \in Workers, NEW m \in queue, PutRefused(w, m) PROVE Keeps
  BY <1>0, <1>4 DEF PutRefused, TypeOK, gateVars
<1>5. ASSUME NEW w \in Workers, LoadRecord(w) PROVE Keeps
  <2>1. /\ record' = record
        /\ pc' \in {[pc EXCEPT ![w] = "idle"], [pc EXCEPT ![w] = "reclaiming"]}
        /\ \A v \in Workers \ {w} : token'[v] = token[v]
    BY <1>0, <1>5 DEF LoadRecord, Acknowledged, Raised, Rests, TypeOK, gateVars
  <2>. QED BY <1>0, <2>1 DEF TypeOK
<1>6. ASSUME NEW w \in Workers, Reclaim(w) PROVE Owned' /\ OneProcessor'
  <2>1. CASE Reclaimable BY <1>6, <2>1, <1>c, ClaimIsExclusive DEF Reclaim
  <2>2. CASE ~Reclaimable
    <3>1. Raised(w) /\ record' = record BY <1>6, <2>2 DEF Reclaim, gateVars
    <3>2. Keeps BY <1>0, <3>1 DEF Raised, Rests, TypeOK
    <3>. QED BY <3>2, <1>a
  <2>. QED BY <2>1, <2>2
<1>7. ASSUME NEW w \in Workers, ProcessorReturns(w) \/ ProcessorRaises(w) PROVE Keeps
  BY <1>0, <1>7 DEF ProcessorReturns, ProcessorRaises, TypeOK, gateVars
<1>8. ASSUME NEW w \in Workers, MarkCompleted(w) PROVE Owned' /\ OneProcessor'
  BY <1>8, <1>b DEF MarkCompleted, Acknowledged, Raised, Rests
<1>9. ASSUME NEW w \in Workers, MarkFailed(w) PROVE Owned' /\ OneProcessor'
  BY <1>9, <1>b DEF MarkFailed, Raised, Rests
<1>10. ASSUME NEW w \in Workers, Crash(w) PROVE Keeps
  BY <1>0, <1>10 DEF Crash, Raised, Rests, TypeOK, gateVars
<1>11. CASE LeaseExpires \/ RecordExpires
  <2>1. pc' = pc /\ token' = token BY <1>11 DEF LeaseExpires, RecordExpires, workerVars
  <2>2. \A v \in Workers : pc[v] \notin Claiming
    BY <1>11 DEF LeaseExpires, RecordExpires, Live, IInv, Owned
  <2>. QED BY <2>1, <2>2 DEF Owned, OneProcessor
<1>12. CASE RecordDeleted
  <2>1. pc' = pc /\ token' = token BY <1>12 DEF RecordDeleted, workerVars
  <2>2. \A v \in Workers : pc[v] \notin Claiming
    BY <1>12 DEF RecordDeleted, IInv, Owned
  <2>. QED BY <2>1, <2>2 DEF Owned, OneProcessor
<1>13. CASE UNCHANGED vars
  BY <1>13, <1>a DEF vars, gateVars, workerVars
<1>. QED BY <1>a, <1>1, <1>2, <1>3, <1>4, <1>5, <1>6, <1>7, <1>8, <1>9, <1>10, <1>11, <1>12, <1>13
        DEF Next, Consume, Works
----------------------------------------------------------------------------
\* A completion stamps the record, and nothing else moves covered.
LEMMA CountedStep == IInv /\ [Next]_vars => Counted'
<1>. SUFFICES ASSUME IInv, [Next]_vars PROVE Counted'
  OBVIOUS
<1>1. covered <= stamped /\ stamped <= sent /\ {covered, stamped, sent} \subseteq Nat
  BY DEF IInv, TypeInv, TypeOK, Counted
<1>2. \/ covered' = covered /\ stamped' \in {stamped, sent} /\ sent' = sent
      \/ covered' = sent /\ stamped' = sent /\ sent' = sent
      \/ covered' = covered /\ stamped' = stamped /\ sent' = sent + 1
  BY DEF Next, vars, gateVars, queueVars, workerVars, Send, Defer, Consume, Works, PutClaim,
     PutRefused, Holds, Claimed, LoadRecord, Acknowledged, Raised, Reclaim, ProcessorReturns,
     ProcessorRaises, MarkCompleted, MarkFailed, Crash, LeaseExpires, RecordExpires, RecordDeleted
<1>. QED BY <1>1, <1>2 DEF Counted

\* Messages change hands and come back, and the next one is newer than all.
LEMMA FreshKept ==
  ASSUME IInv, Fresh, covered' = covered,
         \A n \in queue' : \/ n.id = sent + 1 \/ \E o \in queue : n.id = o.id
                           \/ \E v \in Workers : pc[v] # "idle" /\ n.id = held[v].id,
         \A v \in Workers : pc'[v] # "idle" =>
            (pc[v] # "idle" /\ held'[v] = held[v]) \/ held'[v] \in queue
  PROVE  Fresh'
<1>1. sent + 1 > covered BY DEF IInv, TypeInv, TypeOK, Counted
<1>2. ASSUME NEW n \in queue' PROVE n.id > covered'
  BY <1>1, <1>2 DEF Fresh
<1>3. ASSUME NEW v \in Workers, pc'[v] # "idle" PROVE held'[v].id > covered'
  BY <1>3 DEF Fresh
<1>. QED BY <1>2, <1>3 DEF Fresh

\* What a step leaves in the queue, and in the hands of the invocations.
LEMMA Handed ==
  ASSUME IInv, [Next]_vars
  PROVE  /\ \A n \in queue' : \/ n.id = sent + 1 \/ \E o \in queue : n.id = o.id
                              \/ \E v \in Workers : pc[v] # "idle" /\ n.id = held[v].id
         /\ \A v \in Workers : pc'[v] # "idle" =>
               (pc[v] # "idle" /\ held'[v] = held[v]) \/ held'[v] \in queue
<1>. DEFINE Goal == /\ \A n \in queue' : \/ n.id = sent + 1 \/ \E o \in queue : n.id = o.id
                              \/ \E v \in Workers : pc[v] # "idle" /\ n.id = held[v].id
                    /\ \A v \in Workers : pc'[v] # "idle" =>
                         (pc[v] # "idle" /\ held'[v] = held[v]) \/ held'[v] \in queue
<1>0. TypeOK /\ TypeInv BY DEF IInv, TypeInv
<1>a. ASSUME NEW w \in Workers, pc[w] # "idle", Raised(w) PROVE Goal
  BY <1>0, <1>a, RaisedShape DEF TypeOK, Raised, Rests
<1>b. ASSUME NEW w \in Workers, pc[w] # "idle", Acknowledged(w) PROVE Goal
  BY <1>0, <1>b DEF TypeOK, Acknowledged, Rests
<1>1. CASE Send BY <1>1 DEF Send, workerVars
<1>2. ASSUME NEW m \in queue, Defer(m) PROVE Goal
  <2>1. m \in Messages /\ queue \ {m} \in SUBSET Messages BY <1>0 DEF TypeOK
  <2>2. \A n \in queue' : \E o \in queue : n.id = o.id
    BY <1>0, <1>2, <2>1, ReturnedShape DEF Defer
  <2>. QED
    BY <1>2, <2>2 DEF Defer, workerVars
<1>3. ASSUME NEW w \in Workers, NEW m \in queue, PutClaim(w, m) \/ PutRefused(w, m) PROVE Goal
  BY <1>0, <1>3 DEF PutClaim, PutRefused, Holds, Claimed, TypeOK
<1>4. ASSUME NEW w \in Workers, LoadRecord(w) PROVE Goal
  <2>1. CASE Raised(w) BY <1>4, <1>a, <2>1 DEF LoadRecord
  <2>2. CASE Acknowledged(w) BY <1>4, <1>b, <2>2 DEF LoadRecord
  <2>3. CASE pc' = [pc EXCEPT ![w] = "reclaiming"] /\ UNCHANGED <<queueVars, held, token>>
    BY <1>0, <1>4, <2>3 DEF LoadRecord, TypeOK, queueVars
  <2>. QED BY <1>4, <2>1, <2>2, <2>3 DEF LoadRecord
<1>5. ASSUME NEW w \in Workers, Reclaim(w) PROVE Goal
  <2>1. CASE Reclaimable BY <1>0, <1>5, <2>1 DEF Reclaim, Claimed, queueVars, TypeOK
  <2>2. CASE ~Reclaimable BY <1>5, <1>a, <2>2 DEF Reclaim
  <2>. QED BY <2>1, <2>2
<1>6. ASSUME NEW w \in Workers, ProcessorReturns(w) \/ ProcessorRaises(w) PROVE Goal
  BY <1>0, <1>6 DEF ProcessorReturns, ProcessorRaises, TypeOK, queueVars
<1>7. ASSUME NEW w \in Workers, MarkCompleted(w) PROVE Goal
  BY <1>7, <1>a, <1>b DEF MarkCompleted
<1>8. ASSUME NEW w \in Workers, MarkFailed(w) PROVE Goal
  BY <1>8, <1>a DEF MarkFailed
<1>9. ASSUME NEW w \in Workers, Crash(w) PROVE Goal
  BY <1>9, <1>a DEF Crash
<1>10. CASE LeaseExpires \/ RecordExpires \/ RecordDeleted
  BY <1>10 DEF LeaseExpires, RecordExpires, RecordDeleted, queueVars, workerVars
<1>11. CASE UNCHANGED vars BY <1>11 DEF vars, queueVars, workerVars
<1>. QED BY <1>1, <1>2, <1>3, <1>4, <1>5, <1>6, <1>7, <1>8, <1>9, <1>10, <1>11
        DEF Next, Consume, Works

\* Whatever a completion does not cover is newer than it, until the next one.
LEMMA FreshStep == IInv /\ [Next]_vars => FreshUnlessDone'
<1>. SUFFICES ASSUME IInv, [Next]_vars, ~(record.status = "COMPLETED" /\ record.kept)' PROVE Fresh'
  BY DEF FreshUnlessDone
<1>0. TypeOK /\ TypeInv BY DEF IInv, TypeInv
<1>a. CASE Fresh /\ covered' = covered BY <1>a, Handed, FreshKept
\* A claim finds fresh messages, every other step but these keeps the record.
<1>1. ASSUME NEW w \in Workers, \/ \E m \in queue : PutClaim(w, m)
                                \/ Reclaim(w) /\ Reclaimable
      PROVE  Fresh'
  <2>1. covered' = covered BY <1>1 DEF PutClaim, Holds, Reclaim, queueVars
  <2>. QED BY <1>1, <1>a, <2>1, ClaimIsExclusive
<1>2. CASE record' = record /\ covered' = covered
  BY <1>2, <1>a DEF IInv, FreshUnlessDone
<1>3. ASSUME NEW w \in Workers, MarkCompleted(w) PROVE Fresh'
  <2>1. CASE Owns(w) BY <1>0, <1>3, <2>1 DEF MarkCompleted, TypeOK, Records
  <2>2. CASE ~Owns(w) BY <1>2, <1>3, <2>2 DEF MarkCompleted, Raised
  <2>. QED BY <2>1, <2>2
<1>4. ASSUME NEW w \in Workers, MarkFailed(w) PROVE Fresh'
  <2>1. covered' = covered BY <1>4 DEF MarkFailed, Raised
  <2>2. CASE Owns(w) BY <1>a, <2>1, <2>2 DEF Owns, IInv, FreshUnlessDone
  <2>3. CASE ~Owns(w) BY <1>2, <1>4, <2>1, <2>3 DEF MarkFailed
  <2>. QED BY <2>2, <2>3
<1>5. CASE LeaseExpires
  <2>1. covered' = covered /\ record'.status = record.status /\ record'.kept = record.kept
    BY <1>0, <1>5 DEF LeaseExpires, queueVars, TypeOK, Records
  <2>. QED BY <1>a, <2>1 DEF IInv, FreshUnlessDone
<1>6. CASE RecordExpires
  <2>1. covered' = covered BY <1>6 DEF RecordExpires, queueVars
  <2>2. \A m \in queue : m.id \in Nat BY <1>0 DEF TypeOK, Messages
  <2>3. \A w \in Workers : pc[w] # "idle" => held[w].id \in Nat
    BY <1>0 DEF TypeInv, Holding, Messages
  <2>4. Fresh BY <1>0, <1>6, <2>2, <2>3 DEF RecordExpires, Outlived, IInv, Counted, Fresh, TypeOK
  <2>. QED BY <1>a, <2>1, <2>4
<1>7. CASE RecordDeleted
  <2>1. covered' = covered BY <1>7 DEF RecordDeleted, queueVars
  <2>. QED BY <1>7, <1>a, <2>1 DEF RecordDeleted, IInv, FreshUnlessDone
<1>8. ASSUME NEW w \in Workers, LoadRecord(w) PROVE Fresh'
  BY <1>2, <1>8 DEF LoadRecord, Raised, gateVars, queueVars
<1>9. ASSUME NEW w \in Workers, Reclaim(w) PROVE Fresh'
  <2>1. CASE Reclaimable BY <1>1, <1>9, <2>1
  <2>2. CASE ~Reclaimable BY <1>2, <1>9, <2>2 DEF Reclaim, Raised, gateVars
  <2>. QED BY <2>1, <2>2
<1>10. ASSUME NEW w \in Workers, ProcessorReturns(w) \/ ProcessorRaises(w) \/ Crash(w)
       PROVE  Fresh'
  BY <1>2, <1>10 DEF ProcessorReturns, ProcessorRaises, Crash, Raised, gateVars, queueVars
<1>11. ASSUME NEW w \in Workers, NEW m \in queue, PutClaim(w, m) \/ PutRefused(w, m)
       PROVE  Fresh'
  <2>1. CASE PutClaim(w, m) BY <1>1, <2>1
  <2>2. CASE PutRefused(w, m)
    BY <1>2, <2>2 DEF PutRefused, Holds, gateVars
  <2>. QED BY <1>11, <2>1, <2>2
<1>12. ASSUME NEW m \in queue, Defer(m) PROVE Fresh'
  BY <1>2, <1>12 DEF Defer, gateVars
<1>13. CASE Send \/ UNCHANGED vars
  BY <1>2, <1>13 DEF Send, vars, gateVars, queueVars
<1>. QED BY <1>3, <1>4, <1>5, <1>6, <1>7, <1>8, <1>9, <1>10, <1>11, <1>12, <1>13
         DEF Next, Consume, Works

\* The invariant is inductive.
LEMMA StepPreserves == IInv /\ [Next]_vars => IInv'
  BY TypeStep, OwnedStep, CountedStep, FreshStep DEF IInv

\* The invariant holds of every reachable state of the gate (idempotency.py).
THEOREM Invariance == Spec => []IInv
  BY InitEstablishes, StepPreserves, PTL DEF Spec

----------------------------------------------------------------------------
\* The table, the queue and the invocations keep the shape of their records.
THEOREM GateTypes == Spec => []TypeOK
<1>1. IInv => TypeOK BY DEF IInv, TypeInv
<1>. QED BY <1>1, Invariance, PTL

\* For any number of invocations and messages, one processes the event at a time.
THEOREM GateIsExclusive == Spec => []OneProcessor
<1>1. IInv => OneProcessor BY DEF IInv
<1>. QED BY <1>1, Invariance, PTL

\* No message sent before a completion has the event processed again.
THEOREM GateIsFinal == Spec => NotAgain
<1>1. ASSUME IInv, [Next]_vars, NEW w \in Workers, pc[w] \notin Claiming, pc'[w] \in Claiming
      PROVE  held'[w].id > covered
  <2>0. TypeOK BY <1>1 DEF IInv, TypeInv
  <2>1. (\E m \in queue : PutClaim(w, m)) \/ (Reclaim(w) /\ Reclaimable)
    BY <1>1, <2>0 DEF Next, vars, gateVars, queueVars, workerVars, Send, Defer, Consume, Works, PutClaim,
       PutRefused, Holds, Claimed, LoadRecord, Acknowledged, Raised, Rests, Reclaim,
       ProcessorReturns, ProcessorRaises, MarkCompleted, MarkFailed, Crash, LeaseExpires,
       RecordExpires, RecordDeleted, Claiming, TypeOK
  <2>2. Fresh BY <1>1, <2>1, ClaimIsExclusive
  <2>3. CASE \E m \in queue : PutClaim(w, m)
    BY <2>0, <2>2, <2>3 DEF Fresh, PutClaim, Holds, TypeOK
  <2>4. CASE Reclaim(w) /\ Reclaimable
    BY <2>2, <2>4 DEF Fresh, Reclaim
  <2>. QED BY <2>1, <2>3, <2>4
<1>2. IInv /\ [Next]_vars =>
        [\A w \in Workers :
           pc[w] \notin Claiming /\ pc'[w] \in Claiming => held'[w].id > covered]_vars
  BY <1>1
<1>. QED BY <1>2, Invariance, PTL DEF Spec, NotAgain

----------------------------------------------------------------------------
(***************************************************************************)
(* What a message's receives are spent on.  Each goes to a failure of its  *)
(* own, to the claim of another invocation it met, which it meets once,    *)
(* or, once, to a record that is being deleted.                            *)
(***************************************************************************)
Trying == \E w \in Workers : pc[w] \in {"processing", "completing"} /\ token[w] = record.token
\* The record's claim came to nothing, and a message may still have to meet it.
Failed == record.status \in {"IN_PROGRESS", "FAILED"} /\ ~Trying
Waiting(w) == pc[w] \in {"loading", "reclaiming"}

Spent(m) == MaxReceives - m.left
\* A record newer than the message was put after the one that it saw deleted.
Grace(m, waits) == IF stamped >= m.id \/ (record.status = "NONE" /\ ~waits) THEN 1 ELSE 0
\* It waits out a claim that may still complete.
Promised(m) == IF m.after = record.token /\ Trying THEN 1 ELSE 0
\* It has not yet met the claim that failed.
Due(m) == IF m.after # record.token /\ Failed THEN 1 ELSE 0
Paid(m, waits) == Spent(m) + Due(m) <= failures + Grace(m, waits) + Promised(m)

Good(m, waits) ==
  /\ m.id \in 1 .. sent /\ m.after <= claims
  /\ record.status = "NONE" \/ ~record.kept => m.id > stamped
  /\ m.id > covered => Paid(m, waits)
Lost(i) ==
  /\ i \in 1 .. sent
  /\ \/ i <= covered
     \/ failures >= MaxReceives - 1
     \/ Trying /\ failures + 1 >= MaxReceives - 1

\* What an invocation read of the record before it tries to take it over.
Met(w) ==
  /\ Waiting(w) => ~(record.leased /\ record.token = held[w].after)
  /\ pc[w] = "reclaiming" /\ Done => held[w].id <= covered
  /\ pc[w] \in Claiming => held[w].after # record.token

\* A message an invocation holds.
Here(w) ==
  \A m \in Messages, b \in BOOLEAN :
     pc[w] # "idle" /\ m = held[w] /\ (b <=> Waiting(w)) => Good(m, b)

AInv ==
  /\ IInv
  /\ record.token <= claims /\ (Failed => failures >= 1)
  /\ \A w \in Workers : pc[w] = "failing" => failures >= 1
  /\ \A m \in queue : Good(m, FALSE)
  /\ \A w \in Workers : Here(w) /\ Met(w)
  /\ \A i \in dead : Lost(i)
----------------------------------------------------------------------------
LEMMA AFacts ==
  ASSUME AInv
  PROVE  /\ IInv /\ TypeInv /\ TypeOK
         /\ record.status \in {"NONE", "IN_PROGRESS", "FAILED", "COMPLETED"}
         /\ record.token \in Nat /\ record.token <= claims
         /\ {claims, sent, stamped, covered, failures, MaxReceives} \subseteq Nat
         /\ covered <= stamped /\ stamped <= sent /\ MaxReceives > 0
         /\ queue \subseteq Messages
         /\ \A w \in Workers : pc[w] # "idle" => held[w] \in Messages
  BY GateAssumption DEF AInv, IInv, TypeInv, TypeOK, Holding, Counted, Records

LEMMA MessageFacts ==
  ASSUME NEW m \in Messages
  PROVE  m.id \in Nat /\ m.after \in Nat /\ m.left \in Nat /\ m.left >= 1 /\ m.left <= MaxReceives
  BY GateAssumption DEF Messages

\* What a step can do to the record and to the counters.
Unmoved ==
  /\ record'.status = record.status /\ record'.token = record.token /\ (Trying' <=> Trying)
  /\ failures' \in {failures, failures + 1} /\ UNCHANGED <<stamped, covered, claims>>
GivesUp ==
  /\ record'.status = record.status /\ record'.token = record.token /\ Trying /\ ~Trying'
  /\ failures' = failures + 1 /\ UNCHANGED <<stamped, covered, claims>>
MakesClaim ==
  /\ record'.status = "IN_PROGRESS" /\ record'.kept /\ record'.token = claims + 1
  /\ ~Trying /\ Trying'
  /\ claims' = claims + 1 /\ stamped' = sent /\ UNCHANGED <<failures, covered>>
Completes ==
  /\ record'.status = "COMPLETED" /\ record'.kept /\ record'.token = record.token /\ ~Trying'
  /\ covered' = sent /\ stamped' = sent /\ UNCHANGED <<failures, claims>>
MarksFailure ==
  /\ record.status = "IN_PROGRESS" /\ record'.status = "FAILED" /\ record'.kept
  /\ record'.token = record.token /\ ~Trying /\ ~Trying'
  /\ stamped' = sent /\ UNCHANGED <<failures, covered, claims>>
Deletes ==
  /\ ~record.kept /\ record'.status = "NONE" /\ record'.token = 0 /\ ~Trying /\ ~Trying'
  /\ UNCHANGED <<stamped, failures, covered, claims>>
Effect == Unmoved \/ GivesUp \/ MakesClaim \/ Completes \/ MarksFailure \/ Deletes
\* An expired record stays expired, until there is a new one.
Expiry ==
  record'.status = "NONE" \/ ~record'.kept =>
    stamped' = stamped /\ (record.status = "NONE" \/ ~record.kept \/ Outlived)

LEMMA TryingEnds ==
  ASSUME AInv, NEW w \in Workers, pc[w] \in Claiming, pc'[w] \notin {"processing", "completing"},
         \A v \in Workers \ {w} : pc'[v] = pc[v] /\ token'[v] = token[v]
  PROVE  ~Trying'
  BY DEF Trying, Claiming, AInv, IInv, OneProcessor

LEMMA TryingStays ==
  ASSUME AInv, NEW w \in Workers, pc[w] \notin Claiming, pc'[w] \notin Claiming, record'.token = record.token,
         \A v \in Workers \ {w} : pc'[v] = pc[v] /\ token'[v] = token[v]
  PROVE  Trying' <=> Trying
  BY DEF Trying, Claiming

LEMMA RestsFacts ==
  ASSUME AInv, NEW w \in Workers, Rests(w)
  PROVE  /\ pc' = [pc EXCEPT ![w] = "idle"] /\ pc'[w] = "idle"
         /\ \A v \in Workers \ {w} : pc'[v] = pc[v] /\ token'[v] = token[v] /\ held'[v] = held[v]
  BY AFacts DEF Rests, TypeOK

\* An invocation that stops outside of a claim of its own, or in one.
LEMMA RaiseEffect ==
  ASSUME AInv, NEW w \in Workers, Rests(w), record' = record, UNCHANGED <<stamped, covered, claims>>,
         \/ pc[w] \notin {"processing", "completing"} /\ failures' \in {failures, failures + 1}
         \/ failures' = failures + 1
  PROVE  Effect
<1>1. CASE pc[w] \notin Claiming
  BY <1>1, RestsFacts, TryingStays DEF Effect, Unmoved, Claiming
<1>2. CASE pc[w] \in Claiming
  <2>1. ~Trying' BY <1>2, RestsFacts, TryingEnds
  <2>2. pc[w] = "failing" => ~Trying BY DEF Trying, AInv, IInv, OneProcessor, Claiming
  <2>3. pc[w] # "failing" => Trying BY <1>2 DEF Trying, AInv, IInv, Owned, Claiming
  <2> QED BY <1>2, <2>1, <2>2, <2>3 DEF Effect, Unmoved, GivesUp, Claiming
<1> QED BY <1>1, <1>2

LEMMA ClaimEffect ==
  ASSUME AInv, NEW w \in Workers, Claimed(w), \A v \in Workers : pc[v] \notin Claiming,
         UNCHANGED <<failures, covered>>
  PROVE  Effect
<1>1. ~Trying BY DEF Trying, Claiming
<1>2. Trying' BY AFacts DEF Trying, Claimed, TypeOK
<1> QED BY <1>1, <1>2 DEF Effect, MakesClaim, Claimed

LEMMA StepEffect ==
  ASSUME AInv, [Next]_vars
  PROVE  Effect /\ Expiry
<1> USE AFacts
<1>a. ASSUME record' = record, stamped' = stamped PROVE Expiry BY <1>a DEF Expiry
<1>b. ASSUME record'.status # "NONE", record'.kept PROVE Expiry BY <1>b DEF Expiry
<1>c. ASSUME record' = record, UNCHANGED <<stamped, covered, claims, pc, token>>,
             failures' \in {failures, failures + 1}
      PROVE  Effect
  BY <1>c DEF Effect, Unmoved, Trying
<1>1. CASE Send BY <1>1, <1>a, <1>c DEF Send, gateVars, workerVars
<1>2. ASSUME NEW m \in queue, Defer(m) PROVE Effect /\ Expiry
  BY <1>2, <1>a, <1>c DEF Defer, gateVars, workerVars
<1>3. ASSUME NEW w \in Workers, NEW m \in queue, PutClaim(w, m) PROVE Effect /\ Expiry
  <2>1. Claimed(w) /\ UNCHANGED <<failures, covered>> BY <1>3 DEF PutClaim, Holds
  <2>2. \A v \in Workers : pc[v] \notin Claiming BY <1>3, ClaimIsExclusive
  <2> QED BY <1>b, <2>1, <2>2, ClaimEffect DEF Claimed
<1>4. ASSUME NEW w \in Workers, NEW m \in queue, PutRefused(w, m) PROVE Effect /\ Expiry
  <2>1. Trying' <=> Trying BY <1>4, TryingStays DEF PutRefused, TypeOK, gateVars, Claiming
  <2> QED BY <1>4, <1>a, <2>1 DEF PutRefused, Holds, gateVars, Effect, Unmoved
<1>5. ASSUME NEW w \in Workers, LoadRecord(w) PROVE Effect /\ Expiry
  <2>1. CASE Rests(w)
    BY <1>5, <1>a, <2>1, RaiseEffect DEF LoadRecord, Acknowledged, Raised, gateVars, queueVars
  <2>2. CASE pc' = [pc EXCEPT ![w] = "reclaiming"] /\ UNCHANGED <<queueVars, held, token>>
    <3>1. Trying' <=> Trying BY <1>5, <2>2, TryingStays DEF LoadRecord, TypeOK, gateVars, Claiming
    <3> QED BY <1>5, <1>a, <2>2, <3>1 DEF LoadRecord, gateVars, queueVars, Effect, Unmoved
  <2> QED BY <1>5, <2>1, <2>2 DEF LoadRecord, Acknowledged, Raised
<1>6. ASSUME NEW w \in Workers, Reclaim(w) PROVE Effect /\ Expiry
  <2>1. CASE Reclaimable
    <3>1. Claimed(w) /\ UNCHANGED <<failures, covered>> BY <1>6, <2>1 DEF Reclaim, queueVars
    <3>2. \A v \in Workers : pc[v] \notin Claiming BY <1>6, <2>1, ClaimIsExclusive
    <3> QED BY <1>b, <3>1, <3>2, ClaimEffect DEF Claimed
  <2>2. CASE ~Reclaimable
    BY <1>6, <1>a, <2>2, RaiseEffect DEF Reclaim, Raised, gateVars, queueVars
  <2> QED BY <2>1, <2>2
<1>7. ASSUME NEW w \in Workers, ProcessorReturns(w) PROVE Effect /\ Expiry
  <2>1. Trying' <=> Trying BY <1>7 DEF ProcessorReturns, gateVars, Trying, TypeOK
  <2> QED BY <1>7, <1>a, <2>1 DEF ProcessorReturns, gateVars, queueVars, Effect, Unmoved
<1>8. ASSUME NEW w \in Workers, ProcessorRaises(w) PROVE Effect /\ Expiry
  <2>1. Trying BY <1>8 DEF ProcessorRaises, Trying, AInv, IInv, Owned, Claiming
  <2>2. ~Trying' BY <1>8, TryingEnds DEF ProcessorRaises, TypeOK, Claiming
  <2> QED BY <1>8, <1>a, <2>1, <2>2 DEF ProcessorRaises, gateVars, queueVars, Effect, GivesUp
<1>9. ASSUME NEW w \in Workers, MarkCompleted(w) PROVE Effect /\ Expiry
  <2>1. Owns(w) BY <1>9 DEF MarkCompleted, Owns, AInv, IInv, Owned, Claiming
  <2>2. Rests(w) BY <1>9, <2>1 DEF MarkCompleted, Acknowledged
  <2>3. ~Trying' BY <1>9, <2>2, RestsFacts, TryingEnds DEF MarkCompleted, Claiming
  <2>4. record' = [record EXCEPT !.status = "COMPLETED", !.leased = FALSE, !.kept = TRUE]
    BY <1>9, <2>1 DEF MarkCompleted
  <2>5. record'.status = "COMPLETED" /\ record'.kept /\ record'.token = record.token
    BY <2>4 DEF TypeOK, Records
  <2> QED BY <1>9, <1>b, <2>1, <2>3, <2>5 DEF MarkCompleted, Effect, Completes
<1>10. ASSUME NEW w \in Workers, MarkFailed(w) PROVE Effect /\ Expiry
  <2>1. Owns(w) /\ record.kept BY <1>10 DEF MarkFailed, Owns, AInv, IInv, Owned, Claiming
  <2>2. Rests(w) BY <1>10 DEF MarkFailed, Raised
  <2>3. ~Trying' BY <1>10, <2>2, RestsFacts, TryingEnds DEF MarkFailed, Claiming
  <2>4. ~Trying BY <1>10 DEF MarkFailed, Trying, AInv, IInv, OneProcessor, Claiming
  <2>5. record' = [record EXCEPT !.status = "FAILED", !.leased = FALSE]
    BY <1>10, <2>1 DEF MarkFailed
  <2>6. record'.status = "FAILED" /\ record'.kept /\ record'.token = record.token
    BY <2>1, <2>5 DEF TypeOK, Records
  <2> QED BY <1>10, <1>b, <2>1, <2>3, <2>4, <2>6 DEF MarkFailed, Owns, Raised, Effect, MarksFailure
<1>11. ASSUME NEW w \in Workers, Crash(w) PROVE Effect /\ Expiry
  BY <1>11, <1>a, RaiseEffect DEF Crash, Raised, gateVars
<1>12. CASE LeaseExpires
  <2>1. record'.status = record.status /\ record'.token = record.token /\ record'.kept = record.kept
    BY <1>12 DEF LeaseExpires, TypeOK, Records
  <2>2. Trying' <=> Trying BY <1>12, <2>1 DEF LeaseExpires, workerVars, Trying
  <2> QED BY <1>12, <2>1, <2>2 DEF LeaseExpires, queueVars, Effect, Unmoved, Expiry
<1>13. CASE RecordExpires
  <2>1. record'.status = record.status /\ record'.token = record.token
    BY <1>13 DEF RecordExpires, TypeOK, Records
  <2>2. Trying' <=> Trying BY <1>13, <2>1 DEF RecordExpires, workerVars, Trying
  <2> QED BY <1>13, <2>1, <2>2 DEF RecordExpires, queueVars, Effect, Unmoved, Expiry
<1>14. CASE RecordDeleted
  <2>1. ~Trying BY <1>14 DEF RecordDeleted, Trying, AInv, IInv, Owned, Claiming
  <2>2. ~Trying' BY <1>14 DEF RecordDeleted, workerVars, Trying, AInv, IInv, Owned, Claiming
  <2> QED BY <1>14, <2>1, <2>2 DEF RecordDeleted, NoRecord, queueVars, Effect, Deletes, Expiry
<1>15. CASE UNCHANGED vars
  BY <1>15, <1>a, <1>c DEF vars, gateVars, queueVars, workerVars
<1> QED BY <1>1, <1>2, <1>3, <1>4, <1>5, <1>6, <1>7, <1>8, <1>9, <1>10, <1>11, <1>12, <1>13, <1>14,
           <1>15 DEF Next, Consume, Works

----------------------------------------------------------------------------
LEMMA NoTryingWithout ==
  ASSUME AInv, record.status # "IN_PROGRESS" \/ ~record.kept
  PROVE  ~Trying
  BY DEF AInv, IInv, Owned, Trying, Claiming

\* A message that stays where it is stays good, whatever happens to the record.
LEMMA GoodStays ==
  ASSUME AInv, [Next]_vars, NEW m \in Messages, NEW b \in BOOLEAN, Good(m, b), Outlived => m.id > stamped
  PROVE  Good(m, b)'
<1> USE AFacts, MessageFacts
<1>0. Effect /\ Expiry BY StepEffect
<1>1. sent' \in Nat /\ sent' >= sent /\ claims' >= claims /\ claims' \in Nat
  <2>1. sent' \in {sent, sent + 1}
    BY DEF Next, vars, gateVars, queueVars, workerVars, Send, Defer, Consume, Works, PutClaim,
       PutRefused, Holds, Claimed, LoadRecord, Acknowledged, Raised, Reclaim, ProcessorReturns,
       ProcessorRaises, MarkCompleted, MarkFailed, Crash, LeaseExpires, RecordExpires, RecordDeleted
  <2>2. claims' \in {claims, claims + 1}
    BY <1>0 DEF Effect, Unmoved, GivesUp, MakesClaim, Completes, MarksFailure, Deletes
  <2> QED BY <2>1, <2>2
<1>2. m.id \in 1 .. sent' /\ m.after <= claims' BY <1>1 DEF Good
<1>3. record'.status = "NONE" \/ ~record'.kept => m.id > stamped' BY <1>0 DEF Expiry, Good
<1>4. ASSUME m.id > covered' PROVE Paid(m, b)'
  <2>1. CASE Completes BY <1>4, <2>1 DEF Completes, Good
  <2>2. ASSUME covered' = covered PROVE Paid(m, b) BY <1>4, <2>2 DEF Good
  <2>3. CASE Unmoved
    BY <2>2, <2>3 DEF Unmoved, Paid, Spent, Due, Grace, Promised, Failed
  <2>4. CASE GivesUp
    BY <2>2, <2>4 DEF GivesUp, Paid, Spent, Due, Grace, Promised, Failed
  <2>5. CASE MakesClaim
    <3>1. m.after # claims + 1 BY DEF Good
    <3>2. m.id <= stamped' BY <2>5 DEF MakesClaim, Good
    <3> QED BY <2>2, <2>5, <3>1, <3>2 DEF MakesClaim, Paid, Spent, Due, Grace, Promised, Failed
  <2>6. CASE MarksFailure
    <3>1. m.id <= stamped' BY <2>6 DEF MarksFailure, Good
    <3> QED BY <2>2, <2>6, <3>1 DEF MarksFailure, Paid, Spent, Due, Grace, Promised, Failed
  <2>7. CASE Deletes
    BY <2>2, <2>7 DEF Deletes, Paid, Spent, Due, Grace, Promised, Failed
  <2> QED BY <1>0, <2>1, <2>3, <2>4, <2>5, <2>6, <2>7 DEF Effect
<1> QED BY <1>2, <1>3, <1>4 DEF Good

\* What is lost for a cause stays so.
LEMMA LostStays ==
  ASSUME AInv, [Next]_vars, NEW i, Lost(i)
  PROVE  Lost(i)'
<1> USE AFacts
<1>0. Effect BY StepEffect
<1>1. sent' \in {sent, sent + 1}
  BY DEF Next, vars, gateVars, queueVars, workerVars, Send, Defer, Consume, Works, PutClaim,
     PutRefused, Holds, Claimed, LoadRecord, Acknowledged, Raised, Reclaim, ProcessorReturns,
     ProcessorRaises, MarkCompleted, MarkFailed, Crash, LeaseExpires, RecordExpires, RecordDeleted
<1>2. i \in 1 .. sent' BY <1>1 DEF Lost
<1>3. i <= covered => i <= covered' \/ covered' = sent
  BY <1>0 DEF Effect, Unmoved, GivesUp, MakesClaim, Completes, MarksFailure, Deletes
<1>4. failures' \in {failures, failures + 1}
  BY <1>0 DEF Effect, Unmoved, GivesUp, MakesClaim, Completes, MarksFailure, Deletes
<1>5. Trying => Trying' \/ failures' = failures + 1 \/ covered' = sent
  BY <1>0 DEF Effect, Unmoved, GivesUp, MakesClaim, Completes, MarksFailure, Deletes
<1> QED BY <1>2, <1>3, <1>4, <1>5 DEF Lost

\* A message that comes back is good again when its receive was accounted for.
LEMMA BackGood ==
  ASSUME AInv, [Next]_vars, NEW m \in Messages, NEW others, Returned(m, others),
         m.id \in 1 .. sent, sent' = sent, record'.token = record.token, claims' = claims,
         record'.status = "NONE" \/ ~record'.kept => m.id > stamped',
         m.id > covered' => Spent(m) + 1 <= failures'
              + (IF stamped' >= m.id \/ record'.status = "NONE" THEN 1 ELSE 0)
              + (IF Trying' THEN 1 ELSE 0),
         failures' \in Nat, stamped' \in Nat, covered' \in Nat
  PROVE  /\ \A n \in queue' : n \in others \/ Good(n, FALSE)'
         /\ \A i \in dead' : i \in dead \/ Lost(i)'
<1> USE AFacts, MessageFacts
<1>1. CASE m.left > 1
  <2>1. PICK back : back = [m EXCEPT !.left = @ - 1, !.after = record.token] OBVIOUS
  <2>2. back.id = m.id /\ back.left = m.left - 1 /\ back.after = record.token BY <2>1 DEF Messages
  <2>5. queue' = others \cup {back} /\ dead' = dead BY <1>1, <2>1 DEF Returned
  <2>3. back.id > covered' => Paid(back, FALSE)'
    BY <2>2 DEF Paid, Spent, Due, Grace, Promised
  <2>4. Good(back, FALSE)' BY <2>2, <2>3 DEF Good
  <2> QED BY <2>4, <2>5
<1>2. CASE ~(m.left > 1)
  <2>1. queue' = others /\ dead' = dead \cup {m.id} BY <1>2 DEF Returned
  <2>2. Spent(m) + 1 = MaxReceives BY <1>2 DEF Spent
  <2>3. Lost(m.id)' BY <2>2 DEF Lost
  <2> QED BY <2>1, <2>3
<1> QED BY <1>1, <1>2

\* Waiting or not matters only while there is no record.
LEMMA WaitingOrNot ==
  ASSUME NEW m, Good(m, TRUE)' \/ (Good(m, FALSE)' /\ record'.status # "NONE"),
         {failures', stamped', m.id} \subseteq Nat, m.left \in Nat, MaxReceives \in Nat
  PROVE  Good(m, FALSE)' /\ (record'.status # "NONE" => Good(m, TRUE)')
BY DEF Good, Paid, Spent, Due, Grace, Promised

\* What a step makes of the record's lease and of its completion.
LEMMA LeaseEffect ==
  ASSUME AInv, [Next]_vars
  PROVE  /\ record'.leased => \/ record.leased /\ record'.token = record.token
                              \/ record'.token = claims + 1
         /\ Done' => Done \/ covered' = sent
<1> USE AFacts
<1>1. \/ record' \in {record, NoRecord, [record EXCEPT !.leased = FALSE], [record EXCEPT !.kept = FALSE],
                      [record EXCEPT !.status = "FAILED", !.leased = FALSE],
                      [status |-> "IN_PROGRESS", token |-> claims + 1, leased |-> TRUE, kept |-> TRUE]}
      \/ /\ record' = [record EXCEPT !.status = "COMPLETED", !.leased = FALSE, !.kept = TRUE]
         /\ covered' = sent
  BY DEF Next, vars, gateVars, queueVars, workerVars, Send, Defer, Consume, Works, PutClaim,
     PutRefused, Holds, Claimed, LoadRecord, Acknowledged, Raised, Reclaim, ProcessorReturns,
     ProcessorRaises, MarkCompleted, MarkFailed, Crash, LeaseExpires, RecordExpires, RecordDeleted
<1>2. record \in [status : {"NONE", "IN_PROGRESS", "FAILED", "COMPLETED"}, token : Nat,
                  leased : BOOLEAN, kept : BOOLEAN]
  BY DEF TypeOK, Records
<1>3. CASE covered' = sent /\ record' = [record EXCEPT !.status = "COMPLETED", !.leased = FALSE, !.kept = TRUE]
  BY <1>2, <1>3
<1>4. CASE record' = [status |-> "IN_PROGRESS", token |-> claims + 1, leased |-> TRUE, kept |-> TRUE]
  BY <1>4 DEF Done
<1>5. CASE record' = NoRecord BY <1>5 DEF Done, NoRecord
<1>6. CASE record' = record BY <1>6 DEF Done
<1>7. CASE record' \in {[record EXCEPT !.leased = FALSE], [record EXCEPT !.kept = FALSE],
                        [record EXCEPT !.status = "FAILED", !.leased = FALSE]}
  <2>1. /\ record'.leased => record.leased /\ record'.token = record.token
        /\ record'.status = "COMPLETED" /\ record'.kept => record.status = "COMPLETED" /\ record.kept
    BY <1>2, <1>7
  <2> QED BY <2>1 DEF Done
<1> QED BY <1>1, <1>3, <1>4, <1>5, <1>6, <1>7

LEMMA MetStays ==
  ASSUME AInv, [Next]_vars, NEW w \in Workers, pc'[w] = pc[w], held'[w] = held[w], token'[w] = token[w]
  PROVE  Met(w)'
<1> USE AFacts
<1>0. Effect BY StepEffect
<1>1. covered' = sent \/ covered' = covered
  BY <1>0 DEF Effect, Unmoved, GivesUp, MakesClaim, Completes, MarksFailure, Deletes
<1>2. CASE pc[w] = "idle" BY <1>2 DEF Met, Waiting, Claiming
<1>3. CASE pc[w] # "idle"
  <2>1. Met(w) /\ held[w].id <= sent /\ held[w].after <= claims /\ held[w] \in Messages
    <3>1. held[w] \in Messages /\ Waiting(w) \in BOOLEAN BY <1>3 DEF Waiting
    <3>2. Good(held[w], Waiting(w)) BY <1>3, <3>1 DEF AInv, Here
    <3> QED BY <3>1, <3>2, MessageFacts DEF AInv, Good
  <2>2. held[w].after # claims + 1 BY <2>1, MessageFacts
  <2>3. pc'[w] \in Claiming => record'.token = record.token
    BY StepPreserves DEF IInv, Owned
  <2> QED BY <1>1, <2>1, <2>2, <2>3, LeaseEffect DEF Met, Waiting, Done
<1> QED BY <1>2, <1>3

LEMMA QueuedStay ==
  ASSUME AInv, [Next]_vars, NEW m \in queue
  PROVE  Good(m, FALSE)'
BY AFacts, GoodStays DEF AInv, Outlived

LEMMA HeldStay ==
  ASSUME AInv, [Next]_vars, NEW w \in Workers, pc[w] # "idle", NEW m \in Messages, m = held[w],
         NEW b \in BOOLEAN, (b <=> Waiting(w))
  PROVE  Good(m, b)'
BY AFacts, GoodStays DEF AInv, Outlived, Here

LEMMA OthersStay ==
  ASSUME AInv, [Next]_vars, NEW w \in Workers, pc'[w] = pc[w], held'[w] = held[w], token'[w] = token[w]
  PROVE  Here(w)' /\ Met(w)'
<1>1. Met(w)' BY MetStays
<1>2. Waiting(w)' <=> Waiting(w) BY DEF Waiting
<1> QED BY <1>1, <1>2, HeldStay DEF Here

----------------------------------------------------------------------------
Placed ==
  /\ \A m \in queue : Good(m, FALSE)
  /\ \A w \in Workers : Here(w) /\ Met(w)
  /\ \A i \in dead : Lost(i)

LEMMA CounterTypes ==
  ASSUME AInv, [Next]_vars
  PROVE  {failures', stamped', covered', sent', claims'} \subseteq Nat
BY AFacts, TypeStep DEF TypeInv, TypeOK

\* An invocation that ends leaves the others and the queue as they were.
LEMMA RestKeeps ==
  ASSUME AInv, [Next]_vars, NEW w \in Workers, Rests(w),
         \A m \in queue' : m \in queue \/ Good(m, FALSE)', \A i \in dead' : i \in dead \/ Lost(i)'
  PROVE  Placed'
<1>1. \A v \in Workers : Here(v)' /\ Met(v)'
  <2>1. Here(w)' /\ Met(w)' BY RestsFacts DEF Here, Met, Waiting, Claiming
  <2>2. \A v \in Workers \ {w} : Here(v)' /\ Met(v)' BY RestsFacts, OthersStay
  <2> QED BY <2>1, <2>2
<1>2. \A m \in queue' : Good(m, FALSE)' BY QueuedStay
<1>3. \A i \in dead' : Lost(i)' BY LostStays DEF AInv
<1> QED BY <1>1, <1>2, <1>3 DEF Placed

LEMMA RaiseKeeps ==
  ASSUME AInv, [Next]_vars, NEW w \in Workers, pc[w] # "idle", Raised(w), claims' = claims,
         record'.token = record.token,
         held[w].id > covered' => Spent(held[w]) + 1 <= failures'
              + (IF stamped' >= held[w].id \/ record'.status = "NONE" THEN 1 ELSE 0)
              + (IF Trying' THEN 1 ELSE 0)
  PROVE  Placed'
<1> USE AFacts
<1>1. PICK m \in Messages : m = held[w] OBVIOUS
<1>2. \E b \in BOOLEAN : Good(m, b)
  <2>1. PICK b \in BOOLEAN : (b <=> Waiting(w)) BY DEF Waiting
  <2> QED BY <1>1, <2>1 DEF AInv, Here
<1>3. m.id \in 1 .. sent /\ sent' = sent BY <1>2 DEF Good, Raised
<1>4. record'.status = "NONE" \/ ~record'.kept => m.id > stamped'
  BY <1>1, <1>2, StepEffect DEF Expiry, Outlived, Good
<1>5. Rests(w) /\ Returned(m, queue) BY <1>1 DEF Raised
<1>6. /\ \A n \in queue' : n \in queue \/ Good(n, FALSE)'
      /\ \A i \in dead' : i \in dead \/ Lost(i)'
  BY <1>1, <1>3, <1>4, <1>5, BackGood, CounterTypes
<1> QED BY <1>5, <1>6, RestKeeps

LEMMA AcknowledgeKeeps ==
  ASSUME AInv, [Next]_vars, NEW w \in Workers, Acknowledged(w)
  PROVE  Placed'
BY RestKeeps DEF Acknowledged

\* The receive that met the record as it is: another's claim, or no record at all.
LEMMA MeetingPaid ==
  ASSUME AInv, NEW w \in Workers, Waiting(w), NEW m \in Messages, m = held[w], m.id > covered,
         \/ record.status = "NONE"
         \/ record.status = "IN_PROGRESS" /\ record.leased
  PROVE  Spent(m) + 1 <= failures + (IF stamped >= m.id \/ record.status = "NONE" THEN 1 ELSE 0)
                                  + (IF Trying THEN 1 ELSE 0)
<1> USE AFacts, MessageFacts
<1>1. Good(m, TRUE) BY DEF AInv, Here, Waiting
<1>2. CASE record.status = "NONE"
  <2>1. ~Trying BY <1>2, NoTryingWithout
  <2>2. ~(stamped >= m.id) BY <1>1, <1>2 DEF Good
  <2> QED BY <1>1, <1>2, <2>1, <2>2 DEF Good, Paid, Spent, Due, Grace, Promised
<1>3. CASE record.status = "IN_PROGRESS" /\ record.leased
  <2>1. m.after # record.token BY <1>3 DEF AInv, Met
  <2> QED BY <1>1, <1>3, <2>1 DEF Good, Paid, Spent, Due, Grace, Promised, Failed
<1> QED BY <1>2, <1>3

\* Every action keeps what is said of the messages.
LEMMA PlacedStep == AInv /\ [Next]_vars => Placed'
<1> SUFFICES ASSUME AInv, [Next]_vars PROVE Placed'
  OBVIOUS
<1> USE AFacts
<1>k. ASSUME UNCHANGED <<pc, held, token>>, \A m \in queue' : m \in queue \/ Good(m, FALSE)',
             \A i \in dead' : i \in dead \/ Lost(i)'
      PROVE  Placed'
  BY <1>k, QueuedStay, OthersStay, LostStays DEF AInv, Placed
<1>1. CASE Send
  <2>1. PICK m \in Messages : m = [id |-> sent + 1, left |-> MaxReceives, after |-> 0]
    <3>1. sent + 1 \in Nat /\ MaxReceives \in 1 .. MaxReceives BY GateAssumption
    <3>2. [id |-> sent + 1, left |-> MaxReceives, after |-> 0] \in Messages BY <3>1 DEF Messages
    <3> QED BY <3>2
  <2>2. Good(m, FALSE)'
    <3>1. /\ m.id = sent + 1 /\ m.left = MaxReceives /\ m.after = 0 /\ sent' = sent + 1
          /\ record' = record /\ stamped' = stamped /\ failures' = failures /\ claims' = claims
      BY <1>1, <2>1 DEF Send, gateVars
    <3>2. Failed' => failures' >= 1
      BY <1>1 DEF Send, gateVars, workerVars, AInv, Failed, Trying
    <3> QED BY <3>1, <3>2 DEF Good, Paid, Spent, Due, Grace, Promised
  <2> QED BY <1>1, <1>k, <2>1, <2>2 DEF Send, workerVars
<1>2. ASSUME NEW m \in queue, Defer(m) PROVE Placed'
  <2>1. /\ record' = record /\ stamped' = stamped /\ failures' = failures + 1 /\ claims' = claims
        /\ (Trying' <=> Trying) /\ covered' = covered /\ sent' = sent /\ Returned(m, queue \ {m})
    BY <1>2 DEF Defer, gateVars, workerVars, Trying
  <2>2. Good(m, FALSE) /\ m \in Messages BY DEF AInv
  <2>3. m.id > covered => Spent(m) + 1 <= failures'
              + (IF stamped' >= m.id \/ record'.status = "NONE" THEN 1 ELSE 0)
              + (IF Trying' THEN 1 ELSE 0)
    BY <2>1, <2>2, MessageFacts DEF Good, Paid, Spent, Due, Grace, Promised
  <2>4. /\ \A n \in queue' : n \in queue \ {m} \/ Good(n, FALSE)'
        /\ \A i \in dead' : i \in dead \/ Lost(i)'
    BY <2>1, <2>2, <2>3, BackGood, CounterTypes DEF Good
  <2> QED BY <1>2, <1>k, <2>4 DEF Defer, workerVars
<1>3. ASSUME NEW w \in Workers, NEW m \in queue, PutClaim(w, m) PROVE Placed'
  <2>1. /\ pc'[w] = "processing" /\ held'[w] = m /\ queue' = queue \ {m} /\ dead' = dead
        /\ record'.token = claims + 1
        /\ \A v \in Workers \ {w} : pc'[v] = pc[v] /\ held'[v] = held[v] /\ token'[v] = token[v]
    BY <1>3 DEF PutClaim, Holds, Claimed, TypeOK
  <2>2. Good(m, FALSE)' BY QueuedStay
  <2>3. m.after # claims + 1
    <3>1. Good(m, FALSE) BY DEF AInv
    <3>2. m.after \in Nat /\ claims \in Nat BY MessageFacts
    <3> QED BY <3>1, <3>2 DEF Good
  <2>4. Here(w)' /\ Met(w)' BY <2>1, <2>2, <2>3 DEF Here, Met, Waiting, Claiming
  <2> QED BY <2>1, <2>4, QueuedStay, OthersStay, LostStays DEF AInv, Placed
<1>4. ASSUME NEW w \in Workers, NEW m \in queue, PutRefused(w, m) PROVE Placed'
  <2>1. /\ pc'[w] = "loading" /\ held'[w] = m /\ queue' = queue \ {m} /\ dead' = dead
        /\ record' = record /\ record.status # "NONE" /\ Receivable(m)
        /\ \A v \in Workers \ {w} : pc'[v] = pc[v] /\ held'[v] = held[v] /\ token'[v] = token[v]
    BY <1>4 DEF PutRefused, Holds, TypeOK, gateVars
  <2>2. Good(m, TRUE)' BY <2>1, QueuedStay, WaitingOrNot, CounterTypes, MessageFacts
  <2>3. Here(w)' /\ Met(w)'
    BY <2>1, <2>2 DEF Here, Met, Waiting, Claiming, Receivable
  <2> QED BY <2>1, <2>3, QueuedStay, OthersStay, LostStays DEF AInv, Placed
<1>5. ASSUME NEW w \in Workers, LoadRecord(w) PROVE Placed'
  <2>0. PICK m \in Messages : m = held[w] BY <1>5 DEF LoadRecord
  <2>1. CASE Acknowledged(w) BY <2>1, AcknowledgeKeeps
  <2>2. CASE InProgress /\ Raised(w)
    <3>1. /\ record' = record /\ stamped' = stamped /\ claims' = claims /\ failures' = failures
          /\ covered' = covered
      BY <1>5, <2>2 DEF LoadRecord, gateVars, Raised
    <3>2. Trying' <=> Trying
      BY <1>5, <2>2, <3>1, RestsFacts, TryingStays DEF LoadRecord, Raised, Claiming
    <3> QED
      BY <1>5, <2>0, <2>2, <3>1, <3>2, MeetingPaid, RaiseKeeps DEF LoadRecord, InProgress, Waiting
  <2>3. CASE ~Done /\ pc' = [pc EXCEPT ![w] = "reclaiming"] /\ UNCHANGED <<queueVars, held, token>>
    <3>1. /\ pc[w] = "loading" /\ pc'[w] = "reclaiming" /\ record' = record
          /\ \A v \in Workers \ {w} : pc'[v] = pc[v]
      BY <1>5, <2>3 DEF LoadRecord, TypeOK, gateVars
    <3>2. Good(m, TRUE)' BY <2>0, <3>1, HeldStay DEF Waiting
    <3>3. Here(w)' /\ Met(w)'
      BY <2>0, <2>3, <3>1, <3>2 DEF AInv, Here, Met, Waiting, Claiming, Done, queueVars
    <3> QED BY <2>3, <3>1, <3>3, QueuedStay, OthersStay, LostStays DEF AInv, Placed, queueVars
  <2> QED BY <1>5, <2>1, <2>2, <2>3 DEF LoadRecord
<1>6. ASSUME NEW w \in Workers, Reclaim(w) PROVE Placed'
  <2>0. PICK m \in Messages : m = held[w] BY <1>6 DEF Reclaim
  <2>1. CASE Reclaimable
    <3>1. /\ pc'[w] = "processing" /\ UNCHANGED <<queueVars, held>>
          /\ record'.token = claims + 1
          /\ \A v \in Workers \ {w} : pc'[v] = pc[v] /\ token'[v] = token[v]
      BY <1>6, <2>1 DEF Reclaim, Claimed, TypeOK
    <3>2. Good(m, TRUE)' BY <1>6, <2>0, HeldStay DEF Waiting, Reclaim
    <3>3. Good(m, FALSE)' BY <3>2, WaitingOrNot, CounterTypes, MessageFacts
    <3>4. m.after # claims + 1
      <4>1. Good(m, TRUE) BY <1>6, <2>0 DEF AInv, Here, Waiting, Reclaim
      <4>2. m.after \in Nat /\ claims \in Nat BY MessageFacts
      <4> QED BY <4>1, <4>2 DEF Good
    <3>5. Here(w)' /\ Met(w)' BY <2>0, <3>1, <3>3, <3>4 DEF Here, Met, Waiting, Claiming
    <3> QED BY <3>1, <3>5, QueuedStay, OthersStay, LostStays DEF AInv, Placed, queueVars
  <2>2. CASE ~Reclaimable
    <3>1. /\ record' = record /\ stamped' = stamped /\ claims' = claims /\ failures' = failures
          /\ covered' = covered /\ Raised(w)
      BY <1>6, <2>2 DEF Reclaim, gateVars, Raised
    <3>2. Trying' <=> Trying
      BY <1>6, <3>1, RestsFacts, TryingStays DEF Reclaim, Raised, Claiming
    <3>3. m.id > covered => \/ record.status = "NONE"
                            \/ record.status = "IN_PROGRESS" /\ record.leased
      <4>1. pc[w] = "reclaiming" BY <1>6 DEF Reclaim
      <4>2. Done => m.id <= covered BY <2>0, <4>1 DEF AInv, Met
      <4>3. m.id \in Nat /\ covered \in Nat BY MessageFacts
      <4>4. Done \/ record.status = "NONE" \/ (record.status = "IN_PROGRESS" /\ record.leased)
        BY <2>2 DEF Reclaimable, Done
      <4> QED BY <4>2, <4>3, <4>4
    <3> QED BY <1>6, <2>0, <3>1, <3>2, <3>3, MeetingPaid, RaiseKeeps DEF Reclaim, Waiting
  <2> QED BY <2>1, <2>2
<1>7. ASSUME NEW w \in Workers, ProcessorReturns(w) \/ ProcessorRaises(w) PROVE Placed'
  <2>0. PICK m \in Messages : m = held[w] BY <1>7 DEF ProcessorReturns, ProcessorRaises
  <2>1. /\ pc[w] \in Claiming /\ pc'[w] \in {"completing", "failing"} /\ record' = record
        /\ UNCHANGED <<queueVars, held, token>> /\ \A v \in Workers \ {w} : pc'[v] = pc[v]
    BY <1>7 DEF ProcessorReturns, ProcessorRaises, TypeOK, gateVars, Claiming
  <2>2. Good(m, FALSE)' BY <2>0, <2>1, HeldStay DEF Waiting, Claiming
  <2>3. Here(w)' /\ Met(w)'
    BY <2>0, <2>1, <2>2 DEF AInv, Here, Met, Waiting, Claiming, queueVars
  <2> QED BY <2>1, <2>3, QueuedStay, OthersStay, LostStays DEF AInv, Placed, queueVars
<1>8. ASSUME NEW w \in Workers, MarkCompleted(w) PROVE Placed'
  <2>1. Owns(w) BY <1>8 DEF MarkCompleted, Owns, AInv, IInv, Owned, Claiming
  <2> QED BY <1>8, <2>1, AcknowledgeKeeps DEF MarkCompleted
<1>9. ASSUME NEW w \in Workers, MarkFailed(w) PROVE Placed'
  <2>0. PICK m \in Messages : m = held[w] BY <1>9 DEF MarkFailed
  <2>1. Owns(w) BY <1>9 DEF MarkFailed, Owns, AInv, IInv, Owned, Claiming
  <2>2. /\ record'.token = record.token /\ stamped' = sent /\ Raised(w) /\ pc[w] = "failing"
        /\ UNCHANGED <<claims, failures, covered>>
    BY <1>9, <2>1 DEF MarkFailed, TypeOK, Records, Raised
  <2>3. Failed BY <2>1, <2>2 DEF Failed, Trying, Owns, AInv, IInv, OneProcessor, Claiming
  <2>4. Good(m, FALSE) /\ m.after # record.token
    BY <2>0, <2>2 DEF AInv, Here, Met, Waiting, Claiming
  <2>5. m.id > covered' => Spent(m) + 1 <= failures'
              + (IF stamped' >= m.id \/ record'.status = "NONE" THEN 1 ELSE 0)
              + (IF Trying' THEN 1 ELSE 0)
    BY <2>2, <2>3, <2>4, MessageFacts DEF Good, Paid, Spent, Due, Grace, Promised
  <2> QED BY <2>0, <2>2, <2>5, RaiseKeeps
<1>10. ASSUME NEW w \in Workers, Crash(w) PROVE Placed'
  <2>0. PICK m \in Messages : m = held[w] BY <1>10 DEF Crash
  <2>1. /\ record' = record /\ stamped' = stamped /\ claims' = claims /\ failures' = failures + 1
        /\ covered' = covered /\ Raised(w) /\ Rests(w) /\ pc[w] # "idle"
    BY <1>10 DEF Crash, gateVars, Raised
  <2>2. \E b \in BOOLEAN : Good(m, b)
    <3>1. PICK b \in BOOLEAN : (b <=> Waiting(w)) BY DEF Waiting
    <3> QED BY <2>0, <2>1, <3>1 DEF AInv, Here
  <2>3. m.after = record.token /\ Trying => Trying'
    <3>1. CASE pc[w] \in Claiming BY <2>0, <3>1 DEF AInv, Met
    <3>2. CASE pc[w] \notin Claiming BY <2>1, <3>2, RestsFacts, TryingStays DEF Claiming
    <3> QED BY <3>1, <3>2
  <2>4. m.id > covered' => Spent(m) + 1 <= failures'
              + (IF stamped' >= m.id \/ record'.status = "NONE" THEN 1 ELSE 0)
              + (IF Trying' THEN 1 ELSE 0)
    BY <2>1, <2>2, <2>3, MessageFacts DEF Good, Paid, Spent, Due, Grace, Promised
  <2> QED BY <2>0, <2>1, <2>4, RaiseKeeps
<1>11. CASE LeaseExpires \/ RecordExpires \/ RecordDeleted
  BY <1>11, <1>k DEF LeaseExpires, RecordExpires, RecordDeleted, queueVars, workerVars
<1>12. CASE UNCHANGED vars
  BY <1>12, <1>k DEF vars, queueVars, workerVars
<1> QED BY <1>1, <1>2, <1>3, <1>4, <1>5, <1>6, <1>7, <1>8, <1>9, <1>10, <1>11, <1>12
        DEF Next, Consume, Works

\* Whoever failed was counted, and so was a claim that came to nothing.
LEMMA FailedStep ==
  ASSUME AInv, [Next]_vars
  PROVE  /\ record'.token <= claims' /\ (Failed' => failures' >= 1)
         /\ \A w \in Workers : pc'[w] = "failing" => failures' >= 1
<1> USE AFacts
<1>0. Effect BY StepEffect
<1>1. record'.token <= claims'
  BY <1>0 DEF Effect, Unmoved, GivesUp, MakesClaim, Completes, MarksFailure, Deletes
<1>2. failures' \in Nat /\ failures' >= failures
  BY <1>0 DEF Effect, Unmoved, GivesUp, MakesClaim, Completes, MarksFailure, Deletes
<1>3. Failed' => Failed \/ failures' = failures + 1
  BY <1>0 DEF Effect, Unmoved, GivesUp, MakesClaim, Completes, MarksFailure, Deletes, Failed
<1>4. ASSUME NEW w \in Workers, pc'[w] = "failing" PROVE pc[w] = "failing" \/ failures' = failures + 1
  BY <1>4 DEF Next, vars, gateVars, queueVars, workerVars, Send, Defer, Consume, Works, PutClaim,
     PutRefused, Holds, Claimed, LoadRecord, Acknowledged, Raised, Rests, Reclaim, ProcessorReturns,
     ProcessorRaises, MarkCompleted, MarkFailed, Crash, LeaseExpires, RecordExpires, RecordDeleted,
     TypeOK
<1>5. (Failed => failures >= 1) /\ \A w \in Workers : pc[w] = "failing" => failures >= 1
  BY DEF AInv
<1>6. failures + 1 >= 1 OBVIOUS
<1> QED BY <1>1, <1>2, <1>3, <1>4, <1>5, <1>6

\* The accounts hold of the empty queue.
LEMMA InitAccounts == Init => AInv
<1> SUFFICES ASSUME Init PROVE AInv
  OBVIOUS
<1>1. IInv BY InitEstablishes
<1> QED BY <1>1 DEF Init, AInv, NoRecord, Failed, Here, Met, Waiting, Claiming

\* A message reaches the dead-letter queue only when the event was completed after
\* it was sent, is being processed, or MaxReceives - 1 receives failed.
LostForCause ==
  \A i \in dead : \/ i <= covered
                  \/ failures >= MaxReceives - 1
                  \/ \E w \in Workers : pc[w] \in {"processing", "completing"}

\* Receives that meet another invocation's claim (idempotency.py) cost no message
\* its turn: for any number of invocations and messages the dead-letter queue has
\* only those whose event was served, or is, and those that failures used up.
THEOREM DeadForCause == Spec => []LostForCause
<1>1. AInv /\ [Next]_vars => AInv' BY PlacedStep, FailedStep, StepPreserves DEF AInv, Placed
<1>2. AInv => LostForCause BY DEF AInv, Lost, LostForCause, Trying
<1> QED BY <1>1, <1>2, InitAccounts, PTL DEF Spec
===============================================================================
