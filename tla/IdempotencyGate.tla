--------------------------- MODULE IdempotencyGate ---------------------------
(***************************************************************************)
(* The gate in front of every queued event (worker, idempotency.py and the *)
(* batch loop of consumer.py): a record per (user, dedupe_key) in the      *)
(* idempotency table decides whether an invocation processes the event,    *)
(* acknowledges its message without work, or raises so that the message    *)
(* comes back.  One event is modelled, with every message that carries its *)
(* dedupe key: senders repeat a send they are unsure of, and SQS delivers  *)
(* at least once.                                                          *)
(*                                                                         *)
(* A claim is named by its number; it stands for the random lockToken.     *)
(* The record's lease (the rest of the invocation at the start of its      *)
(* batch and 30 s) is over only when the invocation that claimed it is.    *)
(* A message that comes back does so after 720 s, when the lease it met is *)
(* over.                                                                   *)
(***************************************************************************)
EXTENDS Naturals, FiniteSets

CONSTANTS
  Workers,      \* concurrent worker invocations
  MaxSends,     \* bound on the messages sent for the event
  MaxReceives,  \* receives of a message before the dead-letter queue (5)
  MaxFailures   \* bound on failed attempts, crashes and deferrals

ASSUME GateAssumption ==
  /\ MaxSends \in Nat /\ MaxReceives \in Nat \ {0} /\ MaxFailures \in Nat

VARIABLES
  record,    \* the item: status, lockToken, inProgressExpiresAt and expiresAt
             \* still ahead (leased, kept)
  queue,     \* the receivable messages and the claim each waits out
  dead,      \* ids of the messages in the dead-letter queue
  sent,      \* how many messages were sent
  claims,    \* how many claims were ever made
  failures,  \* how many receives ended without a completion
  stamped,   \* how many of them before the record's last update
  covered,   \* how many of them before the last completion
  pc,        \* what each invocation is doing with the message it holds
  held,      \* that message
  token      \* the claim the invocation made

gateVars   == <<record, claims, stamped>>
queueVars  == <<queue, dead, sent, covered>>
workerVars == <<pc, held, token>>
vars == <<gateVars, queueVars, failures, workerVars>>

NoRecord  == [status |-> "NONE", token |-> 0, leased |-> FALSE, kept |-> FALSE]
NoMessage == [id |-> 0, left |-> 0, after |-> 0]

Init ==
  /\ record = NoRecord
  /\ queue = {} /\ dead = {} /\ sent = 0 /\ stamped = 0 /\ covered = 0
  /\ claims = 0 /\ failures = 0
  /\ pc = [w \in Workers |-> "idle"]
  /\ held = [w \in Workers |-> NoMessage]
  /\ token = [w \in Workers |-> 0]

----------------------------------------------------------------------------
\* A message with the event's dedupe key is sent, for the first time or again.
Send ==
  /\ sent < MaxSends
  /\ sent' = sent + 1
  /\ queue' = queue \cup {[id |-> sent + 1, left |-> MaxReceives, after |-> 0]}
  /\ UNCHANGED <<gateVars, dead, covered, failures, workerVars>>

\* A message that waits for its visibility timeout outlasts the lease it met.
Receivable(m) == ~(record.leased /\ record.token = m.after)

\* The invocation is done with its message.
Rests(w) ==
  /\ pc' = [pc EXCEPT ![w] = "idle"]
  /\ held' = [held EXCEPT ![w] = NoMessage]
  /\ token' = [token EXCEPT ![w] = 0]

\* Mutant: a message is received once too often.
ReturnedAtZero(m, others) ==
  IF m.left > 0
  THEN /\ queue' = others \cup {[m EXCEPT !.left = @ - 1, !.after = record.token]}
       /\ dead' = dead
  ELSE queue' = others /\ dead' = dead \cup {m.id}
\* Reported in batchItemFailures: it is received again or dead-lettered.
Returned(m, others) ==
  IF m.left > 1
  THEN /\ queue' = others \cup {[m EXCEPT !.left = @ - 1, !.after = record.token]}
       /\ dead' = dead
  ELSE queue' = others /\ dead' = dead \cup {m.id}

Raised(w) ==
  Returned(held[w], queue) /\ Rests(w) /\ UNCHANGED <<sent, covered>>

\* Not reported: SQS deletes it.
Acknowledged(w) == Rests(w) /\ UNCHANGED <<queue, dead, sent>>

Holds(w, m) ==
  /\ queue' = queue \ {m} /\ UNCHANGED <<dead, sent, covered>>
  /\ held' = [held EXCEPT ![w] = m]

\* A claim: the record is this invocation's, until its lease is over.
Claimed(w) ==
  /\ record' = [status |-> "IN_PROGRESS", token |-> claims + 1, leased |-> TRUE, kept |-> TRUE]
  /\ claims' = claims + 1 /\ stamped' = sent
  /\ token' = [token EXCEPT ![w] = claims + 1]
  /\ pc' = [pc EXCEPT ![w] = "processing"]

\* A record that the batch has too little time left for is not tried at all.
Defer(m) ==
  /\ m \in queue /\ Receivable(m)
  /\ failures < MaxFailures /\ failures' = failures + 1
  /\ Returned(m, queue \ {m})
  /\ UNCHANGED <<gateVars, sent, covered, workerVars>>

\* _claim: put_item succeeds only when there is no record.
PutClaim(w, m) ==
  /\ pc[w] = "idle" /\ m \in queue /\ Receivable(m)
  /\ record.status = "NONE"
  /\ Holds(w, m) /\ Claimed(w)
  /\ UNCHANGED failures

PutRefused(w, m) ==
  /\ pc[w] = "idle" /\ m \in queue /\ Receivable(m)
  /\ record.status # "NONE"
  /\ Holds(w, m)
  /\ pc' = [pc EXCEPT ![w] = "loading"]
  /\ UNCHANGED <<gateVars, token, failures>>

\* _claim: the record that is there was completed, and is not too old.
Done == record.status = "COMPLETED" /\ record.kept
\* Another invocation's lease, or no record any more.
InProgress == record.status = "NONE" \/ (record.status = "IN_PROGRESS" /\ record.leased)

\* Mutant: a message that meets another invocation's lease is acknowledged.
LoadRecordDropping(w) ==
  /\ pc[w] = "loading"
  /\ IF Done \/ InProgress
     THEN Acknowledged(w) /\ UNCHANGED covered
     ELSE pc' = [pc EXCEPT ![w] = "reclaiming"] /\ UNCHANGED <<queueVars, held, token>>
  /\ UNCHANGED <<gateVars, failures>>
LoadRecord(w) ==
  /\ pc[w] = "loading"
  /\ \/ Done /\ Acknowledged(w) /\ UNCHANGED covered
     \/ InProgress /\ Raised(w)
     \/ ~Done /\ ~InProgress /\ pc' = [pc EXCEPT ![w] = "reclaiming"]
        /\ UNCHANGED <<queueVars, held, token>>
  /\ UNCHANGED <<gateVars, failures>>

\* Mutant: any record without a running lease is taken, a completed one too.
ReclaimableUnleased == record.status # "NONE" /\ ~record.leased
\* Mutant: a record in progress is taken, whatever its lease.
ReclaimableInProgress ==
  /\ record.status # "NONE"
  /\ ~record.kept \/ record.status \in {"FAILED", "IN_PROGRESS"}
\* The condition of update_item: an expired record, a failed one, or a lease
\* that is over.
Reclaimable ==
  /\ record.status # "NONE"
  /\ \/ ~record.kept
     \/ record.status = "FAILED"
     \/ record.status = "IN_PROGRESS" /\ ~record.leased

Reclaim(w) ==
  /\ pc[w] = "reclaiming"
  /\ IF Reclaimable THEN Claimed(w) /\ UNCHANGED <<queueVars, held>>
                    ELSE Raised(w) /\ UNCHANGED gateVars
  /\ UNCHANGED failures

----------------------------------------------------------------------------
\* run: the processor returns, or raises.
ProcessorReturns(w) ==
  /\ pc[w] = "processing"
  /\ pc' = [pc EXCEPT ![w] = "completing"]
  /\ UNCHANGED <<gateVars, queueVars, failures, held, token>>

ProcessorRaises(w) ==
  /\ pc[w] = "processing"
  /\ failures < MaxFailures /\ failures' = failures + 1
  /\ pc' = [pc EXCEPT ![w] = "failing"]
  /\ UNCHANGED <<gateVars, queueVars, held, token>>

\* The condition of _mark_completed and _mark_failed.
Owns(w) == record.status = "IN_PROGRESS" /\ record.token = token[w]

\* _mark_completed; the messages sent until now are covered by this completion.
MarkCompleted(w) ==
  /\ pc[w] = "completing"
  /\ IF Owns(w)
     THEN /\ record' = [record EXCEPT !.status = "COMPLETED", !.leased = FALSE, !.kept = TRUE]
          /\ stamped' = sent /\ covered' = sent
          /\ Acknowledged(w)
     ELSE Raised(w) /\ UNCHANGED <<record, stamped>>
  /\ UNCHANGED <<claims, failures>>

MarkFailed(w) ==
  /\ pc[w] = "failing"
  /\ IF Owns(w)
     THEN record' = [record EXCEPT !.status = "FAILED", !.leased = FALSE] /\ stamped' = sent
     ELSE UNCHANGED <<record, stamped>>
  /\ Raised(w)
  /\ UNCHANGED <<claims, failures>>

----------------------------------------------------------------------------
\* The invocation dies, or its call to the table fails.
Crash(w) ==
  /\ pc[w] # "idle"
  /\ failures < MaxFailures /\ failures' = failures + 1
  /\ Raised(w)
  /\ UNCHANGED gateVars

\* An invocation between its claim and the mark.
Claiming == {"processing", "completing", "failing"}
Live(t) == \E w \in Workers : pc[w] \in Claiming /\ token[w] = t

LeaseExpires ==
  /\ record.leased /\ ~Live(record.token)
  /\ record' = [record EXCEPT !.leased = FALSE]
  /\ UNCHANGED <<claims, stamped, queueVars, failures, workerVars>>

\* Seven days after its last update a record is expired; SQS keeps a message four
\* days, so none that was sent before that update is left by then.
Outlived == /\ \A m \in queue : m.id > stamped
            /\ \A w \in Workers : pc[w] # "idle" => held[w].id > stamped
RecordExpires ==
  /\ record.status # "NONE" /\ record.kept /\ ~record.leased
  /\ Outlived
  /\ record' = [record EXCEPT !.kept = FALSE]
  /\ UNCHANGED <<claims, stamped, queueVars, failures, workerVars>>

\* DynamoDB deletes an expired item some time later.
RecordDeleted ==
  /\ record.status # "NONE" /\ ~record.kept
  /\ record' = NoRecord
  /\ UNCHANGED <<claims, stamped, queueVars, failures, workerVars>>

Consume(w) == \E m \in queue : PutClaim(w, m) \/ PutRefused(w, m)
Works(w) == LoadRecord(w) \/ Reclaim(w) \/ ProcessorReturns(w) \/ ProcessorRaises(w)
            \/ MarkCompleted(w) \/ MarkFailed(w)

Next ==
  \/ Send
  \/ \E m \in queue : Defer(m)
  \/ \E w \in Workers : Consume(w) \/ Works(w) \/ Crash(w)
  \/ LeaseExpires \/ RecordExpires \/ RecordDeleted

Spec == Init /\ [][Next]_vars

(***************************************************************************)
(* SQS delivers what it holds, an invocation goes on until it ends or      *)
(* dies, and a lease runs out.                                             *)
(***************************************************************************)
Fairness ==
  /\ \A w \in Workers : WF_vars(Consume(w)) /\ WF_vars(Works(w))
  /\ WF_vars(LeaseExpires)

FairSpec == Spec /\ Fairness

----------------------------------------------------------------------------
Records == [status : {"NONE", "IN_PROGRESS", "FAILED", "COMPLETED"}, token : Nat,
            leased : BOOLEAN, kept : BOOLEAN]
Messages == [id : Nat, left : 1 .. MaxReceives, after : Nat]

\* Every variable has the shape the table, the queue and the invocations give it.
TypeOK ==
  /\ record \in Records
  /\ queue \subseteq Messages /\ dead \subseteq Nat
  /\ {sent, stamped, covered, claims, failures} \subseteq Nat
  /\ pc \in [Workers -> {"idle", "loading", "reclaiming"} \cup Claiming]
  /\ held \in [Workers -> Messages \cup {NoMessage}]
  /\ token \in [Workers -> Nat]

\* However many messages carry the dedupe key and however their receives, failed
\* claims and leases interleave, one invocation at a time processes the event.
OneProcessor ==
  \A v, w \in Workers : {pc[v], pc[w]} \subseteq Claiming => v = w

\* No message that was already sent when the event was completed has it processed
\* again: seven days of the record outlive four days of the queue.
NotAgain ==
  [][\A w \in Workers :
       pc[w] \notin Claiming /\ pc'[w] \in Claiming => held'[w].id > covered]_vars

\* Every message is followed by a completion or finds one, unless MaxReceives - 1
\* receives fail: those spent on waiting for other invocations do not cost a
\* message its turn, and one at most goes to a record that is being deleted.
EventServed ==
  \A i \in 1 .. MaxSends :
     (\E m \in queue : m.id = i) ~> (i <= covered \/ Done \/ failures >= MaxReceives - 1)
=============================================================================
