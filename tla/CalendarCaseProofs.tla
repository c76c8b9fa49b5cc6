------------------------- MODULE CalendarCaseProofs -------------------------
(***************************************************************************)
(* Theorems about CalendarCase for every number of workers, plans, sends   *)
(* and authorizations, and whatever happens around the services.           *)
(***************************************************************************)
EXTENDS CalendarCase, TLAPS

Claimed(w) == pc[w] \in Calling \cup {"finishing"}
Decided(w) == pc[w] \in {"promoting", "claiming"} \/ Claimed(w)

\* An invocation holds a message, and its verdict or result fits its place.
Holding ==
  \A w \in Workers :
    /\ pc[w] # "idle" => job[w] \in Messages
    /\ pc[w] = "blocking" => result[w] \in {"DECISION_REQUIRED", "PERMISSION_REVOKED"}
    /\ pc[w] = "finishing" => result[w] \in {"COMPLETED", "VERIFYING", "FAILED", "DENIED"}

\* What an invocation read was an active Case, at this version or an earlier one,
\* and unless it blocks the Case, one whose current plan is the approved one.
Reading ==
  \A w \in Workers : pc[w] # "idle" =>
    /\ snap[w].meta.op = job[w].op
    /\ snap[w].meta.status \in {"QUEUED", "RUNNING", "VERIFYING"}
    /\ snap[w].meta.version <= meta.version
    /\ Decided(w) => snap[w].meta.current = job[w].op /\ snap[w].meta.requested = job[w].op

\* What an invocation that is about to claim has validated: evidence only changes
\* together with the version of the Case.
Validated ==
  \A w \in Workers : pc[w] = "claiming" =>
    /\ snap[w].exec.status # "SUCCEEDED"
    /\ \E a \in approvals : /\ a.plan = job[w].op /\ a.expected = snap[w].meta.expected
                            /\ Linked(snap[w].link, a.epoch)
    /\ plans[job[w].op].kind = "calendar"
    /\ snap[w].meta.version = meta.version => plans[job[w].op].evidence = evidence

\* Nothing touches the calendar for an operation that was never claimed.
Traced ==
  /\ \A p \in Plans : event[p] # "absent" \/ p \in orphans => exec[p].status # "NONE"
  /\ \A w \in Workers : Claimed(w) => exec[job[w].op].status # "NONE"
  /\ \A p \in Plans : exec[p].owner # NoWorker => exec[p].status = "RUNNING"

\* A verified result is about a written event.
Verified ==
  /\ \A p \in Plans : exec[p].status = "SUCCEEDED" => event[p] # "absent"
  /\ \A w \in Workers : pc[w] = "finishing" /\ result[w] = "COMPLETED" => event[job[w].op] # "absent"

\* The owner of a running Case sees it as its claim left it.
Undisturbed ==
  \A w \in Workers :
    Claimed(w) /\ Owns(w) /\ meta.op = job[w].op /\ meta.status = "RUNNING" => CaseAsClaimed(w)

\* While leases outlast their workers, a claimed operation is leased to its claimant.
Leased ==
  "overrun" \notin Happenings =>
    \A w \in Workers : Claimed(w) => Owns(w) /\ exec[job[w].op].leased

\* A Case that runs or ended has the plan it is about.
Pointed ==
  /\ meta.status \in {"RUNNING", "VERIFYING", "FAILED"} => meta.op \in Plans
  /\ meta.status = "COMPLETED" => meta.current \in Plans

TypeInv == TypeOK /\ Holding
IInv ==
  /\ TypeInv /\ Reading /\ Validated
  /\ ExecutionPinsPlan /\ Traced /\ Verified
  /\ Undisturbed /\ Leased /\ Pointed
  /\ CaseMirrorsExecution /\ CompletedIsVerified

----------------------------------------------------------------------------



\* A write of META keeps the shape of META.
LEMMA MovedType ==
  ASSUME TypeOK, NEW s \in Statuses
  PROVE  Moved(s) \in Metas
  <1>1. meta \in Metas /\ meta.version + 1 \in Nat
    BY DEF TypeOK, Metas
  <1> QED
    BY <1>1 DEF Moved, Metas

\* A message that comes back is a message.
LEMMA ReturnedType ==
  ASSUME TypeInv, NEW m \in Messages
  PROVE  Returned(m) \subseteq Messages
  <1>1. exec[m.op].attempt \in Nat
    BY DEF TypeInv, TypeOK, Messages, Executions
  <1>2. CASE m.left > 1
    <2>1. m.left - 1 \in Nat
      BY <1>2 DEF Messages
    <2> QED
      BY <1>1, <1>2, <2>1 DEF Returned, Messages
  <1> QED
    BY <1>2 DEF Returned

\* An invocation that ends leaves a receivable message or none, and is idle.
LEMMA RestType ==
  ASSUME TypeInv, NEW w \in Workers, job[w] \in Messages, Raised(w) \/ Finished(w)
  PROVE  /\ messages' \subseteq Messages
         /\ pc' = [pc EXCEPT ![w] = "idle"]
         /\ job' = [job EXCEPT ![w] = NoMessage]
         /\ snap' \in [Workers -> [meta : Metas, link : Links, exec : Executions]]
         /\ result' \in [Workers -> Results]
         /\ \A v \in Workers : v # w => snap'[v] = snap[v] /\ result'[v] = result[v]
  <1>1. Returned(job[w]) \subseteq Messages
    BY ReturnedType
  <1>2. NoSnapshot \in [meta : Metas, link : Links, exec : Executions]
    <2>1. 1 \in Plans
      BY BoundsAssumption DEF Plans
    <2>2. NewCase \in Metas
      BY <2>1 DEF NewCase, Metas, Statuses, NoPlan
    <2>3. NoLink \in Links /\ NotExecuted \in Executions
      BY DEF NoLink, Links, NotExecuted, Executions
    <2> QED
      BY <2>2, <2>3 DEF NoSnapshot
  <1>3. Rests(w) /\ messages' \subseteq messages \cup Returned(job[w])
    BY DEF Raised, Finished
  <1>4. "none" \in Results
    BY DEF Results
  <1> QED
    BY <1>1, <1>2, <1>3, <1>4 DEF Rests, TypeInv, TypeOK

\* The first state has the shapes.
LEMMA TypeInit == Init => TypeInv
  <1> SUFFICES ASSUME Init PROVE TypeInv
    OBVIOUS
  <1>1. 1 \in Plans
    BY BoundsAssumption DEF Plans
  <1>2. NewCase \in Metas
    BY <1>1 DEF NewCase, Metas, Statuses, NoPlan
  <1>3. NotExecuted \in Executions /\ NoLink \in Links /\ Unwritten \in [kind : Kinds, evidence : Nat]
    BY DEF NotExecuted, Executions, NoLink, Links, Unwritten, Kinds
  <1>4. link \in Links
    BY DEF Init, Links
  <1>5. jobs \subseteq Plans
    BY <1>1 DEF Init
  <1>6. "none" \in Results /\ 0 \in Nat /\ 1 \in Nat
    BY DEF Results
  <1>7. TypeOK
    BY <1>2, <1>3, <1>4, <1>5, <1>6 DEF Init, TypeOK, NoSnapshot
  <1>8. Holding
    BY DEF Init, Holding
  <1> QED
    BY <1>7, <1>8 DEF TypeInv

\* Planning keeps the shapes.
LEMMA PreparationType == TypeInv /\ PreparationNext => TypeInv'
  <1> SUFFICES ASSUME TypeInv, PreparationNext PROVE TypeInv'
    OBVIOUS
  <1> USE DEF TypeInv
  <1>1. /\ UNCHANGED <<grantVars, link, queueVars, exec, googleVars, workVars>>
        /\ TypeOK
    BY DEF PreparationNext, PostMessage, RepeatMessage, RetryPreparation, DispatchFailed,
           BeginDraft, SkipJob, WritePlan, LoseDraft
  <1>2. Holding'
    BY <1>1 DEF Holding, workVars
  <1> DEFINE Shapes == /\ meta' \in Metas /\ evidence' \in Nat
                       /\ plans' \in [Plans -> [kind : Kinds, evidence : Nat]]
                       /\ jobs' \subseteq Plans /\ undispatched' \subseteq Plans
                       /\ drafts' \subseteq [plan : Plans, evidence : Nat, calendar : BOOLEAN]
  <1>3. SUFFICES Shapes
    BY <1>1, <1>2 DEF TypeOK, grantVars, queueVars, googleVars, workVars
  <1>4. /\ Moved("PREPARING") \in Metas /\ Moved("DECISION_REQUIRED") \in Metas
        /\ Moved("COMPLETED") \in Metas /\ meta \in Metas /\ evidence + 1 \in Nat
    BY <1>1, MovedType DEF Statuses, TypeOK
  <1>5. ASSUME NEW v \in Plans, DispatchJob(v) PROVE jobs' \subseteq Plans
    BY <1>1, <1>5 DEF DispatchJob, TypeOK
  <1>6. CASE PostMessage
    BY <1>1, <1>4, <1>5, <1>6 DEF PostMessage, TypeOK, Metas
  <1>7. CASE RepeatMessage
    <2>1. meta.requested \in Plans
      BY <1>4 DEF Metas
    <2> QED
      BY <1>1, <1>7, <2>1 DEF RepeatMessage, TypeOK, caseVars
  <1>8. CASE RetryPreparation
    BY <1>1, <1>4, <1>5, <1>8 DEF RetryPreparation, TypeOK, Metas
  <1>9. ASSUME NEW v \in Plans, DispatchFailed(v) PROVE Shapes
    BY <1>1, <1>4, <1>9 DEF DispatchFailed, TypeOK
  <1>10. ASSUME NEW v \in Plans, BeginDraft(v) PROVE Shapes
    <2>1. Linked(link, link.epoch) \in BOOLEAN
      BY DEF Linked
    <2> QED
      BY <1>1, <1>10, <2>1 DEF BeginDraft, TypeOK, caseVars
  <1>11. ASSUME NEW v \in Plans, SkipJob(v) PROVE Shapes
    BY <1>1, <1>11 DEF SkipJob, TypeOK, caseVars
  <1>12. ASSUME NEW d \in drafts, WritePlan(d) PROVE Shapes
    <2>1. d \in [plan : Plans, evidence : Nat, calendar : BOOLEAN]
      BY <1>1 DEF TypeOK
    <2>2. drafts' \subseteq drafts /\ jobs' \subseteq jobs /\ UNCHANGED <<evidence, undispatched>>
      BY <1>12 DEF WritePlan
    <2>3. plans' \in [Plans -> [kind : Kinds, evidence : Nat]] /\ meta' \in Metas
      <3>1. CASE UNCHANGED <<plans, meta>>
        BY <1>1, <3>1 DEF TypeOK
      <3>2. ASSUME NEW kind \in Outcomes(d),
                   plans' = [plans EXCEPT ![d.plan] = [kind |-> kind, evidence |-> d.evidence]],
                   meta' = [Moved(IF kind = "local" THEN "COMPLETED" ELSE "DECISION_REQUIRED")
                             EXCEPT !.current = d.plan]
            PROVE  plans' \in [Plans -> [kind : Kinds, evidence : Nat]] /\ meta' \in Metas
        <4>1. kind \in Kinds
          BY DEF Outcomes, Kinds
        <4>2. [kind |-> kind, evidence |-> d.evidence] \in [kind : Kinds, evidence : Nat]
          BY <2>1, <4>1
        <4>3. meta' \in Metas
          BY <1>4, <2>1, <3>2 DEF Metas
        <4> QED
          BY <1>1, <3>2, <4>2, <4>3 DEF TypeOK
      <3> QED
        BY <1>12, <3>1, <3>2 DEF WritePlan
    <2> QED
      BY <1>1, <2>2, <2>3 DEF TypeOK
  <1>13. ASSUME NEW d \in drafts, LoseDraft(d) PROVE Shapes
    BY <1>1, <1>13 DEF LoseDraft, TypeOK, caseVars
  <1> QED
    BY <1>6, <1>7, <1>8, <1>9, <1>10, <1>11, <1>12, <1>13 DEF PreparationNext

\* So do the user's decisions.
LEMMA DecisionType == TypeInv /\ DecisionNext => TypeInv'
  <1> SUFFICES ASSUME TypeInv, DecisionNext PROVE TypeInv'
    OBVIOUS
  <1>1. /\ UNCHANGED <<evidence, plans, prepVars, exec, googleVars, workVars>>
        /\ TypeOK /\ Holding
    BY DEF DecisionNext, Decide, Approve, RepeatApprove, RetryExecution, Expire, EventEnds,
           Disconnect, Reconnect, ConfirmCalendar, TypeInv, caseVars
  <1>2. Holding'
    BY <1>1 DEF Holding, workVars
  <1> DEFINE Shapes == /\ meta' \in Metas /\ link' \in Links
                       /\ approvals' \subseteq Approvals /\ expired' \subseteq Approvals
                       /\ ended' \subseteq Plans
                       /\ messages' \subseteq Messages /\ sent' \in Nat
  <1>3. SUFFICES Shapes
    BY <1>1, <1>2 DEF TypeInv, TypeOK, prepVars, googleVars, workVars
  <1>4. /\ \A s \in Statuses : Moved(s) \in Metas
        /\ meta \in Metas /\ link \in Links /\ link.epoch + 1 \in Nat
    BY <1>1, MovedType DEF TypeOK, Links
  <1>5. ASSUME NEW p \in Plans, Dispatch(p) PROVE messages' \subseteq Messages /\ sent' \in Nat
    <2>1. sent + 1 \in Nat /\ MaxReceives \in Nat
      BY <1>1, BoundsAssumption DEF TypeOK
    <2> QED
      BY <1>1, <1>5, <2>1 DEF Dispatch, Message, Messages, TypeOK
  <1>6. ASSUME NEW s \in {"PAUSED", "STOPPED"}, Decide(s) PROVE Shapes
    BY <1>1, <1>4, <1>6 DEF Decide, Statuses, TypeOK, grantVars, queueVars
  <1>7. CASE Approve
    <2>1. meta.current \in Plans /\ meta.version \in Nat /\ link.epoch \in Nat
      BY <1>4, <1>7 DEF Approve, Metas, Links
    <2>2. meta' \in Metas
      BY <1>4, <1>7, <2>1 DEF Approve, Metas, Statuses
    <2>3. approvals' \subseteq Approvals
      BY <1>1, <1>7, <2>1 DEF Approve, Approval, Approvals, TypeOK
    <2> QED
      BY <1>1, <1>5, <1>7, <2>1, <2>2, <2>3 DEF Approve, TypeOK
  <1>8. CASE RepeatApprove
    BY <1>1, <1>4, <1>5, <1>8 DEF RepeatApprove, Metas, TypeOK, caseVars, grantVars
  <1>9. CASE RetryExecution
    BY <1>1, <1>4, <1>5, <1>9 DEF RetryExecution, Metas, TypeOK, grantVars, queueVars, Statuses
  <1>10. ASSUME NEW a \in approvals, Expire(a) PROVE Shapes
    BY <1>1, <1>10 DEF Expire, TypeOK, caseVars, queueVars
  <1>11. ASSUME NEW p \in Plans, EventEnds(p) PROVE Shapes
    BY <1>1, <1>11 DEF EventEnds, TypeOK, caseVars, queueVars
  <1>12. CASE Disconnect \/ ConfirmCalendar
    BY <1>1, <1>4, <1>12 DEF Disconnect, ConfirmCalendar, Links, TypeOK, caseVars,
                             grantVars, queueVars
  <1>13. CASE Reconnect
    <2>1. PICK epoch \in 1 .. MaxEpochs :
               link' = [link EXCEPT !.status = "CONNECTED", !.epoch = epoch]
      BY <1>13 DEF Reconnect
    <2>2. epoch \in Nat
      OBVIOUS
    <2>3. link' \in Links
      BY <1>4, <2>1, <2>2 DEF Links
    <2> QED
      BY <1>1, <1>13, <2>3 DEF Reconnect, TypeOK, caseVars, grantVars, queueVars
  <1> QED
    BY <1>6, <1>7, <1>8, <1>9, <1>10, <1>11, <1>12, <1>13 DEF DecisionNext

\* An invocation that ends keeps what TypeInv says of the others.
LEMMA RestKeepsType ==
  ASSUME TypeInv, NEW w \in Workers, pc[w] # "idle", Raised(w) \/ Finished(w),
         meta' \in Metas, exec' \in [Plans -> Executions], orphans' \subseteq Plans,
         UNCHANGED <<evidence, plans, grantVars, link, prepVars, sent, event>>
  PROVE  TypeInv'
  <1>1. job[w] \in Messages
    BY DEF TypeInv, Holding
  <1>2. TypeOK /\ NoMessage \in Messages \cup {NoMessage}
    BY DEF TypeInv
  <1>3. TypeOK'
    BY <1>1, <1>2, RestType DEF TypeOK, grantVars, prepVars
  <1>4. Holding'
    BY <1>1, <1>2, RestType DEF Holding, TypeInv, TypeOK
  <1> QED
    BY <1>3, <1>4 DEF TypeInv

\* And so do the workers, and what goes on without them.
LEMMA ExecutionType == TypeInv /\ ExecutionNext => TypeInv'
  <1> SUFFICES ASSUME TypeInv, ExecutionNext PROVE TypeInv'
    OBVIOUS
  <1>1. TypeOK /\ Holding
    BY DEF TypeInv
  <1>2. /\ \A s \in Statuses : Moved(s) \in Metas
        /\ meta \in Metas /\ link \in Links
    BY <1>1, MovedType DEF TypeOK
  <1>3. ASSUME NEW w \in Workers, NEW m \in messages, SkipMessage(w, m) PROVE TypeInv'
    BY <1>1, <1>3 DEF SkipMessage, TypeInv, TypeOK, Holding, caseVars, grantVars, prepVars,
                      googleVars, workVars
  <1>22. ASSUME NEW w \in Workers, NEW m \in messages, Busy(w, m) PROVE TypeInv'
    <2>1. Returned(m) \subseteq Messages
      BY <1>1, ReturnedType DEF TypeOK
    <2> QED
      BY <1>1, <1>22, <2>1 DEF Busy, TypeInv, TypeOK, Holding, caseVars, grantVars, prepVars,
                               googleVars, workVars
  <1>4. ASSUME NEW w \in Workers, NEW m \in messages, Load(w, m) PROVE TypeInv'
    <2>1. m \in Messages /\ exec[m.op] \in Executions
      BY <1>1 DEF TypeOK, Messages
    <2>2. Route(m.op) \in {"blocking", "promoting", "claiming"} /\ Verdict(m.op) \in Results
      BY DEF Route, Verdict, Results
    <2>3. Route(m.op) = "blocking" => Verdict(m.op) \in {"DECISION_REQUIRED", "PERMISSION_REVOKED"}
      BY DEF Route, Verdict
    <2>4. [meta |-> meta, link |-> link, exec |-> exec[m.op]]
             \in [meta : Metas, link : Links, exec : Executions]
      BY <1>2, <2>1
    <2>5. TypeOK'
      BY <1>1, <1>4, <2>1, <2>2, <2>4 DEF Load, TypeOK, caseVars, grantVars, prepVars, googleVars
    <2>6. Holding'
      BY <1>1, <1>4, <2>1, <2>2, <2>3 DEF Load, Holding, TypeOK
    <2> QED
      BY <2>5, <2>6 DEF TypeInv
  <1>5. ASSUME NEW w \in Workers, Block(w) PROVE TypeInv'
    <2>1. result[w] \in Statuses
      BY <1>1, <1>5 DEF Block, Holding, Statuses
    <2> QED
      BY <1>1, <1>2, <1>5, <2>1, RestKeepsType DEF Block, TypeOK, googleVars
  <1>6. ASSUME NEW w \in Workers, Promote(w) PROVE TypeInv'
    BY <1>1, <1>2, <1>6, RestKeepsType DEF Promote, TypeOK, googleVars, Statuses
  <1>7. ASSUME NEW w \in Workers, Claim(w) PROVE TypeInv'
    <2>1. exec[job[w].op].attempt + 1 \in Nat /\ job[w].op \in Plans
      BY <1>1, <1>7 DEF Claim, Holding, TypeOK, Messages, Executions
    <2>2. exec' \in [Plans -> Executions]
      BY <1>1, <1>7, <2>1 DEF Claim, TypeOK, Executions
    <2>3. meta' \in Metas /\ "calling" \in Calling
      BY <1>2, <1>7 DEF Claim, Statuses, Calling
    <2>4. TypeOK'
      BY <1>1, <1>7, <2>2, <2>3 DEF Claim, TypeOK, grantVars, prepVars, queueVars, googleVars
    <2>5. Holding'
      BY <1>1, <1>7 DEF Claim, Holding, TypeOK
    <2> QED
      BY <2>4, <2>5 DEF TypeInv
  <1>8. ASSUME NEW w \in Workers, ClaimConflict(w) PROVE TypeInv'
    BY <1>1, <1>2, <1>8, RestKeepsType DEF ClaimConflict, TypeOK, googleVars, caseVars
  <1>9. ASSUME NEW w \in Workers, pc[w] \in Calling, NEW r \in {"COMPLETED", "VERIFYING", "FAILED", "DENIED"},
               pc' = [pc EXCEPT ![w] = "finishing"], result' = [result EXCEPT ![w] = r],
               orphans' \subseteq Plans,
               UNCHANGED <<caseVars, grantVars, link, prepVars, queueVars, exec, event, job, snap>>
        PROVE TypeInv'
    <2>1. r \in Results
      BY DEF Results
    <2>2. TypeOK'
      BY <1>1, <1>9, <2>1 DEF TypeOK, caseVars, grantVars, prepVars, queueVars
    <2>3. Holding'
      BY <1>1, <1>9 DEF TypeOK, Holding, Calling
    <2> QED
      BY <2>2, <2>3 DEF TypeInv
  <1>10. ASSUME NEW w \in Workers, pc[w] \in Calling, NEW r \in {"COMPLETED", "VERIFYING", "FAILED", "DENIED"},
                Reported(w, r)
         PROVE TypeInv'
    BY <1>1, <1>9, <1>10 DEF Reported, TypeOK
  <1>11. ASSUME NEW w \in Workers, pc[w] \in Calling, NEW where \in Calling, Proceeds(w, where),
                event' \in [Plans -> {"absent", "saved", "altered"}]
         PROVE TypeInv'
    <2>1. TypeOK'
      BY <1>1, <1>11 DEF Proceeds, TypeOK, caseVars, grantVars, prepVars, queueVars
    <2>2. Holding'
      BY <1>1, <1>11 DEF Proceeds, TypeOK, Holding, Calling
    <2> QED
      BY <2>1, <2>2 DEF TypeInv
  <1>12. ASSUME NEW p PROVE Readable(p) \subseteq {"COMPLETED", "VERIFYING", "FAILED", "DENIED"}
    BY DEF Readable
  <1>13. ASSUME NEW w \in Workers, GetEvent(w) PROVE TypeInv'
    BY <1>1, <1>10, <1>11, <1>12, <1>13 DEF GetEvent, Calling, TypeOK
  <1>14. ASSUME NEW w \in Workers, PostEvent(w) PROVE TypeInv'
    BY <1>1, <1>10, <1>11, <1>14 DEF PostEvent, Calling, TypeOK
  <1>15. ASSUME NEW w \in Workers, ReadBack(w) PROVE TypeInv'
    BY <1>10, <1>12, <1>15 DEF ReadBack, Calling
  <1>16. ASSUME NEW w \in Workers, pc[w] \in Calling PROVE orphans \cup {job[w].op} \subseteq Plans
    BY <1>1, <1>16 DEF TypeOK, Holding, Calling, Messages
  <1>17. ASSUME NEW w \in Workers, AbandonCall(w) PROVE TypeInv'
    BY <1>9, <1>16, <1>17 DEF AbandonCall
  <1>18. ASSUME NEW w \in Workers, Finish(w) PROVE TypeInv'
    <2>1. /\ result[w] \in {"COMPLETED", "VERIFYING", "FAILED", "DENIED"}
          /\ job[w].op \in Plans
      BY <1>1, <1>18 DEF Finish, Holding, Messages
    <2>2. /\ ExecutionStatus(result[w]) \in {"VERIFYING", "SUCCEEDED", "FAILED"}
          /\ CaseStatus(result[w]) \in Statuses
      BY <2>1 DEF ExecutionStatus, CaseStatus, Statuses
    <2>3. ASSUME Store(w) PROVE exec' \in [Plans -> Executions]
      <3> DEFINE leased == exec[job[w].op].leased /\ result[w] = "VERIFYING"
                 stored == [exec[job[w].op] EXCEPT !.status = ExecutionStatus(result[w]),
                              !.owner = NoWorker, !.leased = leased]
      <3>1. leased \in BOOLEAN /\ exec[job[w].op] \in Executions
        BY <1>1, <2>1 DEF TypeOK
      <3> HIDE DEF leased
      <3>2. stored \in Executions
        BY <2>2, <3>1 DEF Executions
      <3>3. exec' = [exec EXCEPT ![job[w].op] = stored]
        BY <2>3, <3>1 DEF Store, Executions, leased
      <3> QED
        BY <1>1, <3>2, <3>3 DEF TypeOK
    <2>4. exec' \in [Plans -> Executions] /\ meta' \in Metas
      BY <1>1, <1>2, <1>18, <2>2, <2>3 DEF Finish, TypeOK
    <2> QED
      BY <1>1, <1>18, <2>4, RestKeepsType DEF Finish, TypeOK, googleVars
  <1>19. ASSUME NEW w \in Workers, Crash(w) PROVE TypeInv'
    BY <1>1, <1>2, <1>16, <1>19, RestKeepsType DEF Crash, TypeOK, caseVars
  <1>20. ASSUME NEW p \in Plans, OrphanPosts(p) \/ OrphanEnds(p) \/ AlterEvent(p) PROVE TypeInv'
    <2>1. event' \in [Plans -> {"absent", "saved", "altered"}] /\ orphans' \subseteq Plans
      BY <1>1, <1>20 DEF OrphanPosts, OrphanEnds, AlterEvent, TypeOK
    <2>2. UNCHANGED <<caseVars, grantVars, link, prepVars, queueVars, exec, workVars>>
      BY <1>20 DEF OrphanPosts, OrphanEnds, AlterEvent
    <2> QED
      BY <1>1, <2>1, <2>2 DEF TypeInv, TypeOK, Holding, caseVars, grantVars, prepVars, queueVars, workVars
  <1>21. ASSUME NEW p \in Plans, LeaseExpires(p) PROVE TypeInv'
    <2>1. exec' \in [Plans -> Executions]
      <3>1. exec \in [Plans -> Executions] BY <1>1 DEF TypeOK
      <3>2. [exec[p] EXCEPT !.leased = FALSE] \in Executions BY <3>1 DEF Executions
      <3>3. exec' = [exec EXCEPT ![p] = [exec[p] EXCEPT !.leased = FALSE]]
        BY <1>21, <3>1 DEF LeaseExpires
      <3> QED BY <3>1, <3>2, <3>3
    <2> QED
      BY <1>1, <1>21, <2>1 DEF LeaseExpires, TypeInv, TypeOK, Holding, caseVars, grantVars, prepVars,
                               queueVars, googleVars, workVars
  <1> QED
    BY <1>3, <1>4, <1>5, <1>6, <1>7, <1>8, <1>13, <1>14, <1>15, <1>17, <1>18, <1>19, <1>20, <1>21,
       <1>22 DEF ExecutionNext, WorkerStep

\* Every step keeps the shapes.
LEMMA TypeStep == TypeInv /\ [Next]_vars => TypeInv'
  <1>1. ASSUME TypeInv, UNCHANGED vars PROVE TypeInv'
    BY <1>1 DEF vars, TypeInv, TypeOK, Holding, caseVars, grantVars, prepVars, queueVars,
                googleVars, workVars
  <1> QED
    BY <1>1, PreparationType, DecisionType, ExecutionType DEF Next

\* Every variable always has the shape of its records in the table, and no
\* invocation is ever at a place its message, verdict or result does not fit.
THEOREM TypeCorrect == Spec => []TypeOK
  <1>1. TypeInv => TypeOK
    BY DEF TypeInv
  <1> QED
    BY <1>1, TypeInit, TypeStep, PTL DEF Spec

----------------------------------------------------------------------------
\* What a step does to each of the records, whatever the step is.

\* What Moved leaves alone.
LEMMA MovedKeeps ==
  ASSUME TypeOK, NEW s
  PROVE  /\ Moved(s).status = s /\ Moved(s).version = meta.version + 1
         /\ Moved(s).current = meta.current /\ Moved(s).requested = meta.requested
         /\ Moved(s).op = meta.op /\ Moved(s).expected = meta.expected
  BY DEF Moved, TypeOK, Metas

\* META is left alone or gets the next version, and new evidence comes with one.
LEMMA MetaStep ==
  ASSUME TypeInv, Next
  PROVE  (meta' = meta /\ evidence' = evidence) \/ meta'.version = meta.version + 1
  <1>1. TypeOK /\ meta \in Metas
    BY DEF TypeInv, TypeOK
  <1>2. CASE PreparationNext
    BY <1>1, <1>2, MovedKeeps DEF PreparationNext, PostMessage, RepeatMessage, RetryPreparation,
       DispatchFailed, BeginDraft, SkipJob, WritePlan, LoseDraft, caseVars, Moved, Metas
  <1>3. CASE DecisionNext
    BY <1>1, <1>3, MovedKeeps DEF DecisionNext, Decide, Approve, RepeatApprove, RetryExecution,
       Expire, EventEnds, Disconnect, Reconnect, ConfirmCalendar, caseVars, Moved, Metas
  <1>4. ASSUME NEW w \in Workers, Block(w) \/ Promote(w) \/ Claim(w) \/ Finish(w)
        PROVE  evidence' = evidence /\ (meta' = meta \/ meta'.version = meta.version + 1)
    BY <1>1, <1>4, MovedKeeps DEF Block, Promote, Claim, Finish
  <1>5. CASE ExecutionNext
    BY <1>4, <1>5 DEF ExecutionNext, WorkerStep, SkipMessage, Busy, Load, ClaimConflict, GetEvent,
       PostEvent, ReadBack, Reported, Proceeds, AbandonCall, Crash, OrphanPosts, OrphanEnds,
       AlterEvent, LeaseExpires, caseVars
  <1> QED
    BY <1>2, <1>3, <1>5 DEF Next

\* A plan is written once, and approvals stay.
LEMMA PlanStep ==
  ASSUME TypeInv, Next
  PROVE  /\ \A p \in Plans : plans[p].kind # "unwritten" => plans'[p] = plans[p]
         /\ approvals \subseteq approvals'
  <1>1. CASE PreparationNext
    BY <1>1 DEF PreparationNext, PostMessage, RepeatMessage, RetryPreparation, DispatchFailed,
       BeginDraft, SkipJob, WritePlan, LoseDraft, caseVars, grantVars, TypeInv, TypeOK
  <1>2. CASE DecisionNext
    BY <1>2 DEF DecisionNext, Decide, Approve, RepeatApprove, RetryExecution, Expire, EventEnds,
       Disconnect, Reconnect, ConfirmCalendar, caseVars, grantVars
  <1>3. CASE ExecutionNext
    BY <1>3 DEF ExecutionNext, WorkerStep, SkipMessage, Busy, Load, Block, Promote, Claim, ClaimConflict,
       GetEvent, PostEvent, ReadBack, Reported, Proceeds, AbandonCall, Finish, Crash,
       OrphanPosts, OrphanEnds, AlterEvent, LeaseExpires, caseVars, grantVars
  <1> QED
    BY <1>1, <1>2, <1>3 DEF Next

\* An execution record changes by a claim, by its owner's result or by time.
LEMMA ExecStep ==
  ASSUME TypeInv, Next
  PROVE  \/ exec' = exec
         \/ \E w \in Workers : Claim(w)
         \/ \E w \in Workers : Finish(w) /\ Owns(w) /\ Store(w)
         \/ \E p \in Plans : LeaseExpires(p)
  <1>1. CASE PreparationNext
    BY <1>1 DEF PreparationNext, PostMessage, RepeatMessage, RetryPreparation, DispatchFailed,
       BeginDraft, SkipJob, WritePlan, LoseDraft
  <1>2. CASE DecisionNext
    BY <1>2 DEF DecisionNext, Decide, Approve, RepeatApprove, RetryExecution, Expire, EventEnds,
       Disconnect, Reconnect, ConfirmCalendar
  <1>3. ASSUME NEW w \in Workers, Finish(w)
        PROVE  exec' = exec \/ (Finish(w) /\ Owns(w) /\ Store(w))
    BY <1>3 DEF Finish
  <1>4. CASE ExecutionNext
    BY <1>3, <1>4 DEF ExecutionNext, WorkerStep, SkipMessage, Busy, Load, Block, Promote, ClaimConflict,
       GetEvent, PostEvent, ReadBack, Reported, Proceeds, AbandonCall, Crash, OrphanPosts,
       OrphanEnds, AlterEvent
  <1> QED
    BY <1>1, <1>2, <1>4 DEF Next

\* An event is created by a call that is awaited or abandoned, and its id stays
\* taken; only a call that was awaited is abandoned.
LEMMA EventStep ==
  ASSUME TypeInv, Next, NEW p \in Plans
  PROVE  /\ event[p] # "absent" => event'[p] # "absent"
         /\ event'[p] # "absent" \/ p \in orphans' =>
              \/ event[p] # "absent" \/ p \in orphans
              \/ \E w \in Workers : Claimed(w) /\ job[w].op = p
  <1>1. TypeOK
    BY DEF TypeInv
  <1>2. CASE UNCHANGED googleVars
    BY <1>2 DEF googleVars
  <1>3. CASE \E w \in Workers : PostEvent(w)
    BY <1>1, <1>3 DEF PostEvent, Reported, Proceeds, Claimed, Calling, TypeOK
  <1>4. CASE \E w \in Workers : AbandonCall(w) \/ Crash(w)
    BY <1>1, <1>4 DEF AbandonCall, Crash, Claimed, Calling
  <1>5. CASE \E q \in Plans : OrphanPosts(q) \/ OrphanEnds(q) \/ AlterEvent(q)
    BY <1>1, <1>5 DEF OrphanPosts, OrphanEnds, AlterEvent, TypeOK
  <1>6. CASE PreparationNext
    BY <1>2, <1>6 DEF PreparationNext, PostMessage, RepeatMessage, RetryPreparation, DispatchFailed,
       BeginDraft, SkipJob, WritePlan, LoseDraft
  <1>7. CASE DecisionNext
    BY <1>2, <1>7 DEF DecisionNext, Decide, Approve, RepeatApprove, RetryExecution, Expire, EventEnds,
       Disconnect, Reconnect, ConfirmCalendar
  <1>8. CASE ExecutionNext
    BY <1>2, <1>3, <1>4, <1>5, <1>8 DEF ExecutionNext, WorkerStep, SkipMessage, Busy, Load, Block, Promote,
       Claim, ClaimConflict, GetEvent, ReadBack, Reported, Proceeds, Finish, LeaseExpires, googleVars
  <1> QED
    BY <1>6, <1>7, <1>8 DEF Next

\* An invocation stays, ends, or goes one step further.
LEMMA WorkerMove ==
  ASSUME TypeInv, Next, NEW w \in Workers
  PROVE  \/ UNCHANGED <<pc[w], job[w], snap[w], result[w]>>
         \/ pc'[w] = "idle"
         \/ \E m \in messages : Load(w, m)
         \/ Claim(w)
         \/ /\ pc[w] \in Calling /\ Claimed(w)' /\ UNCHANGED <<job[w], snap[w]>>
            /\ pc'[w] = "finishing" /\ result'[w] = "COMPLETED" => event[job[w].op] # "absent"
  <1> DEFINE Moves(v) ==
         \/ UNCHANGED <<pc[v], job[v], snap[v], result[v]>>
         \/ pc'[v] = "idle"
         \/ \E m \in messages : Load(v, m)
         \/ Claim(v)
         \/ /\ pc[v] \in Calling /\ Claimed(v)' /\ UNCHANGED <<job[v], snap[v]>>
            /\ pc'[v] = "finishing" /\ result'[v] = "COMPLETED" => event[job[v].op] # "absent"
  <1>1. TypeOK
    BY DEF TypeInv
  <1>2. CASE UNCHANGED workVars
    BY <1>2 DEF workVars
  <1>3. ASSUME NEW v \in Workers, Raised(v) \/ Finished(v) PROVE Moves(w)
    BY <1>1, <1>3 DEF Raised, Finished, Rests, TypeOK
  <1>4. ASSUME NEW v \in Workers, pc[v] \in Calling, NEW r, Reported(v, r),
               r = "COMPLETED" => event[job[v].op] # "absent"
        PROVE Moves(w)
    BY <1>1, <1>4 DEF Reported, TypeOK, Claimed
  <1>5. ASSUME NEW v \in Workers, pc[v] \in Calling, NEW where \in Calling, Proceeds(v, where)
        PROVE Moves(w)
    BY <1>1, <1>5 DEF Proceeds, TypeOK, Claimed, Calling
  <1>6. ASSUME NEW p PROVE "COMPLETED" \in Readable(p) => event[p] # "absent"
    BY DEF Readable
  <1>7. ASSUME NEW v \in Workers, NEW m \in messages, SkipMessage(v, m) \/ Busy(v, m) \/ Load(v, m)
        PROVE  Moves(w)
    BY <1>1, <1>2, <1>7 DEF SkipMessage, Busy, Load, TypeOK
  <1>8. ASSUME NEW v \in Workers, Block(v) \/ Promote(v) \/ ClaimConflict(v) \/ Finish(v) \/ Crash(v)
        PROVE Moves(w)
    BY <1>3, <1>8 DEF Block, Promote, ClaimConflict, Finish, Crash
  <1>9. ASSUME NEW v \in Workers, Claim(v) PROVE Moves(w)
    BY <1>1, <1>9 DEF Claim, TypeOK
  <1>10. ASSUME NEW v \in Workers, GetEvent(v) \/ PostEvent(v) \/ ReadBack(v) PROVE Moves(w)
    BY <1>4, <1>5, <1>6, <1>10 DEF GetEvent, PostEvent, ReadBack, Calling
  <1>11. ASSUME NEW v \in Workers, AbandonCall(v) PROVE Moves(w)
    BY <1>1, <1>11 DEF AbandonCall, TypeOK, Claimed
  <1>12. CASE PreparationNext
    BY <1>2, <1>12 DEF PreparationNext, PostMessage, RepeatMessage, RetryPreparation, DispatchFailed,
       BeginDraft, SkipJob, WritePlan, LoseDraft
  <1>13. CASE DecisionNext
    BY <1>2, <1>13 DEF DecisionNext, Decide, Approve, RepeatApprove, RetryExecution, Expire, EventEnds,
       Disconnect, Reconnect, ConfirmCalendar
  <1>14. CASE \E p \in Plans : OrphanPosts(p) \/ OrphanEnds(p) \/ AlterEvent(p) \/ LeaseExpires(p)
    BY <1>2, <1>14 DEF OrphanPosts, OrphanEnds, AlterEvent, LeaseExpires
  <1> QED
    BY <1>7, <1>8, <1>9, <1>10, <1>11, <1>12, <1>13, <1>14 DEF Next, ExecutionNext, WorkerStep

----------------------------------------------------------------------------
\* The parts of the inductive invariant, one after the other.

\* What Load read, by where it sent the invocation.
LEMMA LoadReads ==
  ASSUME TypeInv, NEW w \in Workers, NEW m \in messages, Load(w, m)
  PROVE  /\ m \in Messages /\ meta.op = m.op /\ meta.status \in {"QUEUED", "RUNNING", "VERIFYING"}
         /\ UNCHANGED <<meta, evidence, plans, approvals, link, exec>>
         /\ job'[w] = m
         /\ snap'[w].meta = meta /\ snap'[w].link = link /\ snap'[w].exec = exec[m.op]
         /\ pc'[w] \in {"blocking", "promoting", "claiming"}
         /\ pc'[w] # "blocking" => meta.current = m.op /\ meta.requested = m.op
         /\ pc'[w] = "claiming" => /\ exec[m.op].status # "SUCCEEDED"
                                   /\ \E a \in Current : Linked(link, a.epoch)
                                   /\ plans[m.op].kind = "calendar"
                                   /\ plans[m.op].evidence = evidence
  <1>1. TypeOK
    BY DEF TypeInv
  <1>2. Active(m.op) /\ pc'[w] = Route(m.op) /\ job'[w] = m
        /\ snap'[w].meta = meta /\ snap'[w].link = link /\ snap'[w].exec = exec[m.op]
    BY <1>1 DEF Load, TypeOK
  <1>3. m \in Messages /\ UNCHANGED <<meta, evidence, plans, approvals, link, exec>>
    BY <1>1 DEF Load, TypeOK, caseVars, grantVars
  <1>4. Route(m.op) # "blocking" => ~Outdated(m.op) /\ ~Unlinked /\ ~Changed(m.op)
    BY DEF Route, Verdict
  <1>5. Route(m.op) = "claiming" => exec[m.op].status # "SUCCEEDED"
    BY DEF Route
  <1>6. Route(m.op) \in {"blocking", "promoting", "claiming"}
    BY DEF Route
  <1> QED
    BY <1>2, <1>3, <1>4, <1>5, <1>6 DEF Active, Outdated, Unlinked, Changed

\* META moves forward, so what was read stays at or behind it.
LEMMA ReadingStep == ASSUME TypeInv, Reading, Next PROVE Reading'
  <1> DEFINE Read(w) == /\ snap'[w].meta.op = job'[w].op
                        /\ snap'[w].meta.status \in {"QUEUED", "RUNNING", "VERIFYING"}
                        /\ snap'[w].meta.version <= meta'.version
                        /\ Decided(w)' => /\ snap'[w].meta.current = job'[w].op
                                          /\ snap'[w].meta.requested = job'[w].op
  <1> SUFFICES ASSUME NEW w \in Workers, pc'[w] # "idle" PROVE Read(w)
    BY DEF Reading
  <1>1. meta \in Metas /\ snap[w].meta \in Metas
    BY DEF TypeInv, TypeOK
  <1>2. meta.version <= meta'.version /\ meta.version \in Nat /\ meta'.version \in Nat
    BY <1>1, MetaStep DEF Metas
  <1>3. snap[w].meta.version \in Nat
    BY <1>1 DEF Metas
  <1>4. ASSUME NEW m \in messages, Load(w, m) PROVE Read(w)
    <2>1. /\ snap'[w].meta = meta /\ meta' = meta /\ job'[w] = m /\ meta.op = m.op
          /\ meta.status \in {"QUEUED", "RUNNING", "VERIFYING"}
          /\ pc'[w] \in {"blocking", "promoting", "claiming"}
          /\ pc'[w] # "blocking" => meta.current = m.op /\ meta.requested = m.op
      BY <1>4, LoadReads
    <2>2. Decided(w)' => pc'[w] # "blocking"
      BY DEF Decided, Claimed, Calling
    <2> QED
      BY <1>2, <2>1, <2>2
  <1>5. CASE Claim(w)
    BY <1>2, <1>3, <1>5 DEF Claim, Reading, Decided
  <1> QED
    BY <1>2, <1>3, <1>4, <1>5, WorkerMove DEF Reading, Decided, Claimed, Calling

\* Approvals stay, and evidence cannot change under an unchanged version.
LEMMA ValidatedStep == ASSUME TypeInv, Reading, Validated, Next PROVE Validated'
  <1> DEFINE Valid(w) ==
         /\ snap'[w].exec.status # "SUCCEEDED"
         /\ \E a \in approvals' : /\ a.plan = job'[w].op /\ a.expected = snap'[w].meta.expected
                                  /\ Linked(snap'[w].link, a.epoch)
         /\ plans'[job'[w].op].kind = "calendar"
         /\ snap'[w].meta.version = meta'.version => plans'[job'[w].op].evidence = evidence'
  <1> SUFFICES ASSUME NEW w \in Workers, pc'[w] = "claiming" PROVE Valid(w)
    BY DEF Validated, Linked
  <1>1. meta \in Metas /\ snap[w].meta \in Metas
    BY DEF TypeInv, TypeOK
  <1>2. meta.version \in Nat /\ snap[w].meta.version \in Nat
    BY <1>1 DEF Metas
  <1>3. ASSUME NEW m \in messages, Load(w, m) PROVE Valid(w)
    <2>1. /\ UNCHANGED <<evidence, plans, approvals>> /\ job'[w] = m /\ meta.op = m.op
          /\ snap'[w].meta = meta /\ snap'[w].link = link /\ snap'[w].exec = exec[m.op]
          /\ exec[m.op].status # "SUCCEEDED"
          /\ plans[m.op].kind = "calendar" /\ plans[m.op].evidence = evidence
      BY <1>3, LoadReads
    <2>2. \E a \in Current : Linked(link, a.epoch)
      BY <1>3, LoadReads
    <2> QED
      BY <2>1, <2>2 DEF Current
  <1>4. CASE UNCHANGED <<pc[w], job[w], snap[w], result[w]>>
    <2>1. job[w].op \in Plans /\ plans[job[w].op].kind = "calendar"
      BY <1>4 DEF TypeInv, Holding, Messages, Validated
    <2>2. plans'[job[w].op] = plans[job[w].op] /\ approvals \subseteq approvals'
      BY <2>1, PlanStep
    <2>3. snap[w].meta.version = meta'.version => meta' = meta /\ evidence' = evidence
      BY <1>2, <1>4, MetaStep DEF Reading
    <2> QED
      BY <1>4, <2>2, <2>3 DEF Validated
  <1>5. CASE Claim(w)
    BY <1>5 DEF Claim, TypeInv, TypeOK
  <1> QED
    BY <1>3, <1>4, <1>5, WorkerMove DEF Claimed, Calling

\* Only a claimed operation calls the agent, and a claim leaves a record.
LEMMA TracedStep == ASSUME TypeInv, Traced, Next PROVE Traced'
  <1>1. TypeOK /\ NoWorker \notin Workers
    BY BoundsAssumption DEF TypeInv
  <1> DEFINE Recorded ==
         /\ \A p \in Plans : exec[p].status # "NONE" => exec'[p].status # "NONE"
         /\ \A p \in Plans : exec'[p].owner # NoWorker => exec'[p].status = "RUNNING"
         /\ \A w \in Workers : Claim(w) => exec'[job[w].op].status # "NONE"
  <1>2. Recorded
    <2>1. CASE exec' = exec
      BY <1>1, <2>1 DEF Traced, Claim, TypeInv, Holding, TypeOK, Messages, Executions
    <2>2. ASSUME NEW w \in Workers, Claim(w) PROVE Recorded
      BY <1>1, <2>2 DEF Traced, Claim, TypeInv, Holding, TypeOK, Messages, Executions
    <2>3. ASSUME NEW w \in Workers, Finish(w), Store(w) PROVE Recorded
      BY <1>1, <2>3 DEF Traced, Claim, Finish, Store, ExecutionStatus, TypeInv, Holding, TypeOK, Messages, Executions
    <2>4. ASSUME NEW p \in Plans, LeaseExpires(p) PROVE Recorded
      BY <1>1, <2>4 DEF Traced, Claim, LeaseExpires, TypeInv, Holding, TypeOK, Messages, Executions
    <2> QED
      BY <2>1, <2>2, <2>3, <2>4, ExecStep
  <1>3. \A w \in Workers : pc[w] # "idle" => job[w].op \in Plans
    BY DEF TypeInv, Holding, Messages
  <1>4. ASSUME NEW p \in Plans, event'[p] # "absent" \/ p \in orphans' PROVE exec'[p].status # "NONE"
    BY <1>2, <1>3, <1>4, EventStep DEF Traced, Claimed, Calling
  <1>5. ASSUME NEW w \in Workers, Claimed(w)' PROVE exec'[job'[w].op].status # "NONE"
    <2>1. CASE Claim(w)
      BY <1>2, <2>1 DEF Claim
    <2>2. ASSUME NEW m \in messages, Load(w, m) PROVE FALSE
      BY <1>5, <2>2, LoadReads DEF Claimed, Calling
    <2> QED
      BY <1>2, <1>3, <1>5, <2>1, <2>2, WorkerMove DEF Traced, Claimed, Calling
  <1> QED
    BY <1>2, <1>4, <1>5 DEF Traced

\* Every way META moves.
LEMMA MetaMove ==
  ASSUME Next
  PROVE  \/ meta' = meta
         \/ PostMessage \/ RetryPreparation \/ (\E v \in Plans : DispatchFailed(v))
         \/ (\E d \in drafts : WritePlan(d))
         \/ (\E s \in {"PAUSED", "STOPPED"} : Decide(s)) \/ Approve \/ RetryExecution
         \/ \E w \in Workers : Block(w) \/ Promote(w) \/ Claim(w) \/ Finish(w)
  <1>1. CASE PreparationNext
    BY <1>1 DEF PreparationNext, RepeatMessage, BeginDraft, SkipJob, LoseDraft, caseVars
  <1>2. CASE DecisionNext
    BY <1>2 DEF DecisionNext, RepeatApprove, Expire, EventEnds, Disconnect, Reconnect,
                ConfirmCalendar, caseVars
  <1>3. CASE ExecutionNext
    BY <1>3 DEF ExecutionNext, WorkerStep, SkipMessage, Busy, Load, ClaimConflict, GetEvent, PostEvent,
       ReadBack, Reported, Proceeds, AbandonCall, Crash, OrphanPosts, OrphanEnds, AlterEvent,
       LeaseExpires, caseVars
  <1> QED
    BY <1>1, <1>2, <1>3 DEF Next

\* A claim finds the Case as it was read, and an owner's result as it claimed it.
LEMMA ClaimFinds ==
  ASSUME TypeInv, Reading, Validated, NEW w \in Workers, Claim(w)
  PROVE  /\ job[w].op \in Plans /\ meta.op = job[w].op
         /\ meta.current = job[w].op /\ meta.requested = job[w].op
         /\ meta = snap[w].meta /\ link = snap[w].link
         /\ exec[job[w].op].status # "SUCCEEDED" /\ ~exec[job[w].op].leased
  <1>1. pc[w] = "claiming" /\ meta = snap[w].meta /\ link = snap[w].link
        /\ exec[job[w].op].status = snap[w].exec.status /\ ~exec[job[w].op].leased
    BY DEF Claim, MayClaim, SameCase, SameLink, SameExecution
  <1>2. job[w].op \in Plans
    BY <1>1 DEF TypeInv, Holding, Messages
  <1> QED
    BY <1>1, <1>2 DEF Reading, Validated, Decided

\* An owner whose Case is as it claimed it finds its own plan running.
LEMMA ClaimedFinds ==
  ASSUME TypeInv, Reading, NEW w \in Workers, pc[w] = "finishing", CaseAsClaimed(w)
  PROVE  /\ job[w].op \in Plans /\ meta.status = "RUNNING" /\ meta.op = job[w].op
         /\ meta.current = job[w].op /\ meta.requested = job[w].op
  <1>1. snap[w].meta \in Metas /\ job[w].op \in Plans
    BY DEF TypeInv, TypeOK, Holding, Messages
  <1>2. /\ meta.status = "RUNNING" /\ meta.op = snap[w].meta.op
        /\ meta.current = snap[w].meta.current /\ meta.requested = snap[w].meta.requested
    BY <1>1 DEF CaseAsClaimed, Metas
  <1> QED
    BY <1>1, <1>2 DEF Reading, Decided, Claimed

\* Nothing but a claim starts an execution, and nothing undoes one.
LEMMA PinsStep ==
  ASSUME TypeInv, Reading, Validated, Traced, ExecutionPinsPlan, Next
  PROVE  ExecutionPinsPlan'
  <1> DEFINE SamePlan == /\ meta'.current = meta.current /\ meta'.requested = meta.requested
                         /\ meta'.op = meta.op
             Nothing == \A p \in Plans : exec[p].status = "NONE"
             NoneNew == \A p \in Plans : exec'[p].status # "NONE" => exec[p].status # "NONE"
  <1>1. TypeOK /\ meta \in Metas /\ NoWorker \notin Workers
    BY BoundsAssumption DEF TypeInv, TypeOK
  <1>2. SamePlan /\ NoneNew => ExecutionPinsPlan'
    BY DEF ExecutionPinsPlan
  <1>3. Nothing /\ NoneNew => ExecutionPinsPlan'
    BY DEF ExecutionPinsPlan
  <1>4. ASSUME NEW w \in Workers, Claim(w) PROVE ExecutionPinsPlan'
    <2>1. SamePlan
      BY <1>1, <1>4, MovedKeeps DEF Claim
    <2>2. \A p \in Plans : exec'[p].status # "NONE" => exec[p].status # "NONE" \/ p = job[w].op
      BY <1>1, <1>4 DEF Claim, TypeOK
    <2> QED
      BY <1>4, <2>1, <2>2, ClaimFinds DEF ExecutionPinsPlan
  <1>5. ASSUME ~(\E w \in Workers : Claim(w)) PROVE NoneNew
    <2>1. ASSUME NEW w \in Workers, Finish(w), Owns(w), Store(w) PROVE NoneNew
      <3>1. job[w].op \in Plans
        BY <2>1 DEF Finish, TypeInv, Holding, Messages
      <3>2. exec[job[w].op].status = "RUNNING"
        BY <1>1, <2>1, <3>1 DEF Owns, Traced
      <3> QED
        BY <1>1, <2>1, <3>1, <3>2 DEF Store, TypeOK
    <2>2. ASSUME NEW p \in Plans, LeaseExpires(p) PROVE NoneNew
      BY <1>1, <2>2 DEF LeaseExpires, TypeOK, Executions
    <2> QED
      BY <1>5, <2>1, <2>2, ExecStep
  <1>6. ASSUME PostMessage PROVE Nothing
    <2>1. CASE Refinable
      BY <2>1 DEF Refinable
    <2>2. CASE ~Blocked
      <3>1. ASSUME NEW p \in Plans, exec[p].status # "NONE" PROVE FALSE
        <4>1. ProjectedStatus = exec[p].status
          BY <3>1, BoundsAssumption DEF ExecutionPinsPlan, ProjectedStatus, Plans, NoPlan
        <4>2. exec[p].status \in {"RUNNING", "VERIFYING", "SUCCEEDED", "FAILED"}
          BY <1>1, <3>1 DEF TypeOK, Executions
        <4> QED
          BY <2>2, <4>1, <4>2 DEF Blocked
      <3> QED
        BY <3>1
    <2> QED
      BY <1>6, <2>1, <2>2 DEF PostMessage, MayChangePlan
  <1>7. ASSUME RetryPreparation PROVE Nothing
    BY <1>7, BoundsAssumption DEF RetryPreparation, ExecutionPinsPlan, Plans, NoPlan
  <1>8. ASSUME NEW d \in drafts, WritePlan(d) PROVE meta' = meta \/ Nothing
    <2>1. CASE Awaited(d.plan)
      <3>1. d.plan \in Nat
        BY <1>1 DEF TypeOK, Plans
      <3> QED
        BY <2>1, <3>1 DEF Awaited, ExecutionPinsPlan
    <2> QED
      BY <1>8, <2>1 DEF WritePlan
  <1>9. ASSUME Approve PROVE \/ Nothing
                             \/ SamePlan
    BY <1>1, <1>9, MovedKeeps DEF Approve, ExecutionPinsPlan, Moved, Metas
  <1>10. ASSUME \/ \E v \in Plans : DispatchFailed(v)
                \/ (\E s \in {"PAUSED", "STOPPED"} : Decide(s)) \/ RetryExecution
                \/ \E w \in Workers : Block(w) \/ Promote(w) \/ Finish(w)
         PROVE  SamePlan
    BY <1>1, <1>10, MovedKeeps DEF DispatchFailed, Decide, RetryExecution, Block, Promote, Finish
  <1> QED
    BY <1>2, <1>3, <1>4, <1>5, <1>6, <1>7, <1>8, <1>9, <1>10, MetaMove

\* A verified result stays: a claim needs another status, and its owner left none.
LEMMA FinalStep ==
  ASSUME TypeInv, Reading, Validated, Traced, Next, NEW p \in Plans, exec[p].status = "SUCCEEDED"
  PROVE  exec'[p].status = "SUCCEEDED"
  <1>1. TypeOK /\ NoWorker \notin Workers
    BY BoundsAssumption DEF TypeInv
  <1>2. ASSUME NEW w \in Workers, Claim(w) PROVE exec'[p].status = "SUCCEEDED"
    BY <1>1, <1>2, ClaimFinds DEF Claim, TypeOK
  <1>3. ASSUME NEW w \in Workers, Finish(w), Owns(w), Store(w) PROVE exec'[p].status = "SUCCEEDED"
    <2>1. job[w].op \in Plans
      BY <1>3 DEF Finish, TypeInv, Holding, Messages
    <2>2. exec[job[w].op].status = "RUNNING"
      BY <1>1, <1>3, <2>1 DEF Owns, Traced
    <2> QED
      BY <1>1, <1>3, <2>1, <2>2 DEF Store, TypeOK
  <1>4. ASSUME NEW q \in Plans, LeaseExpires(q) PROVE exec'[p].status = "SUCCEEDED"
    BY <1>1, <1>4 DEF LeaseExpires, TypeOK, Executions
  <1> QED
    BY <1>2, <1>3, <1>4, ExecStep

\* A result is COMPLETED only after the event was read back.
LEMMA VerifiedStep ==
  ASSUME TypeInv, Verified, Next
  PROVE  Verified'
  <1>1. TypeOK
    BY DEF TypeInv
  <1>2. ASSUME NEW p \in Plans, exec'[p].status = "SUCCEEDED" PROVE event[p] # "absent"
    <2>1. ASSUME NEW w \in Workers, Claim(w) PROVE exec[p].status = "SUCCEEDED"
      BY <1>1, <1>2, <2>1 DEF Claim, TypeOK
    <2>2. ASSUME NEW w \in Workers, Finish(w), Store(w)
          PROVE  exec[p].status = "SUCCEEDED" \/ event[p] # "absent"
      <3>1. /\ pc[w] = "finishing" /\ job[w].op \in Plans
            /\ result[w] \in {"COMPLETED", "VERIFYING", "FAILED", "DENIED"}
        BY <2>2 DEF Finish, TypeInv, Holding, Messages
      <3>2. ExecutionStatus(result[w]) = "SUCCEEDED" => result[w] = "COMPLETED"
        BY <3>1 DEF ExecutionStatus
      <3>3. p # job[w].op => exec'[p] = exec[p]
        BY <1>1, <2>2 DEF Store, TypeOK
      <3>4. exec'[job[w].op].status = ExecutionStatus(result[w])
        BY <1>1, <2>2, <3>1 DEF Store, TypeOK, Executions
      <3> QED
        BY <1>2, <3>1, <3>2, <3>3, <3>4 DEF Verified
    <2>3. ASSUME NEW q \in Plans, LeaseExpires(q) PROVE exec[p].status = "SUCCEEDED"
      BY <1>1, <1>2, <2>3 DEF LeaseExpires, TypeOK, Executions
    <2> QED
      BY <1>2, <2>1, <2>2, <2>3, ExecStep DEF Verified
  <1>3. ASSUME NEW w \in Workers, pc'[w] = "finishing", result'[w] = "COMPLETED"
        PROVE  event[job'[w].op] # "absent" /\ job'[w].op \in Plans
    <2>1. ASSUME NEW m \in messages, Load(w, m) PROVE FALSE
      BY <1>3, <2>1, LoadReads
    <2>2. CASE Claim(w)
      BY <1>1, <1>3, <2>2 DEF Claim, TypeOK
    <2> QED
      BY <1>3, <2>1, <2>2, WorkerMove DEF Verified, TypeInv, Holding, Messages, Calling
  <1> QED
    BY <1>2, <1>3, EventStep DEF Verified

\* Only a claim makes a Case run.
LEMMA RunningMove ==
  ASSUME TypeInv, Next, meta' # meta, meta'.status = "RUNNING"
  PROVE  \E w \in Workers : Claim(w)
  <1>1. TypeOK
    BY DEF TypeInv
  <1>2. ~PostMessage /\ ~RetryPreparation /\ ~Approve /\ ~RetryExecution
        /\ \A s \in {"PAUSED", "STOPPED"} : ~Decide(s)
    <2>1. ASSUME NEW s \in {"PREPARING", "QUEUED", "DECISION_REQUIRED", "PAUSED", "STOPPED"}
          PROVE  Moved(s).status # "RUNNING"
      BY <1>1, MovedKeeps
    <2> QED
      BY <1>1, <2>1, MovedKeeps DEF PostMessage, RetryPreparation, Approve, RetryExecution, Decide,
                                    Moved, TypeOK, Metas
  <1>3. \A v \in Plans : ~DispatchFailed(v)
    BY <1>1, MovedKeeps DEF DispatchFailed
  <1>4. \A d \in drafts : ~WritePlan(d)
    BY <1>1, MovedKeeps DEF WritePlan, Moved, TypeOK, Metas
  <1>5. \A w \in Workers : ~Block(w) /\ ~Promote(w)
    BY <1>1, MovedKeeps DEF Block, Promote, TypeInv, Holding
  <1>6. ASSUME NEW w \in Workers, Finish(w) PROVE FALSE
    <2>1. result[w] \in {"COMPLETED", "VERIFYING", "FAILED", "DENIED"}
      BY <1>6 DEF Finish, TypeInv, Holding
    <2>2. CaseStatus(result[w]) # "RUNNING"
      BY <2>1 DEF CaseStatus
    <2> QED
      BY <1>1, <1>6, <2>2, MovedKeeps DEF Finish
  <1> QED
    BY <1>2, <1>3, <1>4, <1>5, <1>6, MetaMove

\* Who owns an operation after a step owned it before, or claims it in the step.
LEMMA OwnerStep ==
  ASSUME TypeInv, Next, NEW w \in Workers, NEW p \in Plans, exec'[p].owner = w
  PROVE  exec[p].owner = w \/ (Claim(w) /\ job[w].op = p)
  <1>1. TypeOK /\ NoWorker \notin Workers
    BY BoundsAssumption DEF TypeInv
  <1>2. ASSUME NEW v \in Workers, Claim(v) PROVE exec[p].owner = w \/ (v = w /\ job[v].op = p)
    BY <1>1, <1>2 DEF Claim, TypeOK
  <1>3. ASSUME NEW v \in Workers, Finish(v), Store(v) PROVE exec[p].owner = w
    BY <1>1, <1>3 DEF Store, TypeOK, Executions
  <1>4. ASSUME NEW q \in Plans, LeaseExpires(q) PROVE exec[p].owner = w
    BY <1>1, <1>4 DEF LeaseExpires, TypeOK, Executions
  <1> QED
    BY <1>2, <1>3, <1>4, ExecStep

\* A Case that still shows the running operation was not moved since the claim.
LEMMA UndisturbedStep ==
  ASSUME TypeInv, Reading, Validated, Undisturbed, Next
  PROVE  Undisturbed'
  <1> SUFFICES ASSUME NEW w \in Workers, Claimed(w)', Owns(w)',
                      meta'.op = job'[w].op, meta'.status = "RUNNING"
               PROVE  CaseAsClaimed(w)'
    BY DEF Undisturbed
  <1>1. TypeOK
    BY DEF TypeInv
  <1>2. CASE Claim(w)
    BY <1>1, <1>2, ClaimFinds DEF Claim, CaseAsClaimed, Moved
  <1>3. CASE ~Claim(w)
    <2>1. ASSUME NEW m \in messages, Load(w, m) PROVE FALSE
      BY <2>1, LoadReads DEF Claimed, Calling
    <2>2. Claimed(w) /\ UNCHANGED <<job[w], snap[w]>>
      BY <1>3, <2>1, WorkerMove DEF Claimed, Calling
    <2>3. job[w].op \in Plans
      BY <2>2 DEF Claimed, Calling, TypeInv, Holding, Messages
    <2>4. Owns(w)
      BY <1>3, <2>2, <2>3, OwnerStep DEF Owns
    <2>5. meta' = meta
      <3>1. ASSUME NEW v \in Workers, Claim(v) PROVE FALSE
        <4>1. job[v].op = meta.op /\ meta'.op = meta.op
          BY <1>1, <3>1, ClaimFinds, MovedKeeps DEF Claim
        <4>2. exec'[job[w].op].owner = v
          BY <1>1, <2>2, <2>3, <3>1, <4>1 DEF Claim, TypeOK
        <4> QED
          BY <1>3, <2>2, <3>1, <4>2 DEF Owns
      <3> QED
        BY <3>1, RunningMove
    <2> QED
      BY <2>2, <2>4, <2>5 DEF Undisturbed, CaseAsClaimed
  <1> QED
    BY <1>2, <1>3

\* A lease of a live worker is replaced by nobody.
LEMMA LeasedStep ==
  ASSUME TypeInv, Leased, Next
  PROVE  Leased'
  <1> SUFFICES ASSUME "overrun" \notin Happenings, NEW w \in Workers, Claimed(w)'
               PROVE  Owns(w)' /\ exec'[job'[w].op].leased
    BY DEF Leased
  <1>1. TypeOK
    BY DEF TypeInv
  <1>2. CASE Claim(w)
    BY <1>1, <1>2 DEF Claim, Owns, TypeInv, Holding, TypeOK, Messages
  <1>3. CASE ~Claim(w)
    <2>1. ASSUME NEW m \in messages, Load(w, m) PROVE FALSE
      BY <2>1, LoadReads DEF Claimed, Calling
    <2>2. Claimed(w) /\ UNCHANGED <<job[w], snap[w]>>
      BY <1>3, <2>1, WorkerMove DEF Claimed, Calling
    <2>3. job[w].op \in Plans
      BY <2>2 DEF Claimed, Calling, TypeInv, Holding, Messages
    <2>4. Owns(w) /\ exec[job[w].op].leased
      BY <2>2 DEF Leased
    <2>5. exec'[job[w].op] = exec[job[w].op]
      <3>1. ASSUME NEW v \in Workers, Claim(v) PROVE exec'[job[w].op] = exec[job[w].op]
        BY <1>1, <2>3, <2>4, <3>1 DEF Claim, MayClaim, TypeOK
      <3>2. ASSUME NEW v \in Workers, Finish(v), Owns(v), Store(v)
            PROVE  exec'[job[w].op] = exec[job[w].op]
        <4>1. v # w
          BY <1>1, <3>2 DEF Finish, Finished, Raised, Rests, Claimed, Calling, TypeOK
        <4> QED
          BY <1>1, <2>3, <2>4, <3>2, <4>1 DEF Owns, Store, TypeOK
      <3>3. ASSUME NEW p \in Plans, LeaseExpires(p) PROVE exec'[job[w].op] = exec[job[w].op]
        <4>1. p # job[w].op
          BY <2>2, <2>4, <3>3 DEF LeaseExpires, Alive, Claimed
        <4> QED
          BY <1>1, <2>3, <3>3, <4>1 DEF LeaseExpires, TypeOK
      <3> QED
        BY <3>1, <3>2, <3>3, ExecStep
    <2> QED
      BY <2>2, <2>4, <2>5 DEF Owns
  <1> QED
    BY <1>2, <1>3

\* The Case names its operation when it runs, and keeps its plan.
LEMMA PointedStep ==
  ASSUME TypeInv, Reading, Validated, Pointed, Next
  PROVE  Pointed'
  <1>1. TypeOK /\ meta \in Metas
    BY DEF TypeInv, TypeOK
  <1>2. CASE meta' = meta
    BY <1>2 DEF Pointed
  <1>3. CASE PostMessage \/ RetryPreparation
    BY <1>1, <1>3, MovedKeeps DEF PostMessage, RetryPreparation, Pointed, Moved, Metas
  <1>4. ASSUME NEW v \in Plans, DispatchFailed(v) PROVE Pointed'
    BY <1>1, <1>4, MovedKeeps DEF DispatchFailed, Pointed
  <1>5. ASSUME NEW d \in drafts, WritePlan(d) PROVE Pointed'
    <2>1. d.plan \in Plans
      BY <1>1 DEF TypeOK
    <2>2. CASE meta' = meta
      BY <2>2 DEF Pointed
    <2>3. CASE meta'.status \in {"COMPLETED", "DECISION_REQUIRED"} /\ meta'.current = d.plan
      BY <2>1, <2>3 DEF Pointed
    <2> QED
      BY <1>1, <1>5, <2>2, <2>3, MovedKeeps DEF WritePlan, Moved, Metas
  <1>6. CASE (\E s \in {"PAUSED", "STOPPED"} : Decide(s)) \/ Approve \/ RetryExecution
    BY <1>1, <1>6, MovedKeeps DEF Decide, Approve, RetryExecution, Pointed, Moved, Metas
  <1>7. ASSUME NEW w \in Workers, Block(w) PROVE Pointed'
    BY <1>1, <1>2, <1>7, MovedKeeps DEF Block, Pointed, TypeInv, Holding
  <1>8. ASSUME NEW w \in Workers, Promote(w) PROVE Pointed'
    <2>1. CASE MayPromote(w)
      <3>1. meta.current = job[w].op /\ job[w].op \in Plans
        BY <1>8, <2>1 DEF Promote, MayPromote, SameCase, Reading, Decided, TypeInv, Holding, Messages
      <3> QED
        BY <1>1, <1>8, <2>1, <3>1, MovedKeeps DEF Promote, Pointed
    <2> QED
      BY <1>2, <1>8, <2>1 DEF Promote
  <1>9. ASSUME NEW w \in Workers, Claim(w) PROVE Pointed'
    BY <1>1, <1>9, ClaimFinds, MovedKeeps DEF Claim, Pointed
  <1>10. ASSUME NEW w \in Workers, Finish(w) PROVE Pointed'
    <2>1. CASE CaseAsClaimed(w)
      <3>1. pc[w] = "finishing"
        BY <1>10 DEF Finish
      <3>2. meta.op \in Plans /\ meta.current \in Plans
        BY <2>1, <3>1, ClaimedFinds
      <3> QED
        BY <1>1, <1>2, <1>10, <3>2, MovedKeeps DEF Finish, Pointed
    <2> QED
      BY <1>2, <1>10, <2>1 DEF Finish
  <1> QED
    BY <1>2, <1>3, <1>4, <1>5, <1>6, <1>7, <1>8, <1>9, <1>10, MetaMove

\* META and the execution record move together, or META shows another status.
LEMMA MirrorsStep ==
  ASSUME TypeInv, Reading, Validated, Traced, Undisturbed, Pointed, ExecutionPinsPlan,
         CaseMirrorsExecution, Next
  PROVE  CaseMirrorsExecution'
  <1> SUFFICES ASSUME meta'.status \in {"RUNNING", "VERIFYING", "FAILED"}
               PROVE  exec'[meta'.op].status = meta'.status
    BY DEF CaseMirrorsExecution
  <1>1. TypeOK /\ meta \in Metas /\ NoWorker \notin Workers
    BY BoundsAssumption DEF TypeInv, TypeOK
  <1>2. ASSUME NEW w \in Workers, Claim(w) PROVE exec'[meta'.op].status = meta'.status
    <2>1. meta' = Moved("RUNNING") /\ meta.op = job[w].op /\ job[w].op \in Plans
      BY <1>2, ClaimFinds DEF Claim
    <2>2. meta'.status = "RUNNING" /\ meta'.op = job[w].op
      BY <1>1, <2>1, MovedKeeps
    <2> QED
      BY <1>1, <1>2, <2>1, <2>2 DEF Claim, TypeOK
  <1>3. ASSUME NEW w \in Workers, Finish(w) PROVE exec'[meta'.op].status = meta'.status
    <2>1. /\ pc[w] = "finishing" /\ job[w].op \in Plans
          /\ result[w] \in {"COMPLETED", "VERIFYING", "FAILED", "DENIED"}
      BY <1>3 DEF Finish, TypeInv, Holding, Messages
    <2>2. CASE ~Owns(w)
      BY <1>3, <2>2 DEF Finish, CaseMirrorsExecution
    <2>3. CASE Owns(w) /\ CaseAsClaimed(w)
      <3>1. meta' = Moved(CaseStatus(result[w])) /\ Store(w) /\ meta.op = job[w].op
        BY <1>3, <2>1, <2>3, ClaimedFinds DEF Finish
      <3>2. meta'.status = CaseStatus(result[w]) /\ meta'.op = job[w].op
        BY <1>1, <3>1, MovedKeeps
      <3>3. exec'[job[w].op].status = ExecutionStatus(result[w])
        BY <1>1, <2>1, <3>1 DEF Store, TypeOK, Executions
      <3>4. CaseStatus(result[w]) \in {"VERIFYING", "FAILED"} =>
              ExecutionStatus(result[w]) = CaseStatus(result[w])
        BY <2>1 DEF CaseStatus, ExecutionStatus
      <3>5. CaseStatus(result[w]) # "RUNNING"
        BY <2>1 DEF CaseStatus
      <3> QED
        BY <3>2, <3>3, <3>4, <3>5
    <2>4. CASE Owns(w) /\ ~CaseAsClaimed(w)
      <3>1. meta' = meta
        BY <1>3, <2>4 DEF Finish
      <3>2. exec[job[w].op].status = "RUNNING"
        BY <1>1, <2>1, <2>4 DEF Owns, Traced
      <3>3. meta.op = job[w].op
        BY <2>1, <3>2 DEF ExecutionPinsPlan
      <3>4. meta.status = "RUNNING"
        BY <3>1, <3>2, <3>3 DEF CaseMirrorsExecution
      <3> QED
        BY <2>1, <2>4, <3>3, <3>4 DEF Undisturbed, Claimed
    <2> QED
      BY <2>2, <2>3, <2>4
  <1>4. ASSUME meta' = meta, ~\E w \in Workers : Claim(w) \/ Finish(w)
        PROVE  exec'[meta'.op].status = meta'.status
    <2>1. ASSUME NEW p \in Plans, LeaseExpires(p) PROVE exec'[meta.op].status = exec[meta.op].status
      BY <1>1, <1>4, <2>1 DEF LeaseExpires, TypeOK, Executions, Pointed
    <2> QED
      BY <1>4, <2>1, ExecStep DEF CaseMirrorsExecution
  <1>5. ASSUME meta' # meta, ~\E w \in Workers : Claim(w) \/ Finish(w) PROVE FALSE
    <2>1. ~PostMessage /\ ~RetryPreparation /\ ~Approve /\ ~RetryExecution
          /\ \A s \in {"PAUSED", "STOPPED"} : ~Decide(s)
      BY <1>1, MovedKeeps DEF PostMessage, RetryPreparation, Approve, RetryExecution, Decide,
                              Moved, Metas
    <2>2. \A v \in Plans : ~DispatchFailed(v)
      BY <1>1, <1>5, MovedKeeps DEF DispatchFailed
    <2>3. \A d \in drafts : ~WritePlan(d)
      BY <1>1, <1>5, MovedKeeps DEF WritePlan, Moved, Metas
    <2>4. \A w \in Workers : ~Block(w) /\ ~Promote(w)
      BY <1>1, <1>5, MovedKeeps DEF Block, Promote, TypeInv, Holding
    <2> QED
      BY <1>5, <2>1, <2>2, <2>3, <2>4, MetaMove
  <1> QED
    BY <1>2, <1>3, <1>4, <1>5

\* Only an owner with a verified result, or a local plan, completes a Case.
LEMMA CompletedStep ==
  ASSUME TypeInv, Reading, Validated, Traced, Verified, Pointed, CompletedIsVerified, Next
  PROVE  CompletedIsVerified'
  <1> SUFFICES ASSUME meta'.status = "COMPLETED", ~LocalResult'
               PROVE  /\ exec'[meta'.current].status = "SUCCEEDED"
                      /\ event'[meta'.current] # "absent"
    BY DEF CompletedIsVerified
  <1>1. TypeOK /\ meta \in Metas
    BY DEF TypeInv, TypeOK
  <1>2. ASSUME NEW p \in Plans, meta'.current = p, exec'[p].status = "SUCCEEDED", event[p] # "absent"
        PROVE  /\ exec'[meta'.current].status = "SUCCEEDED"
               /\ event'[meta'.current] # "absent"
    BY <1>2, EventStep
  <1>3. CASE meta' = meta
    <2>1. meta.current \in Plans
      BY <1>3 DEF Pointed
    <2>2. ~LocalResult
      <3>1. plans[meta.current].kind = "local" => plans'[meta.current] = plans[meta.current]
        BY <2>1, PlanStep
      <3> QED
        BY <1>3, <3>1 DEF LocalResult
    <2>3. exec[meta.current].status = "SUCCEEDED" /\ event[meta.current] # "absent"
      BY <1>3, <2>2 DEF CompletedIsVerified
    <2> QED
      BY <1>2, <1>3, <2>1, <2>3, FinalStep
  <1>4. CASE (\E w \in Workers : Claim(w)) \/ PostMessage \/ RetryPreparation \/ Approve
             \/ RetryExecution \/ \E s \in {"PAUSED", "STOPPED"} : Decide(s)
    BY <1>1, <1>4, MovedKeeps DEF Claim, PostMessage, RetryPreparation, Approve, RetryExecution,
                                  Decide, Moved, Metas
  <1>5. CASE meta' # meta /\ \E v \in Plans : DispatchFailed(v)
    BY <1>1, <1>5, MovedKeeps DEF DispatchFailed
  <1>6. ASSUME meta' # meta, NEW d \in drafts, WritePlan(d) PROVE FALSE
    <2>1. d.plan \in Plans /\ NoPlan \notin Plans
      BY <1>1 DEF TypeOK, NoPlan, Plans
    <2>2. PICK kind \in Outcomes(d) :
            /\ plans' = [plans EXCEPT ![d.plan] = [kind |-> kind, evidence |-> d.evidence]]
            /\ meta' = [Moved(IF kind = "local" THEN "COMPLETED" ELSE "DECISION_REQUIRED")
                          EXCEPT !.current = d.plan]
      BY <1>6 DEF WritePlan
    <2>3. meta'.current = d.plan /\ (kind # "local" => meta'.status = "DECISION_REQUIRED")
      BY <1>1, <2>2, MovedKeeps DEF Moved, Metas
    <2>4. plans'[d.plan].kind = "local"
      BY <1>1, <2>1, <2>2, <2>3 DEF TypeOK
    <2> QED
      BY <2>1, <2>3, <2>4 DEF LocalResult
  <1>7. CASE meta' # meta /\ \E w \in Workers : Block(w)
    BY <1>1, <1>7, MovedKeeps DEF Block, TypeInv, Holding
  <1>8. ASSUME meta' # meta, NEW w \in Workers, Promote(w)
        PROVE  /\ exec'[meta'.current].status = "SUCCEEDED"
               /\ event'[meta'.current] # "absent"
    <2>1. /\ pc[w] = "promoting" /\ meta = snap[w].meta /\ meta' = Moved("COMPLETED")
          /\ exec[job[w].op].status = "SUCCEEDED" /\ exec' = exec
      BY <1>8 DEF Promote, MayPromote, SameCase
    <2>2. meta.current = job[w].op /\ job[w].op \in Plans
      BY <2>1 DEF Reading, Decided, TypeInv, Holding, Messages
    <2>3. meta'.current = job[w].op /\ event[job[w].op] # "absent"
      BY <1>1, <2>1, <2>2, MovedKeeps DEF Verified
    <2> QED
      BY <1>2, <2>1, <2>2, <2>3
  <1>9. ASSUME meta' # meta, NEW w \in Workers, Finish(w)
        PROVE  /\ exec'[meta'.current].status = "SUCCEEDED"
               /\ event'[meta'.current] # "absent"
    <2>1. /\ pc[w] = "finishing" /\ CaseAsClaimed(w) /\ Store(w)
          /\ meta' = Moved(CaseStatus(result[w]))
      BY <1>9 DEF Finish
    <2>2. meta.current = job[w].op /\ job[w].op \in Plans
      BY <2>1, ClaimedFinds
    <2>3. meta'.current = job[w].op /\ CaseStatus(result[w]) = "COMPLETED"
      BY <1>1, <2>1, <2>2, MovedKeeps
    <2>4. result[w] = "COMPLETED"
      BY <2>3 DEF CaseStatus
    <2>5. exec'[job[w].op].status = "SUCCEEDED"
      BY <1>1, <2>1, <2>2, <2>4 DEF Store, ExecutionStatus, TypeOK, Executions
    <2>6. event[job[w].op] # "absent"
      BY <2>1, <2>4 DEF Verified
    <2> QED
      BY <1>2, <2>2, <2>3, <2>5, <2>6
  <1> QED
    BY <1>3, <1>4, <1>5, <1>6, <1>7, <1>8, <1>9, MetaMove

----------------------------------------------------------------------------
\* The invariant holds initially.
LEMMA IInvInit == Init => IInv
  <1> SUFFICES ASSUME Init PROVE IInv
    OBVIOUS
  <1>1. TypeInv
    BY TypeInit
  <1>2. Reading /\ Validated /\ Undisturbed /\ Leased
    BY DEF Init, Reading, Validated, Undisturbed, Leased, Claimed, Calling
  <1>3. ExecutionPinsPlan /\ Traced /\ Verified
    BY DEF Init, ExecutionPinsPlan, Traced, Verified, NotExecuted, Claimed, Calling
  <1>4. Pointed /\ CaseMirrorsExecution /\ CompletedIsVerified
    BY DEF Init, Pointed, CaseMirrorsExecution, CompletedIsVerified, NewCase
  <1> QED
    BY <1>1, <1>2, <1>3, <1>4 DEF IInv

\* The invariant is inductive.
LEMMA IInvStep == IInv /\ [Next]_vars => IInv'
  <1>1. ASSUME IInv, Next PROVE IInv'
    <2> USE <1>1 DEF IInv
    <2>1. TypeInv'
      BY TypeStep
    <2>2. Reading' /\ Validated' /\ Traced'
      BY ReadingStep, ValidatedStep, TracedStep
    <2>3. ExecutionPinsPlan' /\ Verified'
      BY PinsStep, VerifiedStep
    <2>4. Undisturbed' /\ Leased' /\ Pointed'
      BY UndisturbedStep, LeasedStep, PointedStep
    <2>5. CaseMirrorsExecution' /\ CompletedIsVerified'
      BY MirrorsStep, CompletedStep
    <2> QED
      BY <2>1, <2>2, <2>3, <2>4, <2>5
  <1>2. ASSUME IInv, UNCHANGED vars PROVE IInv'
    BY <1>2 DEF vars, IInv, TypeInv, TypeOK, Holding, Reading, Validated, Traced, Verified,
       Undisturbed, Leased, Pointed, ExecutionPinsPlan, CaseMirrorsExecution, CompletedIsVerified,
       LocalResult, Claimed, Decided, Owns, CaseAsClaimed, caseVars, grantVars, prepVars, queueVars,
       googleVars, workVars
  <1> QED
    BY <1>1, <1>2

LEMMA Inductive == Spec => []IInv
  BY IInvInit, IInvStep, PTL DEF Spec

\* Once an operation was ever claimed, no message, preparation, decision or new
\* approval takes its plan from the Case.
THEOREM PlanIsPinned == Spec => []ExecutionPinsPlan
  <1>1. IInv => ExecutionPinsPlan
    BY DEF IInv
  <1> QED
    BY <1>1, Inductive, PTL

\* A Case leads to at most one calendar event, however many plans, workers,
\* retries, redeliveries and abandoned agent calls there are.
THEOREM OneEvent == Spec => []AtMostOneEvent
  <1>1. IInv => AtMostOneEvent
    BY DEF IInv, Traced, ExecutionPinsPlan, AtMostOneEvent
  <1> QED
    BY <1>1, Inductive, PTL

\* A Case that shows a completed calendar plan has its verified result.
THEOREM CompletionVerified == Spec => []CompletedIsVerified
  <1>1. IInv => CompletedIsVerified
    BY DEF IInv
  <1> QED
    BY <1>1, Inductive, PTL

\* The Case never shows a stage that its execution record is not in.
THEOREM Mirrored == Spec => []CaseMirrorsExecution
  <1>1. IInv => CaseMirrorsExecution
    BY DEF IInv
  <1> QED
    BY <1>1, Inductive, PTL

\* While leases outlast their workers, one live invocation at most executes an
\* operation.
THEOREM OneClaim == Spec => []OneLiveClaim
  <1>1. IInv => OneLiveClaim
    BY DEF IInv, Leased, OneLiveClaim, Claimed, Owns
  <1> QED
    BY <1>1, Inductive, PTL

\* No step of any invocation takes a verified result back.
THEOREM VerifiedStays == Spec => VerifiedIsFinal
  <1>1. IInv /\ [Next]_vars => [\A p \in Plans : exec[p].status = "SUCCEEDED" => exec'[p].status = "SUCCEEDED"]_vars
    BY FinalStep DEF IInv
  <1> QED
    BY <1>1, Inductive, PTL DEF Spec, VerifiedIsFinal

\* An execution is claimed only under an approval whose connection, plan and
\* evidence are the Case's own at that moment.
THEOREM ClaimsAreAuthorized == Spec => ClaimIsAuthorized
  <1> DEFINE Authorized == \A p \in Plans : exec'[p].attempt > exec[p].attempt =>
                 /\ \E a \in Current : a.plan = p /\ Linked(link, a.epoch)
                 /\ meta.current = p /\ meta.requested = p
                 /\ plans[p].kind = "calendar" /\ plans[p].evidence = evidence
  <1>1. ASSUME IInv, Next, NEW p \in Plans, exec'[p].attempt > exec[p].attempt
        PROVE  /\ \E a \in Current : a.plan = p /\ Linked(link, a.epoch)
               /\ meta.current = p /\ meta.requested = p
               /\ plans[p].kind = "calendar" /\ plans[p].evidence = evidence
    <2>1. TypeOK /\ TypeInv /\ Reading /\ Validated
      BY <1>1 DEF IInv, TypeInv
    <2>2. exec[p].attempt \in Nat
      BY <2>1 DEF TypeOK, Executions
    <2>3. PICK w \in Workers : Claim(w) /\ job[w].op = p
      <3>1. ASSUME NEW w \in Workers, Claim(w), job[w].op # p PROVE exec'[p] = exec[p]
        BY <2>1, <3>1 DEF Claim, TypeOK
      <3>2. ASSUME NEW w \in Workers, Finish(w), Store(w) PROVE exec'[p].attempt = exec[p].attempt
        BY <2>1, <3>2 DEF Store, TypeOK, Executions
      <3>3. ASSUME NEW q \in Plans, LeaseExpires(q) PROVE exec'[p].attempt = exec[p].attempt
        BY <2>1, <3>3 DEF LeaseExpires, TypeOK, Executions
      <3> QED
        BY <1>1, <2>1, <2>2, <3>1, <3>2, <3>3, ExecStep
    <2>4. /\ meta = snap[w].meta /\ link = snap[w].link
          /\ meta.op = p /\ meta.current = p /\ meta.requested = p
      BY <2>1, <2>3, ClaimFinds
    <2>5. pc[w] = "claiming"
      BY <2>3 DEF Claim
    <2>6. PICK a \in approvals : a.plan = p /\ a.expected = meta.expected /\ Linked(link, a.epoch)
      BY <2>1, <2>3, <2>4, <2>5 DEF Validated
    <2>7. plans[p].kind = "calendar" /\ plans[p].evidence = evidence
      BY <2>1, <2>3, <2>4, <2>5 DEF Validated
    <2> QED
      BY <2>4, <2>6, <2>7 DEF Current
  <1>2. ASSUME IInv, UNCHANGED vars PROVE Authorized
    BY <1>2 DEF vars, IInv, TypeInv, TypeOK, Executions
  <1>3. IInv /\ [Next]_vars => [Authorized]_vars
    BY <1>1
  <1> QED
    BY <1>3, Inductive, PTL DEF Spec, ClaimIsAuthorized

\* Only the user moves a Case out of the user's own stop or deferral.
THEOREM DecisionsWin == Spec => UserDecisionWins
  <1> DEFINE Wins == meta.status \in {"PAUSED", "STOPPED"} /\ meta' # meta =>
                       meta'.status \in {"PAUSED", "STOPPED", "QUEUED", "PREPARING"}
  <1>1. ASSUME IInv, Next, meta.status \in {"PAUSED", "STOPPED"}, meta' # meta
        PROVE  meta'.status \in {"PAUSED", "STOPPED", "QUEUED", "PREPARING"}
    <2>1. TypeOK /\ meta \in Metas /\ TypeInv /\ Reading /\ Validated
      BY <1>1 DEF IInv, TypeInv, TypeOK
    <2>2. CASE PostMessage \/ RetryPreparation \/ Approve \/ RetryExecution
               \/ \E s \in {"PAUSED", "STOPPED"} : Decide(s)
      BY <1>1, <2>1, <2>2, MovedKeeps DEF PostMessage, RetryPreparation, Approve, RetryExecution,
                                          Decide, Moved, Metas
    <2>3. \A v \in Plans : ~DispatchFailed(v)
      BY <1>1 DEF DispatchFailed
    <2>4. \A d \in drafts : ~WritePlan(d)
      BY <1>1 DEF WritePlan, Awaited
    <2>5. \A w \in Workers : ~Block(w) /\ ~Promote(w) /\ ~Claim(w)
      BY <1>1, <2>1 DEF Block, Promote, MayPromote, Claim, MayClaim, SameCase, Reading
    <2>6. \A w \in Workers : ~Finish(w)
      BY <1>1, <2>1, ClaimedFinds DEF Finish
    <2> QED
      BY <1>1, <2>2, <2>3, <2>4, <2>5, <2>6, MetaMove
  <1>2. IInv /\ [Next]_vars => [Wins]_vars
    BY <1>1
  <1> QED
    BY <1>2, Inductive, PTL DEF Spec, UserDecisionWins

----------------------------------------------------------------------------
\* The plan that was started, if any: the invariant leaves no choice.
LEMMA StartedIs ==
  ASSUME IInv
  PROVE  /\ StartedPlans = {} => StartedPlan = NoPlan
         /\ \A p \in Plans : exec[p].status # "NONE" => StartedPlans = {p} /\ StartedPlan = p
  <1>1. ASSUME NEW p \in Plans, exec[p].status # "NONE" PROVE StartedPlans = {p}
    BY <1>1 DEF StartedPlans, IInv, ExecutionPinsPlan
  <1> QED
    BY <1>1 DEF StartedPlan

\* Only an approval, a claim, a result and a POST can be seen in the promise.
LEMMA PromiseStep == IInv /\ IInv' /\ [Next]_vars => [Promise!Next]_(Promise!pvars)
  <1> SUFFICES ASSUME IInv, IInv', [Next]_vars
               PROVE  Promise!Next \/ UNCHANGED Promise!pvars
    OBVIOUS
  <1>1. TypeOK /\ TypeOK' /\ TypeInv /\ Reading /\ Validated /\ Traced /\ Verified /\ NoWorker \notin Workers
    BY BoundsAssumption DEF IInv, TypeInv
  <1>2. ASSUME UNCHANGED <<ApprovedPlans, StartedPlans, WrittenPlans, VerifiedPlans>>
        PROVE  UNCHANGED Promise!pvars
    BY <1>2 DEF Promise!pvars, StartedPlan
  <1>3. CASE UNCHANGED <<approvals, exec, event>>
    BY <1>2, <1>3 DEF ApprovedPlans, StartedPlans, WrittenPlans, VerifiedPlans
  <1>4. CASE Approve
    <2>1. /\ meta.current \in Plans /\ UNCHANGED <<exec, event>>
          /\ approvals' = approvals \cup {Approval(meta.current, meta.version, link.epoch)}
      BY <1>1, <1>4 DEF Approve, TypeOK, Metas, googleVars
    <2>2. ApprovedPlans' = ApprovedPlans \cup {meta.current}
      <3> DEFINE new == Approval(meta.current, meta.version, link.epoch)
      <3>1. new.plan = meta.current
        BY DEF Approval
      <3> HIDE DEF new
      <3>2. \A p \in Plans : (\E a \in approvals' : a.plan = p) <=>
                            (\E a \in approvals : a.plan = p) \/ p = meta.current
        BY <2>1, <3>1 DEF new
      <3> QED
        BY <2>1, <3>2 DEF ApprovedPlans
    <2>3. UNCHANGED <<StartedPlans, StartedPlan, WrittenPlans, VerifiedPlans>>
      BY <2>1 DEF StartedPlans, StartedPlan, WrittenPlans, VerifiedPlans
    <2> QED
      BY <2>1, <2>2, <2>3 DEF Promise!Next, Promise!Approve
  <1>5. ASSUME NEW w \in Workers, Claim(w) PROVE Promise!Next \/ UNCHANGED Promise!pvars
    <2>1. /\ job[w].op \in Plans /\ exec[job[w].op].status # "SUCCEEDED"
          /\ UNCHANGED <<approvals, event>>
      BY <1>1, <1>5, ClaimFinds DEF Claim, grantVars, googleVars
    <2>2. /\ \A p \in Plans : p # job[w].op => exec'[p] = exec[p]
          /\ exec'[job[w].op].status = "RUNNING"
      BY <1>1, <1>5, <2>1 DEF Claim, TypeOK
    <2>3. /\ StartedPlans' = StartedPlans \cup {job[w].op}
          /\ UNCHANGED <<ApprovedPlans, WrittenPlans, VerifiedPlans>>
      BY <2>1, <2>2 DEF StartedPlans, ApprovedPlans, WrittenPlans, VerifiedPlans
    <2>4. job[w].op \in ApprovedPlans
      BY <1>1, <1>5, <2>1 DEF Claim, Validated, ApprovedPlans
    <2>5. StartedPlan' = job[w].op
      BY <2>1, <2>2, <2>3 DEF StartedPlan, StartedPlans, IInv, ExecutionPinsPlan
    <2>6. CASE StartedPlans = {}
      BY <2>1, <2>3, <2>4, <2>5, <2>6, StartedIs DEF Promise!Next, Promise!Start
    <2>7. CASE StartedPlans # {}
      <3>1. PICK p \in Plans : exec[p].status # "NONE"
        BY <2>7 DEF StartedPlans
      <3>2. StartedPlans = {p} /\ StartedPlan = p
        BY <3>1, StartedIs
      <3>3. p = job[w].op
        BY <1>1, <1>5, <3>1, ClaimFinds DEF IInv, ExecutionPinsPlan
      <3> QED
        BY <2>3, <2>5, <3>2, <3>3 DEF Promise!pvars
    <2> QED
      BY <2>6, <2>7
  <1>6. ASSUME NEW w \in Workers, Finish(w), Owns(w), Store(w)
        PROVE  Promise!Next \/ UNCHANGED Promise!pvars
    <2>1. /\ job[w].op \in Plans /\ exec[job[w].op].status = "RUNNING" /\ pc[w] = "finishing"
          /\ result[w] \in {"COMPLETED", "VERIFYING", "FAILED", "DENIED"}
          /\ UNCHANGED <<approvals, event>>
      BY <1>1, <1>6 DEF Finish, TypeInv, Holding, Messages, Owns, Traced, grantVars, googleVars
    <2>2. /\ \A p \in Plans : p # job[w].op => exec'[p] = exec[p]
          /\ exec'[job[w].op].status = ExecutionStatus(result[w])
      BY <1>1, <1>6, <2>1 DEF Store, TypeOK, Executions
    <2>3. /\ ExecutionStatus(result[w]) # "NONE"
          /\ ExecutionStatus(result[w]) = "SUCCEEDED" => result[w] = "COMPLETED"
      BY <2>1 DEF ExecutionStatus
    <2>4. UNCHANGED <<StartedPlans, ApprovedPlans, WrittenPlans>>
      BY <2>1, <2>2, <2>3 DEF StartedPlans, ApprovedPlans, WrittenPlans
    <2>5. VerifiedPlans' = VerifiedPlans \/ /\ VerifiedPlans' = VerifiedPlans \cup {job[w].op}
                                            /\ result[w] = "COMPLETED"
      BY <2>1, <2>2, <2>3 DEF VerifiedPlans
    <2>6. result[w] = "COMPLETED" => job[w].op \in WrittenPlans
      BY <1>1, <2>1 DEF Verified, WrittenPlans
    <2>7. StartedPlan' = StartedPlan
      BY <2>4 DEF StartedPlan
    <2> QED
      BY <2>1, <2>4, <2>5, <2>6, <2>7 DEF Promise!Next, Promise!Verify, Promise!pvars
  <1>7. ASSUME NEW p \in Plans, LeaseExpires(p) PROVE UNCHANGED Promise!pvars
    <2>1. UNCHANGED <<approvals, event>> /\ \A q \in Plans : exec'[q].status = exec[q].status
      BY <1>1, <1>7 DEF LeaseExpires, TypeOK, Executions, grantVars, googleVars
    <2> QED
      BY <1>2, <2>1 DEF ApprovedPlans, StartedPlans, WrittenPlans, VerifiedPlans
  <1>8. ASSUME NEW p \in Plans, exec[p].status # "NONE", UNCHANGED <<approvals, exec>>,
               event' = event \/ event' = [event EXCEPT ![p] = IF @ = "absent" THEN "saved" ELSE @]
        PROVE  Promise!Next \/ UNCHANGED Promise!pvars
    <2>1. UNCHANGED <<ApprovedPlans, StartedPlans, VerifiedPlans>>
      BY <1>8 DEF ApprovedPlans, StartedPlans, VerifiedPlans
    <2>2. StartedPlan' = StartedPlan /\ StartedPlan = p
      BY <1>8, <2>1, StartedIs DEF StartedPlan
    <2>3. WrittenPlans' = WrittenPlans \/ WrittenPlans' = WrittenPlans \cup {p}
      BY <1>1, <1>8 DEF WrittenPlans, TypeOK
    <2> QED
      BY <1>8, <2>1, <2>2, <2>3 DEF Promise!Next, Promise!Write, Promise!pvars
  <1>9. ASSUME NEW w \in Workers, PostEvent(w) PROVE Promise!Next \/ UNCHANGED Promise!pvars
    <2>1. job[w].op \in Plans /\ exec[job[w].op].status # "NONE"
      BY <1>1, <1>9 DEF PostEvent, TypeInv, Holding, Messages, Traced, Claimed, Calling
    <2> QED
      BY <1>8, <1>9, <2>1 DEF PostEvent, Reported, Proceeds, grantVars
  <1>10. ASSUME NEW p \in Plans, OrphanPosts(p) PROVE Promise!Next \/ UNCHANGED Promise!pvars
    BY <1>1, <1>8, <1>10 DEF OrphanPosts, Traced, grantVars
  <1>11. ASSUME NEW p \in Plans, AlterEvent(p) PROVE UNCHANGED Promise!pvars
    <2>1. UNCHANGED <<approvals, exec>> /\ WrittenPlans' = WrittenPlans
      BY <1>1, <1>11 DEF AlterEvent, grantVars, WrittenPlans, TypeOK
    <2> QED
      BY <1>2, <2>1 DEF ApprovedPlans, StartedPlans, VerifiedPlans
  <1>12. ASSUME Next PROVE \/ UNCHANGED <<approvals, exec, event>> \/ Approve
                           \/ \E w \in Workers : \/ Claim(w) \/ (Finish(w) /\ Owns(w) /\ Store(w))
                                                 \/ PostEvent(w)
                           \/ \E p \in Plans : LeaseExpires(p) \/ OrphanPosts(p) \/ AlterEvent(p)
    <2>1. CASE PreparationNext
      BY <2>1 DEF PreparationNext, PostMessage, RepeatMessage, RetryPreparation, DispatchFailed,
         BeginDraft, SkipJob, WritePlan, LoseDraft, grantVars, googleVars
    <2>2. CASE DecisionNext
      BY <2>2 DEF DecisionNext, Decide, RepeatApprove, RetryExecution, Expire, EventEnds,
         Disconnect, Reconnect, ConfirmCalendar, grantVars, googleVars
    <2>3. ASSUME NEW w \in Workers, WorkerStep(w)
          PROVE  \/ UNCHANGED <<approvals, exec, event>> \/ Claim(w) \/ PostEvent(w)
                 \/ (Finish(w) /\ Owns(w) /\ Store(w))
      BY <2>3 DEF WorkerStep, SkipMessage, Busy, Load, Block, Promote, ClaimConflict, GetEvent, ReadBack,
         Reported, Proceeds, AbandonCall, Finish, Crash, grantVars, googleVars
    <2>4. ASSUME NEW p \in Plans, OrphanEnds(p) PROVE UNCHANGED <<approvals, exec, event>>
      BY <2>4 DEF OrphanEnds, grantVars
    <2> QED
      BY <1>12, <2>1, <2>2, <2>3, <2>4 DEF Next, ExecutionNext
  <1>13. CASE UNCHANGED vars
    BY <1>3, <1>13 DEF vars, grantVars, googleVars
  <1> QED
    BY <1>3, <1>4, <1>5, <1>6, <1>7, <1>9, <1>10, <1>11, <1>12, <1>13

\* The Case, with all its queues, leases and workers, implements the promise:
\* only an approved plan is started, only one, and only its event is written and
\* verified.
THEOREM PromiseKept == Spec => KeepsPromise
  <1>1. Init => Promise!Init
    BY DEF Init, Promise!Init, ApprovedPlans, StartedPlan, StartedPlans, WrittenPlans, VerifiedPlans,
           NotExecuted
  <1> QED
    BY <1>1, PromiseStep, Inductive, PTL DEF Spec, KeepsPromise, Promise!Spec

----------------------------------------------------------------------------
\* However the drafts of several requests complete, the current plan is stored,
\* and no stored plan is newer.
CurrentIsNewest ==
  /\ meta.current # NoPlan => plans[meta.current].kind # "unwritten"
  /\ \A v \in Plans : plans[v].kind # "unwritten" => v <= meta.current
\* The message of a plan is deleted only when nobody awaits the plan any more.
JobIsKept == [][\A v \in Plans : v \in jobs /\ v \notin jobs' => ~Awaited(v)']_vars

\* A plan is written with the pointer to it, and only while it is the next.
LEMMA WrittenStep ==
  ASSUME TypeInv, Next
  PROVE  \/ plans' = plans /\ meta'.current = meta.current
         \/ \E d \in drafts : \E kind \in Kinds \ {"unwritten"} :
              /\ d.plan \in Plans /\ meta.current < d.plan /\ meta'.current = d.plan
              /\ plans' = [plans EXCEPT ![d.plan] = [kind |-> kind, evidence |-> d.evidence]]
  <1> USE DEF TypeInv
  <1>1. meta \in Metas /\ \A s \in Statuses : Moved(s).current = meta.current
    BY MovedKeeps DEF TypeOK
  <1>2. ASSUME NEW d \in drafts, WritePlan(d), Awaited(d.plan), plans[d.plan].kind = "unwritten"
        PROVE  \E kind \in Kinds \ {"unwritten"} :
                 /\ d.plan \in Plans /\ meta.current < d.plan /\ meta'.current = d.plan
                 /\ plans' = [plans EXCEPT ![d.plan] = [kind |-> kind, evidence |-> d.evidence]]
    <2>1. PICK kind \in Outcomes(d) :
            /\ plans' = [plans EXCEPT ![d.plan] = [kind |-> kind, evidence |-> d.evidence]]
            /\ meta' = [Moved(IF kind = "local" THEN "COMPLETED" ELSE "DECISION_REQUIRED")
                          EXCEPT !.current = d.plan]
      BY <1>2 DEF WritePlan
    <2>2. kind \in Kinds \ {"unwritten"} BY DEF Outcomes, Kinds
    <2>3. d.plan \in Plans /\ meta'.current = d.plan
      BY <1>1, <2>1 DEF TypeOK, Moved, Metas
    <2> QED
      BY <1>2, <2>1, <2>2, <2>3 DEF WritePlan, Awaited
  <1>3. ASSUME NEW d \in drafts, WritePlan(d), ~(Awaited(d.plan) /\ plans[d.plan].kind = "unwritten")
        PROVE  plans' = plans /\ meta' = meta
    BY <1>3 DEF WritePlan
  <1>4. ASSUME PreparationNext, \A d \in drafts : ~WritePlan(d)
        PROVE  plans' = plans /\ meta'.current = meta.current
    BY <1>1, <1>4 DEF PreparationNext, PostMessage, RepeatMessage, RetryPreparation, DispatchFailed,
       BeginDraft, SkipJob, LoseDraft, caseVars, Moved, Metas
  <1>5. CASE DecisionNext
    BY <1>1, <1>5 DEF DecisionNext, Decide, Approve, RepeatApprove, RetryExecution, Expire, EventEnds,
       Disconnect, Reconnect, ConfirmCalendar, caseVars, Moved, Metas
  <1>6. CASE ExecutionNext
    BY <1>1, <1>6 DEF ExecutionNext, WorkerStep, SkipMessage, Busy, Load, Block, Promote, Claim, ClaimConflict,
       GetEvent, PostEvent, ReadBack, Reported, Proceeds, AbandonCall, Finish, Crash,
       OrphanPosts, OrphanEnds, AlterEvent, LeaseExpires, caseVars, Moved, Metas
  <1> QED
    BY <1>2, <1>3, <1>4, <1>5, <1>6 DEF Next

LEMMA NewestStep ==
  ASSUME TypeInv, CurrentIsNewest, [Next]_vars
  PROVE  CurrentIsNewest'
  <1>1. plans \in [Plans -> [kind : Kinds, evidence : Nat]] /\ meta.current \in Plans \cup {NoPlan}
    BY DEF TypeInv, TypeOK, Metas
  <1>2. Plans \subseteq Nat /\ NoPlan \notin Plans /\ NoPlan \in Nat BY DEF Plans, NoPlan
  <1>3. CASE plans' = plans /\ meta'.current = meta.current
    BY <1>3 DEF CurrentIsNewest
  <1>4. ASSUME NEW d \in drafts, NEW kind \in Kinds \ {"unwritten"},
               d.plan \in Plans, meta.current < d.plan, meta'.current = d.plan,
               plans' = [plans EXCEPT ![d.plan] = [kind |-> kind, evidence |-> d.evidence]]
        PROVE  CurrentIsNewest'
    <2>1. plans'[d.plan].kind # "unwritten" /\ \A v \in Plans : v # d.plan => plans'[v] = plans[v]
      BY <1>1, <1>4
    <2>2. meta.current \in Nat /\ d.plan \in Nat BY <1>1, <1>2, <1>4
    <2> QED
      BY <1>2, <1>4, <2>1, <2>2 DEF CurrentIsNewest
  <1>5. CASE UNCHANGED vars
    BY <1>5 DEF vars, caseVars, CurrentIsNewest
  <1> QED
    BY <1>3, <1>4, <1>5, WrittenStep

\* Drafts of several plan versions (case_jobs.py) complete in any order: META
\* always names the newest plan that was stored.
THEOREM NewestIsCurrent == Spec => []CurrentIsNewest
  <1>1. Init => CurrentIsNewest
    BY DEF Init, CurrentIsNewest, NewCase, Unwritten, NoPlan
  <1> QED
    BY <1>1, NewestStep, TypeCorrect, TypeInit, TypeStep, PTL DEF Spec

\* While a plan is awaited, no step of any worker deletes the message of its job.
THEOREM JobsAreKept == Spec => JobIsKept
  <1> DEFINE Kept == \A v \in Plans : v \in jobs /\ v \notin jobs' => ~Awaited(v)'
  <1>1. ASSUME TypeInv, CurrentIsNewest, Next, NEW v \in Plans, v \in jobs, v \notin jobs'
        PROVE  ~Awaited(v)'
    <2>1. CASE SkipJob(v)
      BY <2>1 DEF SkipJob, Awaited, caseVars
    <2>2. ASSUME NEW d \in drafts, WritePlan(d) PROVE ~Awaited(v)'
      <3>1. d.plan = v
        BY <1>1, <2>2 DEF WritePlan
      <3>2. CASE Awaited(v) /\ plans[v].kind = "unwritten"
        <4>1. PICK s \in Statuses : meta' = [Moved(s) EXCEPT !.current = v]
          BY <2>2, <3>1, <3>2 DEF WritePlan, Statuses
        <4>2. meta'.current = v
          BY <1>1, <4>1, MovedType DEF TypeInv, Metas
        <4> QED
          BY <4>2 DEF Awaited, Plans
      <3>3. CASE ~(Awaited(v) /\ plans[v].kind = "unwritten")
        <4>1. meta' = meta
          BY <2>2, <3>1, <3>3 DEF WritePlan
        <4>2. plans[v].kind # "unwritten" => ~(meta.current < v)
          BY <1>1 DEF CurrentIsNewest, TypeInv, TypeOK, Metas, Plans, NoPlan
        <4> QED
          BY <3>3, <4>1, <4>2 DEF Awaited
      <3> QED
        BY <3>2, <3>3
    <2>3. SkipJob(v) \/ \E d \in drafts : WritePlan(d)
      <3>1. CASE PreparationNext
        BY <1>1, <3>1 DEF PreparationNext, PostMessage, RepeatMessage, RetryPreparation, DispatchFailed,
           BeginDraft, SkipJob, LoseDraft, DispatchJob
      <3>2. CASE DecisionNext
        BY <1>1, <3>2 DEF DecisionNext, Decide, Approve, RepeatApprove, RetryExecution, Expire, EventEnds,
           Disconnect, Reconnect, ConfirmCalendar, prepVars
      <3>3. CASE ExecutionNext
        BY <1>1, <3>3 DEF ExecutionNext, WorkerStep, SkipMessage, Busy, Load, Block, Promote, Claim,
           ClaimConflict, GetEvent, PostEvent, ReadBack, Reported, Proceeds, AbandonCall, Finish, Crash,
           OrphanPosts, OrphanEnds, AlterEvent, LeaseExpires, prepVars
      <3> QED
        BY <1>1, <3>1, <3>2, <3>3 DEF Next
    <2> QED
      BY <2>1, <2>2, <2>3
  <1>2. ASSUME UNCHANGED vars PROVE Kept
    BY <1>2 DEF vars, prepVars
  <1>3. TypeInv /\ CurrentIsNewest /\ [Next]_vars => [Kept]_vars
    BY <1>1, <1>2
  <1> QED
    BY <1>3, NewestIsCurrent, TypeInit, TypeStep, PTL DEF Spec, JobIsKept
===============================================================================
