----------------------------- MODULE CaseState -----------------------------
(***************************************************************************)
(* The records that one QuietPilot Case is made of, and everything outside *)
(* the table that the Case depends on: the user's Google connection, the   *)
(* two kinds of queued work, the Lambda invocations that consume them, the *)
(* agent calls they leave behind and the calendar itself.  The modules     *)
(* CasePreparation, CaseDecisions and CalendarExecution hold the actions;  *)
(* CalendarCase composes them.                                             *)
(*                                                                         *)
(* A plan is named by its version: PLAN#v is written once, so the pair     *)
(* (version, hash) is a function of v, and so is the operation id derived  *)
(* from it.  An approval id is derived from the operation and the version  *)
(* of the Case the user approved, so an approval is named by that pair.    *)
(***************************************************************************)
EXTENDS Naturals, FiniteSets

CONSTANTS
  Workers,      \* concurrent worker Lambda invocations
  NoWorker,     \* the owner of an execution record without a lease_token
  MaxPlans,     \* bound on requested_plan_version
  MaxVersion,   \* bound on the Case version at which a user still acts
  MaxEvidence,  \* bound on the evidence of a Case (8 in the code)
  MaxEpochs,    \* bound on the Google authorizations of the user
  MaxSends,     \* bound on the execution messages ever sent
  MaxReceives,  \* receives of a message before the dead-letter queue (5)
  Happenings    \* what a run lets happen around the services: "expiry" of an
                \* approval, the "end" of the event, "disconnect" from Google, a
                \* "reconnect", an "edit" in the calendar, "crash" of a Lambda, "loss" of a
                \* send, "timeout" of an agent call, a worker that "overrun"s
                \* its lease (the 150 s of the lease outlast the 120 s of the Lambda)

ASSUME BoundsAssumption ==
  /\ MaxPlans \in Nat \ {0}
  /\ {MaxVersion, MaxEvidence, MaxEpochs, MaxSends, MaxReceives} \subseteq Nat
  /\ MaxEvidence > 0
  /\ NoWorker \notin Workers

VARIABLES
  meta,         \* CASE#/META: status, version, plan pointers, approved ids
  evidence,     \* how many distinct evidence items the Case holds
  plans,        \* CASE#/PLAN#v
  approvals,    \* CASE#/APPROVAL#...: plan, expected Case version, epoch
  expired,      \* the approvals whose hour is over
  ended,        \* the plans whose event ends in the past
  link,         \* CONNECTION#google and CONNECTION#google-calendar
  jobs,         \* plan versions with a DIRECT_REQUEST_RECEIVED message
  drafts,       \* agent calls preparing a plan
  undispatched, \* plan versions whose SQS send failed, not yet compensated
  messages,     \* receivable ACTION_EXECUTE_REQUESTED messages
  sent,         \* how many of those were ever sent
  exec,         \* CASE#/ACTION#operation of each plan's operation
  event,        \* the Google Calendar event of each plan's operation
  orphans,      \* operations with an agent call its worker no longer awaits
  pc,           \* where each worker invocation is
  job,          \* the message it holds
  snap,         \* the records it read
  result        \* its verdict on the Case, then what its agent call reported

caseVars   == <<meta, evidence, plans>>
grantVars  == <<approvals, expired, ended>>
prepVars   == <<jobs, drafts, undispatched>>
queueVars  == <<messages, sent>>
googleVars == <<event, orphans>>
workVars   == <<pc, job, snap, result>>
vars == <<caseVars, grantVars, link, prepVars, queueVars, exec, googleVars,
          workVars>>

Plans == 1 .. MaxPlans
\* The statuses a stored Case can have: APPROVED is declared and never stored.
Statuses == {"PREPARING", "DECISION_REQUIRED", "QUEUED", "RUNNING", "VERIFYING",
             "COMPLETED", "FAILED", "PAUSED", "PERMISSION_REVOKED", "STOPPED"}
\* A prepared plan is one calendar event, a proposal without actions, or a
\* draft or checklist that QuietPilot completed locally.
Kinds == {"unwritten", "calendar", "empty", "local"}
\* No approval: approved_operation_id and approved_approval_id are absent.
NoPlan == 0

NewCase      == [status |-> "PREPARING", version |-> 1, current |-> NoPlan,
                 requested |-> 1, op |-> NoPlan, expected |-> 0]
Unwritten    == [kind |-> "unwritten", evidence |-> 0]
NotExecuted  == [status |-> "NONE", attempt |-> 0, owner |-> NoWorker, leased |-> FALSE]
NoMessage    == [id |-> 0, op |-> NoPlan, left |-> 0, after |-> 0]
NoLink       == [status |-> "OFF", epoch |-> 1, calendar |-> 0]
NoSnapshot   == [meta |-> NewCase, link |-> NoLink, exec |-> NotExecuted]

\* Every update of META increments its version in the same write.
Moved(status) == [meta EXCEPT !.status = status, !.version = @ + 1]

Approval(p, v, e) == [plan |-> p, expected |-> v, epoch |-> e]
\* The approval META points at, if any (a set of at most one element).
Current == {a \in approvals : a.plan = meta.op /\ a.expected = meta.expected}

\* Both connections are CONNECTED with the same epoch and account.
Linked(l, epoch) == l.status = "CONNECTED" /\ l.epoch = epoch /\ l.calendar = epoch

\* The plan status the API projects on the actions of the latest plan: the
\* execution record counts only while META's approved operation is that plan's.
ProjectedStatus == IF meta.current # NoPlan /\ meta.op = meta.current
                   THEN exec[meta.current].status ELSE "NONE"

\* SQS sends: a message per dispatch, each with a fresh dedupe key.
Message(p) == [id |-> sent + 1, op |-> p, left |-> MaxReceives, after |-> 0]

\* The same for the message that asks for plan v: one job per plan version.
DispatchJob(v) ==
  \/ jobs' = jobs \cup {v}
  \/ "loss" \in Happenings /\ jobs' = jobs

\* SqsWorkQueue.send: the message may be lost when the call or the Lambda fails.
Dispatch(p) ==
  /\ sent < MaxSends
  /\ sent' = sent + 1
  /\ \/ messages' = messages \cup {Message(p)}
     \/ "loss" \in Happenings /\ messages' = messages

(***************************************************************************)
(* A direct request creates the Case: META without a plan, plan 1          *)
(* requested, one evidence item and the message that asks for the plan     *)
(* (which may be lost, as any send).  The user's connection is any.        *)
(***************************************************************************)
Init ==
  /\ meta = NewCase
  /\ evidence = 1
  /\ plans = [p \in Plans |-> Unwritten]
  /\ approvals = {} /\ expired = {} /\ ended = {}
  /\ link \in [status : {"CONNECTED", "OFF"}, epoch : {1}, calendar : {0, 1}]
  /\ jobs \in {{1}} \cup (IF "loss" \in Happenings THEN {{}} ELSE {})
  /\ drafts = {} /\ undispatched = {}
  /\ messages = {} /\ sent = 0
  /\ exec = [p \in Plans |-> NotExecuted]
  /\ event = [p \in Plans |-> "absent"] /\ orphans = {}
  /\ pc = [w \in Workers |-> "idle"]
  /\ job = [w \in Workers |-> NoMessage]
  /\ snap = [w \in Workers |-> NoSnapshot]
  /\ result = [w \in Workers |-> "none"]
=============================================================================
