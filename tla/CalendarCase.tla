---------------------------- MODULE CalendarCase ----------------------------
(***************************************************************************)
(* One Case from the request to the verified calendar event: preparation,  *)
(* the user's decisions, and the execution of what was approved, running   *)
(* concurrently on the same records.                                       *)
(***************************************************************************)
EXTENDS CalendarExecution

Next == PreparationNext \/ DecisionNext \/ ExecutionNext

Spec == Init /\ [][Next]_vars

(***************************************************************************)
(* SQS delivers what it holds, an invocation ends within its timeout, and  *)
(* time passes.  Nothing is assumed of the user, of Google or of failures. *)
(***************************************************************************)
Fairness ==
  /\ \A v \in Plans : /\ WF_vars(BeginDraft(v)) /\ WF_vars(SkipJob(v))
                      /\ WF_vars(\E d \in drafts : d.plan = v /\ WritePlan(d))
                      /\ WF_vars(LeaseExpires(v))
  /\ \A w \in Workers :
       /\ WF_vars(\E m \in messages : SkipMessage(w, m) \/ Busy(w, m) \/ Load(w, m))
       /\ WF_vars(Block(w) \/ Promote(w) \/ Claim(w) \/ ClaimConflict(w) \/ GetEvent(w)
                  \/ PostEvent(w) \/ ReadBack(w) \/ Finish(w))

FairSpec == Spec /\ Fairness

----------------------------------------------------------------------------
Metas == [status : Statuses, version : Nat, current : Plans \cup {NoPlan},
          requested : Plans, op : Plans \cup {NoPlan}, expected : Nat]
Links == [status : {"CONNECTED", "OFF"}, epoch : Nat, calendar : Nat]
Executions == [status : {"NONE", "RUNNING", "VERIFYING", "SUCCEEDED", "FAILED"},
               attempt : Nat, owner : Workers \cup {NoWorker}, leased : BOOLEAN]
Approvals == [plan : Plans, expected : Nat, epoch : Nat]
Messages == [id : Nat, op : Plans, left : Nat, after : Nat]
Results == {"none", "valid", "COMPLETED", "VERIFYING", "FAILED", "DENIED",
            "DECISION_REQUIRED", "PERMISSION_REVOKED"}

\* Every variable has the shape its records have in the table.
TypeOK ==
  /\ meta \in Metas
  /\ evidence \in Nat
  /\ plans \in [Plans -> [kind : Kinds, evidence : Nat]]
  /\ approvals \subseteq Approvals /\ expired \subseteq Approvals
  /\ ended \subseteq Plans
  /\ link \in Links
  /\ jobs \subseteq Plans
  /\ drafts \subseteq [plan : Plans, evidence : Nat, calendar : BOOLEAN]
  /\ undispatched \subseteq Plans
  /\ messages \subseteq Messages /\ sent \in Nat
  /\ exec \in [Plans -> Executions]
  /\ event \in [Plans -> {"absent", "saved", "altered"}]
  /\ orphans \subseteq Plans
  /\ pc \in [Workers -> {"idle", "blocking", "promoting", "claiming", "finishing"} \cup Calling]
  /\ job \in [Workers -> Messages \cup {NoMessage}]
  /\ snap \in [Workers -> [meta : Metas, link : Links, exec : Executions]]
  /\ result \in [Workers -> Results]

\* A Case leads to at most one calendar event, over all its plans, approvals,
\* retries, workers and abandoned agent calls.
AtMostOneEvent ==
  \A p, q \in Plans : event[p] # "absent" /\ event[q] # "absent" => p = q

\* Once an operation was ever claimed, its plan stays the Case's current and
\* requested plan and its approved operation: the user's messages, retries and
\* new approvals cannot leave a possibly written event behind.
ExecutionPinsPlan ==
  \A p \in Plans : exec[p].status # "NONE" =>
     meta.current = p /\ meta.requested = p /\ meta.op = p

\* A Case that shows a completed calendar plan has the verified result of that
\* very plan, and its event was written.
CompletedIsVerified ==
  meta.status = "COMPLETED" /\ ~LocalResult =>
     /\ exec[meta.current].status = "SUCCEEDED"
     /\ event[meta.current] # "absent"

\* The Case never shows a stage its execution record is not in: results and
\* retries of several workers reach both records, or only the record of a Case
\* that has moved on.
CaseMirrorsExecution ==
  meta.status \in {"RUNNING", "VERIFYING", "FAILED"} => exec[meta.op].status = meta.status

\* While leases outlast their workers, at most one live invocation is between
\* the claim of an operation and the storing of its result.
OneLiveClaim ==
  "overrun" \notin Happenings =>
     \A v, w \in Workers :
        /\ {pc[v], pc[w]} \subseteq Calling \cup {"finishing"}
        /\ job[v].op = job[w].op
        => v = w

\* A verified result is final: no late, concurrent or repeated invocation
\* replaces it by an unknown or failed one.
VerifiedIsFinal ==
  [][\A p \in Plans : exec[p].status = "SUCCEEDED" => exec'[p].status = "SUCCEEDED"]_vars

\* An execution is claimed only while the approval's Google connection, the plan
\* it covers and the evidence the plan was built from are the Case's own at that
\* moment, however long before the invocation had read them.
ClaimIsAuthorized ==
  [][\A p \in Plans : exec'[p].attempt > exec[p].attempt =>
       /\ \E a \in Current : a.plan = p /\ Linked(link, a.epoch)
       /\ meta.current = p /\ meta.requested = p
       /\ plans[p].kind = "calendar" /\ plans[p].evidence = evidence]_vars

\* The user's stop or deferral wins: no result of a worker, plan of the agent or
\* late compensation moves a Case out of it; only the user does.
UserDecisionWins ==
  [][meta.status \in {"PAUSED", "STOPPED"} /\ meta' # meta =>
       meta'.status \in {"PAUSED", "STOPPED", "QUEUED", "PREPARING"}]_vars

\* A plan the user waits for, and whose job is queued, arrives, unless the user
\* asks for another or decides otherwise: every failure of the agent is a plan too.
PlanArrives == \A v \in Plans : (Awaited(v) /\ v \in jobs) ~> ~Awaited(v)

\* Some message or worker is still there for the operation of plan p.
Pending(p) ==
  \/ \E m \in messages : m.op = p
  \/ \E w \in Workers : job[w].op = p

\* An approved execution somebody still works for does not stay queued or running:
\* it ends verified, failed, unverified, or back with the user.
ExecutionSettles ==
  (meta.status \in {"QUEUED", "RUNNING"} /\ Pending(meta.op))
     ~> meta.status \notin {"QUEUED", "RUNNING"}


----------------------------------------------------------------------------
(***************************************************************************)
(* The Case implements the promise made to the user.                       *)
(***************************************************************************)
ApprovedPlans == {p \in Plans : \E a \in approvals : a.plan = p}
StartedPlans  == {p \in Plans : exec[p].status # "NONE"}
StartedPlan   == IF StartedPlans = {} THEN NoPlan ELSE CHOOSE p \in StartedPlans : TRUE
WrittenPlans  == {p \in Plans : event[p] # "absent"}
VerifiedPlans == {p \in Plans : exec[p].status = "SUCCEEDED"}

Promise == INSTANCE OnceApprovedEvent WITH
  approved <- ApprovedPlans, started <- StartedPlan,
  written <- WrittenPlans, verified <- VerifiedPlans

\* Every step of the Case is a step of OnceApprovedEvent or changes nothing in it.
KeepsPromise == Promise!Spec
=============================================================================
