-------------------------- MODULE CasePreparation --------------------------
(***************************************************************************)
(* Planning: the user's messages and preparation retries request a new     *)
(* plan version (control-api, workspace.py) and the worker has the agent   *)
(* prepare it and stores it (worker, case_jobs.py).  The agent call is     *)
(* between two reads of the Case, and anything may happen to it meanwhile. *)
(***************************************************************************)
EXTENDS CaseState

\* The users' requests carry the Case version they were composed against, and
\* every write checks it: one composed against an older version has no effect,
\* and one that has an effect was composed against META as it is.
MayAct == meta.version < MaxVersion

NextPlan == IF meta.current > meta.requested THEN meta.current + 1 ELSE meta.requested + 1

\* The latest plan is a completed local preparation.
LocalResult == meta.current # NoPlan /\ plans[meta.current].kind = "local"
\* _local_refinement_guard: it can be refined while nothing was ever approved.
Refinable ==
  /\ LocalResult
  /\ meta.status \in {"COMPLETED", "PREPARING"}
  /\ meta.op = NoPlan /\ approvals = {}
  /\ \A p \in Plans : exec[p].status = "NONE"
\* The Case, or the projected result of its action, must be settled first.
Blocked ==
  \/ meta.status \in {"QUEUED", "RUNNING", "VERIFYING", "COMPLETED", "STOPPED"}
  \/ ProjectedStatus \in {"RUNNING", "VERIFYING", "SUCCEEDED", "FAILED"}
MayChangePlan == Refinable \/ (~LocalResult /\ ~Blocked)

(***************************************************************************)
(* post_message: the message becomes evidence (a text the Case already     *)
(* holds is the same evidence), a new plan is requested, and the job is    *)
(* sent after the transaction committed.                                   *)
(***************************************************************************)
PostMessage ==
  /\ MayAct
  /\ MayChangePlan
  /\ NextPlan \in Plans
  /\ evidence' \in {evidence, evidence + 1} /\ evidence' <= MaxEvidence
  /\ meta' = [Moved("PREPARING") EXCEPT !.requested = NextPlan]
  /\ DispatchJob(NextPlan)
  /\ UNCHANGED <<plans, grantVars, link, drafts, undispatched, queueVars, exec,
                 googleVars, workVars>>

\* The client repeats a message whose answer it did not get: the stored message
\* is recognised and the job of the requested plan is sent again.
RepeatMessage ==
  /\ meta.requested > 1
  /\ jobs' = jobs \cup {meta.requested}
  /\ UNCHANGED <<caseVars, grantVars, link, drafts, undispatched, queueVars, exec,
                 googleVars, workVars>>

\* retry of a plan without actions; a failed send is compensated later, unless
\* the invocation dies first, and may have reached the queue nevertheless.
RetryPreparation ==
  /\ MayAct
  /\ meta.status = "DECISION_REQUIRED"
  /\ meta.current # NoPlan /\ plans[meta.current].kind = "empty"
  /\ meta.op = NoPlan
  /\ NextPlan \in Plans
  /\ meta' = [Moved("PREPARING") EXCEPT !.requested = NextPlan]
  /\ DispatchJob(NextPlan)
  /\ undispatched' \in {undispatched} \cup
       (IF "loss" \in Happenings THEN {undispatched \cup {NextPlan}} ELSE {})
  /\ UNCHANGED <<evidence, plans, grantVars, link, drafts, queueVars, exec,
                 googleVars, workVars>>

\* preparation_dispatch_failed: give the decision back, if still waiting for v.
DispatchFailed(v) ==
  /\ v \in undispatched
  /\ undispatched' = undispatched \ {v}
  /\ meta' = IF meta.status = "PREPARING" /\ meta.requested = v /\ meta.op = NoPlan
             THEN Moved("DECISION_REQUIRED") ELSE meta
  /\ UNCHANGED <<evidence, plans, grantVars, link, jobs, drafts, queueVars, exec,
                 googleVars, workVars>>

----------------------------------------------------------------------------
\* The plan v is awaited: what load, and again write_plan, reads off META.
Awaited(v) == meta.status = "PREPARING" /\ meta.requested = v /\ meta.current < v

\* CaseJobProcessor reads the Case and calls the agent with its evidence; the
\* Calendar capability is offered while both connections match.
BeginDraft(v) ==
  /\ v \in jobs
  /\ Awaited(v)
  /\ drafts' = drafts \cup
       {[plan |-> v, evidence |-> evidence, calendar |-> Linked(link, link.epoch)]}
  /\ UNCHANGED <<caseVars, grantVars, link, jobs, undispatched, queueVars, exec,
                 googleVars, workVars>>

\* A job for a plan nobody awaits any more is acknowledged without effect.
SkipJob(v) ==
  /\ v \in jobs
  /\ ~Awaited(v)
  /\ jobs' = jobs \ {v}
  /\ UNCHANGED <<caseVars, grantVars, link, drafts, undispatched, queueVars, exec,
                 googleVars, workVars>>

\* Mutant: without the Calendar capability a failed agent leaves no plan.
OutcomesWithoutFallback(d) == IF d.calendar THEN {"calendar"} ELSE {}
\* The plan kinds the agent's answer can lead to; every failure of the agent
\* leads to a plan without actions.
Outcomes(d) == {"empty", "local"} \cup (IF d.calendar THEN {"calendar"} ELSE {})

(***************************************************************************)
(* write_plan: META is read again and the plan is stored only if it is     *)
(* still the awaited one.  A local result completes the Case.  The message *)
(* is acknowledged, or received once more when the acknowledgement is lost *)
(***************************************************************************)
WritePlan(d) ==
  /\ d \in drafts
  /\ drafts' = drafts \ {d}
  /\ \/ jobs' = jobs \ {d.plan}
     \/ "crash" \in Happenings /\ jobs' = jobs
  /\ IF Awaited(d.plan) /\ plans[d.plan].kind = "unwritten"
     THEN \E kind \in Outcomes(d) :
            /\ plans' = [plans EXCEPT ![d.plan] = [kind |-> kind, evidence |-> d.evidence]]
            /\ meta' = [Moved(IF kind = "local" THEN "COMPLETED" ELSE "DECISION_REQUIRED")
                          EXCEPT !.current = d.plan]
     ELSE UNCHANGED <<plans, meta>>
  /\ UNCHANGED <<evidence, grantVars, link, undispatched, queueVars, exec,
                 googleVars, workVars>>

\* The worker invocation dies during the agent call; its message is redelivered.
LoseDraft(d) ==
  /\ d \in drafts /\ "crash" \in Happenings
  /\ drafts' = drafts \ {d}
  /\ UNCHANGED <<caseVars, grantVars, link, jobs, undispatched, queueVars, exec,
                 googleVars, workVars>>

PreparationNext ==
  \/ PostMessage \/ RepeatMessage \/ RetryPreparation
  \/ \E v \in Plans : DispatchFailed(v) \/ BeginDraft(v) \/ SkipJob(v)
  \/ \E d \in drafts : WritePlan(d) \/ LoseDraft(d)
=============================================================================
