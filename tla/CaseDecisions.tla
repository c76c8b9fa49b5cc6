--------------------------- MODULE CaseDecisions ---------------------------
(***************************************************************************)
(* The user's side of a prepared Case (control-api): stopping or deferring *)
(* it (workspace.py), approving its one calendar event once, retrying the  *)
(* approved execution (calendar_approval.py); and what changes under an    *)
(* approval: time, and the Google connection.                              *)
(***************************************************************************)
EXTENDS CasePreparation

\* decide with DEFER, or with REJECT or STOP: transition_case looks at the
\* version and not at the status.
Decide(status) ==
  /\ MayAct
  /\ status \in {"PAUSED", "STOPPED"}
  /\ meta' = Moved(status)
  /\ UNCHANGED <<evidence, plans, grantVars, link, prepVars, queueVars, exec,
                 googleVars, workVars>>

----------------------------------------------------------------------------
\* calendar_plan_action: one calendar event, built from all the evidence the
\* Case holds, that is not over yet.
Approvable(p) ==
  /\ plans[p].kind = "calendar"
  /\ plans[p].evidence = evidence
  /\ p \notin ended

(***************************************************************************)
(* approve: one transaction checks the connections and the plan, moves     *)
(* META to QUEUED and stores the approval; the message is sent afterwards. *)
(***************************************************************************)
Approve ==
  LET p == meta.current
      a == Approval(p, meta.version, link.epoch)
  IN /\ MayAct
     /\ p # NoPlan
     /\ meta.status \in {"DECISION_REQUIRED", "PAUSED", "PERMISSION_REVOKED"}
     /\ Approvable(p)
     /\ Linked(link, link.epoch)
     /\ \A b \in approvals : <<b.plan, b.expected>> # <<p, meta.version>>
     /\ meta' = [Moved("QUEUED") EXCEPT !.op = p, !.expected = meta.version]
     /\ approvals' = approvals \cup {a}
     /\ Dispatch(p)
     /\ UNCHANGED <<evidence, plans, expired, ended, link, prepVars, exec, googleVars,
                    workVars>>

\* The client repeats an approval whose answer it did not get: nothing is
\* approved again, and a Case still QUEUED is dispatched once more.
RepeatApprove ==
  /\ meta.op # NoPlan /\ meta.current = meta.op
  /\ meta.status = "QUEUED"
  /\ Dispatch(meta.op)
  /\ UNCHANGED <<caseVars, grantVars, link, prepVars, exec, googleVars, workVars>>

\* retry of the approved execution: an expired approval goes back to the user,
\* a live one is queued again.
RetryExecution ==
  /\ MayAct
  /\ meta.op # NoPlan
  /\ meta.status \in {"FAILED", "VERIFYING", "QUEUED"}
  /\ IF Current \subseteq expired
     THEN meta' = Moved("DECISION_REQUIRED") /\ UNCHANGED queueVars
     ELSE meta' = Moved("QUEUED") /\ Dispatch(meta.op)
  /\ UNCHANGED <<evidence, plans, grantVars, link, prepVars, exec, googleVars, workVars>>

----------------------------------------------------------------------------
\* An approval is good for an hour.
Expire(a) ==
  /\ a \in approvals \ expired /\ "expiry" \in Happenings
  /\ expired' = expired \cup {a}
  /\ UNCHANGED <<caseVars, approvals, ended, link, prepVars, queueVars, exec, googleVars,
                 workVars>>

\* The end of the proposed event passes.
EventEnds(p) ==
  /\ plans[p].kind = "calendar" /\ p \notin ended /\ "end" \in Happenings
  /\ ended' = ended \cup {p}
  /\ UNCHANGED <<caseVars, approvals, expired, link, prepVars, queueVars, exec,
                 googleVars, workVars>>

\* disconnect: REVOKING, without an epoch, until a new authorization.
Disconnect ==
  /\ link.status = "CONNECTED" /\ "disconnect" \in Happenings
  /\ link' = [link EXCEPT !.status = "OFF"]
  /\ UNCHANGED <<caseVars, grantVars, prepVars, queueVars, exec, googleVars, workVars>>

\* A new Google authorization gets a fresh mail_connection_id; a setup that ends
\* late may bring back the one before.
Reconnect ==
  /\ link.status = "OFF" /\ "reconnect" \in Happenings
  /\ \E epoch \in 1 .. MaxEpochs :
       link' = [link EXCEPT !.status = "CONNECTED", !.epoch = epoch]
  /\ UNCHANGED <<caseVars, grantVars, prepVars, queueVars, exec, googleVars, workVars>>

\* CalendarConnection._confirm binds Calendar to the connected epoch.
ConfirmCalendar ==
  /\ link.status = "CONNECTED" /\ link.calendar # link.epoch
  /\ link' = [link EXCEPT !.calendar = link.epoch]
  /\ UNCHANGED <<caseVars, grantVars, prepVars, queueVars, exec, googleVars, workVars>>

DecisionNext ==
  \/ \E status \in {"PAUSED", "STOPPED"} : Decide(status)
  \/ Approve \/ RepeatApprove \/ RetryExecution
  \/ \E a \in approvals : Expire(a)
  \/ \E p \in Plans : EventEnds(p)
  \/ Disconnect \/ Reconnect \/ ConfirmCalendar
=============================================================================
