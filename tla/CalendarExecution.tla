------------------------- MODULE CalendarExecution -------------------------
(***************************************************************************)
(* The worker's side of an approved Case (worker, calendar_execution.py)   *)
(* and the agent call that writes the event (agent, google_calendar.py).   *)
(* A worker invocation loads the Case, then in a transaction of its own    *)
(* blocks, promotes or claims it, calls the agent, and finally stores what *)
(* the call reported.  Everything else may happen in between, the death of *)
(* the invocation included: its agent call then goes on without it.        *)
(***************************************************************************)
EXTENDS CaseDecisions

\* A message that was not acknowledged is received again, MaxReceives times in
\* all, after its visibility timeout: 720 s, when a lease of 150 s that it left
\* behind is over.  A lease is known by the attempt it is for.
Returned(m) ==
  IF m.left > 1 THEN {[m EXCEPT !.left = @ - 1, !.after = exec[m.op].attempt]} ELSE {}
Receivable(m) == ~(exec[m.op].leased /\ exec[m.op].attempt = m.after)

Rests(w) ==
  /\ pc' = [pc EXCEPT ![w] = "idle"]
  /\ job' = [job EXCEPT ![w] = NoMessage]
  /\ snap' = [snap EXCEPT ![w] = NoSnapshot]
  /\ result' = [result EXCEPT ![w] = "none"]

\* The invocation ends, and its message with it, unless acknowledging it fails.
Finished(w) ==
  /\ \/ messages' = messages
     \/ "crash" \in Happenings /\ messages' = messages \cup Returned(job[w])
  /\ Rests(w)

\* The invocation ends with an exception: the message becomes receivable again.
Raised(w) ==
  /\ messages' = messages \cup Returned(job[w])
  /\ Rests(w)

----------------------------------------------------------------------------
\* claim goes on only for the operation META approves, in an active status.
Active(p) == meta.op = p /\ meta.status \in {"QUEUED", "RUNNING", "VERIFYING"}

\* Mutant: requested_plan_version is not compared.
OutdatedByCurrent(p) == meta.current # p \/ Current \subseteq expired
\* _validate: what the approval was for is no longer what the Case asks for.
Outdated(p) ==
  \/ meta.current # p \/ meta.requested # p
  \/ Current \subseteq expired
\* _validate: a connection is gone, or another one than the approval's.
Unlinked == \A a \in Current : ~Linked(link, a.epoch)
\* _validate: the plan is not what the approval covers, or its event is over.
Changed(p) ==
  \/ plans[p].kind # "calendar" \/ plans[p].evidence # evidence
  \/ p \in ended /\ exec[p].status # "SUCCEEDED"

Verdict(p) ==
  IF Outdated(p) THEN "DECISION_REQUIRED"
  ELSE IF Unlinked THEN "PERMISSION_REVOKED"
  ELSE IF Changed(p) THEN "DECISION_REQUIRED" ELSE "valid"

\* Where the verdict sends the invocation.
Route(p) ==
  IF Verdict(p) # "valid" THEN "blocking"
  ELSE IF exec[p].status = "SUCCEEDED" THEN "promoting" ELSE "claiming"

\* A message that is not for the approved and active execution has no effect.
SkipMessage(w, m) ==
  /\ pc[w] = "idle" /\ m \in messages /\ Receivable(m)
  /\ ~Active(m.op)
  /\ messages' = messages \ {m}
  /\ UNCHANGED <<caseVars, grantVars, link, prepVars, sent, exec, googleVars,
                 workVars>>

\* A message that finds another claim leased raises.
Busy(w, m) ==
  /\ pc[w] = "idle" /\ m \in messages /\ Receivable(m)
  /\ Active(m.op) /\ Route(m.op) = "claiming" /\ exec[m.op].leased
  /\ messages' = (messages \ {m}) \cup Returned(m)
  /\ UNCHANGED <<caseVars, grantVars, link, prepVars, sent, exec, googleVars,
                 workVars>>

\* _load and _validate: the invocation holds the message and what it read.
Load(w, m) ==
  /\ pc[w] = "idle" /\ m \in messages /\ Receivable(m)
  /\ Active(m.op)
  /\ Route(m.op) = "claiming" => ~exec[m.op].leased
  /\ messages' = messages \ {m}
  /\ pc' = [pc EXCEPT ![w] = Route(m.op)]
  /\ job' = [job EXCEPT ![w] = m]
  /\ snap' = [snap EXCEPT ![w] = [meta |-> meta, link |-> link, exec |-> exec[m.op]]]
  /\ result' = [result EXCEPT ![w] = Verdict(m.op)]
  /\ UNCHANGED <<caseVars, grantVars, link, prepVars, sent, exec, googleVars>>

----------------------------------------------------------------------------
\* The conditions the transactions put on what the invocation read.
\* Mutant: the Case's version is not compared.
SameCaseStatus(w) == meta.status = snap[w].meta.status
SameCase(w) == meta = snap[w].meta
\* Mutant: the connections' epochs are not compared.
SameLinkStatus(w) == link.status = snap[w].link.status
SameLink(w) == link = snap[w].link
\* Mutant: the execution's status is not compared.
SameAttempt(w) == exec[job[w].op].attempt = snap[w].exec.attempt
SameExecution(w) ==
  /\ exec[job[w].op].status = snap[w].exec.status
  /\ exec[job[w].op].attempt = snap[w].exec.attempt

\* _block: the Case goes back to the user, unless it changed meanwhile.
Block(w) ==
  /\ pc[w] = "blocking"
  /\ meta' = IF SameCase(w) THEN Moved(result[w]) ELSE meta
  /\ Finished(w)
  /\ UNCHANGED <<evidence, plans, grantVars, link, prepVars, sent, exec, googleVars>>

\* _promote_completed: the result was stored earlier, without the Case.
MayPromote(w) == SameCase(w) /\ SameLink(w) /\ exec[job[w].op].status = "SUCCEEDED"
Promote(w) ==
  /\ pc[w] = "promoting"
  /\ IF MayPromote(w) THEN meta' = Moved("COMPLETED") /\ Finished(w)
                      ELSE Raised(w) /\ UNCHANGED meta
  /\ UNCHANGED <<evidence, plans, grantVars, link, prepVars, sent, exec, googleVars>>

(***************************************************************************)
(* claim: the Case runs and the execution record gets a lease, in one      *)
(* transaction that re-checks everything the invocation read.              *)
(***************************************************************************)
MayClaim(w) ==
  SameCase(w) /\ SameLink(w) /\ SameExecution(w) /\ ~exec[job[w].op].leased

\* Mutant: the lease and the execution's status are not compared again.
ClaimWithoutLease(w) ==
  /\ pc[w] = "claiming" /\ SameLink(w)
  /\ meta' = Moved("RUNNING")
  /\ exec' = [exec EXCEPT ![job[w].op] =
                [status |-> "RUNNING", attempt |-> @.attempt + 1, owner |-> w,
                 leased |-> TRUE]]
  /\ pc' = [pc EXCEPT ![w] = "calling"]
  /\ UNCHANGED <<evidence, plans, grantVars, link, prepVars, queueVars, googleVars, job,
                 snap, result>>

Claim(w) ==
  /\ pc[w] = "claiming" /\ MayClaim(w)
  /\ meta' = Moved("RUNNING")
  /\ exec' = [exec EXCEPT ![job[w].op] =
                [status |-> "RUNNING", attempt |-> @.attempt + 1, owner |-> w,
                 leased |-> TRUE]]
  /\ pc' = [pc EXCEPT ![w] = "calling"]
  /\ UNCHANGED <<evidence, plans, grantVars, link, prepVars, queueVars, googleVars, job,
                 snap, result>>

\* Mutant: a lost race is acknowledged instead of raised.
ClaimConflictDropped(w) ==
  /\ pc[w] = "claiming" /\ ~MayClaim(w)
  /\ Finished(w)
  /\ UNCHANGED <<caseVars, grantVars, link, prepVars, sent, exec, googleVars>>

ClaimConflict(w) ==
  /\ pc[w] = "claiming" /\ ~MayClaim(w)
  /\ Raised(w)
  /\ UNCHANGED <<caseVars, grantVars, link, prepVars, sent, exec, googleVars>>

----------------------------------------------------------------------------
\* What a GET of the event can lead to: what is there, or an error Google or
\* the transport reports whatever is there ("DENIED" is a 401 or a changed
\* account, "FAILED" any other definite answer, "VERIFYING" an unclear one).
Readable(p) ==
  {"FAILED", "DENIED", "VERIFYING"} \cup
  (CASE event[p] = "saved"   -> {"COMPLETED"}
     [] event[p] = "altered" -> {"FAILED"}
     [] OTHER                -> {})

Reported(w, r) ==
  /\ pc' = [pc EXCEPT ![w] = "finishing"]
  /\ result' = [result EXCEPT ![w] = r]
  /\ UNCHANGED <<caseVars, grantVars, link, prepVars, queueVars, exec, event, orphans,
                 job, snap>>

Proceeds(w, where) ==
  /\ pc' = [pc EXCEPT ![w] = where]
  /\ UNCHANGED <<caseVars, grantVars, link, prepVars, queueVars, exec, orphans, job, snap,
                 result>>

\* execute, first: the event of this operation may exist already.
GetEvent(w) ==
  /\ pc[w] = "calling"
  /\ \/ \E r \in Readable(job[w].op) : Reported(w, r)
     \/ event[job[w].op] = "absent" /\ Proceeds(w, "missing") /\ UNCHANGED event

\* execute, second: the POST creates it, finds it (409), fails unclearly with or
\* without having created it, or is rejected.
PostEvent(w) ==
  /\ pc[w] = "missing"
  /\ \/ /\ event' \in {event, [event EXCEPT ![job[w].op] = IF @ = "absent" THEN "saved" ELSE @]}
        /\ Proceeds(w, "posted")
     \/ \E r \in {"FAILED", "DENIED"} : Reported(w, r)

\* Mutant: an accepted POST counts as the result.
TrustPost(w) == pc[w] = "posted" /\ Reported(w, "COMPLETED")
\* execute, third: _readback.
ReadBack(w) ==
  /\ pc[w] = "posted"
  /\ \E r \in Readable(job[w].op) : Reported(w, r)

\* A worker that is waiting for its agent call.
Calling == {"calling", "missing", "posted"}

\* The call outlives the invocation's wait for it (read timeout): the result is
\* unknown, and what the agent still does, it does on its own.
AbandonCall(w) ==
  /\ pc[w] \in Calling /\ "timeout" \in Happenings
  /\ orphans' = orphans \cup {job[w].op}
  /\ pc' = [pc EXCEPT ![w] = "finishing"]
  /\ result' = [result EXCEPT ![w] = "VERIFYING"]
  /\ UNCHANGED <<caseVars, grantVars, link, prepVars, queueVars, exec, event, job, snap>>

\* An abandoned call reaches its POST, or ends.
OrphanPosts(p) ==
  /\ p \in orphans
  /\ event' = [event EXCEPT ![p] = IF @ = "absent" THEN "saved" ELSE @]
  /\ UNCHANGED <<caseVars, grantVars, link, prepVars, queueVars, exec, orphans, workVars>>

OrphanEnds(p) ==
  /\ p \in orphans
  /\ orphans' = orphans \ {p}
  /\ UNCHANGED <<caseVars, grantVars, link, prepVars, queueVars, exec, event, workVars>>

\* The user edits or deletes the event in Google Calendar; its id stays taken.
AlterEvent(p) ==
  /\ event[p] = "saved" /\ "edit" \in Happenings
  /\ event' = [event EXCEPT ![p] = "altered"]
  /\ UNCHANGED <<caseVars, grantVars, link, prepVars, queueVars, exec, orphans, workVars>>

----------------------------------------------------------------------------
\* finish: the execution record and the Case status a result is stored as.
ExecutionStatus(r) ==
  CASE r = "COMPLETED" -> "SUCCEEDED" [] r = "DENIED" -> "FAILED" [] OTHER -> r
\* Mutant: the results of the agent are taken for statuses of a Case.
CaseStatusUnmapped(r) == r
CaseStatus(r) == IF r = "DENIED" THEN "PERMISSION_REVOKED" ELSE r

\* Mutant: a running execution is taken for this invocation's.
OwnsRunning(w) == exec[job[w].op].status = "RUNNING"
\* The lease token is still this invocation's.
Owns(w) == exec[job[w].op].owner = w
\* Mutant: only the approved operation is compared, not the Case's version.
SameOperation(w) == meta.op = snap[w].meta.op
\* The Case is as the claim left it.
CaseAsClaimed(w) ==
  meta = [snap[w].meta EXCEPT !.status = "RUNNING", !.version = @ + 1]

Store(w) ==
  LET e == exec[job[w].op]
  IN exec' = [exec EXCEPT ![job[w].op] =
                [e EXCEPT !.status = ExecutionStatus(result[w]), !.owner = NoWorker,
                          !.leased = e.leased /\ result[w] = "VERIFYING"]]

(***************************************************************************)
(* finish: the record and the Case together; if the Case moved on, a       *)
(* decision of the user wins and only the record is stored; if the lease   *)
(* is another worker's, nothing is.  An unverified result raises, so that  *)
(* the message comes back.                                                 *)
(***************************************************************************)
Finish(w) ==
  /\ pc[w] = "finishing"
  /\ IF Owns(w) THEN Store(w) ELSE UNCHANGED exec
  /\ meta' = IF Owns(w) /\ CaseAsClaimed(w) THEN Moved(CaseStatus(result[w])) ELSE meta
  /\ IF ~Owns(w) \/ result[w] = "VERIFYING" THEN Raised(w) ELSE Finished(w)
  /\ UNCHANGED <<evidence, plans, grantVars, link, prepVars, sent, googleVars>>

\* lease_until passes.
Alive(p) == \E w \in Workers : pc[w] \in Calling \cup {"finishing"} /\ job[w].op = p /\ Owns(w)
LeaseExpires(p) ==
  /\ exec[p].leased
  /\ Alive(p) => "overrun" \in Happenings
  /\ exec' = [exec EXCEPT ![p].leased = FALSE]
  /\ UNCHANGED <<caseVars, grantVars, link, prepVars, queueVars, googleVars, workVars>>

\* The invocation dies; the message becomes visible again.
Crash(w) ==
  /\ pc[w] # "idle" /\ "crash" \in Happenings
  /\ orphans' = IF pc[w] \in Calling THEN orphans \cup {job[w].op} ELSE orphans
  /\ Raised(w)
  /\ UNCHANGED <<caseVars, grantVars, link, prepVars, sent, exec, event>>

WorkerStep(w) ==
  \/ \E m \in messages : SkipMessage(w, m) \/ Busy(w, m) \/ Load(w, m)
  \/ Block(w) \/ Promote(w) \/ Claim(w) \/ ClaimConflict(w)
  \/ GetEvent(w) \/ PostEvent(w) \/ ReadBack(w) \/ AbandonCall(w)
  \/ Finish(w) \/ Crash(w)

ExecutionNext ==
  \/ \E w \in Workers : WorkerStep(w)
  \/ \E p \in Plans : OrphanPosts(p) \/ OrphanEnds(p) \/ AlterEvent(p) \/ LeaseExpires(p)
=============================================================================
