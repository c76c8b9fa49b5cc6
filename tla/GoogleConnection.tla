-------------------------- MODULE GoogleConnection --------------------------
(***************************************************************************)
(* A user's Google connection: authorization and its completion,           *)
(* disconnection (control-api, connections.py and calendar_connection.py), *)
(* setup, recovery and revocation by the workers (mail_jobs.py) and what   *)
(* maintenance finds (google_maintenance.py), on one CONNECTION#google     *)
(* item.  The grants that AgentCore Identity holds for the user are        *)
(* outside the table, and every call to them is a step of its own.         *)
(*                                                                         *)
(* Epochs (mail_connection_id), revocation requests, flows and mail        *)
(* requests are named by fresh numbers, as the code names them by fresh    *)
(* uuids.  What a mail request does once its connection is set up is       *)
(* MailScan.                                                               *)
(***************************************************************************)
EXTENDS Naturals

CONSTANTS
  Accounts,    \* the Google accounts the user may choose
  None,        \* no account
  Calls,       \* API calls in flight
  Workers,     \* worker invocations
  Kinds,       \* the mail requests: recommendations and scan
  MaxIds,      \* bound on the fresh numbers when a user still acts
  MaxReceives, \* receives of a message before the dead-letter queue (5)
  MaxLosses    \* bound on the sends that fail and the grants lost at Google

ASSUME ConnectionAssumption ==
  /\ None \notin Accounts
  /\ Kinds \subseteq {"recommendations", "scan"}
  /\ MaxIds \in Nat /\ MaxReceives \in Nat \ {0} /\ MaxLosses \in Nat

VARIABLES
  conn,      \* CONNECTION#google: status, epoch, error code, account, Gmail scope,
             \* and the revocation it waits for (gmail_scan_id while REVOKING)
  calendar,  \* CONNECTION#google-calendar: the epoch and account it was confirmed for
  flows,     \* OAUTH# and RETURN# items of the authorizations in progress
  job,       \* MAIL_INTERESTS#google: the mail request of each kind, its epoch, status
  recovery,  \* mail_recovery_json: the request that set its connection up again, and
             \* the epoch it made for it
  grants,    \* AgentCore Identity: the accounts whose tokens it holds
  messages,  \* receivable queue messages
  ids,       \* how many fresh names were ever made
  losses,    \* how many sends failed and grants were lost
  unsent,    \* the names whose message was not sent
  pc, call,  \* where each API call is, and what it works on
  at, work,  \* where each worker is, and what it read
  overtaken  \* history: the workers over whose work the user's call wrote conn

mailVars   == <<job, recovery>>
tableVars  == <<conn, calendar, flows, mailVars>>
lossVars   == <<losses, unsent>>
outsideVars == <<grants, messages, ids, lossVars>>
callVars   == <<pc, call>>
workVars   == <<at, work>>
vars == <<tableVars, outsideVars, callVars, workVars, overtaken>>

NoCall == [flow |-> 0, done |-> FALSE, epoch |-> 0, account |-> None]
NoMessage == [kind |-> "none", id |-> 0, left |-> 0]
NoRecovery == [kind |-> "none", id |-> 0, epoch |-> 0]
NoWork == [message |-> NoMessage, epoch |-> 0, status |-> "DISCONNECTED", account |-> None,
           todo |-> {}]

Init ==
  /\ conn = [status |-> "DISCONNECTED", epoch |-> 0, error |-> "none", account |-> None,
             gmail |-> FALSE, request |-> 0]
  /\ calendar = [epoch |-> 0, account |-> None]
  /\ flows = {} /\ messages = {} /\ ids = 0 /\ losses = 0 /\ unsent = {}
  /\ job = [k \in Kinds |-> [id |-> 0, epoch |-> 0, status |-> "NOT_STARTED"]]
  /\ recovery = NoRecovery
  /\ grants = [mail |-> None, calendar |-> None]
  /\ pc = [c \in Calls |-> "idle"] /\ call = [c \in Calls |-> NoCall]
  /\ at = [w \in Workers |-> "idle"] /\ work = [w \in Workers |-> NoWork]
  /\ overtaken = {}

MayAct == ids < MaxIds
Linked(k) == k.status = "CONNECTED"
\* A write by the user's call, which overtakes what the workers have read.
Overwrites(k) ==
  conn' = k /\ overtaken' = {w \in Workers : at[w] # "idle"}

\* SqsWorkQueue.send, which may fail after what was written before it.
Message(kind, id) == [kind |-> kind, id |-> id, left |-> MaxReceives]
Sends(m) ==
  \/ messages' = messages \cup {m} /\ UNCHANGED <<losses, unsent>>
  \/ /\ losses < MaxLosses /\ losses' = losses + 1
     /\ unsent' = unsent \cup {m.id} /\ UNCHANGED messages

Goes(c, to) == pc' = [pc EXCEPT ![c] = to]
Returns(c) == Goes(c, "idle") /\ call' = [call EXCEPT ![c] = NoCall]
Raises(c) == Returns(c) /\ UNCHANGED <<tableVars, outsideVars, workVars, overtaken>>

----------------------------------------------------------------------------
\* put_connection with CONNECTING: a fresh epoch, unless a disconnection goes on.
Connecting(gmail) ==
  /\ conn.status # "REVOKING"
  /\ ids' = ids + 1
  /\ Overwrites([conn EXCEPT !.status = "CONNECTING", !.epoch = ids + 1, !.error = "none",
                             !.gmail = gmail, !.request = 0])
PutRefused(c) ==
  pc[c] \in {"consenting", "starting"} /\ conn.status = "REVOKING" /\ Raises(c)

\* _start_scan: the new epoch and the message that sets it up.
StartScan(c) ==
  /\ pc[c] = "starting"
  /\ Connecting(TRUE) /\ Sends(Message("setup", ids + 1)) /\ Returns(c)
  /\ UNCHANGED <<calendar, flows, mailVars, grants, workVars>>

\* authorize: the read that refuses during a disconnection.
BeginAuthorize(c) ==
  /\ pc[c] = "idle" /\ MayAct /\ conn.status # "REVOKING"
  /\ Goes(c, "authorizing")
  /\ UNCHANGED <<tableVars, outsideVars, call, workVars, overtaken>>

\* Its call of AgentCore: a token is there, or the user has to consent.
Authorize(c) ==
  /\ pc[c] = "authorizing"
  /\ Goes(c, IF grants.mail # None THEN "starting" ELSE "consenting")
  /\ UNCHANGED <<tableVars, outsideVars, call, workVars, overtaken>>

Flow(id, purpose, epoch, account) ==
  [id |-> id, purpose |-> purpose, epoch |-> epoch, account |-> account,
   chosen |-> None, done |-> FALSE]

\* The flow and the connection that waits for the consent; the user gets the
\* address of the consent after both.
AskConsent(c) ==
  /\ pc[c] = "consenting"
  /\ Connecting(FALSE) /\ flows' = flows \cup {Flow(ids + 1, "mail", 0, None)} /\ Returns(c)
  /\ UNCHANGED <<calendar, mailVars, grants, messages, lossVars, workVars>>

\* The user consents with an account; ingress stores the return of the flow, under
\* a code that only the app gets.
Return(f, account) == [f EXCEPT !.chosen = account]
Consent(f, account) ==
  /\ f.chosen = None
  /\ flows' = (flows \ {f}) \cup {Return(f, account)}
  /\ UNCHANGED <<conn, calendar, mailVars, outsideVars, callVars, workVars, overtaken>>

\* CalendarConnection._mail: the epoch and account of a connected mailbox.
Matches(f) == Linked(conn) /\ conn.epoch = f.epoch /\ conn.account = f.account

\* complete: the checks before the session is completed at AgentCore.
BeginComplete(c, f) ==
  /\ pc[c] = "idle" /\ MayAct
  /\ f.chosen # None /\ conn.status # "REVOKING"
  /\ f.purpose = "calendar" => Matches(f)
  /\ Goes(c, IF f.purpose = "calendar" /\ f.done THEN "confirming" ELSE "identifying")
  /\ call' = [call EXCEPT ![c] = [flow |-> f.id, done |-> f.done, epoch |-> f.epoch,
                                  account |-> f.account]]
  /\ UNCHANGED <<tableVars, outsideVars, workVars, overtaken>>

\* The session of the consent makes AgentCore hold its token.
Identify(c) ==
  \E f \in flows :
    /\ pc[c] = "identifying" /\ f.id = call[c].flow
    /\ grants' = [grants EXCEPT ![f.purpose] = f.chosen]
    /\ Goes(c, IF f.purpose = "calendar" THEN "confirming" ELSE "completing")
    /\ UNCHANGED <<tableVars, messages, ids, lossVars, call, workVars, overtaken>>

\* complete_oauth_flow and complete_oauth_return raise when another call was faster;
\* a flow whose return is completed leads nowhere any more.
CompleteFlow(c) ==
  \E f \in flows :
    /\ pc[c] = "completing" /\ f.id = call[c].flow /\ ~f.done
    /\ flows' = (flows \ {f}) \cup {[f EXCEPT !.done = TRUE]} /\ Goes(c, "closing")
    /\ UNCHANGED <<conn, calendar, mailVars, outsideVars, call, workVars, overtaken>>
CompleteReturn(c) ==
  \E f \in flows :
    /\ pc[c] = "closing" /\ f.id = call[c].flow
    /\ flows' = flows \ {f}
    /\ IF f.purpose = "calendar" THEN Returns(c) ELSE Goes(c, "starting") /\ UNCHANGED call
    /\ UNCHANGED <<conn, calendar, mailVars, outsideVars, workVars, overtaken>>
CompleteTwice(c) ==
  /\ \/ pc[c] = "completing" /\ \E f \in flows : f.id = call[c].flow /\ f.done
     \/ pc[c] \in {"identifying", "completing", "closing"}
        /\ \A f \in flows : f.id # call[c].flow
  /\ Raises(c)

\* scan of a connection whose setup failed: another setup.
BeginRescan(c) ==
  /\ pc[c] = "idle" /\ MayAct
  /\ conn.status = "ERROR" /\ conn.error # "AUTH" /\ conn.gmail
  /\ Goes(c, "starting")
  /\ UNCHANGED <<tableVars, outsideVars, call, workVars, overtaken>>

\* disconnect overwrites whatever is there.
Disconnect ==
  /\ MayAct /\ ids' = ids + 1
  /\ Overwrites([conn EXCEPT !.status = "REVOKING", !.epoch = 0, !.error = "none",
                             !.gmail = FALSE, !.request = ids + 1])
  /\ Sends(Message("revoke", ids + 1))
  /\ UNCHANGED <<calendar, flows, mailVars, grants, callVars, workVars>>

----------------------------------------------------------------------------
(***************************************************************************)
(* Calendar consent, bound to the epoch and account of the mailbox.        *)
(***************************************************************************)
\* A bound: one such consent of an epoch, named for it.
BeginCalendar(c) ==
  /\ pc[c] = "idle" /\ MayAct /\ Linked(conn)
  /\ Goes(c, "asking")
  /\ call' = [call EXCEPT ![c] = [NoCall EXCEPT !.epoch = conn.epoch, !.account = conn.account]]
  /\ UNCHANGED <<tableVars, outsideVars, workVars, overtaken>>

AskCalendar(c) ==
  /\ pc[c] = "asking"
  /\ \/ /\ grants.calendar # None /\ Goes(c, "confirming")
        /\ UNCHANGED <<flows, call>>
     \/ /\ \A f \in flows : f.id # call[c].epoch
        /\ flows' = flows \cup {Flow(call[c].epoch, "calendar", call[c].epoch, call[c].account)}
        /\ Returns(c)
  /\ UNCHANGED <<conn, calendar, mailVars, outsideVars, workVars, overtaken>>

\* _confirm: AgentCore's calendar token must be of the account; then the
\* transaction that checks the mailbox again.
Confirm(c) ==
  /\ pc[c] = "confirming"
  /\ IF grants.calendar = call[c].account
     THEN Goes(c, "attaching") /\ UNCHANGED <<tableVars, outsideVars, call, workVars, overtaken>>
     ELSE Raises(c)

\* Mutant: the account alone is compared, which a disconnection leaves.
AttachableAccount(c) == conn.account = call[c].account
Attachable(c) == Linked(conn) /\ conn.epoch = call[c].epoch /\ conn.account = call[c].account
Attach(c) ==
  /\ pc[c] = "attaching"
  /\ IF Attachable(c)
     THEN /\ calendar' = [epoch |-> call[c].epoch, account |-> call[c].account]
          /\ IF call[c].flow = 0 THEN Returns(c)
             ELSE Goes(c, IF call[c].done THEN "closing" ELSE "completing") /\ UNCHANGED call
          /\ UNCHANGED <<conn, flows, mailVars, outsideVars, workVars, overtaken>>
     ELSE Raises(c)

\* The Lambda dies, or a call it makes fails.
CallDies(c) == pc[c] # "idle" /\ losses < MaxLosses /\ losses' = losses + 1 /\ Returns(c)
               /\ UNCHANGED <<tableVars, grants, messages, ids, unsent, workVars, overtaken>>

CallStep(c) ==
  \/ PutRefused(c) \/ StartScan(c) \/ Authorize(c) \/ AskConsent(c) \/ Identify(c)
  \/ CompleteFlow(c) \/ CompleteReturn(c) \/ CompleteTwice(c)
  \/ AskCalendar(c) \/ Confirm(c) \/ Attach(c)

----------------------------------------------------------------------------
Moves(w, to) == at' = [at EXCEPT ![w] = to]
Rests(w) ==
  /\ Moves(w, "idle") /\ work' = [work EXCEPT ![w] = NoWork]
  /\ overtaken' = overtaken \ {w}
\* Mutant: a failed receive is the message's last.
ReturnedNever(m) == {}
\* Mutant: one receive too many.
ReturnedOnceMore(m) == {[m EXCEPT !.left = @ - 1]}
\* The message of a worker that raises or dies comes back while it has receives left.
Returned(m) == IF m.left > 1 THEN {[m EXCEPT !.left = @ - 1]} ELSE {}
Retries(w) == Rests(w) /\ messages' = messages \cup Returned(work[w].message)

Takes(w, m, to) ==
  /\ at[w] = "idle" /\ m \in messages /\ messages' = messages \ {m}
  /\ Moves(w, to)
  /\ work' = [work EXCEPT ![w] = [message |-> m, epoch |-> conn.epoch, status |-> conn.status,
                                  account |-> None, todo |-> Kinds]]
  /\ UNCHANGED <<tableVars, grants, ids, lossVars, callVars, overtaken>>

AuthLost == conn.status = "ERROR" /\ conn.error = "AUTH"
Revocable(m) == m.kind = "revoke" /\ conn.status = "REVOKING" /\ conn.request = m.id
Settable(m) ==
  /\ m.kind = "setup" /\ ~AuthLost /\ conn.epoch = m.id
  /\ conn.status \in {"CONNECTING", "CONNECTED", "ERROR"}
\* A mail request that has begun to set its connection up again.
Resuming(m) == recovery = [kind |-> m.kind, id |-> m.id, epoch |-> conn.epoch]
\* One that finds its connection in error, or resumes.
Recoverable(m) ==
  /\ m.kind \in Kinds /\ ~AuthLost /\ conn.gmail /\ job[m.kind].epoch = conn.epoch
  /\ \/ Resuming(m) /\ conn.status \in {"CONNECTING", "CONNECTED", "ERROR"}
     \/ conn.status = "ERROR" /\ job[m.kind].id = m.id
\* One that finds it connected: MailScan.
Workable(m) ==
  /\ m.kind \in Kinds /\ Linked(conn) /\ ~Resuming(m)
  /\ job[m.kind].id = m.id /\ job[m.kind].epoch = conn.epoch

Take(w, m) ==
  \/ Revocable(m) /\ Takes(w, m, "revoking")
  \/ Settable(m) /\ Takes(w, m, IF Linked(conn) THEN "ensuring" ELSE "setting")
  \/ Recoverable(m) /\ Takes(w, m, IF ~Resuming(m) THEN "recovering"
                                   ELSE IF Linked(conn) THEN "ensuring" ELSE "setting")
  \/ Workable(m) /\ Takes(w, m, "answering")
\* Everything else is stale and acknowledged.
Drop(m) ==
  /\ ~(Revocable(m) \/ Settable(m) \/ Recoverable(m) \/ Workable(m))
  /\ messages' = messages \ {m}
  /\ UNCHANGED <<tableVars, grants, ids, lossVars, callVars, workVars, overtaken>>

----------------------------------------------------------------------------
\* GOOGLE_DISCONNECT revokes what AgentCore holds for the mailbox, and with it the
\* calendar access of the same account.
GoogleRevokes ==
  grants' = [mail |-> None,
             calendar |-> IF grants.calendar = grants.mail THEN None ELSE grants.calendar]
Revoke(w) ==
  /\ at[w] = "revoking" /\ Moves(w, "revoked") /\ GoogleRevokes
  /\ UNCHANGED <<tableVars, messages, ids, lossVars, callVars, work, overtaken>>

\* Mutant: any disconnection in progress is completed.
AwaitedAny(w) == conn.status \in {"REVOKING", "CONNECTING"}
Awaited(w) == conn.status = "REVOKING" /\ conn.request = work[w].message.id
RevokeComplete(w) ==
  /\ at[w] = "revoked" /\ Rests(w)
  /\ conn' = IF Awaited(w)
             THEN [conn EXCEPT !.status = "DISCONNECTED", !.account = None, !.request = 0] ELSE conn
  /\ UNCHANGED <<calendar, flows, mailVars, outsideVars, callVars>>

\* guard: the status and the epoch that the worker read.
Guarded(w) == conn.status = work[w].status /\ conn.epoch = work[w].epoch

\* recover_setup: a new epoch, and the mail request moves to it.
RecoverSetup(w) ==
  LET m == work[w].message
  IN /\ at[w] = "recovering"
     /\ IF Guarded(w) /\ job[m.kind].id = m.id /\ job[m.kind].epoch = work[w].epoch
        THEN /\ ids' = ids + 1
             /\ conn' = [conn EXCEPT !.status = "CONNECTING", !.epoch = ids + 1]
             /\ job' = [job EXCEPT ![m.kind].epoch = ids + 1]
             /\ recovery' = [kind |-> m.kind, id |-> m.id, epoch |-> ids + 1]
             /\ Moves(w, "setting")
             /\ work' = [work EXCEPT ![w].epoch = ids + 1, ![w].status = "CONNECTING"]
             /\ UNCHANGED overtaken
        ELSE Rests(w) /\ UNCHANGED <<conn, mailVars, ids>>
     /\ UNCHANGED <<calendar, flows, grants, messages, lossVars, callVars>>

\* GOOGLE_MAIL_SETUP: the account of the token, that authorization is required, or
\* a failure.
InvokeSetup(w) ==
  /\ at[w] = "setting"
  /\ \/ /\ grants.mail # None /\ Moves(w, "connecting")
        /\ work' = [work EXCEPT ![w].account = grants.mail]
     \/ grants.mail = None /\ Moves(w, "unauthorized") /\ UNCHANGED work
     \/ Moves(w, "failing") /\ UNCHANGED work
  /\ UNCHANGED <<tableVars, outsideVars, callVars, overtaken>>

Setup(w) ==
  /\ at[w] = "connecting"
  /\ IF Guarded(w)
     THEN /\ conn' = [conn EXCEPT !.status = "CONNECTED", !.error = "none", !.gmail = TRUE,
                                  !.account = work[w].account]
          /\ Moves(w, "ensuring") /\ UNCHANGED <<work, overtaken>>
     ELSE Rests(w) /\ UNCHANGED conn
  /\ UNCHANGED <<calendar, flows, mailVars, outsideVars, callVars>>

SetupFailed(w) ==
  /\ at[w] = "failing" /\ Retries(w)
  /\ conn' = IF Guarded(w) THEN [conn EXCEPT !.status = "ERROR", !.error = "SETUP"] ELSE conn
  /\ UNCHANGED <<calendar, flows, mailVars, grants, ids, lossVars, callVars>>

\* ensure_job: the request of this epoch that a message is sent for, a fresh one
\* unless it waits already, and none when it is answered.
Fresh(k) == job[k].epoch # conn.epoch \/ job[k].status \notin {"PENDING", "READY"}
Served(k) == job[k].epoch = conn.epoch /\ job[k].status = "READY"

EnsureJob(w) ==
  /\ at[w] = "ensuring" /\ Linked(conn)
  /\ \E k \in work[w].todo :
       /\ work' = [work EXCEPT ![w].todo = @ \ {k}]
       /\ IF Served(k) THEN UNCHANGED <<job, ids, at>>
          ELSE /\ IF Fresh(k)
                  THEN /\ job' = [job EXCEPT ![k] = [id |-> ids + 1, epoch |-> conn.epoch,
                                                     status |-> "PENDING"]]
                       /\ ids' = ids + 1
                  ELSE UNCHANGED <<job, ids>>
               /\ Moves(w, k)
  /\ UNCHANGED <<conn, calendar, flows, recovery, grants, messages, lossVars, callVars, overtaken>>

\* Its message, or the request fails with the send.
SendJob(w) ==
  \E k \in Kinds :
    /\ at[w] = k
    /\ \/ /\ messages' = messages \cup {Message(k, job[k].id)}
          /\ Moves(w, "ensuring") /\ UNCHANGED <<job, lossVars, work, overtaken>>
       \/ /\ losses < MaxLosses /\ losses' = losses + 1
          /\ job' = [job EXCEPT ![k].status = "ERROR"] /\ Retries(w)
    /\ UNCHANGED <<conn, calendar, flows, recovery, grants, ids, unsent, callVars>>

\* A setup message is done with; a mail request goes on to its own work.
EnsuredAll(w) ==
  /\ at[w] = "ensuring" /\ (work[w].todo = {} \/ ~Linked(conn))
  /\ IF work[w].message.kind \in Kinds THEN Moves(w, "answering") /\ UNCHANGED <<work, overtaken>>
     ELSE Rests(w)
  /\ UNCHANGED <<tableVars, outsideVars, callVars>>

\* The request is answered, fails and is received again, or finds its token gone.
Answer(w) ==
  LET m == work[w].message
      valid == Linked(conn) /\ job[m.kind].id = m.id /\ job[m.kind].epoch = conn.epoch
  IN /\ at[w] = "answering"
     /\ \/ ~valid /\ Rests(w) /\ UNCHANGED <<job, messages>>
        \/ /\ valid /\ grants.mail # None /\ Rests(w) /\ UNCHANGED messages
           /\ job' = [job EXCEPT ![m.kind].status = "READY"]
        \/ /\ valid /\ Retries(w)
           /\ job' = [job EXCEPT ![m.kind].status = "ERROR"]
        \/ /\ valid /\ grants.mail = None /\ Moves(w, "unauthorized")
           /\ work' = [work EXCEPT ![w].epoch = conn.epoch]
           /\ UNCHANGED <<job, messages, overtaken>>
     /\ UNCHANGED <<conn, calendar, flows, recovery, grants, ids, lossVars, callVars>>

\* Maintenance meets a connection whose token is gone.
Maintain(w) ==
  /\ at[w] = "idle" /\ Linked(conn) /\ grants.mail = None
  /\ Moves(w, "unauthorized") /\ work' = [work EXCEPT ![w].epoch = conn.epoch]
  /\ UNCHANGED <<tableVars, outsideVars, callVars, overtaken>>

\* Mutant: the connection of any epoch is given up.
OfAnyEpoch(w) == conn.status \in {"CONNECTED", "CONNECTING", "ERROR"}
OfItsEpoch(w) ==
  conn.epoch = work[w].epoch /\ conn.status \in {"CONNECTED", "CONNECTING", "ERROR"}

\* authorization_required of the epoch it worked for, read again when the
\* connection or the requests change meanwhile.
AuthorizationRequired(w) ==
  /\ at[w] = "unauthorized" /\ Rests(w)
  /\ IF OfItsEpoch(w)
     THEN /\ conn' = [conn EXCEPT !.status = "ERROR", !.error = "AUTH"]
          /\ job' = [k \in Kinds |-> [job[k] EXCEPT !.status = "ERROR"]]
     ELSE UNCHANGED <<conn, job>>
  /\ UNCHANGED <<calendar, flows, recovery, outsideVars, callVars>>

WorkerDies(w) ==
  /\ at[w] # "idle" /\ losses < MaxLosses /\ losses' = losses + 1
  /\ Retries(w)
  /\ UNCHANGED <<tableVars, grants, ids, unsent, callVars>>

----------------------------------------------------------------------------
\* _scan_eligible, and request: the app asks for mail work of a connection that is set up or in error;
\* a request that waits is dispatched again (a bound: one queued
\* message of it).
Requestable == Linked(conn) \/ (conn.status = "ERROR" /\ ~AuthLost /\ conn.gmail)
RequestMail(k) ==
  /\ MayAct /\ Requestable
  /\ IF Linked(conn) /\ job[k].epoch = conn.epoch /\ job[k].status = "PENDING"
     THEN UNCHANGED <<job, ids>> /\ \A m \in messages : m.id # job[k].id
     ELSE /\ job' = [job EXCEPT ![k] = [id |-> ids + 1, epoch |-> conn.epoch, status |-> "PENDING"]]
          /\ ids' = ids + 1
  /\ Sends(Message(k, job'[k].id))
  /\ UNCHANGED <<conn, calendar, flows, recovery, grants, callVars, workVars, overtaken>>

\* The user takes the access back at Google, or it expires.
GrantLost ==
  /\ grants.mail # None /\ losses < MaxLosses /\ losses' = losses + 1
  /\ GoogleRevokes
  /\ UNCHANGED <<tableVars, messages, ids, unsent, callVars, workVars, overtaken>>

WorkerStep(w) ==
  \/ Revoke(w) \/ RevokeComplete(w) \/ RecoverSetup(w) \/ InvokeSetup(w) \/ Setup(w)
  \/ SetupFailed(w) \/ EnsureJob(w) \/ SendJob(w) \/ EnsuredAll(w) \/ Answer(w)
  \/ AuthorizationRequired(w)
Works(w) == WorkerStep(w) \/ \E m \in messages : Take(w, m)

Next ==
  \/ \E c \in Calls : BeginAuthorize(c) \/ BeginRescan(c) \/ BeginCalendar(c)
                      \/ CallStep(c) \/ CallDies(c) \/ (\E f \in flows : BeginComplete(c, f))
  \/ \E f \in flows, a \in Accounts : Consent(f, a)
  \/ Disconnect \/ GrantLost \/ \E k \in Kinds : RequestMail(k)
  \/ \E w \in Workers : Works(w) \/ Maintain(w) \/ WorkerDies(w)
  \/ \E m \in messages : Drop(m)

Spec == Init /\ [][Next]_vars

----------------------------------------------------------------------------
Statuses == {"DISCONNECTED", "CONNECTING", "CONNECTED", "ERROR", "REVOKING"}
Messages == [kind : {"setup", "revoke"} \cup Kinds, id : Nat, left : 1 .. MaxReceives]
MaybeAccounts == Accounts \cup {None}

\* The items, messages and invocations have the shape the code gives them.
TypeOK ==
  /\ conn \in [status : Statuses, epoch : Nat, error : {"none", "AUTH", "SETUP"},
               account : MaybeAccounts, gmail : BOOLEAN, request : Nat]
  /\ calendar \in [epoch : Nat, account : MaybeAccounts]
  /\ flows \subseteq [id : Nat, purpose : {"mail", "calendar"}, epoch : Nat,
                      account : MaybeAccounts, chosen : MaybeAccounts, done : BOOLEAN]
  /\ job \in [Kinds -> [id : Nat, epoch : Nat,
                        status : {"NOT_STARTED", "PENDING", "READY", "ERROR"}]]
  /\ grants \in [mail : MaybeAccounts, calendar : MaybeAccounts]
  /\ messages \subseteq Messages /\ {ids, losses} \subseteq Nat
  /\ overtaken \subseteq Workers

\* The user's authorization, scan or disconnection wins: work that a worker began
\* for the connection as it was before changes nothing of the one that is there.
OvertakenWorkLoses == [][\A w \in overtaken : at'[w] # at[w] => conn' = conn]_vars

\* Calendar access that was confirmed for a mailbox which the user disconnected
\* meanwhile is not stored.
CalendarOfLiveMailbox ==
  [][calendar' # calendar =>
       Linked(conn) /\ calendar' = [epoch |-> conn.epoch, account |-> conn.account]]_vars

\* A message is queued, or with the worker that will finish it or give it back.
Carried(kind, id) ==
  \/ \E m \in messages : m.kind = kind /\ m.id = id
  \/ \E w \in Workers : work[w].message.kind = kind /\ work[w].message.id = id

\* A connection that is being set up is waited for by the message that sets it up,
\* unless that was never sent, whatever fails or dies fewer times than a message is
\* received: nobody else ends CONNECTING, and a request for mail work refuses it.  The
\* setups that recover a mail request have no message of their own, and the ones
\* that wait for a consent none at all.
SetupIsCarried ==
  conn.status = "CONNECTING" /\ conn.gmail /\ conn.epoch \notin unsent \cup {recovery.epoch}
    => Carried("setup", conn.epoch)

\* So is one that is being revoked, which refuses every authorization.
RevocationIsCarried ==
  conn.status = "REVOKING" /\ conn.request \notin unsent => Carried("revoke", conn.request)
=============================================================================
