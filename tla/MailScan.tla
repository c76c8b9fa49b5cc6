------------------------------ MODULE MailScan ------------------------------
(***************************************************************************)
(* The scan of a user's mail for the interests of a profile: requests,     *)
(* profile edits and result pages of the API (mail.py), the scan's pages   *)
(* and the history that Gmail reports later by the workers (mail_jobs.py,  *)
(* google_connection_store.py), on the items MAIL_INTERESTS#google and     *)
(* MAIL_RESULT# and on the Gmail cursor of CONNECTION#google.              *)
(*                                                                         *)
(* The connection is set up and given up as a whole: how is                *)
(* GoogleConnection.  Mails are numbered by the Gmail history; a page of a *)
(* scan is its step.  A write whose condition is the whole of what was     *)
(* read happens at once.  The idempotency gate is left out: jobs run twice *)
(* more often here than they do.                                           *)
(***************************************************************************)
EXTENDS Naturals, FiniteSets

CONSTANTS
  Calls,       \* API calls in flight
  Workers,     \* worker invocations
  None,        \* no continuation, no claim
  MaxPages,    \* pages of a scan (MAX_INITIAL_SCAN_PAGES, 64)
  MaxRecent,   \* mails that a sync without its history reads (MAX_SYNC_MESSAGES, 8)
  MaxMails,    \* bound on the mails that arrive
  MaxScans,    \* bound on the scans when the user asks for another
  MaxEdits,    \* bound on the edits of the profile
  MaxEpochs,   \* bound on the connections
  MaxQueued,   \* bound on the messages that wait when the API or Gmail sends one
  MaxReceives, \* receives of a message before the dead-letter queue (5)
  MaxLosses,   \* bound on the calls that fail and the workers that die
  MaxEvents    \* bound on the mails, edits and losses together

ASSUME ScanAssumption ==
  /\ {MaxPages, MaxReceives} \subseteq Nat \ {0}
  /\ {MaxRecent, MaxMails, MaxScans, MaxEdits, MaxEpochs, MaxQueued, MaxLosses,
      MaxEvents} \subseteq Nat

VARIABLES
  head,     \* Gmail's history: the mails so far
  conn,     \* CONNECTION#google: connected, epoch, gmail_history_id, gmail_sync_token
  profile,  \* the interests: their version, and whether there are any
  scan,     \* scan_json and scan_id, scan_connection_id, scan_step, scan_next_json
  results,  \* MAIL_RESULT#<scan>#: the pages (the first with the head it was read at) and
            \* the mails that were analysed, and for which profile; for the properties
            \* alone, whether a sync followed the history, and the mails one passed over
  messages, \* receivable queue messages
  ids,      \* how many scans were named
  losses,
  pc, call, \* where each API call is, and what it works on
  at, work  \* where each worker is, and what it read

itemVars == <<profile, scan>>
tableVars == <<conn, itemVars, results>>
callVars == <<pc, call>>
workVars == <<at, work>>
vars == <<head, tableVars, messages, ids, losses, callVars, workVars>>

\* The payload of a scan message; history messages carry the mail they tell of.
Message(kind, id, version, step, upto) ==
  [kind |-> kind, id |-> id, version |-> version, step |-> step, upto |-> upto,
   left |-> MaxReceives]
History(upto) == Message("history", 0, 0, 0, upto)
NoMessage == Message("none", 0, 0, 0, 0)
EmptyScan == [status |-> "NOT_STARTED", id |-> 0, version |-> 0, completed |-> FALSE,
              epoch |-> 0, step |-> 0, next |-> None]
NoCall == [message |-> NoMessage, scan |-> EmptyScan, version |-> 0, epoch |-> 0,
           items |-> {}]
NoWork == [message |-> NoMessage, scan |-> EmptyScan, version |-> 0, epoch |-> 0,
           start |-> 0, next |-> None, mode |-> "none", upto |-> 0, last |-> FALSE,
           mails |-> {}]

Init ==
  /\ head = 0
  /\ conn = [on |-> FALSE, epoch |-> 0, cursor |-> 0, token |-> None]
  /\ profile = [version |-> 0, configured |-> FALSE] /\ scan = EmptyScan
  /\ results = {} /\ messages = {} /\ ids = 0 /\ losses = 0
  /\ pc = [c \in Calls |-> "idle"] /\ call = [c \in Calls |-> NoCall]
  /\ at = [w \in Workers |-> "idle"] /\ work = [w \in Workers |-> NoWork]

\* A bound: on what happens from outside, whichever it is.
Bounded == head + profile.version + losses < MaxEvents
Loses == losses < MaxLosses /\ Bounded /\ losses' = losses + 1
\* What of a scan the code compares later.
Identity(s) == [EmptyScan EXCEPT !.id = s.id, !.epoch = s.epoch, !.step = s.step]
Quiet == Cardinality(messages) < MaxQueued
OfConnection(s) == conn.on /\ s.epoch = conn.epoch
NewScan(id) ==
  [EmptyScan EXCEPT !.status = "PENDING", !.id = id, !.version = profile.version,
                    !.epoch = conn.epoch]

----------------------------------------------------------------------------
(***************************************************************************)
(* Gmail and the connection.                                               *)
(***************************************************************************)
\* A mail arrives.
MailArrives ==
  /\ head < MaxMails /\ Bounded /\ head' = head + 1
  /\ UNCHANGED <<tableVars, messages, ids, losses, callVars, workVars>>

\* Gmail's notification, and maintenance which compares the history with the cursor.
Notify ==
  /\ conn.on /\ head > conn.cursor /\ Quiet
  /\ messages' = messages \cup {History(head)}
  /\ UNCHANGED <<head, tableVars, ids, losses, callVars, workVars>>

\* The user disconnects, or the access is gone (a bound: while no message waits).
Disconnect ==
  /\ conn.on /\ messages = {} /\ conn' = [conn EXCEPT !.on = FALSE]
  /\ UNCHANGED <<head, itemVars, results, messages, ids, losses, callVars, workVars>>

\* The setup of a new epoch has its history begin at the head; its message goes on.
Connect ==
  /\ ~conn.on /\ conn.epoch < MaxEpochs
  /\ conn' = [on |-> TRUE, epoch |-> conn.epoch + 1, cursor |-> head, token |-> None]
  /\ messages' = messages \cup {Message("setup", conn.epoch + 1, 0, 0, 0)}
  /\ UNCHANGED <<head, itemVars, results, ids, losses, callVars, workVars>>

----------------------------------------------------------------------------
(***************************************************************************)
(* API calls.                                                              *)
(***************************************************************************)
Goes(c, to) == pc' = [pc EXCEPT ![c] = to]
Returns(c) == Goes(c, "idle") /\ call' = [call EXCEPT ![c] = NoCall]
Raises(c) == Returns(c) /\ UNCHANGED <<head, tableVars, messages, ids, losses, workVars>>
Dispatches(c, id, version) ==
  Goes(c, "dispatching") /\ call' = [call EXCEPT ![c].message = Message("scan", id, version, 0, 0)]

\* _pending_request, when the request waits.
Waits(s) == s.status = "PENDING" /\ s.version = profile.version /\ OfConnection(s)
\* A page was stored before the scan failed.
Broken(s) == s.status = "ERROR" /\ ~s.completed /\ s.step > 0 /\ s.version = profile.version
             /\ OfConnection(s)
\* _scan_continuation: the message that goes on with it.
Continues(s) ==
  /\ s.next # None /\ s.next.kind = "continuation" /\ ~s.completed
  /\ s.next.id = s.id /\ s.next.version = profile.version /\ s.next.step = s.step

\* request: a scan that waits is dispatched again, one that broke goes on, or else
\* there is a new one.
RequestAgain(c) ==
  /\ pc[c] = "idle" /\ profile.configured
  /\ Waits(scan) /\ Dispatches(c, scan.id, scan.version) /\ UNCHANGED <<scan, ids>>
  /\ UNCHANGED <<head, conn, profile, results, messages, losses, workVars>>
RequestResume(c) ==
  /\ pc[c] = "idle" /\ profile.configured
  /\ Broken(scan) /\ Continues(scan)
  /\ scan' = [scan EXCEPT !.status = "PENDING"] /\ Dispatches(c, scan.id, scan.version)
  /\ UNCHANGED <<head, conn, profile, results, messages, ids, losses, workVars>>
RequestScan(c) ==
  /\ pc[c] = "idle" /\ profile.configured /\ conn.on
  /\ ~Waits(scan) /\ ~Broken(scan) /\ ids < MaxScans
  /\ ids' = ids + 1 /\ scan' = NewScan(ids + 1) /\ Dispatches(c, ids + 1, profile.version)
  /\ UNCHANGED <<head, conn, profile, results, messages, losses, workVars>>

\* save_profile: the next version, and a new scan of a connected mailbox.
SaveProfile(c) ==
  /\ pc[c] = "idle" /\ profile.version < MaxEdits /\ Bounded
  /\ \E interests \in BOOLEAN :
       /\ profile' = [version |-> profile.version + 1, configured |-> interests]
       /\ IF interests /\ conn.on
          THEN /\ ids' = ids + 1
               /\ scan' = [NewScan(ids + 1) EXCEPT !.version = profile'.version]
               /\ Dispatches(c, ids + 1, profile'.version)
          ELSE /\ scan' = [EmptyScan EXCEPT !.version = profile'.version, !.epoch = conn.epoch]
               /\ UNCHANGED <<ids, callVars>>
  /\ UNCHANGED <<head, conn, results, messages, losses, workVars>>

\* scan_work and _send: the item is read again, and what is current is sent, if
\* anything; a message sent later is one that waits in the queue.
Dispatch(c) ==
  LET m == call[c].message
      current == /\ profile.configured /\ Waits(scan) /\ ~scan.completed
                 /\ scan.id = m.id /\ scan.version = m.version
                 /\ scan.step = 0 \/ Continues(scan)
  IN /\ pc[c] = "dispatching"
     /\ \/ /\ current /\ Quiet /\ Returns(c) /\ UNCHANGED losses
           /\ messages' = messages \cup {IF scan.step = 0 THEN m ELSE scan.next}
        \/ /\ current /\ Loses /\ Goes(c, "refused") /\ UNCHANGED messages
           /\ call' = [call EXCEPT ![c].scan = scan, ![c].version = profile.version]
        \/ ~current /\ Returns(c) /\ UNCHANGED <<messages, losses>>
     /\ UNCHANGED <<head, tableVars, ids, workVars>>

\* fail_request: of exactly the work that was to be dispatched.
SameScan(c) == scan = call[c].scan
FailRequest(c) ==
  /\ pc[c] = "refused" /\ Returns(c)
  /\ scan' = IF SameScan(c) /\ profile.version = call[c].version /\ OfConnection(scan)
             THEN [scan EXCEPT !.status = "ERROR"] ELSE scan
  /\ UNCHANGED <<head, conn, profile, results, messages, ids, losses, workVars>>

----------------------------------------------------------------------------
(***************************************************************************)
(* results: a page of what was found, published if nothing moved.          *)
(***************************************************************************)
Found(s) == {r \in results : r.scan = s.id}

\* The generation, which a conflict ends: both reads of it at once.
BeginResults(c) ==
  /\ pc[c] = "idle" /\ OfConnection(scan) /\ scan.id # 0
  /\ Goes(c, "querying")
  /\ call' = [call EXCEPT ![c].scan = Identity(scan), ![c].version = profile.version]
  /\ UNCHANGED <<head, tableVars, messages, ids, losses, workVars>>

QueryResults(c) ==
  /\ pc[c] = "querying" /\ Goes(c, "checking")
  /\ call' = [call EXCEPT ![c].items = {r \in results : r.scan = call[c].scan.id}]
  /\ UNCHANGED <<head, tableVars, messages, ids, losses, workVars>>

\* Mutant: the page is published whatever was stored meanwhile.
UnmovedButStep(c) ==
  /\ profile.version = call[c].version /\ conn.on
  /\ scan.id = call[c].scan.id /\ scan.epoch = call[c].scan.epoch
Unmoved(c) ==
  /\ profile.version = call[c].version /\ conn.on
  /\ scan.id = call[c].scan.id /\ scan.epoch = call[c].scan.epoch
  /\ scan.step = call[c].scan.step
Publish(c) ==
  /\ pc[c] = "checking" /\ Unmoved(c) /\ Returns(c)
  /\ UNCHANGED <<head, tableVars, messages, ids, losses, workVars>>
Conflict(c) == pc[c] = "checking" /\ ~Unmoved(c) /\ Raises(c)

----------------------------------------------------------------------------
(***************************************************************************)
(* Worker jobs.                                                            *)
(***************************************************************************)
Moves(w, to) == at' = [at EXCEPT ![w] = to]
Rests(w) == Moves(w, "idle") /\ work' = [work EXCEPT ![w] = NoWork]
\* Mutant: a failed receive is the message's last.
ReturnedNever(m) == {}
\* Mutant: one receive too many.
ReturnedOnceMore(m) == {[m EXCEPT !.left = @ - 1]}
Returned(m) == IF m.left > 1 THEN {[m EXCEPT !.left = @ - 1]} ELSE {}
Retries(w) == Rests(w) /\ messages' = messages \cup Returned(work[w].message)

\* What process goes on with after it read the items.
Current == profile.configured /\ OfConnection(scan) /\ scan.id # 0
           /\ scan.version = profile.version
IsHistory(m) == m.kind = "history" /\ Current /\ scan.completed
                /\ scan.status \in {"READY", "ERROR"}
IsPage(m) == m.kind \in {"scan", "continuation"} /\ Current
             /\ m.id = scan.id /\ m.version = scan.version
IsStored(m) == IsPage(m) /\ scan.step > m.step /\ scan.next # None
IsSetup(m) == m.kind = "setup" /\ conn.on /\ conn.epoch = m.id

Takes(w, m, to) ==
  /\ at[w] = "idle" /\ messages' = messages \ {m} /\ Moves(w, to)
  /\ work' = [work EXCEPT ![w] = [NoWork EXCEPT
       !.message = m, !.scan = Identity(scan), !.version = profile.version, !.epoch = conn.epoch]]
  /\ UNCHANGED <<head, tableVars, ids, callVars>>
Take(w, m) ==
  \/ IsHistory(m) /\ Takes(w, m, "claiming") /\ UNCHANGED losses
  \/ IsPage(m) /\ scan.step = m.step /\ Takes(w, m, "analysing") /\ UNCHANGED losses
  \/ IsSetup(m) /\ Takes(w, m, "ensuring") /\ UNCHANGED losses
  \/ IsStored(m) /\ Loses /\ Takes(w, m, "failing")
\* The job of a page that is stored sends the next work's message again; above it is
\* answered with fail when the queue refuses that.
Replay(m) ==
  /\ IsStored(m) /\ messages' = (messages \ {m}) \cup {scan.next}
  /\ UNCHANGED <<head, tableVars, ids, losses, callVars, workVars>>
Drop(m) ==
  /\ ~(IsHistory(m) \/ IsStored(m) \/ IsSetup(m) \/ (IsPage(m) /\ scan.step = m.step))
  /\ messages' = messages \ {m}
  /\ UNCHANGED <<head, tableVars, ids, losses, callVars, workVars>>

\* claim_history_sync: the cursor is where the sync starts, and the token (here its
\* worker) is the claim, unless there is nothing new or another claim.
Claim(w) ==
  /\ at[w] = "claiming"
  /\ \/ /\ conn.on /\ work[w].message.upto > conn.cursor /\ conn.token = None
        /\ conn' = [conn EXCEPT !.token = w]
        /\ work' = [work EXCEPT ![w].start = conn.cursor]
        /\ Moves(w, "analysing") /\ UNCHANGED messages
     \/ /\ conn.on /\ work[w].message.upto > conn.cursor /\ conn.token # None
        /\ Retries(w) /\ UNCHANGED conn
     \/ /\ ~(conn.on /\ work[w].message.upto > conn.cursor)
        /\ Rests(w) /\ UNCHANGED <<conn, messages>>
  /\ UNCHANGED <<head, itemVars, results, ids, losses, callVars>>
\* The claim's lease ends while its worker is slow or dead.
ClaimExpires ==
  /\ conn.token # None /\ conn' = [conn EXCEPT !.token = None]
  /\ UNCHANGED <<head, itemVars, results, messages, ids, losses, callVars, workVars>>

\* What the agent answers: scan and scan_page, a page of the mailbox with Gmail's head.
PageAnswers(w) ==
  [mode : {"INITIAL_7_DAY"}, upto : {head}, mails : {{}},
   last : {l \in BOOLEAN : l \/ work[w].scan.step + 1 < MaxPages}]
\* _history_ids: the mails since the cursor, not always all of them.
HistoryAnswers(w) ==
  {[mode |-> "INCREMENTAL", upto |-> n, mails |-> work[w].start + 1 .. n, last |-> n = head] :
     n \in work[w].start + 1 .. head}
\* _recent_message_ids, when Gmail knows the cursor no more: the head first, and then
\* the newest mails, a few and none of more than seven days, whatever the cursor was.
Recent == {n + 1 .. head : n \in {m \in 0 .. head : m + MaxRecent >= head}}
RecentAnswers(w) ==
  [mode : {"BOUNDED_FULL_SYNC"}, upto : work[w].message.upto .. head, mails : Recent, last : {TRUE}]
Answers(w) ==
  IF work[w].message.kind = "history" THEN HistoryAnswers(w) \cup RecentAnswers(w)
  ELSE PageAnswers(w)
\* The agent reads, or fails.
Analyse(w) ==
  /\ at[w] = "analysing"
  /\ \/ /\ Moves(w, "storing") /\ UNCHANGED losses
        /\ \E a \in Answers(w) :
             work' = [work EXCEPT ![w].mode = a.mode, ![w].upto = a.upto,
                                  ![w].last = a.last, ![w].mails = a.mails]
     \/ Loses /\ Moves(w, "failing") /\ UNCHANGED work
  /\ UNCHANGED <<head, tableVars, messages, ids, callVars>>

\* What persist writes of the page.
Result(w, of, n) == [scan |-> work[w].scan.id, version |-> work[w].version, of |-> of, n |-> n]
Page(w) == IF work[w].scan.step = 0 THEN Result(w, "first", work[w].upto)
           ELSE Result(w, "page", work[w].scan.step)
\* The mails of a sync, and those that one without its history leaves behind the cursor.
Mails(w) ==
  IF work[w].mode = "INCREMENTAL" THEN {Result(w, "mail", n) : n \in work[w].mails}
  ELSE {Result(w, "recent", n) : n \in work[w].mails}
         \cup {Result(w, "passed", n) : n \in (work[w].start + 1 .. work[w].upto) \ work[w].mails}
Analysed(w) == IF work[w].message.kind = "history" THEN Mails(w) ELSE {Page(w)}
NextWork(w) ==
  LET m == work[w].message
  IN CASE m.kind = "history" -> IF work[w].last THEN None ELSE History(m.upto)
       [] work[w].last -> History(work[w].upto)
       [] OTHER -> Message("continuation", m.id, m.version, m.step + 1, 0)

\* The first page and a sync move the cursor, which ends a claim.
MovesCursor(w) == work[w].message.kind = "history" \/ work[w].scan.step = 0
CursorAfter(w) == IF MovesCursor(w) THEN work[w].upto ELSE conn.cursor

\* Mutant: a page is stored for any scan and profile of the epoch.
GenerationAny(w) == scan.epoch = work[w].epoch
Generation(w) ==
  /\ profile.version = work[w].version
  /\ scan.id = work[w].scan.id /\ scan.epoch = work[w].epoch
Claimed(w) ==
  work[w].message.kind = "history" =>
    conn.cursor = work[w].start /\ conn.token = w
\* Mutant: a sync's write compares neither its claim nor the step.
StorableUnclaimed(w) ==
  /\ Generation(w) /\ (work[w].message.kind = "history" \/ scan.step = work[w].scan.step)
  /\ conn.on /\ conn.epoch = work[w].epoch
\* persist's conditions.
Storable(w) ==
  /\ Generation(w) /\ Claimed(w) /\ scan.step = work[w].scan.step
  /\ conn.on /\ conn.epoch = work[w].epoch

Released(w) ==
  IF conn.token = w THEN [conn EXCEPT !.token = None] ELSE conn

Store(w) ==
  /\ at[w] = "storing"
  /\ IF Storable(w)
     THEN /\ results' = results \cup Analysed(w)
          /\ scan' = [scan EXCEPT
               !.status = IF work[w].last \/ work[w].message.kind = "history" THEN "READY" ELSE "PENDING",
               !.completed = work[w].last \/ work[w].message.kind = "history",
               !.step = @ + 1, !.next = NextWork(w)]
          /\ conn' = [conn EXCEPT !.cursor = CursorAfter(w),
                                  !.token = IF MovesCursor(w) THEN None ELSE @]
          /\ IF NextWork(w) = None THEN Rests(w)
             ELSE Moves(w, "forwarding") /\ work' = [work EXCEPT ![w].next = NextWork(w)]
     ELSE Rests(w) /\ conn' = Released(w) /\ UNCHANGED <<results, scan>>
  /\ UNCHANGED <<head, profile, messages, ids, losses, callVars>>

\* The next work's message, or the job comes back: a setup's with fail.
SendNext(w) ==
  /\ at[w] = "forwarding"
  /\ \/ messages' = messages \cup {work[w].next} /\ Rests(w) /\ UNCHANGED losses
     \/ work[w].message.kind # "setup" /\ Loses /\ Retries(w)
     \/ work[w].message.kind = "setup" /\ Loses /\ Moves(w, "failing") /\ UNCHANGED <<messages, work>>
  /\ UNCHANGED <<head, tableVars, ids, callVars>>

\* fail: the claim is released and the item read, then the record of the same scan is
\* written as it was read.
ReadFailed(w) ==
  /\ at[w] = "failing" /\ conn' = Released(w)
  /\ IF scan.id = work[w].scan.id
     THEN Moves(w, "recording") /\ work' = [work EXCEPT ![w].scan = scan] /\ UNCHANGED messages
     ELSE Retries(w)
  /\ UNCHANGED <<head, itemVars, results, ids, losses, callVars>>
RecordFailure(w) ==
  /\ at[w] = "recording" /\ Retries(w)
  /\ scan' = IF scan.id = work[w].scan.id /\ OfConnection(scan) /\ conn.epoch = work[w].epoch
             THEN [scan EXCEPT !.status = "ERROR", !.version = work[w].scan.version,
                               !.completed = work[w].scan.completed]
             ELSE scan
  /\ UNCHANGED <<head, conn, profile, results, ids, losses, callVars>>

\* ensure_job of the scan: it waits already, is done, or there is a new one.
EnsureScan(w) ==
  /\ at[w] = "ensuring"
  /\ \/ /\ conn.on /\ profile.configured
        /\ \/ /\ OfConnection(scan) /\ scan.status = "PENDING" /\ UNCHANGED <<scan, ids>>
           \/ /\ ~(OfConnection(scan) /\ scan.status \in {"PENDING", "READY"})
              /\ ids' = ids + 1 /\ scan' = NewScan(ids + 1)
        /\ Moves(w, "forwarding")
        /\ work' = [work EXCEPT ![w].next = Message("scan", scan'.id, profile.version, 0, 0),
                                ![w].scan = Identity(scan')]
     \/ /\ ~(conn.on /\ profile.configured /\ ~(OfConnection(scan) /\ scan.status = "READY"))
        /\ Rests(w) /\ UNCHANGED <<scan, ids>>
  /\ UNCHANGED <<head, conn, profile, results, messages, losses, callVars>>

WorkerDies(w) ==
  /\ at[w] # "idle" /\ Loses /\ Retries(w)
  /\ UNCHANGED <<head, tableVars, ids, callVars>>

CallStep(c) ==
  \/ Dispatch(c) \/ FailRequest(c) \/ QueryResults(c) \/ Publish(c) \/ Conflict(c)
WorkerStep(w) ==
  \/ Claim(w) \/ Analyse(w) \/ Store(w) \/ SendNext(w)
  \/ ReadFailed(w) \/ RecordFailure(w) \/ EnsureScan(w)
Works(w) == WorkerStep(w) \/ \E m \in messages : Take(w, m)

Next ==
  \/ MailArrives \/ Notify \/ Disconnect \/ Connect \/ ClaimExpires
  \/ \E c \in Calls : RequestAgain(c) \/ RequestResume(c) \/ RequestScan(c) \/ SaveProfile(c)
                      \/ BeginResults(c) \/ CallStep(c)
  \/ \E w \in Workers : Works(w) \/ WorkerDies(w)
  \/ \E m \in messages : Replay(m) \/ Drop(m)

Spec == Init /\ [][Next]_vars

----------------------------------------------------------------------------
Kinds == {"none", "setup", "scan", "continuation", "history"}
Payloads == [kind : Kinds, id : Nat, version : Nat, step : Nat, upto : Nat, left : 1 .. MaxReceives]
ASSUME NoneAssumption == None \notin Payloads
Scans == [status : {"NOT_STARTED", "PENDING", "READY", "ERROR"}, id : Nat, version : Nat,
          completed : BOOLEAN, epoch : Nat, step : Nat, next : Payloads \cup {None}]

\* The items and messages have the shape the code gives them, and a scan has an
\* answer exactly when it is READY or failed afterwards.
TypeOK ==
  /\ conn \in [on : BOOLEAN, epoch : Nat, cursor : 0 .. head, token : Workers \cup {None}]
  /\ profile \in [version : Nat, configured : BOOLEAN]
  /\ scan \in Scans /\ messages \subseteq Payloads
  /\ results \subseteq [scan : Nat, version : Nat, of : {"first", "page", "mail", "recent", "passed"}, n : Nat]
  /\ scan.status = "READY" => scan.completed

\* The first page of a scan is read at some head.  Each mail between it and the cursor
\* was analysed for this scan, except what a sync passed over whose cursor Gmail knew no
\* more; and no sync that followed the history analysed a mail beyond the cursor, which
\* the next one would count again.
HistoryHasNoGap ==
  \A r \in Found(scan) : r.of = "first" /\ OfConnection(scan) =>
    /\ \A n \in r.n + 1 .. conn.cursor :
         \E q \in Found(scan) : q.of \in {"mail", "recent", "passed"} /\ q.n = n
    /\ \A q \in Found(scan) : q.of = "mail" => q.n <= conn.cursor

\* What is stored was analysed for the interests and the connection that are there:
\* a profile edited during the analysis leaves nothing of the old one behind.
StoredForCurrentProfile ==
  [][\A r \in results' \ results :
       r.version = profile.version /\ r.scan = scan.id /\ OfConnection(scan)]_vars

\* A published page is the whole of what was found for the present profile at the
\* moment it is published, though four reads make it.
PublishedIsCurrent ==
  [][\A c \in Calls : Publish(c) =>
       call[c].items = Found(scan) /\ call[c].version = profile.version]_vars

\* The messages that carry a scan on: its pages' and its connection's setup.
Carries(m) ==
  \/ m.kind \in {"scan", "continuation"} /\ m.id = scan.id
  \/ m.kind = "setup" /\ m.id = scan.epoch

\* A scan that waits is carried on by a message, a worker or the call that asked for
\* it, whatever fails or dies fewer times than a message is received: the app only
\* shows that it waits, and asks for nothing.
WaitingIsCarried ==
  Waits(scan) /\ profile.configured =>
    \/ \E m \in messages : Carries(m)
    \/ \E w \in Workers : \/ Carries(work[w].message)
                          \/ at[w] = "forwarding" /\ Carries(work[w].next)
    \/ \E c \in Calls : pc[c] \in {"dispatching", "refused"}
=============================================================================
