----------------------------- MODULE Suggestions -----------------------------
(***************************************************************************)
(* The suggestions found in the user's mail: the worker refreshes them     *)
(* from the pages of a scan (_signal_updates in google_connection_store.py *)
(* and the transaction of mail_jobs.py), the user hides one, asks for less *)
(* of its group, takes that back, and has some converted into a Case       *)
(* (suggestions.py, workspace.py).  Routines adds the worker that converts *)
(* by itself.                                                              *)
(*                                                                         *)
(* The interests and the scan are MailScan's, the connection is            *)
(* GoogleConnection's: here they change as a whole.  A page has one        *)
(* suggestion, a larger one has the conditions of all of its own.  A scan  *)
(* id is made for one profile and one connection: a suggestion keeps the   *)
(* id for the three.  A write whose condition is all that was read happens *)
(* at once.                                                                *)
(***************************************************************************)
EXTENDS Naturals, FiniteSets

CONSTANTS
  Ids,         \* suggestions: a fingerprint of what was found
  Groups,      \* primary_group_id
  Keys,        \* idempotency keys of conversions: each names a Case
  Calls,       \* API calls in flight
  Workers,     \* worker invocations
  None,        \* nothing
  MaxVersion,  \* bound on the version a refresh gives a suggestion
  MaxDecisions \* bound on what the user does

ASSUME SuggestionAssumption ==
  /\ Ids \cap Keys = {} /\ None \notin Ids \cup Keys \cup Groups
  /\ None \notin {"VISIBLE", "HIDDEN", "CONVERTED", "PREPARING", "PLANNED"}
  /\ None \notin [active : BOOLEAN, source : Ids \cup {None}, version : Nat]
  /\ {MaxVersion, MaxDecisions} \subseteq Nat

VARIABLES
  mail,        \* CONNECTION#google and MAIL_INTERESTS#google: on, epoch, profile,
               \* configured, scan (0: none), of (scan_connection_id)
  scans,       \* how many scans were named
  decisions,   \* how many the user made
  suggestion,  \* CANDIDATE#: status, version, group, scan
  suppression, \* SUPPRESSION#: active, source, version of each group's rule
  cases,       \* META of the Cases: status, the suggestions they came from, and
               \* dispatch_pending (a routine names its Case after the suggestion)
  messages,    \* Cases with a plan job in the queue
  pc, call,    \* where each API call is, and what it read
  at, work     \* where each worker is, and what it read

contextVars == <<mail, scans>>
callVars == <<pc, call>>
workVars == <<at, work>>
suggestionVars ==
  <<contextVars, suggestion, suppression, cases, messages, decisions, callVars, workVars>>

NoSuggestion == [status |-> None, version |-> 0, group |-> None, scan |-> 0]
NoRule == [active |-> FALSE, source |-> None, version |-> 0]
NoCase == [status |-> None, sources |-> {}, pending |-> FALSE]
NoCall == [id |-> None, group |-> None, key |-> None, versions |-> <<>>, mail |-> None]
NoWork == [id |-> None, suggestion |-> NoSuggestion, group |-> None, rule |-> None,
           mail |-> None, routine |-> None]

SuggestionInit ==
  /\ mail = [on |-> TRUE, epoch |-> 1, profile |-> 1, configured |-> TRUE, scan |-> 1, of |-> 1]
  /\ scans = 1
  /\ suggestion = [s \in Ids |-> NoSuggestion]
  /\ suppression = [g \in Groups |-> NoRule]
  /\ cases = [k \in Keys \cup Ids |-> NoCase]
  /\ messages = {} /\ decisions = 0
  /\ pc = [c \in Calls |-> "idle"] /\ call = [c \in Calls |-> NoCall]
  /\ at = [w \in Workers |-> "idle"] /\ work = [w \in Workers |-> NoWork]

Decides == decisions < MaxDecisions /\ decisions' = decisions + 1

\* There is a scan of the present connection and interests.
Scanned == mail.on /\ mail.configured /\ mail.scan # 0 /\ mail.of = mail.epoch
Visible(s) == suggestion[s].status = "VISIBLE"
\* The suggestion was found by it.
Found(s) == Visible(s) /\ Scanned /\ suggestion[s].scan = mail.scan
\* A rule hides it from the list.
Suppressed(s) ==
  LET rule == suppression[suggestion[s].group] IN rule.active /\ rule.source # s

----------------------------------------------------------------------------
(***************************************************************************)
(* The interests, the scan and the connection.                             *)
(***************************************************************************)
\* save_profile: the interests change, or there are none; a scan of a connected mailbox.
EditProfile ==
  /\ Decides
  /\ \E interests \in BOOLEAN :
       /\ scans' = IF interests /\ mail.on THEN scans + 1 ELSE scans
       /\ mail' = [mail EXCEPT !.profile = @ + 1, !.configured = interests, !.of = mail.epoch,
                               !.scan = IF interests /\ mail.on THEN scans + 1 ELSE 0]
  /\ UNCHANGED <<suggestion, suppression, cases, messages, callVars, workVars>>

\* request, and ensure_job after a setup.
RequestScan ==
  /\ mail.on /\ mail.configured /\ Decides
  /\ scans' = scans + 1 /\ mail' = [mail EXCEPT !.scan = scans + 1, !.of = mail.epoch]
  /\ UNCHANGED <<suggestion, suppression, cases, messages, callVars, workVars>>

Disconnect ==
  /\ mail.on /\ Decides /\ mail' = [mail EXCEPT !.on = FALSE]
  /\ UNCHANGED <<scans, suggestion, suppression, cases, messages, callVars, workVars>>
Connect ==
  /\ ~mail.on /\ Decides
  /\ mail' = [mail EXCEPT !.on = TRUE, !.epoch = @ + 1]
  /\ UNCHANGED <<scans, suggestion, suppression, cases, messages, callVars, workVars>>

----------------------------------------------------------------------------
(***************************************************************************)
(* The user's feedback.                                                    *)
(***************************************************************************)
Goes(c, to) == pc' = [pc EXCEPT ![c] = to]
Returns(c) == Goes(c, "idle") /\ call' = [call EXCEPT ![c] = NoCall]

\* A decision takes the suggestion out of the list, at the version it was read at.
Decided(s, status) == [suggestion[s] EXCEPT !.status = status, !.version = @ + 1]

\* hide_once: one conditional update.
HideOnce(s) ==
  /\ Visible(s) /\ Decides /\ suggestion' = [suggestion EXCEPT ![s] = Decided(s, "HIDDEN")]
  /\ UNCHANGED <<contextVars, suppression, cases, messages, callVars, workVars>>

\* reduce_similar: the suggestion is read, and then the rule of its group written,
\* with no condition.
BeginReduce(c, s) ==
  /\ pc[c] = "idle" /\ Visible(s) /\ Decides /\ Goes(c, "reducing")
  /\ call' = [call EXCEPT ![c] = [NoCall EXCEPT !.id = s, !.group = suggestion[s].group]]
  /\ UNCHANGED <<contextVars, suggestion, suppression, cases, messages, workVars>>
Reduce(c) ==
  LET g == call[c].group
  IN /\ pc[c] = "reducing" /\ Returns(c)
     /\ suppression' = [suppression EXCEPT ![g] =
          [active |-> TRUE, source |-> call[c].id, version |-> @.version + 1]]
     /\ UNCHANGED <<contextVars, suggestion, cases, messages, decisions, workVars>>

\* undo_suppression.
Undo(g) ==
  /\ suppression[g].active /\ Decides
  /\ suppression' = [suppression EXCEPT ![g].active = FALSE, ![g].version = @ + 1]
  /\ UNCHANGED <<contextVars, suggestion, cases, messages, callVars, workVars>>

----------------------------------------------------------------------------
(***************************************************************************)
(* convert_candidates: one Case from some suggestions.                     *)
(***************************************************************************)
\* The Case is there already, or the suggestions and what they were found for are read.
BeginConvert(c, k, chosen) ==
  /\ pc[c] = "idle" /\ Decides
  /\ \/ /\ cases[k].status # None
        /\ Goes(c, "dispatching") /\ call' = [call EXCEPT ![c].key = k]
     \/ /\ cases[k].status = None /\ \A s \in chosen : Found(s)
        /\ Goes(c, "converting")
        /\ call' = [call EXCEPT ![c] = [NoCall EXCEPT
             !.key = k, !.mail = mail, !.versions = [s \in chosen |-> suggestion[s].version]]]
  /\ UNCHANGED <<contextVars, suggestion, suppression, cases, messages, workVars>>

\* What the API and the routines compare of the interests and the connection.
SameMail(read) ==
  /\ mail.on /\ mail.epoch = read.epoch /\ mail.profile = read.profile /\ mail.scan = read.scan
\* Mutant: the suggestions are not compared.
AnyVersion(c) == TRUE
SameVersions(c) ==
  LET read == call[c].versions
  IN \A s \in DOMAIN read : Visible(s) /\ suggestion[s].version = read[s]

\* The transaction; a Case that is there is the answer to a conflict.
Convert(c) ==
  LET k == call[c].key
      chosen == DOMAIN call[c].versions
  IN /\ pc[c] = "converting"
     /\ \/ /\ cases[k].status = None /\ SameMail(call[c].mail) /\ SameVersions(c)
           /\ cases' = [cases EXCEPT ![k] =
                [status |-> "PREPARING", sources |-> chosen, pending |-> FALSE]]
           /\ suggestion' = [s \in Ids |-> IF s \in chosen THEN Decided(s, "CONVERTED") ELSE suggestion[s]]
           /\ Goes(c, "dispatching") /\ call' = [call EXCEPT ![c] = [NoCall EXCEPT !.key = k]]
        \/ /\ cases[k].status # None /\ Goes(c, "dispatching")
           /\ call' = [call EXCEPT ![c] = [NoCall EXCEPT !.key = k]] /\ UNCHANGED <<suggestion, cases>>
        \/ /\ cases[k].status = None /\ ~(SameMail(call[c].mail) /\ SameVersions(c))
           /\ Returns(c) /\ UNCHANGED <<suggestion, cases>>
     /\ UNCHANGED <<contextVars, suppression, messages, decisions, workVars>>

\* The job of a Case that prepares is sent.  If that fails, the answer is an error: the
\* user's next attempt, under the same key, sends it.
Dispatch(c) ==
  /\ pc[c] = "dispatching" /\ Returns(c)
  /\ \/ /\ cases[call[c].key].status = "PREPARING" /\ messages' = messages \cup {call[c].key}
     \/ UNCHANGED messages
  /\ UNCHANGED <<contextVars, suggestion, suppression, cases, decisions, workVars>>

\* The worker that plans: CasePreparation.  A job for a Case that has its plan is dropped.
Plan(k) ==
  /\ k \in messages /\ messages' = messages \ {k}
  /\ cases' = [cases EXCEPT ![k].status = "PLANNED"]
  /\ UNCHANGED <<contextVars, suggestion, suppression, decisions, callVars, workVars>>

----------------------------------------------------------------------------
(***************************************************************************)
(* The refresh of a suggestion by a page.                                  *)
(***************************************************************************)
Moves(w, to) == at' = [at EXCEPT ![w] = to]
Rests(w) == Moves(w, "idle") /\ work' = [work EXCEPT ![w] = NoWork]

\* The group it is written to: the old one while its rule hides it there.
GroupOf(s, g) ==
  IF Visible(s) /\ Suppressed(s) THEN suggestion[s].group ELSE g

\* _signal_updates: it reads the suggestion and, if it changes groups, the old rule.
\* One the user decided about is left out.
ReadSignal(w, s, g, m) ==
  /\ suggestion[s].status \in {None, "VISIBLE"} /\ suggestion[s].version < MaxVersion
  /\ Moves(w, "storing")
  /\ work' = [work EXCEPT ![w] = [NoWork EXCEPT
       !.id = s, !.mail = m, !.suggestion = suggestion[s],
       !.group = IF Visible(s) THEN GroupOf(s, g) ELSE g,
       !.rule = IF Visible(s) /\ suggestion[s].group # g
                THEN suppression[suggestion[s].group] ELSE None]]
  /\ UNCHANGED <<contextVars, suggestion, suppression, cases, messages, decisions, callVars>>
Refresh(w, s, g) == at[w] = "idle" /\ Scanned /\ ReadSignal(w, s, g, mail)

\* What was read of it: with a regroup, of the rule too.
SameSignal(w) ==
  LET read == work[w].suggestion
  IN suggestion[work[w].id].status = read.status /\ suggestion[work[w].id].version = read.version
\* Mutant: a rule made meanwhile is not noticed.
AnyRule(w) == TRUE
SameRule(w) ==
  work[w].rule # None => suppression[work[w].suggestion.group] = work[w].rule
Refreshable(w) == SameSignal(w) /\ SameRule(w)

\* The page's transaction.
Store(w) ==
  /\ at[w] = "storing" /\ SameMail(work[w].mail) /\ Refreshable(w) /\ Rests(w)
  /\ suggestion' = [suggestion EXCEPT ![work[w].id] =
       [status |-> IF @.status = None THEN "VISIBLE" ELSE @.status, version |-> @.version + 1,
        group |-> work[w].group, scan |-> work[w].mail.scan]]
  /\ UNCHANGED <<contextVars, suppression, cases, messages, decisions, callVars>>
\* A conflict over the suggestion or the rule alone is read again, up to three times.
StoreAgain(w) ==
  /\ at[w] = "storing" /\ SameMail(work[w].mail) /\ ~Refreshable(w)
  /\ \E g \in Groups : ReadSignal(w, work[w].id, g, work[w].mail)
\* Another conflict, the last one, or the worker dies.
StoreFails(w) ==
  /\ at[w] = "storing" /\ Rests(w)
  /\ UNCHANGED <<contextVars, suggestion, suppression, cases, messages, decisions, callVars>>

SuggestionCallStep(c) == Reduce(c) \/ Convert(c) \/ Dispatch(c)
SuggestionWorkerStep(w) == Store(w) \/ StoreAgain(w) \/ StoreFails(w)

SuggestionNext ==
  \/ EditProfile \/ RequestScan \/ Disconnect \/ Connect
  \/ \E s \in Ids : HideOnce(s) \/ \E c \in Calls : BeginReduce(c, s)
  \/ \E g \in Groups : Undo(g)
  \/ \E c \in Calls : SuggestionCallStep(c)
  \/ \E c \in Calls, k \in Keys, chosen \in SUBSET Ids \ {{}} : BeginConvert(c, k, chosen)
  \/ \E k \in Keys \cup Ids : Plan(k)
  \/ \E w \in Workers : SuggestionWorkerStep(w) \/ \E s \in Ids, g \in Groups : Refresh(w, s, g)
=============================================================================
