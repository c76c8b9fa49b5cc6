------------------------------ MODULE Routines ------------------------------
(***************************************************************************)
(* Routines: the user has QuietPilot prepare suggestions like one that was *)
(* completed before (routines.py of the API), and the worker, after each   *)
(* scan page or history sync, makes Cases of the suggestions that match    *)
(* and sends their plan jobs, with a dispatch marker that survives it      *)
(* (routines.py of the worker).                                            *)
(*                                                                         *)
(* One source Case: a routine is named by the interests and the connection *)
(* it was proposed under.  A change of its status is one transaction with  *)
(* the whole of what was read as its condition, and happens at once.  A    *)
(* suggestion that was mailed by another sender, or is of another type,    *)
(* matches no routine: all of these match.  A marker, and a suggestion,    *)
(* are a visit each: that the markers come first is left out.              *)
(***************************************************************************)
EXTENDS Suggestions

CONSTANT MaxRoutines  \* routine_count's limit (32)

ASSUME RoutineAssumption ==
  MaxRoutines \in Nat \ {0} /\ None \notin {"PROPOSED", "ACTIVE", "PAUSED"}

VARIABLES
  source,   \* the completed Case is as it was
  routine,  \* ROUTINE#: status, and the mails that came before activated_at
  markers   \* ROUTINE_DISPATCH#: the Cases

routineVars == <<source, routine, markers>>
vars == <<suggestionVars, routineVars>>

\* The routines by the profile and epoch they bind: those that decisions lead to.
RoutineIds == {r \in (1 .. MaxDecisions + 1) \X (1 .. MaxDecisions + 1) : r[1] + r[2] <= MaxDecisions + 2}
NoRoutine == [status |-> None, before |-> {}]

Init ==
  /\ SuggestionInit
  /\ source = TRUE /\ markers = {}
  /\ routine = [r \in RoutineIds |-> IF r = <<1, 1>> THEN [NoRoutine EXCEPT !.status = "PROPOSED"]
                                                    ELSE NoRoutine]

----------------------------------------------------------------------------
(***************************************************************************)
(* The API's routines.                                                     *)
(***************************************************************************)
\* The completed Case is moved on by its user.
SourceMoves ==
  /\ source /\ Decides /\ source' = FALSE
  /\ UNCHANGED <<contextVars, suggestion, suppression, cases, messages, callVars, workVars>>
  /\ UNCHANGED <<routine, markers>>

\* The routine that is bound to what there is: _source's Case, and _current.
Present == <<mail.profile, mail.epoch>>
Stands == source
Bound == Stands /\ mail.on /\ mail.configured

Room == Cardinality({r \in RoutineIds : routine[r].status # None}) < MaxRoutines
Propose ==
  /\ routine[Present].status = None /\ Bound /\ Room /\ Decides
  /\ routine' = [routine EXCEPT ![Present].status = "PROPOSED"]
  /\ UNCHANGED <<contextVars, suggestion, suppression, cases, messages, callVars, workVars>>
  /\ UNCHANGED <<source, markers>>

\* set_status.  The mails that came before: those of all that was found, and any others.
Activate ==
  /\ routine[Present].status \in {"PROPOSED", "PAUSED"} /\ Bound /\ Decides
  /\ \E before \in SUBSET Ids :
       /\ routine[Present].before \cup {s \in Ids : suggestion[s].status # None} \subseteq before
       /\ routine' = [routine EXCEPT ![Present] = [status |-> "ACTIVE", before |-> before]]
  /\ UNCHANGED <<contextVars, suggestion, suppression, cases, messages, callVars, workVars>>
  /\ UNCHANGED <<source, markers>>
Pause(r) ==
  /\ routine[r].status \in {"PROPOSED", "ACTIVE"} /\ Decides
  /\ routine' = [routine EXCEPT ![r].status = "PAUSED"]
  /\ UNCHANGED <<contextVars, suggestion, suppression, cases, messages, callVars, workVars>>
  /\ UNCHANGED <<source, markers>>

----------------------------------------------------------------------------
(***************************************************************************)
(* The worker's routines.                                                  *)
(***************************************************************************)
\* A routine that may prepare the suggestion: active and bound, the suggestion is one
\* of the present scan, not suppressed, and its mail came after the activation.
Candidate(s) == Found(s) /\ ~suppression[suggestion[s].group].active
Prepares(s) ==
  /\ routine[Present].status = "ACTIVE" /\ Bound /\ Candidate(s)
  /\ s \notin routine[Present].before

Match(w, s) ==
  /\ at[w] = "idle" /\ Prepares(s) /\ Moves(w, "creating")
  /\ work' = [work EXCEPT ![w] =
       [NoWork EXCEPT !.id = s, !.suggestion = suggestion[s], !.mail = mail,
                      !.rule = suppression[suggestion[s].group],
                      !.routine = [id |-> Present, read |-> routine[Present]]]]
  /\ UNCHANGED <<contextVars, suggestion, suppression, cases, messages, decisions, callVars, routineVars>>

\* Mutant: the routine is not compared again.
SameButRoutine(w) ==
  LET s == work[w].id IN
  /\ suggestion[s] = work[w].suggestion /\ SameMail(work[w].mail)
  /\ suppression[suggestion[s].group] = work[w].rule
\* create_case's conditions: everything that was read.
SameRead(w) ==
  LET r == work[w].routine
      s == work[w].id
  IN /\ routine[r.id] = r.read /\ source
     /\ suggestion[s] = work[w].suggestion /\ SameMail(work[w].mail)
     /\ suppression[suggestion[s].group] = work[w].rule

\* The Case, its marker and the converted suggestion.
Create(w) ==
  LET s == work[w].id
  IN /\ at[w] = "creating" /\ SameRead(w) /\ cases[s].status = None
     /\ cases' = [cases EXCEPT ![s] = [status |-> "PREPARING", sources |-> {s}, pending |-> TRUE]]
     /\ suggestion' = [suggestion EXCEPT ![s] = Decided(s, "CONVERTED")]
     /\ markers' = markers \cup {s}
     /\ Moves(w, "sending") /\ work' = [work EXCEPT ![w] = [NoWork EXCEPT !.id = s]]
     /\ UNCHANGED <<contextVars, suppression, messages, decisions, callVars, source, routine>>
\* What was read moved, if only the scan's record by a page.
CreateConflict(w) ==
  /\ at[w] = "creating" /\ Rests(w)
  /\ UNCHANGED <<contextVars, suggestion, suppression, cases, messages, decisions, callVars, routineVars>>

\* A later visit finds the marker.
Recover(w, s) ==
  /\ at[w] = "idle" /\ s \in markers /\ Moves(w, "sending")
  /\ work' = [work EXCEPT ![w] = [NoWork EXCEPT !.id = s]]
  /\ UNCHANGED <<contextVars, suggestion, suppression, cases, messages, decisions, callVars, routineVars>>

\* Mutant: a send that failed is acknowledged.
FailsTo(w) == Moves(w, "acknowledging") /\ UNCHANGED work
\* A send that fails leaves the marker to the next visit.
Fails(w) == Rests(w)
\* _dispatch: the job of a Case that waits for it.
Send(w) ==
  LET s == work[w].id
      waits == cases[s].status = "PREPARING" /\ cases[s].pending
  IN /\ at[w] = "sending"
     /\ \/ /\ waits /\ messages' = messages \cup {s} /\ Moves(w, "acknowledging")
           /\ UNCHANGED work
        \/ waits /\ Fails(w) /\ UNCHANGED messages
        \/ ~waits /\ Moves(w, "acknowledging") /\ UNCHANGED <<messages, work>>
     /\ UNCHANGED <<contextVars, suggestion, suppression, cases, decisions, callVars, routineVars>>

\* Mutant: the Case is not told.
UntoldCases(s) == cases
Acknowledged(s) == [cases EXCEPT ![s].pending = FALSE]
\* acknowledge: the Case and the marker in one transaction, unless another worker has
\* done it; it fails, and the marker stays.
Acknowledge(w) ==
  LET s == work[w].id
  IN /\ at[w] = "acknowledging" /\ Rests(w)
     /\ \/ s \in markers /\ markers' = markers \ {s} /\ cases' = Acknowledged(s)
        \/ UNCHANGED <<markers, cases>>
     /\ UNCHANGED <<contextVars, suggestion, suppression, messages, decisions, callVars, source, routine>>

RoutineNext ==
  \/ SourceMoves
  \/ Propose \/ Activate \/ \E r \in RoutineIds : Pause(r)
  \/ \E w \in Workers, s \in Ids : Recover(w, s) \/ Match(w, s)
  \/ \E w \in Workers : Create(w) \/ CreateConflict(w) \/ Send(w) \/ Acknowledge(w)

Next ==
  \/ SuggestionNext /\ UNCHANGED routineVars
  \/ RoutineNext

Spec == Init /\ [][Next]_vars

----------------------------------------------------------------------------
\* The items have the shape the code gives them, a Case and its marker tell the same,
\* and there are no more routines than the worker and the list read.
TypeOK ==
  /\ suggestion \in [Ids -> [status : {None, "VISIBLE", "HIDDEN", "CONVERTED"}, version : Nat,
                             group : Groups \cup {None}, scan : 0 .. scans]]
  /\ suppression \in [Groups -> [active : BOOLEAN, source : Ids \cup {None}, version : Nat]]
  /\ cases \in [Keys \cup Ids -> [status : {None, "PREPARING", "PLANNED"},
                                  sources : SUBSET Ids, pending : BOOLEAN]]
  /\ messages \subseteq Keys \cup Ids /\ markers = {s \in Ids : cases[s].pending}
  /\ Cardinality({r \in RoutineIds : routine[r].status # None}) <= MaxRoutines

\* A suggestion becomes one Case: conversions under different keys, their retries,
\* and routines on several workers take it from each other.
OneCasePerSuggestion ==
  \A k \in Keys \cup Ids : \A s \in cases[k].sources :
    /\ suggestion[s].status = "CONVERTED"
    /\ \A l \in (Keys \cup Ids) \ {k} : s \notin cases[l].sources

\* A Case that a routine made waits for its plan only while its marker or its job
\* exists, whichever worker dies and whichever send fails: nobody else sends it.
PreparedIsCarried ==
  \A s \in Ids : cases[s].status = "PREPARING" => s \in markers \cup messages

\* A refresh never brings back what the user hid or converted, and frees nothing that
\* a rule hides, though it decides this from what it read before.
RefreshRespectsUser ==
  [][\A s \in Ids : suggestion'[s] # suggestion[s] =>
       /\ suggestion[s].status \notin {"HIDDEN", "CONVERTED"}
       /\ Visible(s) /\ Suppressed(s) => suggestion'[s].status # "VISIBLE" \/ Suppressed(s)']_vars

\* At the moment a routine makes a Case it is active and bound to the present
\* interests, connection and source, the suggestion is of the present scan and newer
\* than the activation, and the user did not ask for less of its group.
RoutineStaysInBounds ==
  [][\A s \in Ids : cases[s].status = None /\ cases'[s].status # None =>
       Prepares(s)]_vars
=============================================================================
