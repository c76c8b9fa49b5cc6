--------------------------- MODULE RoutinesProofs ---------------------------
(***************************************************************************)
(* Suggestions, conversions and routines for every number of suggestions,  *)
(* groups, keys, calls and workers.  The arguments: each decision and      *)
(* refresh raises a suggestion's version, so a version that was read names *)
(* what was read; a new profile or scan never has the number of an old     *)
(* one; only a suggestion that is in the list goes into a Case, and none   *)
(* comes back to the list; and a marker is given up only by a worker that  *)
(* saw the job sent, or the plan there.                                    *)
(***************************************************************************)
EXTENDS Routines, FiniteSetTheorems, TLAPS

Mails == [on : BOOLEAN, epoch : Nat, profile : Nat, configured : BOOLEAN, scan : Nat, of : Nat]
SuggestionRecords ==
  [status : {None, "VISIBLE", "HIDDEN", "CONVERTED"}, version : Nat, group : Groups \cup {None},
   scan : Nat]
Rules == [active : BOOLEAN, source : Ids \cup {None}, version : Nat]
CaseRecords ==
  [status : {None, "PREPARING", "PLANNED"}, sources : SUBSET Ids, pending : BOOLEAN]
RoutineRecords == [status : {None, "PROPOSED", "ACTIVE", "PAUSED"}, before : SUBSET Ids]
Versions == {<<>>} \cup UNION {[chosen -> Nat] : chosen \in SUBSET Ids}
CallRecords ==
  [id : Ids \cup {None}, group : Groups \cup {None}, key : Keys \cup {None}, versions : Versions,
   mail : Mails \cup {None}]
RoutineReads == [id : RoutineIds, read : RoutineRecords]
WorkRecords ==
  [id : Ids \cup {None}, suggestion : SuggestionRecords, group : Groups \cup {None},
   rule : Rules \cup {None}, mail : Mails \cup {None}, routine : RoutineReads \cup {None}]

MailTyped == mail \in Mails /\ scans \in Nat /\ decisions \in Nat
ItemsTyped ==
  /\ suggestion \in [Ids -> SuggestionRecords] /\ suppression \in [Groups -> Rules]
  /\ cases \in [Keys \cup Ids -> CaseRecords] /\ messages \subseteq Keys \cup Ids
RoutinesTyped ==
  source \in BOOLEAN /\ routine \in [RoutineIds -> RoutineRecords] /\ markers \subseteq Ids
CallsTyped ==
  /\ pc \in [Calls -> {"idle", "reducing", "converting", "dispatching"}]
  /\ call \in [Calls -> CallRecords]
WorkTyped ==
  /\ at \in [Workers -> {"idle", "storing", "creating", "sending", "acknowledging"}]
  /\ work \in [Workers -> WorkRecords]
Typed == MailTyped /\ ItemsTyped /\ RoutinesTyped /\ CallsTyped /\ WorkTyped

\* Profiles and epochs are as many as the decisions that made them, scans as many as
\* were named.
Counted ==
  /\ mail.profile >= 1 /\ mail.epoch >= 1 /\ mail.profile + mail.epoch <= decisions + 2
  /\ decisions <= MaxDecisions /\ mail.scan <= scans

\* What is in the list has a group, and a scan that was named.
Listed ==
  \A s \in Ids : suggestion[s].scan <= scans /\ (Visible(s) => suggestion[s].group \in Groups)

\* Only a Case that there is has a marker or a job.
Marked ==
  /\ markers = {s \in Ids : cases[s].pending}
  /\ \A k \in Keys \cup Ids : cases[k].pending => cases[k].status # None
  /\ \A k \in messages : cases[k].status # None

Known == {r \in RoutineIds : routine[r].status # None}
WithinLimit == Cardinality(Known) <= MaxRoutines

\* What a call holds is a Case's key, some suggestions or one.
CallInv(c) ==
  /\ pc[c] = "reducing" => call[c].id \in Ids
  /\ pc[c] = "converting" => call[c].key \in Keys /\ DOMAIN call[c].versions \subseteq Ids
  /\ pc[c] = "dispatching" => call[c].key \in Keys

\* What was read of the interests and the scan is what there is, if their numbers are.
MailRead(w) ==
  at[w] \in {"storing", "creating"} =>
    LET read == work[w].mail
    IN /\ read \in Mails /\ read.scan # 0 /\ read.scan <= scans
       /\ read.profile <= mail.profile
       /\ read.profile = mail.profile => read.configured = mail.configured
       /\ read.scan = mail.scan => read.of = mail.of

\* What a page stores: a suggestion that was read open, in its old group if the rule
\* that was read, or none was needed, keeps it there.
SignalRead(w) ==
  at[w] = "storing" =>
    LET s == work[w].id
        read == work[w].suggestion
    IN /\ s \in Ids /\ read.status \in {None, "VISIBLE"} /\ work[w].group \in Groups
       /\ read.version <= suggestion[s].version
       /\ read.version = suggestion[s].version => read = suggestion[s]
       /\ read.status = "VISIBLE" /\ work[w].rule = None => work[w].group = read.group
       /\ read.status = "VISIBLE" /\ work[w].rule # None =>
            (work[w].rule.active /\ work[w].rule.source # s => work[w].group = read.group)

\* What a routine was to prepare was its to prepare.
MatchRead(w) ==
  at[w] = "creating" =>
    LET s == work[w].id
        m == work[w].mail
        r == work[w].routine
    IN /\ s \in Ids /\ work[w].suggestion.status = "VISIBLE" /\ work[w].suggestion.scan = m.scan
       /\ m.on /\ m.configured /\ m.of = m.epoch
       /\ r.id = <<m.profile, m.epoch>> /\ r.read.status = "ACTIVE" /\ s \notin r.read.before
       /\ work[w].rule \in Rules /\ ~work[w].rule.active

\* A worker that gives up a marker saw the job sent, or the plan there.
SentRead(w) ==
  /\ at[w] \in {"sending", "acknowledging"} => work[w].id \in Ids /\ cases[work[w].id].status # None
  /\ at[w] = "acknowledging" =>
       (cases[work[w].id].status = "PREPARING" => work[w].id \in messages)

WorkInv(w) == MailRead(w) /\ SignalRead(w) /\ MatchRead(w) /\ SentRead(w)
ItemInv ==
  Counted /\ Listed /\ Marked /\ OneCasePerSuggestion /\ PreparedIsCarried /\ WithinLimit
IInv ==
  /\ Typed /\ ItemInv
  /\ \A c \in Calls : CallInv(c)
  /\ \A w \in Workers : WorkInv(w)

----------------------------------------------------------------------------
LEMMA RoutineIdsFinite == IsFiniteSet(RoutineIds) /\ <<1, 1>> \in RoutineIds
<1> DEFINE n == MaxDecisions + 1
<1>1. n \in Nat BY SuggestionAssumption
<1>2. IsFiniteSet(1 .. n) BY <1>1, FS_Interval
<1>3. IsFiniteSet((1 .. n) \X (1 .. n)) BY <1>2, FS_Product
<1>4. RoutineIds \subseteq (1 .. n) \X (1 .. n) BY DEF RoutineIds
<1>5. <<1, 1>> \in (1 .. n) \X (1 .. n) /\ 1 + 1 <= MaxDecisions + 2
  BY <1>1, SuggestionAssumption
<1>6. <<1, 1>> \in RoutineIds BY <1>5 DEF RoutineIds
<1> QED BY <1>3, <1>4, <1>6, FS_Subset

LEMMA PresentIs == MailTyped /\ Counted => Present \in RoutineIds
<1> SUFFICES ASSUME MailTyped, Counted PROVE Present \in RoutineIds
  OBVIOUS
<1>1. /\ mail.profile \in Nat /\ mail.epoch \in Nat /\ decisions \in Nat
      /\ MaxDecisions \in Nat
  BY SuggestionAssumption DEF MailTyped, Mails
<1>2. mail.profile \in 1 .. MaxDecisions + 1 /\ mail.epoch \in 1 .. MaxDecisions + 1
      /\ mail.profile + mail.epoch <= MaxDecisions + 2
  BY <1>1 DEF Counted
<1> QED BY <1>2 DEF Present, RoutineIds

LEMMA NoneTyped ==
  /\ NoSuggestion \in SuggestionRecords /\ NoRule \in Rules /\ NoCase \in CaseRecords
  /\ NoRoutine \in RoutineRecords /\ NoCall \in CallRecords /\ NoWork \in WorkRecords
<1>1. NoSuggestion \in SuggestionRecords /\ NoRule \in Rules /\ NoCase \in CaseRecords
      /\ NoRoutine \in RoutineRecords
  BY DEF NoSuggestion, SuggestionRecords, NoRule, Rules, NoCase, CaseRecords, NoRoutine,
         RoutineRecords
<1>2. NoCall \in CallRecords
  BY DEF NoCall, CallRecords, Versions
<1>3. NoWork \in WorkRecords
  BY <1>1 DEF NoWork, WorkRecords
<1> QED BY <1>1, <1>2, <1>3

\* The invariant holds when nothing was found.
LEMMA InitEstablishes == Init => IInv
<1> SUFFICES ASSUME Init PROVE IInv
  OBVIOUS
<1> USE DEF Init, SuggestionInit
<1>1. MailTyped BY DEF MailTyped, Mails
<1>2. ItemsTyped BY NoneTyped DEF ItemsTyped
<1>3. RoutinesTyped
  <2>1. [NoRoutine EXCEPT !.status = "PROPOSED"] \in RoutineRecords
    BY DEF NoRoutine, RoutineRecords
  <2> QED BY <2>1, NoneTyped DEF RoutinesTyped
<1>4. CallsTyped BY NoneTyped DEF CallsTyped
<1>5. WorkTyped BY NoneTyped DEF WorkTyped
<1>6. Counted BY SuggestionAssumption DEF Counted
<1>7. Listed BY SuggestionAssumption DEF Listed, Visible, NoSuggestion
<1>8. Marked BY DEF Marked, NoCase
<1>9. OneCasePerSuggestion BY DEF OneCasePerSuggestion, NoCase
<1>10. PreparedIsCarried BY SuggestionAssumption DEF PreparedIsCarried, NoCase
<1>11. WithinLimit
  <2>1. Known \subseteq {<<1, 1>>} BY DEF Known, NoRoutine
  <2>2. IsFiniteSet({<<1, 1>>}) /\ Cardinality({<<1, 1>>}) = 1 BY FS_Singleton
  <2>3. Cardinality(Known) <= 1 BY <2>1, <2>2, FS_Subset
  <2>4. Cardinality(Known) \in Nat BY <2>1, <2>2, FS_Subset, FS_CardinalityType
  <2> QED BY <2>3, <2>4, RoutineAssumption DEF WithinLimit
<1>12. \A c \in Calls : CallInv(c) BY DEF CallInv
<1>13. \A w \in Workers : WorkInv(w) BY DEF WorkInv, MailRead, SignalRead, MatchRead, SentRead
<1> QED
  BY <1>1, <1>2, <1>3, <1>4, <1>5, <1>6, <1>7, <1>8, <1>9, <1>10, <1>11, <1>12, <1>13
  DEF IInv, Typed, ItemInv

----------------------------------------------------------------------------
(***************************************************************************)
(* What has been read stays true of the items, whatever moves them.        *)
(***************************************************************************)
MailMoves ==
  /\ scans' >= scans /\ mail'.profile >= mail.profile
  /\ mail'.profile = mail.profile => mail'.configured = mail.configured
  /\ \/ mail'.scan = mail.scan /\ mail'.of = mail.of
     \/ mail'.scan = 0
     \/ mail'.scan > scans
SuggestionMoves ==
  \A s \in Ids : suggestion'[s] = suggestion[s] \/ suggestion'[s].version > suggestion[s].version
CasesMove ==
  /\ \A s \in Ids : cases[s].status # None =>
       /\ cases'[s].status # None
       /\ cases'[s].status = "PREPARING" => cases[s].status = "PREPARING"
  /\ \A s \in Ids : s \in messages /\ s \notin messages' => cases'[s].status # "PREPARING"
Evolves == MailMoves /\ SuggestionMoves /\ CasesMove

LEMMA Stable ==
  ASSUME IInv, Typed', Evolves, NEW w \in Workers, at'[w] = at[w], work'[w] = work[w]
  PROVE  WorkInv(w)'
<1>1. WorkInv(w) BY DEF IInv
<1>2. MailRead(w)'
  <2>1. /\ scans \in Nat /\ scans' \in Nat /\ mail \in Mails /\ mail' \in Mails
    BY DEF IInv, Typed, MailTyped
  <2> SUFFICES ASSUME at[w] \in {"storing", "creating"}
               PROVE  LET read == work[w].mail
                      IN /\ read \in Mails /\ read.scan # 0 /\ read.scan <= scans'
                         /\ read.profile <= mail'.profile
                         /\ read.profile = mail'.profile => read.configured = mail'.configured
                         /\ read.scan = mail'.scan => read.of = mail'.of
    BY DEF MailRead
  <2> DEFINE read == work[w].mail
  <2>2. /\ read \in Mails /\ read.scan # 0 /\ read.scan <= scans
        /\ read.profile <= mail.profile
        /\ read.profile = mail.profile => read.configured = mail.configured
        /\ read.scan = mail.scan => read.of = mail.of
    BY <1>1 DEF WorkInv, MailRead
  <2>3. /\ read.scan \in Nat /\ read.profile \in Nat /\ mail.profile \in Nat
        /\ mail'.profile \in Nat /\ mail.scan \in Nat /\ mail'.scan \in Nat
    BY <2>1, <2>2 DEF Mails
  <2> QED BY <2>1, <2>2, <2>3 DEF Evolves, MailMoves
<1>3. SignalRead(w)'
  <2> SUFFICES ASSUME at[w] = "storing" PROVE SignalRead(w)'
    BY DEF SignalRead
  <2> DEFINE s == work[w].id
             read == work[w].suggestion
  <2>1. /\ s \in Ids /\ read.status \in {None, "VISIBLE"} /\ work[w].group \in Groups
        /\ read.version <= suggestion[s].version
        /\ read.version = suggestion[s].version => read = suggestion[s]
        /\ read.status = "VISIBLE" /\ work[w].rule = None => work[w].group = read.group
        /\ read.status = "VISIBLE" /\ work[w].rule # None =>
             (work[w].rule.active /\ work[w].rule.source # s => work[w].group = read.group)
    BY <1>1 DEF WorkInv, SignalRead
  <2>2. read \in SuggestionRecords /\ suggestion[s] \in SuggestionRecords
        /\ suggestion'[s] \in SuggestionRecords
    BY <2>1 DEF IInv, Typed, ItemsTyped, WorkTyped, WorkRecords
  <2>3. /\ read.version \in Nat /\ suggestion[s].version \in Nat /\ suggestion'[s].version \in Nat
    BY <2>2 DEF SuggestionRecords
  <2>4. read.version <= suggestion'[s].version
        /\ (read.version = suggestion'[s].version => read = suggestion'[s])
    BY <2>1, <2>3 DEF Evolves, SuggestionMoves
  <2> QED BY <2>1, <2>4 DEF SignalRead
<1>4. MatchRead(w)' BY <1>1 DEF WorkInv, MatchRead
<1>5. SentRead(w)' BY <1>1 DEF WorkInv, SentRead, Evolves, CasesMove
<1> QED BY <1>2, <1>3, <1>4, <1>5 DEF WorkInv

\* A step that leaves the suggestions and Cases alone keeps what is said of them.
LEMMA ItemsKept ==
  ASSUME IInv, scans' \in Nat, scans' >= scans, UNCHANGED <<suggestion, cases, messages, markers>>
  PROVE  /\ Listed' /\ Marked' /\ OneCasePerSuggestion' /\ PreparedIsCarried'
         /\ SuggestionMoves /\ CasesMove
<1>1. \A s \in Ids : suggestion[s].scan \in Nat /\ suggestion[s].scan <= scans
  BY DEF IInv, Typed, ItemsTyped, SuggestionRecords, ItemInv, Listed
<1>2. scans \in Nat BY DEF IInv, Typed, MailTyped
<1>3. Listed' BY <1>1, <1>2 DEF IInv, ItemInv, Listed, Visible
<1>4. Marked' BY DEF IInv, ItemInv, Marked
<1>5. OneCasePerSuggestion' /\ PreparedIsCarried'
  BY DEF IInv, ItemInv, OneCasePerSuggestion, PreparedIsCarried
<1> QED BY <1>3, <1>4, <1>5 DEF SuggestionMoves, CasesMove

LEMMA Assembled ==
  ASSUME IInv, Typed', Evolves, ItemInv', \A c \in Calls : CallInv(c)',
         \A w \in Workers : WorkInv(w)' \/ (at'[w] = at[w] /\ work'[w] = work[w])
  PROVE  IInv'
  BY Stable DEF IInv

\* The mailbox does not change.
LEMMA MailKept ==
  ASSUME IInv, UNCHANGED contextVars
  PROVE  /\ MailTyped <=> mail \in Mails /\ scans \in Nat /\ decisions \in Nat
         /\ MailMoves /\ scans' \in Nat /\ scans' >= scans
  BY DEF IInv, Typed, MailTyped, Mails, contextVars, MailMoves

LEMMA DecidesMore ==
  ASSUME IInv, Decides
  PROVE  decisions \in Nat /\ decisions' = decisions + 1 /\ decisions' <= MaxDecisions
  BY SuggestionAssumption DEF Decides, IInv, Typed, MailTyped

(***************************************************************************)
(* The interests, the scan and the connection.                             *)
(***************************************************************************)
LEMMA MailStep ==
  ASSUME IInv, mail' \in Mails, scans' \in Nat, Decides, MailMoves,
         mail'.profile + mail'.epoch <= mail.profile + mail.epoch + 1,
         mail'.profile >= 1, mail'.epoch >= 1, mail'.scan <= scans',
         UNCHANGED <<suggestion, suppression, cases, messages, callVars, workVars, routineVars>>
  PROVE  IInv'
<1>1. /\ decisions \in Nat /\ decisions' = decisions + 1 /\ decisions' <= MaxDecisions
  BY DecidesMore
<1>2. Typed'
  BY <1>1
  DEF IInv, Typed, MailTyped, ItemsTyped, RoutinesTyped, CallsTyped, WorkTyped, callVars, workVars,
      routineVars
<1>3. Counted'
  <2>1. mail.profile + mail.epoch <= decisions + 2 BY DEF IInv, ItemInv, Counted
  <2>2. /\ mail.profile \in Nat /\ mail.epoch \in Nat /\ mail'.profile \in Nat /\ mail'.epoch \in Nat
    BY DEF IInv, Typed, MailTyped, Mails
  <2> QED BY <1>1, <2>1, <2>2 DEF Counted
<1>4. scans' >= scans BY DEF MailMoves
<1>5. /\ Listed' /\ Marked' /\ OneCasePerSuggestion' /\ PreparedIsCarried'
      /\ SuggestionMoves /\ CasesMove
  BY <1>4, ItemsKept DEF routineVars
<1>6. WithinLimit' BY DEF IInv, ItemInv, WithinLimit, Known, routineVars
<1>7. \A c \in Calls : CallInv(c)' BY DEF IInv, CallInv, callVars
<1>8. ItemInv' BY <1>3, <1>5, <1>6 DEF ItemInv
<1>9. \A w \in Workers : at'[w] = at[w] /\ work'[w] = work[w] BY DEF workVars
<1> QED BY <1>2, <1>5, <1>7, <1>8, <1>9, Assembled DEF Evolves

LEMMA ContextKeeps ==
  ASSUME IInv, EditProfile \/ RequestScan \/ Disconnect \/ Connect, UNCHANGED routineVars
  PROVE  IInv'
<1>1. /\ mail \in Mails /\ scans \in Nat /\ mail.profile \in Nat /\ mail.epoch \in Nat
      /\ mail.scan \in Nat /\ mail.scan <= scans /\ mail.profile >= 1 /\ mail.epoch >= 1
  BY DEF IInv, Typed, MailTyped, Mails, ItemInv, Counted
<1>6. mail.on \in BOOLEAN /\ mail.configured \in BOOLEAN /\ mail.of \in Nat
  BY <1>1 DEF Mails
<1>7. ASSUME NEW on \in BOOLEAN, NEW epoch \in Nat, NEW version \in Nat,
             NEW configured \in BOOLEAN, NEW of \in Nat, NEW id \in Nat
      PROVE  [on |-> on, epoch |-> epoch, profile |-> version, configured |-> configured,
              of |-> of, scan |-> id] \in Mails
  BY DEF Mails
<1>2. CASE EditProfile
  <2>7. PICK interests \in BOOLEAN :
        /\ scans' = IF interests /\ mail.on THEN scans + 1 ELSE scans
        /\ mail' = [mail EXCEPT !.profile = @ + 1, !.configured = interests, !.of = mail.epoch,
                                !.scan = IF interests /\ mail.on THEN scans + 1 ELSE 0]
    BY <1>2 DEF EditProfile
  <2>4. mail' = [on |-> mail.on, epoch |-> mail.epoch, profile |-> mail.profile + 1,
                 configured |-> interests, of |-> mail.epoch,
                 scan |-> IF interests /\ mail.on THEN scans + 1 ELSE 0]
    BY <1>1, <2>7 DEF Mails
  <2>5. scans' \in Nat /\ (IF interests /\ mail.on THEN scans + 1 ELSE 0) \in Nat BY <1>1, <2>7
  <2>1. mail' \in Mails /\ scans' \in Nat
    <3>1. mail.profile + 1 \in Nat BY <1>1
    <3> QED BY <1>1, <1>6, <1>7, <2>4, <2>5, <3>1
  <2>2. /\ mail'.profile = mail.profile + 1 /\ mail'.epoch = mail.epoch
        /\ mail'.scan = IF interests /\ mail.on THEN scans + 1 ELSE 0
    BY <2>4
  <2>8. scans' = IF interests /\ mail.on THEN scans + 1 ELSE scans BY <2>7
  <2>3. MailMoves BY <1>1, <2>2, <2>8 DEF MailMoves
  <2>6. /\ mail'.profile + mail'.epoch <= mail.profile + mail.epoch + 1
        /\ mail'.profile >= 1 /\ mail'.epoch >= 1 /\ mail'.scan <= scans'
    BY <1>1, <2>2, <2>8
  <2> QED BY <1>2, <2>1, <2>3, <2>6, MailStep DEF EditProfile
<1>3. CASE RequestScan
  <2>1. scans' = scans + 1 /\ mail' = [mail EXCEPT !.scan = scans + 1, !.of = mail.epoch]
    BY <1>3 DEF RequestScan
  <2>5. mail' = [on |-> mail.on, epoch |-> mail.epoch, profile |-> mail.profile,
                 configured |-> mail.configured, of |-> mail.epoch, scan |-> scans + 1]
    BY <1>1, <2>1 DEF Mails
  <2>2. mail' \in Mails /\ scans' \in Nat BY <1>1, <2>1, <2>5 DEF Mails
  <2>3. /\ mail'.profile = mail.profile /\ mail'.epoch = mail.epoch /\ mail'.scan = scans + 1
        /\ mail'.configured = mail.configured
    BY <1>1, <2>1 DEF Mails
  <2>4. MailMoves BY <1>1, <2>1, <2>3 DEF MailMoves
  <2> QED BY <1>1, <1>3, <2>1, <2>2, <2>3, <2>4, MailStep DEF RequestScan
<1>4. CASE Disconnect
  <2>1. scans' = scans /\ mail' = [mail EXCEPT !.on = FALSE]
    BY <1>4 DEF Disconnect
  <2>2. mail' \in Mails /\ scans' \in Nat BY <1>1, <2>1 DEF Mails
  <2>3. /\ mail'.profile = mail.profile /\ mail'.epoch = mail.epoch /\ mail'.scan = mail.scan
        /\ mail'.configured = mail.configured /\ mail'.of = mail.of
    BY <1>1, <2>1 DEF Mails
  <2>4. MailMoves BY <1>1, <2>1, <2>3 DEF MailMoves
  <2> QED BY <1>1, <1>4, <2>1, <2>2, <2>3, <2>4, MailStep DEF Disconnect
<1>5. CASE Connect
  <2>1. scans' = scans /\ mail' = [mail EXCEPT !.on = TRUE, !.epoch = @ + 1]
    BY <1>5 DEF Connect
  <2>5. mail' = [on |-> TRUE, epoch |-> mail.epoch + 1, profile |-> mail.profile,
                 configured |-> mail.configured, of |-> mail.of, scan |-> mail.scan]
    BY <1>1, <2>1 DEF Mails
  <2>6. mail.epoch + 1 \in Nat /\ scans' = scans BY <1>1, <2>1
  <2>2. mail' \in Mails /\ scans' \in Nat BY <1>1, <1>6, <1>7, <2>5, <2>6
  <2>3. /\ mail'.profile = mail.profile /\ mail'.epoch = mail.epoch + 1 /\ mail'.scan = mail.scan
        /\ mail'.configured = mail.configured /\ mail'.of = mail.of
    BY <1>1, <2>1 DEF Mails
  <2>4. MailMoves BY <1>1, <2>1, <2>3 DEF MailMoves
  <2> QED BY <1>1, <1>5, <2>1, <2>2, <2>3, <2>4, MailStep DEF Connect
<1> QED BY <1>2, <1>3, <1>4, <1>5

(***************************************************************************)
(* The routines of the API.                                                *)
(***************************************************************************)
LEMMA KnownFinite == IsFiniteSet(Known) /\ Cardinality(Known) \in Nat
  BY RoutineIdsFinite, FS_Subset, FS_CardinalityType DEF Known

LEMMA RoutineStep ==
  ASSUME IInv, Decides, source' \in BOOLEAN, routine' \in [RoutineIds -> RoutineRecords],
         WithinLimit', UNCHANGED markers,
         UNCHANGED <<contextVars, suggestion, suppression, cases, messages, callVars, workVars>>
  PROVE  IInv'
<1>1. /\ decisions \in Nat /\ decisions' = decisions + 1 /\ decisions' <= MaxDecisions
  BY DecidesMore
<1>2. Typed'
  BY <1>1
  DEF IInv, Typed, MailTyped, ItemsTyped, RoutinesTyped, CallsTyped, WorkTyped, callVars, workVars,
      contextVars
<1>3. Counted'
  <2>1. /\ mail.profile >= 1 /\ mail.epoch >= 1 /\ mail.profile + mail.epoch <= decisions + 2
        /\ mail.scan <= scans
    BY DEF IInv, ItemInv, Counted
  <2>2. mail.profile \in Nat /\ mail.epoch \in Nat BY DEF IInv, Typed, MailTyped, Mails
  <2> QED BY <1>1, <2>1, <2>2 DEF Counted, contextVars
<1>4. MailMoves /\ scans' \in Nat /\ scans' >= scans BY MailKept
<1>5. /\ Listed' /\ Marked' /\ OneCasePerSuggestion' /\ PreparedIsCarried'
      /\ SuggestionMoves /\ CasesMove
  BY <1>4, ItemsKept
<1>7. \A c \in Calls : CallInv(c)' BY DEF IInv, CallInv, callVars
<1>8. ItemInv' BY <1>3, <1>5 DEF ItemInv
<1>9. \A w \in Workers : at'[w] = at[w] /\ work'[w] = work[w] BY DEF workVars
<1> QED BY <1>2, <1>4, <1>5, <1>7, <1>8, <1>9, Assembled DEF Evolves

LEMMA RoutinesKeep ==
  ASSUME IInv, SourceMoves \/ Propose \/ Activate \/ \E r \in RoutineIds : Pause(r)
  PROVE  IInv'
<1>1. /\ routine \in [RoutineIds -> RoutineRecords] /\ source \in BOOLEAN /\ WithinLimit
      /\ Present \in RoutineIds
  BY PresentIs DEF IInv, Typed, RoutinesTyped, ItemInv
<1>2. CASE SourceMoves
  BY <1>1, <1>2, RoutineStep DEF SourceMoves, WithinLimit, Known
<1>3. CASE Propose
  <2>1. routine' = [routine EXCEPT ![Present].status = "PROPOSED"]
    BY <1>3 DEF Propose
  <2>2. [routine[Present] EXCEPT !.status = "PROPOSED"] \in RoutineRecords
    BY <1>1 DEF RoutineRecords
  <2>3. routine' \in [RoutineIds -> RoutineRecords] BY <1>1, <2>1, <2>2
  <2>4. Known' \subseteq Known \cup {Present} BY <1>1, <2>1 DEF Known
  <2>5. IsFiniteSet(Known \cup {Present}) /\ Cardinality(Known \cup {Present}) <= Cardinality(Known) + 1
    BY KnownFinite, FS_AddElement
  <2>6. Cardinality(Known) < MaxRoutines BY <1>3 DEF Propose, Room, Known
  <2>7. /\ Cardinality(Known') <= Cardinality(Known \cup {Present})
        /\ Cardinality(Known') \in Nat /\ Cardinality(Known \cup {Present}) \in Nat
    BY <2>4, <2>5, FS_Subset, FS_CardinalityType
  <2>8. WithinLimit'
    BY <2>5, <2>6, <2>7, KnownFinite, RoutineAssumption DEF WithinLimit
  <2> QED BY <1>1, <1>3, <2>3, <2>8, RoutineStep DEF Propose
<1>4. CASE Activate
  <2> PICK before \in SUBSET Ids :
        routine' = [routine EXCEPT ![Present] = [status |-> "ACTIVE", before |-> before]]
    BY <1>4 DEF Activate
  <2>1. routine[Present].status # None
    BY <1>4, RoutineAssumption DEF Activate
  <2>2. [status |-> "ACTIVE", before |-> before] \in RoutineRecords BY DEF RoutineRecords
  <2>3. routine' \in [RoutineIds -> RoutineRecords] BY <1>1, <2>2
  <2>4. Known' = Known BY <1>1, <2>1, RoutineAssumption DEF Known
  <2> QED BY <1>1, <1>4, <2>3, <2>4, RoutineStep DEF Activate, WithinLimit
<1>5. ASSUME NEW r \in RoutineIds, Pause(r) PROVE IInv'
  <2>1. /\ routine' = [routine EXCEPT ![r].status = "PAUSED"] /\ routine[r].status # None
    BY <1>5, RoutineAssumption DEF Pause
  <2>2. [routine[r] EXCEPT !.status = "PAUSED"] \in RoutineRecords
    BY <1>1, <1>5 DEF RoutineRecords
  <2>3. routine' \in [RoutineIds -> RoutineRecords] BY <1>1, <2>1, <2>2
  <2>4. \A q \in RoutineIds : routine'[q].status # None <=> routine[q].status # None
    BY <1>1, <2>1, RoutineAssumption DEF RoutineRecords
  <2>5. Known' = Known BY <2>4 DEF Known
  <2> QED BY <1>1, <1>5, <2>3, <2>5, RoutineStep DEF Pause, WithinLimit
<1> QED BY <1>2, <1>3, <1>4, <1>5

(***************************************************************************)
(* The user's feedback and conversions, and the worker that plans.         *)
(***************************************************************************)
LEMMA CountedKept ==
  ASSUME IInv, UNCHANGED contextVars, Decides \/ UNCHANGED decisions
  PROVE  MailTyped' /\ Counted' /\ MailMoves /\ scans' \in Nat /\ scans' >= scans
<1>1. /\ mail \in Mails /\ scans \in Nat /\ decisions \in Nat /\ mail' = mail /\ scans' = scans
      /\ mail.profile \in Nat /\ mail.epoch \in Nat
  BY DEF IInv, Typed, MailTyped, Mails, contextVars
<1>2. /\ mail.profile >= 1 /\ mail.epoch >= 1 /\ mail.profile + mail.epoch <= decisions + 2
      /\ decisions <= MaxDecisions /\ mail.scan <= scans
  BY DEF IInv, ItemInv, Counted
<1>3. decisions' \in {decisions, decisions + 1} /\ decisions' <= MaxDecisions
  BY <1>1, <1>2, DecidesMore
<1>4. MailTyped' BY <1>1, <1>3 DEF MailTyped
<1>5. Counted' BY <1>1, <1>2, <1>3 DEF Counted
<1> QED BY <1>1, <1>4, <1>5, MailKept

\* A call's step, or a decision of the user.
LEMMA ApiStep ==
  ASSUME IInv, UNCHANGED <<contextVars, workVars, routineVars>>, Decides \/ UNCHANGED decisions,
         ItemsTyped', CallsTyped', Listed', Marked', OneCasePerSuggestion', PreparedIsCarried',
         SuggestionMoves, CasesMove, \A c \in Calls : CallInv(c)'
  PROVE  IInv'
<1>1. MailTyped' /\ Counted' /\ MailMoves BY CountedKept
<1>2. RoutinesTyped' /\ WorkTyped' /\ WithinLimit'
  BY DEF IInv, Typed, RoutinesTyped, WorkTyped, ItemInv, WithinLimit, Known, routineVars, workVars
<1>3. Typed' /\ ItemInv' BY <1>1, <1>2 DEF Typed, ItemInv
<1>4. \A w \in Workers : at'[w] = at[w] /\ work'[w] = work[w] BY DEF workVars
<1> QED BY <1>1, <1>3, <1>4, Assembled DEF Evolves

\* The items do not change.
LEMMA CallOnly ==
  ASSUME IInv, UNCHANGED <<contextVars, workVars, routineVars>>, Decides \/ UNCHANGED decisions,
         UNCHANGED <<suggestion, cases, messages>>, suppression' \in [Groups -> Rules],
         CallsTyped', \A c \in Calls : CallInv(c)'
  PROVE  IInv'
<1>1. scans' \in Nat /\ scans' >= scans BY CountedKept
<1>2. /\ Listed' /\ Marked' /\ OneCasePerSuggestion' /\ PreparedIsCarried'
      /\ SuggestionMoves /\ CasesMove
  BY <1>1, ItemsKept DEF routineVars
<1>3. ItemsTyped' BY DEF IInv, Typed, ItemsTyped
<1> QED BY <1>2, <1>3, ApiStep

LEMMA DecidedShape ==
  ASSUME NEW rec \in SuggestionRecords, NEW status, NEW new,
         new = [rec EXCEPT !.status = status, !.version = @ + 1]
  PROVE  new = [status |-> status, version |-> rec.version + 1, group |-> rec.group,
                scan |-> rec.scan]
  BY DEF SuggestionRecords

LEMMA EndedShape ==
  ASSUME NEW rec \in Rules, NEW new, new = [rec EXCEPT !.active = FALSE, !.version = @ + 1]
  PROVE  new = [active |-> FALSE, source |-> rec.source, version |-> rec.version + 1]
  BY DEF Rules

LEMMA DecidedFacts ==
  ASSUME IInv, NEW s \in Ids, NEW status \in {"HIDDEN", "CONVERTED"}
  PROVE  /\ Decided(s, status) \in SuggestionRecords /\ Decided(s, status).status = status
         /\ Decided(s, status).version > suggestion[s].version
         /\ Decided(s, status).scan = suggestion[s].scan
<1>1. suggestion[s] \in SuggestionRecords BY DEF IInv, Typed, ItemsTyped
<1>2. Decided(s, status) = [status |-> status, version |-> suggestion[s].version + 1,
                            group |-> suggestion[s].group, scan |-> suggestion[s].scan]
  BY <1>1, DecidedShape DEF Decided
<1> QED BY <1>1, <1>2 DEF SuggestionRecords

\* Decisions on suggestions that are in the list keep it.
LEMMA ListedDecided ==
  ASSUME IInv, scans' = scans, NEW chosen \in SUBSET Ids, NEW status \in {"HIDDEN", "CONVERTED"},
         suggestion' = [s \in Ids |-> IF s \in chosen THEN Decided(s, status) ELSE suggestion[s]]
  PROVE  suggestion' \in [Ids -> SuggestionRecords] /\ Listed' /\ SuggestionMoves
<1>1. suggestion \in [Ids -> SuggestionRecords] /\ Listed
  BY DEF IInv, Typed, ItemsTyped, ItemInv
<1> QED BY <1>1, DecidedFacts DEF Listed, Visible, SuggestionMoves

LEMMA HideKeeps ==
  ASSUME IInv, NEW s \in Ids, HideOnce(s), UNCHANGED routineVars
  PROVE  IInv'
<1>1. suggestion' = [t \in Ids |-> IF t \in {s} THEN Decided(t, "HIDDEN") ELSE suggestion[t]]
  BY DEF HideOnce, IInv, Typed, ItemsTyped
<1>2. suggestion' \in [Ids -> SuggestionRecords] /\ Listed' /\ SuggestionMoves
  BY <1>1, ListedDecided DEF HideOnce, contextVars
<1>3. ItemsTyped' /\ CallsTyped'
  BY <1>2 DEF HideOnce, IInv, Typed, ItemsTyped, CallsTyped, callVars
<1>4. Marked' /\ PreparedIsCarried' /\ CasesMove
  BY DEF HideOnce, IInv, ItemInv, Marked, PreparedIsCarried, CasesMove, routineVars
<1>5. OneCasePerSuggestion'
  <2>1. \A k \in Keys \cup Ids : \A t \in cases[k].sources : t \in Ids /\ t # s
    BY DEF IInv, Typed, ItemsTyped, CaseRecords, ItemInv, OneCasePerSuggestion, HideOnce, Visible
  <2> QED BY <1>1, <2>1 DEF HideOnce, IInv, ItemInv, OneCasePerSuggestion
<1>6. \A c \in Calls : CallInv(c)' BY DEF HideOnce, IInv, CallInv, callVars
<1> QED BY <1>2, <1>3, <1>4, <1>5, <1>6, ApiStep DEF HideOnce

\* One call moves.
LEMMA CallMoves ==
  ASSUME IInv, NEW c \in Calls, NEW to \in {"idle", "reducing", "converting", "dispatching"},
         NEW k \in CallRecords, Goes(c, to), call' = [call EXCEPT ![c] = k],
         to = "reducing" => k.id \in Ids,
         to = "converting" => k.key \in Keys /\ DOMAIN k.versions \subseteq Ids,
         to = "dispatching" => k.key \in Keys
  PROVE  CallsTyped' /\ \A d \in Calls : CallInv(d)'
<1>1. CallsTyped BY DEF IInv, Typed
<1>2. CallsTyped' BY <1>1 DEF CallsTyped, Goes
<1>3. pc'[c] = to /\ call'[c] = k BY <1>1 DEF CallsTyped, Goes
<1>4. \A d \in Calls \ {c} : pc'[d] = pc[d] /\ call'[d] = call[d]
  BY <1>1 DEF CallsTyped, Goes
<1>5. CallInv(c)' BY <1>3 DEF CallInv
<1>6. \A d \in Calls \ {c} : CallInv(d)' BY <1>4 DEF IInv, CallInv
<1> QED BY <1>2, <1>5, <1>6

LEMMA ReducingKeeps ==
  ASSUME IInv, NEW c \in Calls, Reduce(c) \/ \E s \in Ids : BeginReduce(c, s), UNCHANGED routineVars
  PROVE  IInv'
<1>1. suppression \in [Groups -> Rules] BY DEF IInv, Typed, ItemsTyped
<1>2. ASSUME NEW s \in Ids, BeginReduce(c, s) PROVE IInv'
  <2> DEFINE k == [id |-> s, group |-> suggestion[s].group, key |-> None, versions |-> <<>>,
                   mail |-> None]
  <2>1. k \in CallRecords
    <3>1. suggestion[s].group \in Groups \cup {None}
      BY DEF IInv, Typed, ItemsTyped, SuggestionRecords
    <3> QED BY <3>1 DEF CallRecords, Versions
  <2>5. PICK new : /\ new = [NoCall EXCEPT !.id = s, !.group = suggestion[s].group]
                   /\ call' = [call EXCEPT ![c] = new]
    BY <1>2 DEF BeginReduce
  <2>6. new = k BY <2>5 DEF NoCall
  <2>2. call' = [call EXCEPT ![c] = k] BY <2>5, <2>6
  <2>3. k.id \in Ids OBVIOUS
  <2> HIDE DEF k
  <2>4. CallsTyped' /\ \A d \in Calls : CallInv(d)'
    BY <1>2, <2>1, <2>2, <2>3, CallMoves DEF BeginReduce
  <2> QED BY <1>1, <1>2, <2>4, CallOnly DEF BeginReduce
<1>3. CASE Reduce(c)
  <2>1. CallsTyped' /\ \A d \in Calls : CallInv(d)'
    BY <1>3, NoneTyped, CallMoves DEF Reduce, Returns
  <2>2. call[c].id \in Ids BY <1>3 DEF Reduce, IInv, CallInv
  <2> DEFINE g == call[c].group
             rule == [active |-> TRUE, source |-> call[c].id, version |-> suppression[g].version + 1]
  <2>3. g \in Groups => rule \in Rules BY <1>1, <2>2 DEF Rules
  <2>4. suppression' = [suppression EXCEPT ![g] = rule] BY <1>3 DEF Reduce
  <2>5. suppression' \in [Groups -> Rules] BY <1>1, <2>3, <2>4
  <2> QED BY <1>3, <2>1, <2>5, CallOnly DEF Reduce, contextVars
<1> QED BY <1>2, <1>3

LEMMA UndoKeeps ==
  ASSUME IInv, NEW g \in Groups, Undo(g), UNCHANGED routineVars
  PROVE  IInv'
<1>1. suppression \in [Groups -> Rules] BY DEF IInv, Typed, ItemsTyped
<1> DEFINE rule == [active |-> FALSE, source |-> suppression[g].source,
                    version |-> suppression[g].version + 1]
<1>2. suppression' = [suppression EXCEPT ![g] = rule]
  <2>1. suppression[g] \in Rules BY <1>1
  <2>2. [suppression[g] EXCEPT !.active = FALSE, !.version = @ + 1] = rule
    BY <2>1, EndedShape
  <2>3. suppression' = [suppression EXCEPT ![g] =
                          [suppression[g] EXCEPT !.active = FALSE, !.version = @ + 1]]
    BY <1>1 DEF Undo
  <2> QED BY <2>2, <2>3
<1>3. rule \in Rules BY <1>1 DEF Rules
<1>4. suppression' \in [Groups -> Rules] BY <1>1, <1>2, <1>3
<1>5. CallsTyped' /\ \A c \in Calls : CallInv(c)'
  BY DEF Undo, IInv, Typed, CallsTyped, CallInv, callVars
<1> QED BY <1>4, <1>5, CallOnly DEF Undo

LEMMA BeginConvertKeeps ==
  ASSUME IInv, NEW c \in Calls, NEW k \in Keys, NEW chosen \in SUBSET Ids,
         BeginConvert(c, k, chosen), UNCHANGED routineVars
  PROVE  IInv'
<1>1. suppression \in [Groups -> Rules] /\ call[c] \in CallRecords /\ mail \in Mails
      /\ suggestion \in [Ids -> SuggestionRecords] /\ call \in [Calls -> CallRecords]
  BY DEF IInv, Typed, ItemsTyped, CallsTyped, MailTyped
<1>2. CallsTyped' /\ \A d \in Calls : CallInv(d)'
  <2>1. CASE Goes(c, "dispatching") /\ call' = [call EXCEPT ![c].key = k]
    <3>1. [call[c] EXCEPT !.key = k] \in CallRecords /\ [call[c] EXCEPT !.key = k].key = k
      BY <1>1 DEF CallRecords
    <3>2. call' = [call EXCEPT ![c] = [call[c] EXCEPT !.key = k]] BY <1>1, <2>1
    <3> QED BY <2>1, <3>1, <3>2, CallMoves
  <2>2. CASE /\ Goes(c, "converting")
             /\ call' = [call EXCEPT ![c] = [NoCall EXCEPT
                  !.key = k, !.mail = mail, !.versions = [s \in chosen |-> suggestion[s].version]]]
    <3> DEFINE versions == [s \in chosen |-> suggestion[s].version]
               l == [id |-> None, group |-> None, key |-> k, versions |-> versions, mail |-> mail]
    <3>1. \A s \in chosen : suggestion[s].version \in Nat BY <1>1 DEF SuggestionRecords
    <3>2. versions \in [chosen -> Nat] BY <3>1
    <3>3. versions \in Versions /\ DOMAIN versions \subseteq Ids BY <3>2 DEF Versions
    <3>4. PICK new : /\ new = [NoCall EXCEPT !.key = k, !.mail = mail, !.versions = versions]
                     /\ call' = [call EXCEPT ![c] = new]
      BY <2>2
    <3> HIDE DEF versions
    <3>5. new = l BY <3>4 DEF NoCall
    <3>6. l \in CallRecords /\ l.key = k /\ l.versions = versions BY <1>1, <3>3 DEF CallRecords
    <3> HIDE DEF l
    <3> QED BY <2>2, <3>3, <3>4, <3>5, <3>6, CallMoves
  <2> QED BY <2>1, <2>2 DEF BeginConvert
<1> QED BY <1>1, <1>2, CallOnly DEF BeginConvert

\* The Case of a conversion takes its suggestions out of the list.
LEMMA ConvertKeeps ==
  ASSUME IInv, NEW c \in Calls, Convert(c), UNCHANGED routineVars
  PROVE  IInv'
<1> DEFINE k == call[c].key
           chosen == DOMAIN call[c].versions
           l == [id |-> None, group |-> None, key |-> k, versions |-> <<>>, mail |-> None]
<1>1. k \in Keys /\ chosen \in SUBSET Ids BY DEF Convert, IInv, CallInv
<1>2. /\ cases \in [Keys \cup Ids -> CaseRecords] /\ suppression \in [Groups -> Rules]
      /\ messages \subseteq Keys \cup Ids /\ call \in [Calls -> CallRecords]
  BY DEF IInv, Typed, ItemsTyped, CallsTyped
<1>3. ASSUME Goes(c, "dispatching"), call' = [call EXCEPT ![c] = [NoCall EXCEPT !.key = k]]
      PROVE  CallsTyped' /\ \A d \in Calls : CallInv(d)'
  <2>1. [NoCall EXCEPT !.key = k] = l BY DEF NoCall
  <2>2. l \in CallRecords /\ l.key = k BY <1>1 DEF CallRecords, Versions
  <2> QED BY <1>1, <1>3, <2>1, <2>2, CallMoves
<1>4. CASE /\ cases[k].status # None /\ Goes(c, "dispatching")
           /\ call' = [call EXCEPT ![c] = [NoCall EXCEPT !.key = k]] /\ UNCHANGED <<suggestion, cases>>
  BY <1>2, <1>3, <1>4, CallOnly DEF Convert
<1>5. CASE Returns(c) /\ UNCHANGED <<suggestion, cases>>
  <2>1. CallsTyped' /\ \A d \in Calls : CallInv(d)'
    BY <1>5, NoneTyped, CallMoves DEF Returns
  <2> QED BY <1>2, <1>5, <2>1, CallOnly DEF Convert
<1>6. CASE /\ cases[k].status = None /\ SameVersions(c)
           /\ cases' = [cases EXCEPT ![k] =
                [status |-> "PREPARING", sources |-> chosen, pending |-> FALSE]]
           /\ suggestion' = [s \in Ids |-> IF s \in chosen THEN Decided(s, "CONVERTED") ELSE suggestion[s]]
           /\ Goes(c, "dispatching") /\ call' = [call EXCEPT ![c] = [NoCall EXCEPT !.key = k]]
  <2>1. CallsTyped' /\ \A d \in Calls : CallInv(d)' BY <1>3, <1>6
  <2>2. suggestion' \in [Ids -> SuggestionRecords] /\ Listed' /\ SuggestionMoves
    BY <1>1, <1>6, ListedDecided DEF Convert, contextVars
  <2>3. [status |-> "PREPARING", sources |-> chosen, pending |-> FALSE] \in CaseRecords
    BY <1>1 DEF CaseRecords
  <2>4. ItemsTyped' BY <1>1, <1>2, <1>6, <2>2, <2>3 DEF Convert, ItemsTyped
  <2>5. /\ cases'[k] = [status |-> "PREPARING", sources |-> chosen, pending |-> FALSE]
        /\ \A j \in Keys \cup Ids : j # k => cases'[j] = cases[j]
    BY <1>1, <1>2, <1>6
  <2>6. \A s \in Ids : cases'[s] = cases[s] BY <1>1, <2>5, SuggestionAssumption
  <2>7. Marked'
    BY <1>2, <2>5, <2>6, SuggestionAssumption DEF Convert, IInv, ItemInv, Marked, routineVars
  <2>8. PreparedIsCarried' /\ CasesMove
    BY <2>6 DEF Convert, IInv, ItemInv, PreparedIsCarried, CasesMove, routineVars
  <2>9. OneCasePerSuggestion'
    <3>1. \A s \in chosen : suggestion[s].status = "VISIBLE" BY <1>6 DEF SameVersions, Visible
    <3>2. \A j \in Keys \cup Ids : \A s \in cases[j].sources : s \in Ids /\ s \notin chosen
      BY <1>2, <3>1 DEF CaseRecords, IInv, ItemInv, OneCasePerSuggestion
    <3>3. \A s \in chosen : suggestion'[s].status = "CONVERTED"
      BY <1>1, <1>6, DecidedFacts
    <3>4. \A s \in Ids : s \notin chosen => suggestion'[s] = suggestion[s] BY <1>6
    <3> QED BY <2>5, <3>2, <3>3, <3>4 DEF IInv, ItemInv, OneCasePerSuggestion
  <2> QED BY <2>1, <2>2, <2>4, <2>7, <2>8, <2>9, ApiStep DEF Convert
<1> QED BY <1>4, <1>5, <1>6 DEF Convert

LEMMA DispatchKeeps ==
  ASSUME IInv, NEW c \in Calls, Dispatch(c), UNCHANGED routineVars
  PROVE  IInv'
<1>1. CallsTyped' /\ \A d \in Calls : CallInv(d)'
  BY NoneTyped, CallMoves DEF Dispatch, Returns
<1>2. suppression \in [Groups -> Rules] /\ messages \subseteq Keys \cup Ids
  BY DEF IInv, Typed, ItemsTyped
<1>3. CASE UNCHANGED messages BY <1>1, <1>2, <1>3, CallOnly DEF Dispatch
<1>4. CASE cases[call[c].key].status = "PREPARING" /\ messages' = messages \cup {call[c].key}
  <2>1. call[c].key \in Keys BY DEF Dispatch, IInv, CallInv
  <2>2. ItemsTyped' BY <1>2, <1>4, <2>1 DEF Dispatch, IInv, Typed, ItemsTyped
  <2>3. Listed' /\ SuggestionMoves
    BY DEF Dispatch, contextVars, IInv, ItemInv, Listed, Visible, SuggestionMoves
  <2>4. Marked' /\ OneCasePerSuggestion' /\ PreparedIsCarried' /\ CasesMove
    BY <1>4, SuggestionAssumption
    DEF Dispatch, IInv, ItemInv, Marked, OneCasePerSuggestion, PreparedIsCarried, CasesMove,
        routineVars
  <2> QED BY <1>1, <2>2, <2>3, <2>4, ApiStep DEF Dispatch
<1> QED BY <1>3, <1>4 DEF Dispatch

LEMMA PlanKeeps ==
  ASSUME IInv, NEW k \in Keys \cup Ids, Plan(k), UNCHANGED routineVars
  PROVE  IInv'
<1>1. cases \in [Keys \cup Ids -> CaseRecords] /\ messages \subseteq Keys \cup Ids
  BY DEF IInv, Typed, ItemsTyped
<1> DEFINE rec == [status |-> "PLANNED", sources |-> cases[k].sources, pending |-> cases[k].pending]
<1>2. [cases[k] EXCEPT !.status = "PLANNED"] = rec BY <1>1 DEF CaseRecords
<1>3. cases' = [cases EXCEPT ![k] = rec] BY <1>1, <1>2 DEF Plan
<1>4. rec \in CaseRecords BY <1>1 DEF CaseRecords
<1>5. /\ cases'[k] = rec /\ \A j \in Keys \cup Ids : j # k => cases'[j] = cases[j]
  BY <1>1, <1>3
<1>6. rec.status = "PLANNED" /\ rec.sources = cases[k].sources /\ rec.pending = cases[k].pending
  OBVIOUS
<1>7. ItemsTyped' BY <1>1, <1>3, <1>4 DEF Plan, IInv, Typed, ItemsTyped
<1> HIDE DEF rec
<1>8. CallsTyped' /\ \A c \in Calls : CallInv(c)'
  BY DEF Plan, IInv, Typed, CallsTyped, CallInv, callVars
<1>9. Listed' /\ SuggestionMoves
  BY DEF Plan, contextVars, IInv, ItemInv, Listed, Visible, SuggestionMoves
<1>10. \A j \in Keys \cup Ids : /\ cases'[j].sources = cases[j].sources
                               /\ cases'[j].pending = cases[j].pending
  BY <1>5, <1>6
<1>11. Marked'
  BY <1>1, <1>5, <1>6, <1>10, SuggestionAssumption DEF Plan, IInv, ItemInv, Marked, routineVars
<1>12. OneCasePerSuggestion' BY <1>10 DEF Plan, IInv, ItemInv, OneCasePerSuggestion
<1>13. PreparedIsCarried'
  BY <1>5, <1>6 DEF Plan, IInv, ItemInv, PreparedIsCarried, routineVars
<1>14. CasesMove
  BY <1>5, <1>6, SuggestionAssumption DEF Plan, CasesMove
<1> QED BY <1>7, <1>8, <1>9, <1>11, <1>12, <1>13, <1>14, ApiStep DEF Plan

(***************************************************************************)
(* The workers.                                                            *)
(***************************************************************************)
WorkStates == {"idle", "storing", "creating", "sending", "acknowledging"}

\* One worker moves.
LEMMA WorkerStep ==
  ASSUME IInv, NEW w \in Workers, NEW to \in WorkStates, NEW k \in WorkRecords,
         Moves(w, to), work' = [work EXCEPT ![w] = k],
         UNCHANGED <<contextVars, decisions, callVars, suppression, source, routine>>,
         markers' \subseteq Ids, ItemsTyped', Listed', Marked', OneCasePerSuggestion',
         PreparedIsCarried', SuggestionMoves, CasesMove,
         at'[w] = to /\ work'[w] = k => WorkInv(w)'
  PROVE  IInv'
<1>1. MailTyped' /\ Counted' /\ MailMoves BY CountedKept
<1>2. WorkTyped BY DEF IInv, Typed
<1>3. at'[w] = to /\ work'[w] = k BY <1>2 DEF WorkTyped, Moves
<1>4. \A v \in Workers \ {w} : at'[v] = at[v] /\ work'[v] = work[v]
  BY <1>2 DEF WorkTyped, Moves
<1>5. WorkTyped' BY <1>2 DEF WorkTyped, Moves, WorkStates
<1>6. RoutinesTyped' /\ CallsTyped' /\ WithinLimit'
  BY DEF IInv, Typed, RoutinesTyped, CallsTyped, ItemInv, WithinLimit, Known, callVars
<1>7. Typed' /\ ItemInv' BY <1>1, <1>5, <1>6 DEF Typed, ItemInv
<1>8. \A c \in Calls : CallInv(c)' BY DEF IInv, CallInv, callVars
<1> QED BY <1>1, <1>3, <1>4, <1>7, <1>8, Assembled DEF Evolves

\* The items do not change.
LEMMA WorkerOnly ==
  ASSUME IInv, NEW w \in Workers, NEW to \in WorkStates, NEW k \in WorkRecords,
         Moves(w, to), work' = [work EXCEPT ![w] = k],
         UNCHANGED <<contextVars, decisions, callVars, suppression, routineVars>>,
         UNCHANGED <<suggestion, cases, messages>>,
         at'[w] = to /\ work'[w] = k => WorkInv(w)'
  PROVE  IInv'
<1>1. scans' \in Nat /\ scans' >= scans BY CountedKept
<1>2. /\ Listed' /\ Marked' /\ OneCasePerSuggestion' /\ PreparedIsCarried'
      /\ SuggestionMoves /\ CasesMove
  BY <1>1, ItemsKept DEF routineVars
<1>3. ItemsTyped' /\ markers' \subseteq Ids
  BY DEF IInv, Typed, ItemsTyped, RoutinesTyped, routineVars
<1> QED BY <1>2, <1>3, WorkerStep DEF routineVars

LEMMA IdleInv == ASSUME NEW w, at'[w] = "idle" PROVE WorkInv(w)'
  BY DEF WorkInv, MailRead, SignalRead, MatchRead, SentRead

\* The work of a worker that sends the job of a Case.
LEMMA SendsFor ==
  ASSUME NEW s \in Ids
  PROVE  LET k == [NoWork EXCEPT !.id = s] IN k \in WorkRecords /\ k.id = s
<1>1. [NoWork EXCEPT !.id = s] =
        [id |-> s, suggestion |-> NoSuggestion, group |-> None, rule |-> None, mail |-> None,
         routine |-> None]
  BY DEF NoWork
<1> QED BY <1>1, NoneTyped DEF WorkRecords

LEMMA SendingInv ==
  ASSUME NEW w, at'[w] = "sending", work'[w].id \in Ids, cases'[work'[w].id].status # None
  PROVE  WorkInv(w)'
  BY DEF WorkInv, MailRead, SignalRead, MatchRead, SentRead

LEMMA RestKeeps ==
  ASSUME IInv, NEW w \in Workers, Rests(w),
         UNCHANGED <<contextVars, suggestion, suppression, cases, messages, decisions, callVars,
                     routineVars>>
  PROVE  IInv'
  BY NoneTyped, IdleInv, WorkerOnly DEF Rests, WorkStates

\* What is read of a suggestion is its state, and its rule when it changes groups.
LEMMA ReadSignalKeeps ==
  ASSUME IInv, NEW w \in Workers, NEW s \in Ids, NEW g \in Groups, NEW m \in Mails,
         m.scan # 0, m.scan <= scans, m.profile <= mail.profile,
         m.profile = mail.profile => m.configured = mail.configured,
         m.scan = mail.scan => m.of = mail.of,
         ReadSignal(w, s, g, m), UNCHANGED routineVars
  PROVE  IInv'
<1> DEFINE group == IF Visible(s) THEN GroupOf(s, g) ELSE g
           rule == IF Visible(s) /\ suggestion[s].group # g
                   THEN suppression[suggestion[s].group] ELSE None
           k == [id |-> s, suggestion |-> suggestion[s], group |-> group, rule |-> rule,
                 mail |-> m, routine |-> None]
<1>1. /\ suggestion[s] \in SuggestionRecords /\ suppression \in [Groups -> Rules]
      /\ Visible(s) => suggestion[s].group \in Groups
  BY DEF IInv, Typed, ItemsTyped, ItemInv, Listed
<1>2. None \notin Rules BY SuggestionAssumption DEF Rules
<1>3. group \in Groups BY <1>1 DEF GroupOf
<1>4. rule \in Rules \cup {None} BY <1>1
<1>5. Visible(s) /\ rule = None => group = suggestion[s].group
  BY <1>1, <1>2 DEF GroupOf
<1>6. Visible(s) /\ rule # None =>
        (rule.active /\ rule.source # s => group = suggestion[s].group)
  BY <1>1 DEF GroupOf, Suppressed
<1>7. suggestion[s].status \in {None, "VISIBLE"} /\ suggestion[s].version \in Nat
  BY <1>1 DEF ReadSignal, SuggestionRecords
<1>8. PICK new : /\ new = [NoWork EXCEPT !.id = s, !.mail = m, !.suggestion = suggestion[s],
                             !.group = group, !.rule = rule]
                 /\ work' = [work EXCEPT ![w] = new]
  BY DEF ReadSignal
<1>9. /\ Moves(w, "storing")
      /\ UNCHANGED <<contextVars, decisions, callVars, suppression, suggestion, cases, messages>>
  BY DEF ReadSignal
<1> HIDE DEF group, rule
<1>10. new = k BY <1>8 DEF NoWork
<1>11. /\ k \in WorkRecords /\ k.id = s /\ k.suggestion = suggestion[s] /\ k.group = group
       /\ k.rule = rule /\ k.mail = m
  BY <1>1, <1>3, <1>4 DEF WorkRecords
<1> HIDE DEF k
<1>12. ASSUME at'[w] = "storing", work'[w] = k PROVE WorkInv(w)'
  <2>1. mail' = mail /\ scans' = scans /\ suggestion' = suggestion BY <1>9 DEF contextVars
  <2>2. MailRead(w)' BY <1>11, <1>12, <2>1 DEF MailRead
  <2>3. SignalRead(w)'
    BY <1>3, <1>5, <1>6, <1>7, <1>11, <1>12, <2>1 DEF SignalRead, Visible
  <2>4. MatchRead(w)' /\ SentRead(w)' BY <1>12 DEF MatchRead, SentRead
  <2> QED BY <2>2, <2>3, <2>4 DEF WorkInv
<1>13. work' = [work EXCEPT ![w] = k] BY <1>8, <1>10
<1> QED BY <1>9, <1>11, <1>12, <1>13, WorkerOnly DEF WorkStates

LEMMA RefreshKeeps ==
  ASSUME IInv, NEW w \in Workers, NEW s \in Ids, NEW g \in Groups, Refresh(w, s, g),
         UNCHANGED routineVars
  PROVE  IInv'
<1>1. /\ mail \in Mails /\ mail.scan \in Nat /\ mail.profile \in Nat /\ mail.scan <= scans
  BY DEF IInv, Typed, MailTyped, Mails, ItemInv, Counted
<1>2. mail.scan # 0 /\ mail.profile <= mail.profile BY <1>1 DEF Refresh, Scanned
<1>3. ReadSignal(w, s, g, mail) BY DEF Refresh
<1> QED BY <1>1, <1>2, <1>3, ReadSignalKeeps

LEMMA StoreAgainKeeps ==
  ASSUME IInv, NEW w \in Workers, StoreAgain(w), UNCHANGED routineVars
  PROVE  IInv'
<1>1. MailRead(w) /\ SignalRead(w) /\ at[w] = "storing" BY DEF StoreAgain, IInv, WorkInv
<1>2. PICK g \in Groups : ReadSignal(w, work[w].id, g, work[w].mail) BY DEF StoreAgain
<1>3. work[w].id \in Ids BY <1>1 DEF SignalRead
<1> DEFINE m == work[w].mail
<1>4. /\ m \in Mails /\ m.scan # 0 /\ m.scan <= scans /\ m.profile <= mail.profile
      /\ m.profile = mail.profile => m.configured = mail.configured
      /\ m.scan = mail.scan => m.of = mail.of
  BY <1>1 DEF MailRead
<1> HIDE DEF m
<1>5. ReadSignal(w, work[w].id, g, m) BY <1>2 DEF m
<1> QED BY <1>3, <1>4, <1>5, ReadSignalKeeps

\* A page's write brings nothing back: it was open when it was read, and still is.
LEMMA StoreKeeps ==
  ASSUME IInv, NEW w \in Workers, Store(w), UNCHANGED routineVars
  PROVE  IInv'
<1> DEFINE s == work[w].id
           read == work[w].suggestion
           new == [status |-> IF suggestion[s].status = None THEN "VISIBLE" ELSE suggestion[s].status,
                   version |-> suggestion[s].version + 1, group |-> work[w].group,
                   scan |-> work[w].mail.scan]
<1>1. /\ s \in Ids /\ read.status \in {None, "VISIBLE"} /\ work[w].group \in Groups
      /\ work[w].mail \in Mails /\ work[w].mail.scan <= scans
  BY DEF Store, IInv, WorkInv, MailRead, SignalRead
<1>2. suggestion[s].status \in {None, "VISIBLE"}
  BY <1>1 DEF Store, Refreshable, SameSignal
<1>3. suggestion \in [Ids -> SuggestionRecords] BY DEF IInv, Typed, ItemsTyped
<1>4. suggestion' = [suggestion EXCEPT ![s] = new] BY <1>1, <1>3 DEF Store
<1>5. new \in SuggestionRecords /\ new.status = "VISIBLE" /\ new.group \in Groups
      /\ new.version > suggestion[s].version /\ new.scan <= scans
  BY <1>1, <1>2, <1>3, SuggestionAssumption DEF SuggestionRecords, Mails
<1> HIDE DEF new
<1>6. /\ suggestion' \in [Ids -> SuggestionRecords] /\ suggestion'[s] = new
      /\ \A t \in Ids : t # s => suggestion'[t] = suggestion[t]
  BY <1>1, <1>3, <1>4, <1>5
<1>7. UNCHANGED <<contextVars, suppression, cases, messages, decisions, callVars, markers, source,
                  routine>>
  BY DEF Store, routineVars
<1>8. ItemsTyped' /\ markers' \subseteq Ids
  BY <1>6, <1>7 DEF IInv, Typed, ItemsTyped, RoutinesTyped
<1>9. Listed' /\ SuggestionMoves
  <2>1. \A t \in Ids : suggestion[t].scan <= scans
                       /\ (suggestion[t].status = "VISIBLE" => suggestion[t].group \in Groups)
    BY DEF IInv, ItemInv, Listed, Visible
  <2> QED BY <1>5, <1>6, <1>7, <2>1 DEF Listed, Visible, SuggestionMoves, contextVars
<1>10. Marked' /\ PreparedIsCarried' /\ CasesMove
  BY <1>7 DEF IInv, ItemInv, Marked, PreparedIsCarried, CasesMove
<1>11. OneCasePerSuggestion'
  <2>1. \A k \in Keys \cup Ids : \A t \in cases[k].sources : t \in Ids /\ t # s
    BY <1>2, SuggestionAssumption
    DEF IInv, Typed, ItemsTyped, CaseRecords, ItemInv, OneCasePerSuggestion
  <2> QED BY <1>6, <1>7, <2>1 DEF IInv, ItemInv, OneCasePerSuggestion
<1>12. Moves(w, "idle") /\ work' = [work EXCEPT ![w] = NoWork] BY DEF Store, Rests
<1> QED
  BY <1>7, <1>8, <1>9, <1>10, <1>11, <1>12, NoneTyped, IdleInv, WorkerStep DEF WorkStates

LEMMA RefreshesKeep ==
  ASSUME IInv, NEW w \in Workers,
         SuggestionWorkerStep(w) \/ \E s \in Ids, g \in Groups : Refresh(w, s, g),
         UNCHANGED routineVars
  PROVE  IInv'
<1>1. ASSUME StoreFails(w) PROVE IInv' BY <1>1, RestKeeps DEF StoreFails
<1> QED BY <1>1, RefreshKeeps, StoreAgainKeeps, StoreKeeps DEF SuggestionWorkerStep

\* What a routine is to prepare is its to prepare when it is read.
LEMMA MatchKeeps ==
  ASSUME IInv, NEW w \in Workers, NEW s \in Ids, Match(w, s)
  PROVE  IInv'
<1> DEFINE rule == suppression[suggestion[s].group]
           r == [id |-> Present, read |-> routine[Present]]
           k == [id |-> s, suggestion |-> suggestion[s], group |-> None, rule |-> rule,
                 mail |-> mail, routine |-> r]
<1>1. /\ suggestion[s] \in SuggestionRecords /\ suppression \in [Groups -> Rules]
      /\ mail \in Mails /\ mail.scan <= scans /\ mail.profile \in Nat
      /\ Present \in RoutineIds /\ routine \in [RoutineIds -> RoutineRecords]
  BY PresentIs
  DEF IInv, Typed, MailTyped, Mails, ItemsTyped, RoutinesTyped, ItemInv, Counted
<1>2. /\ suggestion[s].status = "VISIBLE" /\ suggestion[s].scan = mail.scan /\ mail.scan # 0
      /\ mail.on /\ mail.configured /\ mail.of = mail.epoch /\ ~rule.active
      /\ routine[Present].status = "ACTIVE" /\ s \notin routine[Present].before
  BY DEF Match, Prepares, Candidate, Found, Visible, Scanned
<1>3. suggestion[s].group \in Groups BY <1>2 DEF IInv, ItemInv, Listed, Visible
<1>4. rule \in Rules BY <1>1, <1>3
<1>5. r \in RoutineReads /\ r.id = Present /\ r.read = routine[Present] BY <1>1 DEF RoutineReads
<1>6. PICK new : /\ new = [NoWork EXCEPT !.id = s, !.suggestion = suggestion[s], !.mail = mail,
                             !.rule = rule, !.routine = r]
                 /\ work' = [work EXCEPT ![w] = new]
  BY DEF Match
<1> HIDE DEF rule, r
<1>7. new = k BY <1>6 DEF NoWork
<1>8. /\ k \in WorkRecords /\ k.id = s /\ k.suggestion = suggestion[s] /\ k.rule = rule
      /\ k.mail = mail /\ k.routine = r
  BY <1>1, <1>4, <1>5 DEF WorkRecords
<1> HIDE DEF k
<1>9. /\ Moves(w, "creating") /\ work' = [work EXCEPT ![w] = k]
      /\ UNCHANGED <<contextVars, suggestion, suppression, cases, messages, decisions, callVars,
                     routineVars>>
  BY <1>6, <1>7 DEF Match
<1>10. ASSUME at'[w] = "creating", work'[w] = k PROVE WorkInv(w)'
  <2>1. mail' = mail /\ scans' = scans BY <1>9 DEF contextVars
  <2>2. MailRead(w)' BY <1>1, <1>2, <1>8, <1>10, <2>1 DEF MailRead
  <2>3. MatchRead(w)' BY <1>2, <1>4, <1>5, <1>8, <1>10 DEF MatchRead, Present
  <2>4. SignalRead(w)' /\ SentRead(w)' BY <1>10 DEF SignalRead, SentRead
  <2> QED BY <2>2, <2>3, <2>4 DEF WorkInv
<1> QED BY <1>8, <1>9, <1>10, WorkerOnly DEF WorkStates

\* A routine's Case takes its suggestion out of the list, and has a marker.
LEMMA CreateKeeps ==
  ASSUME IInv, NEW w \in Workers, Create(w)
  PROVE  IInv'
<1> DEFINE s == work[w].id
           rec == [status |-> "PREPARING", sources |-> {s}, pending |-> TRUE]
           k == [NoWork EXCEPT !.id = s]
<1>1. s \in Ids /\ suggestion[s].status = "VISIBLE"
  BY DEF Create, SameRead, IInv, WorkInv, MatchRead
<1>2. /\ suggestion \in [Ids -> SuggestionRecords] /\ cases \in [Keys \cup Ids -> CaseRecords]
      /\ messages \subseteq Keys \cup Ids /\ markers \subseteq Ids
  BY DEF IInv, Typed, ItemsTyped, RoutinesTyped
<1>3. /\ cases[s].status = None /\ cases' = [cases EXCEPT ![s] = rec]
      /\ suggestion' = [suggestion EXCEPT ![s] = Decided(s, "CONVERTED")]
      /\ markers' = markers \cup {s} /\ Moves(w, "sending") /\ work' = [work EXCEPT ![w] = k]
      /\ UNCHANGED <<contextVars, suppression, messages, decisions, callVars, source, routine>>
  BY DEF Create
<1>4. rec \in CaseRecords BY <1>1 DEF CaseRecords
<1>5. cases'[s] = rec /\ \A j \in Keys \cup Ids : j # s => cases'[j] = cases[j]
  BY <1>1, <1>2, <1>3
<1>6. rec.status = "PREPARING" /\ rec.sources = {s} /\ rec.pending OBVIOUS
<1>7. suggestion' = [t \in Ids |-> IF t \in {s} THEN Decided(t, "CONVERTED") ELSE suggestion[t]]
  BY <1>1, <1>2, <1>3
<1>8. suggestion' \in [Ids -> SuggestionRecords] /\ Listed' /\ SuggestionMoves
  BY <1>1, <1>3, <1>7, ListedDecided DEF contextVars
<1>9. ItemsTyped' BY <1>1, <1>2, <1>3, <1>4, <1>8 DEF ItemsTyped, IInv, Typed
<1>10. k \in WorkRecords /\ k.id = s BY <1>1, SendsFor
<1> HIDE DEF rec, k
<1>11. Marked'
  <2>1. s \notin messages BY <1>3 DEF IInv, ItemInv, Marked
  <2> QED BY <1>1, <1>2, <1>3, <1>5, <1>6, <2>1, SuggestionAssumption DEF IInv, ItemInv, Marked
<1>12. PreparedIsCarried' BY <1>1, <1>3, <1>5, <1>6 DEF IInv, ItemInv, PreparedIsCarried
<1>13. CasesMove BY <1>1, <1>3, <1>5, <1>6 DEF CasesMove
<1>14. OneCasePerSuggestion'
  <2>1. \A j \in Keys \cup Ids : \A t \in cases[j].sources : t \in Ids /\ t # s
    BY <1>1, <1>2 DEF CaseRecords, IInv, ItemInv, OneCasePerSuggestion
  <2>2. suggestion'[s].status = "CONVERTED" BY <1>1, <1>7, DecidedFacts
  <2>3. \A t \in Ids : t # s => suggestion'[t] = suggestion[t] BY <1>7
  <2> QED BY <1>1, <1>5, <1>6, <2>1, <2>2, <2>3 DEF IInv, ItemInv, OneCasePerSuggestion
<1>15. ASSUME at'[w] = "sending", work'[w] = k PROVE WorkInv(w)'
  <2>1. cases'[s].status # None BY <1>5, <1>6, SuggestionAssumption
  <2> QED BY <1>1, <1>10, <1>15, <2>1, SendingInv
<1>16. markers' \subseteq Ids BY <1>1, <1>2, <1>3
<1> QED
  BY <1>3, <1>8, <1>9, <1>10, <1>11, <1>12, <1>13, <1>14, <1>15, <1>16, WorkerStep DEF WorkStates

LEMMA RecoverKeeps ==
  ASSUME IInv, NEW w \in Workers, NEW s \in Ids, Recover(w, s)
  PROVE  IInv'
<1> DEFINE k == [NoWork EXCEPT !.id = s]
<1>1. cases[s].status # None BY DEF Recover, IInv, ItemInv, Marked
<1>2. k \in WorkRecords /\ k.id = s BY SendsFor
<1>3. /\ Moves(w, "sending") /\ work' = [work EXCEPT ![w] = k]
      /\ UNCHANGED <<contextVars, suggestion, suppression, cases, messages, decisions, callVars,
                     routineVars>>
  BY DEF Recover
<1> HIDE DEF k
<1>4. ASSUME at'[w] = "sending", work'[w] = k PROVE WorkInv(w)'
  BY <1>1, <1>2, <1>3, <1>4, SendingInv
<1> QED BY <1>2, <1>3, <1>4, WorkerOnly DEF WorkStates

\* A send goes on to the acknowledgement with the job sent, or with no plan to wait for.
LEMMA SendKeeps ==
  ASSUME IInv, NEW w \in Workers, Send(w)
  PROVE  IInv'
<1> DEFINE s == work[w].id
           waits == cases[s].status = "PREPARING" /\ cases[s].pending
<1>1. /\ s \in Ids /\ cases[s].status # None /\ at[w] = "sending"
      /\ work \in [Workers -> WorkRecords]
  BY DEF Send, IInv, WorkInv, SentRead, Typed, WorkTyped
<1>2. /\ UNCHANGED <<contextVars, suggestion, suppression, cases, decisions, callVars, routineVars>>
  BY DEF Send
<1>3. CASE waits /\ Fails(w) /\ UNCHANGED messages
  BY <1>2, <1>3, RestKeeps DEF Fails
<1>4. ASSUME Moves(w, "acknowledging"), UNCHANGED work,
             waits => messages' = messages \cup {s}, ~waits => messages' = messages
      PROVE  IInv'
  <2>1. work' = [work EXCEPT ![w] = work[w]] /\ work[w] \in WorkRecords BY <1>1, <1>4
  <2>2. messages \subseteq messages' /\ messages' \subseteq messages \cup {s} BY <1>4
  <2>3. ItemsTyped' /\ markers' \subseteq Ids
    BY <1>1, <1>2, <2>2 DEF IInv, Typed, ItemsTyped, RoutinesTyped, routineVars
  <2>4. Listed' /\ SuggestionMoves
    BY <1>2 DEF contextVars, IInv, ItemInv, Listed, Visible, SuggestionMoves
  <2>5. Marked' /\ OneCasePerSuggestion' /\ PreparedIsCarried' /\ CasesMove
    BY <1>1, <1>2, <2>2
    DEF IInv, ItemInv, Marked, OneCasePerSuggestion, PreparedIsCarried, CasesMove, routineVars
  <2>6. ASSUME at'[w] = "acknowledging", work'[w] = work[w] PROVE WorkInv(w)'
    <3>1. cases[s].status = "PREPARING" => s \in messages'
      BY <1>1, <1>4, <2>2 DEF IInv, ItemInv, Marked, PreparedIsCarried
    <3> QED BY <1>1, <1>2, <2>6, <3>1
        DEF WorkInv, MailRead, SignalRead, MatchRead, SentRead
  <2> QED BY <1>2, <1>4, <2>1, <2>3, <2>4, <2>5, <2>6, WorkerStep DEF WorkStates, routineVars
<1> QED BY <1>3, <1>4 DEF Send

LEMMA ToldShape ==
  ASSUME NEW rec \in CaseRecords, NEW new, new = [rec EXCEPT !.pending = FALSE]
  PROVE  new = [status |-> rec.status, sources |-> rec.sources, pending |-> FALSE]
  BY DEF CaseRecords

\* The marker is given up when the job is there, or the plan.
LEMMA AcknowledgeKeeps ==
  ASSUME IInv, NEW w \in Workers, Acknowledge(w)
  PROVE  IInv'
<1> DEFINE s == work[w].id
           rec == [status |-> cases[s].status, sources |-> cases[s].sources, pending |-> FALSE]
<1>1. /\ cases[s].status = "PREPARING" => s \in messages
      /\ Rests(w)
      /\ UNCHANGED <<contextVars, suggestion, suppression, messages, decisions, callVars, source,
                     routine>>
  BY DEF Acknowledge, IInv, WorkInv, SentRead
<1>2. CASE UNCHANGED <<markers, cases>> BY <1>1, <1>2, RestKeeps DEF routineVars
<1>3. CASE s \in markers /\ markers' = markers \ {s} /\ cases' = Acknowledged(s)
  <2>1. s \in Ids BY DEF Acknowledge, IInv, WorkInv, SentRead
  <2>2. cases \in [Keys \cup Ids -> CaseRecords] /\ markers \subseteq Ids
    BY DEF IInv, Typed, ItemsTyped, RoutinesTyped
  <2>3. [cases[s] EXCEPT !.pending = FALSE] = rec /\ rec \in CaseRecords
    <3>1. cases[s] \in CaseRecords BY <2>1, <2>2
    <3>2. [cases[s] EXCEPT !.pending = FALSE] = rec BY <3>1, ToldShape
    <3>3. rec \in CaseRecords BY <3>1 DEF CaseRecords
    <3> QED BY <3>2, <3>3
  <2>4. cases' = [cases EXCEPT ![s] = rec]
    BY <1>3, <2>1, <2>2, <2>3 DEF Acknowledged
  <2>5. cases'[s] = rec /\ \A j \in Keys \cup Ids : j # s => cases'[j] = cases[j]
    BY <2>1, <2>2, <2>4
  <2>6. rec.status = cases[s].status /\ rec.sources = cases[s].sources /\ ~rec.pending
    OBVIOUS
  <2>7. ItemsTyped' BY <1>1, <2>1, <2>2, <2>3, <2>4 DEF IInv, Typed, ItemsTyped
  <2> HIDE DEF rec
  <2>8. \A j \in Keys \cup Ids : cases'[j].status = cases[j].status BY <2>5, <2>6
  <2>15. \A j \in Keys \cup Ids : cases'[j].sources = cases[j].sources BY <2>5, <2>6
  <2>9. Listed' /\ SuggestionMoves
    BY <1>1 DEF contextVars, IInv, ItemInv, Listed, Visible, SuggestionMoves
  <2>10. Marked'
    BY <1>1, <1>3, <2>1, <2>2, <2>5, <2>6, <2>8 DEF IInv, Typed, ItemsTyped, ItemInv, Marked
  <2>11. OneCasePerSuggestion' BY <1>1, <2>15 DEF IInv, ItemInv, OneCasePerSuggestion
  <2>12. PreparedIsCarried' BY <1>1, <1>3, <2>1, <2>8 DEF IInv, ItemInv, PreparedIsCarried
  <2>13. CasesMove BY <1>1, <2>8 DEF CasesMove
  <2>14. markers' \subseteq Ids BY <1>3, <2>2
  <2> QED
    BY <1>1, <2>7, <2>9, <2>10, <2>11, <2>12, <2>13, <2>14, NoneTyped, IdleInv, WorkerStep
    DEF Rests, WorkStates
<1> QED BY <1>2, <1>3 DEF Acknowledge

----------------------------------------------------------------------------
LEMMA StepPreserves == IInv /\ [Next]_vars => IInv'
<1> SUFFICES ASSUME IInv, [Next]_vars PROVE IInv'
  OBVIOUS
<1>1. CASE SuggestionNext /\ UNCHANGED routineVars
  <2>1. CASE EditProfile \/ RequestScan \/ Disconnect \/ Connect BY <1>1, <2>1, ContextKeeps
  <2>2. ASSUME NEW s \in Ids, HideOnce(s) PROVE IInv' BY <1>1, <2>2, HideKeeps
  <2>3. ASSUME NEW s \in Ids, NEW c \in Calls, BeginReduce(c, s) PROVE IInv'
    BY <1>1, <2>3, ReducingKeeps
  <2>4. ASSUME NEW g \in Groups, Undo(g) PROVE IInv' BY <1>1, <2>4, UndoKeeps
  <2>5. ASSUME NEW c \in Calls, SuggestionCallStep(c) PROVE IInv'
    BY <1>1, <2>5, ReducingKeeps, ConvertKeeps, DispatchKeeps DEF SuggestionCallStep
  <2>6. ASSUME NEW c \in Calls, NEW k \in Keys, NEW chosen \in SUBSET Ids, BeginConvert(c, k, chosen)
        PROVE  IInv'
    BY <1>1, <2>6, BeginConvertKeeps
  <2>7. ASSUME NEW k \in Keys \cup Ids, Plan(k) PROVE IInv' BY <1>1, <2>7, PlanKeeps
  <2>8. ASSUME NEW w \in Workers,
               SuggestionWorkerStep(w) \/ \E s \in Ids, g \in Groups : Refresh(w, s, g)
        PROVE  IInv'
    BY <1>1, <2>8, RefreshesKeep
  <2> QED BY <1>1, <2>1, <2>2, <2>3, <2>4, <2>5, <2>6, <2>7, <2>8 DEF SuggestionNext
<1>2. CASE RoutineNext
  <2>1. CASE SourceMoves \/ Propose \/ Activate \/ \E r \in RoutineIds : Pause(r)
    BY <2>1, RoutinesKeep
  <2>2. ASSUME NEW w \in Workers, NEW s \in Ids, Recover(w, s) \/ Match(w, s) PROVE IInv'
    BY <2>2, RecoverKeeps, MatchKeeps
  <2>3. ASSUME NEW w \in Workers, CreateConflict(w) PROVE IInv'
    BY <2>3, RestKeeps DEF CreateConflict
  <2>4. ASSUME NEW w \in Workers, Create(w) \/ Send(w) \/ Acknowledge(w) PROVE IInv'
    BY <2>4, CreateKeeps, SendKeeps, AcknowledgeKeeps
  <2> QED BY <1>2, <2>1, <2>2, <2>3, <2>4 DEF RoutineNext
<1>3. CASE UNCHANGED vars
  <2>1. UNCHANGED <<contextVars, workVars, routineVars, callVars, decisions, suppression>>
        /\ UNCHANGED <<suggestion, cases, messages>>
    BY <1>3 DEF vars, suggestionVars
  <2>2. suppression' \in [Groups -> Rules] /\ CallsTyped' /\ \A c \in Calls : CallInv(c)'
    BY <2>1 DEF IInv, Typed, ItemsTyped, CallsTyped, CallInv, callVars
  <2> QED BY <2>1, <2>2, CallOnly
<1> QED BY <1>1, <1>2, <1>3 DEF Next

\* The invariant: what every step relies on.
THEOREM Invariance == Spec => []IInv
<1> QED BY InitEstablishes, StepPreserves, PTL DEF Spec

----------------------------------------------------------------------------
(***************************************************************************)
(* The properties.                                                         *)
(***************************************************************************)
\* Every item has the shape the code gives it, a Case and its marker tell the same,
\* and there are never more routines than a visit of the worker reads.
THEOREM RoutineTypes == Spec => []TypeOK
<1>1. ASSUME IInv PROVE TypeOK
  <2>1. scans \in Nat /\ suggestion \in [Ids -> SuggestionRecords]
    BY <1>1 DEF IInv, Typed, MailTyped, ItemsTyped
  <2> DEFINE named == [status : {None, "VISIBLE", "HIDDEN", "CONVERTED"}, version : Nat,
                       group : Groups \cup {None}, scan : 0 .. scans]
  <2>2. \A s \in Ids : suggestion[s] \in named
    <3> SUFFICES ASSUME NEW s \in Ids PROVE suggestion[s] \in named
      OBVIOUS
    <3>1. suggestion[s] \in SuggestionRecords /\ suggestion[s].scan <= scans
      BY <1>1, <2>1 DEF IInv, ItemInv, Listed
    <3>2. suggestion[s].scan \in 0 .. scans BY <2>1, <3>1 DEF SuggestionRecords
    <3> QED BY <3>1, <3>2 DEF SuggestionRecords
  <2> HIDE DEF named
  <2>3. suggestion \in [Ids -> named] BY <2>1, <2>2
  <2>4. /\ suppression \in [Groups -> Rules] /\ cases \in [Keys \cup Ids -> CaseRecords]
        /\ messages \subseteq Keys \cup Ids /\ markers = {s \in Ids : cases[s].pending}
        /\ Cardinality(Known) <= MaxRoutines
    BY <1>1 DEF IInv, Typed, ItemsTyped, ItemInv, Marked, WithinLimit
  <2> QED BY <2>3, <2>4 DEF TypeOK, named, Rules, CaseRecords, Known
<1> QED BY <1>1, Invariance, PTL

\* A suggestion becomes one Case, whoever converts it.
THEOREM OneCaseEach == Spec => []OneCasePerSuggestion
<1>1. IInv => OneCasePerSuggestion BY DEF IInv, ItemInv
<1> QED BY <1>1, Invariance, PTL

\* A Case that a routine made has a marker or a job until it has a plan.
THEOREM Carried == Spec => []PreparedIsCarried
<1>1. IInv => PreparedIsCarried BY DEF IInv, ItemInv
<1> QED BY <1>1, Invariance, PTL

\* Only a page writes a suggestion that it leaves, or makes, visible.
LEMMA StoreRespects ==
  ASSUME IInv, NEW w \in Workers, Store(w), NEW s \in Ids, suggestion'[s] # suggestion[s]
  PROVE  /\ suggestion[s].status \notin {"HIDDEN", "CONVERTED"}
         /\ Visible(s) /\ Suppressed(s) => suggestion'[s].status # "VISIBLE" \/ Suppressed(s)'
<1> DEFINE read == work[w].suggestion
           new == [status |-> IF suggestion[s].status = None THEN "VISIBLE" ELSE suggestion[s].status,
                   version |-> suggestion[s].version + 1, group |-> work[w].group,
                   scan |-> work[w].mail.scan]
<1>1. suggestion \in [Ids -> SuggestionRecords] BY DEF IInv, Typed, ItemsTyped
<1>2. /\ work[w].id \in Ids /\ read.status \in {None, "VISIBLE"}
      /\ read.version = suggestion[work[w].id].version => read = suggestion[work[w].id]
      /\ read.status = "VISIBLE" /\ work[w].rule = None => work[w].group = read.group
      /\ read.status = "VISIBLE" /\ work[w].rule # None =>
           (work[w].rule.active /\ work[w].rule.source # work[w].id => work[w].group = read.group)
  BY DEF Store, IInv, WorkInv, SignalRead
<1>3. s = work[w].id BY <1>1, <1>2 DEF Store
<1>4. read = suggestion[s] BY <1>2, <1>3 DEF Store, Refreshable, SameSignal
<1>5. work[w].rule # None => suppression[suggestion[s].group] = work[w].rule
  BY <1>4 DEF Store, Refreshable, SameRule
<1>6. suggestion' = [suggestion EXCEPT ![s] = new] BY <1>1, <1>3 DEF Store
<1>7. suggestion'[s] = new BY <1>1, <1>6
<1>8. suggestion'[s].group = work[w].group BY <1>7
<1>9. ASSUME Visible(s), Suppressed(s) PROVE Suppressed(s)'
  <2>1. work[w].group = suggestion[s].group
    BY <1>2, <1>3, <1>4, <1>5, <1>9 DEF Visible, Suppressed
  <2>2. suppression' = suppression BY DEF Store
  <2> QED BY <1>8, <1>9, <2>1, <2>2 DEF Suppressed
<1>10. suggestion[s].status \notin {"HIDDEN", "CONVERTED"}
  BY <1>2, <1>4, SuggestionAssumption
<1> QED BY <1>9, <1>10

\* The other steps that write one decide about it.
LEMMA StepRespects ==
  ASSUME IInv, [Next]_vars, NEW s \in Ids, suggestion'[s] # suggestion[s]
  PROVE  /\ suggestion[s].status \notin {"HIDDEN", "CONVERTED"}
         /\ Visible(s) /\ Suppressed(s) => suggestion'[s].status # "VISIBLE" \/ Suppressed(s)'
<1>1. suggestion \in [Ids -> SuggestionRecords] BY DEF IInv, Typed, ItemsTyped
<1>2. ASSUME NEW t \in Ids, HideOnce(t)
      PROVE  Visible(s) /\ suggestion'[s].status # "VISIBLE"
  <2>1. s = t /\ Visible(t) /\ suggestion'[s] = Decided(s, "HIDDEN")
    BY <1>1, <1>2 DEF HideOnce
  <2> QED BY <2>1, DecidedFacts
<1>3. ASSUME NEW c \in Calls, Convert(c)
      PROVE  Visible(s) /\ suggestion'[s].status # "VISIBLE"
  <2>1. /\ s \in DOMAIN call[c].versions /\ SameVersions(c)
        /\ suggestion'[s] = Decided(s, "CONVERTED")
    BY <1>3 DEF Convert
  <2>2. Visible(s) BY <2>1 DEF SameVersions
  <2> QED BY <2>1, <2>2, DecidedFacts
<1>4. ASSUME NEW w \in Workers, Create(w)
      PROVE  Visible(s) /\ suggestion'[s].status # "VISIBLE"
  <2>1. s = work[w].id /\ suggestion'[s] = Decided(s, "CONVERTED") BY <1>1, <1>4 DEF Create
  <2>2. Visible(s)
    BY <1>4, <2>1 DEF Create, SameRead, IInv, WorkInv, MatchRead, Visible
  <2> QED BY <2>1, <2>2, DecidedFacts
<1>5. \/ \E t \in Ids : HideOnce(t)
      \/ \E c \in Calls : Convert(c)
      \/ \E w \in Workers : Store(w) \/ Create(w)
  <2>1. ~UNCHANGED suggestion OBVIOUS
  <2>2. CASE SuggestionNext
    BY <2>1, <2>2
    DEF SuggestionNext, EditProfile, RequestScan, Disconnect, Connect, BeginReduce, Undo,
        SuggestionCallStep, Reduce, Dispatch, BeginConvert, Plan, SuggestionWorkerStep, StoreAgain,
        StoreFails, ReadSignal, Refresh
  <2>3. CASE RoutineNext
    BY <2>1, <2>3
    DEF RoutineNext, SourceMoves, Propose, Activate, Pause, Recover, Match, CreateConflict, Send,
        Acknowledge
  <2> QED BY <2>1, <2>2, <2>3 DEF Next, vars, suggestionVars
<1> QED BY <1>2, <1>3, <1>4, <1>5, StoreRespects DEF Visible

\* A refresh never brings back what the user hid or converted, and frees nothing that a
\* rule hides.
THEOREM UserRespected == Spec => RefreshRespectsUser
<1>1. IInv /\ [Next]_vars =>
        [\A s \in Ids : suggestion'[s] # suggestion[s] =>
           /\ suggestion[s].status \notin {"HIDDEN", "CONVERTED"}
           /\ Visible(s) /\ Suppressed(s) =>
                suggestion'[s].status # "VISIBLE" \/ Suppressed(s)']_vars
  BY StepRespects
<1> QED BY <1>1, Invariance, PTL DEF Spec, RefreshRespectsUser

\* The Case a routine makes was its to make: what it compared is what it found.
LEMMA CreateInBounds ==
  ASSUME IInv, NEW w \in Workers, Create(w)
  PROVE  Prepares(work[w].id)
<1> DEFINE s == work[w].id
           m == work[w].mail
           r == work[w].routine
<1>1. /\ s \in Ids /\ work[w].suggestion.status = "VISIBLE" /\ work[w].suggestion.scan = m.scan
      /\ m.on /\ m.configured /\ m.of = m.epoch
      /\ r.id = <<m.profile, m.epoch>> /\ r.read.status = "ACTIVE" /\ s \notin r.read.before
      /\ ~work[w].rule.active
      /\ m.scan # 0
      /\ m.profile = mail.profile => m.configured = mail.configured
      /\ m.scan = mail.scan => m.of = mail.of
  BY DEF Create, IInv, WorkInv, MailRead, MatchRead
<1>2. /\ routine[r.id] = r.read /\ source /\ suggestion[s] = work[w].suggestion
      /\ suppression[suggestion[s].group] = work[w].rule
      /\ mail.on /\ mail.epoch = m.epoch /\ mail.profile = m.profile /\ mail.scan = m.scan
  BY DEF Create, SameRead, SameMail
<1>3. r.id = Present BY <1>1, <1>2 DEF Present
<1>4. Found(s) BY <1>1, <1>2 DEF Found, Visible, Scanned
<1>5. Candidate(s) BY <1>1, <1>2, <1>4 DEF Candidate
<1>6. Bound BY <1>1, <1>2 DEF Bound, Stands
<1>7. routine[Present].status = "ACTIVE" /\ s \notin routine[Present].before
  BY <1>1, <1>2, <1>3
<1> QED BY <1>5, <1>6, <1>7 DEF Prepares

\* A routine makes a Case only of what it may prepare at that moment.
THEOREM InBounds == Spec => RoutineStaysInBounds
<1>1. ASSUME IInv, [Next]_vars, NEW s \in Ids, cases[s].status = None, cases'[s].status # None
      PROVE  Prepares(s)
  <2>1. cases \in [Keys \cup Ids -> CaseRecords] BY <1>1 DEF IInv, Typed, ItemsTyped
  <2>2. ASSUME NEW c \in Calls, Convert(c) PROVE FALSE
    <3>1. call[c].key \in Keys BY <1>1, <2>2 DEF Convert, IInv, CallInv
    <3>2. s # call[c].key BY <3>1, SuggestionAssumption
    <3> QED BY <1>1, <2>1, <2>2, <3>2 DEF Convert
  <2>3. ASSUME NEW k \in Keys \cup Ids, Plan(k) PROVE FALSE
    <3>1. cases[k].status # None BY <1>1, <2>3 DEF Plan, IInv, ItemInv, Marked
    <3>2. s # k BY <1>1, <3>1
    <3> QED BY <1>1, <2>1, <2>3, <3>2 DEF Plan
  <2>4. ASSUME NEW w \in Workers, Acknowledge(w) PROVE FALSE
    <3>1. cases[work[w].id].status # None /\ work[w].id \in Ids
      BY <1>1, <2>4 DEF Acknowledge, IInv, WorkInv, SentRead
    <3>2. s # work[w].id BY <1>1, <3>1
    <3> QED BY <1>1, <2>1, <2>4, <3>2 DEF Acknowledge, Acknowledged
  <2>5. ASSUME NEW w \in Workers, Create(w) PROVE Prepares(s)
    <3>1. s = work[w].id BY <1>1, <2>1, <2>5 DEF Create
    <3> QED BY <1>1, <2>5, <3>1, CreateInBounds
  <2>6. \/ \E c \in Calls : Convert(c)
        \/ \E k \in Keys \cup Ids : Plan(k)
        \/ \E w \in Workers : Create(w) \/ Acknowledge(w)
    <3>1. ~UNCHANGED cases BY <1>1
    <3>2. CASE SuggestionNext
      BY <3>1, <3>2
      DEF SuggestionNext, EditProfile, RequestScan, Disconnect, Connect, HideOnce, BeginReduce, Undo,
          SuggestionCallStep, Reduce, Dispatch, BeginConvert, SuggestionWorkerStep, Store,
          StoreAgain, StoreFails, ReadSignal, Refresh
    <3>3. CASE RoutineNext
      BY <3>1, <3>3
      DEF RoutineNext, SourceMoves, Propose, Activate, Pause, Recover, Match, CreateConflict, Send
    <3> QED BY <1>1, <3>1, <3>2, <3>3 DEF Next, vars, suggestionVars
  <2> QED BY <2>2, <2>3, <2>4, <2>5, <2>6
<1>2. IInv /\ [Next]_vars =>
        [\A s \in Ids : cases[s].status = None /\ cases'[s].status # None => Prepares(s)]_vars
  BY <1>1
<1> QED BY <1>2, Invariance, PTL DEF Spec, RoutineStaysInBounds
===============================================================================
