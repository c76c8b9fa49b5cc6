------------------------ MODULE GoogleConnectionProofs ------------------------
(***************************************************************************)
(* The connection for every number of calls, workers, accounts and losses. *)
(* The arguments: an epoch and a revocation are named once, so what a      *)
(* worker read for another connection never again equals what is there;    *)
(* and a message that fails fewer times than it is received is there, or   *)
(* with a worker, until its connection has left the status it ends.        *)
(***************************************************************************)
EXTENDS GoogleConnection, TLAPS

Live == {"CONNECTING", "CONNECTED", "ERROR"}
ConnRecords == [status : Statuses, epoch : Nat, error : {"none", "AUTH", "SETUP"},
                account : MaybeAccounts, gmail : BOOLEAN, request : Nat]
CalendarRecords == [epoch : Nat, account : MaybeAccounts]
FlowRecords == [id : Nat, purpose : {"mail", "calendar"}, epoch : Nat,
                account : MaybeAccounts, chosen : MaybeAccounts, done : BOOLEAN]
JobRecords == [id : Nat, epoch : Nat, status : {"NOT_STARTED", "PENDING", "READY", "ERROR"}]
GrantRecords == [mail : MaybeAccounts, calendar : MaybeAccounts]
CallRecords == [flow : Nat, done : BOOLEAN, epoch : Nat, account : MaybeAccounts]
WorkRecords == [message : Messages \cup {NoMessage}, epoch : Nat, status : Statuses,
                account : MaybeAccounts, todo : SUBSET Kinds]
RecoveryRecords == [kind : Kinds \cup {"none"}, id : Nat, epoch : Nat]

Revoking == {"revoking", "revoked"}
Guarding == {"recovering", "setting", "connecting", "failing"}
Serving == {"ensuring", "answering"} \cup Kinds
WorkStates == Revoking \cup Guarding \cup Serving \cup {"idle", "unauthorized"}

LinkTyped ==
  /\ conn \in ConnRecords /\ calendar \in CalendarRecords /\ flows \subseteq FlowRecords
  /\ grants \in GrantRecords /\ call \in [Calls -> CallRecords]
MailTyped ==
  /\ job \in [Kinds -> JobRecords] /\ recovery \in RecoveryRecords
  /\ messages \subseteq Messages /\ ids \in Nat /\ losses \in Nat
WorkTyped ==
  /\ at \in [Workers -> WorkStates] /\ work \in [Workers -> WorkRecords]
  /\ overtaken \subseteq Workers
Typed == LinkTyped /\ MailTyped /\ WorkTyped

\* Names are given in order, and a connection has an epoch exactly while it lives.
Named ==
  /\ conn.epoch <= ids /\ conn.request <= ids
  /\ conn.epoch # 0 <=> conn.status \in Live
  /\ \A k \in Kinds : job[k].id <= ids /\ job[k].epoch <= ids /\ (job[k].id # 0 <=> job[k].epoch # 0)
  /\ \A m \in messages : m.id # 0 /\ m.id <= ids

\* The mail request of a message is one of the connection that is there.
Serves(m) == job[m.kind].id = m.id /\ job[m.kind].epoch = conn.epoch

\* What a worker read, and that an overtaken one can no longer act on it.
WorkInv(w) ==
  /\ work[w].message.id <= ids /\ work[w].epoch <= ids
  /\ work[w].message.kind # "none" => work[w].message.id # 0
  /\ at[w] \in Guarding => work[w].status \in Live
  /\ at[w] \in Guarding \cup {"unauthorized"} => work[w].epoch # 0
  /\ at[w] \in Kinds => job[at[w]].id # 0
  /\ at[w] \in {"recovering"} => work[w].message.kind \in Kinds
  /\ at[w] = "answering" => work[w].message.kind \in Kinds
  /\ w \in overtaken =>
       /\ at[w] # "idle"
       /\ at[w] \in Revoking => ~Awaited(w)
       /\ at[w] \in Guarding \cup {"unauthorized"} => conn.epoch # work[w].epoch
       /\ at[w] \in Serving /\ work[w].message.kind \in Kinds => ~Serves(work[w].message)

IInv == Typed /\ Named /\ \A w \in Workers : WorkInv(w)

----------------------------------------------------------------------------
LEMMA KindsApart ==
  /\ \A k \in Kinds : k = "recommendations" \/ k = "scan"
  /\ {"none", "setup", "revoke", "idle", "unauthorized", "ensuring", "answering"} \cap Kinds = {}
  /\ Kinds \cap (Revoking \cup Guarding) = {}
  BY ConnectionAssumption DEF Revoking, Guarding

LEMMA NoneTyped ==
  /\ NoCall \in CallRecords /\ NoWork \in WorkRecords /\ NoRecovery \in RecoveryRecords
  /\ NoWork.message = NoMessage /\ NoMessage.id = 0 /\ NoMessage.kind = "none" /\ NoWork.epoch = 0
<1>1. NoCall \in CallRecords BY DEF NoCall, CallRecords, MaybeAccounts
<1>2. NoWork \in WorkRecords BY DEF NoWork, WorkRecords, MaybeAccounts, Statuses
<1>3. NoRecovery \in RecoveryRecords BY DEF NoRecovery, RecoveryRecords
<1>4. NoWork.message = NoMessage /\ NoMessage.id = 0 /\ NoMessage.kind = "none" /\ NoWork.epoch = 0
  BY DEF NoWork, NoMessage
<1> QED BY <1>1, <1>2, <1>3, <1>4

LEMMA MessageTyped ==
  ASSUME NEW kind \in {"setup", "revoke"} \cup Kinds, NEW id \in Nat
  PROVE  /\ Message(kind, id) \in Messages /\ Message(kind, id).id = id
         /\ Message(kind, id).kind = kind /\ Message(kind, id).left = MaxReceives
<1>1. MaxReceives \in 1 .. MaxReceives BY ConnectionAssumption
<1> QED BY <1>1 DEF Message, Messages

LEMMA ReturnedShape ==
  ASSUME NEW m \in Messages \cup {NoMessage}, NEW n \in Returned(m)
  PROVE  n \in Messages /\ n.id = m.id /\ n.kind = m.kind /\ n.left = m.left - 1
<1>1. m.left > 1 /\ n = [m EXCEPT !.left = @ - 1] BY DEF Returned
<1>2. m # NoMessage BY <1>1 DEF NoMessage
<1>3. m \in Messages BY <1>2
<1>4. n = [kind |-> m.kind, id |-> m.id, left |-> m.left - 1] BY <1>1, <1>3 DEF Messages
<1>5. m.left - 1 \in 1 .. MaxReceives BY <1>1, <1>3, ConnectionAssumption DEF Messages
<1> QED BY <1>3, <1>4, <1>5 DEF Messages

\* The invariant holds of a user who never connected.
LEMMA InitEstablishes == Init => IInv
<1> SUFFICES ASSUME Init PROVE IInv
  OBVIOUS
<1> USE DEF Init
<1>1. LinkTyped
  BY NoneTyped DEF LinkTyped, ConnRecords, CalendarRecords, FlowRecords, GrantRecords, Statuses, MaybeAccounts
<1>2. MailTyped BY NoneTyped DEF MailTyped, JobRecords
<1>3. WorkTyped BY NoneTyped DEF WorkTyped, WorkStates
<1>4. Named BY DEF Named, Live
<1>5. ASSUME NEW w \in Workers PROVE WorkInv(w)
  BY NoneTyped, KindsApart DEF WorkInv, Guarding
<1> QED BY <1>1, <1>2, <1>3, <1>4, <1>5 DEF IInv, Typed

----------------------------------------------------------------------------
(***************************************************************************)
(* What has been read stays behind, whatever moves the connection.         *)
(***************************************************************************)
KeptConn ==
  /\ conn'.epoch = conn.epoch
  /\ conn'.status = "REVOKING" => conn.status = "REVOKING" /\ conn'.request = conn.request
NewConn ==
  /\ conn'.epoch > ids \/ conn'.epoch = 0
  /\ conn'.status = "REVOKING" => conn'.request > ids
JobMoves ==
  \A k \in Kinds :
    \/ job'[k].id > ids
    \/ /\ job'[k].id = job[k].id
       /\ job'[k].epoch = job[k].epoch
            \/ (job[k].epoch = conn.epoch /\ job'[k].epoch = conn'.epoch)
Moved == ids' >= ids /\ (KeptConn \/ NewConn) /\ JobMoves
\* A worker is overtaken only by a new connection that leaves the mail requests.
Overtaking(w) ==
  w \in overtaken' => w \in overtaken \/ (NewConn /\ job' = job /\ at[w] # "idle")

LEMMA Basics ==
  ASSUME IInv
  PROVE  /\ conn \in ConnRecords /\ conn.epoch \in Nat /\ conn.request \in Nat /\ ids \in Nat
         /\ conn.status \in Statuses /\ conn.epoch <= ids /\ conn.request <= ids
         /\ (conn.epoch # 0 <=> conn.status \in Live)
         /\ messages \subseteq Messages /\ losses \in Nat /\ job \in [Kinds -> JobRecords]
         /\ \A k \in Kinds : /\ job[k] \in JobRecords /\ job[k].id \in Nat /\ job[k].epoch \in Nat
                             /\ job[k].id <= ids /\ job[k].epoch <= ids
                             /\ (job[k].id # 0 <=> job[k].epoch # 0)
         /\ \A m \in messages : m.id \in Nat /\ m.id # 0 /\ m.id <= ids
         /\ grants \in GrantRecords /\ calendar \in CalendarRecords /\ flows \subseteq FlowRecords
         /\ call \in [Calls -> CallRecords] /\ recovery \in RecoveryRecords
         /\ at \in [Workers -> WorkStates] /\ work \in [Workers -> WorkRecords]
         /\ overtaken \subseteq Workers
<1>1. Typed /\ Named BY DEF IInv
<1>2. conn.epoch \in Nat /\ conn.request \in Nat /\ conn.status \in Statuses
  BY <1>1 DEF Typed, LinkTyped, ConnRecords
<1>3. \A k \in Kinds : job[k] \in JobRecords /\ job[k].id \in Nat /\ job[k].epoch \in Nat
  BY <1>1 DEF Typed, MailTyped, JobRecords
<1>4. \A m \in messages : m.id \in Nat BY <1>1 DEF Typed, MailTyped, Messages
<1> QED BY <1>1, <1>2, <1>3, <1>4 DEF Typed, Named, LinkTyped, MailTyped, WorkTyped

LEMMA WorkFacts ==
  ASSUME IInv, NEW w \in Workers
  PROVE  /\ work[w] \in WorkRecords /\ work[w].message \in Messages \cup {NoMessage}
         /\ work[w].message.id \in Nat /\ work[w].epoch \in Nat /\ work[w].status \in Statuses
         /\ work[w].account \in MaybeAccounts /\ work[w].todo \subseteq Kinds
         /\ at[w] \in WorkStates /\ WorkInv(w)
<1>1. work[w] \in WorkRecords /\ at[w] \in WorkStates /\ WorkInv(w) BY Basics DEF IInv
<1>2. work[w].message \in Messages \cup {NoMessage} BY <1>1 DEF WorkRecords
<1>3. work[w].message.id \in Nat BY <1>2, NoneTyped DEF Messages
<1> QED BY <1>1, <1>2, <1>3 DEF WorkRecords

LEMMA WorkStays ==
  ASSUME IInv, Typed', Moved, NEW w \in Workers, at'[w] = at[w], work'[w] = work[w], Overtaking(w)
  PROVE  WorkInv(w)'
<1> DEFINE m == work[w].message
<1>1. WorkInv(w) /\ m.id \in Nat /\ work[w].epoch \in Nat /\ at[w] \in WorkStates BY WorkFacts
<1>2. ids' \in Nat /\ ids \in Nat /\ conn'.epoch \in Nat /\ conn'.request \in Nat
  BY Basics DEF Typed, LinkTyped, MailTyped, ConnRecords
<1>3. \A k \in Kinds : job'[k].id \in Nat /\ job'[k].epoch \in Nat
  BY DEF Typed, MailTyped, JobRecords
<1>4. m.id <= ids' /\ work[w].epoch <= ids' BY <1>1, <1>2 DEF WorkInv, Moved
<1>5. at[w] \in Kinds => job'[at[w]].id # 0
  BY <1>1, <1>2, <1>3 DEF WorkInv, Moved, JobMoves
<1>6. ASSUME w \in overtaken'
      PROVE  /\ at[w] # "idle"
             /\ at[w] \in Revoking => ~(conn'.status = "REVOKING" /\ conn'.request = m.id)
             /\ at[w] \in Guarding \cup {"unauthorized"} => conn'.epoch # work[w].epoch
             /\ at[w] \in Serving /\ m.kind \in Kinds =>
                  ~(job'[m.kind].id = m.id /\ job'[m.kind].epoch = conn'.epoch)
  <2>1. CASE w \in overtaken
    <3>1. /\ at[w] # "idle"
          /\ at[w] \in Revoking => ~(conn.status = "REVOKING" /\ conn.request = m.id)
          /\ at[w] \in Guarding \cup {"unauthorized"} => conn.epoch # work[w].epoch
          /\ at[w] \in Serving /\ m.kind \in Kinds =>
               ~(job[m.kind].id = m.id /\ job[m.kind].epoch = conn.epoch)
      BY <1>1, <2>1 DEF WorkInv, Awaited, Serves
    <3>2. at[w] \in Revoking => ~(conn'.status = "REVOKING" /\ conn'.request = m.id)
      BY <1>1, <1>2, <3>1 DEF Moved, KeptConn, NewConn, WorkInv
    <3>3. at[w] \in Guarding \cup {"unauthorized"} => conn'.epoch # work[w].epoch
      BY <1>1, <1>2, <3>1 DEF Moved, KeptConn, NewConn, WorkInv
    <3>4. ASSUME m.kind \in Kinds, at[w] \in Serving, job'[m.kind].id = m.id,
                 job'[m.kind].epoch = conn'.epoch
          PROVE  FALSE
      <4>1. m.id <= ids /\ m.id # 0 BY <1>1, <3>4, KindsApart DEF WorkInv
      <4>2. job'[m.kind].id = job[m.kind].id BY <1>2, <1>3, <3>4, <4>1 DEF Moved, JobMoves
      <4>3. /\ job[m.kind].epoch # conn.epoch /\ job'[m.kind].epoch = job[m.kind].epoch
        BY <1>2, <1>3, <3>1, <3>4, <4>1, <4>2 DEF Moved, JobMoves
      <4>4. job[m.kind].epoch <= ids /\ job[m.kind].epoch # 0 BY <3>4, <4>1, <4>2, Basics
      <4> QED BY <1>2, <1>3, <3>4, <4>3, <4>4 DEF Moved, KeptConn, NewConn
    <3> QED BY <3>1, <3>2, <3>3, <3>4
  <2>2. CASE NewConn /\ job' = job /\ at[w] # "idle"
    <3>1. at[w] \in Revoking => ~(conn'.status = "REVOKING" /\ conn'.request = m.id)
      BY <1>1, <1>2, <2>2 DEF NewConn, WorkInv
    <3>2. at[w] \in Guarding \cup {"unauthorized"} => conn'.epoch # work[w].epoch
      BY <1>1, <1>2, <2>2 DEF NewConn, WorkInv
    <3>3. ASSUME m.kind \in Kinds, job'[m.kind].id = m.id, job'[m.kind].epoch = conn'.epoch
          PROVE  FALSE
      <4>1. m.id # 0 BY <1>1, <3>3, KindsApart DEF WorkInv
      <4>2. job[m.kind].epoch <= ids /\ job[m.kind].epoch # 0 BY <2>2, <3>3, <4>1, Basics
      <4> QED BY <1>2, <1>3, <2>2, <3>3, <4>2 DEF NewConn
    <3> QED BY <2>2, <3>1, <3>2, <3>3
  <2> QED BY <1>6, <2>1, <2>2 DEF Overtaking
<1> QED BY <1>1, <1>4, <1>5, <1>6 DEF WorkInv, Awaited, Serves

LEMMA Assembled ==
  ASSUME IInv, Typed', Named', Moved,
         \A w \in Workers : WorkInv(w)' \/ (at'[w] = at[w] /\ work'[w] = work[w] /\ Overtaking(w))
  PROVE  IInv'
  BY WorkStays DEF IInv

----------------------------------------------------------------------------
(***************************************************************************)
(* The user, the API's calls and Google.                                   *)
(***************************************************************************)
\* The connection, the mail requests, the queue and the workers stay.
LEMMA QuietKeeps ==
  ASSUME IInv, UNCHANGED <<conn, mailVars, messages, ids, workVars, overtaken>>, losses' \in Nat,
         calendar' \in CalendarRecords, flows' \subseteq FlowRecords, grants' \in GrantRecords,
         call' \in [Calls -> CallRecords]
  PROVE  IInv'
<1>1. Typed' BY Basics DEF Typed, LinkTyped, MailTyped, WorkTyped, mailVars, workVars
<1>2. Named' BY DEF IInv, Named, mailVars
<1>3. Moved BY Basics DEF Moved, KeptConn, JobMoves, mailVars
<1> QED BY <1>1, <1>2, <1>3, Assembled DEF workVars, Overtaking

LEMMA ReturnsTyped ==
  ASSUME IInv, NEW c \in Calls, Returns(c)
  PROVE  call' \in [Calls -> CallRecords]
  BY Basics, NoneTyped DEF Returns

LEMMA CallTyped ==
  ASSUME IInv, NEW c \in Calls
  PROVE  call[c].epoch \in Nat /\ call[c].account \in MaybeAccounts
  BY Basics DEF CallRecords

LEMMA RevokesTyped == IInv /\ GoogleRevokes => grants' \in GrantRecords
  BY Basics DEF GoogleRevokes, GrantRecords, MaybeAccounts

LEMMA QuietCall ==
  ASSUME IInv, UNCHANGED <<tableVars, outsideVars, call, workVars, overtaken>>
  PROVE  IInv'
  BY Basics, QuietKeeps DEF tableVars, outsideVars, lossVars

LEMMA RaisesKeeps ==
  ASSUME IInv, NEW c \in Calls, Raises(c)
  PROVE  IInv'
  BY Basics, ReturnsTyped, QuietKeeps DEF Raises, tableVars, outsideVars, lossVars

LEMMA AuthorizingKeeps ==
  ASSUME IInv, NEW c \in Calls,
         BeginAuthorize(c) \/ Authorize(c) \/ BeginRescan(c) \/ PutRefused(c) \/ CompleteTwice(c)
           \/ Confirm(c)
  PROVE  IInv'
  BY QuietCall, RaisesKeeps DEF BeginAuthorize, Authorize, BeginRescan, PutRefused, CompleteTwice, Confirm

LEMMA ConsentKeeps ==
  ASSUME IInv, NEW f \in flows, NEW account \in Accounts, Consent(f, account)
  PROVE  IInv'
<1>1. f \in FlowRecords BY Basics
<1>2. Return(f, account) \in FlowRecords BY <1>1 DEF Return, FlowRecords, MaybeAccounts
<1>3. flows' \subseteq FlowRecords BY <1>2, Basics DEF Consent
<1> QED BY <1>3, Basics, QuietKeeps DEF Consent, outsideVars, callVars, lossVars

LEMMA CompletingKeeps ==
  ASSUME IInv, NEW c \in Calls, (\E f \in flows : BeginComplete(c, f)) \/ Identify(c)
                                \/ CompleteFlow(c) \/ CompleteReturn(c)
  PROVE  IInv'
<1>1. flows \subseteq FlowRecords /\ call \in [Calls -> CallRecords] /\ grants \in GrantRecords
      /\ calendar \in CalendarRecords /\ losses \in Nat
  BY Basics
<1>2. ASSUME NEW f \in flows, BeginComplete(c, f) PROVE IInv'
  <2>1. PICK r : r = [flow |-> f.id, done |-> f.done, epoch |-> f.epoch, account |-> f.account]
    OBVIOUS
  <2>2. r \in CallRecords BY <1>1, <2>1 DEF FlowRecords, CallRecords
  <2>3. call' = [call EXCEPT ![c] = r] BY <1>2, <2>1 DEF BeginComplete
  <2>4. call' \in [Calls -> CallRecords] BY <1>1, <2>2, <2>3
  <2> QED BY <1>1, <1>2, <2>4, QuietKeeps DEF BeginComplete, tableVars, outsideVars, lossVars
<1>3. CASE Identify(c)
  <2>1. PICK f \in flows : grants' = [grants EXCEPT ![f.purpose] = f.chosen]
    BY <1>3 DEF Identify
  <2>2. f.purpose \in {"mail", "calendar"} /\ f.chosen \in MaybeAccounts
    BY <1>1 DEF FlowRecords
  <2>3. grants' \in GrantRecords
    <3>1. CASE f.purpose = "mail" BY <1>1, <2>1, <2>2, <3>1 DEF GrantRecords
    <3>2. CASE f.purpose = "calendar" BY <1>1, <2>1, <2>2, <3>2 DEF GrantRecords
    <3> QED BY <2>2, <3>1, <3>2
  <2> QED BY <1>1, <1>3, <2>3, QuietKeeps DEF Identify, tableVars, lossVars
<1>4. CASE CompleteFlow(c)
  <2>1. PICK f \in flows : flows' = (flows \ {f}) \cup {[f EXCEPT !.done = TRUE]}
    BY <1>4 DEF CompleteFlow
  <2>2. f \in FlowRecords BY <1>1
  <2>3. [f EXCEPT !.done = TRUE] \in FlowRecords BY <2>2 DEF FlowRecords
  <2>4. flows' \subseteq FlowRecords BY <1>1, <2>1, <2>3
  <2> QED BY <1>1, <1>4, <2>4, QuietKeeps DEF CompleteFlow, outsideVars, lossVars
<1>5. CASE CompleteReturn(c)
  <2>1. flows' \subseteq FlowRecords BY <1>1, <1>5 DEF CompleteReturn
  <2>2. call' \in [Calls -> CallRecords] BY <1>1, <1>5, ReturnsTyped DEF CompleteReturn
  <2> QED BY <1>1, <1>5, <2>1, <2>2, QuietKeeps DEF CompleteReturn, outsideVars, lossVars
<1> QED BY <1>2, <1>3, <1>4, <1>5

LEMMA CalendarKeeps ==
  ASSUME IInv, NEW c \in Calls, BeginCalendar(c) \/ AskCalendar(c) \/ Attach(c)
  PROVE  IInv'
<1>1. flows \subseteq FlowRecords /\ call \in [Calls -> CallRecords] /\ grants \in GrantRecords
      /\ calendar \in CalendarRecords /\ losses \in Nat /\ conn \in ConnRecords
  BY Basics
<1>2. CASE BeginCalendar(c)
  <2>1. PICK r : r = [NoCall EXCEPT !.epoch = conn.epoch, !.account = conn.account] OBVIOUS
  <2>2. r = [flow |-> 0, done |-> FALSE, epoch |-> conn.epoch, account |-> conn.account]
    BY <2>1 DEF NoCall
  <2>3. r \in CallRecords BY <1>1, <2>2 DEF ConnRecords, CallRecords
  <2>4. call' = [call EXCEPT ![c] = r] BY <1>2, <2>1 DEF BeginCalendar
  <2>5. call' \in [Calls -> CallRecords] BY <1>1, <2>3, <2>4
  <2> QED BY <1>1, <1>2, <2>5, QuietKeeps DEF BeginCalendar, tableVars, outsideVars, lossVars
<1>3. CASE AskCalendar(c)
  <2>1. Flow(call[c].epoch, "calendar", call[c].epoch, call[c].account) \in FlowRecords
    BY CallTyped DEF Flow, FlowRecords, MaybeAccounts
  <2>2. flows' \subseteq FlowRecords BY <1>1, <1>3, <2>1 DEF AskCalendar
  <2>3. call' \in [Calls -> CallRecords] BY <1>1, <1>3, ReturnsTyped DEF AskCalendar
  <2> QED BY <1>1, <1>3, <2>2, <2>3, QuietKeeps DEF AskCalendar, outsideVars, lossVars
<1>4. CASE Attach(c)
  <2>1. CASE Raises(c) BY <2>1, RaisesKeeps
  <2>2. CASE /\ calendar' = [epoch |-> call[c].epoch, account |-> call[c].account]
             /\ Returns(c) \/ UNCHANGED call
             /\ UNCHANGED <<conn, flows, mailVars, outsideVars, workVars, overtaken>>
    <3>1. calendar' \in CalendarRecords BY <2>2, CallTyped DEF CalendarRecords
    <3>2. call' \in [Calls -> CallRecords] BY <1>1, <2>2, ReturnsTyped
    <3> QED BY <1>1, <2>2, <3>1, <3>2, QuietKeeps DEF outsideVars, lossVars
  <2> QED BY <1>4, <2>1, <2>2 DEF Attach
<1> QED BY <1>2, <1>3, <1>4

LEMMA LossKeeps ==
  ASSUME IInv, GrantLost \/ \E c \in Calls : CallDies(c)
  PROVE  IInv'
<1>1. losses' \in Nat BY Basics DEF GrantLost, CallDies
<1>2. CASE GrantLost
  BY <1>1, <1>2, Basics, RevokesTyped, QuietKeeps DEF GrantLost, tableVars, callVars
<1>3. ASSUME NEW c \in Calls, CallDies(c) PROVE IInv'
  BY <1>1, <1>3, Basics, ReturnsTyped, QuietKeeps DEF CallDies, tableVars
<1> QED BY <1>2, <1>3

----------------------------------------------------------------------------
(***************************************************************************)
(* The user's writes of the connection, and requests for mail work.        *)
(***************************************************************************)
LEMMA SendsShape ==
  ASSUME IInv, NEW m \in Messages, m.id # 0, m.id <= ids', ids' >= ids, ids' \in Nat, Sends(m)
  PROVE  /\ messages' \subseteq Messages /\ losses' \in Nat
         /\ \A n \in messages' : n.id # 0 /\ n.id <= ids'
<1>1. messages' \subseteq messages \cup {m} /\ losses' \in Nat BY Basics DEF Sends
<1> QED BY <1>1, Basics

LEMMA OverwriteKeeps ==
  ASSUME IInv, NEW k \in ConnRecords, Overwrites(k), ids' = ids + 1,
         k.epoch = ids + 1 \/ k.epoch = 0, k.epoch # 0 <=> k.status \in Live,
         k.request <= ids + 1, k.status = "REVOKING" => k.request = ids + 1,
         UNCHANGED <<calendar, mailVars, grants, workVars>>,
         flows' \subseteq FlowRecords, call' \in [Calls -> CallRecords],
         messages' \subseteq Messages, losses' \in Nat,
         \A n \in messages' : n.id # 0 /\ n.id <= ids'
  PROVE  IInv'
<1>1. conn' = k /\ overtaken' \subseteq Workers /\ \A w \in overtaken' : at[w] # "idle"
  BY DEF Overwrites
<1>2. ids \in Nat /\ ids' \in Nat /\ k.epoch \in Nat BY Basics DEF ConnRecords
<1>3. Typed' BY <1>1, <1>2, Basics DEF Typed, LinkTyped, MailTyped, WorkTyped, mailVars, workVars
<1>4. Named'
  <2>1. \A j \in Kinds : job'[j].id <= ids' /\ job'[j].epoch <= ids'
                         /\ (job'[j].id # 0 <=> job'[j].epoch # 0)
    BY <1>2, Basics DEF mailVars
  <2> QED BY <1>1, <1>2, <2>1 DEF Named
<1>5. NewConn BY <1>1, <1>2 DEF NewConn
<1>6. Moved BY <1>2, <1>5, Basics DEF Moved, JobMoves, mailVars
<1> QED BY <1>1, <1>3, <1>4, <1>5, <1>6, Assembled DEF Overtaking, workVars, mailVars

LEMMA ConnectingShape ==
  ASSUME IInv, NEW gmail \in BOOLEAN, Connecting(gmail)
  PROVE  \E k \in ConnRecords :
           /\ Overwrites(k) /\ k.epoch = ids + 1 /\ k.status = "CONNECTING" /\ k.request = 0
           /\ k.gmail = gmail /\ ids' = ids + 1
<1>1. PICK k : k = [conn EXCEPT !.status = "CONNECTING", !.epoch = ids + 1, !.error = "none",
                                !.gmail = gmail, !.request = 0]
  OBVIOUS
<1>2. conn \in ConnRecords /\ ids + 1 \in Nat BY Basics
<1>3. /\ k \in ConnRecords /\ k.epoch = ids + 1 /\ k.status = "CONNECTING" /\ k.request = 0
      /\ k.gmail = gmail
  BY <1>1, <1>2 DEF ConnRecords, Statuses
<1> QED BY <1>1, <1>3 DEF Connecting

LEMMA ConnectingKeeps ==
  ASSUME IInv, NEW c \in Calls, StartScan(c) \/ AskConsent(c)
  PROVE  IInv'
<1>1. PICK k \in ConnRecords :
        /\ Overwrites(k) /\ k.epoch = ids + 1 /\ k.status = "CONNECTING" /\ k.request = 0
        /\ ids' = ids + 1
  BY ConnectingShape DEF StartScan, AskConsent
<1>2. ids \in Nat /\ ids + 1 \in Nat /\ ids + 1 # 0 BY Basics
<1>3. call' \in [Calls -> CallRecords] BY ReturnsTyped DEF StartScan, AskConsent
<1>4. UNCHANGED <<calendar, mailVars, grants, workVars>> BY DEF StartScan, AskConsent
<1>5. flows' \subseteq FlowRecords
  <2>1. Flow(ids + 1, "mail", 0, None) \in FlowRecords
    BY <1>2 DEF Flow, FlowRecords, MaybeAccounts
  <2> QED BY <2>1, Basics DEF StartScan, AskConsent
<1>6. messages' \subseteq Messages /\ losses' \in Nat /\ \A n \in messages' : n.id # 0 /\ n.id <= ids'
  <2>1. CASE StartScan(c)
    <3>1. /\ Message("setup", ids + 1) \in Messages /\ Message("setup", ids + 1).id = ids + 1
      BY <1>2, MessageTyped
    <3> QED BY <1>1, <1>2, <2>1, <3>1, SendsShape DEF StartScan
  <2>2. CASE AskConsent(c) BY <1>1, <1>2, <2>2, Basics DEF AskConsent, lossVars
  <2> QED BY <2>1, <2>2
<1> QED BY <1>1, <1>2, <1>3, <1>4, <1>5, <1>6, OverwriteKeeps DEF Live

LEMMA DisconnectShape ==
  ASSUME IInv, Disconnect
  PROVE  \E k \in ConnRecords :
           Overwrites(k) /\ k.epoch = 0 /\ k.status = "REVOKING" /\ k.request = ids + 1
<1>1. PICK k : k = [conn EXCEPT !.status = "REVOKING", !.epoch = 0, !.error = "none",
                                !.gmail = FALSE, !.request = ids + 1]
  OBVIOUS
<1>2. conn \in ConnRecords /\ ids + 1 \in Nat BY Basics
<1>3. k \in ConnRecords /\ k.epoch = 0 /\ k.status = "REVOKING" /\ k.request = ids + 1
  BY <1>1, <1>2 DEF ConnRecords, Statuses
<1> QED BY <1>1, <1>3 DEF Disconnect

LEMMA DisconnectKeeps == IInv /\ Disconnect => IInv'
<1> SUFFICES ASSUME IInv, Disconnect PROVE IInv'
  OBVIOUS
<1>1. PICK k \in ConnRecords :
        Overwrites(k) /\ k.epoch = 0 /\ k.status = "REVOKING" /\ k.request = ids + 1
  BY DisconnectShape
<1>2. ids \in Nat /\ ids + 1 \in Nat /\ ids + 1 # 0 /\ ids' = ids + 1 BY Basics DEF Disconnect
<1>3. Message("revoke", ids + 1) \in Messages /\ Message("revoke", ids + 1).id = ids + 1
  BY <1>2, MessageTyped
<1>4. messages' \subseteq Messages /\ losses' \in Nat /\ \A n \in messages' : n.id # 0 /\ n.id <= ids'
  BY <1>2, <1>3, SendsShape DEF Disconnect
<1>5. UNCHANGED <<calendar, flows, mailVars, grants, callVars, workVars>> BY DEF Disconnect
<1> QED BY <1>1, <1>2, <1>4, <1>5, Basics, OverwriteKeeps DEF Live, callVars

\* The mail requests move, and the messages; the connection and the workers stay.
LEMMA RequestMailKeeps ==
  ASSUME IInv, NEW k \in Kinds, RequestMail(k)
  PROVE  IInv'
<1>1. UNCHANGED <<conn, calendar, flows, recovery, grants, callVars, workVars, overtaken>>
      /\ Sends(Message(k, job'[k].id)) /\ Requestable
  BY DEF RequestMail
<1>2. conn.status \in Live /\ conn.epoch # 0 BY <1>1, Basics DEF Requestable, Linked, Live
<1>3. /\ ids' \in Nat /\ ids' >= ids /\ job' \in [Kinds -> JobRecords] /\ JobMoves
      /\ \A j \in Kinds : job'[j].id <= ids' /\ job'[j].epoch <= ids'
                          /\ (job'[j].id # 0 <=> job'[j].epoch # 0)
      /\ job'[k].id # 0
  <2>1. CASE job[k].epoch = conn.epoch /\ UNCHANGED <<job, ids>>
    BY <1>2, <2>1, Basics DEF JobMoves
  <2>2. CASE /\ job' = [job EXCEPT ![k] = [id |-> ids + 1, epoch |-> conn.epoch, status |-> "PENDING"]]
             /\ ids' = ids + 1
    <3>1. ids \in Nat /\ job \in [Kinds -> JobRecords] /\ conn.epoch \in Nat /\ conn.epoch <= ids
      BY Basics
    <3>2. PICK r : r = [id |-> ids + 1, epoch |-> conn.epoch, status |-> "PENDING"] OBVIOUS
    <3>3. r \in JobRecords /\ r.id = ids + 1 /\ r.epoch = conn.epoch BY <3>1, <3>2 DEF JobRecords
    <3>4. job' \in [Kinds -> JobRecords] /\ job'[k] = r /\ \A j \in Kinds \ {k} : job'[j] = job[j]
      BY <2>2, <3>1, <3>2, <3>3
    <3>5. JobMoves BY <3>1, <3>3, <3>4 DEF JobMoves
    <3>6. \A j \in Kinds \ {k} : job[j].id \in Nat /\ job[j].epoch \in Nat /\ job[j].id <= ids
            /\ job[j].epoch <= ids /\ (job[j].id # 0 <=> job[j].epoch # 0)
      BY Basics
    <3> QED BY <1>2, <2>2, <3>1, <3>3, <3>4, <3>5, <3>6
  <2> QED BY <2>1, <2>2 DEF RequestMail
<1>4. job'[k].id \in Nat /\ job'[k].id <= ids' BY <1>3 DEF JobRecords
<1>5. Message(k, job'[k].id) \in Messages /\ Message(k, job'[k].id).id = job'[k].id
  BY <1>4, MessageTyped
<1>6. messages' \subseteq Messages /\ losses' \in Nat /\ \A n \in messages' : n.id # 0 /\ n.id <= ids'
  BY <1>1, <1>3, <1>4, <1>5, SendsShape
<1>7. Typed' BY <1>1, <1>3, <1>6, Basics DEF Typed, LinkTyped, MailTyped, WorkTyped, callVars, workVars
<1>8. Named'
  <2>1. conn'.epoch <= ids' /\ conn'.request <= ids' /\ (conn'.epoch # 0 <=> conn'.status \in Live)
    BY <1>1, <1>3, Basics
  <2> QED BY <1>3, <1>6, <2>1 DEF Named
<1>9. Moved BY <1>1, <1>3 DEF Moved, KeptConn
<1> QED BY <1>1, <1>7, <1>8, <1>9, Assembled DEF workVars, Overtaking

----------------------------------------------------------------------------
(***************************************************************************)
(* Worker steps.                                                           *)
(***************************************************************************)
ItemsKept == LinkTyped' /\ MailTyped' /\ Named' /\ Moved

\* One worker moves, and is overtaken as before at most.
LEMMA WorkStep_ ==
  ASSUME IInv, NEW w \in Workers, NEW to \in WorkStates, NEW r \in WorkRecords,
         Moves(w, to), work' = [work EXCEPT ![w] = r], ItemsKept,
         overtaken' \subseteq overtaken,
         at'[w] = to /\ work'[w] = r => WorkInv(w)'
  PROVE  IInv'
<1>1. at'[w] = to /\ work'[w] = r /\ WorkTyped' BY Basics DEF WorkTyped, Moves
<1>2. \A v \in Workers \ {w} : at'[v] = at[v] /\ work'[v] = work[v] BY Basics DEF Moves
<1>3. Typed' BY <1>1 DEF Typed, ItemsKept
<1> QED BY <1>1, <1>2, <1>3, Assembled DEF ItemsKept, Overtaking

LEMMA RestKeeps ==
  ASSUME IInv, NEW w \in Workers, Rests(w), ItemsKept
  PROVE  IInv'
<1>1. ids' \in Nat BY DEF ItemsKept, MailTyped
<1>2. w \notin overtaken' /\ overtaken' \subseteq overtaken BY DEF Rests
<1>3. ASSUME at'[w] = "idle", work'[w] = NoWork PROVE WorkInv(w)'
  BY <1>1, <1>2, <1>3, NoneTyped, KindsApart DEF WorkInv, Guarding
<1>4. "idle" \in WorkStates BY DEF WorkStates
<1> QED BY <1>2, <1>3, <1>4, NoneTyped, WorkStep_ DEF Rests

\* The items stay, but for a message that comes back.
LEMMA ItemsStay ==
  ASSUME IInv, UNCHANGED <<tableVars, grants, ids, call>>, losses' \in Nat,
         messages' \subseteq Messages, \A n \in messages' : n.id # 0 /\ n.id <= ids
  PROVE  ItemsKept
<1>1. LinkTyped' BY Basics DEF LinkTyped, tableVars
<1>2. MailTyped' BY Basics DEF MailTyped, tableVars, mailVars
<1>3. Named' BY DEF IInv, Named, tableVars, mailVars
<1>4. Moved BY Basics DEF Moved, KeptConn, JobMoves, tableVars, mailVars
<1> QED BY <1>1, <1>2, <1>3, <1>4 DEF ItemsKept

LEMMA RetriesShape ==
  ASSUME IInv, NEW w \in Workers, Retries(w)
  PROVE  messages' \subseteq Messages /\ \A n \in messages' : n.id # 0 /\ n.id <= ids
<1>1. messages' = messages \cup Returned(work[w].message) BY DEF Retries
<1>2. work[w].message \in Messages \cup {NoMessage} /\ work[w].message.id <= ids
  BY WorkFacts DEF WorkInv
<1>3. \A n \in Returned(work[w].message) : n \in Messages /\ n.id = work[w].message.id
  BY <1>2, ReturnedShape
<1>4. Returned(work[w].message) # {} => work[w].message.id # 0
  <2>1. NoMessage.left = 0 BY DEF NoMessage
  <2>2. Returned(work[w].message) # {} => work[w].message \in Messages
    BY <1>2, <2>1 DEF Returned
  <2>3. work[w].message \in Messages => work[w].message.kind # "none"
    BY KindsApart DEF Messages
  <2> QED BY <2>2, <2>3, WorkFacts DEF WorkInv
<1> QED BY <1>1, <1>2, <1>3, <1>4, Basics

LEMMA RetryOnly ==
  ASSUME IInv, NEW w \in Workers, Retries(w), UNCHANGED <<tableVars, grants, ids, call>>,
         losses' \in Nat
  PROVE  IInv'
<1>1. ItemsKept BY RetriesShape, ItemsStay
<1> QED BY <1>1, RestKeeps DEF Retries

LEMMA TakeKeeps ==
  ASSUME IInv, NEW w \in Workers, NEW m \in messages, Take(w, m)
  PROVE  IInv'
<1>1. PICK to \in {"revoking", "ensuring", "setting", "recovering", "answering"} :
        /\ Takes(w, m, to)
        /\ to \in Guarding => conn.status \in Live
        /\ to \in {"recovering", "answering"} => m.kind \in Kinds
  <2>1. "revoking" \notin Guarding /\ "ensuring" \notin Guarding /\ "answering" \notin Guarding
    BY DEF Guarding
  <2>2. CASE Revocable(m) /\ Takes(w, m, "revoking") BY <2>1, <2>2
  <2>3. CASE Settable(m) /\ Takes(w, m, IF Linked(conn) THEN "ensuring" ELSE "setting")
    BY <2>1, <2>3 DEF Settable, Live
  <2>4. CASE Recoverable(m) /\ Takes(w, m, IF ~Resuming(m) THEN "recovering"
                                           ELSE IF Linked(conn) THEN "ensuring" ELSE "setting")
    BY <2>1, <2>4 DEF Recoverable, Live
  <2>5. CASE Workable(m) /\ Takes(w, m, "answering") BY <2>1, <2>5 DEF Workable
  <2> QED BY <2>2, <2>3, <2>4, <2>5 DEF Take
<1>2. PICK r : r = [message |-> m, epoch |-> conn.epoch, status |-> conn.status,
                    account |-> None, todo |-> Kinds]
  OBVIOUS
<1>3. /\ at[w] = "idle" /\ messages' = messages \ {m} /\ Moves(w, to)
      /\ work' = [work EXCEPT ![w] = r]
      /\ UNCHANGED <<tableVars, grants, ids, lossVars, callVars, overtaken>>
  BY <1>1, <1>2 DEF Takes
<1>4. m \in Messages /\ m.id # 0 /\ m.id <= ids BY Basics
<1>5. r \in WorkRecords BY <1>2, <1>4, Basics DEF WorkRecords, MaybeAccounts
<1>6. to \in WorkStates BY <1>1 DEF WorkStates, Revoking, Guarding, Serving
<1>7. w \notin overtaken BY <1>3, WorkFacts DEF WorkInv
<1>8. ItemsKept BY <1>3, Basics, ItemsStay DEF lossVars, callVars
<1>9. ASSUME at'[w] = to, work'[w] = r PROVE WorkInv(w)'
  <2>1. /\ work'[w].message = m /\ work'[w].epoch = conn.epoch /\ work'[w].status = conn.status
        /\ ids' = ids /\ overtaken' = overtaken
    BY <1>2, <1>3, <1>9
  <2>2. to \notin Kinds /\ to # "unauthorized" BY <1>1, KindsApart DEF Revoking, Guarding
  <2>3. to \in Guarding => conn.epoch # 0 /\ conn.status \in Live BY <1>1, Basics
  <2> QED BY <1>1, <1>4, <1>7, <1>9, <2>1, <2>2, <2>3, Basics DEF WorkInv
<1> QED BY <1>3, <1>5, <1>6, <1>8, <1>9, WorkStep_

LEMMA DropKeeps ==
  ASSUME IInv, NEW m \in messages, Drop(m)
  PROVE  IInv'
<1>1. UNCHANGED <<tableVars, grants, ids, losses, call, workVars, overtaken>>
      /\ messages' = messages \ {m}
  BY DEF Drop, lossVars, callVars
<1>2. ItemsKept BY <1>1, Basics, ItemsStay
<1>3. Typed' BY <1>1, <1>2, Basics DEF Typed, WorkTyped, workVars, ItemsKept
<1> QED BY <1>1, <1>2, <1>3, Assembled DEF ItemsKept, workVars, Overtaking

\* A worker goes on, having read no more than that.
LEMMA GoesOn ==
  ASSUME IInv, NEW w \in Workers, NEW to \in WorkStates, NEW r \in WorkRecords,
         Moves(w, to), work' = [work EXCEPT ![w] = r], r.message = work[w].message,
         r.epoch = work[w].epoch, r.status = work[w].status,
         ItemsKept, ids' = ids, overtaken' = overtaken, KeptConn,
         \/ at[w] \in Revoking /\ to \in Revoking
         \/ at[w] \in Guarding /\ to \in (Guarding \ {"recovering"}) \cup {"unauthorized"}
  PROVE  IInv'
<1>1. WorkInv(w) /\ work[w].epoch \in Nat /\ work[w].message.id \in Nat BY WorkFacts
<1>2. to \notin Kinds /\ to # "answering" /\ to \notin Serving /\ to # "idle"
      /\ to # "recovering"
  BY KindsApart DEF Revoking, Guarding, Serving
<1>3. at[w] \in Revoking => at[w] \notin Guarding /\ to \notin Guarding /\ to # "unauthorized"
  BY DEF Revoking, Guarding
<1>4. to \in Revoking => at[w] \in Revoking BY DEF Revoking, Guarding
<1>5. to \in Guarding \cup {"unauthorized"} => at[w] \in Guarding
  BY DEF Revoking, Guarding
<1>6. ASSUME at'[w] = to, work'[w] = r PROVE WorkInv(w)'
  <2>1. to \in Guarding => r.status \in Live BY <1>1, <1>5 DEF WorkInv
  <2>2. to \in Guarding \cup {"unauthorized"} => r.epoch # 0 BY <1>1, <1>5 DEF WorkInv
  <2>3. w \in overtaken /\ to \in Revoking =>
          ~(conn'.status = "REVOKING" /\ conn'.request = r.message.id)
    BY <1>1, <1>4 DEF WorkInv, Awaited, KeptConn
  <2>4. w \in overtaken /\ to \in Guarding \cup {"unauthorized"} => conn'.epoch # r.epoch
    BY <1>1, <1>5 DEF WorkInv, KeptConn
  <2> QED BY <1>1, <1>2, <1>6, <2>1, <2>2, <2>3, <2>4 DEF WorkInv, Awaited
<1> QED BY <1>6, WorkStep_

LEMMA RevokeKeeps ==
  ASSUME IInv, NEW w \in Workers, Revoke(w)
  PROVE  IInv'
<1>1. UNCHANGED <<tableVars, messages, ids, lossVars, callVars, work, overtaken>>
      /\ at[w] = "revoking" /\ Moves(w, "revoked") /\ GoogleRevokes
  BY DEF Revoke
<1>2. LinkTyped' BY <1>1, Basics, RevokesTyped DEF LinkTyped, tableVars, callVars
<1>3. MailTyped' /\ Named'
  BY <1>1 DEF IInv, Typed, MailTyped, Named, tableVars, mailVars, lossVars
<1>4. KeptConn /\ Moved BY <1>1, Basics DEF Moved, KeptConn, JobMoves, tableVars, mailVars
<1>5. work' = [work EXCEPT ![w] = work[w]] BY <1>1, Basics
<1>6. "revoked" \in WorkStates BY DEF WorkStates, Revoking
<1> QED BY <1>1, <1>2, <1>3, <1>4, <1>5, <1>6, WorkFacts, GoesOn DEF ItemsKept, Revoking

LEMMA InvokeSetupKeeps ==
  ASSUME IInv, NEW w \in Workers, InvokeSetup(w)
  PROVE  IInv'
<1>1. UNCHANGED <<tableVars, outsideVars, callVars, overtaken>> /\ at[w] = "setting"
  BY DEF InvokeSetup
<1>2. ItemsKept /\ ids' = ids
  BY <1>1, Basics, ItemsStay DEF outsideVars, lossVars, callVars
<1>3. KeptConn BY <1>1 DEF KeptConn, tableVars
<1>4. CASE Moves(w, "connecting") /\ work' = [work EXCEPT ![w].account = grants.mail]
  <2>1. PICK r : r = [work[w] EXCEPT !.account = grants.mail] OBVIOUS
  <2>2. grants.mail \in MaybeAccounts BY Basics DEF GrantRecords
  <2>3. /\ r \in WorkRecords /\ r.message = work[w].message /\ r.epoch = work[w].epoch
        /\ r.status = work[w].status
    BY <2>1, <2>2, WorkFacts DEF WorkRecords
  <2>4. work' = [work EXCEPT ![w] = r] BY <1>4, <2>1, Basics
  <2>5. "connecting" \in WorkStates BY DEF WorkStates, Guarding
  <2> QED BY <1>1, <1>2, <1>3, <1>4, <2>3, <2>4, <2>5, GoesOn DEF Guarding
<1>5. ASSUME NEW to \in {"unauthorized", "failing"}, Moves(w, to), UNCHANGED work PROVE IInv'
  <2>1. work' = [work EXCEPT ![w] = work[w]] BY <1>5, Basics
  <2>2. to \in WorkStates BY DEF WorkStates, Guarding
  <2>3. work[w] \in WorkRecords BY WorkFacts
  <2> QED BY <1>1, <1>2, <1>3, <1>5, <2>1, <2>2, <2>3, GoesOn DEF Guarding
<1> QED BY <1>4, <1>5 DEF InvokeSetup

LEMMA WorkerDiesKeeps ==
  ASSUME IInv, NEW w \in Workers, WorkerDies(w)
  PROVE  IInv'
<1>1. losses' \in Nat BY Basics DEF WorkerDies
<1> QED BY <1>1, RetryOnly DEF WorkerDies, callVars

\* Maintenance starts from a connection that lives.
LEMMA MaintainKeeps ==
  ASSUME IInv, NEW w \in Workers, Maintain(w)
  PROVE  IInv'
<1>1. UNCHANGED <<tableVars, outsideVars, callVars, overtaken>> /\ at[w] = "idle"
      /\ Moves(w, "unauthorized") /\ work' = [work EXCEPT ![w].epoch = conn.epoch]
      /\ conn.status = "CONNECTED"
  BY DEF Maintain, Linked
<1>2. ItemsKept /\ ids' = ids
  BY <1>1, Basics, ItemsStay DEF outsideVars, lossVars, callVars
<1>3. PICK r : r = [work[w] EXCEPT !.epoch = conn.epoch] OBVIOUS
<1>4. r \in WorkRecords /\ r.message = work[w].message /\ r.epoch = conn.epoch
  BY <1>3, Basics, WorkFacts DEF WorkRecords
<1>5. work' = [work EXCEPT ![w] = r] BY <1>1, <1>3, Basics
<1>6. w \notin overtaken BY <1>1, WorkFacts DEF WorkInv
<1>7. conn.epoch # 0 BY <1>1, Basics DEF Live
<1>8. ASSUME at'[w] = "unauthorized", work'[w] = r PROVE WorkInv(w)'
  BY <1>1, <1>2, <1>4, <1>6, <1>7, <1>8, Basics, WorkFacts, KindsApart
  DEF WorkInv, Guarding
<1>9. "unauthorized" \in WorkStates BY DEF WorkStates
<1> QED BY <1>1, <1>2, <1>4, <1>5, <1>8, <1>9, WorkStep_

\* The connection moves within its epoch, and the mail requests keep their names.
LEMMA ItemsMove ==
  ASSUME IInv, conn' \in ConnRecords, KeptConn, conn'.request <= ids,
         conn'.epoch # 0 <=> conn'.status \in Live,
         job' \in [Kinds -> JobRecords],
         \A k \in Kinds : job'[k].id = job[k].id /\ job'[k].epoch = job[k].epoch,
         UNCHANGED <<calendar, flows, recovery, grants, ids, call>>, losses' \in Nat,
         messages' \subseteq Messages, \A n \in messages' : n.id # 0 /\ n.id <= ids
  PROVE  ItemsKept
<1>1. LinkTyped' BY Basics DEF LinkTyped
<1>2. MailTyped' BY Basics DEF MailTyped
<1>3. Named'
  <2>1. conn'.epoch <= ids' BY Basics DEF KeptConn
  <2>2. \A k \in Kinds : job'[k].id <= ids' /\ job'[k].epoch <= ids'
                         /\ (job'[k].id # 0 <=> job'[k].epoch # 0)
    BY Basics
  <2> QED BY <2>1, <2>2 DEF Named
<1>4. Moved BY Basics DEF Moved, JobMoves
<1> QED BY <1>1, <1>2, <1>3, <1>4 DEF ItemsKept

LEMMA ConnMoves ==
  ASSUME IInv, conn' \in ConnRecords, KeptConn, conn'.request <= ids,
         conn'.epoch # 0 <=> conn'.status \in Live,
         UNCHANGED <<calendar, flows, mailVars, grants, ids, call>>, losses' \in Nat,
         messages' \subseteq Messages, \A n \in messages' : n.id # 0 /\ n.id <= ids
  PROVE  ItemsKept
  BY Basics, ItemsMove DEF mailVars

LEMMA RevokeCompleteKeeps ==
  ASSUME IInv, NEW w \in Workers, RevokeComplete(w)
  PROVE  IInv'
<1>1. UNCHANGED <<calendar, flows, mailVars, outsideVars, callVars>> /\ Rests(w)
      /\ conn' = IF Awaited(w)
                 THEN [conn EXCEPT !.status = "DISCONNECTED", !.account = None, !.request = 0] ELSE conn
  BY DEF RevokeComplete
<1>2. conn \in ConnRecords BY Basics
<1>3. /\ conn' \in ConnRecords /\ KeptConn /\ conn'.request <= ids
      /\ (conn'.epoch # 0 <=> conn'.status \in Live)
  <2>1. CASE Awaited(w)
    <3>1. /\ conn' \in ConnRecords /\ conn'.status = "DISCONNECTED" /\ conn'.request = 0
          /\ conn'.epoch = conn.epoch
      BY <1>1, <1>2, <2>1 DEF ConnRecords, Statuses, MaybeAccounts
    <3>2. conn.epoch = 0 BY <2>1, Basics DEF Awaited, Live
    <3> QED BY <3>1, <3>2, Basics DEF KeptConn, Live
  <2>2. CASE ~Awaited(w) BY <1>1, <2>2, Basics DEF KeptConn
  <2> QED BY <2>1, <2>2
<1>4. ItemsKept BY <1>1, <1>3, Basics, ConnMoves DEF outsideVars, lossVars, callVars
<1> QED BY <1>1, <1>4, RestKeeps

\* A worker whose guard holds is not overtaken.
LEMMA GuardedIsFirst ==
  ASSUME IInv, NEW w \in Workers, at[w] \in Guarding, Guarded(w)
  PROVE  w \notin overtaken /\ conn.status \in Live /\ conn.epoch # 0
  BY WorkFacts DEF WorkInv, Guarded

LEMMA SetupKeeps ==
  ASSUME IInv, NEW w \in Workers, Setup(w)
  PROVE  IInv'
<1>1. UNCHANGED <<calendar, flows, mailVars, outsideVars, callVars>> /\ at[w] = "connecting"
  BY DEF Setup
<1>2. CASE ~Guarded(w)
  <2>1. Rests(w) /\ conn' = conn BY <1>2 DEF Setup
  <2>2. ItemsKept BY <1>1, <2>1, Basics, ItemsStay DEF tableVars, outsideVars, lossVars, callVars
  <2> QED BY <2>1, <2>2, RestKeeps
<1>3. CASE Guarded(w)
  <2>1. /\ conn' = [conn EXCEPT !.status = "CONNECTED", !.error = "none", !.gmail = TRUE,
                                !.account = work[w].account]
        /\ Moves(w, "ensuring") /\ UNCHANGED <<work, overtaken>>
    BY <1>3 DEF Setup
  <2>2. w \notin overtaken /\ conn.status \in Live /\ conn.epoch # 0
    BY <1>1, <1>3, GuardedIsFirst DEF Guarding
  <2>3. conn \in ConnRecords /\ work[w].account \in MaybeAccounts BY Basics, WorkFacts
  <2>4. /\ conn' \in ConnRecords /\ conn'.status = "CONNECTED" /\ conn'.epoch = conn.epoch
        /\ conn'.request = conn.request
    BY <2>1, <2>3 DEF ConnRecords, Statuses
  <2>5. KeptConn /\ conn'.request <= ids /\ (conn'.epoch # 0 <=> conn'.status \in Live)
    BY <2>2, <2>4, Basics DEF KeptConn, Live
  <2>6. ItemsKept BY <1>1, <2>4, <2>5, Basics, ConnMoves DEF outsideVars, lossVars, callVars
  <2>7. work' = [work EXCEPT ![w] = work[w]] BY <2>1, Basics
  <2>8. ASSUME at'[w] = "ensuring", work'[w] = work[w] PROVE WorkInv(w)'
    BY <1>1, <2>1, <2>2, <2>8, WorkFacts, KindsApart DEF WorkInv, Guarding, outsideVars
  <2>9. "ensuring" \in WorkStates BY DEF WorkStates, Serving
  <2> QED BY <2>1, <2>6, <2>7, <2>8, <2>9, WorkFacts, WorkStep_
<1> QED BY <1>2, <1>3

LEMMA SetupFailedKeeps ==
  ASSUME IInv, NEW w \in Workers, SetupFailed(w)
  PROVE  IInv'
<1>1. /\ UNCHANGED <<calendar, flows, mailVars, grants, ids, lossVars, callVars>>
      /\ at[w] = "failing" /\ Retries(w)
      /\ conn' = IF Guarded(w) THEN [conn EXCEPT !.status = "ERROR", !.error = "SETUP"] ELSE conn
  BY DEF SetupFailed
<1>2. /\ conn' \in ConnRecords /\ KeptConn /\ conn'.request <= ids
      /\ (conn'.epoch # 0 <=> conn'.status \in Live)
  <2>1. CASE Guarded(w)
    <3>1. conn \in ConnRecords /\ conn.epoch # 0
      BY <1>1, <2>1, Basics, GuardedIsFirst DEF Guarding
    <3>2. /\ conn' \in ConnRecords /\ conn'.status = "ERROR" /\ conn'.epoch = conn.epoch
          /\ conn'.request = conn.request
      BY <1>1, <2>1, <3>1 DEF ConnRecords, Statuses
    <3> QED BY <3>1, <3>2, Basics DEF KeptConn, Live
  <2>2. CASE ~Guarded(w) BY <1>1, <2>2, Basics DEF KeptConn
  <2> QED BY <2>1, <2>2
<1>3. ItemsKept BY <1>1, <1>2, Basics, RetriesShape, ConnMoves DEF lossVars, callVars
<1> QED BY <1>1, <1>3, RestKeeps DEF Retries

LEMMA AuthorizationRequiredKeeps ==
  ASSUME IInv, NEW w \in Workers, AuthorizationRequired(w)
  PROVE  IInv'
<1>1. UNCHANGED <<calendar, flows, recovery, outsideVars, callVars>> /\ Rests(w)
      /\ at[w] = "unauthorized"
  BY DEF AuthorizationRequired
<1>2. CASE ~OfItsEpoch(w)
  <2>1. conn' = conn /\ job' = job BY <1>2 DEF AuthorizationRequired
  <2>2. ItemsKept
    BY <1>1, <2>1, Basics, ItemsStay DEF tableVars, mailVars, outsideVars, lossVars, callVars
  <2> QED BY <1>1, <2>2, RestKeeps
<1>3. CASE OfItsEpoch(w)
  <2>1. /\ conn' = [conn EXCEPT !.status = "ERROR", !.error = "AUTH"]
        /\ job' = [k \in Kinds |-> [job[k] EXCEPT !.status = "ERROR"]]
    BY <1>3 DEF AuthorizationRequired
  <2>2. conn \in ConnRecords /\ conn.epoch # 0 BY <1>3, Basics DEF OfItsEpoch, Live
  <2>3. /\ conn' \in ConnRecords /\ conn'.status = "ERROR" /\ conn'.epoch = conn.epoch
        /\ conn'.request = conn.request
    BY <2>1, <2>2 DEF ConnRecords, Statuses
  <2>4. KeptConn /\ conn'.request <= ids /\ (conn'.epoch # 0 <=> conn'.status \in Live)
    BY <2>2, <2>3, Basics DEF KeptConn, Live
  <2>5. \A k \in Kinds : LET j == [job[k] EXCEPT !.status = "ERROR"] IN
          j \in JobRecords /\ j.id = job[k].id /\ j.epoch = job[k].epoch
    BY Basics DEF JobRecords
  <2>6. /\ job' \in [Kinds -> JobRecords]
        /\ \A k \in Kinds : job'[k].id = job[k].id /\ job'[k].epoch = job[k].epoch
    BY <2>1, <2>5
  <2>7. ItemsKept BY <1>1, <2>3, <2>4, <2>6, Basics, ItemsMove DEF outsideVars, lossVars, callVars
  <2> QED BY <1>1, <2>7, RestKeeps
<1> QED BY <1>2, <1>3

\* A mail request gets a new connection, and goes on with it.
LEMMA RecoverSetupKeeps ==
  ASSUME IInv, NEW w \in Workers, RecoverSetup(w)
  PROVE  IInv'
<1> DEFINE m == work[w].message
<1>1. UNCHANGED <<calendar, flows, grants, messages, lossVars, callVars>> /\ at[w] = "recovering"
  BY DEF RecoverSetup
<1>2. CASE ~(Guarded(w) /\ job[m.kind].id = m.id /\ job[m.kind].epoch = work[w].epoch)
  <2>1. Rests(w) /\ UNCHANGED <<conn, mailVars, ids>> BY <1>2 DEF RecoverSetup
  <2>2. ItemsKept BY <1>1, <2>1, Basics, ItemsStay DEF tableVars, lossVars, callVars
  <2> QED BY <2>1, <2>2, RestKeeps
<1>3. CASE Guarded(w) /\ job[m.kind].id = m.id /\ job[m.kind].epoch = work[w].epoch
  <2>1. /\ ids' = ids + 1
        /\ conn' = [conn EXCEPT !.status = "CONNECTING", !.epoch = ids + 1]
        /\ job' = [job EXCEPT ![m.kind].epoch = ids + 1]
        /\ recovery' = [kind |-> m.kind, id |-> m.id, epoch |-> ids + 1]
        /\ Moves(w, "setting")
        /\ work' = [work EXCEPT ![w].epoch = ids + 1, ![w].status = "CONNECTING"]
        /\ UNCHANGED overtaken
    BY <1>3 DEF RecoverSetup
  <2>2. w \notin overtaken BY <1>1, <1>3, GuardedIsFirst DEF Guarding
  <2>3. m.kind \in Kinds /\ m.id # 0 /\ m.id \in Nat
    BY <1>1, WorkFacts, KindsApart DEF WorkInv
  <2>4. ids \in Nat /\ ids + 1 \in Nat /\ ids + 1 # 0 /\ conn \in ConnRecords
        /\ job[m.kind] \in JobRecords
    BY <2>3, Basics
  <2>5. /\ conn' \in ConnRecords /\ conn'.status = "CONNECTING" /\ conn'.epoch = ids + 1
        /\ conn'.request = conn.request
    BY <2>1, <2>4 DEF ConnRecords, Statuses
  <2>6. PICK j : j = [job[m.kind] EXCEPT !.epoch = ids + 1] OBVIOUS
  <2>7. j \in JobRecords /\ j.id = m.id /\ j.epoch = ids + 1
    BY <1>3, <2>4, <2>6 DEF JobRecords
  <2>8. /\ job' \in [Kinds -> JobRecords] /\ job'[m.kind] = j
        /\ \A k \in Kinds \ {m.kind} : job'[k] = job[k]
    BY <2>1, <2>3, <2>6, <2>7, Basics
  <2>9. LinkTyped' BY <1>1, <2>5, Basics DEF LinkTyped, callVars
  <2>10. recovery' \in RecoveryRecords BY <2>1, <2>3, <2>4 DEF RecoveryRecords
  <2>11. MailTyped' BY <1>1, <2>1, <2>4, <2>8, <2>10, Basics DEF MailTyped, lossVars
  <2>12. Named'
    <3>1. conn'.epoch <= ids' /\ conn'.request <= ids' /\ (conn'.epoch # 0 <=> conn'.status \in Live)
      BY <2>1, <2>4, <2>5, Basics DEF Live
    <3>2. m.id <= ids BY WorkFacts DEF WorkInv
    <3>3. \A k \in Kinds : job'[k].id <= ids' /\ job'[k].epoch <= ids'
                           /\ (job'[k].id # 0 <=> job'[k].epoch # 0)
      <4> SUFFICES ASSUME NEW k \in Kinds
                   PROVE  job'[k].id <= ids' /\ job'[k].epoch <= ids'
                          /\ (job'[k].id # 0 <=> job'[k].epoch # 0)
        OBVIOUS
      <4>1. CASE k = m.kind
        <5>1. job'[k].id = m.id /\ job'[k].epoch = ids + 1 BY <2>7, <2>8, <4>1
        <5>2. ids' = ids + 1 BY <2>1
        <5>3. m.id <= ids + 1 /\ m.id # 0 BY <2>3, <2>4, <3>2
        <5> QED BY <2>4, <5>1, <5>2, <5>3
      <4>2. CASE k # m.kind BY <2>1, <2>4, <2>8, <4>2, Basics
      <4> QED BY <4>1, <4>2
    <3>4. \A n \in messages' : n.id # 0 /\ n.id <= ids' BY <1>1, <2>1, Basics
    <3> QED BY <3>1, <3>3, <3>4 DEF Named
  <2>13. Moved
    <3>1. NewConn
      <4>1. conn'.epoch > ids BY <2>4, <2>5
      <4> QED BY <2>5, <4>1 DEF NewConn
    <3>2. job[m.kind].epoch = conn.epoch BY <1>3 DEF Guarded
    <3>3. JobMoves BY <1>3, <2>5, <2>7, <2>8, <3>2 DEF JobMoves
    <3> QED BY <2>1, <2>4, <3>1, <3>3 DEF Moved
  <2>14. PICK r : r = [work[w] EXCEPT !.epoch = ids + 1, !.status = "CONNECTING"] OBVIOUS
  <2>15. r \in WorkRecords /\ r.message = m /\ r.epoch = ids + 1 /\ r.status = "CONNECTING"
    <3>1. work[w] \in WorkRecords BY WorkFacts
    <3> QED BY <2>4, <2>14, <3>1 DEF WorkRecords, Statuses
  <2>16. work' = [work EXCEPT ![w] = r] BY <2>1, <2>14, Basics
  <2>17. ASSUME at'[w] = "setting", work'[w] = r PROVE WorkInv(w)'
    <3>1. m.id <= ids' /\ r.epoch <= ids' BY <2>1, <2>4, <2>15, WorkFacts DEF WorkInv
    <3>2. "setting" \notin Kinds BY KindsApart DEF Guarding
    <3> QED BY <2>1, <2>2, <2>3, <2>4, <2>15, <2>17, <3>1, <3>2 DEF WorkInv, Live
  <2>18. "setting" \in WorkStates BY DEF WorkStates, Guarding
  <2> QED BY <2>1, <2>9, <2>11, <2>12, <2>13, <2>15, <2>16, <2>17, <2>18, WorkStep_ DEF ItemsKept
<1> QED BY <1>2, <1>3

LEMMA EnsureJobKeeps ==
  ASSUME IInv, NEW w \in Workers, EnsureJob(w)
  PROVE  IInv'
<1> DEFINE m == work[w].message
<1>1. /\ UNCHANGED <<conn, calendar, flows, recovery, grants, messages, lossVars, callVars, overtaken>>
      /\ at[w] = "ensuring" /\ conn.status = "CONNECTED"
  BY DEF EnsureJob, Linked
<1>2. PICK k \in work[w].todo :
        /\ work' = [work EXCEPT ![w].todo = @ \ {k}]
        /\ IF Served(k) THEN UNCHANGED <<job, ids, at>>
           ELSE /\ IF Fresh(k)
                   THEN /\ job' = [job EXCEPT ![k] = [id |-> ids + 1, epoch |-> conn.epoch,
                                                      status |-> "PENDING"]]
                        /\ ids' = ids + 1
                   ELSE UNCHANGED <<job, ids>>
                /\ Moves(w, k)
  BY DEF EnsureJob
<1>3. k \in Kinds /\ conn.epoch # 0 BY <1>1, <1>2, Basics, WorkFacts DEF Live
<1>4. ids \in Nat /\ conn.epoch \in Nat /\ conn.epoch <= ids /\ job \in [Kinds -> JobRecords] BY Basics
<1>5. /\ ids' \in Nat /\ ids' >= ids /\ job' \in [Kinds -> JobRecords]
      /\ \A j \in Kinds : job'[j].id > ids \/ job'[j] = job[j]
      /\ \A j \in Kinds : job'[j].id <= ids' /\ job'[j].epoch <= ids'
                          /\ (job'[j].id # 0 <=> job'[j].epoch # 0)
      /\ (~Served(k) => job'[k].id # 0)
  <2>1. CASE Served(k) \/ ~Fresh(k)
    <3>1. job' = job /\ ids' = ids BY <1>2, <2>1
    <3>2. job[k].epoch = conn.epoch BY <2>1 DEF Served, Fresh
    <3> QED BY <1>3, <1>4, <3>1, <3>2, Basics
  <2>2. CASE ~Served(k) /\ Fresh(k)
    <3>1. PICK r : r = [id |-> ids + 1, epoch |-> conn.epoch, status |-> "PENDING"] OBVIOUS
    <3>2. r \in JobRecords /\ r.id = ids + 1 /\ r.epoch = conn.epoch BY <1>4, <3>1 DEF JobRecords
    <3>3. job' = [job EXCEPT ![k] = r] /\ ids' = ids + 1 BY <1>2, <2>2, <3>1
    <3>4. job' \in [Kinds -> JobRecords] /\ job'[k] = r /\ \A j \in Kinds \ {k} : job'[j] = job[j]
      BY <1>3, <1>4, <3>2, <3>3
    <3>5. job'[k].id = ids + 1 /\ job'[k].epoch = conn.epoch BY <3>2, <3>4
    <3>6. \A j \in Kinds \ {k} : job'[j].id <= ids' /\ job'[j].epoch <= ids'
            /\ (job'[j].id # 0 <=> job'[j].epoch # 0)
      BY <1>4, <3>3, <3>4, Basics
    <3> QED BY <1>3, <1>4, <3>3, <3>4, <3>5, <3>6
  <2> QED BY <2>1, <2>2
<1>6. ItemsKept
  <2>1. LinkTyped' BY <1>1, Basics DEF LinkTyped, callVars
  <2>2. MailTyped' BY <1>1, <1>5, Basics DEF MailTyped, lossVars
  <2>3. Named'
    <3>1. conn'.epoch <= ids' /\ conn'.request <= ids' /\ (conn'.epoch # 0 <=> conn'.status \in Live)
      BY <1>1, <1>4, <1>5, Basics
    <3>2. \A n \in messages' : n.id # 0 /\ n.id <= ids' BY <1>1, <1>4, <1>5, Basics
    <3> QED BY <1>5, <3>1, <3>2 DEF Named
  <2>4. Moved BY <1>1, <1>5 DEF Moved, KeptConn, JobMoves
  <2> QED BY <2>1, <2>2, <2>3, <2>4 DEF ItemsKept
<1>7. PICK r : r = [work[w] EXCEPT !.todo = @ \ {k}] OBVIOUS
<1>8. work[w] \in WorkRecords BY WorkFacts
<1>9. r \in WorkRecords /\ r.message = m /\ r.epoch = work[w].epoch /\ r.status = work[w].status
  BY <1>7, <1>8 DEF WorkRecords
<1>10. work' = [work EXCEPT ![w] = r] BY <1>2, <1>7, Basics
<1>11. ASSUME NEW to \in {"ensuring", k}, at'[w] = to, work'[w] = r, to = k => ~Served(k)
       PROVE  WorkInv(w)'
  <2>1. WorkInv(w) /\ m.id \in Nat /\ work[w].epoch \in Nat BY WorkFacts
  <2>2. to \in Serving /\ to \notin Revoking /\ to \notin Guarding /\ to # "idle"
        /\ to # "unauthorized" /\ to # "recovering" /\ to # "answering"
    BY <1>3, <1>11, KindsApart DEF Serving, Revoking, Guarding
  <2>3. to \in Kinds => job'[to].id # 0 BY <1>3, <1>5, <1>11, KindsApart
  <2>4. m.id <= ids' /\ work[w].epoch <= ids' BY <1>4, <1>5, <2>1 DEF WorkInv
  <2>5. ASSUME w \in overtaken, m.kind \in Kinds
        PROVE  ~(job'[m.kind].id = m.id /\ job'[m.kind].epoch = conn'.epoch)
    <3>1. ~(job[m.kind].id = m.id /\ job[m.kind].epoch = conn.epoch)
      BY <1>1, <2>1, <2>5 DEF WorkInv, Serves, Serving
    <3>2. m.id <= ids BY <2>1 DEF WorkInv
    <3> QED BY <1>1, <1>4, <1>5, <2>1, <2>5, <3>1, <3>2
  <2> QED BY <1>1, <1>9, <1>11, <2>1, <2>2, <2>3, <2>4, <2>5 DEF WorkInv, Serves
<1>12. CASE Served(k)
  <2>1. at'[w] = "ensuring" /\ Moves(w, "ensuring") BY <1>1, <1>2, <1>12, Basics DEF Moves
  <2>2. "ensuring" # k /\ "ensuring" \in WorkStates BY <1>3, KindsApart DEF WorkStates, Serving
  <2> QED BY <1>1, <1>6, <1>9, <1>10, <1>11, <2>1, <2>2, WorkStep_
<1>13. CASE ~Served(k)
  <2>1. Moves(w, k) BY <1>2, <1>13
  <2>2. k \in WorkStates BY <1>3 DEF WorkStates, Serving
  <2> QED BY <1>1, <1>6, <1>9, <1>10, <1>11, <1>13, <2>1, <2>2, WorkStep_
<1> QED BY <1>12, <1>13

LEMMA SendJobKeeps ==
  ASSUME IInv, NEW w \in Workers, SendJob(w)
  PROVE  IInv'
<1>1. PICK k \in Kinds :
        /\ at[w] = k
        /\ \/ /\ messages' = messages \cup {Message(k, job[k].id)}
              /\ Moves(w, "ensuring") /\ UNCHANGED <<job, lossVars, work, overtaken>>
           \/ /\ losses < MaxLosses /\ losses' = losses + 1
              /\ job' = [job EXCEPT ![k].status = "ERROR"] /\ Retries(w)
        /\ UNCHANGED <<conn, calendar, flows, recovery, grants, ids, unsent, callVars>>
  BY DEF SendJob
<1>2. WorkInv(w) BY WorkFacts
<1>3. job[k].id # 0 /\ job[k].id \in Nat /\ job[k].id <= ids BY <1>1, <1>2, Basics DEF WorkInv
<1>4. conn' \in ConnRecords /\ KeptConn /\ conn'.request <= ids
      /\ (conn'.epoch # 0 <=> conn'.status \in Live)
  BY <1>1, Basics DEF KeptConn
<1>5. CASE /\ messages' = messages \cup {Message(k, job[k].id)}
           /\ Moves(w, "ensuring") /\ UNCHANGED <<job, lossVars, work, overtaken>>
  <2>1. Message(k, job[k].id) \in Messages /\ Message(k, job[k].id).id = job[k].id
    BY <1>3, MessageTyped
  <2>2. messages' \subseteq Messages /\ \A n \in messages' : n.id # 0 /\ n.id <= ids
    BY <1>3, <1>5, <2>1, Basics
  <2>3. ItemsKept BY <1>1, <1>5, <2>2, Basics, ItemsStay DEF tableVars, mailVars, lossVars, callVars
  <2>4. work' = [work EXCEPT ![w] = work[w]] BY <1>5, Basics
  <2>5. ASSUME at'[w] = "ensuring", work'[w] = work[w] PROVE WorkInv(w)'
    <3>1. "ensuring" \notin Guarding /\ "ensuring" \notin Revoking /\ "ensuring" \notin Kinds
      BY KindsApart DEF Guarding, Revoking
    <3>2. at[w] \in Serving BY <1>1 DEF Serving
    <3> QED BY <1>1, <1>2, <1>5, <2>5, <3>1, <3>2 DEF WorkInv, Serves
  <2>6. "ensuring" \in WorkStates BY DEF WorkStates, Serving
  <2> QED BY <1>5, <2>3, <2>4, <2>5, <2>6, WorkFacts, WorkStep_
<1>6. CASE /\ losses' = losses + 1 /\ job' = [job EXCEPT ![k].status = "ERROR"] /\ Retries(w)
  <2>1. PICK j : j = [job[k] EXCEPT !.status = "ERROR"] OBVIOUS
  <2>2. job[k] \in JobRecords BY Basics
  <2>3. j \in JobRecords /\ j.id = job[k].id /\ j.epoch = job[k].epoch BY <2>1, <2>2 DEF JobRecords
  <2>4. /\ job' \in [Kinds -> JobRecords]
        /\ \A i \in Kinds : job'[i].id = job[i].id /\ job'[i].epoch = job[i].epoch
    BY <1>6, <2>1, <2>3, Basics
  <2>5. ItemsKept BY <1>1, <1>4, <1>6, <2>4, Basics, RetriesShape, ItemsMove DEF callVars
  <2> QED BY <1>6, <2>5, RestKeeps DEF Retries
<1> QED BY <1>1, <1>5, <1>6

LEMMA EnsuredAllKeeps ==
  ASSUME IInv, NEW w \in Workers, EnsuredAll(w)
  PROVE  IInv'
<1>1. UNCHANGED <<tableVars, outsideVars, callVars>> /\ at[w] = "ensuring" BY DEF EnsuredAll
<1>2. ItemsKept BY <1>1, Basics, ItemsStay DEF outsideVars, lossVars, callVars
<1>3. CASE Rests(w) BY <1>2, <1>3, RestKeeps
<1>4. CASE work[w].message.kind \in Kinds /\ Moves(w, "answering") /\ UNCHANGED <<work, overtaken>>
  <2>1. work' = [work EXCEPT ![w] = work[w]] BY <1>4, Basics
  <2>2. ASSUME at'[w] = "answering", work'[w] = work[w] PROVE WorkInv(w)'
    <3>1. "answering" \notin Guarding /\ "answering" \notin Revoking /\ "answering" \notin Kinds
      BY KindsApart DEF Guarding, Revoking
    <3> QED BY <1>1, <1>4, <2>2, <3>1, WorkFacts
        DEF WorkInv, Serves, Serving, tableVars, mailVars, outsideVars
  <2>3. "answering" \in WorkStates BY DEF WorkStates, Serving
  <2> QED BY <1>2, <1>4, <2>1, <2>2, <2>3, WorkFacts, WorkStep_
<1> QED BY <1>3, <1>4 DEF EnsuredAll

LEMMA AnswerKeeps ==
  ASSUME IInv, NEW w \in Workers, Answer(w)
  PROVE  IInv'
<1> DEFINE m == work[w].message
<1>1. UNCHANGED <<conn, calendar, flows, recovery, grants, ids, lossVars, callVars>>
      /\ at[w] = "answering"
  BY DEF Answer
<1>2. m.kind \in Kinds /\ WorkInv(w) BY <1>1, WorkFacts DEF WorkInv
<1>3. conn' \in ConnRecords /\ KeptConn /\ conn'.request <= ids
      /\ (conn'.epoch # 0 <=> conn'.status \in Live)
  BY <1>1, Basics DEF KeptConn
<1>4. ASSUME NEW status \in {"READY", "ERROR"}, job' = [job EXCEPT ![m.kind].status = status],
             messages' \subseteq Messages, \A n \in messages' : n.id # 0 /\ n.id <= ids
      PROVE  ItemsKept
  <2>1. PICK j : j = [job[m.kind] EXCEPT !.status = status] OBVIOUS
  <2>2. job[m.kind] \in JobRecords BY <1>2, Basics
  <2>3. j \in JobRecords /\ j.id = job[m.kind].id /\ j.epoch = job[m.kind].epoch
    BY <2>1, <2>2 DEF JobRecords
  <2>4. /\ job' \in [Kinds -> JobRecords]
        /\ \A i \in Kinds : job'[i].id = job[i].id /\ job'[i].epoch = job[i].epoch
    BY <1>2, <1>4, <2>1, <2>3, Basics
  <2> QED BY <1>1, <1>3, <1>4, <2>4, Basics, ItemsMove DEF lossVars, callVars
<1>5. CASE Rests(w) /\ UNCHANGED <<job, messages>>
  <2>1. ItemsKept BY <1>1, <1>5, Basics, ItemsStay DEF tableVars, mailVars, lossVars, callVars
  <2> QED BY <1>5, <2>1, RestKeeps
<1>6. CASE Rests(w) /\ UNCHANGED messages /\ job' = [job EXCEPT ![m.kind].status = "READY"]
  <2>1. ItemsKept BY <1>4, <1>6, Basics
  <2> QED BY <1>6, <2>1, RestKeeps
<1>7. CASE Retries(w) /\ job' = [job EXCEPT ![m.kind].status = "ERROR"]
  <2>1. ItemsKept BY <1>4, <1>7, RetriesShape
  <2> QED BY <1>7, <2>1, RestKeeps DEF Retries
<1>8. CASE /\ Linked(conn) /\ job[m.kind].id = m.id /\ job[m.kind].epoch = conn.epoch
           /\ Moves(w, "unauthorized") /\ work' = [work EXCEPT ![w].epoch = conn.epoch]
           /\ UNCHANGED <<job, messages, overtaken>>
  <2>1. ItemsKept BY <1>1, <1>8, Basics, ItemsStay DEF tableVars, mailVars, lossVars, callVars
  <2>2. PICK r : r = [work[w] EXCEPT !.epoch = conn.epoch] OBVIOUS
  <2>3. work[w] \in WorkRecords /\ conn.epoch \in Nat BY Basics, WorkFacts
  <2>4. r \in WorkRecords /\ r.message = m /\ r.epoch = conn.epoch
    BY <2>2, <2>3 DEF WorkRecords
  <2>5. work' = [work EXCEPT ![w] = r] BY <1>8, <2>2, Basics
  <2>6. w \notin overtaken BY <1>1, <1>2, <1>8 DEF WorkInv, Serves, Serving
  <2>7. conn.epoch # 0 /\ conn.epoch <= ids BY <1>8, Basics DEF Linked, Live
  <2>8. ASSUME at'[w] = "unauthorized", work'[w] = r PROVE WorkInv(w)'
    <3>1. "unauthorized" \notin Guarding /\ "unauthorized" \notin Kinds
      BY KindsApart DEF Guarding
    <3> QED BY <1>1, <1>2, <1>8, <2>4, <2>6, <2>7, <2>8, <3>1 DEF WorkInv
  <2>9. "unauthorized" \in WorkStates BY DEF WorkStates
  <2> QED BY <1>8, <2>1, <2>4, <2>5, <2>8, <2>9, WorkStep_
<1> QED BY <1>5, <1>6, <1>7, <1>8 DEF Answer

----------------------------------------------------------------------------
\* Every step keeps the invariant.
LEMMA StepPreserves == IInv /\ [Next]_vars => IInv'
<1> SUFFICES ASSUME IInv, [Next]_vars PROVE IInv'
  OBVIOUS
<1>1. ASSUME NEW c \in Calls, BeginAuthorize(c) \/ BeginRescan(c) \/ BeginCalendar(c) \/ CallStep(c)
               \/ CallDies(c) \/ (\E f \in flows : BeginComplete(c, f))
      PROVE  IInv'
  BY <1>1, AuthorizingKeeps, CompletingKeeps, CalendarKeeps, ConnectingKeeps, LossKeeps DEF CallStep
<1>2. ASSUME NEW f \in flows, NEW a \in Accounts, Consent(f, a) PROVE IInv'
  BY <1>2, ConsentKeeps
<1>3. CASE Disconnect BY <1>3, DisconnectKeeps
<1>4. CASE GrantLost BY <1>4, LossKeeps
<1>5. ASSUME NEW k \in Kinds, RequestMail(k) PROVE IInv' BY <1>5, RequestMailKeeps
<1>6. ASSUME NEW w \in Workers, Works(w) \/ Maintain(w) \/ WorkerDies(w) PROVE IInv'
  BY <1>6, TakeKeeps, RevokeKeeps, RevokeCompleteKeeps, RecoverSetupKeeps, InvokeSetupKeeps,
     SetupKeeps, SetupFailedKeeps, EnsureJobKeeps, SendJobKeeps, EnsuredAllKeeps, AnswerKeeps,
     AuthorizationRequiredKeeps, MaintainKeeps, WorkerDiesKeeps DEF Works, WorkerStep
<1>7. ASSUME NEW m \in messages, Drop(m) PROVE IInv' BY <1>7, DropKeeps
<1>8. CASE UNCHANGED vars
  BY <1>8, QuietCall DEF vars, callVars
<1> QED BY <1>1, <1>2, <1>3, <1>4, <1>5, <1>6, <1>7, <1>8 DEF Next

LEMMA Invariance == Spec => []IInv
<1>1. Init => IInv BY InitEstablishes
<1>2. IInv /\ [Next]_vars => IInv' BY StepPreserves
<1> QED BY <1>1, <1>2, PTL DEF Spec

\* The items, messages and invocations have the shape the code gives them.
THEOREM ConnectionTypes == Spec => []TypeOK
<1>1. IInv => TypeOK
  BY Basics DEF TypeOK, ConnRecords, CalendarRecords, FlowRecords, JobRecords, GrantRecords
<1> QED BY <1>1, Invariance, PTL

----------------------------------------------------------------------------
\* Calendar access that was confirmed for a mailbox which the user disconnected meanwhile is not
\* stored: attach compares the epoch and the account once more.
THEOREM CalendarCurrent == Spec => CalendarOfLiveMailbox
<1> DEFINE Stored == Linked(conn) /\ calendar' = [epoch |-> conn.epoch, account |-> conn.account]
<1>1. [Next]_vars => (calendar' # calendar => Stored)
  <2> SUFFICES ASSUME Next, calendar' # calendar PROVE Stored
    BY DEF vars, tableVars
  <2>1. PICK c \in Calls : Attach(c)
    <3>1. ASSUME NEW c \in Calls, BeginAuthorize(c) \/ BeginRescan(c) \/ BeginCalendar(c) \/ CallDies(c)
                                    \/ (\E f \in flows : BeginComplete(c, f))
          PROVE  FALSE
      BY <3>1 DEF BeginAuthorize, BeginRescan, BeginCalendar, CallDies, BeginComplete, tableVars
    <3>2. ASSUME NEW c \in Calls, CallStep(c), ~Attach(c) PROVE FALSE
      BY <3>2 DEF CallStep, PutRefused, StartScan, Authorize, AskConsent, Identify, CompleteFlow,
                  CompleteReturn, CompleteTwice, AskCalendar, Confirm, Raises, tableVars
    <3>3. ASSUME NEW w \in Workers, Maintain(w) \/ WorkerDies(w) \/ (\E m \in messages : Take(w, m))
          PROVE  FALSE
      BY <3>3 DEF Maintain, WorkerDies, Take, Takes, tableVars
    <3>4. ASSUME NEW w \in Workers, WorkerStep(w) PROVE FALSE
      BY <3>4 DEF WorkerStep, Revoke, RevokeComplete, RecoverSetup, InvokeSetup, Setup, SetupFailed,
                  EnsureJob, SendJob, EnsuredAll, Answer, AuthorizationRequired, tableVars
    <3>5. ~Disconnect /\ ~GrantLost /\ (\A k \in Kinds : ~RequestMail(k))
            /\ (\A m \in messages : ~Drop(m)) /\ (\A f \in flows, a \in Accounts : ~Consent(f, a))
      BY DEF Disconnect, GrantLost, RequestMail, Drop, Consent, tableVars
    <3> QED BY <3>1, <3>2, <3>3, <3>4, <3>5 DEF Next, Works
  <2>2. Attachable(c) /\ calendar' = [epoch |-> call[c].epoch, account |-> call[c].account]
    BY <2>1 DEF Attach, Raises, tableVars
  <2> QED BY <2>2 DEF Attachable
<1> QED BY <1>1, PTL DEF Spec, CalendarOfLiveMailbox

\* A step that moves a worker is a step of that worker, and an overtaken one finds neither the
\* revocation nor the epoch that it read.
LEMMA OvertakenLoses ==
  ASSUME IInv, NEW w \in overtaken, WorkerStep(w)
  PROVE  conn' = conn
<1>1. w \in Workers BY Basics
<1>2. WorkInv(w) BY <1>1, WorkFacts
<1>3. CASE RevokeComplete(w)
  <2>1. ~Awaited(w) BY <1>2, <1>3 DEF RevokeComplete, WorkInv, Revoking
  <2> QED BY <1>3, <2>1 DEF RevokeComplete
<1>4. CASE RecoverSetup(w) \/ Setup(w) \/ SetupFailed(w)
  <2>1. at[w] \in Guarding BY <1>4 DEF RecoverSetup, Setup, SetupFailed, Guarding
  <2>2. ~Guarded(w) BY <1>2, <2>1 DEF WorkInv, Guarded
  <2> QED BY <1>4, <2>2 DEF RecoverSetup, Setup, SetupFailed
<1>5. CASE AuthorizationRequired(w)
  <2>1. ~OfItsEpoch(w) BY <1>2, <1>5 DEF AuthorizationRequired, WorkInv, OfItsEpoch
  <2> QED BY <1>5, <2>1 DEF AuthorizationRequired
<1>6. CASE \/ Revoke(w) \/ InvokeSetup(w) \/ EnsureJob(w) \/ SendJob(w) \/ EnsuredAll(w)
           \/ Answer(w)
  BY <1>6 DEF Revoke, InvokeSetup, EnsureJob, SendJob, EnsuredAll, Answer, tableVars
<1> QED BY <1>3, <1>4, <1>5, <1>6 DEF WorkerStep

\* Only its own steps move a worker.
LEMMA OthersStay ==
  ASSUME IInv, NEW w \in Workers, NEW v \in Workers, v # w, at'[w] # at[w]
  PROVE  ~WorkerStep(v)
<1>1. at \in [Workers -> WorkStates] BY Basics
<1>2. \A s : ~Moves(v, s) BY <1>1 DEF Moves
<1>3. ~Rests(v) BY <1>2 DEF Rests
<1>4. at' # at OBVIOUS
<1> QED
  BY <1>2, <1>3, <1>4 DEF WorkerStep, Revoke, RevokeComplete, RecoverSetup, InvokeSetup, Setup,
     SetupFailed, EnsureJob, SendJob, EnsuredAll, Answer, AuthorizationRequired, Retries, workVars

\* The user's authorization, scan or disconnection wins: work that a worker began for the
\* connection as it was before changes nothing of the one that is there.
THEOREM TheUserWins == Spec => OvertakenWorkLoses
<1> DEFINE Loses == \A w \in overtaken : at'[w] # at[w] => conn' = conn
<1>1. IInv /\ [Next]_vars => Loses
  <2> SUFFICES ASSUME IInv, Next, NEW w \in overtaken, at'[w] # at[w] PROVE conn' = conn
    BY DEF vars, workVars
  <2>1. w \in Workers /\ at' # at BY Basics
  <2>2. ASSUME NEW v \in Workers, WorkerStep(v) PROVE conn' = conn
    BY <2>1, <2>2, OvertakenLoses, OthersStay
  <2>3. ASSUME NEW v \in Workers, Maintain(v) \/ WorkerDies(v) \/ (\E m \in messages : Take(v, m))
        PROVE  conn' = conn
    BY <2>3 DEF Maintain, WorkerDies, Take, Takes, tableVars
  <2>4. ASSUME NEW c \in Calls, BeginAuthorize(c) \/ BeginRescan(c) \/ BeginCalendar(c) \/ CallStep(c)
                 \/ CallDies(c) \/ (\E f \in flows : BeginComplete(c, f))
        PROVE  FALSE
    BY <2>1, <2>4 DEF BeginAuthorize, BeginRescan, BeginCalendar, CallDies, BeginComplete, CallStep,
       PutRefused, StartScan, Authorize, AskConsent, Identify, CompleteFlow, CompleteReturn,
       CompleteTwice, AskCalendar, Confirm, Attach, Raises, workVars
  <2>5. ~Disconnect /\ ~GrantLost /\ (\A k \in Kinds : ~RequestMail(k))
          /\ (\A m \in messages : ~Drop(m)) /\ (\A f \in flows, a \in Accounts : ~Consent(f, a))
    BY <2>1 DEF Disconnect, GrantLost, RequestMail, Drop, Consent, workVars
  <2> QED BY <2>2, <2>3, <2>4, <2>5 DEF Next, Works
<1> QED BY <1>1, Invariance, PTL DEF Spec, OvertakenWorkLoses

----------------------------------------------------------------------------
(***************************************************************************)
(* Whoever is waited for is there: what is awaited of the messages, for    *)
(* fewer losses than a message has receives.                               *)
(***************************************************************************)
\* The setup or revocation that the connection waits for.
Awaits(kind, id) ==
  \/ kind = "revoke" /\ conn.status = "REVOKING" /\ conn.request = id
  \/ kind = "setup" /\ conn.status = "CONNECTING" /\ conn.epoch = id
\* The one whose message was sent.
Due(kind, id) ==
  /\ Awaits(kind, id) /\ id \notin unsent
  /\ kind = "setup" => conn.gmail /\ id # recovery.epoch

\* Every receive that an awaited message lost was a loss of the environment.
Enough(m) == Awaits(m.kind, m.id) => m.left + losses >= MaxReceives

\* A worker with a setup or a revocation does that, and one that is past the setup has
\* ended what was waited for; one that may still fail has read what it would end.
Doing(w) ==
  LET m == work[w].message
  IN /\ at[w] = "idle" => m.kind = "none"
     /\ m.kind = "revoke" => at[w] \in Revoking
     /\ m.kind = "setup" =>
          \/ /\ at[w] \in {"setting", "connecting", "failing", "unauthorized"}
             /\ work[w].epoch = m.id
             /\ at[w] # "unauthorized" /\ Awaits("setup", m.id) => work[w].status = "CONNECTING"
          \/ at[w] \in {"ensuring"} \cup Kinds /\ ~Awaits("setup", m.id)

CInv ==
  /\ losses <= MaxLosses
  /\ \A m \in messages : Enough(m)
  /\ \A w \in Workers : Enough(work[w].message) /\ Doing(w)
  /\ \A kind, id : Due(kind, id) => Carried(kind, id)

\* What a step awaits was awaited or is new, and what is due was.
AwaitsNoMore ==
  \A kind, id : Awaits(kind, id)' => Awaits(kind, id) \/ (id \in Nat /\ id > ids)
DueNoMore == \A kind, id : Due(kind, id)' => Due(kind, id)
NoneNew == AwaitsNoMore /\ DueNoMore

LEMMA AwaitedKind ==
  ASSUME NEW kind, NEW id, Awaits(kind, id)
  PROVE  kind \in {"setup", "revoke"} /\ kind # "none" /\ kind \notin Kinds
  BY KindsApart DEF Awaits

LEMMA NoneNewOfItself ==
  ASSUME UNCHANGED <<conn, recovery>>, unsent \subseteq unsent'
  PROVE  NoneNew
  BY DEF NoneNew, AwaitsNoMore, DueNoMore, Awaits, Due

LEMMA NoneNewAtTheEnd ==
  ASSUME conn'.status \notin {"CONNECTING", "REVOKING"}
  PROVE  NoneNew /\ \A kind, id : ~Awaits(kind, id)'
  BY DEF NoneNew, AwaitsNoMore, DueNoMore, Awaits, Due

\* A worker that keeps what it has.
LEMMA DoingStays ==
  ASSUME IInv, CInv, AwaitsNoMore, losses' \in Nat, losses' >= losses, NEW w \in Workers,
         at'[w] = at[w], work'[w] = work[w]
  PROVE  Enough(work[w].message)' /\ Doing(w)'
<1> DEFINE m == work[w].message
<1>1. Enough(m) /\ Doing(w) BY DEF CInv
<1>2. m \in Messages \cup {NoMessage} /\ m.id \in Nat /\ m.id <= ids BY WorkFacts DEF WorkInv
<1>3. ids \in Nat /\ losses \in Nat BY Basics
<1>4. \A kind : Awaits(kind, m.id)' => Awaits(kind, m.id) BY <1>2, <1>3 DEF AwaitsNoMore
<1>5. m.kind # "none" => m.left \in Nat BY <1>2 DEF Messages, NoMessage
<1>6. Awaits(m.kind, m.id) => m.left + losses' >= MaxReceives
  BY <1>1, <1>3, <1>5, AwaitedKind, ConnectionAssumption DEF Enough
<1>7. Enough(work[w].message)' BY <1>4, <1>6 DEF Enough
<1>8. Doing(w)' BY <1>1, <1>4 DEF Doing
<1> QED BY <1>7, <1>8

\* So does a message.
LEMMA EnoughStays ==
  ASSUME IInv, CInv, AwaitsNoMore, losses' \in Nat, losses' >= losses, NEW m \in messages
  PROVE  Enough(m)'
<1>1. m \in Messages /\ m.id \in Nat /\ m.id <= ids /\ ids \in Nat /\ losses \in Nat BY Basics
<1>2. Awaits(m.kind, m.id)' => Awaits(m.kind, m.id) BY <1>1 DEF AwaitsNoMore
<1>3. m.left \in Nat BY <1>1 DEF Messages
<1> QED BY <1>1, <1>2, <1>3, ConnectionAssumption DEF Enough, CInv

\* The workers stay, and every message does.
LEMMA WaitsOn ==
  ASSUME IInv, CInv, AwaitsNoMore, losses' \in losses .. MaxLosses, UNCHANGED workVars,
         messages \subseteq messages', \A m \in messages' \ messages : Enough(m)',
         \A kind, id : Due(kind, id)' => Due(kind, id) \/ Carried(kind, id)'
  PROVE  CInv'
<1>1. losses' \in Nat /\ losses' >= losses /\ losses' <= MaxLosses
  BY Basics, ConnectionAssumption
<1>2. \A kind, id : Carried(kind, id) => Carried(kind, id)' BY DEF Carried, workVars
<1>3. \A w \in Workers : Enough(work[w].message)' /\ Doing(w)' BY <1>1, DoingStays DEF workVars
<1>4. \A m \in messages' : Enough(m)' BY <1>1, EnoughStays
<1> QED BY <1>1, <1>2, <1>3, <1>4 DEF CInv

LEMMA InitWaits == Init => CInv
<1> SUFFICES ASSUME Init PROVE CInv
  OBVIOUS
<1>1. \A kind, id : ~Awaits(kind, id) BY DEF Init, Awaits
<1>2. \A w \in Workers : at[w] = "idle" /\ work[w].message.kind = "none" BY NoneTyped DEF Init
<1>3. losses = 0 /\ messages = {} BY DEF Init
<1> QED BY <1>1, <1>2, <1>3, ConnectionAssumption DEF CInv, Enough, Doing, Due

\* The API's calls but for those that write the connection, and the environment.
LEMMA CallsWait ==
  ASSUME IInv, CInv, NEW c \in Calls,
         \/ BeginAuthorize(c) \/ BeginRescan(c) \/ BeginCalendar(c) \/ CallDies(c)
         \/ \E f \in flows : BeginComplete(c, f)
         \/ PutRefused(c) \/ Authorize(c) \/ Identify(c) \/ CompleteFlow(c) \/ CompleteReturn(c)
         \/ CompleteTwice(c) \/ AskCalendar(c) \/ Confirm(c) \/ Attach(c)
  PROVE  CInv'
<1>1. losses \in Nat /\ losses <= MaxLosses /\ MaxLosses \in Nat
  BY Basics, ConnectionAssumption DEF CInv
<1>2. /\ UNCHANGED <<conn, recovery, messages, unsent, workVars>> /\ losses' \in losses .. MaxLosses
  <2>1. CASE CallDies(c) BY <1>1, <2>1 DEF CallDies, tableVars, mailVars
  <2>2. CASE ~CallDies(c)
    BY <1>1, <2>2 DEF BeginAuthorize, BeginRescan, BeginCalendar, BeginComplete, PutRefused, Authorize,
       Identify, CompleteFlow, CompleteReturn, CompleteTwice, AskCalendar, Confirm, Attach, Raises,
       tableVars, mailVars, outsideVars, lossVars
  <2> QED BY <2>1, <2>2
<1>3. AwaitsNoMore /\ DueNoMore BY <1>2, NoneNewOfItself DEF NoneNew
<1> QED BY <1>2, <1>3, WaitsOn DEF DueNoMore

LEMMA ConsentWaits ==
  ASSUME IInv, CInv, NEW f \in flows, NEW account \in Accounts, Consent(f, account)
  PROVE  CInv'
<1>1. losses \in Nat /\ losses <= MaxLosses /\ MaxLosses \in Nat
  BY Basics, ConnectionAssumption DEF CInv
<1>2. UNCHANGED <<conn, recovery, messages, unsent, workVars>> /\ losses' \in losses .. MaxLosses
  BY <1>1 DEF Consent, mailVars, outsideVars, lossVars
<1>3. AwaitsNoMore /\ DueNoMore BY <1>2, NoneNewOfItself DEF NoneNew
<1> QED BY <1>2, <1>3, WaitsOn DEF DueNoMore

LEMMA GrantLostWaits == IInv /\ CInv /\ GrantLost => CInv'
<1> SUFFICES ASSUME IInv, CInv, GrantLost PROVE CInv'
  OBVIOUS
<1>1. losses \in Nat /\ MaxLosses \in Nat BY Basics, ConnectionAssumption
<1>2. UNCHANGED <<conn, recovery, messages, unsent, workVars>> /\ losses' \in losses .. MaxLosses
  BY <1>1 DEF GrantLost, tableVars, mailVars
<1>3. AwaitsNoMore /\ DueNoMore BY <1>2, NoneNewOfItself DEF NoneNew
<1> QED BY <1>2, <1>3, WaitsOn DEF DueNoMore

\* What is sent has all its receives; what is not sent is named.
LEMMA SendsWait ==
  ASSUME IInv, CInv, NEW kind, NEW id, Message(kind, id) \in Messages, Sends(Message(kind, id)),
         AwaitsNoMore, UNCHANGED workVars,
         \A j, i : Due(j, i)' => Due(j, i) \/ (j = kind /\ i = id)
  PROVE  CInv'
<1>1. losses \in Nat /\ losses <= MaxLosses /\ MaxLosses \in Nat
  BY Basics, ConnectionAssumption DEF CInv
<1>2. Message(kind, id).kind = kind /\ Message(kind, id).id = id
      /\ Message(kind, id).left = MaxReceives
  BY DEF Message
<1>3. losses' \in losses .. MaxLosses /\ messages \subseteq messages'
      /\ messages' \ messages \subseteq {Message(kind, id)}
      /\ (Message(kind, id) \in messages' \/ id \in unsent')
  BY <1>1, <1>2 DEF Sends
<1>4. \A m \in messages' \ messages : Enough(m)'
  BY <1>1, <1>2, <1>3, ConnectionAssumption DEF Enough
<1>5. \A j, i : Due(j, i)' => Due(j, i) \/ Carried(j, i)' BY <1>2, <1>3 DEF Due, Carried
<1> QED BY <1>3, <1>4, <1>5, WaitsOn

LEMMA ConnectingWaits ==
  ASSUME IInv, CInv, NEW c \in Calls, StartScan(c) \/ AskConsent(c)
  PROVE  CInv'
<1>1. /\ conn'.epoch = ids + 1 /\ conn'.status = "CONNECTING"
      /\ AskConsent(c) => conn'.gmail = FALSE
  <2>1. CASE StartScan(c) BY <2>1, ConnectingShape DEF StartScan, AskConsent, Overwrites
  <2>2. CASE AskConsent(c) BY <2>2, ConnectingShape DEF AskConsent, Overwrites
  <2> QED BY <2>1, <2>2
<1>2. ids \in Nat /\ ids + 1 \in Nat BY Basics
<1>3. AwaitsNoMore BY <1>1, <1>2 DEF AwaitsNoMore, Awaits
<1>4. UNCHANGED workVars BY DEF StartScan, AskConsent
<1>5. CASE StartScan(c)
  <2>1. \A j, i : Due(j, i)' => j = "setup" /\ i = ids + 1 BY <1>1 DEF Due, Awaits
  <2>2. Message("setup", ids + 1) \in Messages BY <1>2, MessageTyped
  <2> QED BY <1>3, <1>4, <1>5, <2>1, <2>2, SendsWait DEF StartScan
<1>6. CASE AskConsent(c)
  <2>1. \A j, i : ~Due(j, i)' BY <1>1, <1>6 DEF Due, Awaits
  <2>2. losses' \in losses .. MaxLosses /\ messages' = messages
    BY <1>6, Basics, ConnectionAssumption DEF AskConsent, lossVars, CInv
  <2> QED BY <1>3, <1>4, <2>1, <2>2, WaitsOn
<1> QED BY <1>5, <1>6

LEMMA DisconnectWaits == IInv /\ CInv /\ Disconnect => CInv'
<1> SUFFICES ASSUME IInv, CInv, Disconnect PROVE CInv'
  OBVIOUS
<1>1. conn'.status = "REVOKING" /\ conn'.request = ids + 1
  BY DisconnectShape DEF Overwrites
<1>2. ids \in Nat /\ ids + 1 \in Nat BY Basics
<1>3. AwaitsNoMore BY <1>1, <1>2 DEF AwaitsNoMore, Awaits
<1>4. \A j, i : Due(j, i)' => j = "revoke" /\ i = ids + 1 BY <1>1 DEF Due, Awaits
<1>5. Message("revoke", ids + 1) \in Messages BY <1>2, MessageTyped
<1> QED BY <1>3, <1>4, <1>5, SendsWait DEF Disconnect

LEMMA RequestMailWaits ==
  ASSUME IInv, IInv', CInv, NEW k \in Kinds, RequestMail(k)
  PROVE  CInv'
<1>1. UNCHANGED <<conn, recovery, workVars>> /\ Sends(Message(k, job'[k].id)) BY DEF RequestMail
<1>2. job'[k].id \in Nat BY DEF IInv, Typed, MailTyped, JobRecords
<1>3. Message(k, job'[k].id) \in Messages BY <1>2, MessageTyped
<1>4. unsent \subseteq unsent' BY <1>1 DEF Sends
<1>5. AwaitsNoMore /\ DueNoMore BY <1>1, <1>4, NoneNewOfItself DEF NoneNew
<1> QED BY <1>1, <1>3, <1>5, SendsWait DEF DueNoMore

----------------------------------------------------------------------------
\* One worker moves.
LEMMA WorkerWaits ==
  ASSUME IInv, CInv, NoneNew, NEW w \in Workers, NEW to \in WorkStates, NEW r \in WorkRecords,
         Moves(w, to), work' = [work EXCEPT ![w] = r], losses' \in losses .. MaxLosses,
         \A m \in messages' \ messages : Enough(m)',
         at'[w] = to /\ work'[w] = r => Enough(work[w].message)' /\ Doing(w)',
         \A kind, id : Due(kind, id)' /\ Carried(kind, id) => Carried(kind, id)'
  PROVE  CInv'
<1>1. at'[w] = to /\ work'[w] = r /\ \A v \in Workers \ {w} : at'[v] = at[v] /\ work'[v] = work[v]
  BY Basics DEF Moves
<1>2. losses' \in Nat /\ losses' >= losses /\ losses' <= MaxLosses
  BY Basics, ConnectionAssumption
<1>3. AwaitsNoMore /\ DueNoMore BY DEF NoneNew
<1>4. \A v \in Workers : Enough(work[v].message)' /\ Doing(v)'
  <2>1. Enough(work[w].message)' /\ Doing(w)' BY <1>1
  <2>2. ASSUME NEW v \in Workers \ {w} PROVE Enough(work[v].message)' /\ Doing(v)'
    BY <1>1, <1>2, <1>3, DoingStays
  <2> QED BY <2>1, <2>2
<1>5. \A m \in messages' : Enough(m)' BY <1>2, <1>3, EnoughStays
<1>6. \A kind, id : Due(kind, id)' => Carried(kind, id)' BY <1>3 DEF DueNoMore, CInv
<1> QED BY <1>2, <1>4, <1>5, <1>6 DEF CInv

\* It keeps its message.
LEMMA KeepsMessage ==
  ASSUME IInv, CInv, NoneNew, NEW w \in Workers, NEW to \in WorkStates, NEW r \in WorkRecords,
         Moves(w, to), work' = [work EXCEPT ![w] = r], r.message = work[w].message,
         losses' = losses, messages \subseteq messages',
         \A m \in messages' \ messages : m.kind \in Kinds,
         at'[w] = to /\ work'[w] = r => Doing(w)'
  PROVE  CInv'
<1>1. at'[w] = to /\ work'[w] = r /\ \A v \in Workers \ {w} : at'[v] = at[v] /\ work'[v] = work[v]
  BY Basics DEF Moves
<1>2. losses' \in losses .. MaxLosses /\ losses' \in Nat /\ losses' >= losses
  BY Basics, ConnectionAssumption DEF CInv
<1>3. \A m \in messages' \ messages : Enough(m)' BY KindsApart DEF Enough, Awaits
<1>4. Enough(work[w].message)'
  <2>1. Enough(work[w].message) /\ work'[w].message = work[w].message BY <1>1 DEF CInv
  <2>2. work[w].message.id \in Nat /\ work[w].message.id <= ids /\ ids \in Nat
    BY WorkFacts, Basics DEF WorkInv
  <2> QED BY <1>2, <2>1, <2>2 DEF Enough, NoneNew, AwaitsNoMore
<1>5. \A kind, id : Carried(kind, id) => Carried(kind, id)' BY <1>1 DEF Carried
<1> QED BY <1>1, <1>2, <1>3, <1>4, <1>5, WorkerWaits

LEMMA IdleDoes ==
  ASSUME NEW w \in Workers, at'[w] = "idle", work'[w] = NoWork
  PROVE  Enough(work[w].message)' /\ Doing(w)'
  BY NoneTyped DEF Enough, Awaits, Doing

\* It rests, when nobody waits for its message.
LEMMA RestsDone ==
  ASSUME IInv, CInv, NoneNew, NEW w \in Workers, Rests(w), losses' = losses,
         messages \subseteq messages', messages' \subseteq messages \cup Returned(work[w].message),
         \A kind, id : Awaits(kind, id)' => kind # work[w].message.kind \/ id # work[w].message.id
  PROVE  CInv'
<1> DEFINE m == work[w].message
<1>1. m \in Messages \cup {NoMessage} BY WorkFacts
<1>2. \A n \in messages' \ messages : n.kind = m.kind /\ n.id = m.id BY <1>1, ReturnedShape
<1>3. ASSUME NEW n \in messages' \ messages PROVE Enough(n)'
  BY <1>2 DEF Enough
<1>4. losses' \in losses .. MaxLosses BY Basics, ConnectionAssumption DEF CInv
<1>5. "idle" \in WorkStates BY DEF WorkStates
<1>6. \A v \in Workers \ {w} : work'[v] = work[v] BY Basics DEF Rests
<1>7. ASSUME NEW kind, NEW id, Due(kind, id)', Carried(kind, id) PROVE Carried(kind, id)'
  <2>1. Awaits(kind, id)' BY <1>7 DEF Due
  <2>2. ~(m.kind = kind /\ m.id = id) BY <2>1
  <2> QED BY <1>6, <1>7, <2>2 DEF Carried
<1> QED BY <1>3, <1>4, <1>5, <1>7, NoneTyped, IdleDoes, WorkerWaits DEF Rests

\* Or with a loss, which leaves its message a receive.
LEMMA RestsBack ==
  ASSUME IInv, CInv, NoneNew, NEW w \in Workers, Retries(w), MaxLosses < MaxReceives,
         losses < MaxLosses, losses' = losses + 1
  PROVE  CInv'
<1> DEFINE m == work[w].message
<1>1. m \in Messages \cup {NoMessage} /\ m.id \in Nat /\ m.id <= ids /\ ids \in Nat /\ losses \in Nat
      /\ MaxLosses \in Nat /\ MaxReceives \in Nat
  BY WorkFacts, Basics, ConnectionAssumption DEF WorkInv
<1>2. Rests(w) /\ messages' = messages \cup Returned(m) BY DEF Retries
<1>3. losses' \in losses .. MaxLosses BY <1>1
<1>4. Enough(m) BY DEF CInv
<1>5. \A kind, id : Awaits(kind, id)' => id > ids \/ Awaits(kind, id) BY DEF NoneNew, AwaitsNoMore
<1>6. \A kind, id : Awaits(kind, id)' /\ kind = m.kind /\ id = m.id => Awaits(m.kind, m.id)
  BY <1>1, <1>5
<1>7. Awaits(m.kind, m.id) => m \in Messages BY <1>1, AwaitedKind DEF NoMessage
<1>8. \A n \in messages' \ messages : Enough(n)'
  <2> SUFFICES ASSUME NEW n \in Returned(m), Awaits(n.kind, n.id)' PROVE n.left + losses' >= MaxReceives
    BY <1>2 DEF Enough
  <2>1. n.id = m.id /\ n.kind = m.kind /\ n.left = m.left - 1 BY <1>1, ReturnedShape
  <2>2. m \in Messages /\ m.left + losses >= MaxReceives BY <1>4, <1>6, <1>7, <2>1 DEF Enough
  <2>3. m.left \in Nat BY <2>2 DEF Messages
  <2> QED BY <1>1, <2>1, <2>2, <2>3
<1>9. ASSUME NEW kind, NEW id, Due(kind, id)', Carried(kind, id) PROVE Carried(kind, id)'
  <2>1. \A v \in Workers \ {w} : work'[v] = work[v] BY <1>2, Basics DEF Rests
  <2>2. CASE m.kind = kind /\ m.id = id
    <3>1. Awaits(m.kind, m.id) BY <1>6, <1>9, <2>2 DEF Due
    <3>2. m \in Messages /\ m.left + losses >= MaxReceives BY <1>4, <1>7, <3>1 DEF Enough
    <3>3. m.left \in Nat /\ m.left > 1 BY <1>1, <3>2 DEF Messages
    <3>4. [m EXCEPT !.left = @ - 1] \in Returned(m) BY <3>3 DEF Returned
    <3>5. [m EXCEPT !.left = @ - 1].kind = kind /\ [m EXCEPT !.left = @ - 1].id = id
      BY <1>1, <2>2, <3>4, ReturnedShape
    <3> QED BY <1>2, <3>4, <3>5 DEF Carried
  <2>3. CASE ~(m.kind = kind /\ m.id = id)
    BY <1>2, <1>9, <2>1, <2>3 DEF Carried
  <2> QED BY <2>2, <2>3
<1>10. "idle" \in WorkStates BY DEF WorkStates
<1> QED BY <1>2, <1>3, <1>8, <1>9, <1>10, NoneTyped, IdleDoes, WorkerWaits DEF Rests

----------------------------------------------------------------------------
LEMMA MailDoes ==
  ASSUME NEW w \in Workers, at'[w] # "idle", work'[w].message.kind \in Kinds
  PROVE  Doing(w)'
  BY KindsApart DEF Doing

LEMMA StatesApart ==
  /\ Kinds \cap {"revoking", "revoked", "recovering", "setting", "connecting", "failing"} = {}
  /\ Kinds \subseteq WorkStates
  BY ConnectionAssumption DEF WorkStates, Serving

LEMMA TakeWaits ==
  ASSUME IInv, CInv, NEW w \in Workers, NEW m \in messages, Take(w, m)
  PROVE  CInv'
<1>1. PICK to \in {"revoking", "ensuring", "setting", "recovering", "answering"} :
        /\ Takes(w, m, to)
        /\ m.kind = "revoke" => to = "revoking"
        /\ m.kind = "setup" => /\ conn.epoch = m.id
                               /\ (to = "ensuring" /\ Linked(conn)) \/ to = "setting"
  <2>1. CASE Revocable(m) /\ Takes(w, m, "revoking") BY <2>1 DEF Revocable
  <2>2. CASE Settable(m) /\ Takes(w, m, IF Linked(conn) THEN "ensuring" ELSE "setting")
    BY <2>2 DEF Settable
  <2>3. CASE Recoverable(m) /\ Takes(w, m, IF ~Resuming(m) THEN "recovering"
                                           ELSE IF Linked(conn) THEN "ensuring" ELSE "setting")
    BY <2>3, KindsApart DEF Recoverable
  <2>4. CASE Workable(m) /\ Takes(w, m, "answering") BY <2>4, KindsApart DEF Workable
  <2> QED BY <2>1, <2>2, <2>3, <2>4 DEF Take
<1>2. PICK r : r = [message |-> m, epoch |-> conn.epoch, status |-> conn.status,
                    account |-> None, todo |-> Kinds]
  OBVIOUS
<1>3. /\ at[w] = "idle" /\ messages' = messages \ {m} /\ Moves(w, to)
      /\ work' = [work EXCEPT ![w] = r] /\ UNCHANGED <<conn, recovery, losses, unsent>>
  BY <1>1, <1>2 DEF Takes, tableVars, mailVars, lossVars
<1>4. r \in WorkRecords /\ r.message = m /\ r.epoch = conn.epoch /\ r.status = conn.status
  BY <1>2, Basics DEF WorkRecords, MaybeAccounts
<1>5. to \in WorkStates BY <1>1 DEF WorkStates, Revoking, Guarding, Serving
<1>6. NoneNew BY <1>3, NoneNewOfItself
<1>7. losses' \in losses .. MaxLosses BY <1>3, Basics, ConnectionAssumption DEF CInv
<1>8. ASSUME at'[w] = to, work'[w] = r PROVE Enough(work[w].message)' /\ Doing(w)'
  <2>1. Enough(m) /\ conn' = conn /\ losses' = losses BY <1>3 DEF CInv
  <2>2. Enough(work[w].message)' BY <1>4, <1>8, <2>1 DEF Enough, Awaits
  <2>3. Doing(w)' BY <1>1, <1>4, <1>8, <2>1 DEF Doing, Awaits, Linked, Revoking
  <2> QED BY <2>2, <2>3
<1>9. ASSUME NEW kind, NEW id, Due(kind, id)', Carried(kind, id) PROVE Carried(kind, id)'
  <2>1. kind # "none" BY <1>9 DEF Due, Awaits
  <2>2. work[w].message.kind = "none" BY <1>3 DEF CInv, Doing
  <2>3. work'[w].message = m /\ \A v \in Workers \ {w} : work'[v] = work[v] BY <1>3, <1>4, Basics
  <2> QED BY <1>3, <1>9, <2>1, <2>2, <2>3 DEF Carried
<1> QED BY <1>3, <1>4, <1>5, <1>6, <1>7, <1>8, <1>9, WorkerWaits

LEMMA DropWaits ==
  ASSUME IInv, CInv, NEW m \in messages, Drop(m)
  PROVE  CInv'
<1>1. /\ UNCHANGED <<conn, recovery, losses, unsent, workVars>> /\ messages' = messages \ {m}
      /\ ~Revocable(m) /\ ~Settable(m)
  BY DEF Drop, tableVars, mailVars, lossVars
<1>2. AwaitsNoMore /\ DueNoMore BY <1>1, NoneNewOfItself DEF NoneNew
<1>3. losses' \in Nat /\ losses' >= losses /\ losses' <= MaxLosses BY <1>1, Basics DEF CInv
<1>4. \A v \in Workers : Enough(work[v].message)' /\ Doing(v)'
  BY <1>1, <1>2, <1>3, DoingStays DEF workVars
<1>5. \A n \in messages' : Enough(n)' BY <1>1, <1>2, <1>3, EnoughStays
<1>6. ASSUME NEW kind, NEW id, Due(kind, id)' PROVE Carried(kind, id)'
  <2>1. Due(kind, id) /\ Carried(kind, id) BY <1>2, <1>6 DEF DueNoMore, CInv
  <2>2. ~(m.kind = kind /\ m.id = id)
    BY <1>1, <2>1 DEF Due, Awaits, Revocable, Settable, AuthLost
  <2> QED BY <1>1, <2>1, <2>2 DEF Carried, workVars
<1> QED BY <1>3, <1>4, <1>5, <1>6 DEF CInv

LEMMA WorkStaysRecord ==
  ASSUME IInv, NEW w \in Workers
  PROVE  work[w] \in WorkRecords /\ work = [work EXCEPT ![w] = work[w]]
         /\ (work' = work => work' = [work EXCEPT ![w] = work[w]])
  BY Basics

LEMMA MaintainWaits ==
  ASSUME IInv, CInv, NEW w \in Workers, Maintain(w)
  PROVE  CInv'
<1>1. /\ at[w] = "idle" /\ Moves(w, "unauthorized") /\ messages' = messages
      /\ work' = [work EXCEPT ![w].epoch = conn.epoch]
      /\ UNCHANGED <<conn, recovery, losses, unsent>>
  BY DEF Maintain, tableVars, mailVars, outsideVars, lossVars
<1>2. PICK r : r = [work[w] EXCEPT !.epoch = conn.epoch] OBVIOUS
<1>3. work[w] \in WorkRecords /\ conn.epoch \in Nat BY Basics
<1>4. r \in WorkRecords /\ r.message = work[w].message BY <1>2, <1>3 DEF WorkRecords
<1>5. work' = [work EXCEPT ![w] = r] BY <1>1, <1>2, Basics
<1>6. work[w].message.kind = "none" BY <1>1 DEF CInv, Doing
<1>7. "unauthorized" \in WorkStates BY DEF WorkStates
<1>8. at'[w] = "unauthorized" /\ work'[w] = r => Doing(w)' BY <1>4, <1>6 DEF Doing
<1> QED BY <1>1, <1>4, <1>5, <1>7, <1>8, NoneNewOfItself, KeepsMessage

LEMMA RevokeWaits ==
  ASSUME IInv, CInv, NEW w \in Workers, Revoke(w)
  PROVE  CInv'
<1>1. /\ at[w] = "revoking" /\ Moves(w, "revoked") /\ messages' = messages /\ work' = work
      /\ UNCHANGED <<conn, recovery, losses, unsent>>
  BY DEF Revoke, tableVars, mailVars, lossVars
<1>2. "revoked" \in WorkStates BY DEF WorkStates, Revoking
<1>3. work[w].message.kind # "setup" BY <1>1, StatesApart DEF CInv, Doing
<1>4. at'[w] = "revoked" /\ work'[w] = work[w] => Doing(w)' BY <1>3 DEF Doing, Revoking
<1> QED BY <1>1, <1>2, <1>4, WorkStaysRecord, NoneNewOfItself, KeepsMessage

LEMMA RevokeCompleteWaits ==
  ASSUME IInv, CInv, NEW w \in Workers, RevokeComplete(w)
  PROVE  CInv'
<1>1. /\ at[w] = "revoked" /\ Rests(w) /\ messages' = messages
      /\ UNCHANGED <<recovery, losses, unsent>>
  BY DEF RevokeComplete, mailVars, outsideVars, lossVars
<1>2. CASE Awaited(w)
  <2>1. conn'.status = "DISCONNECTED" BY <1>2, Basics DEF RevokeComplete, ConnRecords
  <2>2. NoneNew /\ \A kind, id : ~Awaits(kind, id)' BY <2>1, NoneNewAtTheEnd
  <2> QED BY <1>1, <2>2, RestsDone
<1>3. CASE ~Awaited(w)
  <2>1. conn' = conn BY <1>3 DEF RevokeComplete
  <2>2. work[w].message.kind # "setup" BY <1>1, StatesApart DEF CInv, Doing
  <2>3. \A kind, id : Awaits(kind, id)' => kind # work[w].message.kind \/ id # work[w].message.id
    BY <1>3, <2>1, <2>2 DEF Awaits, Awaited
  <2>4. NoneNew BY <1>1, <2>1, NoneNewOfItself
  <2> QED BY <1>1, <2>3, <2>4, RestsDone
<1> QED BY <1>2, <1>3

LEMMA RecoverSetupWaits ==
  ASSUME IInv, CInv, NEW w \in Workers, RecoverSetup(w)
  PROVE  CInv'
<1> DEFINE m == work[w].message
<1>1. at[w] = "recovering" /\ messages' = messages /\ UNCHANGED <<losses, unsent>>
  BY DEF RecoverSetup, lossVars
<1>2. m.kind \in Kinds BY <1>1, WorkFacts DEF WorkInv
<1>3. CASE /\ conn' = [conn EXCEPT !.status = "CONNECTING", !.epoch = ids + 1]
           /\ recovery' = [kind |-> m.kind, id |-> m.id, epoch |-> ids + 1]
           /\ Moves(w, "setting")
           /\ work' = [work EXCEPT ![w].epoch = ids + 1, ![w].status = "CONNECTING"]
  <2>1. conn'.status = "CONNECTING" /\ conn'.epoch = ids + 1 /\ recovery'.epoch = ids + 1
        /\ ids \in Nat /\ ids + 1 \in Nat
    BY <1>3, Basics DEF ConnRecords
  <2>2. NoneNew BY <2>1 DEF NoneNew, AwaitsNoMore, DueNoMore, Due, Awaits
  <2>3. PICK r : r = [work[w] EXCEPT !.epoch = ids + 1, !.status = "CONNECTING"] OBVIOUS
  <2>4. work[w] \in WorkRecords BY Basics
  <2>5. r \in WorkRecords /\ r.message = m BY <2>1, <2>3, <2>4 DEF WorkRecords, Statuses
  <2>6. work' = [work EXCEPT ![w] = r] BY <1>3, <2>3, Basics
  <2>7. "setting" \in WorkStates BY DEF WorkStates, Guarding
  <2>8. at'[w] = "setting" /\ work'[w] = r => Doing(w)' BY <1>2, <2>5, MailDoes
  <2> QED BY <1>1, <1>3, <2>2, <2>5, <2>6, <2>7, <2>8, KeepsMessage
<1>4. CASE Rests(w) /\ UNCHANGED <<conn, mailVars>>
  <2>1. NoneNew BY <1>1, <1>4, NoneNewOfItself DEF mailVars
  <2>2. \A kind, id : Awaits(kind, id)' => kind # m.kind BY <1>2, KindsApart DEF Awaits
  <2> QED BY <1>1, <1>4, <2>1, <2>2, RestsDone
<1> QED BY <1>3, <1>4 DEF RecoverSetup

LEMMA InvokeSetupWaits ==
  ASSUME IInv, CInv, NEW w \in Workers, InvokeSetup(w)
  PROVE  CInv'
<1>1. /\ at[w] = "setting" /\ messages' = messages /\ UNCHANGED <<conn, recovery, losses, unsent>>
  BY DEF InvokeSetup, tableVars, mailVars, outsideVars, lossVars
<1>2. NoneNew BY <1>1, NoneNewOfItself
<1>3. PICK to \in {"connecting", "unauthorized", "failing"} :
        /\ Moves(w, to)
        /\ work' = work \/ work' = [work EXCEPT ![w].account = grants.mail]
  BY DEF InvokeSetup
<1>4. PICK r : r = work'[w] OBVIOUS
<1>5. work[w] \in WorkRecords /\ grants.mail \in MaybeAccounts BY Basics DEF GrantRecords
<1>6. /\ r \in WorkRecords /\ r.message = work[w].message /\ r.epoch = work[w].epoch
      /\ r.status = work[w].status /\ work' = [work EXCEPT ![w] = r]
  <2>1. CASE work' = work BY <1>4, <1>5, <2>1, WorkStaysRecord
  <2>2. CASE work' = [work EXCEPT ![w].account = grants.mail]
    <3>1. r = [work[w] EXCEPT !.account = grants.mail] BY <1>4, <2>2, Basics
    <3>2. work' = [work EXCEPT ![w] = r] BY <2>2, <3>1, Basics
    <3> QED BY <1>5, <3>1, <3>2 DEF WorkRecords
  <2> QED BY <1>3, <2>1, <2>2
<1>7. to \in WorkStates BY <1>3 DEF WorkStates, Guarding
<1>8. ASSUME at'[w] = to, work'[w] = r PROVE Doing(w)'
  <2>1. Doing(w) /\ at[w] \notin Revoking /\ at[w] \notin {"ensuring"} \cup Kinds
    BY <1>1, StatesApart DEF CInv, Revoking
  <2>2. \A id : Awaits("setup", id)' <=> Awaits("setup", id) BY <1>1 DEF Awaits
  <2>3. /\ work[w].message.kind # "revoke"
        /\ work[w].message.kind = "setup" =>
             /\ work[w].epoch = work[w].message.id
             /\ Awaits("setup", work[w].message.id) => work[w].status = "CONNECTING"
    BY <1>1, <2>1 DEF Doing
  <2> QED BY <1>3, <1>6, <1>8, <2>2, <2>3 DEF Doing
<1> QED BY <1>1, <1>2, <1>3, <1>6, <1>7, <1>8, KeepsMessage

\* A worker whose guard fails is not the one that the connection waits for.
LEMMA UnguardedIsUnawaited ==
  ASSUME IInv, CInv, NEW w \in Workers, at[w] \in {"connecting", "failing"}, ~Guarded(w)
  PROVE  \A kind, id : Awaits(kind, id) =>
                         kind # work[w].message.kind \/ id # work[w].message.id
<1>1. Doing(w) /\ at[w] \notin Revoking /\ at[w] \notin {"ensuring"} \cup Kinds
  BY StatesApart DEF CInv, Revoking
<1> QED BY <1>1 DEF Doing, Awaits, Guarded

LEMMA SetupWaits ==
  ASSUME IInv, CInv, NEW w \in Workers, Setup(w)
  PROVE  CInv'
<1>1. at[w] = "connecting" /\ messages' = messages /\ UNCHANGED <<recovery, losses, unsent>>
  BY DEF Setup, mailVars, outsideVars, lossVars
<1>2. CASE Guarded(w)
  <2>1. /\ conn' = [conn EXCEPT !.status = "CONNECTED", !.error = "none", !.gmail = TRUE,
                                !.account = work[w].account]
        /\ Moves(w, "ensuring") /\ work' = work
    BY <1>2 DEF Setup
  <2>2. conn'.status = "CONNECTED" BY <2>1, Basics DEF ConnRecords
  <2>3. NoneNew /\ \A kind, id : ~Awaits(kind, id)' BY <2>2, NoneNewAtTheEnd
  <2>4. work[w].message.kind # "revoke" BY <1>1 DEF CInv, Doing, Revoking
  <2>5. at'[w] = "ensuring" /\ work'[w] = work[w] => Doing(w)' BY <2>3, <2>4 DEF Doing
  <2>6. "ensuring" \in WorkStates BY DEF WorkStates, Serving
  <2> QED BY <1>1, <2>1, <2>3, <2>5, <2>6, WorkStaysRecord, KeepsMessage
<1>3. CASE ~Guarded(w)
  <2>1. Rests(w) /\ conn' = conn BY <1>3 DEF Setup
  <2>2. \A kind, id : Awaits(kind, id)' => kind # work[w].message.kind \/ id # work[w].message.id
    BY <1>1, <1>3, <2>1, UnguardedIsUnawaited DEF Awaits
  <2>3. NoneNew BY <1>1, <2>1, NoneNewOfItself
  <2> QED BY <1>1, <2>1, <2>2, <2>3, RestsDone
<1> QED BY <1>2, <1>3

LEMMA SetupFailedWaits ==
  ASSUME IInv, CInv, NEW w \in Workers, SetupFailed(w)
  PROVE  CInv'
<1>1. /\ at[w] = "failing" /\ Rests(w) /\ messages' = messages \cup Returned(work[w].message)
      /\ UNCHANGED <<recovery, losses, unsent>>
  BY DEF SetupFailed, Retries, mailVars, lossVars
<1>2. CASE Guarded(w)
  <2>1. conn'.status = "ERROR" BY <1>2, Basics DEF SetupFailed, ConnRecords
  <2>2. NoneNew /\ \A kind, id : ~Awaits(kind, id)' BY <2>1, NoneNewAtTheEnd
  <2> QED BY <1>1, <2>2, RestsDone
<1>3. CASE ~Guarded(w)
  <2>1. conn' = conn BY <1>3 DEF SetupFailed
  <2>2. \A kind, id : Awaits(kind, id)' => kind # work[w].message.kind \/ id # work[w].message.id
    BY <1>1, <1>3, <2>1, UnguardedIsUnawaited DEF Awaits
  <2>3. NoneNew BY <1>1, <2>1, NoneNewOfItself
  <2> QED BY <1>1, <2>2, <2>3, RestsDone
<1> QED BY <1>2, <1>3

LEMMA AuthorizationRequiredWaits ==
  ASSUME IInv, CInv, NEW w \in Workers, AuthorizationRequired(w)
  PROVE  CInv'
<1>1. /\ at[w] = "unauthorized" /\ Rests(w) /\ messages' = messages
      /\ UNCHANGED <<recovery, losses, unsent>>
  BY DEF AuthorizationRequired, outsideVars, lossVars
<1>2. CASE OfItsEpoch(w)
  <2>1. conn'.status = "ERROR" BY <1>2, Basics DEF AuthorizationRequired, ConnRecords
  <2>2. NoneNew /\ \A kind, id : ~Awaits(kind, id)' BY <2>1, NoneNewAtTheEnd
  <2> QED BY <1>1, <2>2, RestsDone
<1>3. CASE ~OfItsEpoch(w)
  <2>1. conn' = conn BY <1>3 DEF AuthorizationRequired
  <2>2. Doing(w) /\ at[w] \notin Revoking /\ at[w] \notin {"ensuring"} \cup Kinds
    BY <1>1, KindsApart DEF CInv, Revoking
  <2>3. \A kind, id : Awaits(kind, id)' => kind # work[w].message.kind \/ id # work[w].message.id
    BY <1>3, <2>1, <2>2 DEF Doing, Awaits, OfItsEpoch
  <2>4. NoneNew BY <1>1, <2>1, NoneNewOfItself
  <2> QED BY <1>1, <2>3, <2>4, RestsDone
<1> QED BY <1>2, <1>3

\* One that is past its setup waits for nothing.
LEMMA PastItsSetup ==
  ASSUME IInv, CInv, NEW w \in Workers, at[w] \in {"ensuring", "answering"} \cup Kinds
  PROVE  /\ work[w].message.kind # "revoke"
         /\ work[w].message.kind = "setup" => ~Awaits("setup", work[w].message.id)
         /\ \A kind, id : Awaits(kind, id) =>
                            kind # work[w].message.kind \/ id # work[w].message.id
<1>1. Doing(w) /\ at[w] \notin Revoking BY StatesApart DEF CInv, Revoking
<1>2. at[w] \notin {"setting", "connecting", "failing", "unauthorized"} BY KindsApart, StatesApart
<1> QED BY <1>1, <1>2 DEF Doing, Awaits

LEMMA EnsuringDoes ==
  ASSUME IInv, CInv, NEW w \in Workers, at[w] \in {"ensuring", "answering"} \cup Kinds,
         at'[w] \in {"ensuring"} \cup Kinds, work'[w].message = work[w].message, conn' = conn
  PROVE  Doing(w)'
<1>1. at'[w] # "idle" BY KindsApart
<1> QED BY <1>1, PastItsSetup DEF Doing, Awaits

LEMMA EnsureJobWaits ==
  ASSUME IInv, CInv, NEW w \in Workers, EnsureJob(w)
  PROVE  CInv'
<1>1. at[w] = "ensuring" /\ UNCHANGED <<conn, recovery, messages, losses, unsent>>
  BY DEF EnsureJob, lossVars
<1>2. PICK k \in work[w].todo :
        /\ work' = [work EXCEPT ![w].todo = @ \ {k}]
        /\ at' = at \/ Moves(w, k)
  BY DEF EnsureJob
<1>3. PICK r : r = [work[w] EXCEPT !.todo = @ \ {k}] OBVIOUS
<1>4. work[w] \in WorkRecords /\ k \in Kinds BY WorkFacts
<1>5. r \in WorkRecords /\ r.message = work[w].message BY <1>3, <1>4 DEF WorkRecords
<1>6. work' = [work EXCEPT ![w] = r] BY <1>2, <1>3, Basics
<1>7. PICK to \in {"ensuring", k} : Moves(w, to)
  <2>1. CASE at' = at BY <1>1, <2>1, Basics DEF Moves
  <2>2. CASE Moves(w, k) BY <2>2
  <2> QED BY <1>2, <2>1, <2>2
<1>8. to \in WorkStates BY <1>4, <1>7, StatesApart DEF WorkStates, Serving
<1>9. at'[w] = to /\ work'[w] = r => Doing(w)' BY <1>1, <1>4, <1>5, <1>7, EnsuringDoes
<1> QED BY <1>1, <1>5, <1>6, <1>7, <1>8, <1>9, NoneNewOfItself, KeepsMessage

LEMMA SendJobWaits ==
  ASSUME IInv, CInv, MaxLosses < MaxReceives, NEW w \in Workers, SendJob(w)
  PROVE  CInv'
<1>1. PICK k \in Kinds :
        /\ at[w] = k
        /\ \/ /\ messages' = messages \cup {Message(k, job[k].id)} /\ Moves(w, "ensuring")
              /\ UNCHANGED <<lossVars, work>>
           \/ losses < MaxLosses /\ losses' = losses + 1 /\ Retries(w)
        /\ UNCHANGED <<conn, recovery, unsent>>
  BY DEF SendJob
<1>2. NoneNew BY <1>1, NoneNewOfItself
<1>3. CASE /\ messages' = messages \cup {Message(k, job[k].id)} /\ Moves(w, "ensuring")
           /\ UNCHANGED <<lossVars, work>>
  <2>1. losses' = losses /\ work' = work BY <1>3 DEF lossVars
  <2>2. Message(k, job[k].id).kind = k BY DEF Message
  <2>3. at'[w] = "ensuring" /\ work'[w] = work[w] => Doing(w)' BY <1>1, EnsuringDoes
  <2>4. "ensuring" \in WorkStates BY DEF WorkStates, Serving
  <2> QED BY <1>2, <1>3, <2>1, <2>2, <2>3, <2>4, WorkStaysRecord, KeepsMessage
<1>4. CASE losses < MaxLosses /\ losses' = losses + 1 /\ Retries(w) BY <1>2, <1>4, RestsBack
<1> QED BY <1>1, <1>3, <1>4

LEMMA EnsuredAllWaits ==
  ASSUME IInv, CInv, NEW w \in Workers, EnsuredAll(w)
  PROVE  CInv'
<1>1. at[w] = "ensuring" /\ UNCHANGED <<conn, recovery, messages, losses, unsent>>
  BY DEF EnsuredAll, tableVars, mailVars, outsideVars, lossVars
<1>2. NoneNew BY <1>1, NoneNewOfItself
<1>3. CASE work[w].message.kind \in Kinds
  <2>1. Moves(w, "answering") /\ work' = work BY <1>3 DEF EnsuredAll
  <2>2. at'[w] = "answering" /\ work'[w] = work[w] => Doing(w)' BY <1>3, MailDoes
  <2>3. "answering" \in WorkStates BY DEF WorkStates, Serving
  <2> QED BY <1>1, <1>2, <2>1, <2>2, <2>3, WorkStaysRecord, KeepsMessage
<1>4. CASE work[w].message.kind \notin Kinds
  <2>1. \A kind, id : Awaits(kind, id)' => kind # work[w].message.kind \/ id # work[w].message.id
    BY <1>1, PastItsSetup DEF Awaits
  <2> QED BY <1>1, <1>2, <1>4, <2>1, RestsDone DEF EnsuredAll
<1> QED BY <1>3, <1>4

LEMMA AnswerWaits ==
  ASSUME IInv, CInv, NEW w \in Workers, Answer(w)
  PROVE  CInv'
<1> DEFINE m == work[w].message
<1>1. at[w] = "answering" /\ UNCHANGED <<conn, recovery, losses, unsent>>
  BY DEF Answer, lossVars
<1>2. NoneNew BY <1>1, NoneNewOfItself
<1>3. m.kind \in Kinds BY <1>1, WorkFacts DEF WorkInv
<1>4. \A kind, id : Awaits(kind, id)' => kind # m.kind BY <1>3, KindsApart DEF Awaits
<1>5. CASE Rests(w) /\ messages \subseteq messages' /\ messages' \subseteq messages \cup Returned(m)
  BY <1>1, <1>2, <1>4, <1>5, RestsDone
<1>6. CASE /\ Moves(w, "unauthorized") /\ work' = [work EXCEPT ![w].epoch = conn.epoch]
           /\ messages' = messages
  <2>1. PICK r : r = [work[w] EXCEPT !.epoch = conn.epoch] OBVIOUS
  <2>2. work[w] \in WorkRecords /\ conn.epoch \in Nat BY Basics
  <2>3. r \in WorkRecords /\ r.message = m BY <2>1, <2>2 DEF WorkRecords
  <2>4. work' = [work EXCEPT ![w] = r] BY <1>6, <2>1, Basics
  <2>5. "unauthorized" \in WorkStates BY DEF WorkStates
  <2>6. at'[w] = "unauthorized" /\ work'[w] = r => Doing(w)' BY <1>3, <2>3, MailDoes
  <2> QED BY <1>1, <1>2, <1>6, <2>3, <2>4, <2>5, <2>6, KeepsMessage
<1>7. \/ Rests(w) /\ messages \subseteq messages' /\ messages' \subseteq messages \cup Returned(m)
      \/ /\ Moves(w, "unauthorized") /\ work' = [work EXCEPT ![w].epoch = conn.epoch]
         /\ messages' = messages
  BY DEF Answer, Retries
<1> QED BY <1>5, <1>6, <1>7

LEMMA WorkerDiesWaits ==
  ASSUME IInv, CInv, MaxLosses < MaxReceives, NEW w \in Workers, WorkerDies(w)
  PROVE  CInv'
<1>1. UNCHANGED <<conn, recovery, unsent>> /\ losses < MaxLosses /\ losses' = losses + 1 /\ Retries(w)
  BY DEF WorkerDies, tableVars, mailVars
<1> QED BY <1>1, NoneNewOfItself, RestsBack

LEMMA StepWaits ==
  ASSUME MaxLosses < MaxReceives
  PROVE  IInv /\ IInv' /\ CInv /\ [Next]_vars => CInv'
<1> SUFFICES ASSUME IInv, IInv', CInv, [Next]_vars PROVE CInv'
  OBVIOUS
<1>1. ASSUME NEW c \in Calls, BeginAuthorize(c) \/ BeginRescan(c) \/ BeginCalendar(c) \/ CallStep(c)
               \/ CallDies(c) \/ (\E f \in flows : BeginComplete(c, f))
      PROVE  CInv'
  BY <1>1, CallsWait, ConnectingWaits DEF CallStep
<1>2. ASSUME NEW f \in flows, NEW a \in Accounts, Consent(f, a) PROVE CInv'
  BY <1>2, ConsentWaits
<1>3. CASE Disconnect BY <1>3, DisconnectWaits
<1>4. CASE GrantLost BY <1>4, GrantLostWaits
<1>5. ASSUME NEW k \in Kinds, RequestMail(k) PROVE CInv' BY <1>5, RequestMailWaits
<1>6. ASSUME NEW w \in Workers, Works(w) \/ Maintain(w) \/ WorkerDies(w) PROVE CInv'
  BY <1>6, TakeWaits, RevokeWaits, RevokeCompleteWaits, RecoverSetupWaits, InvokeSetupWaits,
     SetupWaits, SetupFailedWaits, EnsureJobWaits, SendJobWaits, EnsuredAllWaits, AnswerWaits,
     AuthorizationRequiredWaits, MaintainWaits, WorkerDiesWaits DEF Works, WorkerStep
<1>7. ASSUME NEW m \in messages, Drop(m) PROVE CInv' BY <1>7, DropWaits
<1>8. CASE UNCHANGED vars
  <2>1. UNCHANGED <<conn, recovery, messages, losses, unsent, workVars>>
    BY <1>8 DEF vars, tableVars, mailVars, outsideVars, lossVars
  <2>2. AwaitsNoMore /\ DueNoMore BY <2>1, NoneNewOfItself DEF NoneNew
  <2>3. losses' \in losses .. MaxLosses BY <2>1, Basics, ConnectionAssumption DEF CInv
  <2> QED BY <2>1, <2>2, <2>3, WaitsOn DEF DueNoMore
<1> QED BY <1>1, <1>2, <1>3, <1>4, <1>5, <1>6, <1>7, <1>8 DEF Next

LEMMA Waiting ==
  ASSUME MaxLosses < MaxReceives
  PROVE  Spec => []CInv
<1>1. Init => CInv BY InitWaits
<1>2. IInv /\ IInv' /\ CInv /\ [Next]_vars => CInv' BY StepWaits
<1> QED BY <1>1, <1>2, Invariance, PTL DEF Spec

\* A connection that is being set up is waited for by the message that sets it up, whatever
\* fails or dies fewer times than a message is received.
THEOREM SetupCarried ==
  ASSUME MaxLosses < MaxReceives
  PROVE  Spec => []SetupIsCarried
<1>1. CInv => SetupIsCarried BY DEF CInv, SetupIsCarried, Due, Awaits
<1> QED BY <1>1, Waiting, PTL

\* So is one that is being revoked, which refuses every authorization.
THEOREM RevocationCarried ==
  ASSUME MaxLosses < MaxReceives
  PROVE  Spec => []RevocationIsCarried
<1>1. CInv => RevocationIsCarried BY DEF CInv, RevocationIsCarried, Due, Awaits
<1> QED BY <1>1, Waiting, PTL
===============================================================================
