---------------------------- MODULE MailScanProofs ----------------------------
(***************************************************************************)
(* The mail scan for every number of calls, workers, mails, pages, edits   *)
(* and connections.  The arguments: scans are named once, and an epoch     *)
(* never returns here, so an equal name is the scan that was read; every   *)
(* page raises the step, so an equal step is an equal set of results; and  *)
(* a sync moves the cursor from where its own analysis began.  Of a scan   *)
(* that waits some message, worker or call is there, since a message loses *)
(* a receive only to a failure or a death.                                 *)
(***************************************************************************)
EXTENDS MailScan, TLAPS

Connections == [on : BOOLEAN, epoch : Nat, cursor : Nat, token : Workers \cup {None}]
Profiles == [version : Nat, configured : BOOLEAN]
ResultKinds == {"first", "page", "mail", "recent", "passed"}
ResultRecords == [scan : Nat, version : Nat, of : ResultKinds, n : Nat]
Modes == {"none", "INITIAL_7_DAY", "INCREMENTAL", "BOUNDED_FULL_SYNC"}
CallRecords ==
  [message : Payloads, scan : Scans, version : Nat, epoch : Nat, items : SUBSET ResultRecords]
WorkRecords ==
  [message : Payloads, scan : Scans, version : Nat, epoch : Nat, start : Nat,
   next : Payloads \cup {None}, mode : Modes, upto : Nat, last : BOOLEAN, mails : SUBSET Nat]
CallStates == {"idle", "dispatching", "refused", "querying", "checking"}
Reading == {"claiming", "analysing", "storing"}
WorkStates == Reading \cup {"idle", "ensuring", "failing", "forwarding", "recording"}

ConnTyped == head \in Nat /\ conn \in Connections
ItemsTyped ==
  /\ profile \in Profiles /\ scan \in Scans /\ results \subseteq ResultRecords
  /\ messages \subseteq Payloads /\ ids \in Nat
CallsTyped == pc \in [Calls -> CallStates] /\ call \in [Calls -> CallRecords]
WorkTyped == at \in [Workers -> WorkStates] /\ work \in [Workers -> WorkRecords]
Typed == ConnTyped /\ ItemsTyped /\ CallsTyped /\ WorkTyped

\* Names are given in order, and only a scan that was named has results.
Named ==
  /\ scan.id <= ids /\ scan.epoch <= conn.epoch /\ conn.cursor <= head
  /\ \A r \in results : r.scan # 0 /\ r.scan <= ids
  /\ Found(scan) # {} => scan.step > 0
  /\ scan.status = "READY" => scan.completed

\* What was queried is what there is, while the step is the one that was read.
CallInv(c) ==
  /\ pc[c] \in {"querying", "checking"} =>
       /\ call[c].scan.id # 0 /\ call[c].scan.id <= ids
       /\ call[c].scan.id = scan.id => call[c].scan.step <= scan.step
  /\ pc[c] = "checking" /\ call[c].scan.id = scan.id /\ call[c].scan.step = scan.step =>
       call[c].items = Found(scan)

\* A job's scan was of the connection that it read; a sync's answer is not behind its
\* start, and one that follows the history has every mail between the two.
WorkInv(w) ==
  /\ work[w].upto <= head
  /\ at[w] \in Reading => work[w].scan.id # 0 /\ work[w].scan.epoch = work[w].epoch
  /\ at[w] = "forwarding" => work[w].next \in Payloads
  /\ at[w] = "analysing" /\ work[w].message.kind = "history" =>
       work[w].start < work[w].message.upto
  /\ at[w] = "storing" /\ work[w].message.kind = "history" =>
       /\ work[w].start <= work[w].upto
       /\ work[w].mode = "INCREMENTAL" => work[w].mails = work[w].start + 1 .. work[w].upto

IInv ==
  /\ Typed /\ Named /\ HistoryHasNoGap
  /\ \A c \in Calls : CallInv(c)
  /\ \A w \in Workers : WorkInv(w)

----------------------------------------------------------------------------
LEMMA MessageTyped ==
  ASSUME NEW kind \in Kinds, NEW id \in Nat, NEW version \in Nat, NEW step \in Nat, NEW upto \in Nat
  PROVE  Message(kind, id, version, step, upto) \in Payloads
  BY ScanAssumption DEF Message, Payloads

LEMMA NoneTyped ==
  NoMessage \in Payloads /\ EmptyScan \in Scans /\ NoCall \in CallRecords /\ NoWork \in WorkRecords
<1>1. NoMessage \in Payloads BY MessageTyped DEF NoMessage, Kinds
<1>2. EmptyScan \in Scans BY DEF EmptyScan, Scans
<1>3. NoCall \in CallRecords BY <1>1, <1>2 DEF NoCall, CallRecords
<1>4. NoWork \in WorkRecords BY <1>1, <1>2 DEF NoWork, WorkRecords, Modes
<1> QED BY <1>1, <1>2, <1>3, <1>4

LEMMA IdentityTyped ==
  ASSUME NEW s \in Scans
  PROVE  LET i == Identity(s) IN i \in Scans /\ i.id = s.id /\ i.epoch = s.epoch /\ i.step = s.step
<1>1. PICK i : i = [EmptyScan EXCEPT !.id = s.id, !.epoch = s.epoch, !.step = s.step]
  OBVIOUS
<1>2. i = [status |-> "NOT_STARTED", id |-> s.id, version |-> 0, completed |-> FALSE,
           epoch |-> s.epoch, step |-> s.step, next |-> None]
  BY <1>1 DEF EmptyScan
<1>3. i \in Scans /\ i.id = s.id /\ i.epoch = s.epoch /\ i.step = s.step
  BY <1>2 DEF Scans
<1> QED BY <1>1, <1>3 DEF Identity

LEMMA NewScanTyped ==
  ASSUME Typed, NEW id \in Nat
  PROVE  NewScan(id) =
           [status |-> "PENDING", id |-> id, version |-> profile.version, completed |-> FALSE,
            epoch |-> conn.epoch, step |-> 0, next |-> None]
         /\ NewScan(id) \in Scans
<1>1. PICK s : s = [EmptyScan EXCEPT !.status = "PENDING", !.id = id, !.version = profile.version,
                                     !.epoch = conn.epoch]
  OBVIOUS
<1>2. s = [status |-> "PENDING", id |-> id, version |-> profile.version, completed |-> FALSE,
           epoch |-> conn.epoch, step |-> 0, next |-> None]
  BY <1>1 DEF EmptyScan
<1>3. profile.version \in Nat /\ conn.epoch \in Nat
  BY DEF Typed, ConnTyped, ItemsTyped, Profiles, Connections
<1>4. s \in Scans BY <1>2, <1>3 DEF Scans
<1> QED BY <1>1, <1>2, <1>4 DEF NewScan

LEMMA ReturnedTyped ==
  ASSUME NEW m \in Payloads
  PROVE  Returned(m) \subseteq Payloads
<1> SUFFICES ASSUME m.left > 1, NEW n, n = [m EXCEPT !.left = @ - 1] PROVE n \in Payloads
  BY DEF Returned
<1>1. n = [kind |-> m.kind, id |-> m.id, version |-> m.version, step |-> m.step, upto |-> m.upto,
           left |-> m.left - 1]
  BY DEF Payloads
<1>2. m.left - 1 \in 1 .. MaxReceives BY ScanAssumption DEF Payloads
<1> QED BY <1>1, <1>2 DEF Payloads

\* The invariant holds when nothing is connected.
LEMMA InitEstablishes == Init => IInv
<1> SUFFICES ASSUME Init PROVE IInv
  OBVIOUS
<1> USE DEF Init
<1>1. ConnTyped BY DEF ConnTyped, Connections
<1>2. ItemsTyped BY NoneTyped DEF ItemsTyped, Profiles
<1>3. CallsTyped BY NoneTyped DEF CallsTyped, CallStates
<1>4. WorkTyped BY NoneTyped DEF WorkTyped, WorkStates
<1>5. Named BY DEF Named, EmptyScan, Found
<1>6. HistoryHasNoGap BY DEF HistoryHasNoGap, Found
<1>7. \A c \in Calls : CallInv(c) BY DEF CallInv
<1>8. \A w \in Workers : WorkInv(w) BY DEF WorkInv, NoWork, Reading
<1> QED BY <1>1, <1>2, <1>3, <1>4, <1>5, <1>6, <1>7, <1>8 DEF IInv, Typed

----------------------------------------------------------------------------
(***************************************************************************)
(* What has been read stays true, whatever moves the items.                *)
(***************************************************************************)
SameScanStays == scan'.id = scan.id /\ scan'.step = scan.step /\ results' = results
OtherScan == scan'.id = 0 \/ scan'.id > ids
ScanMoves ==
  SameScanStays \/ (scan'.id = scan.id /\ scan'.step > scan.step) \/ OtherScan
Evolves == head' >= head /\ ids' >= ids /\ ScanMoves

LEMMA CallStays ==
  ASSUME IInv, Typed', Evolves, NEW c \in Calls, pc'[c] = pc[c], call'[c] = call[c]
  PROVE  CallInv(c)'
<1>1. CallInv(c) BY DEF IInv
<1>2. /\ call[c].scan.id \in Nat /\ call[c].scan.step \in Nat /\ ids \in Nat /\ ids' \in Nat
      /\ scan.id \in Nat /\ scan.step \in Nat /\ scan'.id \in Nat /\ scan'.step \in Nat
  BY DEF IInv, Typed, CallsTyped, CallRecords, ItemsTyped, Scans
<1>3. CASE SameScanStays
  <2>1. Found(scan)' = Found(scan) BY <1>3 DEF SameScanStays, Found
  <2> QED BY <1>1, <1>2, <1>3, <2>1 DEF CallInv, SameScanStays, Evolves
<1>4. CASE scan'.id = scan.id /\ scan'.step > scan.step
  BY <1>1, <1>2, <1>4 DEF CallInv, Evolves
<1>5. CASE OtherScan
  BY <1>1, <1>2, <1>5 DEF CallInv, Evolves, OtherScan
<1> QED BY <1>3, <1>4, <1>5 DEF Evolves, ScanMoves

LEMMA WorkStays ==
  ASSUME IInv, Typed', Evolves, NEW w \in Workers, at'[w] = at[w], work'[w] = work[w]
  PROVE  WorkInv(w)'
<1>1. WorkInv(w) BY DEF IInv
<1>2. work[w].upto \in Nat /\ head \in Nat /\ head' \in Nat
  BY DEF IInv, Typed, WorkTyped, WorkRecords, ConnTyped
<1> QED BY <1>1, <1>2 DEF WorkInv, Evolves

LEMMA Assembled ==
  ASSUME IInv, Typed', Evolves, Named', HistoryHasNoGap',
         \A c \in Calls : CallInv(c)' \/ (pc'[c] = pc[c] /\ call'[c] = call[c]),
         \A w \in Workers : WorkInv(w)' \/ (at'[w] = at[w] /\ work'[w] = work[w])
  PROVE  IInv'
  BY CallStays, WorkStays DEF IInv

\* Nothing is stored, and the scan and the cursor are the ones there were.
LEMMA SameItems ==
  ASSUME IInv, ConnTyped', ItemsTyped', head' >= head, ids' >= ids, results' = results,
         scan'.id = scan.id, scan'.step = scan.step, scan'.epoch = scan.epoch,
         scan'.status = "READY" => scan'.completed,
         conn'.cursor = conn.cursor, conn'.epoch = conn.epoch, conn'.on => conn.on
  PROVE  Evolves /\ Named' /\ HistoryHasNoGap'
<1>1. Evolves BY DEF Evolves, ScanMoves, SameScanStays
<1>2. Found(scan)' = Found(scan) BY DEF Found
<1>3. Named'
  <2>1. /\ scan.id \in Nat /\ ids \in Nat /\ ids' \in Nat /\ conn.cursor \in Nat /\ head \in Nat
        /\ head' \in Nat /\ \A r \in results : r.scan \in Nat
    BY DEF IInv, Typed, ConnTyped, Connections, ItemsTyped, Scans, ResultRecords
  <2> QED BY <1>2, <2>1 DEF IInv, Named
<1>4. OfConnection(scan)' => OfConnection(scan) BY DEF OfConnection
<1> QED BY <1>1, <1>2, <1>3, <1>4 DEF IInv, HistoryHasNoGap

\* A new scan, or none, has no results.
LEMMA NextScan ==
  ASSUME IInv, ItemsTyped', head' = head, ids' >= ids, results' = results, conn' = conn,
         OtherScan, scan'.id <= ids', scan'.epoch <= conn.epoch,
         scan'.status # "READY"
  PROVE  Evolves /\ Named' /\ HistoryHasNoGap'
<1>1. /\ scan'.id \in Nat /\ ids \in Nat /\ ids' \in Nat /\ conn.cursor \in Nat /\ head \in Nat
      /\ \A r \in results : r.scan \in Nat
  BY DEF IInv, Typed, ConnTyped, Connections, ItemsTyped, Scans, ResultRecords
<1>2. Found(scan)' = {}
  BY <1>1 DEF IInv, Named, Found, OtherScan
<1>3. Evolves BY <1>1 DEF Evolves, ScanMoves
<1>4. Named' BY <1>1, <1>2 DEF IInv, Named
<1> QED BY <1>2, <1>3, <1>4 DEF HistoryHasNoGap

----------------------------------------------------------------------------
(***************************************************************************)
(* Gmail, the connection and the end of a claim.                           *)
(***************************************************************************)
LEMMA ConnShape ==
  ASSUME NEW rec \in Connections, NEW on \in BOOLEAN, NEW token \in Workers \cup {None}, NEW new,
         new = [rec EXCEPT !.on = on] \/ new = [rec EXCEPT !.token = token]
  PROVE  /\ new \in Connections /\ new.cursor = rec.cursor /\ new.epoch = rec.epoch
         /\ new.on = on \/ new.on = rec.on
  BY DEF Connections

LEMMA OutsideKeeps ==
  ASSUME IInv, MailArrives \/ Notify \/ Disconnect \/ Connect \/ ClaimExpires
  PROVE  IInv'
<1>1. /\ head \in Nat /\ conn \in Connections /\ conn.epoch \in Nat /\ conn.cursor \in Nat
      /\ conn.cursor <= head /\ messages \subseteq Payloads
      /\ (scan.status = "READY" => scan.completed)
      /\ scan \in Scans /\ scan.epoch \in Nat /\ scan.epoch <= conn.epoch /\ ids \in Nat
  BY DEF IInv, Typed, ConnTyped, ItemsTyped, Connections, Scans, Named
<1>2. UNCHANGED <<itemVars, results, ids, callVars, workVars>>
  BY DEF MailArrives, Notify, Disconnect, Connect, ClaimExpires, tableVars
<1>3. CallsTyped' /\ WorkTyped'
  BY <1>2 DEF IInv, Typed, CallsTyped, WorkTyped, callVars, workVars
<1>4. ASSUME ConnTyped', messages' \subseteq Payloads PROVE Typed'
  BY <1>2, <1>3, <1>4 DEF IInv, Typed, ItemsTyped, itemVars
<1>5. ASSUME Typed', Evolves, Named', HistoryHasNoGap' PROVE IInv'
  BY <1>2, <1>5, Assembled DEF callVars, workVars
<1>6. ASSUME Typed', head' >= head, conn'.cursor = conn.cursor, conn'.epoch = conn.epoch,
             conn'.on => conn.on
      PROVE  IInv'
  BY <1>1, <1>2, <1>5, <1>6, SameItems DEF itemVars, Typed
<1>7. CASE MailArrives
  <2>1. head' = head + 1 /\ conn' = conn /\ messages' = messages
    BY <1>7 DEF MailArrives, tableVars
  <2>2. Typed' BY <1>1, <1>4, <2>1 DEF ConnTyped
  <2> QED BY <1>1, <1>6, <2>1, <2>2
<1>8. CASE Notify
  <2>1. head' = head /\ conn' = conn /\ messages' = messages \cup {History(head)}
    BY <1>8 DEF Notify, tableVars
  <2>2. History(head) \in Payloads BY <1>1, MessageTyped DEF History, Kinds
  <2>3. Typed' BY <1>1, <1>4, <2>1, <2>2 DEF ConnTyped
  <2> QED BY <1>1, <1>6, <2>1, <2>3
<1>9. CASE Disconnect
  <2>1. head' = head /\ conn' = [conn EXCEPT !.on = FALSE] /\ messages' = messages
    BY <1>9 DEF Disconnect
  <2>2. conn' \in Connections /\ conn'.cursor = conn.cursor /\ conn'.epoch = conn.epoch /\ ~conn'.on
    BY <1>1, <2>1 DEF Connections
  <2>3. Typed' BY <1>1, <1>4, <2>1, <2>2 DEF ConnTyped
  <2> QED BY <1>1, <1>6, <2>1, <2>2, <2>3
<1>10. CASE ClaimExpires
  <2>1. head' = head /\ conn' = [conn EXCEPT !.token = None] /\ messages' = messages
    BY <1>10 DEF ClaimExpires
  <2>2. /\ conn' \in Connections /\ conn'.cursor = conn.cursor /\ conn'.epoch = conn.epoch
        /\ conn'.on = conn.on
    BY <1>1, <2>1 DEF Connections
  <2>3. Typed' BY <1>1, <1>4, <2>1, <2>2 DEF ConnTyped
  <2> QED BY <1>1, <1>6, <2>1, <2>2, <2>3
<1>11. CASE Connect
  <2>1. /\ head' = head /\ conn' = [on |-> TRUE, epoch |-> conn.epoch + 1, cursor |-> head, token |-> None]
        /\ messages' = messages \cup {Message("setup", conn.epoch + 1, 0, 0, 0)}
    BY <1>11 DEF Connect
  <2>2. Message("setup", conn.epoch + 1, 0, 0, 0) \in Payloads
    BY <1>1, MessageTyped DEF Kinds
  <2>3. conn' \in Connections BY <1>1, <2>1 DEF Connections
  <2>4. Typed' BY <1>1, <1>4, <2>1, <2>2, <2>3 DEF ConnTyped
  <2>5. Evolves BY <1>1, <1>2, <2>1 DEF Evolves, ScanMoves, SameScanStays, itemVars
  <2>6. Named' BY <1>1, <1>2, <2>1 DEF IInv, Named, Found, itemVars
  <2>7. ~OfConnection(scan)' BY <1>1, <1>2, <2>1 DEF OfConnection, itemVars
  <2> QED BY <1>5, <2>4, <2>5, <2>6, <2>7 DEF HistoryHasNoGap
<1> QED BY <1>7, <1>8, <1>9, <1>10, <1>11

----------------------------------------------------------------------------
(***************************************************************************)
(* API calls.                                                              *)
(***************************************************************************)
\* One call moves.
LEMMA CallStep_ ==
  ASSUME IInv, NEW c \in Calls, NEW to \in CallStates, NEW k \in CallRecords,
         Goes(c, to), call' = [call EXCEPT ![c] = k],
         UNCHANGED <<head, conn, results, workVars>>, ItemsTyped',
         Evolves, Named', HistoryHasNoGap',
         pc'[c] = to /\ call'[c] = k => CallInv(c)'
  PROVE  IInv'
<1>1. CallsTyped BY DEF IInv, Typed
<1>2. pc'[c] = to /\ call'[c] = k /\ CallsTyped' BY <1>1 DEF CallsTyped, Goes
<1>3. \A d \in Calls \ {c} : pc'[d] = pc[d] /\ call'[d] = call[d]
  BY <1>1 DEF CallsTyped, Goes
<1>4. Typed' BY <1>2 DEF IInv, Typed, ConnTyped, WorkTyped, workVars
<1> QED BY <1>2, <1>3, <1>4, Assembled DEF workVars

\* The items do not change.
LEMMA CallOnly ==
  ASSUME IInv, NEW c \in Calls, NEW to \in CallStates, NEW k \in CallRecords,
         Goes(c, to), call' = [call EXCEPT ![c] = k],
         UNCHANGED <<head, tableVars, ids, workVars>>, messages' \subseteq Payloads,
         pc'[c] = to /\ call'[c] = k => CallInv(c)'
  PROVE  IInv'
<1>1. ItemsTyped' BY DEF IInv, Typed, ItemsTyped, tableVars, itemVars
<1>2. Evolves
  BY DEF IInv, Typed, ConnTyped, ItemsTyped, Evolves, ScanMoves, SameScanStays, tableVars, itemVars
<1>3. Named' /\ HistoryHasNoGap'
  BY DEF IInv, Named, HistoryHasNoGap, Found, OfConnection, tableVars, itemVars
<1> QED BY <1>1, <1>2, <1>3, CallStep_ DEF tableVars

\* A call that has read no results.
LEMMA PlainCall ==
  ASSUME NEW c, pc'[c] \in {"idle", "dispatching", "refused"} PROVE CallInv(c)'
  BY DEF CallInv

LEMMA DispatchesTyped ==
  ASSUME IInv, NEW c \in Calls, NEW id \in Nat, NEW version \in Nat, Dispatches(c, id, version)
  PROVE  \E k \in CallRecords : Goes(c, "dispatching") /\ call' = [call EXCEPT ![c] = k]
<1>1. Message("scan", id, version, 0, 0) \in Payloads BY MessageTyped DEF Kinds
<1>2. call[c] \in CallRecords BY DEF IInv, Typed, CallsTyped
<1>3. PICK k : k = [call[c] EXCEPT !.message = Message("scan", id, version, 0, 0)] OBVIOUS
<1>4. k = [message |-> Message("scan", id, version, 0, 0), scan |-> call[c].scan,
           version |-> call[c].version, epoch |-> call[c].epoch, items |-> call[c].items]
  BY <1>2, <1>3 DEF CallRecords
<1>5. k \in CallRecords BY <1>1, <1>2, <1>4 DEF CallRecords
<1>6. call' = [call EXCEPT ![c] = k] BY <1>3 DEF Dispatches
<1> QED BY <1>5, <1>6 DEF Dispatches

LEMMA RequestKeeps ==
  ASSUME IInv, NEW c \in Calls, RequestAgain(c) \/ RequestResume(c) \/ RequestScan(c)
  PROVE  IInv'
<1>1. /\ scan \in Scans /\ profile \in Profiles /\ ids \in Nat /\ head \in Nat /\ scan.id \in Nat
      /\ scan.version \in Nat /\ profile.version \in Nat /\ conn \in Connections
      /\ messages \subseteq Payloads /\ results \subseteq ResultRecords /\ conn.epoch \in Nat
      /\ scan.step \in Nat /\ scan.epoch \in Nat
  BY DEF IInv, Typed, ConnTyped, ItemsTyped, Scans, Profiles, Connections
<1>2. UNCHANGED <<head, conn, profile, results, messages, workVars>>
  BY DEF RequestAgain, RequestResume, RequestScan
<1>3. ASSUME NEW id \in Nat, NEW version \in Nat, Dispatches(c, id, version),
             ids' \in Nat, scan' \in Scans, Evolves, Named', HistoryHasNoGap'
      PROVE  IInv'
  <2>1. ItemsTyped' BY <1>1, <1>2, <1>3 DEF ItemsTyped
  <2> QED BY <1>2, <1>3, <2>1, DispatchesTyped, PlainCall, CallStep_ DEF CallStates
<1>4. CASE RequestAgain(c)
  <2>1. Dispatches(c, scan.id, scan.version) /\ scan' = scan /\ ids' = ids
    BY <1>4 DEF RequestAgain
  <2>2. Evolves /\ Named' /\ HistoryHasNoGap'
    BY <1>1, <1>2, <2>1
    DEF IInv, Evolves, ScanMoves, SameScanStays, Named, HistoryHasNoGap, Found, OfConnection
  <2> QED BY <1>1, <1>3, <2>1, <2>2
<1>5. CASE RequestResume(c)
  <2>1. /\ Dispatches(c, scan.id, scan.version) /\ scan' = [scan EXCEPT !.status = "PENDING"]
        /\ ids' = ids
    BY <1>5 DEF RequestResume
  <2>2. /\ scan' \in Scans /\ scan'.id = scan.id /\ scan'.step = scan.step
        /\ scan'.epoch = scan.epoch /\ scan'.status = "PENDING"
    BY <1>1, <2>1 DEF Scans
  <2>3. /\ scan'.id <= ids' /\ scan'.epoch <= conn'.epoch
    BY <1>1, <1>2, <2>1, <2>2 DEF IInv, Named
  <2>4. Evolves BY <1>1, <1>2, <2>1, <2>2 DEF Evolves, ScanMoves, SameScanStays
  <2>5. Found(scan)' = Found(scan) /\ OfConnection(scan)' = OfConnection(scan)
    BY <1>2, <2>2 DEF Found, OfConnection
  <2>6. Named' BY <1>2, <2>1, <2>2, <2>3, <2>5 DEF IInv, Named
  <2>7. HistoryHasNoGap' BY <1>2, <2>5 DEF IInv, HistoryHasNoGap
  <2> QED BY <1>1, <1>3, <2>1, <2>2, <2>4, <2>6, <2>7
<1>6. CASE RequestScan(c)
  <2>1. /\ Dispatches(c, ids + 1, profile.version) /\ scan' = NewScan(ids + 1) /\ ids' = ids + 1
    BY <1>6 DEF RequestScan
  <2>2. /\ scan' \in Scans /\ scan'.id = ids + 1 /\ scan'.epoch = conn.epoch
        /\ scan'.status = "PENDING"
    BY <1>1, <2>1, NewScanTyped DEF IInv
  <2>3. OtherScan /\ scan'.id <= ids' /\ scan'.epoch <= conn.epoch /\ ids' >= ids
    BY <1>1, <2>1, <2>2 DEF OtherScan
  <2>4. ItemsTyped' BY <1>1, <1>2, <2>1, <2>2 DEF ItemsTyped
  <2>5. Evolves /\ Named' /\ HistoryHasNoGap' BY <1>2, <2>2, <2>3, <2>4, NextScan
  <2> QED BY <1>1, <1>3, <2>1, <2>2, <2>5
<1> QED BY <1>4, <1>5, <1>6

\* No call and no worker moves.
LEMMA Untouched ==
  ASSUME IInv, UNCHANGED <<head, conn, callVars, workVars>>, ItemsTyped', Evolves, Named',
         HistoryHasNoGap'
  PROVE  IInv'
<1>1. Typed'
  BY DEF IInv, Typed, ConnTyped, CallsTyped, WorkTyped, callVars, workVars
<1> QED BY <1>1, Assembled DEF callVars, workVars

LEMMA SaveProfileKeeps ==
  ASSUME IInv, NEW c \in Calls, SaveProfile(c)
  PROVE  IInv'
<1>1. /\ scan \in Scans /\ profile \in Profiles /\ ids \in Nat /\ head \in Nat
      /\ profile.version \in Nat /\ profile.version + 1 \in Nat /\ conn.epoch \in Nat
      /\ messages \subseteq Payloads /\ results \subseteq ResultRecords
  BY DEF IInv, Typed, ConnTyped, ItemsTyped, Profiles, Connections
<1>2. UNCHANGED <<head, conn, results, messages, workVars>> BY DEF SaveProfile
<1>3. PICK interests \in BOOLEAN :
        /\ profile' = [version |-> profile.version + 1, configured |-> interests]
        /\ IF interests /\ conn.on
           THEN /\ ids' = ids + 1
                /\ scan' = [NewScan(ids + 1) EXCEPT !.version = profile'.version]
                /\ Dispatches(c, ids + 1, profile'.version)
           ELSE /\ scan' = [EmptyScan EXCEPT !.version = profile'.version, !.epoch = conn.epoch]
                /\ UNCHANGED <<ids, callVars>>
  BY DEF SaveProfile
<1>4. profile' \in Profiles /\ profile'.version = profile.version + 1 BY <1>1, <1>3 DEF Profiles
<1>5. CASE interests /\ conn.on
  <2>1. /\ ids' = ids + 1 /\ scan' = [NewScan(ids + 1) EXCEPT !.version = profile'.version]
        /\ Dispatches(c, ids + 1, profile'.version)
    BY <1>3, <1>5
  <2>8. NewScan(ids + 1) =
          [status |-> "PENDING", id |-> ids + 1, version |-> profile.version, completed |-> FALSE,
           epoch |-> conn.epoch, step |-> 0, next |-> None]
    <3>1. Typed BY DEF IInv
    <3>2. ids + 1 \in Nat BY <1>1
    <3> QED BY <3>1, <3>2, NewScanTyped
  <2>2. scan' = [status |-> "PENDING", id |-> ids + 1, version |-> profile'.version,
                 completed |-> FALSE, epoch |-> conn.epoch, step |-> 0, next |-> None]
    <3>1. PICK n, v : n = NewScan(ids + 1) /\ v = profile'.version OBVIOUS
    <3>2. scan' = [n EXCEPT !.version = v] BY <2>1, <3>1
    <3>3. n = [status |-> "PENDING", id |-> ids + 1, version |-> profile.version,
               completed |-> FALSE, epoch |-> conn.epoch, step |-> 0, next |-> None]
      BY <2>8, <3>1
    <3>4. scan' = [status |-> "PENDING", id |-> ids + 1, version |-> v,
                   completed |-> FALSE, epoch |-> conn.epoch, step |-> 0, next |-> None]
      BY <3>2, <3>3
    <3> QED BY <3>1, <3>4
  <2>3. scan' \in Scans BY <1>1, <1>4, <2>2 DEF Scans
  <2>4. ItemsTyped' BY <1>1, <1>2, <1>4, <2>1, <2>3 DEF ItemsTyped
  <2>5. OtherScan /\ scan'.id <= ids' /\ scan'.epoch <= conn.epoch /\ ids' >= ids /\ scan'.status # "READY"
    BY <1>1, <2>1, <2>2 DEF OtherScan
  <2>6. Evolves /\ Named' /\ HistoryHasNoGap' BY <1>2, <2>4, <2>5, NextScan
  <2>7. ids + 1 \in Nat /\ profile'.version \in Nat BY <1>1, <1>4
  <2> QED BY <1>2, <2>1, <2>4, <2>6, <2>7, DispatchesTyped, PlainCall, CallStep_ DEF CallStates
<1>6. CASE ~(interests /\ conn.on)
  <2>1. /\ scan' = [EmptyScan EXCEPT !.version = profile'.version, !.epoch = conn.epoch]
        /\ ids' = ids /\ UNCHANGED callVars
    BY <1>3, <1>6
  <2>2. scan' = [status |-> "NOT_STARTED", id |-> 0, version |-> profile'.version,
                 completed |-> FALSE, epoch |-> conn.epoch, step |-> 0, next |-> None]
    BY <2>1 DEF EmptyScan
  <2>3. scan' \in Scans BY <1>1, <1>4, <2>2 DEF Scans
  <2>4. ItemsTyped' BY <1>1, <1>2, <1>4, <2>1, <2>3 DEF ItemsTyped
  <2>5. OtherScan /\ scan'.id <= ids' /\ scan'.epoch <= conn.epoch /\ ids' >= ids /\ scan'.status # "READY"
    <3>1. scan'.id = 0 /\ scan'.epoch = conn.epoch /\ scan'.status = "NOT_STARTED" BY <2>2
    <3> QED BY <1>1, <2>1, <3>1 DEF OtherScan
  <2>6. Evolves /\ Named' /\ HistoryHasNoGap' BY <1>2, <2>4, <2>5, NextScan
  <2> QED BY <1>2, <2>1, <2>4, <2>6, Untouched
<1> QED BY <1>5, <1>6

LEMMA ReturnsTyped ==
  ASSUME NEW c \in Calls, Returns(c)
  PROVE  \E k \in CallRecords : Goes(c, "idle") /\ call' = [call EXCEPT ![c] = k]
  BY NoneTyped DEF Returns

LEMMA CallPlain ==
  ASSUME IInv, NEW c \in Calls, NEW to \in {"idle", "dispatching", "refused"}, NEW k \in CallRecords,
         Goes(c, to), call' = [call EXCEPT ![c] = k],
         UNCHANGED <<head, tableVars, ids, workVars>>, messages' \subseteq Payloads
  PROVE  IInv'
<1>1. to \in CallStates BY DEF CallStates
<1>2. pc'[c] = to => CallInv(c)' BY PlainCall
<1> QED BY <1>1, <1>2, CallOnly

LEMMA CallEnds ==
  ASSUME IInv, NEW c \in Calls, Returns(c),
         UNCHANGED <<head, tableVars, ids, workVars>>, messages' \subseteq Payloads
  PROVE  IInv'
<1>1. PICK k \in CallRecords : Goes(c, "idle") /\ call' = [call EXCEPT ![c] = k] BY ReturnsTyped
<1> QED BY <1>1, CallPlain

LEMMA DispatchKeeps ==
  ASSUME IInv, NEW c \in Calls, Dispatch(c)
  PROVE  IInv'
<1>1. /\ scan \in Scans /\ profile.version \in Nat /\ call[c] \in CallRecords
      /\ call[c].message \in Payloads /\ messages \subseteq Payloads
  BY DEF IInv, Typed, ItemsTyped, CallsTyped, CallRecords, Profiles
<1>2. UNCHANGED <<head, tableVars, ids, workVars>> BY DEF Dispatch
<1>3. CASE /\ Returns(c)
           /\ scan.step = 0 \/ Continues(scan)
           /\ messages' = messages \cup {IF scan.step = 0 THEN call[c].message ELSE scan.next}
  <2>1. (IF scan.step = 0 THEN call[c].message ELSE scan.next) \in Payloads
    BY <1>1, <1>3 DEF Continues, Scans
  <2>2. messages' \subseteq Payloads BY <1>1, <1>3, <2>1
  <2> QED BY <1>2, <1>3, <2>2, CallEnds
<1>4. CASE Returns(c) /\ messages' = messages
  BY <1>1, <1>2, <1>4, CallEnds
<1>5. CASE /\ Goes(c, "refused") /\ messages' = messages
           /\ call' = [call EXCEPT ![c].scan = scan, ![c].version = profile.version]
  <2>1. PICK k : k = [call[c] EXCEPT !.scan = scan, !.version = profile.version] OBVIOUS
  <2>2. k \in CallRecords BY <1>1, <2>1 DEF CallRecords
  <2>3. call' = [call EXCEPT ![c] = k]
    BY <1>5, <2>1 DEF IInv, Typed, CallsTyped
  <2>4. messages' \subseteq Payloads BY <1>1, <1>5
  <2>5. Goes(c, "refused") BY <1>5
  <2> QED BY <1>2, <2>2, <2>3, <2>4, <2>5, CallPlain
<1> QED BY <1>3, <1>4, <1>5 DEF Dispatch

LEMMA FailRequestKeeps ==
  ASSUME IInv, NEW c \in Calls, FailRequest(c)
  PROVE  IInv'
<1>1. /\ scan \in Scans /\ ids \in Nat /\ head \in Nat /\ UNCHANGED <<head, conn, profile, results,
         messages, ids, workVars>> /\ Returns(c)
  BY DEF IInv, Typed, ConnTyped, ItemsTyped, FailRequest
<1>2. scan' = [scan EXCEPT !.status = "ERROR"] \/ scan' = scan BY DEF FailRequest
<1>3. /\ scan' \in Scans /\ scan'.id = scan.id /\ scan'.step = scan.step /\ scan'.epoch = scan.epoch
      /\ (scan'.status = "READY" => scan'.completed)
  BY <1>1, <1>2 DEF Scans, IInv, Named
<1>4. ItemsTyped' /\ ConnTyped' BY <1>1, <1>3 DEF IInv, Typed, ConnTyped, ItemsTyped
<1>5. Evolves /\ Named' /\ HistoryHasNoGap' BY <1>1, <1>3, <1>4, SameItems
<1> QED BY <1>1, <1>4, <1>5, ReturnsTyped, PlainCall, CallStep_ DEF CallStates

LEMMA ResultsKeep ==
  ASSUME IInv, NEW c \in Calls, BeginResults(c) \/ QueryResults(c) \/ Publish(c) \/ Conflict(c)
  PROVE  IInv'
<1>1. /\ scan \in Scans /\ profile.version \in Nat /\ call[c] \in CallRecords /\ scan.step \in Nat
      /\ messages \subseteq Payloads /\ results \subseteq ResultRecords /\ scan.id <= ids
      /\ call \in [Calls -> CallRecords]
  BY DEF IInv, Typed, ItemsTyped, CallsTyped, Profiles, Named, Scans
<1>2. UNCHANGED <<head, tableVars, messages, ids, workVars>>
  BY DEF BeginResults, QueryResults, Publish, Conflict, Raises
<1>3. scan' = scan /\ results' = results BY <1>2 DEF tableVars, itemVars
<1>4. CASE BeginResults(c)
  <2>1. PICK k : k = [call[c] EXCEPT !.scan = Identity(scan), !.version = profile.version] OBVIOUS
  <2>2. Identity(scan) \in Scans BY <1>1, IdentityTyped
  <2>3. k \in CallRecords /\ k.scan = Identity(scan) BY <1>1, <2>1, <2>2 DEF CallRecords
  <2>4. k.scan.id = scan.id /\ k.scan.step = scan.step BY <1>1, <2>3, IdentityTyped
  <2>5. call' = [call EXCEPT ![c] = k] BY <1>1, <1>4, <2>1 DEF BeginResults
  <2>6. scan.id # 0 /\ Goes(c, "querying") BY <1>4 DEF BeginResults
  <2>7. ASSUME pc'[c] = "querying", call'[c] = k PROVE CallInv(c)'
    BY <1>1, <1>2, <1>3, <2>4, <2>6, <2>7 DEF CallInv
  <2> QED BY <1>1, <1>2, <2>3, <2>5, <2>6, <2>7, CallOnly DEF CallStates
<1>5. CASE QueryResults(c)
  <2>1. PICK k : k = [call[c] EXCEPT !.items = {r \in results : r.scan = call[c].scan.id}] OBVIOUS
  <2>2. k \in CallRecords /\ k.scan = call[c].scan /\ k.items = {r \in results : r.scan = call[c].scan.id}
    BY <1>1, <2>1 DEF CallRecords
  <2>3. call' = [call EXCEPT ![c] = k] /\ Goes(c, "checking") /\ pc[c] = "querying"
    BY <1>1, <1>5, <2>1 DEF QueryResults
  <2>4. CallInv(c) BY DEF IInv
  <2>5. ASSUME pc'[c] = "checking", call'[c] = k PROVE CallInv(c)'
    BY <1>2, <1>3, <2>2, <2>3, <2>4, <2>5 DEF CallInv, Found
  <2> QED BY <1>1, <1>2, <2>2, <2>3, <2>5, CallOnly DEF CallStates
<1>6. CASE Publish(c) \/ Conflict(c)
  <2>1. Returns(c) BY <1>6 DEF Publish, Conflict, Raises
  <2> QED BY <1>1, <1>2, <2>1, CallEnds
<1> QED BY <1>4, <1>5, <1>6

----------------------------------------------------------------------------
(***************************************************************************)
(* Worker steps.                                                           *)
(***************************************************************************)
\* One worker moves.
LEMMA WorkStep_ ==
  ASSUME IInv, NEW w \in Workers, NEW to \in WorkStates, NEW k \in WorkRecords,
         Moves(w, to), work' = [work EXCEPT ![w] = k],
         UNCHANGED callVars, ConnTyped', ItemsTyped', Evolves, Named', HistoryHasNoGap',
         at'[w] = to /\ work'[w] = k => WorkInv(w)'
  PROVE  IInv'
<1>1. WorkTyped BY DEF IInv, Typed
<1>2. at'[w] = to /\ work'[w] = k /\ WorkTyped' BY <1>1 DEF WorkTyped, Moves
<1>3. \A v \in Workers \ {w} : at'[v] = at[v] /\ work'[v] = work[v]
  BY <1>1 DEF WorkTyped, Moves
<1>4. Typed' BY <1>2 DEF IInv, Typed, CallsTyped, callVars
<1> QED BY <1>2, <1>3, <1>4, Assembled DEF callVars

\* The items do not change, and of the connection at most the claim.
SameConn == conn' \in Connections /\ conn'.cursor = conn.cursor /\ conn'.epoch = conn.epoch
            /\ conn'.on = conn.on

LEMMA SameConnKeeps ==
  ASSUME IInv, UNCHANGED <<head, itemVars, results, ids>>, SameConn, messages' \subseteq Payloads
  PROVE  ConnTyped' /\ ItemsTyped' /\ Evolves /\ Named' /\ HistoryHasNoGap'
<1>1. head \in Nat /\ ids \in Nat BY DEF IInv, Typed, ConnTyped, ItemsTyped
<1>2. ConnTyped' BY <1>1 DEF ConnTyped, SameConn
<1>3. ItemsTyped' BY DEF IInv, Typed, ItemsTyped, itemVars
<1>4. scan' = scan /\ (scan.status = "READY" => scan.completed) BY DEF IInv, Named, itemVars
<1>5. Evolves /\ Named' /\ HistoryHasNoGap'
  BY <1>1, <1>2, <1>3, <1>4, SameItems DEF SameConn
<1> QED BY <1>2, <1>3, <1>5

LEMMA WorkOnly ==
  ASSUME IInv, NEW w \in Workers, NEW to \in WorkStates, NEW k \in WorkRecords,
         Moves(w, to), work' = [work EXCEPT ![w] = k],
         UNCHANGED <<head, itemVars, results, ids, callVars>>, SameConn,
         messages' \subseteq Payloads,
         at'[w] = to /\ work'[w] = k => WorkInv(w)'
  PROVE  IInv'
  BY SameConnKeeps, WorkStep_

LEMMA WorkFacts ==
  ASSUME IInv, NEW w \in Workers
  PROVE  /\ work[w] \in WorkRecords /\ work[w].message \in Payloads /\ work[w].scan \in Scans
         /\ work[w].version \in Nat /\ work[w].epoch \in Nat /\ work[w].start \in Nat
         /\ work[w].upto \in Nat /\ work[w].next \in Payloads \cup {None} /\ work[w].last \in BOOLEAN
         /\ work[w].mode \in Modes /\ work[w].mails \subseteq Nat
         /\ work[w].upto <= head /\ head \in Nat /\ conn \in Connections /\ conn.cursor \in Nat
         /\ conn.epoch \in Nat /\ messages \subseteq Payloads /\ scan \in Scans /\ scan.id \in Nat
         /\ scan.step \in Nat /\ scan.epoch \in Nat /\ scan.version \in Nat /\ ids \in Nat
         /\ profile \in Profiles /\ profile.version \in Nat /\ work \in [Workers -> WorkRecords]
         /\ results \subseteq ResultRecords /\ WorkInv(w)
  BY DEF IInv, Typed, ConnTyped, ItemsTyped, WorkTyped, WorkRecords, Connections, Scans, Profiles,
         WorkInv

\* The claim is released at most.
LEMMA ReleasedShape ==
  ASSUME IInv, NEW w \in Workers, conn' = Released(w) \/ conn' = conn
  PROVE  SameConn
<1>1. conn \in Connections BY DEF IInv, Typed, ConnTyped
<1> QED BY <1>1 DEF SameConn, Released, Connections

\* A worker that rests, with what it leaves behind.
LEMMA RestKeeps ==
  ASSUME IInv, NEW w \in Workers, Rests(w), UNCHANGED callVars,
         ConnTyped', ItemsTyped', Evolves, Named', HistoryHasNoGap'
  PROVE  IInv'
<1>1. head' \in Nat BY DEF ConnTyped
<1>2. ASSUME at'[w] = "idle", work'[w] = NoWork PROVE WorkInv(w)'
  BY <1>1, <1>2 DEF WorkInv, NoWork, Reading
<1> QED BY <1>2, NoneTyped, WorkStep_ DEF Rests, WorkStates

LEMMA RestOnly ==
  ASSUME IInv, NEW w \in Workers, Rests(w), SameConn,
         UNCHANGED <<head, itemVars, results, ids, callVars>>, messages' \subseteq Payloads
  PROVE  IInv'
  BY SameConnKeeps, RestKeeps

LEMMA RetryOnly ==
  ASSUME IInv, NEW w \in Workers, Retries(w), SameConn,
         UNCHANGED <<head, itemVars, results, ids, callVars>>
  PROVE  IInv'
<1>1. messages' \subseteq Payloads BY WorkFacts, ReturnedTyped DEF Retries
<1> QED BY <1>1, RestOnly DEF Retries

LEMMA ConnStays == IInv /\ conn' = conn => SameConn
  BY DEF IInv, Typed, ConnTyped, SameConn

\* A job reads the items.
LEMMA TakeKeeps ==
  ASSUME IInv, NEW w \in Workers, NEW m \in messages, Take(w, m)
  PROVE  IInv'
<1>1. PICK to : Takes(w, m, to) /\ to \in {"claiming", "analysing", "ensuring", "failing"}
                /\ (to \in Reading => Current) /\ (to = "analysing" => m.kind # "history")
  BY DEF Take, IsHistory, IsPage, Reading
<1>2. PICK k : k = [NoWork EXCEPT !.message = m, !.scan = Identity(scan), !.version = profile.version,
                                  !.epoch = conn.epoch]
  OBVIOUS
<1>3. /\ work' = [work EXCEPT ![w] = k] /\ Moves(w, to) /\ messages' = messages \ {m}
      /\ UNCHANGED <<head, tableVars, ids, callVars>>
  BY <1>1, <1>2 DEF Takes
<1>4. m \in Payloads /\ Identity(scan) \in Scans BY WorkFacts, IdentityTyped
<1>5. k = [message |-> m, scan |-> Identity(scan), version |-> profile.version,
           epoch |-> conn.epoch, start |-> 0, next |-> None, mode |-> "none", upto |-> 0,
           last |-> FALSE, mails |-> {}]
  BY <1>2 DEF NoWork
<1>6. k \in WorkRecords BY <1>4, <1>5, WorkFacts DEF WorkRecords, Modes
<1>7. Identity(scan).id = scan.id /\ Identity(scan).epoch = scan.epoch
  BY WorkFacts, IdentityTyped
<1>8. ASSUME at'[w] = to, work'[w] = k PROVE WorkInv(w)'
  <2>1. work'[w].upto <= head' BY <1>3, <1>5, <1>8, WorkFacts
  <2>2. to \in Reading => work'[w].scan.id # 0 /\ work'[w].scan.epoch = work'[w].epoch
    BY <1>1, <1>5, <1>7, <1>8 DEF Current, OfConnection
  <2>3. to = "analysing" => work'[w].message.kind # "history" BY <1>1, <1>5, <1>8
  <2> QED BY <1>1, <1>8, <2>1, <2>2, <2>3 DEF WorkInv
<1>9. to \in WorkStates BY <1>1 DEF WorkStates, Reading
<1>10. messages' \subseteq Payloads /\ SameConn BY <1>3, WorkFacts, ConnStays DEF tableVars
<1> QED BY <1>3, <1>6, <1>8, <1>9, <1>10, WorkOnly DEF tableVars

LEMMA MessageKeeps ==
  ASSUME IInv, NEW m \in messages, Replay(m) \/ Drop(m)
  PROVE  IInv'
<1>1. UNCHANGED <<head, tableVars, ids, callVars, workVars>> BY DEF Replay, Drop
<1>2. messages \subseteq Payloads /\ scan \in Scans BY DEF IInv, Typed, ItemsTyped
<1>3. messages' \subseteq Payloads BY <1>2 DEF Replay, Drop, IsStored, Scans
<1>4. SameConn BY <1>1, ConnStays DEF tableVars
<1>5. ConnTyped' /\ ItemsTyped' /\ Evolves /\ Named' /\ HistoryHasNoGap'
  BY <1>1, <1>3, <1>4, SameConnKeeps DEF tableVars
<1> QED BY <1>1, <1>5, Untouched DEF tableVars

LEMMA ClaimKeeps ==
  ASSUME IInv, NEW w \in Workers, Claim(w)
  PROVE  IInv'
<1>1. UNCHANGED <<head, itemVars, results, ids, callVars>> /\ at[w] = "claiming" BY DEF Claim
<1>2. CASE /\ conn' = [conn EXCEPT !.token = w] /\ work' = [work EXCEPT ![w].start = conn.cursor]
           /\ Moves(w, "analysing") /\ UNCHANGED messages /\ work[w].message.upto > conn.cursor
  <2>1. SameConn BY <1>2, WorkFacts DEF SameConn, Connections
  <2>2. PICK k : k = [work[w] EXCEPT !.start = conn.cursor] OBVIOUS
  <2>3. /\ k \in WorkRecords /\ k.upto = work[w].upto /\ k.scan = work[w].scan
        /\ k.epoch = work[w].epoch /\ k.message = work[w].message /\ k.start = conn.cursor
    BY <2>2, WorkFacts DEF WorkRecords
  <2>4. work' = [work EXCEPT ![w] = k] BY <1>2, <2>2, WorkFacts
  <2>5. ASSUME at'[w] = "analysing", work'[w] = k PROVE WorkInv(w)'
    <3>1. k.start < k.message.upto BY <1>2, <2>3, WorkFacts DEF Payloads
    <3> QED BY <1>1, <2>3, <2>5, <3>1, WorkFacts DEF WorkInv, Reading
  <2> QED BY <1>1, <1>2, <2>1, <2>3, <2>4, <2>5, WorkFacts, WorkOnly DEF WorkStates, Reading
<1>3. CASE Retries(w) /\ UNCHANGED conn BY <1>1, <1>3, ConnStays, RetryOnly
<1>4. CASE Rests(w) /\ UNCHANGED <<conn, messages>>
  BY <1>1, <1>4, ConnStays, RestOnly, WorkFacts
<1> QED BY <1>2, <1>3, <1>4 DEF Claim

\* An answer is never ahead of Gmail; a sync's is not behind its start.
LEMMA AnswerShape ==
  ASSUME IInv, NEW w \in Workers, NEW a \in Answers(w)
  PROVE  /\ a.mode \in Modes /\ a.upto \in Nat /\ a.upto <= head /\ a.last \in BOOLEAN
         /\ a.mails \subseteq Nat
         /\ at[w] = "analysing" /\ work[w].message.kind = "history" =>
              /\ work[w].start <= a.upto
              /\ a.mode = "INCREMENTAL" => a.mails = work[w].start + 1 .. a.upto
<1>1. head \in Nat /\ work[w].start \in Nat /\ work[w].message.upto \in Nat
  BY WorkFacts DEF Payloads
<1>2. CASE a \in PageAnswers(w) /\ work[w].message.kind # "history"
  BY <1>1, <1>2 DEF PageAnswers, Modes
<1>3. CASE a \in HistoryAnswers(w)
  <2>1. PICK n \in work[w].start + 1 .. head :
          a = [mode |-> "INCREMENTAL", upto |-> n, mails |-> work[w].start + 1 .. n, last |-> n = head]
    BY <1>3 DEF HistoryAnswers
  <2>2. /\ a.mode = "INCREMENTAL" /\ a.upto = n /\ a.mails = work[w].start + 1 .. n
        /\ a.last \in BOOLEAN
    BY <2>1
  <2>3. n \in Nat /\ n <= head /\ work[w].start <= n BY <1>1, <2>1
  <2>4. a.mails \subseteq Nat BY <1>1, <2>2, <2>3
  <2> QED BY <2>2, <2>3, <2>4 DEF Modes
<1>4. CASE a \in RecentAnswers(w)
  <2>1. /\ a.mode = "BOUNDED_FULL_SYNC" /\ a.upto \in work[w].message.upto .. head
        /\ a.last = TRUE /\ a.mails \in Recent
    BY <1>4 DEF RecentAnswers
  <2>2. a.mails \subseteq Nat BY <1>1, <2>1 DEF Recent
  <2>3. at[w] = "analysing" /\ work[w].message.kind = "history" =>
          work[w].start < work[w].message.upto
    BY DEF IInv, WorkInv
  <2>4. a.upto \in Nat /\ a.upto <= head /\ work[w].message.upto <= a.upto BY <1>1, <2>1
  <2>5. work[w].start < work[w].message.upto => work[w].start <= a.upto BY <1>1, <2>4
  <2> QED BY <2>1, <2>2, <2>3, <2>4, <2>5 DEF Modes
<1> QED BY <1>2, <1>3, <1>4 DEF Answers

LEMMA AnalyseKeeps ==
  ASSUME IInv, NEW w \in Workers, Analyse(w)
  PROVE  IInv'
<1>1. UNCHANGED <<head, tableVars, messages, ids, callVars>> /\ at[w] = "analysing" BY DEF Analyse
<1>2. SameConn BY <1>1, ConnStays DEF tableVars
<1>3. ASSUME NEW a \in Answers(w), Moves(w, "storing"),
             work' = [work EXCEPT ![w].mode = a.mode, ![w].upto = a.upto,
                                  ![w].last = a.last, ![w].mails = a.mails]
      PROVE  IInv'
  <2>1. PICK k : k = [work[w] EXCEPT !.mode = a.mode, !.upto = a.upto, !.last = a.last,
                                     !.mails = a.mails]
    OBVIOUS
  <2>2. /\ k \in WorkRecords /\ k.upto = a.upto /\ k.scan = work[w].scan
        /\ k.epoch = work[w].epoch /\ k.message = work[w].message /\ k.start = work[w].start
        /\ k.mode = a.mode /\ k.mails = a.mails
    BY <2>1, WorkFacts, AnswerShape DEF WorkRecords
  <2>3. work' = [work EXCEPT ![w] = k] BY <1>3, <2>1, WorkFacts
  <2>4. ASSUME at'[w] = "storing", work'[w] = k PROVE WorkInv(w)'
    BY <1>1, <2>2, <2>4, WorkFacts, AnswerShape DEF WorkInv, Reading
  <2> QED BY <1>1, <1>2, <1>3, <2>2, <2>3, <2>4, WorkFacts, WorkOnly DEF WorkStates, Reading, tableVars
<1>4. CASE Moves(w, "failing") /\ UNCHANGED work
  <2>1. work' = [work EXCEPT ![w] = work[w]] BY <1>4, WorkFacts
  <2>2. ASSUME at'[w] = "failing", work'[w] = work[w] PROVE WorkInv(w)'
    BY <1>1, <2>2, WorkFacts DEF WorkInv, Reading
  <2> QED BY <1>1, <1>2, <1>4, <2>1, <2>2, WorkFacts, WorkOnly DEF WorkStates, tableVars
<1> QED BY <1>3, <1>4 DEF Analyse

\* What a page leaves is of the scan and the profile that the job read.
LEMMA AnalysedShape ==
  ASSUME IInv, NEW w \in Workers
  PROVE  /\ Analysed(w) \subseteq ResultRecords
         /\ \A r \in Analysed(w) : r.scan = work[w].scan.id /\ r.version = work[w].version
<1>1. work[w].scan.id \in Nat /\ work[w].scan.step \in Nat BY WorkFacts DEF Scans
<1>2. /\ \A n \in work[w].start + 1 .. work[w].upto : n \in Nat
      /\ \A n \in work[w].mails : n \in Nat
  BY WorkFacts
<1>3. ASSUME NEW of \in ResultKinds, NEW n \in Nat
      PROVE  LET r == Result(w, of, n) IN
               r \in ResultRecords /\ r.scan = work[w].scan.id /\ r.version = work[w].version
  BY <1>1, <1>3, WorkFacts DEF Result, ResultRecords
<1>4. \A r \in Mails(w) :
        r \in ResultRecords /\ r.scan = work[w].scan.id /\ r.version = work[w].version
  BY <1>2, <1>3 DEF Mails, ResultKinds
<1>5. /\ Page(w) \in ResultRecords /\ Page(w).scan = work[w].scan.id
      /\ Page(w).version = work[w].version
  BY <1>1, <1>3, WorkFacts DEF Page, ResultKinds
<1> QED BY <1>4, <1>5 DEF Analysed

LEMMA NextWorkTyped ==
  ASSUME IInv, NEW w \in Workers
  PROVE  NextWork(w) \in Payloads \cup {None}
<1> DEFINE m == work[w].message
<1>1. m.id \in Nat /\ m.version \in Nat /\ m.step + 1 \in Nat /\ m.upto \in Nat
  BY WorkFacts DEF Payloads
<1>2. History(m.upto) \in Payloads /\ History(work[w].upto) \in Payloads
  BY <1>1, WorkFacts, MessageTyped DEF History, Kinds
<1>3. Message("continuation", m.id, m.version, m.step + 1, 0) \in Payloads
  BY <1>1, MessageTyped DEF Kinds
<1> QED BY <1>2, <1>3 DEF NextWork

\* A sync's write has a record of every mail that it moves the cursor over.
Covers(q, n) == q.of \in {"mail", "recent", "passed"} /\ q.n = n

LEMMA MailsCover ==
  ASSUME NEW w \in Workers, NEW n \in work[w].start + 1 .. work[w].upto,
         work[w].mode = "INCREMENTAL" => work[w].mails = work[w].start + 1 .. work[w].upto
  PROVE  \E q \in Mails(w) : Covers(q, n)
<1>1. \A of \in {"mail", "recent", "passed"} : Covers(Result(w, of, n), n)
  BY DEF Covers, Result
<1>2. CASE work[w].mode = "INCREMENTAL"
  BY <1>1, <1>2 DEF Mails
<1>3. CASE work[w].mode # "INCREMENTAL" /\ n \in work[w].mails
  BY <1>1, <1>3 DEF Mails
<1>4. CASE work[w].mode # "INCREMENTAL" /\ n \notin work[w].mails
  BY <1>1, <1>4 DEF Mails
<1> QED BY <1>2, <1>3, <1>4

\* A page is the scan's next: the items after it, and no mail between two syncs is lost.
LEMMA StoreItems ==
  ASSUME IInv, NEW w \in Workers, Store(w), Storable(w)
  PROVE  /\ ConnTyped' /\ ItemsTyped' /\ Evolves /\ Named' /\ HistoryHasNoGap'
         /\ results' = results \cup Analysed(w)
<1>1. /\ results' = results \cup Analysed(w)
      /\ scan' = [scan EXCEPT
           !.status = IF work[w].last \/ work[w].message.kind = "history" THEN "READY" ELSE "PENDING",
           !.completed = work[w].last \/ work[w].message.kind = "history",
           !.step = @ + 1, !.next = NextWork(w)]
      /\ conn' = [conn EXCEPT !.cursor = CursorAfter(w),
                              !.token = IF MovesCursor(w) THEN None ELSE @]
      /\ UNCHANGED <<head, profile, messages, ids, callVars>> /\ at[w] = "storing"
  BY DEF Store
<1>2. /\ scan.id = work[w].scan.id /\ scan.step = work[w].scan.step /\ scan.epoch = conn.epoch
      /\ conn.on /\ Claimed(w)
  BY DEF Storable, Generation
<1>3. scan.id # 0 BY <1>1, <1>2, WorkFacts DEF WorkInv, Reading
<1>4. CursorAfter(w) \in Nat /\ CursorAfter(w) <= head
  BY WorkFacts DEF CursorAfter, IInv, Named
<1>5. conn' \in Connections /\ conn'.cursor = CursorAfter(w) /\ conn'.epoch = conn.epoch /\ conn'.on
  <2>1. PICK t : t = (IF MovesCursor(w) THEN None ELSE conn.token) OBVIOUS
  <2>2. conn \in Connections BY WorkFacts
  <2>3. t \in Workers \cup {None} BY <2>1, <2>2 DEF Connections
  <2>4. conn' = [conn EXCEPT !.cursor = CursorAfter(w), !.token = t] BY <1>1, <2>1, <2>2 DEF Connections
  <2> QED BY <1>2, <1>4, <2>2, <2>3, <2>4 DEF Connections
<1>6. /\ scan' \in Scans /\ scan'.id = scan.id /\ scan'.step = scan.step + 1
      /\ scan'.epoch = scan.epoch /\ (scan'.status = "READY" => scan'.completed)
  <2>1. PICK done \in BOOLEAN : done = (work[w].last \/ work[w].message.kind = "history") OBVIOUS
  <2>2. scan \in Scans /\ NextWork(w) \in Payloads \cup {None} /\ scan.step + 1 \in Nat
    BY WorkFacts, NextWorkTyped
  <2>3. scan' = [scan EXCEPT !.status = IF done THEN "READY" ELSE "PENDING", !.completed = done,
                             !.step = scan.step + 1, !.next = NextWork(w)]
    BY <1>1, <2>1, <2>2 DEF Scans
  <2> QED BY <2>2, <2>3 DEF Scans
<1>7. results' \subseteq ResultRecords BY <1>1, WorkFacts, AnalysedShape
<1>8. ConnTyped' BY <1>1, <1>5, WorkFacts DEF ConnTyped
<1>9. ItemsTyped' BY <1>1, <1>6, <1>7, WorkFacts DEF ItemsTyped
<1>10. Evolves BY <1>1, <1>6, WorkFacts DEF Evolves, ScanMoves
<1>11. Found(scan)' = Found(scan) \cup Analysed(w)
  BY <1>1, <1>2, <1>6, AnalysedShape DEF Found
<1>12. Named'
  <2>1. scan'.id <= ids' /\ scan'.epoch <= conn'.epoch /\ conn'.cursor <= head'
    BY <1>1, <1>4, <1>5, <1>6 DEF IInv, Named
  <2>2. \A r \in results' : r.scan # 0 /\ r.scan <= ids'
    BY <1>1, <1>2, <1>3, AnalysedShape DEF IInv, Named
  <2>3. scan'.step > 0 BY <1>6, WorkFacts
  <2> QED BY <1>6, <2>1, <2>2, <2>3 DEF Named
<1>13. HistoryHasNoGap'
  <2> SUFFICES ASSUME NEW r \in Found(scan)', r.of = "first"
               PROVE  /\ \A n \in r.n + 1 .. conn'.cursor : \E q \in Found(scan)' : Covers(q, n)
                      /\ \A q \in Found(scan)' : q.of = "mail" => q.n <= conn'.cursor
    BY DEF HistoryHasNoGap, Covers
  <2>1. OfConnection(scan) BY <1>2 DEF OfConnection
  <2>2. r.n \in Nat /\ conn.cursor \in Nat /\ conn'.cursor \in Nat
    BY <1>4, <1>5, <1>7, WorkFacts DEF Found, ResultRecords
  <2>3. ASSUME r \in Found(scan)
        PROVE  /\ \A n \in r.n + 1 .. conn'.cursor :
                    n <= conn.cursor => \E q \in Found(scan)' : Covers(q, n)
               /\ \A q \in Found(scan) : q.of = "mail" => q.n <= conn.cursor
    BY <1>11, <2>1, <2>2, <2>3 DEF IInv, HistoryHasNoGap, Covers
  <2>4. CASE work[w].message.kind = "history"
    <3>1. /\ Analysed(w) = Mails(w) /\ CursorAfter(w) = work[w].upto /\ conn.cursor = work[w].start
          /\ work[w].start <= work[w].upto
          /\ work[w].mode = "INCREMENTAL" => work[w].mails = work[w].start + 1 .. work[w].upto
      BY <1>1, <1>2, <2>4, WorkFacts DEF Analysed, CursorAfter, MovesCursor, Claimed, WorkInv
    <3>2. r \in Found(scan) BY <1>11, <3>1 DEF Mails, Result
    <3>3. ASSUME NEW n \in r.n + 1 .. conn'.cursor, ~(n <= conn.cursor)
          PROVE  \E q \in Found(scan)' : Covers(q, n)
      <4>1. n \in work[w].start + 1 .. work[w].upto BY <1>5, <2>2, <3>1, <3>3, WorkFacts
      <4> QED BY <1>11, <3>1, <4>1, MailsCover
    <3>4. ASSUME NEW q \in Found(scan)', q.of = "mail" PROVE q.n <= conn'.cursor
      <4>1. CASE q \in Found(scan)
        <5>1. q.n \in Nat /\ q.n <= conn.cursor
          BY <2>3, <3>2, <3>4, <4>1, WorkFacts DEF Found, ResultRecords
        <5> QED BY <1>5, <2>2, <3>1, <5>1
      <4>2. CASE q \in Mails(w)
        <5>1. work[w].mode = "INCREMENTAL" /\ q.n \in work[w].mails
          BY <3>4, <4>2 DEF Mails, Result
        <5> QED BY <1>5, <3>1, <5>1, WorkFacts
      <4> QED BY <1>11, <3>1, <4>1, <4>2
    <3> QED BY <2>3, <3>2, <3>3, <3>4
  <2>5. CASE work[w].message.kind # "history" /\ scan.step = 0
    <3>1. Analysed(w) = {Result(w, "first", work[w].upto)} /\ CursorAfter(w) = work[w].upto
      BY <1>2, <2>5 DEF Analysed, CursorAfter, MovesCursor, Page
    <3>2. Found(scan) = {} BY <2>5 DEF IInv, Named
    <3>3. Found(scan)' = {Result(w, "first", work[w].upto)} BY <1>11, <3>1, <3>2
    <3>4. r.n = work[w].upto /\ \A q \in Found(scan)' : q.of = "first" BY <3>3 DEF Result
    <3> QED BY <1>5, <2>2, <3>1, <3>4, WorkFacts
  <2>6. CASE work[w].message.kind # "history" /\ scan.step # 0
    <3>1. Analysed(w) = {Result(w, "page", scan.step)} /\ CursorAfter(w) = conn.cursor
      BY <1>2, <2>6 DEF Analysed, CursorAfter, MovesCursor, Page
    <3>2. r \in Found(scan) /\ \A q \in Found(scan)' : q \in Found(scan) \/ q.of = "page"
      BY <1>11, <3>1 DEF Result
    <3> QED BY <1>5, <2>2, <2>3, <3>1, <3>2
  <2> QED BY <2>4, <2>5, <2>6
<1> QED BY <1>1, <1>8, <1>9, <1>10, <1>12, <1>13

LEMMA StoreKeeps ==
  ASSUME IInv, NEW w \in Workers, Store(w)
  PROVE  IInv'
<1>1. UNCHANGED <<head, profile, messages, ids, callVars>> BY DEF Store
<1>2. CASE ~Storable(w)
  <2>1. Rests(w) /\ conn' = Released(w) /\ UNCHANGED <<results, scan>> BY <1>2 DEF Store
  <2> QED BY <1>1, <2>1, ReleasedShape, RestOnly, WorkFacts DEF itemVars
<1>3. CASE Storable(w)
  <2>1. ConnTyped' /\ ItemsTyped' /\ Evolves /\ Named' /\ HistoryHasNoGap' BY <1>3, StoreItems
  <2>2. CASE NextWork(w) = None
    <3>1. Rests(w) BY <1>3, <2>2 DEF Store
    <3> QED BY <1>1, <2>1, <3>1, RestKeeps
  <2>3. CASE NextWork(w) # None
    <3>1. Moves(w, "forwarding") /\ work' = [work EXCEPT ![w].next = NextWork(w)]
      BY <1>3, <2>3 DEF Store
    <3>2. NextWork(w) \in Payloads BY <2>3, NextWorkTyped
    <3>3. PICK k : k = [work[w] EXCEPT !.next = NextWork(w)] OBVIOUS
    <3>4. k \in WorkRecords /\ k.upto = work[w].upto /\ k.next = NextWork(w)
      BY <3>2, <3>3, WorkFacts DEF WorkRecords
    <3>5. work' = [work EXCEPT ![w] = k] BY <3>1, <3>3, WorkFacts
    <3>6. ASSUME at'[w] = "forwarding", work'[w] = k PROVE WorkInv(w)'
      BY <1>1, <3>2, <3>4, <3>6, WorkFacts DEF WorkInv, Reading
    <3> QED BY <1>1, <2>1, <3>1, <3>4, <3>5, <3>6, WorkStep_ DEF WorkStates
  <2> QED BY <2>2, <2>3
<1> QED BY <1>2, <1>3

LEMMA SendNextKeeps ==
  ASSUME IInv, NEW w \in Workers, SendNext(w)
  PROVE  IInv'
<1>1. UNCHANGED <<head, tableVars, ids, callVars>> /\ at[w] = "forwarding" BY DEF SendNext
<1>2. SameConn BY <1>1, ConnStays DEF tableVars
<1>3. CASE messages' = messages \cup {work[w].next} /\ Rests(w)
  <2>1. messages' \subseteq Payloads BY <1>1, <1>3, WorkFacts DEF WorkInv
  <2> QED BY <1>1, <1>2, <1>3, <2>1, RestOnly DEF tableVars
<1>4. CASE Retries(w) BY <1>1, <1>2, <1>4, RetryOnly DEF tableVars
<1>5. CASE Moves(w, "failing") /\ UNCHANGED <<messages, work>>
  <2>1. PICK k : k = work[w] OBVIOUS
  <2>2. k \in WorkRecords /\ work' = [work EXCEPT ![w] = k] BY <1>5, <2>1, WorkFacts
  <2>3. ASSUME at'[w] = "failing", work'[w] = k PROVE WorkInv(w)'
    BY <1>1, <2>1, <2>3, WorkFacts DEF WorkInv, Reading, tableVars
  <2> QED BY <1>1, <1>2, <1>5, <2>2, <2>3, WorkFacts, WorkOnly DEF WorkStates, tableVars
<1> QED BY <1>3, <1>4, <1>5 DEF SendNext

LEMMA ReadFailedKeeps ==
  ASSUME IInv, NEW w \in Workers, ReadFailed(w)
  PROVE  IInv'
<1>1. UNCHANGED <<head, itemVars, results, ids, callVars>> BY DEF ReadFailed
<1>2. SameConn BY ReleasedShape DEF ReadFailed
<1>3. CASE Moves(w, "recording") /\ work' = [work EXCEPT ![w].scan = scan] /\ UNCHANGED messages
  <2>1. PICK k : k = [work[w] EXCEPT !.scan = scan] OBVIOUS
  <2>2. k \in WorkRecords /\ k.upto = work[w].upto BY <2>1, WorkFacts DEF WorkRecords
  <2>3. work' = [work EXCEPT ![w] = k] BY <1>3, <2>1, WorkFacts
  <2>4. ASSUME at'[w] = "recording", work'[w] = k PROVE WorkInv(w)'
    BY <1>1, <2>2, <2>4, WorkFacts DEF WorkInv, Reading
  <2> QED BY <1>1, <1>2, <1>3, <2>2, <2>3, <2>4, WorkFacts, WorkOnly DEF WorkStates
<1>4. CASE Retries(w) BY <1>1, <1>2, <1>4, RetryOnly
<1> QED BY <1>3, <1>4 DEF ReadFailed

LEMMA RecordFailureKeeps ==
  ASSUME IInv, NEW w \in Workers, RecordFailure(w)
  PROVE  IInv'
<1>1. UNCHANGED <<head, conn, profile, results, ids, callVars>> /\ Retries(w) BY DEF RecordFailure
<1>2. \/ scan' = [scan EXCEPT !.status = "ERROR", !.version = work[w].scan.version,
                              !.completed = work[w].scan.completed]
      \/ scan' = scan
  BY DEF RecordFailure
<1>3. work[w].scan.version \in Nat /\ work[w].scan.completed \in BOOLEAN BY WorkFacts DEF Scans
<1>4. /\ scan' \in Scans /\ scan'.id = scan.id /\ scan'.step = scan.step /\ scan'.epoch = scan.epoch
      /\ (scan'.status = "READY" => scan'.completed)
  <2>1. CASE scan' = scan BY <2>1, WorkFacts DEF IInv, Named
  <2>2. CASE scan' = [scan EXCEPT !.status = "ERROR", !.version = work[w].scan.version,
                                  !.completed = work[w].scan.completed]
    BY <1>3, <2>2, WorkFacts DEF Scans
  <2> QED BY <1>2, <2>1, <2>2
<1>5. messages' \subseteq Payloads BY <1>1, WorkFacts, ReturnedTyped DEF Retries
<1>6. ItemsTyped' BY <1>1, <1>4, <1>5, WorkFacts DEF ItemsTyped
<1>7. ConnTyped' BY <1>1, WorkFacts DEF ConnTyped
<1>8. Evolves /\ Named' /\ HistoryHasNoGap' BY <1>1, <1>4, <1>6, <1>7, WorkFacts, SameItems
<1> QED BY <1>1, <1>6, <1>7, <1>8, RestKeeps DEF Retries

LEMMA EnsureScanKeeps ==
  ASSUME IInv, NEW w \in Workers, EnsureScan(w)
  PROVE  IInv'
<1>1. UNCHANGED <<head, conn, profile, results, messages, callVars>> BY DEF EnsureScan
<1>2. ConnTyped' BY <1>1, WorkFacts DEF ConnTyped
<1>3. ASSUME ItemsTyped', Evolves, Named', HistoryHasNoGap', Moves(w, "forwarding"),
             work' = [work EXCEPT ![w].next = Message("scan", scan'.id, profile.version, 0, 0),
                                  ![w].scan = Identity(scan')]
      PROVE  IInv'
  <2>1. scan'.id \in Nat BY <1>3 DEF ItemsTyped, Scans
  <2>2. PICK m : m = Message("scan", scan'.id, profile.version, 0, 0) OBVIOUS
  <2>3. m \in Payloads BY <2>1, <2>2, WorkFacts, MessageTyped DEF Kinds
  <2>4. PICK k, s : s = Identity(scan') /\ k = [work[w] EXCEPT !.next = m, !.scan = s] OBVIOUS
  <2>8. scan' \in Scans BY <1>3 DEF ItemsTyped
  <2>9. s \in Scans BY <2>4, <2>8, IdentityTyped
  <2>5. k \in WorkRecords /\ k.upto = work[w].upto /\ k.next = m
    BY <2>3, <2>4, <2>9, WorkFacts DEF WorkRecords
  <2>6. work' = [work EXCEPT ![w] = k] BY <1>3, <2>2, <2>4, WorkFacts
  <2>7. ASSUME at'[w] = "forwarding", work'[w] = k PROVE WorkInv(w)'
    BY <1>1, <2>3, <2>5, <2>7, WorkFacts DEF WorkInv, Reading
  <2> QED BY <1>1, <1>2, <1>3, <2>5, <2>6, <2>7, WorkStep_ DEF WorkStates
<1>4. CASE /\ UNCHANGED <<scan, ids>> /\ Moves(w, "forwarding")
           /\ work' = [work EXCEPT ![w].next = Message("scan", scan'.id, profile.version, 0, 0),
                                   ![w].scan = Identity(scan')]
  <2>1. SameConn /\ messages' \subseteq Payloads BY <1>1, ConnStays, WorkFacts
  <2> QED BY <1>1, <1>3, <1>4, <2>1, SameConnKeeps DEF itemVars
<1>5. CASE /\ ids' = ids + 1 /\ scan' = NewScan(ids + 1) /\ Moves(w, "forwarding")
           /\ work' = [work EXCEPT ![w].next = Message("scan", scan'.id, profile.version, 0, 0),
                                   ![w].scan = Identity(scan')]
  <2>1. ids \in Nat /\ ids + 1 \in Nat /\ conn.epoch \in Nat /\ Typed BY WorkFacts DEF IInv
  <2>2. /\ scan' \in Scans /\ scan'.id = ids + 1 /\ scan'.epoch = conn.epoch
        /\ scan'.status = "PENDING"
    BY <1>5, <2>1, NewScanTyped
  <2>3. OtherScan /\ scan'.id <= ids' /\ scan'.epoch <= conn.epoch /\ ids' >= ids
    BY <1>5, <2>1, <2>2 DEF OtherScan
  <2>4. ItemsTyped' BY <1>1, <1>5, <2>1, <2>2, WorkFacts DEF ItemsTyped
  <2>5. Evolves /\ Named' /\ HistoryHasNoGap' BY <1>1, <2>2, <2>3, <2>4, NextScan
  <2> QED BY <1>3, <1>5, <2>4, <2>5
<1>6. CASE Rests(w) /\ UNCHANGED <<scan, ids>>
  BY <1>1, <1>6, ConnStays, RestOnly, WorkFacts DEF itemVars
<1> QED BY <1>4, <1>5, <1>6 DEF EnsureScan

LEMMA WorkerDiesKeeps ==
  ASSUME IInv, NEW w \in Workers, WorkerDies(w)
  PROVE  IInv'
  BY ConnStays, RetryOnly DEF WorkerDies, tableVars

----------------------------------------------------------------------------
\* Every step keeps the invariant.
LEMMA StepPreserves == IInv /\ [Next]_vars => IInv'
<1> SUFFICES ASSUME IInv, [Next]_vars PROVE IInv'
  OBVIOUS
<1>1. CASE MailArrives \/ Notify \/ Disconnect \/ Connect \/ ClaimExpires
  BY <1>1, OutsideKeeps
<1>2. ASSUME NEW c \in Calls,
             RequestAgain(c) \/ RequestResume(c) \/ RequestScan(c) \/ SaveProfile(c)
               \/ BeginResults(c) \/ CallStep(c)
      PROVE  IInv'
  BY <1>2, RequestKeeps, SaveProfileKeeps, DispatchKeeps, FailRequestKeeps, ResultsKeep DEF CallStep
<1>3. ASSUME NEW w \in Workers, Works(w) \/ WorkerDies(w) PROVE IInv'
  BY <1>3, TakeKeeps, ClaimKeeps, AnalyseKeeps, StoreKeeps, SendNextKeeps, ReadFailedKeeps,
     RecordFailureKeeps, EnsureScanKeeps, WorkerDiesKeeps DEF Works, WorkerStep
<1>4. ASSUME NEW m \in messages, Replay(m) \/ Drop(m) PROVE IInv'
  BY <1>4, MessageKeeps
<1>5. CASE UNCHANGED vars
  <2>1. ItemsTyped' BY <1>5 DEF IInv, Typed, ItemsTyped, vars, tableVars, itemVars
  <2>2. SameConn /\ messages' \subseteq Payloads BY <1>5, <2>1, ConnStays DEF vars, tableVars, ItemsTyped
  <2>3. Evolves /\ Named' /\ HistoryHasNoGap' BY <1>5, <2>2, SameConnKeeps DEF vars, tableVars
  <2> QED BY <1>5, <2>1, <2>3, Untouched DEF vars, tableVars
<1> QED BY <1>1, <1>2, <1>3, <1>4, <1>5 DEF Next

LEMMA Invariance == Spec => []IInv
<1>1. Init => IInv BY InitEstablishes
<1>2. IInv /\ [Next]_vars => IInv' BY StepPreserves
<1> QED BY <1>1, <1>2, PTL DEF Spec

\* The items have the shape the code gives them; the cursor is never ahead of Gmail, and a
\* READY scan has an answer.
THEOREM ScanTypes == Spec => []TypeOK
<1>1. IInv => TypeOK
  BY DEF IInv, Typed, ConnTyped, ItemsTyped, Named, TypeOK, Connections, Profiles, ResultRecords,
         ResultKinds
<1> QED BY <1>1, Invariance, PTL

\* Between the first page's head and the cursor each mail was analysed for the scan that is
\* there, or passed over by a sync whose cursor Gmail knew no more, and nothing that follows
\* the history is analysed twice (persist moves the cursor in the transaction that stores
\* what was analysed, from where the analysis began).
THEOREM NoGap == Spec => []HistoryHasNoGap
<1>1. IInv => HistoryHasNoGap BY DEF IInv
<1> QED BY <1>1, Invariance, PTL

\* persist stores nothing that was analysed for another profile, scan or connection than those
\* that are there when it writes.
THEOREM StoredCurrent == Spec => StoredForCurrentProfile
<1> DEFINE Stored == \A r \in results' \ results :
                       r.version = profile.version /\ r.scan = scan.id /\ OfConnection(scan)
<1>1. IInv /\ [Next]_vars => [Stored]_vars
  <2> SUFFICES ASSUME IInv, Next, NEW r \in results', r \notin results
               PROVE  r.version = profile.version /\ r.scan = scan.id /\ OfConnection(scan)
    BY DEF vars, tableVars
  <2>1. PICK w \in Workers : Store(w) /\ Storable(w)
    <3>1. ASSUME NEW c \in Calls,
                 RequestAgain(c) \/ RequestResume(c) \/ RequestScan(c) \/ SaveProfile(c)
                   \/ BeginResults(c) \/ CallStep(c)
          PROVE  results' = results
      BY <3>1 DEF RequestAgain, RequestResume, RequestScan, SaveProfile, BeginResults, CallStep,
                  Dispatch, FailRequest, QueryResults, Publish, Conflict, Raises, tableVars
    <3>2. ASSUME NEW w \in Workers, NEW m \in messages, Take(w, m) PROVE results' = results
      BY <3>2 DEF Take, Takes, tableVars
    <3>3. ASSUME NEW w \in Workers, WorkerStep(w) \/ WorkerDies(w), ~(Store(w) /\ Storable(w))
          PROVE  results' = results
      BY <3>3 DEF WorkerStep, WorkerDies, Claim, Analyse, Store, SendNext, ReadFailed, RecordFailure,
                  EnsureScan, tableVars
    <3>4. ASSUME NEW m \in messages, Replay(m) \/ Drop(m) PROVE results' = results
      BY <3>4 DEF Replay, Drop, tableVars
    <3>5. MailArrives \/ Notify \/ Disconnect \/ Connect \/ ClaimExpires => results' = results
      BY DEF MailArrives, Notify, Disconnect, Connect, ClaimExpires, tableVars
    <3> QED BY <3>1, <3>2, <3>3, <3>4, <3>5 DEF Next, Works
  <2>2. r \in Analysed(w) BY <2>1, StoreItems
  <2>3. r.scan = work[w].scan.id /\ r.version = work[w].version BY <2>2, AnalysedShape
  <2>4. at[w] = "storing" BY <2>1 DEF Store
  <2>5. work[w].scan.epoch = work[w].epoch BY <2>4, WorkFacts DEF WorkInv, Reading
  <2> QED BY <2>1, <2>3, <2>5 DEF Storable, Generation, OfConnection
<1> QED BY <1>1, Invariance, PTL DEF Spec, StoredForCurrentProfile

\* results publishes a page only when it is the whole of what was found for the profile that is
\* there: an equal step is an equal set of results.
THEOREM PublishedCurrent == Spec => PublishedIsCurrent
<1>1. IInv => [\A c \in Calls : Publish(c) =>
                 call[c].items = Found(scan) /\ call[c].version = profile.version]_vars
  <2> SUFFICES ASSUME IInv, NEW c \in Calls, Publish(c)
               PROVE  call[c].items = Found(scan) /\ call[c].version = profile.version
    OBVIOUS
  <2>1. CallInv(c) BY DEF IInv
  <2> QED BY <2>1 DEF Publish, Unmoved, CallInv
<1> QED BY <1>1, Invariance, PTL DEF PublishedIsCurrent

----------------------------------------------------------------------------
(***************************************************************************)
(* A scan that waits is carried.  Its messages name it as it is (Placed),  *)
(* and have lost a receive only to a failure or a death (Enough), so one   *)
(* that leads back to it always comes back.                                *)
(***************************************************************************)
Paged(m) == m.kind \in {"scan", "continuation"}
Placed(m) ==
  /\ Paged(m) => /\ m.id # 0 /\ m.id <= ids
                 /\ m.id = scan.id => m.version = scan.version /\ m.step <= scan.step
  /\ m.kind = "setup" => m.id \in 1 .. conn.epoch
Enough(m) == m.kind # "history" => m.left + losses >= MaxReceives
Fits(m) == Placed(m) /\ Enough(m)

\* A scan that waits has a name and, once it has a page, the message of the next.
Kept ==
  /\ losses \in Nat /\ losses <= MaxLosses /\ conn.epoch <= MaxEpochs
  /\ scan.version = profile.version
  /\ scan.status # "NOT_STARTED" => scan.id # 0
  /\ scan.status = "PENDING" => ~scan.completed
  /\ scan.next # None =>
       \/ scan.next.kind = "history"
       \/ scan.next = Message("continuation", scan.id, scan.version, scan.step, 0)
  /\ scan.status = "PENDING" /\ scan.step > 0 => scan.next # None /\ scan.next.kind = "continuation"

CallKept(c) ==
  /\ pc[c] = "dispatching" =>
       /\ Placed(call[c].message) /\ call[c].message.kind = "scan"
       /\ call[c].message.left = MaxReceives
  /\ pc[c] = "refused" => losses > 0 /\ call[c].scan.id # 0

\* What a worker holds: a page's job names the scan and the step that it read.
WorkKept(w) ==
  LET m == work[w].message IN
  /\ Fits(m)
  /\ at[w] = "claiming" => m.kind = "history"
  /\ at[w] = "ensuring" => m.kind = "setup"
  /\ at[w] \in {"analysing", "storing"} /\ m.kind # "history" =>
       /\ Paged(m) /\ m.id = work[w].scan.id /\ m.step = work[w].scan.step
       /\ m.version = work[w].version
  /\ at[w] \in {"analysing", "storing", "failing", "recording", "forwarding"} =>
       work[w].scan.id # 0
  /\ at[w] \in {"failing", "recording"} =>
       losses > 0 /\ (m.kind # "history" => m.left + losses > MaxReceives)
  /\ at[w] = "recording" =>
       /\ work[w].scan.id <= ids
       /\ work[w].scan.id = scan.id => work[w].scan.version = scan.version
  /\ at[w] = "forwarding" => Fits(work[w].next)

\* The messages, workers and calls that bring a scan on that waits.
WaitsNow == Waits(scan) /\ profile.configured
Leads(m) == (Paged(m) /\ m.id = scan.id) \/ (m.kind = "setup" /\ m.id = conn.epoch)
Carrier(w) ==
  LET m == work[w].message IN
  \/ at[w] = "ensuring" /\ m.id = conn.epoch
  \/ /\ at[w] \in {"analysing", "storing"} /\ Paged(m) /\ m.id = scan.id
     /\ work[w].scan.step = scan.step /\ work[w].epoch = conn.epoch
  \/ at[w] \in {"failing", "recording"} /\ Leads(m)
  \/ /\ at[w] = "forwarding" /\ Paged(work[w].next) /\ work[w].next.id = scan.id
     /\ Leads(m) \/ losses >= MaxLosses
Caller(c) ==
  \/ pc[c] = "dispatching" /\ call[c].message.id = scan.id
  \/ pc[c] = "refused" /\ call[c].scan = scan /\ call[c].version = profile.version
Held ==
  (\E m \in messages : Leads(m)) \/ (\E w \in Workers : Carrier(w)) \/ (\E c \in Calls : Caller(c))
Carried == WaitsNow => Held

\* Until its connection's setup has come, or something failed, a profile has its scan.
IsSetting(m) == m.kind = "setup" /\ m.id = conn.epoch
Setter(w) == at[w] = "ensuring" /\ work[w].message.id = conn.epoch
Setting == (\E m \in messages : IsSetting(m)) \/ (\E w \in Workers : Setter(w))
Wanting ==
  conn.on /\ profile.configured /\ ~(OfConnection(scan) /\ scan.status \in {"PENDING", "READY"})
Asked == Wanting => Setting \/ losses > 0

CInv ==
  /\ IInv /\ Kept /\ Asked /\ Carried
  /\ \A m \in messages : Fits(m)
  /\ \A c \in Calls : CallKept(c)
  /\ \A w \in Workers : WorkKept(w)

Few == MaxLosses < MaxReceives /\ (MaxEpochs <= 1 \/ MaxLosses <= 1)

----------------------------------------------------------------------------
\* Names are given once, and a scan that keeps its name keeps its version.
SameName == scan'.id = scan.id /\ scan'.version = scan.version /\ scan'.step >= scan.step
Grows ==
  /\ losses' \in Nat /\ losses' >= losses /\ ids' >= ids /\ conn'.epoch >= conn.epoch
  /\ SameName \/ OtherScan

LEMMA CFacts ==
  ASSUME CInv
  PROVE  /\ messages \subseteq Payloads /\ scan \in Scans /\ scan.id \in Nat /\ scan.step \in Nat
         /\ scan.version \in Nat /\ scan.epoch \in Nat /\ ids \in Nat /\ losses \in Nat
         /\ conn \in Connections /\ conn.epoch \in Nat /\ profile \in Profiles
         /\ profile.version \in Nat /\ scan.id <= ids /\ scan.epoch <= conn.epoch
         /\ pc \in [Calls -> CallStates] /\ call \in [Calls -> CallRecords]
         /\ at \in [Workers -> WorkStates] /\ work \in [Workers -> WorkRecords]
         /\ MaxReceives \in Nat /\ MaxLosses \in Nat /\ MaxEpochs \in Nat
         /\ scan.next \in Payloads \cup {None} /\ head \in Nat
  BY ScanAssumption
  DEF CInv, Kept, IInv, Typed, ConnTyped, ItemsTyped, CallsTyped, WorkTyped, Scans, Connections,
      Profiles, Named

LEMMA PayloadFacts ==
  ASSUME NEW m \in Payloads
  PROVE  /\ m.kind \in Kinds /\ m.id \in Nat /\ m.version \in Nat /\ m.step \in Nat
         /\ m.left \in Nat /\ m.left <= MaxReceives /\ m.left >= 1
  BY ScanAssumption DEF Payloads

LEMMA PlacedStays ==
  ASSUME CInv, ItemsTyped', ConnTyped', Grows, NEW m \in Payloads, Placed(m)
  PROVE  Placed(m)'
<1>1. scan'.id \in Nat /\ scan'.step \in Nat /\ ids' \in Nat /\ conn'.epoch \in Nat
  BY DEF ItemsTyped, ConnTyped, Scans, Connections
<1>2. CASE SameName
  BY <1>1, <1>2, CFacts, PayloadFacts DEF Placed, Grows, SameName, Paged
<1>3. CASE OtherScan
  BY <1>1, <1>3, CFacts, PayloadFacts DEF Placed, Grows, OtherScan, Paged
<1> QED BY <1>2, <1>3 DEF Grows

LEMMA FitsStays ==
  ASSUME CInv, ItemsTyped', ConnTyped', Grows, NEW m \in Payloads, Fits(m)
  PROVE  Fits(m)'
<1>1. Enough(m)' BY CFacts, PayloadFacts DEF Fits, Enough, Grows
<1> QED BY <1>1, PlacedStays DEF Fits

LEMMA CallKeptStays ==
  ASSUME CInv, ItemsTyped', ConnTyped', Grows, NEW c \in Calls, pc'[c] = pc[c], call'[c] = call[c]
  PROVE  CallKept(c)'
<1>1. CallKept(c) BY DEF CInv
<1>2. call[c].message \in Payloads BY CFacts DEF CallRecords
<1>3. ASSUME pc[c] = "dispatching" PROVE Placed(call[c].message)'
  <2>1. PICK m \in Payloads : m = call[c].message BY <1>2
  <2>2. Placed(m)' BY <1>1, <1>3, <2>1, PlacedStays DEF CallKept
  <2> QED BY <2>1, <2>2 DEF Placed, Paged
<1>4. losses > 0 => losses' > 0 BY CFacts DEF Grows
<1> QED BY <1>1, <1>3, <1>4 DEF CallKept

LEMMA WorkKeptStays ==
  ASSUME CInv, ItemsTyped', ConnTyped', Grows, NEW w \in Workers, at'[w] = at[w], work'[w] = work[w]
  PROVE  WorkKept(w)'
<1> DEFINE m == work[w].message
           n == work[w].next
<1>1. WorkKept(w) /\ WorkInv(w) BY DEF CInv, IInv
<1>2. m \in Payloads /\ work[w].scan.id \in Nat /\ (at[w] = "forwarding" => n \in Payloads)
  BY <1>1, CFacts DEF WorkRecords, WorkInv, Scans
<1>3. \A p \in Payloads : Fits(p) => Fits(p)' BY FitsStays
<1>4. Fits(work[w].message)'
  <2>1. PICK p \in Payloads : p = m BY <1>2
  <2>2. Fits(p)' BY <1>1, <1>3, <2>1 DEF WorkKept
  <2> QED BY <2>1, <2>2 DEF Fits, Placed, Paged, Enough
<1>5. at[w] = "forwarding" => Fits(work[w].next)'
  <2> SUFFICES ASSUME at[w] = "forwarding" PROVE Fits(work[w].next)'
    OBVIOUS
  <2>1. PICK p \in Payloads : p = n BY <1>2
  <2>2. Fits(p)' BY <1>1, <1>3, <2>1 DEF WorkKept
  <2> QED BY <2>1, <2>2 DEF Fits, Placed, Paged, Enough
<1>6. /\ losses > 0 => losses' > 0 /\ ids' >= ids
      /\ m.left + losses > MaxReceives => m.left + losses' > MaxReceives
  BY <1>2, CFacts, PayloadFacts DEF Grows
<1>7. at[w] = "recording" =>
       /\ work[w].scan.id <= ids'
       /\ work[w].scan.id = scan'.id => work[w].scan.version = scan'.version
  <2> SUFFICES ASSUME at[w] = "recording"
               PROVE  /\ work[w].scan.id <= ids'
                      /\ work[w].scan.id = scan'.id => work[w].scan.version = scan'.version
    OBVIOUS
  <2>1. /\ work[w].scan.id <= ids /\ work[w].scan.id # 0
        /\ work[w].scan.id = scan.id => work[w].scan.version = scan.version
    BY <1>1 DEF WorkKept
  <2>2. ids' \in Nat /\ scan'.id \in Nat BY DEF ItemsTyped, Scans
  <2> QED BY <1>2, <2>1, <2>2, CFacts DEF Grows, SameName, OtherScan
<1> QED BY <1>1, <1>4, <1>5, <1>6, <1>7 DEF WorkKept, Paged

LEMMA CAssembled ==
  ASSUME CInv, IInv', Grows, Kept', Asked', Carried',
         \A m \in messages' : m \in messages \/ Fits(m)',
         \A c \in Calls : CallKept(c)' \/ (pc'[c] = pc[c] /\ call'[c] = call[c]),
         \A w \in Workers : WorkKept(w)' \/ (at'[w] = at[w] /\ work'[w] = work[w])
  PROVE  CInv'
<1>1. ItemsTyped' /\ ConnTyped' BY DEF IInv, Typed
<1>2. \A m \in messages' : Fits(m)' BY <1>1, CFacts, FitsStays DEF CInv
<1>3. \A c \in Calls : CallKept(c)' BY <1>1, CallKeptStays
<1>4. \A w \in Workers : WorkKept(w)' BY <1>1, WorkKeptStays
<1> QED BY <1>2, <1>3, <1>4 DEF CInv

----------------------------------------------------------------------------
(***************************************************************************)
(* Steps that leave the scan, the profile and the connection.              *)
(***************************************************************************)
Still ==
  /\ UNCHANGED <<scan, profile, ids>> /\ conn'.on = conn.on /\ conn'.epoch = conn.epoch
  /\ losses' \in Nat /\ losses' >= losses /\ losses' <= MaxLosses
CallSame(c) == pc'[c] = pc[c] /\ call'[c] = call[c]
WorkSame(w) == at'[w] = at[w] /\ work'[w] = work[w]

LEMMA StillSame ==
  ASSUME CInv, Still
  PROVE  /\ Grows /\ Kept' /\ (WaitsNow' <=> WaitsNow) /\ (Wanting' <=> Wanting)
         /\ \A m : (Leads(m)' <=> Leads(m)) /\ (IsSetting(m)' <=> IsSetting(m))
         /\ \A m : (Placed(m)' <=> Placed(m))
         /\ \A w \in Workers : WorkSame(w) => (Carrier(w) => Carrier(w)') /\ (Setter(w) => Setter(w)')
         /\ \A c \in Calls : CallSame(c) => (Caller(c) => Caller(c)')
<1>1. Grows BY CFacts DEF Still, Grows, SameName
<1>2. Kept' BY DEF CInv, Kept, Still
<1>3. (WaitsNow' <=> WaitsNow) /\ (Wanting' <=> Wanting)
  BY DEF Still, WaitsNow, Wanting, Waits, OfConnection
<1>4. \A m : (Leads(m)' <=> Leads(m)) /\ (IsSetting(m)' <=> IsSetting(m)) /\ (Placed(m)' <=> Placed(m))
  BY DEF Still, Leads, IsSetting, Placed, Paged
<1>5. ASSUME NEW w \in Workers, WorkSame(w) PROVE (Carrier(w) => Carrier(w)') /\ (Setter(w) => Setter(w)')
  <2>1. losses >= MaxLosses => losses' >= MaxLosses BY CFacts DEF Still
  <2> QED BY <1>5, <2>1 DEF Still, WorkSame, Carrier, Setter, Leads, Paged
<1>6. ASSUME NEW c \in Calls, CallSame(c) PROVE Caller(c) => Caller(c)'
  BY <1>6 DEF Still, CallSame, Caller
<1> QED BY <1>1, <1>2, <1>3, <1>4, <1>5, <1>6

LEMMA StillKeeps ==
  ASSUME CInv, IInv', Still,
         \A m \in messages' : m \in messages \/ Fits(m)',
         \A c \in Calls : CallKept(c)' \/ CallSame(c),
         \A w \in Workers : WorkKept(w)' \/ WorkSame(w),
         \A m \in messages \ messages' :
           (WaitsNow /\ Leads(m) => Held') /\ (Wanting /\ IsSetting(m) => Setting' \/ losses' > 0),
         \A w \in Workers : WorkSame(w) \/
           ((WaitsNow /\ Carrier(w) => Held') /\ (Wanting /\ Setter(w) => Setting' \/ losses' > 0)),
         \A c \in Calls : CallSame(c) \/ (WaitsNow /\ Caller(c) => Held')
  PROVE  CInv'
<1>1. Carried'
  <2> SUFFICES ASSUME WaitsNow' PROVE Held'
    BY DEF Carried
  <2>1. WaitsNow /\ Held BY StillSame DEF CInv, Carried
  <2>2. CASE \E m \in messages : Leads(m)
    BY <2>1, <2>2, StillSame DEF Held
  <2>3. CASE \E w \in Workers : Carrier(w)
    BY <2>1, <2>3, StillSame DEF Held
  <2>4. CASE \E c \in Calls : Caller(c)
    BY <2>1, <2>4, StillSame DEF Held
  <2> QED BY <2>1, <2>2, <2>3, <2>4 DEF Held
<1>2. Asked'
  <2> SUFFICES ASSUME Wanting' PROVE Setting' \/ losses' > 0
    BY DEF Asked
  <2>1. Wanting /\ (Setting \/ losses > 0) BY StillSame DEF CInv, Asked
  <2>2. CASE losses > 0 BY <2>2, CFacts DEF Still
  <2>3. CASE \E m \in messages : IsSetting(m)
    BY <2>1, <2>3, StillSame DEF Setting
  <2>4. CASE \E w \in Workers : Setter(w)
    BY <2>1, <2>4, StillSame DEF Setting
  <2> QED BY <2>1, <2>2, <2>3, <2>4 DEF Setting
<1> QED BY <1>1, <1>2, StillSame, CAssembled DEF CallSame, WorkSame

\* One worker moves, and no call.
LEMMA OneWorker ==
  ASSUME CInv, NEW w \in Workers, NEW to, NEW k, Moves(w, to), work' = [work EXCEPT ![w] = k]
  PROVE  at'[w] = to /\ work'[w] = k /\ \A v \in Workers \ {w} : WorkSame(v)
  BY CFacts DEF Moves, WorkSame

LEMMA FreshEnough ==
  ASSUME NEW m, m.left = MaxReceives \/ m.kind = "history", losses' \in Nat PROVE Enough(m)'
  BY ScanAssumption DEF Enough

LEMMA OneRests ==
  ASSUME CInv, NEW w \in Workers, Rests(w), losses' \in Nat
  PROVE  /\ at'[w] = "idle" /\ work'[w] = NoWork /\ WorkKept(w)'
         /\ \A v \in Workers \ {w} : WorkSame(v)
<1>1. at'[w] = "idle" /\ work'[w] = NoWork /\ \A v \in Workers \ {w} : WorkSame(v)
  BY OneWorker DEF Rests
<1>2. work'[w].message = NoMessage BY <1>1 DEF NoWork
<1>3. NoMessage.left = MaxReceives /\ NoMessage.kind = "none" BY DEF NoMessage, Message
<1>4. Enough(work[w].message)' BY <1>2, <1>3, ScanAssumption DEF Enough
<1>5. Placed(work[w].message)' BY <1>2, <1>3 DEF Placed, Paged
<1> QED BY <1>1, <1>4, <1>5 DEF WorkKept, Fits

\* What comes back is the message, and one that has a receive left does.
LEMMA Back ==
  ASSUME Few, CInv, ConnTyped', ItemsTyped', Grows, losses' <= MaxLosses,
         NEW m \in Payloads, Placed(m), m.kind # "history" => m.left + losses' > MaxReceives
  PROVE  /\ \A n \in Returned(m) : Fits(n)' /\ n.kind = m.kind /\ n.id = m.id
         /\ m.kind # "history" => Returned(m) # {}
<1>1. m.left \in Nat /\ losses' \in Nat /\ losses' >= losses BY PayloadFacts DEF Grows
<1>2. ASSUME NEW n \in Returned(m)
      PROVE  Fits(n)' /\ n.kind = m.kind /\ n.id = m.id
  <2>1. n = [m EXCEPT !.left = @ - 1] BY DEF Returned
  <2>2. /\ n.kind = m.kind /\ n.id = m.id /\ n.version = m.version /\ n.step = m.step
        /\ n.left = m.left - 1
    BY <2>1 DEF Payloads
  <2>3. n \in Payloads BY ReturnedTyped
  <2>4. Placed(n) BY <2>2 DEF Placed, Paged
  <2>5. Placed(n)' BY <2>3, <2>4, PlacedStays
  <2>6. Enough(n)' BY <1>1, <2>2, CFacts DEF Enough
  <2> QED BY <2>2, <2>5, <2>6 DEF Fits
<1>3. m.kind # "history" => Returned(m) # {}
  <2> SUFFICES ASSUME m.kind # "history" PROVE m.left > 1
    BY DEF Returned
  <2> QED BY <1>1, CFacts DEF Few
<1> QED BY <1>2, <1>3

LEMMA WorkMessage ==
  ASSUME CInv, NEW w \in Workers
  PROVE  /\ WorkKept(w) /\ WorkInv(w) /\ work[w] \in WorkRecords /\ work[w].message \in Payloads
         /\ Fits(work[w].message) /\ Placed(work[w].message) /\ work[w].scan \in Scans
         /\ work[w].scan.id \in Nat /\ work[w].scan.step \in Nat /\ work[w].epoch \in Nat
         /\ work[w].message.left \in Nat /\ work[w].version \in Nat
<1>1. WorkKept(w) /\ WorkInv(w) BY DEF CInv, IInv
<1>2. work[w] \in WorkRecords BY CFacts
<1>3. work[w].message \in Payloads /\ work[w].scan \in Scans /\ work[w].epoch \in Nat /\ work[w].version \in Nat
  BY <1>2 DEF WorkRecords
<1>4. work[w].scan.id \in Nat /\ work[w].scan.step \in Nat BY <1>3 DEF Scans
<1>5. work[w].message.left \in Nat BY <1>3, PayloadFacts
<1>6. Fits(work[w].message) BY <1>1 DEF WorkKept
<1> QED BY <1>1, <1>2, <1>3, <1>4, <1>5, <1>6 DEF Fits

\* A job comes back with what it carried.
LEMMA RetryKeeps ==
  ASSUME Few, CInv, IInv', Still, UNCHANGED callVars, NEW w \in Workers, Retries(w),
         work[w].message.kind # "history" => work[w].message.left + losses' > MaxReceives,
         WaitsNow /\ Carrier(w) => Leads(work[w].message)
  PROVE  CInv'
<1> DEFINE m == work[w].message
<1>1. ItemsTyped' /\ ConnTyped' /\ Grows /\ losses' \in Nat /\ losses' <= MaxLosses
  BY StillSame DEF IInv, Typed, Still
<1>2. m \in Payloads /\ Placed(m) /\ messages' = messages \cup Returned(m)
  BY WorkMessage DEF Retries
<1>3. /\ \A n \in Returned(m) : Fits(n)' /\ n.kind = m.kind /\ n.id = m.id
      /\ m.kind # "history" => Returned(m) # {}
  <2>1. PICK p \in Payloads : p = m BY <1>2
  <2>2. Placed(p) /\ (p.kind # "history" => p.left + losses' > MaxReceives) BY <1>2, <2>1
  <2>3. /\ \A n \in Returned(p) : Fits(n)' /\ n.kind = p.kind /\ n.id = p.id
        /\ p.kind # "history" => Returned(p) # {}
    BY <1>1, <2>2, Back
  <2> QED BY <2>1, <2>3
<1>4. at'[w] = "idle" /\ WorkKept(w)' /\ \A v \in Workers \ {w} : WorkSame(v)
  BY <1>1, OneRests DEF Retries
<1>5. WaitsNow /\ Carrier(w) => Held'
  <2> SUFFICES ASSUME WaitsNow, Leads(m) PROVE Held'
    OBVIOUS
  <2>1. m.kind # "history" BY DEF Leads, Paged
  <2>2. PICK n \in Returned(m) : n.kind = m.kind /\ n.id = m.id BY <1>3, <2>1
  <2>3. Leads(n) BY <2>2 DEF Leads, Paged
  <2>4. Leads(n)' BY <2>3, StillSame
  <2> QED BY <1>2, <2>2, <2>4 DEF Held
<1>6. Wanting /\ Setter(w) => Setting'
  <2> SUFFICES ASSUME Setter(w) PROVE Setting'
    OBVIOUS
  <2>1. m.kind = "setup" /\ m.id = conn.epoch BY WorkMessage DEF Setter, WorkKept
  <2>2. PICK n \in Returned(m) : n.kind = m.kind /\ n.id = m.id BY <1>3, <2>1
  <2>3. IsSetting(n) BY <2>1, <2>2 DEF IsSetting
  <2>4. IsSetting(n)' BY <2>3, StillSame
  <2> QED BY <1>2, <2>2, <2>4 DEF Setting
<1>7. \A c \in Calls : CallSame(c) BY DEF callVars, CallSame
<1> QED BY <1>2, <1>3, <1>4, <1>5, <1>6, <1>7, StillKeeps

----------------------------------------------------------------------------
(***************************************************************************)
(* Gmail, the connection and the messages.                                 *)
(***************************************************************************)
\* No call and no worker moves, and no message goes.
LEMMA OutsideCarries ==
  ASSUME CInv, IInv', MailArrives \/ Notify \/ Disconnect \/ Connect \/ ClaimExpires
  PROVE  CInv'
<1>1. UNCHANGED <<scan, profile, ids, losses, callVars, workVars>> /\ losses' \in Nat /\ losses' <= MaxLosses
  BY DEF MailArrives, Notify, Disconnect, Connect, ClaimExpires, tableVars, itemVars, CInv, Kept
<1>2. (\A c \in Calls : CallSame(c)) /\ (\A w \in Workers : WorkSame(w))
  BY <1>1 DEF callVars, workVars, CallSame, WorkSame
<1>3. ASSUME conn'.on = conn.on, conn'.epoch = conn.epoch, messages \subseteq messages',
             \A m \in messages' : m \in messages \/ Fits(m)'
      PROVE  CInv'
  <2>1. Still BY <1>1, <1>3, CFacts DEF Still
  <2> QED BY <1>2, <1>3, <2>1, StillKeeps
<1>4. CASE MailArrives
  BY <1>3, <1>4 DEF MailArrives, tableVars
<1>5. CASE ClaimExpires
  <2>1. conn'.on = conn.on /\ conn'.epoch = conn.epoch BY <1>5, CFacts DEF ClaimExpires, Connections
  <2> QED BY <1>3, <1>5, <2>1 DEF ClaimExpires
<1>6. CASE Notify
  <2>1. PICK h : h = History(head) OBVIOUS
  <2>2. h.kind = "history" BY <2>1 DEF History, Message
  <2>3. Fits(h)' BY <1>1, <2>2 DEF Fits, Placed, Enough, Paged
  <2> QED BY <1>3, <1>6, <2>1, <2>3 DEF Notify, tableVars
<1>7. CASE Disconnect
  <2>1. conn'.on = FALSE /\ conn'.epoch = conn.epoch /\ messages' = messages
    BY <1>7, CFacts DEF Disconnect, Connections
  <2>2. Grows BY <1>1, <2>1, CFacts DEF Grows, SameName
  <2>3. Kept' BY <1>1, <2>1 DEF CInv, Kept
  <2>4. Asked' /\ Carried' BY <2>1 DEF Asked, Wanting, Carried, WaitsNow, Waits, OfConnection
  <2> QED BY <1>2, <2>1, <2>2, <2>3, <2>4, CAssembled DEF CallSame, WorkSame
<1>8. CASE Connect
  <2>1. PICK m : m = Message("setup", conn.epoch + 1, 0, 0, 0) OBVIOUS
  <2>2. m.kind = "setup" /\ m.id = conn.epoch + 1 /\ m.left = MaxReceives BY <2>1 DEF Message
  <2>3. /\ conn'.on = TRUE /\ conn'.epoch = conn.epoch + 1 /\ messages' = messages \cup {m}
        /\ conn.epoch < MaxEpochs
    BY <1>8, <2>1 DEF Connect
  <2>4. Grows BY <1>1, <2>3, CFacts DEF Grows, SameName
  <2>5. Kept' BY <1>1, <2>3, CFacts DEF CInv, Kept
  <2>6. Fits(m)' BY <1>1, <2>2, <2>3, CFacts DEF Fits, Placed, Enough, Paged
  <2>7. Asked' BY <2>2, <2>3 DEF Asked, Setting, IsSetting
  <2>8. Carried'
    <3>1. scan'.epoch # conn'.epoch BY <1>1, <2>3, CFacts
    <3> QED BY <3>1 DEF Carried, WaitsNow, Waits, OfConnection
  <2> QED BY <1>2, <2>3, <2>4, <2>5, <2>6, <2>7, <2>8, CAssembled DEF CallSame, WorkSame
<1> QED BY <1>4, <1>5, <1>6, <1>7, <1>8

\* What a message that leads to the waiting scan finds.
LEMMA LeadsOn ==
  ASSUME CInv, WaitsNow, NEW m \in messages, Leads(m)
  PROVE  \/ IsPage(m) /\ scan.step = m.step
         \/ IsPage(m) /\ IsStored(m) /\ scan.next = Message("continuation", scan.id, scan.version, scan.step, 0)
         \/ IsSetup(m)
<1>1. conn.on /\ scan.epoch = conn.epoch /\ scan.status = "PENDING" /\ profile.configured
      /\ scan.version = profile.version /\ scan.id # 0
  BY DEF WaitsNow, Waits, OfConnection, CInv, Kept
<1>2. CASE m.kind = "setup" /\ m.id = conn.epoch
  BY <1>1, <1>2 DEF IsSetup
<1>3. CASE Paged(m) /\ m.id = scan.id
  <2>1. m \in Payloads /\ m.step \in Nat BY CFacts, PayloadFacts
  <2>2. m.version = scan.version /\ m.step <= scan.step
    BY <1>3 DEF CInv, Fits, Placed
  <2>3. IsPage(m) BY <1>1, <1>3, <2>2 DEF IsPage, Current, OfConnection, Paged
  <2>4. ASSUME scan.step # m.step
        PROVE  IsStored(m) /\ scan.next = Message("continuation", scan.id, scan.version, scan.step, 0)
    <3>1. scan.step > m.step /\ scan.step > 0 BY <2>1, <2>2, <2>4, CFacts
    <3>2. scan.next # None /\ scan.next.kind = "continuation" BY <1>1, <3>1 DEF CInv, Kept
    <3>3. "continuation" # "history" OBVIOUS
    <3> QED BY <2>3, <3>1, <3>2, <3>3 DEF CInv, Kept, IsStored
  <2> QED BY <2>3, <2>4
<1> QED BY <1>2, <1>3 DEF Leads

LEMMA NextLeads ==
  ASSUME CInv, scan.id # 0, NEW n, n = Message("continuation", scan.id, scan.version, scan.step, 0)
  PROVE  Leads(n) /\ Fits(n)
<1>1. /\ n.kind = "continuation" /\ n.id = scan.id /\ n.version = scan.version /\ n.step = scan.step
      /\ n.left = MaxReceives
  BY DEF Message
<1>2. Leads(n) BY <1>1 DEF Leads, Paged
<1>3. Fits(n) BY <1>1, CFacts DEF Fits, Placed, Enough, Paged
<1> QED BY <1>2, <1>3

LEMMA FitsStill ==
  ASSUME CInv, IInv', Still, NEW n, Fits(n), n.left = MaxReceives \/ n.kind = "history"
  PROVE  Fits(n)'
<1>1. Placed(n)' BY StillSame DEF Fits
<1>2. Enough(n)' BY FreshEnough DEF Still
<1> QED BY <1>1, <1>2 DEF Fits

\* A stored page's message brings the next one back, another had no work.
LEMMA MessageCarries ==
  ASSUME CInv, IInv', NEW m \in messages, Replay(m) \/ Drop(m)
  PROVE  CInv'
<1>1. UNCHANGED <<head, tableVars, ids, losses, callVars, workVars>> BY DEF Replay, Drop
<1>2. (\A c \in Calls : CallSame(c)) /\ (\A w \in Workers : WorkSame(w))
  BY <1>1 DEF callVars, workVars, CallSame, WorkSame
<1>3. Still BY <1>1, CFacts DEF Still, tableVars, itemVars, CInv, Kept
<1>4. CASE Replay(m)
  <2>1. /\ IsStored(m) /\ messages' = (messages \ {m}) \cup {scan.next} /\ scan.next # None
        /\ scan.id # 0 /\ ~IsSetting(m)
    BY <1>4 DEF Replay, IsStored, IsPage, Current, IsSetting
  <2>2. PICK n : n = scan.next OBVIOUS
  <2>3. CASE n.kind = "history"
    <3>1. Fits(n)' BY <1>3, <2>3, FreshEnough DEF Still, Fits, Placed, Paged
    <3>2. \/ ~WaitsNow \/ ~Leads(m)
      <4> SUFFICES ASSUME WaitsNow, Leads(m) PROVE FALSE
        OBVIOUS
      <4>1. scan.status = "PENDING" /\ (scan.next # None => scan.step = 0 \/ scan.next.kind = "continuation")
        BY CFacts DEF WaitsNow, Waits, CInv, Kept
      <4>2. m \in Payloads /\ m.step \in Nat BY CFacts, PayloadFacts
      <4>3. scan.step > 0 BY <2>1, <4>2, CFacts DEF IsStored
      <4> QED BY <2>1, <2>2, <2>3, <4>1, <4>3
    <3> QED BY <1>2, <1>3, <2>1, <2>2, <3>1, <3>2, StillKeeps
  <2>4. CASE n = Message("continuation", scan.id, scan.version, scan.step, 0)
    <3>1. Leads(n) /\ Fits(n) /\ n.left = MaxReceives BY <2>1, <2>4, NextLeads DEF Message
    <3>2. Fits(n)' BY <1>3, <3>1, FitsStill
    <3>3. Leads(n)' BY <1>3, <3>1, StillSame
    <3>4. Held' BY <2>1, <2>2, <3>3 DEF Held
    <3> QED BY <1>2, <1>3, <2>1, <2>2, <3>2, <3>4, StillKeeps
  <2> QED BY <2>1, <2>2, <2>3, <2>4 DEF CInv, Kept
<1>5. CASE Drop(m)
  <2>1. messages' = messages \ {m} BY <1>5 DEF Drop
  <2>2. ~(WaitsNow /\ Leads(m)) BY <1>5, LeadsOn DEF Drop
  <2>3. ~(Wanting /\ IsSetting(m)) BY <1>5 DEF Drop, Wanting, IsSetting, IsSetup
  <2> QED BY <1>2, <1>3, <2>1, <2>2, <2>3, StillKeeps
<1> QED BY <1>4, <1>5

----------------------------------------------------------------------------
(***************************************************************************)
(* API calls.                                                              *)
(***************************************************************************)
LEMMA OneCall ==
  ASSUME CInv, NEW c \in Calls, NEW to, NEW k, Goes(c, to), call' = [call EXCEPT ![c] = k]
  PROVE  pc'[c] = to /\ call'[c] = k /\ \A d \in Calls \ {c} : CallSame(d)
  BY CFacts DEF Goes, CallSame

LEMMA OneReturns ==
  ASSUME CInv, NEW c \in Calls, Returns(c)
  PROVE  pc'[c] = "idle" /\ CallKept(c)' /\ \A d \in Calls \ {c} : CallSame(d)
<1>1. pc'[c] = "idle" /\ \A d \in Calls \ {c} : CallSame(d) BY OneCall DEF Returns
<1> QED BY <1>1 DEF CallKept

LEMMA OneDispatches ==
  ASSUME CInv, NEW c \in Calls, NEW id, NEW version, Dispatches(c, id, version)
  PROVE  /\ pc'[c] = "dispatching" /\ call'[c].message = Message("scan", id, version, 0, 0)
         /\ \A d \in Calls \ {c} : CallSame(d)
<1>1. PICK k : k = [call[c] EXCEPT !.message = Message("scan", id, version, 0, 0)] OBVIOUS
<1>2. Goes(c, "dispatching") /\ call' = [call EXCEPT ![c] = k] BY <1>1 DEF Dispatches
<1>3. pc'[c] = "dispatching" /\ call'[c] = k /\ \A d \in Calls \ {c} : CallSame(d)
  BY <1>2, OneCall
<1>4. k.message = Message("scan", id, version, 0, 0) BY <1>1, CFacts DEF CallRecords
<1> QED BY <1>3, <1>4

\* The call that asked for what waits is there to send it.
LEMMA AskerHolds ==
  ASSUME CInv, ItemsTyped', NEW c \in Calls, Dispatches(c, scan'.id, scan'.version), scan'.id # 0,
         scan'.id <= ids'
  PROVE  Held' /\ CallKept(c)' /\ \A d \in Calls \ {c} : CallSame(d)
<1>1. PICK id, version : id = scan'.id /\ version = scan'.version OBVIOUS
<1>2. Dispatches(c, id, version) BY <1>1
<1>3. /\ pc'[c] = "dispatching" /\ call'[c].message = Message("scan", id, version, 0, 0)
      /\ \A d \in Calls \ {c} : CallSame(d)
  BY <1>2, OneDispatches
<1>4. PICK m : m = Message("scan", id, version, 0, 0) OBVIOUS
<1>5. m.kind = "scan" /\ m.id = id /\ m.version = version /\ m.step = 0 /\ m.left = MaxReceives
  BY <1>4 DEF Message
<1>6. scan'.step \in Nat BY DEF ItemsTyped, Scans
<1>7. call'[c].message = m BY <1>3, <1>4
<1>8. Placed(m)' BY <1>1, <1>5, <1>6 DEF Placed, Paged
<1>9. CallKept(c)' BY <1>3, <1>5, <1>7, <1>8 DEF CallKept, Placed, Paged
<1>10. Caller(c)' BY <1>1, <1>3, <1>5, <1>7 DEF Caller
<1> QED BY <1>3, <1>9, <1>10 DEF Held

LEMMA AsksAnew ==
  ASSUME CInv, IInv', NEW c \in Calls, Dispatches(c, scan'.id, scan'.version),
         UNCHANGED <<conn, messages, losses, workVars>>, ids' = ids + 1, conn.on,
         scan'.id = ids + 1, scan'.version = profile'.version, scan'.epoch = conn.epoch,
         scan'.status = "PENDING", ~scan'.completed, scan'.step = 0, scan'.next = None
  PROVE  CInv'
<1>1. ItemsTyped' BY DEF IInv, Typed
<1>2. ids' \in Nat /\ ids \in Nat /\ scan'.id # 0 /\ scan'.id <= ids' BY CFacts
<1>3. Held' /\ CallKept(c)' /\ \A d \in Calls \ {c} : CallSame(d) BY <1>1, <1>2, AskerHolds
<1>4. Grows BY CFacts DEF Grows, OtherScan
<1>5. Kept' BY <1>2 DEF CInv, Kept
<1>6. Asked' BY DEF Asked, Wanting, OfConnection
<1>7. \A w \in Workers : WorkSame(w) BY DEF workVars, WorkSame
<1> QED BY <1>3, <1>4, <1>5, <1>6, <1>7, CAssembled DEF Carried, CallSame, WorkSame

LEMMA RequestCarries ==
  ASSUME CInv, IInv', NEW c \in Calls, RequestAgain(c) \/ RequestResume(c) \/ RequestScan(c)
  PROVE  CInv'
<1>1. UNCHANGED <<head, conn, profile, results, messages, losses, workVars>> /\ ItemsTyped'
  BY DEF RequestAgain, RequestResume, RequestScan, IInv, Typed
<1>2. \A w \in Workers : WorkSame(w) BY <1>1 DEF workVars, WorkSame
<1>3. CASE RequestAgain(c)
  <2>1. /\ Dispatches(c, scan.id, scan.version) /\ scan' = scan /\ ids' = ids /\ pc[c] = "idle"
        /\ scan.id # 0
    BY <1>3 DEF RequestAgain, Waits, CInv, Kept
  <2>2. Still BY <1>1, <2>1 DEF Still, CInv, Kept
  <2>3. CallKept(c)' /\ \A d \in Calls \ {c} : CallSame(d) BY <1>1, <2>1, CFacts, AskerHolds
  <2>4. ~Caller(c) BY <2>1 DEF Caller
  <2> QED BY <1>1, <1>2, <2>2, <2>3, <2>4, StillKeeps
<1>4. CASE RequestResume(c)
  <2>1. /\ Dispatches(c, scan.id, scan.version) /\ scan' = [scan EXCEPT !.status = "PENDING"]
        /\ ids' = ids /\ Broken(scan) /\ Continues(scan)
    BY <1>4 DEF RequestResume
  <2>2. /\ scan'.status = "PENDING" /\ scan'.id = scan.id /\ scan'.version = scan.version
        /\ scan'.completed = scan.completed /\ scan'.epoch = scan.epoch /\ scan'.step = scan.step
        /\ scan'.next = scan.next
    BY <2>1, CFacts DEF Scans
  <2>3. scan.id # 0 BY <2>1 DEF Broken, CInv, Kept
  <2>4. Held' /\ CallKept(c)' /\ \A d \in Calls \ {c} : CallSame(d)
    BY <1>1, <2>1, <2>2, <2>3, CFacts, AskerHolds
  <2>5. Grows BY <1>1, <2>1, <2>2, CFacts DEF Grows, SameName
  <2>6. Kept'
    <3>1. scan.next # None /\ scan.next.kind = "continuation" /\ ~scan.completed
      BY <2>1 DEF Continues
    <3> QED BY <1>1, <2>2, <2>3, <3>1 DEF CInv, Kept
  <2>7. Asked' BY <1>1, <2>1, <2>2 DEF Asked, Wanting, OfConnection, Broken
  <2> QED BY <1>1, <1>2, <2>4, <2>5, <2>6, <2>7, CAssembled DEF Carried, CallSame, WorkSame
<1>5. CASE RequestScan(c)
  <2>1. /\ Dispatches(c, ids + 1, profile.version) /\ scan' = NewScan(ids + 1) /\ ids' = ids + 1
        /\ conn.on
    BY <1>5 DEF RequestScan
  <2>2. scan' = [status |-> "PENDING", id |-> ids + 1, version |-> profile.version,
                 completed |-> FALSE, epoch |-> conn.epoch, step |-> 0, next |-> None]
    <3>1. Typed /\ ids + 1 \in Nat BY CFacts DEF CInv, IInv
    <3> QED BY <2>1, <3>1, NewScanTyped
  <2>3. Dispatches(c, scan'.id, scan'.version) BY <2>1, <2>2
  <2> QED BY <1>1, <2>1, <2>2, <2>3, AsksAnew
<1> QED BY <1>3, <1>4, <1>5

LEMMA SaveProfileCarries ==
  ASSUME CInv, IInv', NEW c \in Calls, SaveProfile(c)
  PROVE  CInv'
<1>1. UNCHANGED <<head, conn, results, messages, losses, workVars>> BY DEF SaveProfile
<1>2. PICK interests \in BOOLEAN :
        /\ profile' = [version |-> profile.version + 1, configured |-> interests]
        /\ IF interests /\ conn.on
           THEN /\ ids' = ids + 1
                /\ scan' = [NewScan(ids + 1) EXCEPT !.version = profile'.version]
                /\ Dispatches(c, ids + 1, profile'.version)
           ELSE /\ scan' = [EmptyScan EXCEPT !.version = profile'.version, !.epoch = conn.epoch]
                /\ UNCHANGED <<ids, callVars>>
  BY DEF SaveProfile
<1>3. CASE interests /\ conn.on
  <2>1. /\ ids' = ids + 1 /\ scan' = [NewScan(ids + 1) EXCEPT !.version = profile'.version]
        /\ Dispatches(c, ids + 1, profile'.version)
    BY <1>2, <1>3
  <2>2. NewScan(ids + 1) =
          [status |-> "PENDING", id |-> ids + 1, version |-> profile.version, completed |-> FALSE,
           epoch |-> conn.epoch, step |-> 0, next |-> None]
    <3>1. Typed /\ ids + 1 \in Nat BY CFacts DEF CInv, IInv
    <3> QED BY <3>1, NewScanTyped
  <2>3. /\ scan'.status = "PENDING" /\ scan'.id = ids + 1 /\ scan'.version = profile'.version
        /\ ~scan'.completed /\ scan'.epoch = conn.epoch /\ scan'.step = 0 /\ scan'.next = None
    <3>1. PICK n, v : n = NewScan(ids + 1) /\ v = profile'.version OBVIOUS
    <3>2. scan' = [n EXCEPT !.version = v] BY <2>1, <3>1
    <3>3. n = [status |-> "PENDING", id |-> ids + 1, version |-> profile.version,
               completed |-> FALSE, epoch |-> conn.epoch, step |-> 0, next |-> None]
      BY <2>2, <3>1
    <3>4. scan' = [status |-> "PENDING", id |-> ids + 1, version |-> v,
                   completed |-> FALSE, epoch |-> conn.epoch, step |-> 0, next |-> None]
      BY <3>2, <3>3
    <3> QED BY <3>1, <3>4
  <2>4. Dispatches(c, scan'.id, scan'.version) BY <2>1, <2>3
  <2> QED BY <1>1, <1>3, <2>1, <2>3, <2>4, AsksAnew
<1>4. CASE ~(interests /\ conn.on)
  <2>1. /\ scan' = [EmptyScan EXCEPT !.version = profile'.version, !.epoch = conn.epoch]
        /\ UNCHANGED <<ids, callVars>> /\ profile'.configured = interests
    BY <1>2, <1>4
  <2>2. /\ scan'.status = "NOT_STARTED" /\ scan'.id = 0 /\ scan'.version = profile'.version
        /\ scan'.next = None
    <3>1. PICK v : v = profile'.version OBVIOUS
    <3>2. scan' = [EmptyScan EXCEPT !.version = v, !.epoch = conn.epoch] BY <2>1, <3>1
    <3> QED BY <3>1, <3>2 DEF EmptyScan
  <2>3. Grows BY <1>1, <2>1, <2>2, CFacts DEF Grows, OtherScan
  <2>4. Kept' BY <1>1, <2>2 DEF CInv, Kept
  <2>5. Asked' BY <1>1, <1>4, <2>1 DEF Asked, Wanting
  <2>6. Carried' BY <2>2 DEF Carried, WaitsNow, Waits
  <2>7. (\A d \in Calls : CallSame(d)) /\ (\A w \in Workers : WorkSame(w))
    BY <1>1, <2>1 DEF callVars, workVars, CallSame, WorkSame
  <2> QED BY <1>1, <2>3, <2>4, <2>5, <2>6, <2>7, CAssembled DEF CallSame, WorkSame
<1> QED BY <1>3, <1>4

\* The message that goes on with a scan that waits.
LEMMA WaitsContinues ==
  ASSUME CInv, scan.status = "PENDING", scan.step > 0
  PROVE  Continues(scan)
<1>1. scan.next # None /\ scan.next.kind = "continuation" /\ ~scan.completed
      /\ scan.version = profile.version
  BY DEF CInv, Kept
<1>2. scan.next = Message("continuation", scan.id, scan.version, scan.step, 0)
  BY <1>1 DEF CInv, Kept
<1> QED BY <1>1, <1>2 DEF Continues, Message

LEMMA DispatchCarries ==
  ASSUME CInv, IInv', NEW c \in Calls, Dispatch(c)
  PROVE  CInv'
<1> DEFINE m == call[c].message
           current == /\ profile.configured /\ Waits(scan) /\ ~scan.completed
                      /\ scan.id = m.id /\ scan.version = m.version
                      /\ scan.step = 0 \/ Continues(scan)
<1>1. UNCHANGED <<head, tableVars, ids, workVars>> /\ pc[c] = "dispatching" BY DEF Dispatch
<1>2. \A w \in Workers : WorkSame(w) BY <1>1 DEF workVars, WorkSame
<1>3. /\ m \in Payloads /\ Placed(m) /\ m.kind = "scan" /\ m.left = MaxReceives
  BY <1>1, CFacts DEF CInv, CallKept, CallRecords
<1>4. CASE /\ current /\ Returns(c) /\ UNCHANGED losses
           /\ messages' = messages \cup {IF scan.step = 0 THEN m ELSE scan.next}
  <2>1. Still BY <1>1, <1>4, CFacts DEF Still, tableVars, itemVars, CInv, Kept
  <2>2. scan.id # 0 BY <1>4 DEF Waits, CInv, Kept
  <2>3. PICK n : n = IF scan.step = 0 THEN m ELSE scan.next OBVIOUS
  <2>4. Leads(n) /\ Fits(n) /\ n.left = MaxReceives
    <3>1. CASE scan.step = 0
      BY <1>3, <1>4, <2>3, <3>1, CFacts DEF Leads, Paged, Fits, Enough
    <3>2. CASE scan.step # 0
      <4>1. n # None /\ n.kind = "continuation" /\ n = scan.next
        BY <1>4, <2>3, <3>2 DEF Continues
      <4>2. n = Message("continuation", scan.id, scan.version, scan.step, 0)
        BY <4>1 DEF CInv, Kept
      <4> QED BY <2>2, <4>2, NextLeads DEF Message
    <3> QED BY <3>1, <3>2
  <2>5. Fits(n)' /\ Leads(n)' BY <2>1, <2>4, FitsStill, StillSame
  <2>6. Held' BY <1>4, <2>3, <2>5 DEF Held
  <2>7. CallKept(c)' /\ \A d \in Calls \ {c} : CallSame(d) BY <1>4, OneReturns
  <2> QED BY <1>2, <1>4, <2>1, <2>3, <2>5, <2>6, <2>7, StillKeeps
<1>5. CASE /\ current /\ Loses /\ Goes(c, "refused") /\ UNCHANGED messages
           /\ call' = [call EXCEPT ![c].scan = scan, ![c].version = profile.version]
  <2>1. losses' \in Nat /\ losses' >= losses /\ losses' <= MaxLosses /\ losses' > 0
    BY <1>5, CFacts DEF Loses
  <2>2. Still BY <1>1, <2>1, CFacts DEF Still, tableVars, itemVars
  <2>3. PICK k : k = [call[c] EXCEPT !.scan = scan, !.version = profile.version] OBVIOUS
  <2>4. call[c] \in CallRecords BY CFacts
  <2>5. k.scan = scan /\ k.version = profile.version BY <2>3, <2>4 DEF CallRecords
  <2>6. call' = [call EXCEPT ![c] = k] BY <1>5, <2>3, CFacts
  <2>7. pc'[c] = "refused" /\ call'[c] = k /\ \A d \in Calls \ {c} : CallSame(d)
    BY <1>5, <2>6, OneCall
  <2>8. scan.id # 0 BY <1>5 DEF Waits, CInv, Kept
  <2>9. CallKept(c)' BY <2>1, <2>5, <2>7, <2>8 DEF CallKept
  <2>10. Held' BY <2>2, <2>5, <2>7 DEF Held, Caller, Still
  <2> QED BY <1>2, <1>5, <2>2, <2>7, <2>9, <2>10, StillKeeps
<1>6. CASE ~current /\ Returns(c) /\ UNCHANGED <<messages, losses>>
  <2>1. Still BY <1>1, <1>6, CFacts DEF Still, tableVars, itemVars, CInv, Kept
  <2>2. ~(WaitsNow /\ Caller(c))
    <3> SUFFICES ASSUME WaitsNow, Caller(c) PROVE current
      BY <1>6
    <3>1. profile.configured /\ Waits(scan) /\ scan.status = "PENDING" /\ ~scan.completed
      BY DEF WaitsNow, Waits, CInv, Kept
    <3>2. m.id = scan.id BY <1>1 DEF Caller
    <3>3. m.version = scan.version BY <1>3, <3>2 DEF Placed, Paged
    <3>4. scan.step = 0 \/ Continues(scan) BY <3>1, CFacts, WaitsContinues
    <3> QED BY <3>1, <3>2, <3>3, <3>4
  <2>3. CallKept(c)' /\ \A d \in Calls \ {c} : CallSame(d) BY <1>6, OneReturns
  <2> QED BY <1>2, <1>6, <2>1, <2>2, <2>3, StillKeeps
<1> QED BY <1>4, <1>5, <1>6 DEF Dispatch

\* A scan that failed does not wait, and something failed.
LEMMA FailsCarries ==
  ASSUME CInv, IInv', UNCHANGED <<conn, profile, ids, losses>>, losses > 0, scan.id # 0,
         scan'.status = "ERROR", scan'.id = scan.id, scan'.version = scan.version,
         scan'.step = scan.step, scan'.next = scan.next,
         \A m \in messages' : m \in messages \/ Fits(m)',
         \A c \in Calls : CallKept(c)' \/ CallSame(c),
         \A w \in Workers : WorkKept(w)' \/ WorkSame(w)
  PROVE  CInv'
<1>1. Grows BY CFacts DEF Grows, SameName
<1>2. Kept' BY DEF CInv, Kept
<1>3. Asked' /\ Carried' BY DEF Asked, Carried, WaitsNow, Waits
<1> QED BY <1>1, <1>2, <1>3, CAssembled DEF CallSame, WorkSame

LEMMA FailRequestCarries ==
  ASSUME CInv, IInv', NEW c \in Calls, FailRequest(c)
  PROVE  CInv'
<1>1. /\ UNCHANGED <<head, conn, profile, results, messages, ids, losses, workVars>> /\ Returns(c)
      /\ pc[c] = "refused"
  BY DEF FailRequest
<1>2. \A w \in Workers : WorkSame(w) BY <1>1 DEF workVars, WorkSame
<1>3. CallKept(c)' /\ \A d \in Calls \ {c} : CallSame(d) BY <1>1, OneReturns
<1>4. losses > 0 /\ call[c].scan.id # 0 BY <1>1 DEF CInv, CallKept
<1>5. CASE SameScan(c) /\ profile.version = call[c].version /\ OfConnection(scan)
  <2>1. scan' = [scan EXCEPT !.status = "ERROR"] BY <1>5 DEF FailRequest
  <2>2. /\ scan'.status = "ERROR" /\ scan'.id = scan.id /\ scan'.version = scan.version
        /\ scan'.step = scan.step /\ scan'.next = scan.next
    BY <2>1, CFacts DEF Scans
  <2>3. scan.id # 0 BY <1>4, <1>5 DEF SameScan
  <2> QED BY <1>1, <1>2, <1>3, <1>4, <2>2, <2>3, FailsCarries
<1>6. CASE ~(SameScan(c) /\ profile.version = call[c].version /\ OfConnection(scan))
  <2>1. scan' = scan BY <1>6 DEF FailRequest
  <2>2. Still BY <1>1, <2>1, CFacts DEF Still, CInv, Kept
  <2>3. ~(WaitsNow /\ Caller(c))
    BY <1>1, <1>6 DEF WaitsNow, Waits, Caller, SameScan
  <2> QED BY <1>1, <1>2, <1>3, <2>2, <2>3, StillKeeps
<1> QED BY <1>5, <1>6

LEMMA ResultsCarry ==
  ASSUME CInv, IInv', NEW c \in Calls, BeginResults(c) \/ QueryResults(c) \/ Publish(c) \/ Conflict(c)
  PROVE  CInv'
<1>1. /\ UNCHANGED <<head, tableVars, messages, ids, losses, workVars>>
      /\ pc[c] \in {"idle", "querying", "checking"}
      /\ \E to \in {"idle", "querying", "checking"} : \E k : Goes(c, to) /\ call' = [call EXCEPT ![c] = k]
  <2>1. CASE BeginResults(c)
    <3>1. PICK k : k = [call[c] EXCEPT !.scan = Identity(scan), !.version = profile.version] OBVIOUS
    <3>2. call' = [call EXCEPT ![c] = k] BY <2>1, <3>1, CFacts DEF BeginResults
    <3> QED BY <2>1, <3>2 DEF BeginResults
  <2>2. CASE QueryResults(c)
    <3>1. PICK k : k = [call[c] EXCEPT !.items = {r \in results : r.scan = call[c].scan.id}] OBVIOUS
    <3>2. call' = [call EXCEPT ![c] = k] BY <2>2, <3>1, CFacts DEF QueryResults
    <3> QED BY <2>2, <3>2 DEF QueryResults
  <2>3. CASE Publish(c) \/ Conflict(c)
    BY <2>3 DEF Publish, Conflict, Raises, Returns
  <2> QED BY <2>1, <2>2, <2>3
<1>2. \A w \in Workers : WorkSame(w) BY <1>1 DEF workVars, WorkSame
<1>3. Still BY <1>1, CFacts DEF Still, tableVars, itemVars, CInv, Kept
<1>4. pc'[c] \in {"idle", "querying", "checking"} /\ \A d \in Calls \ {c} : CallSame(d)
  BY <1>1, OneCall
<1>5. CallKept(c)' BY <1>4 DEF CallKept
<1>6. ~Caller(c) BY <1>1 DEF Caller
<1> QED BY <1>1, <1>2, <1>3, <1>4, <1>5, <1>6, StillKeeps

----------------------------------------------------------------------------
(***************************************************************************)
(* Worker jobs.                                                            *)
(***************************************************************************)
LEMMA CallsSame == UNCHANGED callVars => \A c \in Calls : CallSame(c)
  BY DEF callVars, CallSame

LEMMA Losing ==
  ASSUME CInv, Loses \/ UNCHANGED losses
  PROVE  /\ losses' \in Nat /\ losses' >= losses /\ losses' <= MaxLosses
         /\ Loses => losses' = losses + 1 /\ losses' > 0
  BY CFacts DEF Loses, CInv, Kept

\* A job keeps its message while it works on.
LEMMA StillFits ==
  ASSUME CInv, IInv', Still, NEW m, m \in Payloads, Fits(m)
  PROVE  Fits(m)'
<1>1. Placed(m)' BY StillSame DEF Fits
<1>2. Enough(m)' BY CFacts, PayloadFacts DEF Fits, Enough, Still
<1> QED BY <1>1, <1>2 DEF Fits

LEMMA MessageStays ==
  ASSUME CInv, IInv', Grows, NEW w \in Workers, work'[w].message = work[w].message
  PROVE  Fits(work[w].message)'
<1>1. PICK p \in Payloads : p = work[w].message /\ Fits(p) BY WorkMessage
<1>2. ItemsTyped' /\ ConnTyped' BY DEF IInv, Typed
<1>3. Fits(p)' BY <1>1, <1>2, FitsStays
<1> QED BY <1>1, <1>3 DEF Fits, Placed, Enough, Paged

LEMMA TakeCarries ==
  ASSUME CInv, IInv', NEW w \in Workers, NEW m \in messages, Take(w, m)
  PROVE  CInv'
<1>1. PICK to : /\ Takes(w, m, to)
                /\ \/ to = "claiming" /\ IsHistory(m) /\ UNCHANGED losses
                   \/ to = "analysing" /\ IsPage(m) /\ scan.step = m.step /\ UNCHANGED losses
                   \/ to = "ensuring" /\ IsSetup(m) /\ UNCHANGED losses
                   \/ to = "failing" /\ IsStored(m) /\ Loses
  BY DEF Take
<1>2. /\ UNCHANGED <<head, tableVars, ids, callVars>> /\ messages' = messages \ {m}
      /\ at[w] = "idle" /\ Moves(w, to)
  BY <1>1 DEF Takes
<1>3. Still BY <1>1, <1>2, Losing DEF Still, tableVars, itemVars
<1>4. PICK k : k = [NoWork EXCEPT !.message = m, !.scan = Identity(scan), !.version = profile.version,
                                  !.epoch = conn.epoch]
  OBVIOUS
<1>5. /\ k.message = m /\ k.scan = Identity(scan) /\ k.version = profile.version
      /\ k.epoch = conn.epoch
  BY <1>4 DEF NoWork
<1>6. k.scan.id = scan.id /\ k.scan.step = scan.step BY <1>5, CFacts, IdentityTyped
<1>7. at'[w] = to /\ work'[w] = k /\ \A v \in Workers \ {w} : WorkSame(v)
  BY <1>1, <1>2, <1>4, OneWorker DEF Takes
<1>8. m \in Payloads /\ Fits(m) /\ m.left \in Nat BY CFacts, PayloadFacts DEF CInv
<1>9. Fits(m)' BY <1>3, <1>8, StillFits
<1>10. WorkKept(w)'
  <2>1. Fits(work[w].message)' BY <1>5, <1>7, <1>9 DEF Fits, Placed, Enough, Paged
  <2>2. CASE to = "claiming" /\ IsHistory(m) BY <1>5, <1>7, <2>1, <2>2 DEF WorkKept, IsHistory
  <2>3. CASE to = "analysing" /\ IsPage(m) /\ scan.step = m.step
    BY <1>5, <1>6, <1>7, <2>1, <2>3 DEF WorkKept, IsPage, Current, Paged
  <2>4. CASE to = "ensuring" /\ IsSetup(m) BY <1>5, <1>7, <2>1, <2>4 DEF WorkKept, IsSetup
  <2>5. CASE to = "failing" /\ IsStored(m) /\ Loses
    <3>1. losses' > 0 /\ losses' = losses + 1 BY <2>5, Losing
    <3>2. m.kind # "history" => m.left + losses' > MaxReceives
      BY <1>8, <3>1, CFacts DEF Fits, Enough
    <3>3. scan.id # 0 BY <2>5 DEF IsStored, IsPage, Current
    <3> QED BY <1>5, <1>6, <1>7, <2>1, <2>5, <3>1, <3>2, <3>3 DEF WorkKept
  <2> QED BY <1>1, <2>2, <2>3, <2>4, <2>5
<1>11. WaitsNow /\ Leads(m) => Carrier(w)'
  <2> SUFFICES ASSUME WaitsNow, Leads(m) PROVE Carrier(w)'
    OBVIOUS
  <2>1. Leads(m)' BY <1>3, StillSame
  <2>2. CASE to = "claiming" /\ IsHistory(m) BY <2>2 DEF IsHistory, Leads, Paged
  <2>3. CASE to = "analysing" /\ IsPage(m)
    BY <1>3, <1>5, <1>6, <1>7, <2>3 DEF Carrier, IsPage, Paged, Still
  <2>4. CASE to = "ensuring" /\ IsSetup(m)
    BY <1>3, <1>5, <1>7, <2>4 DEF Carrier, IsSetup, Still
  <2>5. CASE to = "failing"
    BY <1>5, <1>7, <2>1, <2>5 DEF Carrier, Leads, Paged
  <2> QED BY <1>1, <2>2, <2>3, <2>4, <2>5
<1>12. Wanting /\ IsSetting(m) => Setter(w)'
  <2> SUFFICES ASSUME Wanting, IsSetting(m) PROVE Setter(w)'
    OBVIOUS
  <2>1. to = "ensuring" BY <1>1 DEF IsSetting, IsHistory, IsPage, IsStored
  <2> QED BY <1>3, <1>5, <1>7, <2>1 DEF Setter, IsSetting, Still
<1>13. ~Carrier(w) /\ ~Setter(w) BY <1>2 DEF Carrier, Setter
<1>14. \A c \in Calls : CallSame(c) BY <1>2, CallsSame
<1> QED BY <1>2, <1>3, <1>7, <1>10, <1>11, <1>12, <1>13, <1>14, StillKeeps DEF Held, Setting

\* A job ends that carried nothing.
LEMMA RestCarries ==
  ASSUME CInv, IInv', Still, UNCHANGED callVars, NEW w \in Workers, Rests(w), UNCHANGED messages,
         ~(WaitsNow /\ Carrier(w)), ~(Wanting /\ Setter(w))
  PROVE  CInv'
<1>1. WorkKept(w)' /\ \A v \in Workers \ {w} : WorkSame(v) BY OneRests DEF Still
<1> QED BY <1>1, CallsSame, StillKeeps

LEMMA ClaimCarries ==
  ASSUME Few, CInv, IInv', NEW w \in Workers, Claim(w)
  PROVE  CInv'
<1> DEFINE m == work[w].message
<1>1. UNCHANGED <<head, itemVars, results, ids, losses, callVars>> /\ at[w] = "claiming"
  BY DEF Claim
<1>2. m.kind = "history" /\ work[w].scan.id # 0 /\ Fits(m) /\ m \in Payloads
  BY <1>1, WorkMessage DEF WorkKept, WorkInv, Reading
<1>3. ~Carrier(w) /\ ~Setter(w) BY <1>1 DEF Carrier, Setter
<1>4. ASSUME conn'.on = conn.on, conn'.epoch = conn.epoch PROVE Still
  BY <1>1, <1>4, Losing DEF Still, itemVars
<1>5. CASE /\ conn' = [conn EXCEPT !.token = w]
           /\ work' = [work EXCEPT ![w].start = conn.cursor]
           /\ Moves(w, "analysing") /\ UNCHANGED messages
  <2>1. Still BY <1>4, <1>5, CFacts DEF Connections
  <2>2. PICK k : k = [work[w] EXCEPT !.start = conn.cursor] OBVIOUS
  <2>3. k.message = m /\ k.scan = work[w].scan BY <2>2, WorkMessage DEF WorkRecords
  <2>4. work' = [work EXCEPT ![w] = k] BY <1>5, <2>2, CFacts
  <2>5. at'[w] = "analysing" /\ work'[w] = k /\ \A v \in Workers \ {w} : WorkSame(v)
    BY <1>5, <2>4, OneWorker
  <2>6. Fits(work[w].message)' BY <2>1, <2>3, <2>5, MessageStays, StillSame
  <2>7. WorkKept(w)' BY <1>2, <2>3, <2>5, <2>6 DEF WorkKept
  <2> QED BY <1>1, <1>3, <1>5, <2>1, <2>5, <2>7, CallsSame, StillKeeps
<1>6. CASE Retries(w) /\ conn' = conn
  <2>1. Still BY <1>4, <1>6
  <2> QED BY <1>1, <1>2, <1>3, <1>6, <2>1, RetryKeeps
<1>7. CASE Rests(w) /\ UNCHANGED <<conn, messages>>
  <2>1. Still BY <1>4, <1>7
  <2> QED BY <1>1, <1>3, <1>7, <2>1, RestCarries
<1> QED BY <1>5, <1>6, <1>7 DEF Claim

LEMMA AnalyseCarries ==
  ASSUME CInv, IInv', NEW w \in Workers, Analyse(w)
  PROVE  CInv'
<1>1. UNCHANGED <<head, tableVars, messages, ids, callVars>> /\ at[w] = "analysing"
  BY DEF Analyse
<1>2. ASSUME Loses \/ UNCHANGED losses PROVE Still
  BY <1>1, <1>2, Losing DEF Still, tableVars, itemVars
<1>3. WorkKept(w) /\ ~Setter(w) /\ \A c \in Calls : CallSame(c)
  BY <1>1, WorkMessage, CallsSame DEF Setter
<1>4. ASSUME Moves(w, "storing"), UNCHANGED losses, NEW a \in Answers(w),
             work' = [work EXCEPT ![w].mode = a.mode, ![w].upto = a.upto,
                                  ![w].last = a.last, ![w].mails = a.mails]
      PROVE  CInv'
  <2>1. Still BY <1>2, <1>4
  <2>2. PICK k : k = [work[w] EXCEPT !.mode = a.mode, !.upto = a.upto, !.last = a.last,
                                     !.mails = a.mails]
    OBVIOUS
  <2>3. /\ k.message = work[w].message /\ k.scan = work[w].scan /\ k.version = work[w].version
        /\ k.epoch = work[w].epoch
    BY <2>2, WorkMessage DEF WorkRecords
  <2>4. work' = [work EXCEPT ![w] = k] BY <1>4, <2>2, CFacts
  <2>5. at'[w] = "storing" /\ work'[w] = k /\ \A v \in Workers \ {w} : WorkSame(v)
    BY <1>4, <2>4, OneWorker
  <2>6. Fits(work[w].message)' BY <2>1, <2>3, <2>5, MessageStays, StillSame
  <2>7. WorkKept(w)' BY <1>1, <1>3, <2>3, <2>5, <2>6 DEF WorkKept
  <2>8. Carrier(w) => Carrier(w)' BY <1>1, <2>1, <2>3, <2>5 DEF Carrier, Still, Paged
  <2> QED BY <1>1, <1>3, <2>1, <2>5, <2>7, <2>8, StillKeeps DEF Held
<1>5. CASE Loses /\ Moves(w, "failing") /\ UNCHANGED work
  <2>1. Still /\ losses' > 0 /\ losses' = losses + 1 /\ losses' \in Nat BY <1>2, <1>5, Losing
  <2>2. at'[w] = "failing" /\ work'[w] = work[w] /\ \A v \in Workers \ {w} : WorkSame(v)
    BY <1>5, CFacts DEF Moves, WorkSame
  <2>3. Fits(work[w].message)' BY <2>1, <2>2, MessageStays, StillSame
  <2>4. work[w].message.kind # "history" => work[w].message.left + losses' > MaxReceives
    BY <2>1, WorkMessage, CFacts DEF Fits, Enough
  <2>5. WorkKept(w)' BY <1>1, <1>3, <2>1, <2>2, <2>3, <2>4 DEF WorkKept
  <2>6. Carrier(w) => Carrier(w)' BY <1>1, <2>1, <2>2 DEF Carrier, Leads, Still, Paged
  <2> QED BY <1>1, <1>3, <2>1, <2>2, <2>5, <2>6, StillKeeps DEF Held
<1> QED BY <1>4, <1>5 DEF Analyse

\* A page that is stored and not the last has its next one, which its worker sends.
LEMMA StoreCarries ==
  ASSUME CInv, IInv', NEW w \in Workers, Store(w)
  PROVE  CInv'
<1> DEFINE m == work[w].message
           done == work[w].last \/ m.kind = "history"
<1>1. /\ UNCHANGED <<head, profile, messages, ids, losses, callVars>> /\ at[w] = "storing"
      /\ \A c \in Calls : CallSame(c)
  BY CallsSame DEF Store
<1>2. WorkKept(w) /\ ~Setter(w) BY <1>1, WorkMessage DEF Setter
<1>3. CASE ~Storable(w)
  <2>1. Rests(w) /\ conn' = Released(w) /\ UNCHANGED <<results, scan>> BY <1>3 DEF Store
  <2>2. SameConn BY <2>1, ReleasedShape DEF CInv
  <2>3. Still BY <1>1, <2>1, <2>2, Losing DEF Still, SameConn
  <2>4. ~(WaitsNow /\ Carrier(w))
    <3> SUFFICES ASSUME WaitsNow, Carrier(w) PROVE Storable(w)
      BY <1>3
    <3>1. /\ conn.on /\ scan.epoch = conn.epoch /\ scan.version = profile.version
      BY DEF WaitsNow, Waits, OfConnection
    <3>2. Paged(m) /\ m.id = scan.id /\ work[w].scan.step = scan.step /\ work[w].epoch = conn.epoch
      BY <1>1 DEF Carrier
    <3>3. m.kind # "history" BY <3>2 DEF Paged
    <3>4. m.id = work[w].scan.id /\ m.version = work[w].version
      BY <1>1, <1>2, <3>3 DEF WorkKept
    <3>5. m.version = scan.version BY <3>2, WorkMessage DEF Placed
    <3> QED BY <3>1, <3>2, <3>3, <3>4, <3>5 DEF Storable, Generation, Claimed
  <2> QED BY <1>1, <1>2, <2>1, <2>3, <2>4, RestCarries
<1>4. CASE Storable(w)
  <2>1. /\ scan' = [scan EXCEPT !.status = IF done THEN "READY" ELSE "PENDING", !.completed = done,
                                !.step = @ + 1, !.next = NextWork(w)]
        /\ conn' = [conn EXCEPT !.cursor = CursorAfter(w),
                                !.token = IF MovesCursor(w) THEN None ELSE @]
        /\ IF NextWork(w) = None THEN Rests(w)
           ELSE Moves(w, "forwarding") /\ work' = [work EXCEPT ![w].next = NextWork(w)]
    BY <1>4 DEF Store
  <2>2. /\ scan.id = work[w].scan.id /\ scan.step = work[w].scan.step /\ scan.epoch = conn.epoch
        /\ conn.on /\ profile.version = work[w].version /\ scan.id # 0
    BY <1>1, <1>2, <1>4 DEF Storable, Generation, WorkKept
  <2>3. /\ scan'.status = (IF done THEN "READY" ELSE "PENDING") /\ scan'.completed = done
        /\ scan'.step = scan.step + 1 /\ scan'.next = NextWork(w) /\ scan'.id = scan.id
        /\ scan'.version = scan.version /\ scan'.epoch = scan.epoch
    BY <2>1, CFacts DEF Scans
  <2>4. conn'.on = conn.on /\ conn'.epoch = conn.epoch BY <2>1, CFacts DEF Connections
  <2>5. Grows BY <1>1, <2>3, <2>4, CFacts DEF Grows, SameName
  <2>6. PICK n : n = NextWork(w) OBVIOUS
  <2>7. n = None \/ n \in Payloads BY <2>6, NextWorkTyped DEF CInv
  <2>8. CASE done
    <3>1. n = None \/ n.kind = "history" BY <2>6, <2>8 DEF NextWork, History, Message
    <3>2. Kept' BY <1>1, <2>2, <2>3, <2>4, <2>6, <2>8, <3>1 DEF CInv, Kept
    <3>3. Asked' /\ Carried'
      BY <2>2, <2>3, <2>4, <2>8 DEF Asked, Wanting, OfConnection, Carried, WaitsNow, Waits
    <3>4. CASE n = None
      <4>1. Rests(w) BY <2>1, <2>6, <3>4
      <4>2. WorkKept(w)' /\ \A v \in Workers \ {w} : WorkSame(v)
        BY <1>1, <4>1, CFacts, OneRests
      <4> QED BY <1>1, <2>5, <3>2, <3>3, <4>2, CAssembled DEF CallSame, WorkSame
    <3>5. CASE n # None
      <4>1. PICK k : k = [work[w] EXCEPT !.next = n] OBVIOUS
      <4>2. k.message = m /\ k.scan = work[w].scan /\ k.next = n BY <4>1, WorkMessage DEF WorkRecords
      <4>3. Moves(w, "forwarding") /\ work' = [work EXCEPT ![w] = k] BY <2>1, <2>6, <3>5, <4>1, CFacts
      <4>4. at'[w] = "forwarding" /\ work'[w] = k /\ \A v \in Workers \ {w} : WorkSame(v)
        BY <4>3, OneWorker
      <4>5. Fits(work[w].message)' BY <2>5, <4>2, <4>4, MessageStays
      <4>6. Fits(work[w].next)' BY <3>1, <3>5, <4>2, <4>4 DEF Fits, Placed, Enough, Paged
      <4>7. WorkKept(w)' BY <2>2, <4>2, <4>4, <4>5, <4>6 DEF WorkKept
      <4> QED BY <1>1, <2>5, <3>2, <3>3, <4>4, <4>7, CAssembled DEF CallSame, WorkSame
    <3> QED BY <3>4, <3>5
  <2>9. CASE ~done
    <3>1. m.kind # "history" /\ Paged(m) /\ m.id = scan.id /\ m.step = scan.step
          /\ m.version = scan.version
      BY <1>1, <1>2, <2>2, <2>9 DEF WorkKept, CInv, Kept
    <3>2. n = Message("continuation", scan.id, scan.version, scan.step + 1, 0)
      BY <2>6, <2>9, <3>1 DEF NextWork
    <3>3. /\ n.kind = "continuation" /\ n.id = scan.id /\ n.version = scan.version
          /\ n.step = scan.step + 1 /\ n.left = MaxReceives
      BY <3>2 DEF Message
    <3>4. scan.id \in Nat /\ scan.version \in Nat /\ scan.step + 1 \in Nat BY CFacts
    <3>5. n \in Payloads BY <3>2, <3>4, MessageTyped DEF Kinds
    <3>6. n # None BY <3>5, NoneAssumption
    <3>7. Kept'
      <4>1. scan'.next = Message("continuation", scan'.id, scan'.version, scan'.step, 0)
        BY <2>3, <2>6, <3>2
      <4>2. scan'.next # None /\ scan'.next.kind = "continuation" BY <2>3, <2>6, <3>3, <3>6
      <4>3. scan'.version = profile'.version BY <1>1, <2>3 DEF CInv, Kept
      <4> QED BY <1>1, <2>2, <2>3, <2>4, <2>9, <4>1, <4>2, <4>3 DEF CInv, Kept
    <3>8. Asked' BY <2>2, <2>3, <2>4, <2>9 DEF Asked, Wanting, OfConnection
    <3>9. PICK k : k = [work[w] EXCEPT !.next = n] OBVIOUS
    <3>10. k.message = m /\ k.scan = work[w].scan /\ k.next = n BY <3>9, WorkMessage DEF WorkRecords
    <3>11. Moves(w, "forwarding") /\ work' = [work EXCEPT ![w] = k]
      BY <2>1, <2>6, <3>6, <3>9, CFacts
    <3>12. at'[w] = "forwarding" /\ work'[w] = k /\ \A v \in Workers \ {w} : WorkSame(v)
      BY <3>11, OneWorker
    <3>13. Fits(work[w].message)' BY <2>5, <3>10, <3>12, MessageStays
    <3>14. Fits(work[w].next)'
      BY <1>1, <2>2, <2>3, <3>3, <3>10, <3>12, CFacts DEF Fits, Placed, Enough, Paged
    <3>15. WorkKept(w)' BY <2>2, <3>10, <3>12, <3>13, <3>14 DEF WorkKept
    <3>16. Carrier(w)' BY <2>3, <3>1, <3>3, <3>10, <3>12 DEF Carrier, Leads, Paged
    <3> QED BY <1>1, <2>5, <3>7, <3>8, <3>12, <3>15, <3>16, CAssembled
            DEF Carried, Held, CallSame, WorkSame
  <2> QED BY <2>8, <2>9
<1> QED BY <1>3, <1>4

\* Who carries the scan and fails or dies has a message that comes back to it.
LEMMA LoserLeads ==
  ASSUME CInv, NEW w \in Workers, Loses
  PROVE  /\ Carrier(w) => Leads(work[w].message)
         /\ work[w].message.kind # "history" => work[w].message.left + losses' > MaxReceives
<1>1. losses' = losses + 1 /\ losses < MaxLosses BY DEF Loses
<1>2. WorkKept(w) /\ Fits(work[w].message) /\ work[w].message.left \in Nat BY WorkMessage
<1>3. Carrier(w) => Leads(work[w].message) BY <1>1, <1>2, CFacts DEF Carrier, Leads, WorkKept
<1>4. work[w].message.kind # "history" => work[w].message.left + losses' > MaxReceives
  BY <1>1, <1>2, CFacts DEF Fits, Enough
<1> QED BY <1>3, <1>4

LEMMA SendNextCarries ==
  ASSUME Few, CInv, IInv', NEW w \in Workers, SendNext(w)
  PROVE  CInv'
<1>1. UNCHANGED <<head, tableVars, ids, callVars>> /\ at[w] = "forwarding" BY DEF SendNext
<1>2. ASSUME Loses \/ UNCHANGED losses PROVE Still
  BY <1>1, <1>2, Losing DEF Still, tableVars, itemVars
<1>3. WorkKept(w) /\ ~Setter(w) /\ (\A c \in Calls : CallSame(c)) /\ work[w].next \in Payloads
  BY <1>1, WorkMessage, CallsSame DEF Setter, WorkInv
<1>4. CASE messages' = messages \cup {work[w].next} /\ Rests(w) /\ UNCHANGED losses
  <2>1. Still BY <1>2, <1>4
  <2>2. PICK n \in Payloads : n = work[w].next BY <1>3
  <2>3. Fits(n)' BY <1>1, <1>3, <2>1, <2>2, StillFits DEF WorkKept
  <2>4. WaitsNow /\ Carrier(w) => Held'
    <3> SUFFICES ASSUME Carrier(w) PROVE Held'
      OBVIOUS
    <3>1. Leads(n) BY <1>1, <2>2 DEF Carrier, Leads
    <3>2. Leads(n)' BY <2>1, <3>1, StillSame
    <3> QED BY <1>4, <2>2, <3>2 DEF Held
  <2>5. WorkKept(w)' /\ \A v \in Workers \ {w} : WorkSame(v) BY <1>4, <2>1, OneRests DEF Still
  <2> QED BY <1>3, <1>4, <2>1, <2>2, <2>3, <2>4, <2>5, StillKeeps
<1>5. CASE Loses /\ Retries(w)
  <2>1. Still BY <1>2, <1>5
  <2> QED BY <1>1, <1>5, <2>1, LoserLeads, RetryKeeps
<1>6. CASE Loses /\ Moves(w, "failing") /\ UNCHANGED <<messages, work>>
  <2>1. Still /\ losses' > 0 BY <1>2, <1>6, Losing
  <2>2. at'[w] = "failing" /\ work'[w] = work[w] /\ \A v \in Workers \ {w} : WorkSame(v)
    BY <1>6, CFacts DEF Moves, WorkSame
  <2>3. Fits(work[w].message)' BY <2>1, <2>2, MessageStays, StillSame
  <2>4. WorkKept(w)' BY <1>1, <1>3, <1>6, <2>1, <2>2, <2>3, LoserLeads DEF WorkKept
  <2>5. Carrier(w) => Carrier(w)'
    BY <1>6, <2>1, <2>2, LoserLeads DEF Carrier, Leads, Still, Paged
  <2> QED BY <1>3, <1>6, <2>1, <2>2, <2>4, <2>5, StillKeeps DEF Held
<1> QED BY <1>4, <1>5, <1>6 DEF SendNext

LEMMA WorkerDiesCarries ==
  ASSUME Few, CInv, IInv', NEW w \in Workers, WorkerDies(w)
  PROVE  CInv'
<1>1. UNCHANGED <<head, tableVars, ids, callVars>> /\ Loses /\ Retries(w) BY DEF WorkerDies
<1>2. Still BY <1>1, Losing DEF Still, tableVars, itemVars
<1> QED BY <1>1, <1>2, LoserLeads, RetryKeeps

\* A job that failed has had its loss: its message comes back in any case.
LEMMA ReadFailedCarries ==
  ASSUME Few, CInv, IInv', NEW w \in Workers, ReadFailed(w)
  PROVE  CInv'
<1>1. /\ UNCHANGED <<head, itemVars, results, ids, losses, callVars>> /\ at[w] = "failing"
      /\ conn' = Released(w)
  BY DEF ReadFailed
<1>2. SameConn BY <1>1, ReleasedShape DEF CInv
<1>3. Still BY <1>1, <1>2, Losing DEF Still, SameConn, itemVars
<1>4. WorkKept(w) /\ ~Setter(w) /\ \A c \in Calls : CallSame(c)
  BY <1>1, WorkMessage, CallsSame DEF Setter
<1>5. losses > 0 /\ (work[w].message.kind # "history" => work[w].message.left + losses > MaxReceives)
  BY <1>1, <1>4 DEF WorkKept
<1>6. Carrier(w) => Leads(work[w].message) BY <1>1 DEF Carrier
<1>7. CASE /\ Moves(w, "recording") /\ work' = [work EXCEPT ![w].scan = scan] /\ UNCHANGED messages
           /\ scan.id = work[w].scan.id
  <2>1. PICK k : k = [work[w] EXCEPT !.scan = scan] OBVIOUS
  <2>2. k.message = work[w].message /\ k.scan = scan BY <2>1, WorkMessage DEF WorkRecords
  <2>3. work' = [work EXCEPT ![w] = k] BY <1>7, <2>1, CFacts
  <2>4. at'[w] = "recording" /\ work'[w] = k /\ \A v \in Workers \ {w} : WorkSame(v)
    BY <1>7, <2>3, OneWorker
  <2>5. Fits(work[w].message)' BY <1>3, <2>2, <2>4, MessageStays, StillSame
  <2>6. WorkKept(w)'
    BY <1>1, <1>3, <1>4, <1>5, <1>7, <2>2, <2>4, <2>5, CFacts DEF WorkKept, Still
  <2>7. Carrier(w) => Carrier(w)' BY <1>3, <1>6, <2>2, <2>4 DEF Carrier, Leads, Still, Paged
  <2> QED BY <1>3, <1>4, <1>7, <2>4, <2>6, <2>7, StillKeeps DEF Held
<1>8. CASE Retries(w)
  BY <1>1, <1>3, <1>5, <1>6, <1>8, RetryKeeps
<1> QED BY <1>7, <1>8 DEF ReadFailed

LEMMA RecordFailureCarries ==
  ASSUME Few, CInv, IInv', NEW w \in Workers, RecordFailure(w)
  PROVE  CInv'
<1>1. /\ UNCHANGED <<head, conn, profile, results, ids, losses, callVars>> /\ Retries(w)
      /\ at[w] = "recording" /\ \A c \in Calls : CallSame(c)
  BY CallsSame DEF RecordFailure
<1>2. /\ losses > 0 /\ work[w].scan.id # 0
      /\ work[w].message.kind # "history" => work[w].message.left + losses > MaxReceives
      /\ work[w].scan.id = scan.id => work[w].scan.version = scan.version
  BY <1>1, WorkMessage DEF WorkKept
<1>3. Carrier(w) => Leads(work[w].message) BY <1>1 DEF Carrier
<1>4. CASE ~(scan.id = work[w].scan.id /\ OfConnection(scan) /\ conn.epoch = work[w].epoch)
  <2>1. scan' = scan BY <1>4 DEF RecordFailure
  <2>2. Still BY <1>1, <2>1, Losing DEF Still
  <2> QED BY <1>1, <1>2, <1>3, <2>2, RetryKeeps
<1>5. CASE scan.id = work[w].scan.id /\ OfConnection(scan) /\ conn.epoch = work[w].epoch
  <2>1. scan' = [scan EXCEPT !.status = "ERROR", !.version = work[w].scan.version,
                             !.completed = work[w].scan.completed]
    BY <1>5 DEF RecordFailure
  <2>2. /\ scan'.status = "ERROR" /\ scan'.id = scan.id /\ scan'.version = scan.version
        /\ scan'.step = scan.step /\ scan'.next = scan.next
    BY <1>2, <1>5, <2>1, CFacts DEF Scans
  <2>3. Grows /\ ItemsTyped' /\ ConnTyped' /\ losses' <= MaxLosses
    BY <1>1, <2>2, CFacts, Losing DEF Grows, SameName, IInv, Typed
  <2>4. \A n \in Returned(work[w].message) : Fits(n)'
    <3>1. PICK m \in Payloads : m = work[w].message /\ Placed(m) BY WorkMessage
    <3>2. m.kind # "history" => m.left + losses' > MaxReceives BY <1>1, <1>2, <3>1
    <3> QED BY <2>3, <3>1, <3>2, Back
  <2>5. \A n \in messages' : n \in messages \/ Fits(n)' BY <1>1, <2>4 DEF Retries
  <2>6. WorkKept(w)' /\ \A v \in Workers \ {w} : WorkSame(v)
    BY <1>1, CFacts, OneRests DEF Retries
  <2> QED BY <1>1, <1>2, <1>5, <2>2, <2>5, <2>6, FailsCarries
<1> QED BY <1>4, <1>5

\* The setup's job has the scan's first message to send.
LEMMA EnsuredKept ==
  ASSUME CInv, IInv', Grows, NEW w \in Workers, Moves(w, "forwarding"),
         work' = [work EXCEPT ![w].next = Message("scan", scan'.id, profile.version, 0, 0),
                              ![w].scan = Identity(scan')],
         scan'.id # 0, scan'.id <= ids', scan'.version = profile.version
  PROVE  /\ at'[w] = "forwarding" /\ work'[w].message = work[w].message
         /\ work'[w].next.kind = "scan" /\ work'[w].next.id = scan'.id
         /\ WorkKept(w)' /\ \A v \in Workers \ {w} : WorkSame(v)
<1>1. PICK m, s : m = Message("scan", scan'.id, profile.version, 0, 0) /\ s = Identity(scan') OBVIOUS
<1>2. PICK k : k = [work[w] EXCEPT !.next = m, !.scan = s] OBVIOUS
<1>3. work' = [work EXCEPT ![w] = k] BY <1>1, <1>2, CFacts
<1>4. k.message = work[w].message /\ k.next = m /\ k.scan = s BY <1>2, WorkMessage DEF WorkRecords
<1>5. at'[w] = "forwarding" /\ work'[w] = k /\ \A v \in Workers \ {w} : WorkSame(v)
  BY <1>3, OneWorker
<1>6. scan' \in Scans /\ scan'.step \in Nat BY DEF IInv, Typed, ItemsTyped, Scans
<1>7. s.id = scan'.id BY <1>1, <1>6, IdentityTyped
<1>8. /\ m.kind = "scan" /\ m.id = scan'.id /\ m.version = profile.version /\ m.step = 0
      /\ m.left = MaxReceives
  BY <1>1 DEF Message
<1>9. Fits(work[w].message)' BY <1>4, <1>5, MessageStays
<1>10. Enough(m)' BY <1>8, FreshEnough DEF Grows
<1>11. Placed(m)' BY <1>6, <1>8 DEF Placed, Paged
<1>12. work'[w].next = m BY <1>4, <1>5
<1>13. Fits(work[w].next)' BY <1>10, <1>11, <1>12 DEF Fits, Placed, Enough, Paged
<1>14. WorkKept(w)' BY <1>4, <1>5, <1>7, <1>9, <1>13 DEF WorkKept
<1> QED BY <1>4, <1>5, <1>8, <1>14

\* An earlier connection's setup names a scan only after a failure, or while the present
\* one's is still to come; otherwise the setup is of this connection.
LEMMA EnsureScanCarries ==
  ASSUME Few, CInv, IInv', NEW w \in Workers, EnsureScan(w)
  PROVE  CInv'
<1> DEFINE m == work[w].message
           Forwards == /\ Moves(w, "forwarding")
                       /\ work' = [work EXCEPT
                            ![w].next = Message("scan", scan'.id, profile.version, 0, 0),
                            ![w].scan = Identity(scan')]
<1>1. /\ UNCHANGED <<head, conn, profile, results, messages, losses, callVars>> /\ at[w] = "ensuring"
      /\ \A c \in Calls : CallSame(c)
  BY CallsSame DEF EnsureScan
<1>2. m.kind = "setup" /\ m.id \in 1 .. conn.epoch BY <1>1, WorkMessage DEF WorkKept, Placed
<1>3. CASE /\ conn.on /\ profile.configured /\ OfConnection(scan) /\ scan.status = "PENDING"
           /\ UNCHANGED <<scan, ids>> /\ Forwards
  <2>1. Still BY <1>1, <1>3, Losing DEF Still
  <2>2. scan'.id # 0 /\ scan'.id <= ids' /\ scan'.version = profile.version
    BY <1>3, CFacts DEF CInv, Kept
  <2>3. /\ at'[w] = "forwarding" /\ work'[w].message = m /\ work'[w].next.kind = "scan"
        /\ work'[w].next.id = scan'.id /\ WorkKept(w)' /\ \A v \in Workers \ {w} : WorkSame(v)
    BY <1>3, <2>1, <2>2, StillSame, EnsuredKept
  <2>4. Carrier(w) => Carrier(w)' BY <1>1, <1>2, <2>3 DEF Carrier, Leads, Paged
  <2>5. ~Wanting BY <1>3 DEF Wanting
  <2> QED BY <1>1, <2>1, <2>3, <2>4, <2>5, StillKeeps DEF Held
<1>4. CASE /\ conn.on /\ profile.configured
           /\ ~(OfConnection(scan) /\ scan.status \in {"PENDING", "READY"})
           /\ ids' = ids + 1 /\ scan' = NewScan(ids + 1) /\ Forwards
  <2>1. scan' = [status |-> "PENDING", id |-> ids + 1, version |-> profile.version,
                 completed |-> FALSE, epoch |-> conn.epoch, step |-> 0, next |-> None]
    <3>1. Typed /\ ids + 1 \in Nat BY CFacts DEF CInv, IInv
    <3> QED BY <1>4, <3>1, NewScanTyped
  <2>2. scan'.id # 0 /\ scan'.id <= ids' /\ scan'.version = profile.version
    BY <1>4, <2>1, CFacts
  <2>3. Grows BY <1>1, <1>4, <2>1, CFacts DEF Grows, OtherScan
  <2>4. /\ at'[w] = "forwarding" /\ work'[w].message = m /\ work'[w].next.kind = "scan"
        /\ work'[w].next.id = scan'.id /\ WorkKept(w)' /\ \A v \in Workers \ {w} : WorkSame(v)
    BY <1>4, <2>2, <2>3, EnsuredKept
  <2>5. Kept' BY <1>1, <2>1, <2>2 DEF CInv, Kept
  <2>6. Asked' BY <1>1, <1>4, <2>1 DEF Asked, Wanting, OfConnection
  <2>7. Held'
    <3>1. CASE m.id = conn.epoch \/ losses >= MaxLosses
      <4>1. Carrier(w)' BY <1>1, <1>2, <2>4, <3>1 DEF Carrier, Leads, Paged
      <4> QED BY <4>1 DEF Held
    <3>2. CASE m.id # conn.epoch /\ ~(losses >= MaxLosses)
      <4>1. MaxLosses <= 1
        <5>1. conn.epoch <= MaxEpochs BY DEF CInv, Kept
        <5>2. ~(MaxEpochs <= 1) BY <1>2, <3>2, <5>1, CFacts
        <5> QED BY <5>2 DEF Few
      <4>2. ~(losses > 0) BY <3>2, <4>1, CFacts
      <4>3. Setting BY <1>4, <4>2 DEF CInv, Asked, Wanting
      <4>4. CASE \E n \in messages : IsSetting(n)
        <5>1. PICK n \in messages : IsSetting(n) BY <4>4
        <5>2. Leads(n)' BY <1>1, <5>1 DEF IsSetting, Leads
        <5> QED BY <1>1, <5>1, <5>2 DEF Held
      <4>5. CASE \E v \in Workers : Setter(v)
        <5>1. PICK v \in Workers : Setter(v) BY <4>5
        <5>2. v # w BY <3>2, <5>1 DEF Setter
        <5>3. Carrier(v)' BY <1>1, <2>4, <5>1, <5>2 DEF Setter, Carrier, WorkSame
        <5> QED BY <5>3 DEF Held
      <4> QED BY <4>3, <4>4, <4>5 DEF Setting
    <3> QED BY <3>1, <3>2
  <2> QED BY <1>1, <2>3, <2>4, <2>5, <2>6, <2>7, CAssembled DEF Carried, CallSame, WorkSame
<1>5. CASE /\ ~(conn.on /\ profile.configured /\ ~(OfConnection(scan) /\ scan.status = "READY"))
           /\ Rests(w) /\ UNCHANGED <<scan, ids>>
  <2>1. Still BY <1>1, <1>5, Losing DEF Still
  <2>2. ~WaitsNow /\ ~Wanting BY <1>5 DEF WaitsNow, Waits, OfConnection, Wanting
  <2> QED BY <1>1, <1>5, <2>1, <2>2, RestCarries
<1> QED BY <1>3, <1>4, <1>5 DEF EnsureScan

----------------------------------------------------------------------------
LEMMA InitCarries == Init => CInv
<1> SUFFICES ASSUME Init PROVE CInv
  OBVIOUS
<1>1. Kept BY ScanAssumption DEF Init, Kept, EmptyScan
<1>2. Asked /\ Carried BY DEF Init, Asked, Wanting, Carried, WaitsNow
<1>3. Fits(NoMessage)
  BY ScanAssumption DEF Init, Fits, Placed, Enough, Paged, NoMessage, Message
<1>4. \A w \in Workers : WorkKept(w) BY <1>3 DEF Init, WorkKept, NoWork
<1>5. \A c \in Calls : CallKept(c) BY DEF Init, CallKept
<1> QED BY <1>1, <1>2, <1>4, <1>5, InitEstablishes DEF Init, CInv

\* Every step carries a scan that waits.
LEMMA StepCarries == Few /\ CInv /\ [Next]_vars => CInv'
<1> SUFFICES ASSUME Few, CInv, [Next]_vars PROVE CInv'
  OBVIOUS
<1>1. IInv' BY StepPreserves DEF CInv
<1>2. CASE MailArrives \/ Notify \/ Disconnect \/ Connect \/ ClaimExpires
  BY <1>1, <1>2, OutsideCarries
<1>3. ASSUME NEW c \in Calls,
             RequestAgain(c) \/ RequestResume(c) \/ RequestScan(c) \/ SaveProfile(c)
               \/ BeginResults(c) \/ CallStep(c)
      PROVE  CInv'
  BY <1>1, <1>3, RequestCarries, SaveProfileCarries, DispatchCarries, FailRequestCarries,
     ResultsCarry DEF CallStep
<1>4. ASSUME NEW w \in Workers, Works(w) \/ WorkerDies(w) PROVE CInv'
  BY <1>1, <1>4, TakeCarries, ClaimCarries, AnalyseCarries, StoreCarries, SendNextCarries,
     ReadFailedCarries, RecordFailureCarries, EnsureScanCarries, WorkerDiesCarries
  DEF Works, WorkerStep
<1>5. ASSUME NEW m \in messages, Replay(m) \/ Drop(m) PROVE CInv'
  BY <1>1, <1>5, MessageCarries
<1>6. CASE UNCHANGED vars
  <2>1. Still BY <1>6, Losing DEF Still, vars, tableVars, itemVars
  <2>2. (\A c \in Calls : CallSame(c)) /\ \A w \in Workers : WorkSame(w)
    BY <1>6 DEF vars, callVars, workVars, CallSame, WorkSame
  <2> QED BY <1>1, <1>6, <2>1, <2>2, StillKeeps DEF vars
<1> QED BY <1>2, <1>3, <1>4, <1>5, <1>6 DEF Next

\* A scan that waits is carried by a message, a worker or a call: no message of it is lost
\* while fewer calls fail and workers die than a message has receives.  A setup of an earlier
\* connection can still name a scan of this one, and no message of its own leads back to
\* that; so there is one connection, or at most one failure.
THEOREM WaitingCarried ==
  ASSUME MaxLosses < MaxReceives, MaxEpochs <= 1 \/ MaxLosses <= 1
  PROVE  Spec => []WaitingIsCarried
<1>1. Few BY DEF Few
<1>2. Init => CInv BY InitCarries
<1>3. CInv /\ [Next]_vars => CInv' BY <1>1, StepCarries
<1>4. CInv => WaitingIsCarried
  <2> SUFFICES ASSUME CInv, Waits(scan), profile.configured
               PROVE  \/ \E m \in messages : Carries(m)
                      \/ \E w \in Workers : \/ Carries(work[w].message)
                                            \/ at[w] = "forwarding" /\ Carries(work[w].next)
                      \/ \E c \in Calls : pc[c] \in {"dispatching", "refused"}
    BY DEF WaitingIsCarried
  <2>1. scan.epoch = conn.epoch BY DEF Waits, OfConnection
  <2>2. \A m : Leads(m) => Carries(m) BY <2>1 DEF Leads, Carries, Paged
  <2>3. ASSUME NEW w \in Workers, Carrier(w)
        PROVE  Carries(work[w].message) \/ (at[w] = "forwarding" /\ Carries(work[w].next))
    <3>1. at[w] = "ensuring" => work[w].message.kind = "setup" BY WorkMessage DEF WorkKept
    <3> QED BY <2>1, <2>2, <2>3, <3>1 DEF Carrier, Carries, Paged
  <2>4. \A c \in Calls : Caller(c) => pc[c] \in {"dispatching", "refused"} BY DEF Caller
  <2>5. Held BY DEF CInv, Carried, WaitsNow
  <2> QED BY <2>2, <2>3, <2>4, <2>5 DEF Held
<1> QED BY <1>2, <1>3, <1>4, PTL DEF Spec
=============================================================================
