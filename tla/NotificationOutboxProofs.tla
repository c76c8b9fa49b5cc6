----------------------- MODULE NotificationOutboxProofs -----------------------
(***************************************************************************)
(* The outbox for every number of dispatchers, messages, devices and       *)
(* registry calls.  The arguments: an event is claimed once, for PENDING   *)
(* never comes back, so one dispatcher at most ever sends; it goes through *)
(* its list once, and its counts are all the answers there are while no    *)
(* outcome of its own is stored.  Whatever it does to the registry is a    *)
(* step of the registry, whose invariant carries over.                     *)
(***************************************************************************)
EXTENDS NotificationOutbox, PushRegistryProofs

Dispatching == {"listing", "choosing", "permitting", "sending", "disabling"}
HasRecord == {"permitting", "sending", "disabling"}
Places == Dispatching \cup {"idle", "inspecting", "claiming", "suppressing", "busy", "interrupting"}
WorkRecords ==
  [message : Wakes \cup {NoMessage}, lease : Nat, todo : SUBSET Devices,
   device : Devices \cup {None}, rec : DeviceRecords, counts : SUBSET Outcomes]

OutboxTyped == TypeOK /\ at \in [Dispatchers -> Places]

\* The claim is made once: one dispatcher sends.
Single ==
  \A x, y \in Dispatchers : at[x] \in Dispatching /\ at[y] \in Dispatching => x = y

\* Before the claim nothing is sent.
Unclaimed ==
  event.status = "PENDING" =>
    /\ \A x \in Dispatchers : at[x] \notin Dispatching
    /\ answers = {} /\ \A d \in Devices : pushed[d] = 0

\* An outcome that says what was sent ended the sending.
Concluded ==
  event.status \in {"ACCEPTED", "REJECTED", "SUPPRESSED"} =>
    \A x \in Dispatchers : at[x] \notin Dispatching

\* Only a claimed event is leased.
Leasing == event.leased => event.status = "SENDING"

\* The sender has counted every answer, the others none.
Counting(x) == work[x].counts = IF at[x] \in Dispatching THEN answers ELSE {}

\* What the sender has still to send was never sent.
Unsent(x) ==
  /\ at[x] = "listing" => \A d \in Devices : pushed[d] = 0
  /\ at[x] \in Dispatching => \A d \in work[x].todo : pushed[d] = 0
  /\ at[x] \in {"permitting", "sending"} =>
       pushed[work[x].device] = 0 /\ work[x].device \notin work[x].todo

\* A device record that still has the id which was read has the token that was read.
RecordRead(x) ==
  at[x] \in HasRecord =>
    LET d == work[x].device
        rec == work[x].rec
    IN /\ d \in Devices /\ rec.id # 0 /\ rec.id <= generation /\ rec.token \in Tokens
       /\ device[Owner][d].id = rec.id => device[Owner][d].token = rec.token

Sending ==
  /\ Single /\ Unclaimed /\ Concluded /\ Leasing /\ OneSendPerDevice /\ OutcomeIsHonest
  /\ \A x \in Dispatchers : Counting(x) /\ Unsent(x)
OInv ==
  /\ IInv /\ OutboxTyped /\ Sending
  /\ \A x \in Dispatchers : RecordRead(x)

----------------------------------------------------------------------------
LEMMA OutboxInit == Init => OInv
<1> SUFFICES ASSUME Init PROVE OInv
  OBVIOUS
<1>1. IInv BY InitEstablishes DEF Init
<1>2. NoDevice \in DeviceRecords BY DEF NoDevice, DeviceRecords
<1>3. OutboxTyped
  BY <1>1, <1>2, OutboxAssumption
  DEF Init, OutboxTyped, TypeOK, IInv, TypeInv, Unfinished, NoWork, Places, Wakes
<1>4. Sending
  BY DEF Init, Sending, Single, Unclaimed, Concluded, Leasing, OneSendPerDevice,
         OutcomeIsHonest, Counting, Unsent, Dispatching, NoWork
<1> QED BY <1>1, <1>3, <1>4 DEF OInv, Init, RecordRead, HasRecord

(***************************************************************************)
(* The dispatchers and the registry.                                       *)
(***************************************************************************)
\* A disabling that takes effect is that of the device that is gone; otherwise the
\* record was disabled before, or is another one.
LEMMA DisableIsGone ==
  ASSUME OInv, NEW x \in Dispatchers, DisableDevice(x)
  PROVE  [PushNext]_pushVars
<1> DEFINE d == work[x].device
           rec == work[x].rec
           now == device[Owner][d]
<1>1. /\ d \in Devices /\ rec.token \in Tokens /\ rec.id # 0 /\ Owner \in Users
      /\ now.id = rec.id => now.token = rec.token
  BY OutboxAssumption DEF OInv, RecordRead, HasRecord, DisableDevice
<1>2. /\ device \in [Users -> [Devices -> DeviceRecords]] /\ binding \in [Tokens -> Bindings]
      /\ BindingHasDevice
  BY DEF OInv, IInv, TypeInv, PushTypeOK
<1>3. Disable(Owner, d, rec) /\ UNCHANGED calls
  BY DEF DisableDevice
<1>4. CASE UNCHANGED records
  BY <1>3, <1>4 DEF pushVars
<1>5. CASE /\ now.id = rec.id /\ Matches(binding[rec.token], Owner, d, rec) /\ now.enabled
  <2>1. now.id = rec.id /\ now.token = rec.token BY <1>1, <1>5
  <2>2. Disable(Owner, d, now) BY <1>3, <2>1 DEF Disable, Matches
  <2>3. DeviceGone(Owner, d) BY <1>3, <1>5, <2>2 DEF DeviceGone
  <2> QED BY <1>1, <2>3 DEF PushNext
<1>6. CASE /\ now.id = rec.id /\ Matches(binding[rec.token], Owner, d, rec) /\ ~now.enabled
           /\ device' = [device EXCEPT ![Owner][d].enabled = FALSE]
           /\ binding' = [binding EXCEPT ![rec.token].enabled = FALSE]
           /\ UNCHANGED <<registry, generation>>
  <2> DEFINE b == binding[rec.token]
  <2>1. b.user = Owner /\ b.device = d BY <1>6 DEF Matches
  <2>2. ~b.enabled
    <3> SUFFICES ASSUME b.enabled PROVE FALSE
      OBVIOUS
    <3>1. device[b.user][b.device] = [token |-> rec.token, id |-> b.id, enabled |-> TRUE]
      BY <1>1, <1>2 DEF BindingHasDevice
    <3>2. now = [token |-> rec.token, id |-> b.id, enabled |-> TRUE]
      BY <2>1, <3>1
    <3>3. now.enabled BY <3>2
    <3> QED BY <1>6, <3>3
  <2>3. [b EXCEPT !.enabled = FALSE] = b
    <3>1. b \in Bindings BY <1>1, <1>2
    <3> HIDE DEF b
    <3> QED BY <2>2, <3>1 DEF Bindings
  <2>6. [now EXCEPT !.enabled = FALSE] = now
    <3>1. now \in DeviceRecords /\ ~now.enabled BY <1>1, <1>2, <1>6
    <3> HIDE DEF now
    <3> QED BY <3>1 DEF DeviceRecords
  <2>4. device' = device
    BY <1>1, <1>2, <1>6, <2>6
  <2>5. binding' = binding
    BY <1>1, <1>2, <1>6, <2>3
  <2> QED BY <1>3, <1>6, <2>4, <2>5 DEF pushVars, records
<1> QED BY <1>3, <1>4, <1>5, <1>6 DEF Disable

\* Every step is one of the registry, or leaves it alone.
LEMMA RegistryStep ==
  ASSUME OInv, [Next]_vars
  PROVE  [PushNext]_pushVars
<1>1. CASE RegistryChanges BY <1>1 DEF RegistryChanges
<1>2. CASE Wake \/ CaseMoves \/ LeaseExpires BY <1>2 DEF Wake, CaseMoves, LeaseExpires
<1>3. ASSUME NEW x \in Dispatchers, Receive(x) \/ DispatcherWorks(x) \/ Crash(x)
      PROVE  [PushNext]_pushVars
  BY <1>3, DisableIsGone
  DEF Receive, Open, DispatcherWorks, Inspect, Claim, Busy, List, Choose, Permit, Send,
      Suppress, Interrupt, Complete, Finish, Crash
<1>4. CASE UNCHANGED vars BY <1>4 DEF vars
<1> QED BY <1>1, <1>2, <1>3, <1>4 DEF Next

\* A step of the registry moves the items.
LEMMA StepMoves ==
  ASSUME IInv, [PushNext]_pushVars
  PROVE  RecordsMove
<1>1. CASE UNCHANGED records BY <1>1, ReadKeeps
<1>2. ASSUME NEW c \in Calls, CallStep(c), ~UNCHANGED records PROVE RecordsMove
  <2>1. pc[c] = "ready" /\ MayWrite(call[c]) /\ Written(c)
    BY <1>2 DEF CallStep, Begin, ReadRegistry, ReadDevice, ReadBindings, Write
  <2> QED BY <2>1, WriteMoves DEF IInv, CallInv
<1>3. ASSUME NEW u \in Users, NEW d \in Devices, DeviceGone(u, d) PROVE RecordsMove
  BY <1>3, GoneMoves DEF IInv
<1> QED BY <1>1, <1>2, <1>3 DEF PushNext, pushVars

\* What a dispatcher that does not move has read stays true of the items.
LEMMA RecordStays ==
  ASSUME OInv, IInv', RecordsMove, NEW x \in Dispatchers, RecordRead(x),
         at'[x] \in HasRecord => at[x] \in HasRecord,
         work'[x].device = work[x].device, work'[x].rec = work[x].rec
  PROVE  RecordRead(x)'
<1> SUFFICES ASSUME at'[x] \in HasRecord PROVE RecordRead(x)'
  BY DEF RecordRead
<1> DEFINE d == work[x].device
           rec == work[x].rec
<1>1. /\ d \in Devices /\ rec.id # 0 /\ rec.id <= generation /\ rec.token \in Tokens
      /\ device[Owner][d].id = rec.id => device[Owner][d].token = rec.token
  BY DEF RecordRead
<1>2. DeviceMoves(Owner, d) /\ generation' \in {generation, generation + 1}
  BY <1>1, OutboxAssumption DEF RecordsMove
<1>3. generation \in Nat /\ rec.id \in Nat
  BY DEF OInv, IInv, TypeInv, OutboxTyped, TypeOK, PushTypeOK, DeviceRecords
<1>4. device'[Owner][d].id = rec.id => device'[Owner][d].token = rec.token
  BY <1>1, <1>2, <1>3 DEF DeviceMoves
<1> QED BY <1>1, <1>2, <1>3, <1>4 DEF RecordRead

----------------------------------------------------------------------------
(***************************************************************************)
(* The shapes of the outbox's own variables.                               *)
(***************************************************************************)
OwnTyped ==
  /\ attention \in BOOLEAN
  /\ event \in [status : Unfinished \cup Outcomes \cup {"SUPPRESSED"}, lease : Nat,
                leased : BOOLEAN]
  /\ wakes \subseteq Wakes
  /\ claims \in Nat /\ woken \in Nat /\ crashes \in Nat
  /\ work \in [Dispatchers -> WorkRecords]
  /\ pushed \in [Devices -> Nat] /\ answers \subseteq Outcomes
  /\ at \in [Dispatchers -> Places]

LEMMA OwnShapes == PushTypeOK => (OutboxTyped <=> OwnTyped)
  BY DEF OutboxTyped, TypeOK, OwnTyped, WorkRecords

LEMMA NoWorkTyped == NoWork \in WorkRecords
  BY DEF NoWork, WorkRecords, NoDevice, DeviceRecords

LEMMA WorkUpdate ==
  ASSUME work \in [Dispatchers -> WorkRecords], NEW x \in Dispatchers,
         NEW l \in WorkRecords
  PROVE  [work EXCEPT ![x] = l] \in [Dispatchers -> WorkRecords]
  OBVIOUS

\* A message that failed comes back with a receive less.
LEMMA RaisesTyped ==
  ASSUME OwnTyped, NEW x \in Dispatchers, Raises(x)
  PROVE  /\ wakes' \subseteq Wakes /\ woken' \in Nat
         /\ work' \in [Dispatchers -> WorkRecords] /\ at' \in [Dispatchers -> Places]
<1> DEFINE m == work[x].message
<1>1. m \in Wakes \cup {NoMessage} BY DEF OwnTyped, WorkRecords
<1>2. Returned(m) \subseteq Wakes
  <2>1. CASE m = NoMessage BY <2>1 DEF Returned, NoMessage
  <2>2. CASE m \in Wakes /\ m.left > 1
    <3>1. event.lease \in Nat BY DEF OwnTyped
    <3>2. m.left - 1 \in 1..MaxReceives BY <2>2, OutboxAssumption DEF Wakes
    <3>3. [m EXCEPT !.left = @ - 1, !.after = event.lease] \in Wakes
      BY <2>2, <3>1, <3>2 DEF Wakes
    <3> QED BY <2>2, <3>3 DEF Returned
  <2>3. CASE m \in Wakes /\ ~(m.left > 1) BY <2>3 DEF Returned
  <2> QED BY <1>1, <2>1, <2>2, <2>3
<1> QED BY <1>2, NoWorkTyped DEF Raises, Rests, Moves, OwnTyped, Places

LEMMA WakeTyped ==
  ASSUME OwnTyped, Wake \/ CaseMoves \/ LeaseExpires
  PROVE  OwnTyped'
<1>1. CASE Wake
  BY <1>1, OutboxAssumption DEF Wake, OwnTyped, eventVars, workVars, pushedVars, Wakes
<1>2. CASE CaseMoves BY <1>2 DEF CaseMoves, OwnTyped, eventVars, wakeVars, workVars, pushedVars
<1>3. CASE LeaseExpires
  BY <1>3 DEF LeaseExpires, OwnTyped, wakeVars, workVars, pushedVars
<1> QED BY <1>1, <1>2, <1>3

LEMMA OpenTyped ==
  ASSUME OwnTyped, NEW x \in Dispatchers, NEW m \in wakes, Open(x, m)
  PROVE  OwnTyped'
<1>1. m \in Wakes /\ wakes' \subseteq Wakes BY DEF Open, OwnTyped
<1>2. CASE UNCHANGED workVars
  BY <1>1, <1>2 DEF Open, OwnTyped, eventVars, workVars, pushedVars
<1>3. CASE /\ work' = [work EXCEPT ![x].message = m, ![x].lease = event.lease]
           /\ Moves(x, CASE event.status = "PENDING" -> "inspecting"
                         [] event.leased             -> "busy"
                         [] OTHER                    -> "interrupting")
  <2>1. [work[x] EXCEPT !.message = m, !.lease = event.lease] \in WorkRecords
    BY <1>1 DEF OwnTyped, WorkRecords
  <2>3. work' \in [Dispatchers -> WorkRecords]
    BY <1>3, <2>1, WorkUpdate DEF OwnTyped
  <2>2. at' \in [Dispatchers -> Places] BY <1>3 DEF Moves, OwnTyped, Places
  <2> QED BY <1>1, <2>2, <2>3 DEF Open, OwnTyped, eventVars, pushedVars
<1> QED BY <1>2, <1>3 DEF Open

LEMMA FinishTyped ==
  ASSUME OwnTyped, NEW x \in Dispatchers, NEW expected \in Unfinished,
         NEW outcome \in Outcomes \cup {"SUPPRESSED"}, Finish(x, expected, outcome)
  PROVE  OwnTyped'
<1>1. work' \in [Dispatchers -> WorkRecords] /\ at' \in [Dispatchers -> Places]
  BY NoWorkTyped DEF Finish, Acknowledges, Rests, Moves, OwnTyped, Places
<1> QED BY <1>1 DEF Finish, Acknowledges, OwnTyped, pushedVars

LEMMA FinalIsOutcome ==
  ASSUME NEW counts PROVE Final(counts) \in Outcomes \cup {"SUPPRESSED"}
  BY DEF Final, Outcomes

LEMMA WorksTyped ==
  ASSUME OwnTyped, PushTypeOK, NEW x \in Dispatchers, DispatcherWorks(x) \/ Crash(x)
  PROVE  OwnTyped'
<1>1. CASE Inspect(x)
  BY <1>1 DEF Inspect, Moves, OwnTyped, eventVars, wakeVars, pushedVars, Places
<1>2. CASE Claim(x)
  <2>1. CASE Claimable
    <3>3. [work[x] EXCEPT !.lease = claims + 1] \in WorkRecords
      BY DEF OwnTyped, WorkRecords
    <3>1. work' \in [Dispatchers -> WorkRecords]
      BY <1>2, <2>1, <3>3, WorkUpdate DEF Claim, OwnTyped
    <3>2. at' \in [Dispatchers -> Places]
      BY <1>2, <2>1 DEF Claim, Moves, OwnTyped, Places, Dispatching
    <3>4. /\ event' = [status |-> "SENDING", lease |-> claims + 1, leased |-> TRUE]
          /\ claims' = claims + 1 /\ UNCHANGED <<wakes, attention, woken, crashes, pushedVars>>
      BY <1>2, <2>1 DEF Claim
    <3> QED BY <3>1, <3>2, <3>4 DEF OwnTyped, Unfinished, pushedVars
  <2>2. CASE ~Claimable
    BY <1>2, <2>2, RaisesTyped DEF Claim, OwnTyped, eventVars, pushedVars
  <2> QED BY <2>1, <2>2
<1>3. CASE Busy(x) BY <1>3, RaisesTyped DEF Busy, OwnTyped, eventVars, pushedVars
<1>4. CASE List(x)
  <2>1. registry[Owner].devices \subseteq Devices
    BY OutboxAssumption DEF PushTypeOK, Registries
  <2>2. work' \in [Dispatchers -> WorkRecords] BY <1>4, <2>1 DEF List, OwnTyped, WorkRecords
  <2>3. at' \in [Dispatchers -> Places] BY <1>4 DEF List, Moves, OwnTyped, Places, Dispatching
  <2> QED BY <1>4, <2>2, <2>3 DEF List, OwnTyped, eventVars, wakeVars, pushedVars
<1>5. CASE Choose(x)
  <2> PICK d \in work[x].todo :
        /\ work' = [work EXCEPT ![x].todo = @ \ {d}, ![x].device = d, ![x].rec = device[Owner][d]]
        /\ at' = [at EXCEPT ![x] = "permitting"] \/ UNCHANGED at
    BY <1>5 DEF Choose, Moves
  <2>1. d \in Devices BY DEF OwnTyped, WorkRecords
  <2>2. device[Owner][d] \in DeviceRecords BY <2>1, OutboxAssumption DEF PushTypeOK
  <2>5. [work[x] EXCEPT !.todo = @ \ {d}, !.device = d, !.rec = device[Owner][d]] \in WorkRecords
    BY <2>1, <2>2 DEF OwnTyped, WorkRecords
  <2>3. work' \in [Dispatchers -> WorkRecords] BY <2>5, WorkUpdate DEF OwnTyped
  <2>4. at' \in [Dispatchers -> Places] BY DEF OwnTyped, Places, Dispatching
  <2> QED BY <1>5, <2>3, <2>4 DEF Choose, OwnTyped, eventVars, wakeVars, pushedVars
<1>6. CASE Permit(x)
  BY <1>6 DEF Permit, Moves, OwnTyped, eventVars, wakeVars, pushedVars, Places, Dispatching
<1>7. CASE Send(x)
  <2> PICK outcome \in Outcomes, to \in {"disabling", "choosing"} :
        /\ answers' = answers \cup {outcome}
        /\ work' = [work EXCEPT ![x].counts = @ \cup {outcome}]
        /\ Moves(x, to)
    BY <1>7 DEF Send, Outcomes
  <2>1. work' \in [Dispatchers -> WorkRecords] BY DEF OwnTyped, WorkRecords
  <2>2. at' \in [Dispatchers -> Places] BY DEF Moves, OwnTyped, Places, Dispatching
  <2>3. pushed' \in [Devices -> Nat]
    <3>1. \A d \in Devices : pushed[d] + 1 \in Nat BY DEF OwnTyped
    <3>2. pushed' = [pushed EXCEPT ![work[x].device] = pushed[work[x].device] + 1]
      BY <1>7 DEF Send
    <3> QED BY <3>1, <3>2 DEF OwnTyped
  <2> QED BY <1>7, <2>1, <2>2, <2>3 DEF Send, OwnTyped, eventVars, wakeVars
<1>8. CASE DisableDevice(x)
  BY <1>8 DEF DisableDevice, Moves, OwnTyped, eventVars, wakeVars, pushedVars, Places, Dispatching
<1>9. CASE Suppress(x) BY <1>9, FinishTyped DEF Suppress, Unfinished
<1>10. CASE Interrupt(x) BY <1>10, FinishTyped DEF Interrupt, Unfinished, Outcomes
<1>11. CASE Complete(x) BY <1>11, FinishTyped, FinalIsOutcome DEF Complete, Unfinished
<1>12. CASE Crash(x) BY <1>12, RaisesTyped DEF Crash, OwnTyped, eventVars, pushedVars
<1> QED
  BY <1>1, <1>2, <1>3, <1>4, <1>5, <1>6, <1>7, <1>8, <1>9, <1>10, <1>11, <1>12 DEF DispatcherWorks

LEMMA TypedStep ==
  ASSUME OInv, IInv', [Next]_vars
  PROVE  OutboxTyped'
<1>1. OwnTyped /\ PushTypeOK /\ PushTypeOK'
  BY OwnShapes DEF OInv, IInv, TypeInv
<1> SUFFICES OwnTyped'
  BY <1>1 DEF OutboxTyped, TypeOK, OwnTyped, WorkRecords
<1>2. CASE UNCHANGED <<attention, eventVars, wakeVars, workVars, pushedVars>>
  BY <1>1, <1>2 DEF OwnTyped, eventVars, wakeVars, workVars, pushedVars
<1>4. CASE RegistryChanges \/ UNCHANGED vars
  BY <1>2, <1>4 DEF RegistryChanges, vars
<1>5. CASE \E x \in Dispatchers : Receive(x)
  BY <1>1, <1>5, OpenTyped DEF Receive
<1> QED BY <1>1, <1>4, <1>5, WakeTyped, WorksTyped DEF Next

----------------------------------------------------------------------------
(***************************************************************************)
(* The sending.                                                            *)
(***************************************************************************)
\* A dispatcher other than x does nothing.
Alone(x) == \A y \in Dispatchers \ {x} : at'[y] = at[y] /\ work'[y] = work[y]

\* A dispatcher that does not send goes on without sending, or one gives up.
LEMMA GivesUp ==
  ASSUME OwnTyped, Sending, NEW x \in Dispatchers, Alone(x), UNCHANGED <<eventVars, pushedVars>>,
         at'[x] \notin Dispatching, work'[x].counts = {}
  PROVE  Sending'
<1>1. event' = event /\ pushed' = pushed /\ answers' = answers
  BY DEF eventVars, pushedVars
<1>2. Single' BY DEF Sending, Single, Alone
<1>3. Unclaimed' /\ Concluded' /\ Leasing'
  BY <1>1 DEF Sending, Unclaimed, Concluded, Leasing, Alone
<1>4. OneSendPerDevice' /\ OutcomeIsHonest'
  BY <1>1 DEF Sending, OneSendPerDevice, OutcomeIsHonest
<1>5. \A y \in Dispatchers : Counting(y)' /\ Unsent(y)'
  BY <1>1 DEF Sending, Counting, Unsent, Alone, Dispatching
<1> QED BY <1>2, <1>3, <1>4, <1>5 DEF Sending

\* An outcome is stored: PENDING was not claimed, SENDING is what the sender counted,
\* or unknown.
LEMMA FinishKeeps ==
  ASSUME OwnTyped, Sending, NEW x \in Dispatchers, NEW expected \in Unfinished,
         NEW outcome \in Outcomes \cup {"SUPPRESSED"}, Finish(x, expected, outcome),
         \/ expected = "PENDING" /\ outcome = "SUPPRESSED"
         \/ outcome = "UNKNOWN"
         \/ at[x] = "choosing" /\ outcome = Final(work[x].counts)
  PROVE  Sending'
<1>1. /\ Alone(x) /\ at'[x] = "idle" /\ work'[x].counts = {} /\ UNCHANGED pushedVars
  BY DEF Finish, Acknowledges, Rests, Moves, OwnTyped, Alone, NoWork
<1>2. CASE event' = event
  BY <1>1, <1>2, GivesUp DEF Finish, eventVars, Dispatching
<1>3. CASE /\ event.status = expected
           /\ event' = [status |-> outcome, lease |-> 0, leased |-> FALSE]
  <2>1. pushed' = pushed /\ answers' = answers BY <1>1 DEF pushedVars
  <2>2. Single' BY <1>1 DEF Sending, Single, Alone, Dispatching
  <2>3. \A y \in Dispatchers : Counting(y)' /\ Unsent(y)'
    BY <1>1, <2>1 DEF Sending, Counting, Unsent, Alone, Dispatching
  <2>4. outcome # "PENDING" BY DEF Outcomes
  <2>5. Unclaimed' /\ Leasing' BY <1>3, <2>4 DEF Unclaimed, Leasing
  <2>6. OneSendPerDevice' BY <2>1 DEF Sending, OneSendPerDevice
  <2>7. Concluded'
    BY <1>1, <1>3 DEF Sending, Unclaimed, Single, Concluded, Alone, Dispatching, Outcomes
  <2>8. OutcomeIsHonest'
    <3>1. CASE expected = "PENDING" /\ outcome = "SUPPRESSED"
      BY <1>3, <2>1, <3>1 DEF Sending, Unclaimed, OutcomeIsHonest
    <3>2. CASE outcome = "UNKNOWN"
      BY <1>3, <3>2 DEF OutcomeIsHonest
    <3>3. CASE at[x] = "choosing" /\ outcome = Final(work[x].counts)
      <4>1. work[x].counts = answers BY <3>3 DEF Sending, Counting, Dispatching
      <4>2. answers \subseteq Outcomes BY DEF OwnTyped
      <4>3. outcome = "ACCEPTED" => "ACCEPTED" \in answers /\ "UNKNOWN" \notin answers
        BY <3>3, <4>1 DEF Final
      <4>4. outcome = "REJECTED" => answers = {"REJECTED"}
        BY <3>3, <4>1, <4>2 DEF Final, Outcomes
      <4>5. outcome = "SUPPRESSED" => answers = {}
        BY <3>3, <4>1, <4>2 DEF Final, Outcomes
      <4> QED BY <1>3, <2>1, <4>3, <4>4, <4>5 DEF OutcomeIsHonest
    <3> QED BY <3>1, <3>2, <3>3
  <2> QED BY <2>2, <2>3, <2>5, <2>6, <2>7, <2>8 DEF Sending
<1> QED BY <1>2, <1>3 DEF Finish, MayFinish

\* The claim: nobody sent, and nobody else sends.
LEMMA ClaimKeeps ==
  ASSUME OwnTyped, Sending, NEW x \in Dispatchers, Claim(x)
  PROVE  Sending'
<1>1. CASE ~Claimable
  <2>1. Alone(x) /\ at'[x] = "idle" /\ work'[x].counts = {}
    BY <1>1 DEF Claim, Raises, Rests, Moves, OwnTyped, Alone, NoWork
  <2> QED BY <1>1, <2>1, GivesUp DEF Claim, Dispatching
<1>2. CASE Claimable
  <2>1. /\ Alone(x) /\ at'[x] = "listing" /\ work'[x].counts = work[x].counts
        /\ work'[x].todo = work[x].todo /\ event'.status = "SENDING"
        /\ pushed' = pushed /\ answers' = answers
    BY <1>2 DEF Claim, Moves, OwnTyped, WorkRecords, Alone, pushedVars
  <2>2. /\ \A y \in Dispatchers : at[y] \notin Dispatching
        /\ answers = {} /\ \A d \in Devices : pushed[d] = 0
    BY <1>2 DEF Claimable, Sending, Unclaimed
  <2>3. work[x].counts = {} BY <2>2 DEF Sending, Counting
  <2>4. work[x].todo \subseteq Devices BY DEF OwnTyped, WorkRecords
  <2>5. \A y \in Dispatchers : Counting(y)' /\ Unsent(y)'
    BY <2>1, <2>2, <2>3, <2>4 DEF Sending, Counting, Unsent, Alone, Dispatching
  <2> QED
    BY <2>1, <2>2, <2>5
    DEF Sending, Single, Unclaimed, Concluded, Leasing, OneSendPerDevice, OutcomeIsHonest,
        Alone, Dispatching
<1> QED BY <1>1, <1>2

\* The sender goes on: what it has still to send is what it has not sent.
LEMMA SenderKeeps ==
  ASSUME OwnTyped, Sending, NEW x \in Dispatchers, Alone(x), UNCHANGED eventVars,
         at[x] \in Dispatching, at'[x] \in Dispatching,
         Counting(x)', Unsent(x)', OneSendPerDevice'
  PROVE  Sending'
<1>1. \A y \in Dispatchers \ {x} : at[y] \notin Dispatching /\ at'[y] \notin Dispatching
  BY DEF Sending, Single, Alone
<1>2. event' = event /\ event.status \notin {"PENDING", "ACCEPTED", "REJECTED", "SUPPRESSED"}
  BY DEF Sending, Unclaimed, Concluded, eventVars
<1>3. \A y \in Dispatchers : Counting(y)' /\ Unsent(y)'
  BY <1>1 DEF Sending, Counting, Unsent, Alone, Dispatching
<1> QED
  BY <1>1, <1>2, <1>3
  DEF Sending, Single, Unclaimed, Concluded, Leasing, OneSendPerDevice, OutcomeIsHonest

LEMMA WorksSending ==
  ASSUME OwnTyped, PushTypeOK, Sending, NEW x \in Dispatchers, DispatcherWorks(x) \/ Crash(x)
  PROVE  Sending'
<1>0. Counting(x) /\ Unsent(x) /\ OneSendPerDevice /\ work[x].todo \subseteq Devices
      /\ work[x].counts \subseteq Outcomes
  BY DEF Sending, OwnTyped, WorkRecords
<1>1. CASE Inspect(x)
  <2>1. Alone(x) /\ at'[x] \notin Dispatching /\ work'[x].counts = {}
    BY <1>0, <1>1 DEF Inspect, Moves, OwnTyped, Alone, Dispatching, Counting
  <2> QED BY <1>1, <2>1, GivesUp DEF Inspect
<1>2. CASE Claim(x) BY <1>2, ClaimKeeps
<1>3. CASE Busy(x) \/ Crash(x)
  <2>1. Alone(x) /\ at'[x] \notin Dispatching /\ work'[x].counts = {}
    BY <1>3 DEF Busy, Crash, Raises, Rests, Moves, OwnTyped, Alone, NoWork, Dispatching
  <2> QED BY <1>3, <2>1, GivesUp DEF Busy, Crash
<1>4. CASE List(x)
  <2>1. /\ Alone(x) /\ at'[x] = "choosing" /\ work'[x].todo = registry[Owner].devices
        /\ work'[x].counts = work[x].counts /\ UNCHANGED <<eventVars, pushedVars>>
    BY <1>4 DEF List, Moves, OwnTyped, WorkRecords, Alone
  <2>2. registry[Owner].devices \subseteq Devices
    BY OutboxAssumption DEF PushTypeOK, Registries
  <2>3. Counting(x)' /\ Unsent(x)' /\ OneSendPerDevice'
    BY <1>0, <1>4, <2>1, <2>2
    DEF List, Counting, Unsent, Dispatching, OneSendPerDevice, pushedVars
  <2> QED BY <1>4, <2>1, <2>3, SenderKeeps DEF List, Dispatching
<1>5. CASE Choose(x)
  <2> PICK d \in work[x].todo :
        /\ work' = [work EXCEPT ![x].todo = @ \ {d}, ![x].device = d, ![x].rec = device[Owner][d]]
        /\ at' = [at EXCEPT ![x] = "permitting"] \/ UNCHANGED at
    BY <1>5 DEF Choose, Moves
  <2>1. /\ Alone(x) /\ at'[x] \in {"choosing", "permitting"} /\ work'[x].todo = work[x].todo \ {d}
        /\ work'[x].counts = work[x].counts /\ work'[x].device = d
        /\ UNCHANGED <<eventVars, pushedVars>>
    BY <1>5 DEF Choose, OwnTyped, WorkRecords, Alone
  <2>2. Counting(x)' /\ Unsent(x)' /\ OneSendPerDevice'
    BY <1>0, <1>5, <2>1 DEF Choose, Counting, Unsent, Dispatching, OneSendPerDevice, pushedVars
  <2> QED BY <1>5, <2>1, <2>2, SenderKeeps DEF Choose, Dispatching
<1>6. CASE Permit(x)
  <2>1. /\ Alone(x) /\ at'[x] \in {"sending", "choosing"} /\ work' = work
        /\ UNCHANGED <<eventVars, pushedVars>>
    BY <1>6 DEF Permit, Moves, OwnTyped, Alone
  <2>2. Counting(x)' /\ Unsent(x)' /\ OneSendPerDevice'
    BY <1>0, <1>6, <2>1 DEF Permit, Counting, Unsent, Dispatching, OneSendPerDevice, pushedVars
  <2> QED BY <1>6, <2>1, <2>2, SenderKeeps DEF Permit, Dispatching
<1>7. CASE Send(x)
  <2> PICK outcome \in Outcomes, to \in {"disabling", "choosing"} :
        /\ answers' = answers \cup {outcome}
        /\ work' = [work EXCEPT ![x].counts = @ \cup {outcome}]
        /\ Moves(x, to)
    BY <1>7 DEF Send, Outcomes
  <2>1. /\ Alone(x) /\ at'[x] \in {"disabling", "choosing"}
        /\ work'[x].counts = work[x].counts \cup {outcome}
        /\ work'[x].todo = work[x].todo /\ work'[x].device = work[x].device
        /\ UNCHANGED eventVars
    BY <1>7 DEF Send, Moves, OwnTyped, WorkRecords, Alone
  <2>2. /\ \A d \in Devices \ {work[x].device} : pushed'[d] = pushed[d]
        /\ work[x].device \in Devices => pushed'[work[x].device] = pushed[work[x].device] + 1
    BY <1>7 DEF Send, OwnTyped
  <2>3. pushed[work[x].device] = 0 /\ work[x].device \notin work[x].todo
    BY <1>0, <1>7 DEF Send, Unsent
  <2>4. \A d \in work[x].todo : pushed'[d] = 0
    BY <1>0, <1>7, <2>2, <2>3 DEF Send, Unsent, Dispatching
  <2>5. OneSendPerDevice' BY <1>0, <2>2, <2>3 DEF OneSendPerDevice
  <2>6. Counting(x)' /\ Unsent(x)'
    BY <1>0, <1>7, <2>1, <2>4 DEF Send, Counting, Unsent, Dispatching
  <2> QED BY <1>7, <2>1, <2>5, <2>6, SenderKeeps DEF Send, Dispatching
<1>8. CASE DisableDevice(x)
  <2>1. /\ Alone(x) /\ at'[x] = "choosing" /\ work' = work
        /\ UNCHANGED <<eventVars, pushedVars>>
    BY <1>8 DEF DisableDevice, Moves, OwnTyped, Alone
  <2>2. Counting(x)' /\ Unsent(x)' /\ OneSendPerDevice'
    BY <1>0, <1>8, <2>1
    DEF DisableDevice, Counting, Unsent, Dispatching, OneSendPerDevice, pushedVars
  <2> QED BY <1>8, <2>1, <2>2, SenderKeeps DEF DisableDevice, Dispatching
<1>9. CASE Suppress(x) BY <1>9, FinishKeeps DEF Suppress, Unfinished
<1>10. CASE Interrupt(x) BY <1>10, FinishKeeps DEF Interrupt, Unfinished, Outcomes
<1>11. CASE Complete(x) BY <1>11, FinishKeeps, FinalIsOutcome DEF Complete, Unfinished
<1> QED
  BY <1>1, <1>2, <1>3, <1>4, <1>5, <1>6, <1>7, <1>8, <1>9, <1>10, <1>11 DEF DispatcherWorks

LEMMA SendingStep ==
  ASSUME OInv, [Next]_vars
  PROVE  Sending'
<1>1. OwnTyped /\ PushTypeOK /\ Sending
  BY OwnShapes DEF OInv, IInv, TypeInv
<1>2. CASE UNCHANGED <<eventVars, workVars, pushedVars>>
  BY <1>1, <1>2
  DEF Sending, Single, Unclaimed, Concluded, Leasing, OneSendPerDevice, OutcomeIsHonest,
      Counting, Unsent, eventVars, workVars, pushedVars
<1>3. CASE RegistryChanges \/ Wake \/ CaseMoves \/ UNCHANGED vars
  BY <1>2, <1>3 DEF RegistryChanges, Wake, CaseMoves, vars
<1>4. CASE LeaseExpires
  <2>1. event'.status = event.status /\ event'.leased = FALSE /\ UNCHANGED <<workVars, pushedVars>>
    BY <1>1, <1>4 DEF LeaseExpires, OwnTyped
  <2> QED
    BY <1>1, <2>1
    DEF Sending, Single, Unclaimed, Concluded, Leasing, OneSendPerDevice, OutcomeIsHonest,
        Counting, Unsent, workVars, pushedVars
<1>5. ASSUME NEW x \in Dispatchers, NEW m \in wakes, Open(x, m) PROVE Sending'
  <2>1. CASE UNCHANGED workVars BY <1>2, <1>5, <2>1 DEF Open
  <2>2. CASE /\ work' = [work EXCEPT ![x].message = m, ![x].lease = event.lease]
             /\ Moves(x, CASE event.status = "PENDING" -> "inspecting"
                           [] event.leased             -> "busy"
                           [] OTHER                    -> "interrupting")
    <3>1. Alone(x) /\ at'[x] \notin Dispatching /\ work'[x].counts = work[x].counts
      BY <1>1, <2>2 DEF Moves, OwnTyped, WorkRecords, Alone, Dispatching
    <3>2. work[x].counts = {} BY <1>1, <1>5 DEF Open, Sending, Counting, Dispatching
    <3> QED BY <1>1, <1>5, <3>1, <3>2, GivesUp DEF Open
  <2> QED BY <1>5, <2>1, <2>2 DEF Open
<1> QED BY <1>1, <1>3, <1>4, <1>5, WorksSending DEF Next, Receive

(***************************************************************************)
(* What the sender has read of a device.                                   *)
(***************************************************************************)
\* The steps that read a record, and those that keep what was read.
LEMMA RecordStep ==
  ASSUME OInv, IInv', OutboxTyped', [Next]_vars, NEW x \in Dispatchers
  PROVE  RecordRead(x)'
<1>1. RecordsMove BY RegistryStep, StepMoves DEF OInv
<1>2. RecordRead(x) /\ OwnTyped BY OwnShapes DEF OInv, IInv, TypeInv
<1>3. CASE at'[x] = at[x] /\ work'[x] = work[x] BY <1>1, <1>2, <1>3, RecordStays
<1>4. CASE RegistryChanges \/ Wake \/ CaseMoves \/ LeaseExpires \/ UNCHANGED vars
  BY <1>3, <1>4 DEF RegistryChanges, Wake, CaseMoves, LeaseExpires, vars, workVars
<1>5. ASSUME NEW y \in Dispatchers, Receive(y) \/ DispatcherWorks(y) \/ Crash(y) PROVE RecordRead(x)'
  <2>1. CASE y # x
    <3>1. at'[x] = at[x] /\ work'[x] = work[x]
      BY <1>2, <1>5, <2>1
      DEF Receive, Open, DispatcherWorks, Inspect, Claim, Busy, List, Choose, Permit, Send,
          DisableDevice, Suppress, Interrupt, Complete, Finish, Acknowledges, Raises, Rests,
          Moves, Crash, OwnTyped, workVars
    <3> QED BY <1>3, <3>1
  <2>2. CASE y = x /\ (Permit(x) \/ Send(x))
    <3>1. /\ work'[x].device = work[x].device /\ work'[x].rec = work[x].rec
          /\ at[x] \in HasRecord
      BY <1>2, <2>2 DEF Permit, Send, Moves, OwnTyped, WorkRecords, HasRecord
    <3> QED BY <1>1, <1>2, <3>1, RecordStays
  <2>3. CASE y = x /\ Choose(x)
    <3> PICK d \in work[x].todo :
          /\ work' = [work EXCEPT ![x].todo = @ \ {d}, ![x].device = d, ![x].rec = device[Owner][d]]
          /\ IF device[Owner][d].enabled THEN at' = [at EXCEPT ![x] = "permitting"]
             ELSE UNCHANGED at
      BY <2>3 DEF Choose, Moves
    <3>1. CASE ~device[Owner][d].enabled
      BY <1>2, <2>3, <3>1 DEF Choose, RecordRead, HasRecord, OwnTyped
    <3>2. CASE device[Owner][d].enabled
      <4>1. d \in Devices BY <1>2 DEF OwnTyped, WorkRecords
      <4>2. /\ work'[x].device = d /\ work'[x].rec = device[Owner][d]
            /\ device' = device /\ generation' = generation
        BY <1>2, <2>3 DEF Choose, OwnTyped, WorkRecords, pushVars, records
      <4>3. /\ device[Owner][d].id # 0 /\ device[Owner][d].id <= generation
            /\ device[Owner][d].token \in Tokens
        BY <3>2, <4>1, OutboxAssumption DEF OInv, IInv, Numbered
      <4> QED BY <4>1, <4>2, <4>3 DEF RecordRead
    <3> QED BY <3>1, <3>2
  <2>4. CASE /\ y = x
             /\ \/ Receive(x) \/ Inspect(x) \/ Claim(x) \/ Busy(x) \/ List(x) \/ DisableDevice(x)
                \/ Suppress(x) \/ Interrupt(x) \/ Complete(x) \/ Crash(x)
    <3>1. at'[x] \notin HasRecord
      BY <1>2, <2>4
      DEF Receive, Open, Inspect, Claim, Busy, List, DisableDevice, Suppress, Interrupt, Complete,
          Finish, Acknowledges, Raises, Rests, Moves, Crash, OwnTyped, HasRecord, workVars
    <3> QED BY <3>1 DEF RecordRead
  <2> QED BY <1>5, <2>1, <2>2, <2>3, <2>4 DEF DispatcherWorks
<1> QED BY <1>4, <1>5 DEF Next

\* The invariant is inductive.
LEMMA OutboxStep == OInv /\ [Next]_vars => OInv'
<1> SUFFICES ASSUME OInv, [Next]_vars PROVE OInv'
  OBVIOUS
<1>1. IInv' BY RegistryStep, StepPreserves DEF OInv
<1>2. OutboxTyped' BY <1>1, TypedStep
<1>3. Sending' BY SendingStep
<1> QED BY <1>1, <1>2, <1>3, RecordStep DEF OInv

THEOREM OutboxInvariance == Spec => []OInv
<1>1. Init => OInv BY OutboxInit
<1>2. OInv /\ [Next]_vars => OInv' BY OutboxStep
<1> QED BY <1>1, <1>2, PTL DEF Spec

\* With its dispatchers and messages the outbox does to the registry only what the
\* registry's own specification lets happen: a report about an older token of a device
\* changes nothing.
THEOREM RegistryRefined == Spec => PushSpec
<1>1. Init => PushInit BY DEF Init
<1>2. OInv /\ [Next]_vars => [PushNext]_pushVars BY RegistryStep
<1> QED BY <1>1, <1>2, OutboxInvariance, PTL DEF Spec, PushSpec

\* The items, the messages and what a dispatcher holds keep their shapes.
THEOREM OutboxTypes == Spec => []TypeOK
<1>1. OInv => TypeOK BY DEF OInv, OutboxTyped
<1> QED BY <1>1, OutboxInvariance, PTL

\* However many dispatchers an event wakes, and whichever of them dies or outlives its
\* lease, no device gets it twice.
THEOREM SentOnce == Spec => []OneSendPerDevice
<1>1. OInv => OneSendPerDevice BY DEF OInv, Sending
<1> QED BY <1>1, OutboxInvariance, PTL

\* What is stored of an event says what was sent.
THEOREM OutcomeHonest == Spec => []OutcomeIsHonest
<1>1. OInv => OutcomeIsHonest BY DEF OInv, Sending
<1> QED BY <1>1, OutboxInvariance, PTL

\* An outcome is never changed.
THEOREM OutcomeFinal == Spec => OutcomeIsFinal
<1> DEFINE Stays == event.status \notin Unfinished => event' = event
<1>1. OInv /\ [Next]_vars => [Stays]_vars
  <2> SUFFICES ASSUME OInv, Next, event.status \notin Unfinished PROVE event' = event
    OBVIOUS
  <2>1. ~event.leased BY DEF OInv, Sending, Leasing, Unfinished
  <2>2. CASE RegistryChanges \/ Wake \/ CaseMoves \/ LeaseExpires
    BY <2>1, <2>2 DEF RegistryChanges, Wake, CaseMoves, LeaseExpires, eventVars
  <2>3. ASSUME NEW x \in Dispatchers, Receive(x) \/ DispatcherWorks(x) \/ Crash(x)
        PROVE  event' = event
    BY <2>3
    DEF Receive, Open, DispatcherWorks, Inspect, Claim, Claimable, Busy, List, Choose, Permit, Send,
        DisableDevice, Suppress, Interrupt, Complete, Finish, MayFinish, Crash, eventVars, Unfinished
  <2> QED BY <2>2, <2>3 DEF Next
<1> QED BY <1>1, OutboxInvariance, PTL DEF Spec, OutcomeIsFinal

\* A send is permitted only to a device that its owner lists at that moment, under the
\* token that its record has.
THEOREM PermitCurrent == Spec => PermitIsCurrent
<1> DEFINE Current ==
      \A x \in Dispatchers : at[x] = "permitting" /\ at'[x] = "sending" =>
        /\ attention /\ work[x].device \in registry[Owner].devices
        /\ binding[work[x].rec.token].user = Owner
        /\ device[Owner][work[x].device].token = work[x].rec.token
<1>1. OInv /\ [Next]_vars => [Current]_vars
  <2> SUFFICES ASSUME OInv, Next, NEW x \in Dispatchers, at[x] = "permitting", at'[x] = "sending"
               PROVE  /\ attention /\ work[x].device \in registry[Owner].devices
                      /\ binding[work[x].rec.token].user = Owner
                      /\ device[Owner][work[x].device].token = work[x].rec.token
    OBVIOUS
  <2>1. OwnTyped /\ RecordRead(x) /\ BindingHasDevice
    BY OwnShapes DEF OInv, IInv, TypeInv
  <2>2. Permit(x)
    BY <2>1
    DEF Next, RegistryChanges, Wake, CaseMoves, LeaseExpires, Receive, Open, DispatcherWorks,
        Inspect, Claim, Busy, List, Choose, Permit, Send, DisableDevice, Suppress, Interrupt,
        Complete, Finish, Acknowledges, Raises, Rests, Moves, Crash, OwnTyped, workVars
  <2>3. attention /\ StillBound(x)
    BY <2>1, <2>2 DEF Permit, Moves, OwnTyped
  <2> DEFINE d == work[x].device
             rec == work[x].rec
             b == binding[rec.token]
  <2>4. /\ device[Owner][d].id = rec.id /\ b.enabled /\ b.user = Owner /\ b.device = d
    BY <2>3 DEF StillBound, Matches
  <2>5. rec.token \in Tokens /\ device[Owner][d].token = rec.token
    BY <2>1, <2>4 DEF RecordRead, HasRecord
  <2>6. b.device \in registry[b.user].devices
    BY <2>1, <2>4, <2>5 DEF BindingHasDevice
  <2> QED BY <2>3, <2>4, <2>5, <2>6
<1> QED BY <1>1, OutboxInvariance, PTL DEF Spec, PermitIsCurrent
===============================================================================
