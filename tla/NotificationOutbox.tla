------------------------- MODULE NotificationOutbox -------------------------
(***************************************************************************)
(* One notification of a Case, from the outbox item that a Case            *)
(* transaction put (worker, notifications.py) to what became of it, while  *)
(* the registry of PushRegistry changes under the dispatcher.  Several     *)
(* invocations may dispatch the event: the messages that wake them are     *)
(* sent again by a retried Case job and delivered again after a failure.   *)
(***************************************************************************)
EXTENDS PushRegistry

CONSTANTS
  Owner,        \* the user whose Case needs attention
  Dispatchers,  \* worker invocations
  MaxWakes,     \* bound on the messages that wake a dispatcher
  MaxReceives,  \* receives of a message before the dead-letter queue (5)
  MaxCrashes    \* bound on invocations that die

ASSUME OutboxAssumption ==
  /\ Owner \in Users
  /\ MaxWakes \in Nat /\ MaxReceives \in Nat \ {0} /\ MaxCrashes \in Nat

VARIABLES
  attention,  \* the Case still has the event's version and a status of its kind
  event,      \* NOTIFICATION#: status, the claim its lease_token names, lease ahead
  claims,     \* how many claims were ever made
  wakes,      \* receivable NOTIFICATION_DISPATCH_REQUESTED messages
  woken,      \* how many were sent
  crashes,    \* how many invocations died
  at,         \* where each dispatcher is
  work,       \* its message, its claim, the devices left, the one it tries, the
              \* outcomes so far
  pushed,     \* how many requests were made for each device
  answers     \* what came back from them

eventVars == <<event, claims>>
wakeVars  == <<wakes, woken, crashes>>
workVars  == <<at, work>>
pushedVars == <<pushed, answers>>
vars == <<pushVars, attention, eventVars, wakeVars, workVars, pushedVars>>

Unfinished == {"PENDING", "SENDING"}
NoMessage == [id |-> 0, left |-> 0, after |-> 0]
NoWork == [message |-> NoMessage, lease |-> 0, todo |-> {}, device |-> None,
           rec |-> NoDevice, counts |-> {}]

Init ==
  /\ PushInit
  /\ attention = TRUE
  /\ event = [status |-> "PENDING", lease |-> 0, leased |-> FALSE] /\ claims = 0
  /\ wakes = {} /\ woken = 0 /\ crashes = 0
  /\ at = [x \in Dispatchers |-> "idle"]
  /\ work = [x \in Dispatchers |-> NoWork]
  /\ pushed = [d \in Devices |-> 0] /\ answers = {}

----------------------------------------------------------------------------
\* The Case job, at first or again, wakes a dispatcher for an unfinished event.
Wake ==
  /\ event.status \in Unfinished /\ woken < MaxWakes
  /\ woken' = woken + 1
  /\ wakes' = wakes \cup {[id |-> woken + 1, left |-> MaxReceives, after |-> 0]}
  /\ UNCHANGED <<pushVars, attention, eventVars, crashes, workVars, pushedVars>>

\* The Case moves on: a later version never has this event's again.
CaseMoves ==
  /\ attention /\ attention' = FALSE
  /\ UNCHANGED <<pushVars, eventVars, wakeVars, workVars, pushedVars>>

\* The 60 s of lease_until pass, whether or not the dispatcher is still at work.
LeaseExpires ==
  /\ event.leased /\ event' = [event EXCEPT !.leased = FALSE]
  /\ UNCHANGED <<pushVars, attention, claims, wakeVars, workVars, pushedVars>>

\* A message comes back after 720 s, when the lease it met is over.
Receivable(m) == ~(event.leased /\ event.lease = m.after)
\* Mutant: the message is received once more.
ReturnedAtZero(m) == {[m EXCEPT !.left = @ - 1, !.after = event.lease]}
\* Mutant: the failure is swallowed, so that the message is acknowledged.
ReturnedNever(m) == {}
Returned(m) == IF m.left > 1 THEN {[m EXCEPT !.left = @ - 1, !.after = event.lease]} ELSE {}

Moves(x, to) == at' = [at EXCEPT ![x] = to]
Rests(x) == Moves(x, "idle") /\ work' = [work EXCEPT ![x] = NoWork]
\* A BUSY dispatcher raises, any other one acknowledges its message.
Raises(x) == wakes' = wakes \cup Returned(work[x].message) /\ Rests(x) /\ UNCHANGED woken
Acknowledges(x) == Rests(x) /\ UNCHANGED <<wakes, woken>>

----------------------------------------------------------------------------
\* flush: the event is read; a finished one is left alone.
Open(x, m) ==
  /\ at[x] = "idle" /\ m \in wakes /\ Receivable(m)
  /\ wakes' = wakes \ {m}
  /\ IF event.status \notin Unfinished
     THEN UNCHANGED workVars
     ELSE /\ work' = [work EXCEPT ![x].message = m, ![x].lease = event.lease]
          /\ Moves(x, CASE event.status = "PENDING" -> "inspecting"
                        [] event.leased             -> "busy"
                        [] OTHER                    -> "interrupting")
  /\ UNCHANGED <<pushVars, attention, eventVars, woken, crashes, pushedVars>>

\* _attention: the Case is read after the event.
Inspect(x) ==
  /\ at[x] = "inspecting"
  /\ Moves(x, IF attention THEN "claiming" ELSE "suppressing")
  /\ UNCHANGED <<pushVars, attention, eventVars, wakeVars, work, pushedVars>>

\* Mutant: any unfinished event is claimed.
ClaimableUnleased == event.status \in Unfinished /\ ~event.leased /\ attention
\* The conditions of the claim's transaction.
Claimable == event.status = "PENDING" /\ attention

\* _claim, or BUSY when it fails.
Claim(x) ==
  /\ at[x] = "claiming"
  /\ IF Claimable
     THEN /\ event' = [status |-> "SENDING", lease |-> claims + 1, leased |-> TRUE]
          /\ claims' = claims + 1
          /\ work' = [work EXCEPT ![x].lease = claims + 1]
          /\ Moves(x, "listing") /\ UNCHANGED wakes
     ELSE Raises(x) /\ UNCHANGED eventVars
  /\ UNCHANGED <<pushVars, attention, woken, crashes, pushedVars>>

Busy(x) ==
  /\ at[x] = "busy" /\ Raises(x)
  /\ UNCHANGED <<pushVars, attention, eventVars, crashes, pushedVars>>

----------------------------------------------------------------------------
\* The devices that the owner lists when the event is claimed.
List(x) ==
  /\ at[x] = "listing"
  /\ work' = [work EXCEPT ![x].todo = registry[Owner].devices]
  /\ Moves(x, "choosing")
  /\ UNCHANGED <<pushVars, attention, eventVars, wakeVars, pushedVars>>

\* The next device: its record is read, one without a token is passed over.
Choose(x) ==
  /\ at[x] = "choosing"
  /\ \E d \in work[x].todo :
       LET rec == device[Owner][d]
       IN /\ work' = [work EXCEPT ![x].todo = @ \ {d}, ![x].device = d, ![x].rec = rec]
          /\ IF rec.enabled THEN Moves(x, "permitting") ELSE UNCHANGED at
  /\ UNCHANGED <<pushVars, attention, eventVars, wakeVars, pushedVars>>

\* Mutant: what was read of the device is not checked again.
BoundAsRead(x) == TRUE
\* Device record and token binding are still this owner's, device's and generation's.
StillBound(x) ==
  LET rec == work[x].rec
      d == work[x].device
  IN /\ device[Owner][d].id = rec.id /\ device[Owner][d].enabled
     /\ Matches(binding[rec.token], Owner, d, rec) /\ binding[rec.token].enabled
HoldsLease(x) == event.status = "SENDING" /\ event.lease = work[x].lease /\ event.leased

\* _permit: one transaction checks the Case, the device, the token and the lease.
Permit(x) ==
  /\ at[x] = "permitting"
  /\ Moves(x, IF attention /\ StillBound(x) /\ HoldsLease(x) THEN "sending" ELSE "choosing")
  /\ UNCHANGED <<pushVars, attention, eventVars, wakeVars, work, pushedVars>>

\* The one request to Expo for this device.
Send(x) ==
  /\ at[x] = "sending"
  /\ pushed' = [pushed EXCEPT ![work[x].device] = @ + 1]
  /\ \E r \in {"ACCEPTED", "REJECTED", "UNKNOWN", "DEVICE_NOT_REGISTERED"} :
       LET outcome == IF r = "DEVICE_NOT_REGISTERED" THEN "REJECTED" ELSE r
       IN /\ answers' = answers \cup {outcome}
          /\ work' = [work EXCEPT ![x].counts = @ \cup {outcome}]
          /\ Moves(x, IF r = "DEVICE_NOT_REGISTERED" THEN "disabling" ELSE "choosing")
  /\ UNCHANGED <<pushVars, attention, eventVars, wakeVars>>

DisableDevice(x) ==
  /\ at[x] = "disabling"
  /\ Disable(Owner, work[x].device, work[x].rec)
  /\ Moves(x, "choosing")
  /\ UNCHANGED <<calls, attention, eventVars, wakeVars, work, pushedVars>>

----------------------------------------------------------------------------
\* Mutant: what Expo accepted outweighs what is unknown.
FinalAccepted(counts) ==
  IF "ACCEPTED" \in counts THEN "ACCEPTED" ELSE IF "UNKNOWN" \in counts THEN "UNKNOWN"
  ELSE IF "REJECTED" \in counts THEN "REJECTED" ELSE "SUPPRESSED"
Final(counts) ==
  IF "UNKNOWN" \in counts THEN "UNKNOWN" ELSE IF "ACCEPTED" \in counts THEN "ACCEPTED"
  ELSE IF "REJECTED" \in counts THEN "REJECTED" ELSE "SUPPRESSED"

\* Mutant: the lease is not compared.
MayFinishAny(x, expected) == TRUE
\* The condition of _finish: the status, and the lease_token that the item had.
MayFinish(x, expected) ==
  event.status = expected /\ (expected = "SENDING" => event.lease = work[x].lease)

\* _finish: the outcome is stored, or somebody else's stands.
Finish(x, expected, outcome) ==
  /\ event' = IF MayFinish(x, expected)
              THEN [status |-> outcome, lease |-> 0, leased |-> FALSE] ELSE event
  /\ Acknowledges(x)
  /\ UNCHANGED <<pushVars, attention, claims, crashes, pushedVars>>

Suppress(x) == at[x] = "suppressing" /\ Finish(x, "PENDING", "SUPPRESSED")
Interrupt(x) == at[x] = "interrupting" /\ Finish(x, "SENDING", "UNKNOWN")
Complete(x) ==
  at[x] = "choosing" /\ work[x].todo = {} /\ Finish(x, "SENDING", Final(work[x].counts))

\* The invocation dies, or a call to the table fails: the message comes back.
Crash(x) ==
  /\ at[x] # "idle" /\ crashes < MaxCrashes
  /\ crashes' = crashes + 1
  /\ Raises(x)
  /\ UNCHANGED <<pushVars, attention, eventVars, pushedVars>>

DispatcherWorks(x) ==
  \/ Inspect(x) \/ Claim(x) \/ Busy(x) \/ List(x) \/ Choose(x) \/ Permit(x) \/ Send(x)
  \/ DisableDevice(x) \/ Suppress(x) \/ Interrupt(x) \/ Complete(x)
Receive(x) == \E m \in wakes : Open(x, m)

RegistryChanges ==
  PushNext /\ UNCHANGED <<attention, eventVars, wakeVars, workVars, pushedVars>>

Next ==
  \/ RegistryChanges
  \/ Wake \/ CaseMoves \/ LeaseExpires
  \/ \E x \in Dispatchers : Receive(x) \/ DispatcherWorks(x) \/ Crash(x)

Spec == Init /\ [][Next]_vars

(***************************************************************************)
(* SQS delivers what it holds, an invocation goes on until it ends or      *)
(* dies, and a lease runs out.                                             *)
(***************************************************************************)
Fairness ==
  /\ \A x \in Dispatchers : WF_vars(Receive(x)) /\ WF_vars(DispatcherWorks(x))
  /\ WF_vars(LeaseExpires)
FairSpec == Spec /\ Fairness

----------------------------------------------------------------------------
Outcomes == {"ACCEPTED", "REJECTED", "UNKNOWN"}
Wakes == [id : 1..MaxWakes, left : 1..MaxReceives, after : Nat]

\* Every variable has the shape the items and the dispatchers give it.
TypeOK ==
  /\ PushTypeOK
  /\ attention \in BOOLEAN
  /\ event \in [status : Unfinished \cup Outcomes \cup {"SUPPRESSED"}, lease : Nat,
                leased : BOOLEAN]
  /\ wakes \subseteq Wakes
  /\ {claims, woken, crashes} \subseteq Nat
  /\ work \in [Dispatchers -> [message : Wakes \cup {NoMessage}, lease : Nat, todo : SUBSET Devices,
                 device : Devices \cup {None}, rec : DeviceRecords, counts : SUBSET Outcomes]]
  /\ pushed \in [Devices -> Nat] /\ answers \subseteq Outcomes

\* An event is never sent twice to a device, whatever dies, is delivered again or
\* outlives its lease: an uncertain send is never replayed.
OneSendPerDevice == \A d \in Devices : pushed[d] <= 1

\* The stored outcome says what was sent: nothing when suppressed, and neither
\* accepted nor rejected while any request's fate is unknown.
OutcomeIsHonest ==
  /\ event.status = "SUPPRESSED" => answers = {}
  /\ event.status = "ACCEPTED" => "ACCEPTED" \in answers /\ "UNKNOWN" \notin answers
  /\ event.status = "REJECTED" => answers = {"REJECTED"}

\* A send is permitted only to a device that its owner lists at that moment, with a
\* token that no other user's or device's record is bound to, although the list, the
\* record and the Case were read before.
PermitIsCurrent ==
  [][\A x \in Dispatchers : at[x] = "permitting" /\ at'[x] = "sending" =>
       /\ attention /\ work[x].device \in registry[Owner].devices
       /\ binding[work[x].rec.token].user = Owner
       /\ device[Owner][work[x].device].token = work[x].rec.token]_vars

\* What became of an event is final: a dispatcher that comes late changes nothing.
OutcomeIsFinal == [][event.status \notin Unfinished => event' = event]_vars

\* An event that a message is queued for is finished, unless MaxReceives - 1
\* invocations die on it.
EventFinishes ==
  wakes # {} ~> event.status \notin Unfinished \/ crashes >= MaxReceives - 1
=============================================================================
