---------------------------- MODULE PushRegistry ----------------------------
(***************************************************************************)
(* Who gets a push: the registry of each user's devices, the device        *)
(* records and the global binding of each push token (control-api,         *)
(* notifications.py).  register and unregister read the records one after  *)
(* the other and then write them in one transaction, three times at most;  *)
(* calls of several users and devices, and the worker's reports that a     *)
(* device is gone, come in between.                                        *)
(*                                                                         *)
(* A binding_id is a fresh number.  The device record keeps the hash of    *)
(* its token when it is disabled, not the token itself.                    *)
(***************************************************************************)
EXTENDS Naturals, FiniteSets

CONSTANTS
  Users, Devices, Tokens,
  None,         \* the token, or the owner and device, of an item that does not exist
  Calls,        \* API calls in flight at once
  MaxDevices,   \* devices of one user (5)
  MaxTries,     \* transactions a call tries (3)
  MaxCalls      \* bound on the calls ever made

ASSUME PushAssumption ==
  /\ None \notin Tokens \cup Users \cup Devices
  /\ MaxDevices \in Nat \ {0} /\ MaxTries \in Nat \ {0} /\ MaxCalls \in Nat

VARIABLES
  registry,    \* PUSH_REGISTRY of each user: version and device_ids
  device,      \* PUSH_DEVICE#d of each user: token hash, binding_id, enabled
  binding,     \* PUSH_TOKEN#: owner, device, binding_id, enabled
  generation,  \* how many binding ids were ever made
  call,        \* what each call was asked and what it has read
  pc,          \* where it is
  made,        \* how many calls were made
  overtaken,   \* history: the calls that, since they first read it, lost their
               \* token to a new registration or their live device to another call
  revoked      \* history: those whose device was unregistered since then

records == <<registry, device, binding, generation>>
calls   == <<call, pc, made, overtaken, revoked>>
pushVars == <<records, calls>>

\* binding_id 0: the item does not exist.
NoDevice  == [token |-> None, id |-> 0, enabled |-> FALSE]
Unbound   == [user |-> None, device |-> None, id |-> 0, enabled |-> FALSE]
NoScope   == [current |-> <<0, TRUE>>, previous |-> Unbound]
NoCall    == [op |-> "none"]

PushInit ==
  /\ registry = [u \in Users |-> [version |-> 0, devices |-> {}]]
  /\ device = [u \in Users |-> [d \in Devices |-> NoDevice]]
  /\ binding = [t \in Tokens |-> Unbound]
  /\ generation = 0 /\ made = 0
  /\ overtaken = {} /\ revoked = {}
  /\ pc = [c \in Calls |-> "idle"]
  /\ call = [c \in Calls |-> NoCall]

\* _matches: the binding is this device record's.
Matches(b, u, d, rec) == b.id # 0 /\ b.user = u /\ b.device = d /\ b.id = rec.id

----------------------------------------------------------------------------
\* A signed-in app registers its token, perhaps with another app_version than
\* its device record has, or unregisters.
Begin(c) ==
  /\ pc[c] = "idle" /\ made < MaxCalls
  /\ \E op \in {"register", "unregister"}, u \in Users, d \in Devices, t \in Tokens,
        upgraded \in BOOLEAN :
       call' = [call EXCEPT ![c] =
                  [op |-> op, user |-> u, device |-> d, token |-> t, upgraded |-> upgraded,
                   tries |-> 0, scope |-> NoScope, registry |-> registry[u],
                   current |-> NoDevice, previous |-> Unbound, old |-> Unbound]]
  /\ pc' = [pc EXCEPT ![c] = "start"]
  /\ made' = made + 1
  /\ UNCHANGED <<records, overtaken, revoked>>

Goes(c, to) == pc' = [pc EXCEPT ![c] = to] /\ UNCHANGED <<made, overtaken, revoked>>
Returns(c) ==
  /\ pc' = [pc EXCEPT ![c] = "idle"] /\ call' = [call EXCEPT ![c] = NoCall]
  /\ overtaken' = overtaken \ {c} /\ revoked' = revoked \ {c}
  /\ UNCHANGED made

ReadRegistry(c) ==
  /\ pc[c] = "start"
  /\ call' = [call EXCEPT ![c].registry = registry[call[c].user]]
  /\ Goes(c, "listed")
  /\ UNCHANGED records

\* The device is registered as the call asks: nothing is rotated or reclaimed.
Unchanged(k, rec) ==
  k.device \in k.registry.devices /\ rec.enabled /\ rec.token = k.token /\ ~k.upgraded
\* Mutant: one slot too many.
FullLate(k) == k.device \notin k.registry.devices /\ Cardinality(k.registry.devices) > MaxDevices
\* The user has five other devices.
Full(k) == k.device \notin k.registry.devices /\ Cardinality(k.registry.devices) >= MaxDevices

ReadDevice(c) ==
  LET k == call[c]
      rec == device[k.user][k.device]
  IN /\ pc[c] = "listed"
     /\ IF IF k.op = "register" THEN Full(k) \/ Unchanged(k, rec) ELSE rec.id = 0
        THEN Returns(c)
        ELSE call' = [call EXCEPT ![c].current = rec] /\ Goes(c, "found")
     /\ UNCHANGED records

\* _binding_state of the device record and of the token's binding.
Scope(rec, b) == [current |-> <<rec.id, rec.enabled>>, previous |-> b]
\* Mutant: a later attempt takes what it finds.
AnyScope(k, b) == TRUE
\* The first attempt fixes the scope, a later one must find it again.
SameScope(k, b) == k.scope \in {NoScope, Scope(k.current, b)}

\* The binding of the token to be registered, and of the device's other token.
ReadBindings(c) ==
  LET k == call[c]
      b == binding[k.token]
  IN /\ pc[c] = "found"
     /\ IF k.op = "register" /\ ~SameScope(k, b)
        THEN Returns(c)
        ELSE /\ call' = [call EXCEPT ![c].previous = b, ![c].scope = Scope(k.current, b),
                           ![c].old = IF k.current.token \in Tokens
                                      THEN binding[k.current.token] ELSE Unbound]
             /\ Goes(c, "ready")
     /\ UNCHANGED records

----------------------------------------------------------------------------
\* The other calls that have read the device of call c, or its token.
Readers(c) == {b \in Calls \ {c} : pc[b] # "idle" /\ call[b].scope # NoScope}
SameDevice(c) ==
  {b \in Readers(c) : call[b].user = call[c].user /\ call[b].device = call[c].device}
SameToken(c) == {b \in Readers(c) : call[b].token = call[c].token}

\* What the write of call c means for the other calls.
Overtakes(c) ==
  LET k == call[c]
  IN IF k.op = "register" THEN SameDevice(c) \cup SameToken(c)
     ELSE IF device[k.user][k.device].enabled THEN SameDevice(c) ELSE {}
Revokes(c) == IF call[c].op = "unregister" THEN SameDevice(c) ELSE {}

SameVersion(k) == registry[k.user].version = k.registry.version

\* Mutant: the device's other token stays bound.
NeverReleases(k, t) == FALSE
\* _append_binding_disable: the device's other token is given up, if it is its own.
Releases(k, t) ==
  /\ t = k.current.token /\ Matches(k.old, k.user, k.device, k.current)
  /\ k.op = "unregister" \/ t # k.token

\* The conditions of the transaction.
MayWrite(k) ==
  /\ SameVersion(k)
  /\ device[k.user][k.device].id = k.current.id
  /\ k.op = "register" => binding[k.token].id = k.previous.id
  /\ \A t \in Tokens : Releases(k, t) => Matches(binding[t], k.user, k.device, k.current)

Written(c) ==
  LET k == call[c]
      registering == k.op = "register"
      id == generation + 1
  IN /\ registry' = [registry EXCEPT ![k.user] =
          [version |-> k.registry.version + 1,
           devices |-> IF registering THEN k.registry.devices \cup {k.device}
                       ELSE k.registry.devices \ {k.device}]]
     /\ device' = [device EXCEPT ![k.user][k.device] =
          IF registering THEN [token |-> k.token, id |-> id, enabled |-> TRUE]
          ELSE [@ EXCEPT !.enabled = FALSE]]
     /\ binding' = [t \in Tokens |->
          CASE registering /\ t = k.token ->
                 [user |-> k.user, device |-> k.device, id |-> id, enabled |-> TRUE]
            [] Releases(k, t) -> [binding[t] EXCEPT !.enabled = FALSE]
            [] OTHER -> binding[t]]
     /\ generation' = IF registering THEN id ELSE generation

\* The transaction succeeds, is tried again from the start, or is given up.
Write(c) ==
  LET k == call[c]
  IN /\ pc[c] = "ready"
     /\ \/ /\ MayWrite(k) /\ Written(c)
           /\ pc' = [pc EXCEPT ![c] = "idle"] /\ call' = [call EXCEPT ![c] = NoCall]
           /\ overtaken' = (overtaken \cup Overtakes(c)) \ {c}
           /\ revoked' = (revoked \cup Revokes(c)) \ {c}
           /\ UNCHANGED made
        \/ /\ ~MayWrite(k) /\ k.tries + 1 < MaxTries
           /\ call' = [call EXCEPT ![c].tries = @ + 1]
           /\ Goes(c, "start") /\ UNCHANGED records
        \/ /\ ~MayWrite(k) /\ k.tries + 1 >= MaxTries
           /\ Returns(c) /\ UNCHANGED records

\* The worker's _disable: Expo reported the token of this record as gone.
Disable(u, d, rec) ==
  LET b == binding[rec.token]
  IN IF rec.id # 0 /\ device[u][d].id = rec.id /\ Matches(b, u, d, rec)
     THEN /\ device' = [device EXCEPT ![u][d].enabled = FALSE]
          /\ binding' = [binding EXCEPT ![rec.token].enabled = FALSE]
          /\ UNCHANGED <<registry, generation>>
     ELSE UNCHANGED records

DeviceGone(u, d) ==
  /\ device[u][d].enabled
  /\ Disable(u, d, device[u][d])
  /\ UNCHANGED calls

CallStep(c) == Begin(c) \/ ReadRegistry(c) \/ ReadDevice(c) \/ ReadBindings(c) \/ Write(c)
PushNext ==
  \/ \E c \in Calls : CallStep(c)
  \/ \E u \in Users, d \in Devices : DeviceGone(u, d)

PushSpec == PushInit /\ [][PushNext]_pushVars

----------------------------------------------------------------------------
Registries == [version : Nat, devices : SUBSET Devices]
Bindings ==
  [user : Users \cup {None}, device : Devices \cup {None}, id : Nat, enabled : BOOLEAN]
DeviceRecords == [token : Tokens \cup {None}, id : Nat, enabled : BOOLEAN]

\* Every item has the shape the code writes, within the five slots of a user.
PushTypeOK ==
  /\ registry \in [Users -> Registries]
  /\ \A u \in Users : Cardinality(registry[u].devices) <= MaxDevices
  /\ device \in [Users -> [Devices -> DeviceRecords]]
  /\ binding \in [Tokens -> Bindings]
  /\ {generation, made} \subseteq Nat
  /\ pc \in [Calls -> {"idle", "start", "listed", "found", "ready"}]
  /\ overtaken \subseteq Calls /\ revoked \subseteq Calls

\* A token that pushes may be sent to belongs to a device that its owner lists
\* and can unregister: no interleaving of calls leaves a live binding behind.
BindingHasDevice ==
  \A t \in Tokens : binding[t].enabled =>
     LET b == binding[t] IN
       /\ b.device \in registry[b.user].devices
       /\ device[b.user][b.device] = [token |-> t, id |-> b.id, enabled |-> TRUE]

\* Call c gives its token to its device.
Registers(c) == pc[c] = "ready" /\ call[c].op = "register" /\ generation' # generation

\* A registration that meanwhile lost its token to another registration, or whose
\* device was meanwhile registered anew or unregistered, does not take effect.
NoOvertakenWrite == [][\A c \in overtaken : pc'[c] = "idle" => ~Registers(c)]_pushVars

\* services/control-api/tests/test_notifications.py:252: a registration "does not
\* retry over newer owner or revocation", also when the device was disabled before.
RevocationWins == [][\A c \in revoked : pc'[c] = "idle" => ~Registers(c)]_pushVars
=============================================================================
