------------------------- MODULE PushRegistryProofs -------------------------
(***************************************************************************)
(* The push registry for every number of users, devices, tokens, calls in  *)
(* flight and retries.  The arguments: binding ids are fresh, so a record  *)
(* or binding that was replaced never has an id again that a call has      *)
(* read; and every write raises the version of its user's registry, which  *)
(* every transaction compares.                                             *)
(***************************************************************************)
EXTENDS PushRegistry, FiniteSetTheorems, TLAPS

Scopes == [current : Nat \X BOOLEAN, previous : Bindings]
CallRecords ==
  [op : {"register", "unregister"}, user : Users, device : Devices, token : Tokens,
   upgraded : BOOLEAN, tries : Nat, scope : Scopes, registry : Registries,
   current : DeviceRecords, previous : Bindings, old : Bindings]
HasDevice == {"found", "ready"}

\* A user's list is finite.
Finite == \A u \in Users : IsFiniteSet(registry[u].devices)
TypeInv == PushTypeOK /\ Finite /\ call \in [Calls -> CallRecords \cup {NoCall}]

\* Only a device record that was registered has a token and may be enabled; ids
\* are older than the next one, and a live binding has an owner.
Numbered ==
  /\ \A u \in Users, d \in Devices :
       /\ device[u][d].id <= generation
       /\ device[u][d].id = 0 => ~device[u][d].enabled
       /\ device[u][d].id # 0 => device[u][d].token \in Tokens
  /\ \A t \in Tokens :
       /\ binding[t].id <= generation
       /\ binding[t].enabled => binding[t].user \in Users /\ binding[t].device \in Devices

\* A call in flight has read items, and a list within the slots.
Typed(c) ==
  pc[c] # "idle" =>
     /\ call[c] \in CallRecords
     /\ IsFiniteSet(call[c].registry.devices)
     /\ Cardinality(call[c].registry.devices) <= MaxDevices

\* A registration that goes on found a slot.
Slotted(c) ==
  pc[c] \in HasDevice /\ call[c].op = "register" =>
     \/ call[c].device \in call[c].registry.devices
     \/ Cardinality(call[c].registry.devices) < MaxDevices

\* What a call read of the list is the list, or an earlier version of it.
ListRead(c) ==
  pc[c] # "idle" =>
     /\ call[c].registry.version <= registry[call[c].user].version
     /\ SameVersion(call[c]) => call[c].registry = registry[call[c].user]

\* A device record that still has the id that a call read has the token it read,
\* and is not enabled when it was disabled then.
DeviceRead(c) ==
  pc[c] \in HasDevice =>
     LET k == call[c] IN
       /\ k.current.id <= generation
       /\ k.current.id = 0 => ~k.current.enabled
       /\ k.current.id = device[k.user][k.device].id =>
            /\ k.current.token = device[k.user][k.device].token
            /\ device[k.user][k.device].enabled => k.current.enabled

\* A binding that is the read record's own was so when the call read it.
BindingRead(c) ==
  pc[c] = "ready" =>
     LET k == call[c] IN
       k.current.token \in Tokens
         /\ Matches(binding[k.current.token], k.user, k.device, k.current)
       => Matches(k.old, k.user, k.device, k.current)

\* The scope of a call: a disabled record of its generation is never enabled again.
ScopeRead(c) ==
  pc[c] # "idle" /\ call[c].scope # NoScope =>
     LET k == call[c] IN
       /\ k.scope.current[1] <= generation /\ k.scope.previous.id <= generation
       /\ ~k.scope.current[2] /\ k.scope.current[1] = device[k.user][k.device].id
            => ~device[k.user][k.device].enabled
ScopeReady(c) == pc[c] = "ready" => call[c].scope = Scope(call[c].current, call[c].previous)

\* An overtaken registration cannot find its scope again; one whose device was
\* disabled after it read the record read an older list.
Beaten(c) ==
  LET k == call[c]
      rec == device[k.user][k.device]
  IN /\ pc[c] # "idle" /\ k.scope # NoScope
     /\ k.op = "register" =>
          \/ rec.id # k.scope.current[1]
          \/ binding[k.token].id # k.scope.previous.id
          \/ /\ k.scope.current[2] /\ ~rec.enabled
             /\ pc[c] \in HasDevice /\ k.current.enabled => ~SameVersion(k)

CallInv(c) ==
  /\ Typed(c) /\ Slotted(c) /\ ListRead(c) /\ DeviceRead(c) /\ BindingRead(c)
  /\ ScopeRead(c) /\ ScopeReady(c)

IInv ==
  /\ TypeInv /\ Numbered /\ BindingHasDevice
  /\ \A c \in Calls : CallInv(c)
  /\ \A c \in overtaken : Beaten(c)

----------------------------------------------------------------------------
\* The invariant holds of the empty table.
LEMMA InitEstablishes == PushInit => IInv
<1> SUFFICES ASSUME PushInit PROVE IInv
  OBVIOUS
<1>1. IsFiniteSet({}) /\ Cardinality({}) = 0
  BY FS_EmptySet
<1>2. PushTypeOK
  <2>1. registry \in [Users -> Registries]
        /\ \A u \in Users : Cardinality(registry[u].devices) <= MaxDevices
    <3>1. [version |-> 0, devices |-> {}] \in Registries BY DEF Registries
    <3>2. registry \in [Users -> Registries] BY <3>1 DEF PushInit
    <3>3. \A u \in Users : registry[u].devices = {} BY DEF PushInit
    <3>4. 0 <= MaxDevices BY PushAssumption
    <3> QED BY <1>1, <3>2, <3>3, <3>4
  <2>2. device \in [Users -> [Devices -> DeviceRecords]] /\ binding \in [Tokens -> Bindings]
    <3>1. NoDevice \in DeviceRecords BY DEF DeviceRecords, NoDevice
    <3>2. Unbound \in Bindings BY DEF Bindings, Unbound
    <3>3. device \in [Users -> [Devices -> DeviceRecords]] BY <3>1 DEF PushInit
    <3>4. binding \in [Tokens -> Bindings] BY <3>2 DEF PushInit
    <3> QED BY <3>3, <3>4
  <2> QED BY <2>1, <2>2 DEF PushInit, PushTypeOK
<1>3. TypeInv
  BY <1>1, <1>2 DEF PushInit, TypeInv, Finite
<1>4. Numbered /\ BindingHasDevice
  BY DEF PushInit, Numbered, BindingHasDevice, NoDevice, Unbound
<1>5. \A c \in Calls : CallInv(c)
  BY DEF PushInit, CallInv, Typed, Slotted, ListRead, DeviceRead, BindingRead, ScopeRead,
         ScopeReady, HasDevice
<1> QED
  BY <1>3, <1>4, <1>5 DEF IInv, PushInit

\* What a transaction writes has the shape of the items, within the slots.
LEMMA WrittenShape ==
  ASSUME TypeInv, NEW c \in Calls, Typed(c), Slotted(c), pc[c] = "ready", Written(c)
  PROVE  /\ registry' \in [Users -> Registries]
         /\ \A u \in Users : /\ IsFiniteSet(registry'[u].devices)
                             /\ Cardinality(registry'[u].devices) <= MaxDevices
         /\ device' \in [Users -> [Devices -> DeviceRecords]]
         /\ binding' \in [Tokens -> Bindings]
         /\ generation' \in Nat
<1> DEFINE k == call[c]
           new == IF k.op = "register" THEN k.registry.devices \cup {k.device}
                  ELSE k.registry.devices \ {k.device}
<1>1. k \in CallRecords /\ IsFiniteSet(k.registry.devices)
      /\ Cardinality(k.registry.devices) <= MaxDevices
  BY DEF Typed
<1>2. generation \in Nat /\ generation + 1 \in Nat /\ k.registry.version + 1 \in Nat
      /\ k.registry.devices \subseteq Devices /\ k.device \in Devices /\ k.user \in Users
  BY <1>1 DEF TypeInv, PushTypeOK, CallRecords, Registries
<1>3. IsFiniteSet(new) /\ Cardinality(new) <= MaxDevices
  <2>0. Cardinality(k.registry.devices) \in Nat /\ MaxDevices \in Nat
    BY <1>1, FS_CardinalityType, PushAssumption
  <2>1. CASE k.op = "register"
    <3>1. k.device \in k.registry.devices \/ Cardinality(k.registry.devices) < MaxDevices
      BY <2>1 DEF Slotted, HasDevice
    <3>2. /\ IsFiniteSet(k.registry.devices \cup {k.device})
          /\ \/ Cardinality(k.registry.devices \cup {k.device}) = Cardinality(k.registry.devices)
                /\ k.device \in k.registry.devices
             \/ Cardinality(k.registry.devices \cup {k.device})
                  = Cardinality(k.registry.devices) + 1
      BY <1>1, FS_AddElement
    <3>3. k.device \in k.registry.devices => k.registry.devices \cup {k.device} = k.registry.devices
      OBVIOUS
    <3>4. CASE k.device \in k.registry.devices
      BY <1>1, <2>1, <3>3, <3>4
    <3>5. CASE k.device \notin k.registry.devices
      <4>1. Cardinality(k.registry.devices \cup {k.device}) <= MaxDevices
        BY <2>0, <3>1, <3>2, <3>5
      <4> QED BY <2>1, <3>2, <4>1
    <3> QED BY <3>4, <3>5
  <2>2. CASE k.op # "register"
    <3>1. /\ IsFiniteSet(k.registry.devices \ {k.device})
          /\ Cardinality(k.registry.devices \ {k.device}) <= Cardinality(k.registry.devices)
          /\ Cardinality(k.registry.devices \ {k.device}) \in Nat
      BY <1>1, FS_Subset, FS_CardinalityType, k.registry.devices \ {k.device} \subseteq k.registry.devices
    <3> QED BY <1>1, <2>0, <2>2, <3>1
  <2> QED BY <2>1, <2>2
<1>4. [version |-> k.registry.version + 1, devices |-> new] \in Registries
  BY <1>2 DEF Registries
<1>5. registry' = [registry EXCEPT ![k.user] =
                     [version |-> k.registry.version + 1, devices |-> new]]
  BY DEF Written
<1>6. registry' \in [Users -> Registries]
      /\ \A u \in Users : /\ IsFiniteSet(registry'[u].devices)
                          /\ Cardinality(registry'[u].devices) <= MaxDevices
  <2> HIDE DEF new
  <2>1. registry \in [Users -> Registries] BY DEF TypeInv, PushTypeOK
  <2>2. registry'[k.user].devices = new BY <1>2, <1>5, <2>1
  <2>3. \A u \in Users \ {k.user} : registry'[u] = registry[u] BY <1>2, <1>5, <2>1
  <2>4. \A u \in Users : IsFiniteSet(registry[u].devices)
                         /\ Cardinality(registry[u].devices) <= MaxDevices
    BY DEF TypeInv, PushTypeOK, Finite
  <2>5. registry' \in [Users -> Registries] BY <1>2, <1>4, <1>5, <2>1
  <2> QED BY <1>3, <2>2, <2>3, <2>4, <2>5
<1>7. device' \in [Users -> [Devices -> DeviceRecords]]
  <2>1. device \in [Users -> [Devices -> DeviceRecords]] BY DEF TypeInv, PushTypeOK
  <2>2. device[k.user][k.device] \in DeviceRecords BY <1>2, <2>1
  <2>3. [token |-> k.token, id |-> generation + 1, enabled |-> TRUE] \in DeviceRecords
    BY <1>1, <1>2 DEF CallRecords, DeviceRecords
  <2>4. [device[k.user][k.device] EXCEPT !.enabled = FALSE] \in DeviceRecords
    BY <2>2 DEF DeviceRecords
  <2> DEFINE rec == IF k.op = "register"
                    THEN [token |-> k.token, id |-> generation + 1, enabled |-> TRUE]
                    ELSE [device[k.user][k.device] EXCEPT !.enabled = FALSE]
  <2>5. rec \in DeviceRecords BY <2>3, <2>4
  <2>6. device' = [device EXCEPT ![k.user][k.device] = rec] BY <1>2, <2>1 DEF Written
  <2> HIDE DEF rec
  <2> QED BY <1>2, <2>1, <2>5, <2>6
<1>8. binding' \in [Tokens -> Bindings]
  <2>1. binding \in [Tokens -> Bindings] BY DEF TypeInv, PushTypeOK
  <2>2. [user |-> k.user, device |-> k.device, id |-> generation + 1, enabled |-> TRUE] \in Bindings
    BY <1>2 DEF Bindings
  <2>3. \A t \in Tokens : [binding[t] EXCEPT !.enabled = FALSE] \in Bindings
    BY <2>1 DEF Bindings
  <2> DEFINE bound(t) ==
        CASE k.op = "register" /\ t = k.token ->
               [user |-> k.user, device |-> k.device, id |-> generation + 1, enabled |-> TRUE]
          [] Releases(k, t) -> [binding[t] EXCEPT !.enabled = FALSE]
          [] OTHER -> binding[t]
  <2>4. \A t \in Tokens : bound(t) \in Bindings BY <2>1, <2>2, <2>3
  <2>5. binding' = [t \in Tokens |-> bound(t)] BY DEF Written
  <2> HIDE DEF bound
  <2> QED BY <2>4, <2>5
<1>9. generation' \in Nat BY <1>2 DEF Written
<1> QED BY <1>6, <1>7, <1>8, <1>9

----------------------------------------------------------------------------
(***************************************************************************)
(* What a step can do to the items.                                        *)
(***************************************************************************)
ListMoves(u) == registry'[u] = registry[u] \/ registry'[u].version > registry[u].version
DeviceMoves(u, d) ==
  \/ device'[u][d] = device[u][d]
  \/ /\ device'[u][d].id = device[u][d].id /\ device'[u][d].token = device[u][d].token
     /\ ~device'[u][d].enabled
  \/ device'[u][d].id = generation + 1 /\ device'[u][d].token \in Tokens
BindingMoves(t) ==
  \/ binding'[t] = binding[t]
  \/ /\ binding'[t].id = binding[t].id /\ binding'[t].user = binding[t].user
     /\ binding'[t].device = binding[t].device /\ ~binding'[t].enabled
  \/ /\ binding'[t].id = generation + 1
     /\ binding'[t].user \in Users /\ binding'[t].device \in Devices
RecordsMove ==
  /\ generation' \in {generation, generation + 1}
  /\ \A u \in Users : ListMoves(u) /\ \A d \in Devices : DeviceMoves(u, d)
  /\ \A t \in Tokens : BindingMoves(t)
  /\ \A u \in Users, d \in Devices : device'[u][d].id <= generation'
  /\ \A t \in Tokens : binding'[t].id <= generation'
RecordsTyped ==
  /\ registry \in [Users -> Registries]
  /\ \A u \in Users : /\ IsFiniteSet(registry[u].devices)
                      /\ Cardinality(registry[u].devices) <= MaxDevices
  /\ device \in [Users -> [Devices -> DeviceRecords]]
  /\ binding \in [Tokens -> Bindings]
  /\ generation \in Nat

\* A transaction moves the items.
LEMMA WriteMoves ==
  ASSUME TypeInv, Numbered, NEW c \in Calls, Typed(c), pc[c] = "ready",
         MayWrite(call[c]), Written(c)
  PROVE  RecordsMove
<1> DEFINE k == call[c]
<1>1. k \in CallRecords /\ k.user \in Users /\ k.device \in Devices /\ k.token \in Tokens
  BY DEF Typed, CallRecords
<1>2. /\ registry \in [Users -> Registries] /\ device \in [Users -> [Devices -> DeviceRecords]]
      /\ binding \in [Tokens -> Bindings] /\ generation \in Nat
  BY DEF TypeInv, PushTypeOK
<1>3. generation' \in {generation, generation + 1} /\ (k.op = "register" => generation' = generation + 1)
  BY DEF Written
<1>4. ASSUME NEW u \in Users PROVE ListMoves(u)
  <2>1. CASE u = k.user
    <3>1. registry'[u].version = registry[u].version + 1
      BY <1>2, <2>1 DEF MayWrite, SameVersion, Written
    <3>2. registry[u].version \in Nat BY <1>2 DEF Registries
    <3> QED BY <3>1, <3>2 DEF ListMoves
  <2>2. CASE u # k.user BY <1>1, <1>2, <2>2 DEF Written, ListMoves
  <2> QED BY <2>1, <2>2
<1>5. ASSUME NEW u \in Users, NEW d \in Devices
      PROVE  DeviceMoves(u, d) /\ device'[u][d].id <= generation'
  <2>0. device[u][d].id <= generation /\ device[u][d].id \in Nat
    BY <1>2 DEF Numbered, DeviceRecords
  <2>1. CASE ~(u = k.user /\ d = k.device)
    <3>1. device'[u][d] = device[u][d] BY <1>1, <1>2, <2>1 DEF Written
    <3> QED BY <1>2, <1>3, <2>0, <3>1 DEF DeviceMoves
  <2>2. CASE u = k.user /\ d = k.device /\ k.op = "register"
    <3>1. device'[u][d] = [token |-> k.token, id |-> generation + 1, enabled |-> TRUE]
      BY <1>1, <1>2, <2>2 DEF Written
    <3> QED BY <1>1, <1>2, <1>3, <2>2, <3>1 DEF DeviceMoves
  <2>3. CASE u = k.user /\ d = k.device /\ k.op # "register"
    <3>1. device'[u][d] = [device[u][d] EXCEPT !.enabled = FALSE]
      BY <1>1, <1>2, <2>3 DEF Written
    <3>2. device[u][d] \in DeviceRecords BY <1>2
    <3>3. /\ device'[u][d].id = device[u][d].id /\ device'[u][d].token = device[u][d].token
          /\ ~device'[u][d].enabled
      BY <3>1, <3>2 DEF DeviceRecords
    <3> QED BY <1>2, <1>3, <2>0, <3>3 DEF DeviceMoves
  <2> QED BY <2>1, <2>2, <2>3
<1>6. ASSUME NEW t \in Tokens PROVE BindingMoves(t) /\ binding'[t].id <= generation'
  <2>0. binding[t].id <= generation /\ binding[t].id \in Nat /\ binding[t] \in Bindings
    BY <1>2 DEF Numbered, Bindings
  <2>1. CASE k.op = "register" /\ t = k.token
    <3>0. ~Releases(k, t) BY <2>1 DEF Releases
    <3>1. binding'[t] = [user |-> k.user, device |-> k.device, id |-> generation + 1, enabled |-> TRUE]
      BY <1>2, <2>1, <3>0 DEF Written
    <3> QED BY <1>1, <1>2, <1>3, <2>1, <3>1 DEF BindingMoves
  <2>2. CASE ~(k.op = "register" /\ t = k.token) /\ Releases(k, t)
    <3>1. binding'[t] = [binding[t] EXCEPT !.enabled = FALSE]
      BY <1>2, <2>2 DEF Written
    <3>2. /\ binding'[t].id = binding[t].id /\ binding'[t].user = binding[t].user
          /\ binding'[t].device = binding[t].device /\ ~binding'[t].enabled
      BY <2>0, <3>1 DEF Bindings
    <3> QED BY <1>2, <1>3, <2>0, <3>2 DEF BindingMoves
  <2>3. CASE ~(k.op = "register" /\ t = k.token) /\ ~Releases(k, t)
    <3>1. binding'[t] = binding[t] BY <1>2, <2>3 DEF Written
    <3> QED BY <1>2, <1>3, <2>0, <3>1 DEF BindingMoves
  <2> QED BY <2>1, <2>2, <2>3
<1> QED BY <1>3, <1>4, <1>5, <1>6 DEF RecordsMove

\* So does the worker that reports a device as gone.
LEMMA GoneMoves ==
  ASSUME TypeInv, Numbered, NEW u \in Users, NEW d \in Devices, DeviceGone(u, d)
  PROVE  RecordsMove /\ RecordsTyped'
<1> DEFINE rec == device[u][d]
<1>1. /\ registry \in [Users -> Registries] /\ device \in [Users -> [Devices -> DeviceRecords]]
      /\ binding \in [Tokens -> Bindings] /\ generation \in Nat
  BY DEF TypeInv, PushTypeOK
<1>2. rec.id # 0 /\ rec.token \in Tokens /\ rec \in DeviceRecords
  BY <1>1 DEF DeviceGone, Numbered, DeviceRecords
<1>3. /\ \A v \in Users, e \in Devices : device[v][e].id \in Nat /\ device[v][e].id <= generation
      /\ \A t \in Tokens : binding[t].id \in Nat /\ binding[t].id <= generation
  BY <1>1 DEF Numbered, DeviceRecords, Bindings
<1>4. RecordsTyped
  BY DEF RecordsTyped, TypeInv, PushTypeOK, Finite
<1>5. CASE UNCHANGED records
  BY <1>1, <1>3, <1>4, <1>5 DEF records, RecordsTyped, RecordsMove, ListMoves, DeviceMoves, BindingMoves
<1>6. CASE /\ device' = [device EXCEPT ![u][d].enabled = FALSE]
           /\ binding' = [binding EXCEPT ![rec.token].enabled = FALSE]
           /\ UNCHANGED <<registry, generation>>
  <2>1. /\ device'[u][d] = [rec EXCEPT !.enabled = FALSE]
        /\ \A v \in Users, e \in Devices : ~(v = u /\ e = d) => device'[v][e] = device[v][e]
    BY <1>1, <1>6
  <2>2. /\ device'[u][d].id = rec.id /\ device'[u][d].token = rec.token /\ ~device'[u][d].enabled
    BY <1>2, <2>1 DEF DeviceRecords
  <2>3. /\ binding'[rec.token] = [binding[rec.token] EXCEPT !.enabled = FALSE]
        /\ \A t \in Tokens : t # rec.token => binding'[t] = binding[t]
    BY <1>1, <1>2, <1>6
  <2>4. LET b == binding[rec.token]
            a == binding'[rec.token]
        IN a.id = b.id /\ a.user = b.user /\ a.device = b.device /\ ~a.enabled
    BY <1>1, <1>2, <2>3 DEF Bindings
  <2>5. \A v \in Users, e \in Devices : DeviceMoves(v, e) /\ device'[v][e].id <= generation'
    BY <1>1, <1>3, <1>6, <2>1, <2>2 DEF DeviceMoves
  <2>6. \A t \in Tokens : BindingMoves(t) /\ binding'[t].id <= generation'
    BY <1>1, <1>2, <1>3, <1>6, <2>3, <2>4 DEF BindingMoves
  <2>7. RecordsMove
    BY <1>6, <2>5, <2>6 DEF RecordsMove, ListMoves
  <2>8. [rec EXCEPT !.enabled = FALSE] \in DeviceRecords
    BY <1>2 DEF DeviceRecords
  <2>9. device' \in [Users -> [Devices -> DeviceRecords]]
    <3> DEFINE off == [rec EXCEPT !.enabled = FALSE]
    <3>1. device' = [device EXCEPT ![u][d] = off] BY <1>1, <1>6
    <3> HIDE DEF off
    <3> QED BY <1>1, <2>8, <3>1 DEF off
  <2>10. binding' \in [Tokens -> Bindings]
    BY <1>1, <1>2, <1>6 DEF Bindings
  <2> QED BY <1>4, <1>6, <2>7, <2>9, <2>10 DEF RecordsTyped
<1> QED BY <1>5, <1>6 DEF DeviceGone, Disable

----------------------------------------------------------------------------
(***************************************************************************)
(* What a call has read stays true of the items, whatever moves them.      *)
(***************************************************************************)

\* Call b takes no step.
Waits(b) == call'[b] = call[b] /\ pc'[b] = pc[b]

LEMMA Stable ==
  ASSUME TypeInv, Numbered, RecordsMove, RecordsTyped', NEW b \in Calls, CallInv(b), Waits(b)
  PROVE  CallInv(b)' /\ (Beaten(b) => Beaten(b)')
<1> DEFINE k == call[b]
           rec == device[k.user][k.device]
           now == device'[k.user][k.device]
<1>1. call'[b] = k /\ pc'[b] = pc[b]
  BY DEF Waits
<1>2. generation \in Nat /\ generation' \in Nat /\ generation' \in {generation, generation + 1}
  BY DEF TypeInv, PushTypeOK, RecordsTyped, RecordsMove
<1>3. CASE pc[b] = "idle"
  BY <1>1, <1>3 DEF CallInv, Typed, Slotted, ListRead, DeviceRead, BindingRead, ScopeRead,
     ScopeReady, Beaten, HasDevice
<1>4. CASE pc[b] # "idle"
  <2>1. k \in CallRecords /\ k.user \in Users /\ k.device \in Devices /\ k.token \in Tokens
        /\ k.registry.version \in Nat /\ k.current.id \in Nat
        /\ k.scope.current[1] \in Nat /\ k.scope.previous.id \in Nat
    BY <1>4 DEF CallInv, Typed, CallRecords, Registries, DeviceRecords, Scopes, Bindings
  <2>2. /\ rec.id \in Nat /\ now.id \in Nat /\ binding[k.token].id \in Nat
        /\ registry[k.user].version \in Nat /\ registry'[k.user].version \in Nat
    BY <2>1 DEF TypeInv, PushTypeOK, RecordsTyped, Registries, DeviceRecords, Bindings
  <2>3. DeviceMoves(k.user, k.device) /\ ListMoves(k.user) /\ BindingMoves(k.token)
    BY <2>1 DEF RecordsMove
  <2>4. Typed(b)' /\ Slotted(b)' /\ ScopeReady(b)'
    BY <1>1 DEF CallInv, Typed, Slotted, ScopeReady
  <2>5. ListRead(b)' /\ (SameVersion(k)' => SameVersion(k))
    BY <1>1, <1>4, <2>1, <2>2, <2>3 DEF CallInv, ListRead, ListMoves, SameVersion
  <2>6. DeviceRead(b)'
    BY <1>1, <1>2, <2>1, <2>2, <2>3 DEF CallInv, DeviceRead, DeviceMoves
  <2>7. BindingRead(b)'
    <3> SUFFICES ASSUME pc[b] = "ready", k.current.token \in Tokens,
                        Matches(binding'[k.current.token], k.user, k.device, k.current)
                 PROVE  Matches(k.old, k.user, k.device, k.current)
      BY <1>1 DEF BindingRead
    <3>1. BindingMoves(k.current.token) BY DEF RecordsMove
    <3>2. k.current.id <= generation BY DEF CallInv, DeviceRead, HasDevice
    <3>3. Matches(binding[k.current.token], k.user, k.device, k.current)
      BY <1>2, <2>1, <3>1, <3>2 DEF BindingMoves, Matches
    <3> QED BY <3>3 DEF CallInv, BindingRead
  <2>8. ScopeRead(b)'
    BY <1>1, <1>2, <1>4, <2>1, <2>2, <2>3 DEF CallInv, ScopeRead, DeviceMoves
  <2>9. Beaten(b) => Beaten(b)'
    <3> SUFFICES ASSUME Beaten(b), k.op = "register"
                 PROVE  \/ now.id # k.scope.current[1]
                        \/ binding'[k.token].id # k.scope.previous.id
                        \/ /\ k.scope.current[2] /\ ~now.enabled
                           /\ pc[b] \in HasDevice /\ k.current.enabled => ~SameVersion(k)'
      BY <1>1 DEF Beaten
    <3>1. k.scope.current[1] <= generation /\ k.scope.previous.id <= generation
      BY <1>4 DEF CallInv, Beaten, ScopeRead
    <3>2. CASE rec.id # k.scope.current[1]
      BY <1>2, <2>1, <2>2, <2>3, <3>1, <3>2 DEF DeviceMoves
    <3>3. CASE binding[k.token].id # k.scope.previous.id
      BY <1>2, <2>1, <2>2, <2>3, <3>1, <3>3 DEF BindingMoves
    <3>4. CASE /\ k.scope.current[2] /\ ~rec.enabled
               /\ pc[b] \in HasDevice /\ k.current.enabled => ~SameVersion(k)
      <4>1. ~now.enabled \/ now.id = generation + 1
        BY <2>3, <3>4 DEF DeviceMoves
      <4> QED BY <1>2, <2>1, <2>5, <3>1, <3>4, <4>1
    <3> QED BY <3>2, <3>3, <3>4 DEF Beaten
  <2> QED BY <2>4, <2>5, <2>6, <2>7, <2>8, <2>9 DEF CallInv
<1> QED BY <1>3, <1>4

----------------------------------------------------------------------------
(***************************************************************************)
(* The items: no live binding is left behind.                              *)
(***************************************************************************)

\* A transaction leaves the numbers and the live bindings in order.
LEMMA WriteKeeps ==
  ASSUME IInv, NEW c \in Calls, pc[c] = "ready", MayWrite(call[c]), Written(c)
  PROVE  Numbered' /\ BindingHasDevice'
<1> DEFINE k == call[c]
<1>1. RecordsMove /\ RecordsTyped' /\ CallInv(c)
  BY WriteMoves, WrittenShape DEF IInv, CallInv, RecordsTyped
<1>2. k \in CallRecords /\ k.user \in Users /\ k.device \in Devices /\ k.token \in Tokens
      /\ k.op \in {"register", "unregister"}
  BY <1>1 DEF CallInv, Typed, CallRecords
<1>3. /\ registry \in [Users -> Registries] /\ device \in [Users -> [Devices -> DeviceRecords]]
      /\ binding \in [Tokens -> Bindings] /\ generation \in Nat
  BY DEF IInv, TypeInv, PushTypeOK
<1>4. Numbered'
  <2>1. ASSUME NEW u \in Users, NEW d \in Devices
        PROVE  /\ device'[u][d].id = 0 => ~device'[u][d].enabled
               /\ device'[u][d].id # 0 => device'[u][d].token \in Tokens
    <3>1. DeviceMoves(u, d) BY <1>1 DEF RecordsMove
    <3>2. device[u][d].id \in Nat BY <1>3 DEF DeviceRecords
    <3> QED BY <1>3, <3>1, <3>2 DEF IInv, Numbered, DeviceMoves
  <2>2. ASSUME NEW t \in Tokens, binding'[t].enabled
        PROVE  binding'[t].user \in Users /\ binding'[t].device \in Devices
    <3>1. BindingMoves(t) BY <1>1 DEF RecordsMove
    <3> QED BY <2>2, <3>1 DEF IInv, Numbered, BindingMoves
  <2> QED BY <1>1, <2>1, <2>2 DEF Numbered, RecordsMove
<1>5. BindingHasDevice'
  <2> SUFFICES ASSUME NEW t \in Tokens, binding'[t].enabled
               PROVE  LET b == binding'[t] IN
                        /\ b.device \in registry'[b.user].devices
                        /\ device'[b.user][b.device] = [token |-> t, id |-> b.id, enabled |-> TRUE]
    BY DEF BindingHasDevice
  <2>0. k.registry = registry[k.user]
    BY <1>1 DEF CallInv, ListRead, MayWrite
  <2>1. CASE k.op = "register" /\ t = k.token
    <3>1. ~Releases(k, t) BY <2>1 DEF Releases
    <3>2. binding'[t] = [user |-> k.user, device |-> k.device, id |-> generation + 1, enabled |-> TRUE]
      BY <1>3, <2>1, <3>1 DEF Written
    <3>3. device'[k.user][k.device] = [token |-> k.token, id |-> generation + 1, enabled |-> TRUE]
      BY <1>2, <1>3, <2>1 DEF Written
    <3>4. k.device \in registry'[k.user].devices
      BY <1>2, <1>3, <2>1 DEF Written
    <3> QED BY <2>1, <3>2, <3>3, <3>4
  <2>2. CASE ~(k.op = "register" /\ t = k.token)
    <3>1. ~Releases(k, t)
      <4> SUFFICES ASSUME Releases(k, t) PROVE FALSE
        OBVIOUS
      <4>1. binding'[t] = [binding[t] EXCEPT !.enabled = FALSE] /\ binding[t] \in Bindings
        BY <1>3, <2>2 DEF Written
      <4>2. ~binding'[t].enabled BY <4>1 DEF Bindings
      <4> QED BY <4>2
    <3>2. binding'[t] = binding[t]
      BY <1>3, <2>2, <3>1 DEF Written
    <3> DEFINE b == binding[t]
    <3>3. /\ b.device \in registry[b.user].devices
          /\ device[b.user][b.device] = [token |-> t, id |-> b.id, enabled |-> TRUE]
          /\ b.user \in Users /\ b.device \in Devices
      BY <3>2 DEF IInv, BindingHasDevice, Numbered
    <3>4. ~(b.user = k.user /\ b.device = k.device)
      <4> SUFFICES ASSUME b.user = k.user, b.device = k.device PROVE FALSE
        OBVIOUS
      <4>1. device[k.user][k.device].id = k.current.id /\ device[k.user][k.device].id = b.id
        BY <3>3 DEF MayWrite
      <4>2. k.current.token = t
        BY <1>1, <3>3, <4>1 DEF CallInv, DeviceRead, HasDevice
      <4>3. b.id # 0
        BY <3>3, <4>1 DEF IInv, Numbered
      <4>4. Matches(b, k.user, k.device, k.current)
        BY <4>1, <4>3 DEF Matches
      <4>5. Matches(k.old, k.user, k.device, k.current)
        BY <1>1, <4>2, <4>4 DEF CallInv, BindingRead
      <4> QED BY <1>2, <2>2, <3>1, <4>2, <4>5 DEF Releases
    <3>5. device'[b.user][b.device] = device[b.user][b.device]
      BY <1>2, <1>3, <3>3, <3>4 DEF Written
    <3>6. b.device \in registry'[b.user].devices
      BY <1>2, <1>3, <2>0, <3>3, <3>4 DEF Written
    <3> QED BY <3>2, <3>3, <3>5, <3>6
  <2> QED BY <2>1, <2>2
<1> QED BY <1>4, <1>5

\* So does a report that a device is gone.
LEMMA GoneKeeps ==
  ASSUME IInv, NEW u \in Users, NEW d \in Devices, DeviceGone(u, d)
  PROVE  Numbered' /\ BindingHasDevice'
<1> DEFINE rec == device[u][d]
<1>1. RecordsMove /\ RecordsTyped'
  BY GoneMoves DEF IInv
<1>2. /\ registry \in [Users -> Registries] /\ device \in [Users -> [Devices -> DeviceRecords]]
      /\ binding \in [Tokens -> Bindings] /\ generation \in Nat
  BY DEF IInv, TypeInv, PushTypeOK
<1>3. rec.id # 0 /\ rec.token \in Tokens
  BY DEF DeviceGone, IInv, Numbered
<1>4. CASE UNCHANGED records
  BY <1>4 DEF records, IInv, Numbered, BindingHasDevice
<1>5. CASE /\ device' = [device EXCEPT ![u][d].enabled = FALSE]
           /\ binding' = [binding EXCEPT ![rec.token].enabled = FALSE]
           /\ UNCHANGED <<registry, generation>>
  <2>1. Numbered'
    <3>1. ASSUME NEW v \in Users, NEW e \in Devices
          PROVE  /\ device'[v][e].id = 0 => ~device'[v][e].enabled
                 /\ device'[v][e].id # 0 => device'[v][e].token \in Tokens
      <4>1. DeviceMoves(v, e) BY <1>1 DEF RecordsMove
      <4>2. device[v][e].id \in Nat BY <1>2 DEF DeviceRecords
      <4> QED BY <1>2, <4>1, <4>2 DEF IInv, Numbered, DeviceMoves
    <3>2. ASSUME NEW t \in Tokens, binding'[t].enabled
          PROVE  binding'[t].user \in Users /\ binding'[t].device \in Devices
      <4>1. BindingMoves(t) BY <1>1 DEF RecordsMove
      <4> QED BY <3>2, <4>1 DEF IInv, Numbered, BindingMoves
    <3> QED BY <1>1, <3>1, <3>2 DEF Numbered, RecordsMove
  <2>2. BindingHasDevice'
    <3> SUFFICES ASSUME NEW t \in Tokens, binding'[t].enabled
                 PROVE  LET b == binding'[t] IN
                          /\ b.device \in registry'[b.user].devices
                          /\ device'[b.user][b.device] = [token |-> t, id |-> b.id, enabled |-> TRUE]
      BY DEF BindingHasDevice
    <3>1. t # rec.token
      <4> SUFFICES ASSUME t = rec.token PROVE FALSE
        OBVIOUS
      <4>1. binding'[t] = [binding[t] EXCEPT !.enabled = FALSE] /\ binding[t] \in Bindings
        BY <1>2, <1>3, <1>5
      <4> QED BY <4>1 DEF Bindings
    <3>2. binding'[t] = binding[t] BY <1>2, <1>3, <1>5, <3>1
    <3> DEFINE b == binding[t]
    <3>3. /\ b.device \in registry[b.user].devices
          /\ device[b.user][b.device] = [token |-> t, id |-> b.id, enabled |-> TRUE]
          /\ b.user \in Users /\ b.device \in Devices
      BY <3>2 DEF IInv, BindingHasDevice, Numbered
    <3>4. ~(b.user = u /\ b.device = d) BY <3>1, <3>3
    <3>5. device'[b.user][b.device] = device[b.user][b.device]
      BY <1>2, <1>5, <3>3, <3>4
    <3> QED BY <1>5, <3>2, <3>3, <3>5
  <2> QED BY <2>1, <2>2
<1> QED BY <1>4, <1>5 DEF DeviceGone, Disable

\* A step that only reads.
LEMMA ReadKeeps ==
  ASSUME IInv, UNCHANGED records
  PROVE  RecordsMove /\ RecordsTyped' /\ Numbered' /\ BindingHasDevice'
<1>1. /\ registry \in [Users -> Registries] /\ device \in [Users -> [Devices -> DeviceRecords]]
      /\ binding \in [Tokens -> Bindings] /\ generation \in Nat /\ Numbered
  BY DEF IInv, TypeInv, PushTypeOK
<1>2. RecordsMove
  BY <1>1 DEF records, RecordsMove, ListMoves, DeviceMoves, BindingMoves, Numbered
<1> QED
  BY <1>1, <1>2 DEF records, RecordsTyped, IInv, TypeInv, PushTypeOK, Finite, Numbered, BindingHasDevice

----------------------------------------------------------------------------
(***************************************************************************)
(* The call that takes the step.                                           *)
(***************************************************************************)

\* What a step of call c leaves of the calls.
Others(c) ==
  \A b \in Calls \ {c} : Waits(b) /\ (b \in overtaken' => b \in overtaken \/ Beaten(b)')
Goal(c) ==
  /\ CallInv(c)' /\ (c \in overtaken' => Beaten(c)') /\ Others(c)
  /\ call' \in [Calls -> CallRecords \cup {NoCall}]
  /\ pc' \in [Calls -> {"idle", "start", "listed", "found", "ready"}]
  /\ overtaken' \subseteq Calls /\ revoked' \subseteq Calls /\ made' \in Nat

CallFacts ==
  /\ call \in [Calls -> CallRecords \cup {NoCall}]
  /\ pc \in [Calls -> {"idle", "start", "listed", "found", "ready"}]
  /\ overtaken \subseteq Calls /\ revoked \subseteq Calls /\ made \in Nat

LEMMA Facts == IInv => CallFacts /\ RecordsTyped
  BY DEF IInv, TypeInv, PushTypeOK, Finite, CallFacts, RecordsTyped

\* A call that returns has nothing to keep.
LEMMA ReturnsGoal ==
  ASSUME IInv, NEW c \in Calls, Returns(c)
  PROVE  Goal(c)
<1>1. CallFacts BY Facts
<1>2. pc'[c] = "idle" /\ c \notin overtaken'
  BY <1>1 DEF CallFacts, Returns
<1>3. CallInv(c)'
  BY <1>2 DEF CallInv, Typed, Slotted, ListRead, DeviceRead, BindingRead, ScopeRead, ScopeReady, HasDevice
<1>4. Others(c)
  BY <1>1 DEF CallFacts, Returns, Others, Waits
<1> QED BY <1>1, <1>2, <1>3, <1>4 DEF Goal, CallFacts, Returns

\* A new call has read nothing but the list.
LEMMA BeginGoal ==
  ASSUME IInv, NEW c \in Calls, Begin(c)
  PROVE  Goal(c)
<1>1. CallFacts /\ RecordsTyped BY Facts
<1>2. PICK op \in {"register", "unregister"}, u \in Users, d \in Devices, t \in Tokens,
           upgraded \in BOOLEAN :
        call' = [call EXCEPT ![c] =
                  [op |-> op, user |-> u, device |-> d, token |-> t, upgraded |-> upgraded,
                   tries |-> 0, scope |-> NoScope, registry |-> registry[u],
                   current |-> NoDevice, previous |-> Unbound, old |-> Unbound]]
  BY DEF Begin
<1> DEFINE k == [op |-> op, user |-> u, device |-> d, token |-> t, upgraded |-> upgraded,
                 tries |-> 0, scope |-> NoScope, registry |-> registry[u],
                 current |-> NoDevice, previous |-> Unbound, old |-> Unbound]
<1>3. NoScope \in Scopes /\ NoDevice \in DeviceRecords /\ Unbound \in Bindings
      /\ registry[u] \in Registries
  BY <1>1 DEF NoScope, Scopes, NoDevice, DeviceRecords, Unbound, Bindings, RecordsTyped
<1>4. k \in CallRecords BY <1>3 DEF CallRecords
<1>5. k.registry = registry[k.user] /\ k.user = u /\ k.scope = NoScope
  OBVIOUS
<1>6. call'[c] = k /\ pc'[c] = "start" /\ UNCHANGED records
  BY <1>1, <1>2 DEF Begin, CallFacts
<1> HIDE DEF k
<1>7. Typed(c)'
  BY <1>1, <1>4, <1>5, <1>6 DEF Typed, RecordsTyped
<1>8. ListRead(c)'
  BY <1>1, <1>3, <1>5, <1>6 DEF ListRead, RecordsTyped, Registries, records
<1>9. CallInv(c)'
  BY <1>5, <1>6, <1>7, <1>8 DEF CallInv, Slotted, DeviceRead, BindingRead, ScopeRead, ScopeReady, HasDevice
<1>10. c \notin overtaken'
  BY DEF Begin, IInv, Beaten
<1>11. Others(c)
  BY <1>1, <1>2 DEF CallFacts, Begin, Others, Waits
<1>12. call' \in [Calls -> CallRecords \cup {NoCall}]
  BY <1>1, <1>2, <1>4 DEF CallFacts, k
<1> QED BY <1>1, <1>9, <1>10, <1>11, <1>12 DEF Goal, CallFacts, Begin

\* The list is read again.
LEMMA ReadRegistryGoal ==
  ASSUME IInv, NEW c \in Calls, ReadRegistry(c)
  PROVE  Goal(c)
<1> DEFINE k == call[c]
           l == [k EXCEPT !.registry = registry[k.user]]
<1>1. CallFacts /\ RecordsTyped /\ CallInv(c) BY Facts DEF IInv
<1>2. pc[c] = "start" /\ k \in CallRecords /\ k.user \in Users
  BY <1>1 DEF ReadRegistry, CallInv, Typed, CallRecords
<1>3. registry[k.user] \in Registries BY <1>1, <1>2 DEF RecordsTyped
<1>4. l \in CallRecords BY <1>2, <1>3 DEF CallRecords
<1>5. /\ l.registry = registry[l.user] /\ l.user = k.user /\ l.scope = k.scope /\ l.op = k.op
      /\ l.device = k.device /\ l.token = k.token
  BY <1>2 DEF CallRecords
<1>6. call' = [call EXCEPT ![c] = l]
  BY <1>1 DEF ReadRegistry, CallFacts
<1>7. call'[c] = l /\ pc'[c] = "listed" /\ UNCHANGED records /\ UNCHANGED overtaken
  BY <1>1, <1>6 DEF ReadRegistry, CallFacts, Goes
<1> HIDE DEF l
<1>8. Typed(c)'
  BY <1>1, <1>2, <1>4, <1>5, <1>7 DEF Typed, RecordsTyped
<1>9. ListRead(c)'
  BY <1>1, <1>2, <1>3, <1>5, <1>7 DEF ListRead, RecordsTyped, Registries, records
<1>10. ScopeRead(c)'
  BY <1>1, <1>2, <1>5, <1>7 DEF CallInv, ScopeRead, records
<1>11. CallInv(c)'
  BY <1>7, <1>8, <1>9, <1>10 DEF CallInv, Slotted, DeviceRead, BindingRead, ScopeReady, HasDevice
<1>12. c \in overtaken' => Beaten(c)'
  BY <1>2, <1>5, <1>7 DEF IInv, Beaten, records, HasDevice
<1>13. Others(c)
  BY <1>1, <1>6 DEF CallFacts, ReadRegistry, Goes, Others, Waits
<1>14. call' \in [Calls -> CallRecords \cup {NoCall}]
  BY <1>1, <1>4, <1>6 DEF CallFacts
<1> QED BY <1>1, <1>11, <1>12, <1>13, <1>14 DEF Goal, CallFacts, ReadRegistry, Goes

\* The device record is read.
LEMMA ReadDeviceGoal ==
  ASSUME IInv, NEW c \in Calls, ReadDevice(c)
  PROVE  Goal(c)
<1> DEFINE k == call[c]
           rec == device[k.user][k.device]
           l == [k EXCEPT !.current = rec]
<1>1. CASE Returns(c) BY <1>1, ReturnsGoal
<1>2. CASE /\ ~(IF k.op = "register" THEN Full(k) \/ Unchanged(k, rec) ELSE rec.id = 0)
           /\ call' = [call EXCEPT ![c].current = rec] /\ Goes(c, "found")
  <2>1. CallFacts /\ RecordsTyped /\ CallInv(c) /\ Numbered BY Facts DEF IInv
  <2>2. /\ pc[c] = "listed" /\ k \in CallRecords /\ k.user \in Users /\ k.device \in Devices
        /\ k.registry \in Registries
    BY <2>1 DEF ReadDevice, CallInv, Typed, CallRecords
  <2>3. rec \in DeviceRecords BY <2>1, <2>2 DEF RecordsTyped
  <2>4. l \in CallRecords BY <2>2, <2>3 DEF CallRecords
  <2>5. /\ l.registry = k.registry /\ l.user = k.user /\ l.scope = k.scope /\ l.op = k.op
        /\ l.device = k.device /\ l.token = k.token /\ l.current = rec
    BY <2>2 DEF CallRecords
  <2>6. call' = [call EXCEPT ![c] = l]
    BY <1>2, <2>1 DEF CallFacts
  <2>7. call'[c] = l /\ pc'[c] = "found" /\ UNCHANGED records /\ UNCHANGED overtaken
    BY <1>2, <2>1, <2>6 DEF ReadDevice, CallFacts, Goes
  <2> HIDE DEF l
  <2>8. Typed(c)'
    BY <2>1, <2>2, <2>4, <2>5, <2>7 DEF CallInv, Typed
  <2>9. ListRead(c)' /\ ScopeRead(c)'
    BY <2>1, <2>2, <2>5, <2>7 DEF CallInv, ListRead, ScopeRead, SameVersion, records
  <2>10. Slotted(c)'
    <3> SUFFICES ASSUME k.op = "register", k.device \notin k.registry.devices
                 PROVE  Cardinality(k.registry.devices) < MaxDevices
      BY <2>5, <2>7 DEF Slotted
    <3>1. ~(Cardinality(k.registry.devices) >= MaxDevices) BY <1>2 DEF Full
    <3>2. Cardinality(k.registry.devices) \in Nat /\ MaxDevices \in Nat
      BY <2>1, <2>2, FS_CardinalityType, PushAssumption DEF CallInv, Typed
    <3> QED BY <3>1, <3>2
  <2>11. DeviceRead(c)'
    BY <2>1, <2>2, <2>5, <2>7 DEF DeviceRead, Numbered, records
  <2>12. CallInv(c)'
    BY <2>7, <2>8, <2>9, <2>10, <2>11 DEF CallInv, BindingRead, ScopeReady
  <2>13. c \in overtaken' => Beaten(c)'
    BY <2>2, <2>5, <2>7 DEF IInv, Beaten, records, HasDevice
  <2>14. Others(c)
    BY <1>2, <2>1, <2>6 DEF CallFacts, Goes, Others, Waits
  <2>15. call' \in [Calls -> CallRecords \cup {NoCall}]
    BY <2>1, <2>4, <2>6 DEF CallFacts
  <2> QED BY <1>2, <2>1, <2>12, <2>13, <2>14, <2>15 DEF Goal, CallFacts, Goes
<1> QED BY <1>1, <1>2 DEF ReadDevice

\* The bindings are read, and a later attempt finds the first one's scope.
LEMMA ReadBindingsGoal ==
  ASSUME IInv, NEW c \in Calls, ReadBindings(c)
  PROVE  Goal(c)
<1> DEFINE k == call[c]
           rec == device[k.user][k.device]
           b == binding[k.token]
           old == IF k.current.token \in Tokens THEN binding[k.current.token] ELSE Unbound
           l == [k EXCEPT !.previous = b, !.scope = Scope(k.current, b), !.old = old]
<1>1. CASE Returns(c) BY <1>1, ReturnsGoal
<1>2. CASE /\ k.op = "register" => SameScope(k, b)
           /\ call' = [call EXCEPT ![c].previous = b, ![c].scope = Scope(k.current, b),
                          ![c].old = old]
           /\ Goes(c, "ready")
  <2>1. CallFacts /\ RecordsTyped /\ CallInv(c) /\ Numbered BY Facts DEF IInv
  <2>2. /\ pc[c] = "found" /\ k \in CallRecords /\ k.user \in Users /\ k.device \in Devices
        /\ k.token \in Tokens /\ k.current \in DeviceRecords
    BY <2>1 DEF ReadBindings, CallInv, Typed, CallRecords
  <2>3. b \in Bindings /\ old \in Bindings
    BY <2>1, <2>2 DEF RecordsTyped, Bindings, Unbound
  <2>4. Scope(k.current, b) \in Scopes /\ Scope(k.current, b).current[1] = k.current.id
        /\ Scope(k.current, b).current[2] = k.current.enabled
        /\ Scope(k.current, b).previous = b
    BY <2>2, <2>3 DEF Scope, Scopes, DeviceRecords
  <2>5. l \in CallRecords BY <2>2, <2>3, <2>4 DEF CallRecords
  <2>6. /\ l.registry = k.registry /\ l.user = k.user /\ l.op = k.op
        /\ l.device = k.device /\ l.token = k.token /\ l.current = k.current
        /\ l.scope = Scope(k.current, b) /\ l.previous = b /\ l.old = old
    BY <2>2 DEF CallRecords
  <2>7. call' = [call EXCEPT ![c] = l]
    BY <1>2, <2>1 DEF CallFacts
  <2>8. call'[c] = l /\ pc'[c] = "ready" /\ UNCHANGED records /\ UNCHANGED overtaken
    BY <1>2, <2>1, <2>7 DEF ReadBindings, CallFacts, Goes
  <2> HIDE DEF l
  <2>9. k.current.id <= generation /\ (k.current.id = 0 => ~k.current.enabled)
        /\ (k.current.id = rec.id /\ rec.enabled => k.current.enabled)
    BY <2>1, <2>2 DEF CallInv, DeviceRead, HasDevice
  <2>10. Scope(k.current, b) # NoScope
    <3> SUFFICES ASSUME Scope(k.current, b) = NoScope PROVE FALSE
      OBVIOUS
    <3>1. NoScope.current[1] = 0 /\ NoScope.current[2] BY DEF NoScope
    <3> QED BY <2>4, <2>9, <3>1
  <2>11. Typed(c)' /\ Slotted(c)' /\ ListRead(c)' /\ DeviceRead(c)' /\ ScopeReady(c)'
    BY <2>1, <2>2, <2>5, <2>6, <2>8
       DEF CallInv, Typed, Slotted, ListRead, DeviceRead, ScopeReady, SameVersion, records, HasDevice
  <2>12. BindingRead(c)'
    BY <2>6, <2>8 DEF BindingRead, Matches, records
  <2>13. ScopeRead(c)'
    <3> SUFFICES /\ k.current.id <= generation /\ b.id <= generation
                 /\ ~k.current.enabled /\ k.current.id = rec.id => ~rec.enabled
      BY <2>2, <2>4, <2>6, <2>8 DEF ScopeRead, records
    <3>1. b.id <= generation BY <2>1, <2>2 DEF Numbered
    <3> QED BY <2>9, <3>1
  <2>14. CallInv(c)'
    BY <2>11, <2>12, <2>13 DEF CallInv
  <2>15. c \in overtaken' => Beaten(c)'
    <3> SUFFICES ASSUME c \in overtaken, k.op = "register"
                 PROVE  \/ rec.id # k.current.id
                        \/ binding[k.token].id # b.id
                        \/ /\ k.current.enabled /\ ~rec.enabled
                           /\ k.current.enabled => ~SameVersion(k)
      BY <2>4, <2>6, <2>8, <2>10 DEF Beaten, records, SameVersion
    <3>1. Beaten(c) BY DEF IInv
    <3>2. k.scope = Scope(k.current, b)
      BY <1>2, <3>1 DEF SameScope, Beaten
    <3> QED BY <2>2, <2>4, <3>1, <3>2 DEF Beaten, HasDevice
  <2>16. Others(c)
    BY <1>2, <2>1, <2>7 DEF CallFacts, Goes, Others, Waits
  <2>17. call' \in [Calls -> CallRecords \cup {NoCall}]
    BY <2>1, <2>5, <2>7 DEF CallFacts
  <2> QED BY <1>2, <2>1, <2>14, <2>15, <2>16, <2>17 DEF Goal, CallFacts, Goes
<1> QED BY <1>1, <1>2 DEF ReadBindings

\* The transaction is tried again.
LEMMA RetryGoal ==
  ASSUME IInv, NEW c \in Calls, pc[c] = "ready", UNCHANGED records,
         call' = [call EXCEPT ![c].tries = @ + 1], Goes(c, "start")
  PROVE  Goal(c)
<1> DEFINE k == call[c]
           l == [k EXCEPT !.tries = @ + 1]
<1>1. CallFacts /\ RecordsTyped /\ CallInv(c) BY Facts DEF IInv
<1>2. k \in CallRecords /\ k.user \in Users
  BY <1>1 DEF CallInv, Typed, CallRecords
<1>3. k.tries + 1 \in Nat BY <1>2 DEF CallRecords
<1>4. l \in CallRecords BY <1>2, <1>3 DEF CallRecords
<1>5. /\ l.registry = k.registry /\ l.user = k.user /\ l.scope = k.scope /\ l.op = k.op
      /\ l.device = k.device /\ l.token = k.token
  BY <1>2 DEF CallRecords
<1>6. call' = [call EXCEPT ![c] = l]
  BY <1>1 DEF CallFacts
<1>7. call'[c] = l /\ pc'[c] = "start" /\ UNCHANGED overtaken
  BY <1>1, <1>6 DEF CallFacts, Goes
<1> HIDE DEF l
<1>8. Typed(c)' /\ ListRead(c)' /\ ScopeRead(c)'
  BY <1>1, <1>2, <1>4, <1>5, <1>7 DEF CallInv, Typed, ListRead, ScopeRead, SameVersion, records
<1>9. CallInv(c)'
  BY <1>7, <1>8 DEF CallInv, Slotted, DeviceRead, BindingRead, ScopeReady, HasDevice
<1>10. c \in overtaken' => Beaten(c)'
  BY <1>2, <1>5, <1>7 DEF IInv, Beaten, records, HasDevice
<1>11. Others(c)
  BY <1>1, <1>6 DEF CallFacts, Goes, Others, Waits
<1>12. call' \in [Calls -> CallRecords \cup {NoCall}]
  BY <1>1, <1>4, <1>6 DEF CallFacts
<1> QED BY <1>1, <1>9, <1>10, <1>11, <1>12 DEF Goal, CallFacts, Goes

\* What the transaction of call c does to the calls that had read its device or token.
LEMMA WriteGoal ==
  ASSUME IInv, NEW c \in Calls, pc[c] = "ready", MayWrite(call[c]), Written(c),
         pc' = [pc EXCEPT ![c] = "idle"], call' = [call EXCEPT ![c] = NoCall],
         overtaken' = (overtaken \cup Overtakes(c)) \ {c},
         revoked' = (revoked \cup Revokes(c)) \ {c}, UNCHANGED made
  PROVE  Goal(c)
<1> DEFINE k == call[c]
<1>1. CallFacts /\ RecordsTyped /\ CallInv(c) BY Facts DEF IInv
<1>2. k \in CallRecords /\ k.user \in Users /\ k.device \in Devices /\ k.token \in Tokens
      /\ k.op \in {"register", "unregister"}
  BY <1>1 DEF CallInv, Typed, CallRecords
<1>3. pc'[c] = "idle" /\ c \notin overtaken'
  BY <1>1 DEF CallFacts
<1>4. CallInv(c)'
  BY <1>3 DEF CallInv, Typed, Slotted, ListRead, DeviceRead, BindingRead, ScopeRead, ScopeReady, HasDevice
<1>5. ASSUME NEW b \in Calls \ {c}, b \in Overtakes(c) PROVE Beaten(b)'
  <2> DEFINE j == call[b]
  <2>1. call'[b] = j /\ pc'[b] = pc[b] /\ CallInv(b)
    BY <1>1 DEF CallFacts, IInv
  <2>2. b \in Readers(c) BY <1>5 DEF Overtakes, SameDevice, SameToken
  <2>3. pc[b] # "idle" /\ j.scope # NoScope /\ j \in CallRecords
    BY <2>1, <2>2 DEF Readers, CallInv, Typed
  <2>4. j.scope.current[1] <= generation /\ j.scope.previous.id <= generation
        /\ j.scope.current[1] \in Nat /\ j.scope.previous.id \in Nat /\ generation \in Nat
        /\ (~j.scope.current[2] /\ j.scope.current[1] = device[j.user][j.device].id
              => ~device[j.user][j.device].enabled)
    BY <1>1, <2>1, <2>3 DEF CallInv, ScopeRead, RecordsTyped, CallRecords, Scopes, Bindings
  <2> SUFFICES ASSUME j.op = "register"
               PROVE  \/ device'[j.user][j.device].id # j.scope.current[1]
                      \/ binding'[j.token].id # j.scope.previous.id
                      \/ /\ j.scope.current[2] /\ ~device'[j.user][j.device].enabled
                         /\ pc[b] \in HasDevice /\ j.current.enabled => ~SameVersion(j)'
    BY <2>1, <2>3 DEF Beaten
  <2>5. CASE k.op = "register" /\ b \in SameDevice(c)
    <3>1. device'[k.user][k.device].id = generation + 1
      BY <1>1, <1>2, <2>5 DEF Written, RecordsTyped
    <3> QED BY <2>4, <2>5, <3>1 DEF SameDevice
  <2>6. CASE k.op = "register" /\ b \in SameToken(c)
    <3>1. ~Releases(k, k.token) BY <2>6 DEF Releases
    <3>2. binding'[k.token].id = generation + 1
      BY <1>1, <1>2, <2>6, <3>1 DEF Written, RecordsTyped
    <3> QED BY <2>4, <2>6, <3>2 DEF SameToken
  <2>7. CASE k.op = "unregister" /\ device[k.user][k.device].enabled /\ b \in SameDevice(c)
    <3>1. j.user = k.user /\ j.device = k.device BY <2>7 DEF SameDevice
    <3>2. device'[k.user][k.device] = [device[k.user][k.device] EXCEPT !.enabled = FALSE]
          /\ device[k.user][k.device] \in DeviceRecords
      BY <1>1, <1>2, <2>7 DEF Written, RecordsTyped
    <3>3. device'[k.user][k.device].id = device[k.user][k.device].id
          /\ ~device'[k.user][k.device].enabled
      BY <3>2 DEF DeviceRecords
    <3>4. j.scope.current[2] \/ j.scope.current[1] # device[k.user][k.device].id
      BY <2>4, <2>7, <3>1
    <3>5. ~SameVersion(j)'
      <4>1. registry'[k.user].version = registry[k.user].version + 1
        BY <1>1, <1>2 DEF Written, RecordsTyped, MayWrite, SameVersion
      <4>2. j.registry.version <= registry[k.user].version
        BY <2>1, <2>3, <3>1 DEF CallInv, ListRead
      <4>3. j.registry.version \in Nat /\ registry[k.user].version \in Nat
        BY <1>1, <1>2, <2>3 DEF RecordsTyped, CallRecords, Registries
      <4> QED BY <2>1, <3>1, <4>1, <4>2, <4>3 DEF SameVersion
    <3> QED BY <3>1, <3>3, <3>4, <3>5
  <2> QED BY <1>2, <1>5, <2>5, <2>6, <2>7 DEF Overtakes
<1>6. Others(c)
  BY <1>1, <1>5 DEF CallFacts, Others, Waits
<1>7. overtaken' \subseteq Calls /\ revoked' \subseteq Calls
  BY <1>1 DEF CallFacts, Overtakes, Revokes, SameDevice, SameToken, Readers
<1>8. call' \in [Calls -> CallRecords \cup {NoCall}]
  BY <1>1 DEF CallFacts
<1> QED BY <1>1, <1>3, <1>4, <1>6, <1>7, <1>8 DEF Goal, CallFacts

----------------------------------------------------------------------------
\* The items stay in order and the calls keep what they have: the invariant.
LEMMA Assembled ==
  ASSUME IInv, RecordsMove, RecordsTyped', Numbered', BindingHasDevice', NEW c \in Calls, Goal(c)
  PROVE  IInv'
<1>1. TypeInv'
  BY DEF Goal, RecordsTyped, TypeInv, PushTypeOK, Finite
<1>2. \A b \in Calls : CallInv(b)'
  BY Stable DEF IInv, Goal, Others
<1>3. ASSUME NEW b \in overtaken' PROVE Beaten(b)'
  <2>1. b \in Calls BY DEF Goal
  <2>2. CASE b = c BY <2>2 DEF Goal
  <2>3. CASE b # c BY <2>1, <2>3, Stable DEF IInv, Goal, Others
  <2> QED BY <2>2, <2>3
<1> QED BY <1>1, <1>2, <1>3 DEF IInv

\* The invariant is inductive.
LEMMA StepPreserves == IInv /\ [PushNext]_pushVars => IInv'
<1> SUFFICES ASSUME IInv, [PushNext]_pushVars PROVE IInv'
  OBVIOUS
<1>1. ASSUME NEW c \in Calls, Begin(c) PROVE IInv'
  BY <1>1, ReadKeeps, BeginGoal, Assembled DEF Begin
<1>2. ASSUME NEW c \in Calls, ReadRegistry(c) PROVE IInv'
  BY <1>2, ReadKeeps, ReadRegistryGoal, Assembled DEF ReadRegistry
<1>3. ASSUME NEW c \in Calls, ReadDevice(c) PROVE IInv'
  BY <1>3, ReadKeeps, ReadDeviceGoal, Assembled DEF ReadDevice
<1>4. ASSUME NEW c \in Calls, ReadBindings(c) PROVE IInv'
  BY <1>4, ReadKeeps, ReadBindingsGoal, Assembled DEF ReadBindings
<1>5. ASSUME NEW c \in Calls, Write(c) PROVE IInv'
  <2>1. CASE /\ MayWrite(call[c]) /\ Written(c)
             /\ pc' = [pc EXCEPT ![c] = "idle"] /\ call' = [call EXCEPT ![c] = NoCall]
             /\ overtaken' = (overtaken \cup Overtakes(c)) \ {c}
             /\ revoked' = (revoked \cup Revokes(c)) \ {c}
             /\ UNCHANGED made
    <3>1. pc[c] = "ready" BY <1>5 DEF Write
    <3>2. RecordsMove BY <2>1, <3>1, WriteMoves DEF IInv, CallInv
    <3>3. RecordsTyped' BY <2>1, <3>1, WrittenShape DEF IInv, CallInv, RecordsTyped
    <3>4. Numbered' /\ BindingHasDevice' BY <2>1, <3>1, WriteKeeps
    <3>5. Goal(c) BY <2>1, <3>1, WriteGoal
    <3> QED BY <3>2, <3>3, <3>4, <3>5, Assembled
  <2>2. CASE call' = [call EXCEPT ![c].tries = @ + 1] /\ Goes(c, "start") /\ UNCHANGED records
    BY <1>5, <2>2, ReadKeeps, RetryGoal, Assembled DEF Write
  <2>3. CASE Returns(c) /\ UNCHANGED records
    BY <2>3, ReadKeeps, ReturnsGoal, Assembled
  <2> QED BY <1>5, <2>1, <2>2, <2>3 DEF Write
<1>6. ASSUME NEW u \in Users, NEW d \in Devices, DeviceGone(u, d) PROVE IInv'
  <2>1. RecordsMove /\ RecordsTyped' BY <1>6, GoneMoves DEF IInv
  <2>2. Numbered' /\ BindingHasDevice' BY <1>6, GoneKeeps
  <2>3. UNCHANGED calls BY <1>6 DEF DeviceGone
  <2>4. \A b \in Calls : CallInv(b)' /\ (Beaten(b) => Beaten(b)')
    BY <2>1, <2>3, Stable DEF IInv, Waits, calls
  <2>5. TypeInv'
    BY <2>1, <2>3 DEF IInv, RecordsTyped, TypeInv, PushTypeOK, Finite, calls
  <2> QED BY <2>2, <2>3, <2>4, <2>5 DEF IInv, TypeInv, PushTypeOK, calls
<1>7. CASE UNCHANGED pushVars
  <2>1. RecordsMove /\ RecordsTyped' /\ Numbered' /\ BindingHasDevice' /\ UNCHANGED calls
    BY <1>7, ReadKeeps DEF pushVars
  <2>2. \A b \in Calls : CallInv(b)' /\ (Beaten(b) => Beaten(b)')
    BY <2>1, Stable DEF IInv, Waits, calls
  <2>3. TypeInv'
    BY <2>1 DEF IInv, RecordsTyped, TypeInv, PushTypeOK, Finite, calls
  <2> QED BY <2>1, <2>2, <2>3 DEF IInv, TypeInv, PushTypeOK, calls
<1> QED BY <1>1, <1>2, <1>3, <1>4, <1>5, <1>6, <1>7 DEF PushNext, CallStep

\* The invariant holds of every reachable state of the registry (notifications.py).
THEOREM Invariance == PushSpec => []IInv
<1>1. PushInit => IInv BY InitEstablishes
<1>2. IInv /\ [PushNext]_pushVars => IInv' BY StepPreserves
<1> QED BY <1>1, <1>2, PTL DEF PushSpec

\* The items keep their shapes, and no user has more devices than slots.
THEOREM RegistryTypes == PushSpec => []PushTypeOK
<1>1. IInv => PushTypeOK BY DEF IInv, TypeInv
<1> QED BY <1>1, Invariance, PTL

\* For any number of users, devices, tokens and calls in flight, a token that
\* pushes may be sent to belongs to a device that its owner lists.
THEOREM NoStrayBinding == PushSpec => []BindingHasDevice
<1>1. IInv => BindingHasDevice BY DEF IInv
<1> QED BY <1>1, Invariance, PTL

\* No registration takes effect over a newer one of its token or its device, nor
\* over the unregistration of its live device.
THEOREM OvertakenLose == PushSpec => NoOvertakenWrite
<1> DEFINE Loses == \A c \in overtaken : pc'[c] = "idle" => ~Registers(c)
<1>1. IInv /\ [PushNext]_pushVars => [Loses]_pushVars
  <2> SUFFICES ASSUME IInv, PushNext, NEW c \in overtaken, pc'[c] = "idle", Registers(c)
               PROVE  FALSE
    OBVIOUS
  <2> DEFINE k == call[c]
             rec == device[k.user][k.device]
  <2>1. CallFacts /\ RecordsTyped /\ c \in Calls /\ CallInv(c) /\ Beaten(c)
    BY Facts DEF CallFacts, IInv
  <2>2. pc[c] = "ready" /\ k.op = "register" /\ generation' # generation
    BY DEF Registers
  <2>3. ~(UNCHANGED records) BY <2>2 DEF records
  <2>4. ASSUME NEW u \in Users, NEW d \in Devices, DeviceGone(u, d) PROVE FALSE
    BY <2>2, <2>4 DEF DeviceGone, calls
  <2>5. PICK b \in Calls : Write(b)
    BY <2>3, <2>4 DEF PushNext, CallStep, Begin, ReadRegistry, ReadDevice, ReadBindings
  <2>6. MayWrite(call[b]) /\ pc' = [pc EXCEPT ![b] = "idle"]
    BY <2>3, <2>5 DEF Write
  <2>7. b = c BY <2>1, <2>2, <2>6 DEF CallFacts
  <2>8. k \in CallRecords /\ k.current \in DeviceRecords
    BY <2>1, <2>2 DEF CallInv, Typed, CallRecords
  <2>9. k.scope = Scope(k.current, k.previous)
    BY <2>1, <2>2 DEF CallInv, ScopeReady
  <2>10. k.scope.current[1] = k.current.id /\ k.scope.current[2] = k.current.enabled
         /\ k.scope.previous = k.previous
    BY <2>8, <2>9 DEF Scope
  <2>11. rec.id = k.current.id /\ binding[k.token].id = k.previous.id /\ SameVersion(k)
    BY <2>2, <2>6, <2>7 DEF MayWrite
  <2> QED BY <2>1, <2>2, <2>10, <2>11 DEF Beaten, HasDevice
<1> QED BY <1>1, Invariance, PTL DEF PushSpec, NoOvertakenWrite
=============================================================================
