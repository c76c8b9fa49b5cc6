------------------------- MODULE OnceApprovedEvent -------------------------
(***************************************************************************)
(* What QuietPilot promises about a Case and the user's calendar, without  *)
(* queues, leases, workers or connections: only an approved plan is ever   *)
(* started, only one plan of a Case is, only the started plan's event is   *)
(* written, and a verified result is about a written event and final.      *)
(***************************************************************************)
CONSTANTS
  Plans,   \* the plans a Case may have
  NoPlan   \* not a plan: none was started yet

VARIABLES
  approved,  \* the plans the user approved
  started,   \* the plan whose event QuietPilot set out to write
  written,   \* the plans whose event is in the calendar
  verified   \* the plans whose result was verified

pvars == <<approved, started, written, verified>>

Init == approved = {} /\ started = NoPlan /\ written = {} /\ verified = {}

Approve(p) ==
  /\ approved' = approved \cup {p}
  /\ UNCHANGED <<started, written, verified>>

Start(p) ==
  /\ p \in approved /\ started = NoPlan
  /\ started' = p
  /\ UNCHANGED <<approved, written, verified>>

Write(p) ==
  /\ started = p
  /\ written' = written \cup {p}
  /\ UNCHANGED <<approved, started, verified>>

Verify(p) ==
  /\ p \in written
  /\ verified' = verified \cup {p}
  /\ UNCHANGED <<approved, started, written>>

Next == \E p \in Plans : Approve(p) \/ Start(p) \/ Write(p) \/ Verify(p)

Spec == Init /\ [][Next]_pvars
=============================================================================
