--------------------------- MODULE MCPushRegistry ---------------------------
(***************************************************************************)
(* PushRegistry on small instances.                                        *)
(***************************************************************************)
EXTENDS PushRegistry, TLC

\* Users, devices, tokens and calls are interchangeable.
Symmetry == Permutations(Users) \cup Permutations(Devices) \cup Permutations(Tokens)
              \cup Permutations(Calls)
=============================================================================
