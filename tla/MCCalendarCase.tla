--------------------------- MODULE MCCalendarCase ---------------------------
(***************************************************************************)
(* CalendarCase on small instances.                                        *)
(***************************************************************************)
EXTENDS CalendarCase, TLC

\* Workers are interchangeable.
Symmetry == Permutations(Workers)
=============================================================================
