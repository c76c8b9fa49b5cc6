----------------------------- MODULE MCMailScan -----------------------------
(***************************************************************************)
(* MailScan for TLC: the invocations of the worker are alike.              *)
(***************************************************************************)
EXTENDS MailScan, TLC

Symmetry == Permutations(Workers)
=============================================================================
