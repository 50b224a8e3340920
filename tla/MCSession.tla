------------------------------ MODULE MCSession ------------------------------
(***************************************************************************)
(* Session with its own MAX_RAPID_FAILURES: every machine, with and        *)
(* without a panel, on which either platform works or not.                 *)
(***************************************************************************)
EXTENDS Session
=============================================================================
