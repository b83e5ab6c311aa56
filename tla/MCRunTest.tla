------------------------------ MODULE MCRunTest -----------------------------
(***************************************************************************)
(* Small instances of RunTest for TLC.                                     *)
(***************************************************************************)
EXTENDS RunTest
=============================================================================
