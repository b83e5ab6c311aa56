------------------------------ MODULE MCReport ------------------------------
(***************************************************************************)
(* Small instances of Report for TLC.                                      *)
(***************************************************************************)
EXTENDS Report
=============================================================================
