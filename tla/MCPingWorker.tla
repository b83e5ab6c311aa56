---------------------------- MODULE MCPingWorker ----------------------------
(***************************************************************************)
(* Small instances of PingWorker for TLC.                                  *)
(***************************************************************************)
EXTENDS PingWorker, TLC

\* Connections are interchangeable; used with safety properties only.
Symmetry == Permutations(Socks)
=============================================================================
