----------------------------- MODULE MCIpcServer -----------------------------
(***************************************************************************)
(* Small instances of IpcServer.  Clients are interchangeable, so the runs  *)
(* without temporal properties use them up to permutation.                  *)
(***************************************************************************)
EXTENDS IpcServer, TLC

CONSTANTS c1, c2

ClientSymmetry == Permutations(Clients)
=============================================================================
