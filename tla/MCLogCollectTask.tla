---------------------------- MODULE MCLogCollectTask ----------------------------
(***************************************************************************)
(* LogCollectTask on small instances for TLC.                              *)
(***************************************************************************)
EXTENDS LogCollectTask, TLC

\* Requests are interchangeable.
RequestSymmetry == Permutations(Requests)

================================================================================
