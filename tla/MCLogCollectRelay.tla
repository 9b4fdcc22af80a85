--------------------------- MODULE MCLogCollectRelay ---------------------------
(***************************************************************************)
(* LogCollectRelay on small instances for TLC.                             *)
(***************************************************************************)
EXTENDS LogCollectRelay, TLC

\* Pods are interchangeable: no action tells one from another.
PodSymmetry == Permutations(Pods)

================================================================================
