--------------------------- MODULE MCBundleActivation ---------------------------
(***************************************************************************)
(* BundleActivation on small instances for TLC.                            *)
(***************************************************************************)
EXTENDS BundleActivation, TLC

================================================================================
