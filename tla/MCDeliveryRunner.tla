---------------------------- MODULE MCDeliveryRunner ----------------------------
(***************************************************************************)
(* DeliveryRunner on small instances for TLC.                              *)
(***************************************************************************)
EXTENDS DeliveryRunner

================================================================================
