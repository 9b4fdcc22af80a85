-------------------------- MODULE MCLogCollectUpload ---------------------------
(***************************************************************************)
(* LogCollectUpload on small instances for TLC.                            *)
(***************************************************************************)
EXTENDS LogCollectUpload

================================================================================
