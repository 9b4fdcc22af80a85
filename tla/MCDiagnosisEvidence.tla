-------------------------- MODULE MCDiagnosisEvidence --------------------------
(***************************************************************************)
(* DiagnosisEvidence on small instances for TLC.                           *)
(***************************************************************************)
EXTENDS DiagnosisEvidence, TLC

================================================================================
