------------------------------- MODULE MCSimRuns -------------------------------
(***************************************************************************)
(* SimRuns on small instances for TLC.                                     *)
(***************************************************************************)
EXTENDS SimRuns

================================================================================
