---------------------------- MODULE MCDetectionRun ----------------------------
(***************************************************************************)
(* Finite instance of DetectionRun: a clean verdict, a threat the bundle   *)
(* can exhibit (leak) and one it cannot (patch).                           *)
(***************************************************************************)
EXTENDS DetectionRun, TLC

CONSTANTS safe, leak, patch, r1, r2

MCVerdicts == {safe, leak, patch}
MCThreats == {leak, patch}
MCEligible == {safe, leak}
MCReports == {r1, r2}

\* Invocations are interchangeable.
ReportSymmetry == Permutations(MCReports)
===============================================================================
