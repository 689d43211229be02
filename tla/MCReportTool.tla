----------------------------- MODULE MCReportTool -----------------------------
(***************************************************************************)
(* Finite instance of ReportTool: a clean verdict, a threat the bundle can *)
(* exhibit (leak) and one it cannot (patch).                               *)
(***************************************************************************)
EXTENDS ReportTool, TLC

CONSTANTS safe, leak, patch, r1, r2, r3

MCVerdicts == {safe, leak, patch}
MCThreats == {leak, patch}
MCEligible == {safe, leak}
MCReports == {r1, r2, r3}

\* Invocations are interchangeable.
ReportSymmetry == Permutations(MCReports)
===============================================================================
