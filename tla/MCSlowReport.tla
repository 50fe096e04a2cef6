---------------------------- MODULE MCSlowReport ----------------------------
(* Two accounts in the order of the recipient plan.                        *)
EXTENDS SlowReport, TLC

CONSTANTS r1, r2, v1, v2

ReportAccounts == {1, 2}
ReportRoutes == {r1, r2}
ReportVersions == {v1, v2}
ReportSymmetry == Permutations(ReportRoutes) \cup Permutations(ReportVersions)
=============================================================================
