------------------------------ MODULE LiveRuns ------------------------------
(* The live runners of a department: each run is a process that may start  *)
(* again and again.                                                        *)
CONSTANTS Runs,
          None    \* what a field or an owner holds that holds nothing
=============================================================================
