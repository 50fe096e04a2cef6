------------------------------ MODULE MCWeekly ------------------------------
(* The two weekly jobs.  They share no file and no table, and the locks of  *)
(* targets that they do share are the subject of Delivery: a behaviour     *)
(* moves either the baseline or the list, and leaves the other as it began. *)
(* The baseline: two profiles on one database.                             *)
(* The list: two accounts, and lists of no, one and two parts.             *)
EXTENDS Freeze, Idk, TLC

CONSTANTS p1, p2, s1, s2, m1, m2, a1, a2

MCProfiles == {p1, p2}
MCStocks == {s1, s2}
MCMappings == {m1, m2}
MCAccounts == {a1, a2}
MCPartsOf == [l \in Lists |-> CASE l = "zero" -> 0 [] l = "short" -> 1 [] l = "long" -> 2]
Symmetry ==
  Permutations(MCProfiles) \cup Permutations(MCStocks)
    \cup Permutations(MCMappings)

(* The baseline rests when its runs are used up, or when each profile is in *)
(* doubt and a person must look; no other state of a job may be the last.  *)
Rests == /\ \A p \in Profiles : At(p, "idle")
         /\ runs = MaxRuns \/ \A p \in Profiles : entry[p] \in Doubtful
         /\ UNCHANGED vars

VARIABLE half    \* the job that moves

MCInit == half \in {"baseline", "list"} /\ Init /\ IdkInit
MCNext == /\ \/ half = "baseline" /\ (Next \/ Rests) /\ UNCHANGED idkVars
             \/ half = "list" /\ IdkNext /\ UNCHANGED vars
          /\ UNCHANGED half
MCSpec == MCInit /\ [][MCNext]_<<vars, idkVars, half>>
=============================================================================
