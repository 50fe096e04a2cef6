----------------------------- MODULE StageLedger -----------------------------
(* What a staged delivery promises: generations one after the other, in a  *)
(* generation its stages one after the other, and for every stage one      *)
(* content of which each part is told once.                                *)
EXTENDS Integers, Sequences

CONSTANTS Count,     \* stages of a generation
          Whole,     \* parts of what a stage tells
          Contents

VARIABLES open,      \* number of the current generation, 0 for none
          behind,    \* stages of it that are behind
          told,      \* per stage: the content each told part is of, in order
          covered    \* last stage whose content had been told before by others
vars == <<open, behind, told, covered>>

Empty == [i \in 1..Count |-> <<>>]

Init == open = 0 /\ behind = 0 /\ told = Empty /\ covered = 0

Begin ==
    /\ open = 0 \/ behind = Count
    /\ open' = open + 1 /\ behind' = 0 /\ told' = Empty /\ covered' = 0

(* Only the stage whose turn it is tells, and only one content.            *)
Tell ==
    /\ behind < Count
    /\ LET s == behind + 1 IN
       /\ Len(told[s]) < Whole
       /\ \E c \in Contents :
            /\ \A i \in DOMAIN told[s] : told[s][i] = c
            /\ told' = [told EXCEPT ![s] = Append(@, c)]
    /\ UNCHANGED <<open, behind, covered>>

Leave ==
    /\ open > 0 /\ behind < Count
    /\ \/ Len(told[behind + 1]) = Whole /\ UNCHANGED covered
       \/ covered' = behind + 1
    /\ behind' = behind + 1
    /\ UNCHANGED <<open, told>>

Spec == Init /\ [][Begin \/ Tell \/ Leave]_vars
=============================================================================
