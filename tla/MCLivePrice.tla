----------------------------- MODULE MCLivePrice -----------------------------
(* The two live cycles, which share no lock, file or table: a behaviour     *)
(* moves either the price cycle or the slow cycle, and leaves the other     *)
(* where it began.                                                          *)
(* Prices: two products, one of them at first without a known price.       *)
(* Reports: what a search may find is either as it should be, the same text *)
(* in other bytes, or not accepted part by part.                            *)
EXTENDS LivePrice, LiveSlow

CONSTANTS r1, r2,
          MaxManifests    \* bound: manifests built in all

MCLegacy == [k \in Keys |-> IF k = 1 THEN "p" ELSE "unpriced"]

Show(a, b, all) == [rows |-> [k \in Keys |-> IF k = 1 THEN a ELSE b], keyed |-> all]
MCObservations ==
    {Show("q", "q", TRUE), Show("bad", "p", TRUE), Show("absent", "p", TRUE),
     Show("absent", "q", FALSE)}
MCRuns == {r1, r2}
Symmetry == Permutations(MCRuns)

Good == [accepted |-> TRUE, bound |-> TRUE, ofManifest |-> TRUE, path |-> TRUE,
         rebound |-> FALSE, parts |-> TRUE, context |-> TRUE, signature |-> TRUE,
         content |-> TRUE, sealed |-> TRUE]
MCFound == {Good, [Good EXCEPT !.content = FALSE], [Good EXCEPT !.parts = FALSE]}

(* Bounds of the slow cycle: few manifests, the reviews of a preview one at *)
(* a time, one reused delivery a generation, and one run that goes on       *)
(* without the database.                                                    *)
Manifested == FoldLeft(LAMBDA n, row : n + FoldLeft(LAMBDA m, p : m + row.builds[p], 0, PHASES),
                       0, journal)
Matched(row) == {p \in Phases : /\ row.man[p] # None /\ row.man[p].review # None
                                /\ row.man[p].review.match # None}
Bounded ==
    /\ Manifested <= MaxManifests
    /\ \A g \in DOMAIN journal :
         /\ Cardinality({p \in Phases : /\ journal[g].man[p] # None
                                        /\ journal[g].man[p].review # None}) <= 1
         /\ journal[g].reused.at # 0 => Matched(journal[g]) = {}
    /\ Cardinality({r \in Runs : slow[r].pc # "idle" /\ ~slow[r].conn}) <= 1

VARIABLE half    \* the cycle that moves

MCInit == half \in {"price", "slow"} /\ Init /\ SlowInit
MCNext == /\ \/ half = "price" /\ Next /\ UNCHANGED slowVars
             \/ half = "slow" /\ SlowNext /\ Bounded' /\ UNCHANGED vars
          /\ UNCHANGED half
MCSpec == MCInit /\ [][MCNext]_<<vars, slowVars, half>>
=============================================================================
