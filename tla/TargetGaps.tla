----------------------------- MODULE TargetGaps -----------------------------
(* complete_target_gap_decomposition: the target, the achievement and the   *)
(* gap of a whole and of each member of a dimension, read as two physical   *)
(* requests.  tools.py reconciles the three amounts in a receipt, and       *)
(* evidence.py judges the receipt again before result_projection.py shows   *)
(* it.  Seals, fingerprints and identifiers bind what is modelled as one    *)
(* value here.                                                              *)
EXTENDS Claims, Analytics

(* _expand_complete_target_gap_decompositions.                              *)
OverallOf(ask) == [ask EXCEPT !.by = {}]
PartitionOf(ask) == [ask EXCEPT !.by = {"key"}]

(* _validate_target_gap_decomposition_capability: of the two ledgers an     *)
(* achievement can be attributed by, only one is partitioned.               *)
Authorises(mode) == mode = "transaction_detail"

-----------------------------------------------------------------------------
(* Claims of completion rows.                                               *)
NotBegun == {"not_started", "includes_future"}

Consistent(c) == None \notin {c.target, c.actual, c.gap} /\ c.gap = c.target - c.actual

(* _target_status_is_coherent.                                              *)
Coherent(c) ==
    LET unreached == c.gap = None /\ c.value = None
    IN IF c.period \in NotBegun
       THEN /\ c.target # None \/ c.targetState \in {"missing", "incomplete", "not_set_for_future"}
            /\ c.actual = None /\ unreached
       ELSE /\ c.actualState = "reported"
            /\ CASE c.targetState = "missing" -> unreached /\ c.target \in {None, 0}
                 [] c.targetState = "incomplete" -> unreached
                 [] c.targetState = "zero" -> c.target = 0 /\ Consistent(c) /\ c.value = None
                 [] c.targetState = "set" -> c.target # 0 /\ Consistent(c) /\ c.value # None
                 [] OTHER -> FALSE

(* _claim_ledger: a member without a name has a dimension to be shown under *)
(* only where the dimension carries an identity.                            *)
NamedMember(q, g) == g.key # All /\ (g.key # None \/ q.identified)
StatusRelations(q, g, c) ==
    {"observation"} \cup (IF Coherent(c) THEN {"target_status"} ELSE {})
                    \cup (IF NamedMember(q, g) THEN {"dimension_breakdown"} ELSE {})

(* _evidence_rows_and_state: completion rows stay when nothing matched.     *)
GapState(cells, cut) ==
    LET Only(g) == DOMAIN cells = {g}
    IN CASE cut -> "truncated"
         [] DOMAIN cells = {} -> "empty"
         [] \A g \in DOMAIN cells : cells[g].match = 0 -> "undefined"
         [] \E g \in DOMAIN cells : Only(g) /\ cells[g].value = None -> "undefined"
         [] \E g \in DOMAIN cells : Only(g) /\ cells[g].value[1] = 0 -> "zero"
         [] OTHER -> "rows"

(* One physical request: what its statement told of the rows that fit.      *)
Physical(q, table, shown) ==
    [cut |-> shown # DOMAIN table,
     state |-> GapState([g \in shown |-> table[g]], shown # DOMAIN table),
     claims |-> [g \in shown |-> [cell |-> table[g], named |-> NamedMember(q, g),
                                  relations |-> StatusRelations(q, g, table[g])]]]

-----------------------------------------------------------------------------
(* _target_gap_failure_reason: the first thing that forbids a receipt.      *)
Summed(result) ==
    LET Adding(field) == Sum([g \in DOMAIN result.claims |-> result.claims[g].cell[field]])
    IN <<Adding("target"), Adding("actual"), Adding("gap")>>
AmountsOf(c) == <<c.target, c.actual, c.gap>>
WholeClaim(overall) == overall.claims[Whole].cell

StateIsKnown(c) == /\ c.targetState \in {"set", "zero"}
                   /\ c.actualState = "reported" /\ c.period \notin NotBegun

(* _target_gap_claim_amounts.                                               *)
Assured(claim) == "target_status" \in claim.relations /\ StateIsKnown(claim.cell)

GapReason(together, overall, partition) ==
    LET claims == {overall.claims[Whole]} \cup {partition.claims[g] : g \in DOMAIN partition.claims}
    IN CASE ~together -> "SNAPSHOT_CONSISTENCY_UNPROVEN"
         [] partition.cut -> "PARTITION_PROOF_UNAVAILABLE"
         [] \/ DOMAIN partition.claims = {}
            \/ \E g \in DOMAIN partition.claims : ~partition.claims[g].named
              -> "EVIDENCE_INCOMPLETE"
         [] \E c \in claims : ~StateIsKnown(c.cell) -> "TARGET_STATE_INCOMPLETE"
         [] \E c \in claims : ~Assured(c) -> "EVIDENCE_INCOMPLETE"
         [] Summed(partition) # AmountsOf(WholeClaim(overall)) -> "PARTITION_DOES_NOT_RECONCILE"
         [] OTHER -> None

(* _finalize_target_gap_decompositions.                                     *)
ReceiptOf(overall, partition) ==
    [overall |-> AmountsOf(WholeClaim(overall)), parts |-> Summed(partition),
     rate |-> WholeClaim(overall).value, rows |-> Cardinality(DOMAIN partition.claims)]

(* _target_claim_amounts of evidence.py: a zero target may leave its result *)
(* undefined, and a target below zero is no target.                         *)
Accepted(claim, result) ==
    LET c == claim.cell
    IN /\ "target_status" \in claim.relations /\ ~result.cut
       /\ \/ result.state \in {"rows", "zero"}
          \/ result.state = "undefined" /\ c.targetState = "zero" /\ c.value = None
       /\ c.targetState \in {"set", "zero"} /\ c.period \notin NotBegun
       /\ Consistent(c)
       /\ c.targetState = "set" => c.target > 0 /\ c.value # None

(* _target_gap_reconciliation_is_valid.                                     *)
ReceiptIsValid(receipt, overall, partition) ==
    /\ receipt.rows = Cardinality(DOMAIN partition.claims) /\ receipt.rows > 0
    /\ ~overall.cut /\ DOMAIN overall.claims = {Whole}
    /\ Accepted(overall.claims[Whole], overall)
    /\ \A g \in DOMAIN partition.claims :
         partition.claims[g].named /\ Accepted(partition.claims[g], partition)
    /\ Summed(partition) = AmountsOf(WholeClaim(overall))
    /\ receipt.overall = AmountsOf(WholeClaim(overall)) /\ receipt.parts = Summed(partition)
    /\ receipt.rate = WholeClaim(overall).value

(* _fail_closed_target_gap_model_wire: a receipt that was refused is not    *)
(* shown, nor why; one that does not stand takes every claim with it.       *)
Projected(receipt, overall, partition) ==
    IF receipt # None /\ ~ReceiptIsValid(receipt, overall, partition)
    THEN Failed("EVIDENCE_INTEGRITY_INVALID")
    ELSE [refused |-> None, claims |-> partition.claims, state |-> partition.state,
          completeness |-> Completeness(partition.state), receipt |-> receipt,
          supports |-> Supports(partition.state, partition.claims)
                       \cup (IF receipt # None THEN {"target_gap_composition"} ELSE {}),
          limitations |-> Limitations(partition.state, None, {})]

GapFailed(code) == [refused |-> code, reason |-> code]

(* The two statements of a request that may run, and what is told of the    *)
(* pair in the end.                                                         *)
Runs(q) == Authorises(q.mode) /\ AnalysisRefusal(OverallOf(q.ask)) = None
Partitions(q) ==
    LET table == Completion(PartitionOf(q.ask))
    IN {Physical(q, table, shown) : shown \in Shown(table, q.limit)}
Overalls(q) == {Physical(q, Completion(OverallOf(q.ask)), {Whole})}
Outcome(told, reason) == [f \in DOMAIN told \cup {"reason"} |-> IF f = "reason" THEN reason ELSE told[f]]

RefuseGap ==
    /\ Ask({"gap"}) /\ ~Runs(question)
    /\ LET refusal == AnalysisRefusal(OverallOf(question.ask))
       IN Reply(GapFailed(IF refusal = None THEN "UNSUPPORTED_TARGET_GAP_DECOMPOSITION" ELSE refusal))

(* Both come back, from one snapshot or not.                                *)
TellGap ==
    /\ Ask({"gap"}) /\ Runs(question)
    /\ \E together \in BOOLEAN, overall \in Overalls(question), partition \in Partitions(question) :
         LET reason == GapReason(together, overall, partition)
             receipt == IF reason = None THEN ReceiptOf(overall, partition) ELSE None
         IN Reply(Outcome(Projected(receipt, overall, partition), reason))

(* The overall statement fails: the partition is told without a receipt.    *)
LoseOverall ==
    /\ Ask({"gap"}) /\ Runs(question)
    /\ \E partition \in Partitions(question) :
         Reply(Outcome(Projected(None, None, partition), "OVERALL_QUERY_UNAVAILABLE"))
LosePartition ==
    /\ Ask({"gap"}) /\ Runs(question)
    /\ Reply(GapFailed("PARTITION_QUERY_UNAVAILABLE"))

TargetGapsNext == RefuseGap \/ TellGap \/ LoseOverall \/ LosePartition

-----------------------------------------------------------------------------
GapTold == answer # None /\ question.form = "gap" /\ answer.refused = None
DueRows == Within(Rows(question.ask, "target"), TargetWindow(question.ask))
DoneRows == {r \in SideRows(question.ask, question.ask.left, TargetWindow(question.ask)) :
               facts[r].time <= 2 * Now}
MemberOf(k) == [key |-> k, period |-> All]
OwnRows(rows, k) == In(PartitionOf(question.ask), rows, MemberOf(k))

(* A receipt is the whole truth: every member that has a target or an       *)
(* achievement is told, each amount is the one its rows make, and together  *)
(* they make the amounts of the whole.  In one snapshot the parts always    *)
(* add up, and only a target below zero takes a sound result away.          *)
(* (_finalize_target_gap_decompositions, _target_gap_reconciliation_is_valid, *)
(* _fail_closed_target_gap_model_wire.)                                     *)
ReceiptTrue ==
    GapTold /\ answer.receipt # None =>
      LET due == DueRows
          done == DoneRows
          target == Made(due, "amount")
          actual == SideMade(question.ask.left, done)
      IN /\ DOMAIN answer.claims = {MemberOf(facts[r].key) : r \in due \cup done}
         /\ None \notin {target, actual}
         /\ answer.receipt.parts = <<target, actual, target - actual>>
         /\ answer.receipt.overall = answer.receipt.parts
         /\ \A g \in DOMAIN answer.claims :
              /\ answer.claims[g].cell.target = Made(OwnRows(due, g.key), "amount")
              /\ answer.claims[g].cell.actual = SideMade(question.ask.left, OwnRows(done, g.key))
NothingLost ==
    answer # None /\ question.form = "gap" =>
      /\ answer.reason # "PARTITION_DOES_NOT_RECONCILE"
      /\ answer.refused = "EVIDENCE_INTEGRITY_INVALID" =>
           \/ Made(DueRows, "amount") < 0
           \/ \E r \in DueRows : Made(OwnRows(DueRows, facts[r].key), "amount") < 0
GapTrue == ReceiptTrue /\ NothingLost
=============================================================================
