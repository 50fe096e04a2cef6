--------------------------- MODULE Attestations ---------------------------
(* Receivable turnover days are told with an attestation: twelve guards on  *)
(* the row, the disclosures that must come with it, and, when all of them   *)
(* hold, the components of the quotient.  tools.py attests each row,        *)
(* result_projection.py judges the attestations of a result together.       *)
EXTENDS Claims, Analytics

(* Disclosures of the metric and of its domain; the last one is due when a  *)
(* question groups or filters by the dimension it is about.                 *)
Formal == {"coverage", "external_scope", "formula"}
Declared == Formal \cup {"by_member"}
(* _disclosure_applies.                                                     *)
Applies(d, q) == d = "by_member" => q.by # {} \/ q.only # None
(* _disclosure_ledger: one item of every public declaration, applied or not. *)
LedgerOf(q) == [d \in Declared |-> Applies(d, q)]
(* _sealed_disclosure_ids.                                                  *)
SealedIds(ledger) == {d \in DOMAIN ledger : ledger[d]}

-----------------------------------------------------------------------------
(* Columns of the statement next to the quotient (Dso of Analytics).        *)
SnapshotMonths(q, g) ==
    LET w == TimeWindow(q)
    IN Cardinality({MonthOf(r) : r \in In(q, Within(Rows(q, "debt"), <<w[1] - 2, w[2]>>), g)})
EffectiveMonths(q, g) ==
    LET sold == In(q, Within(Rows(q, "delivery"), TimeWindow(q)), g)
        Of(n) == SqlSum([r \in {x \in sold : MonthOf(x) = n} |-> facts[r].amount])
    IN Cardinality({n \in {MonthOf(r) : r \in sold} : Of(n) # None /\ Of(n) > 0})

(* _formal_dso_window_requirements.                                         *)
WindowMonths(w) == IF BeginsMonths(w) /\ w[2] > w[1] THEN (w[2] - w[1]) \div 2 ELSE None

(* _formal_dso_calculation_attestation: the guards that fail.               *)
FailedGuards(q, g, cell, ledger) ==
    LET months == WindowMonths(TimeWindow(q))
        Unless(guard, holds) == IF holds THEN {} ELSE {guard}
    IN UNION {Unless("metric_value_present", cell.value # None),
              Unless("average_net_debt_present", cell.average # None),
              Unless("gross_delivery_denominator_present", cell.delivery # None),
              Unless("gross_delivery_denominator_positive", cell.delivery # None /\ cell.delivery > 0),
              Unless("complete_natural_month_window", months # None),
              Unless("complete_month_end_snapshots",
                     months # None /\ SnapshotMonths(q, g) = months + 1),
              Unless("effective_month_count_within_window",
                     months # None /\ EffectiveMonths(q, g) \in 1..months),
              Formal \ SealedIds(ledger)}

Attestation(q, g, cell, ledger) ==
    LET failed == FailedGuards(q, g, cell, ledger)
    IN [status |-> IF failed = {} THEN "verified" ELSE "undefined", reasons |-> failed,
        components |-> IF failed = {} THEN <<cell.value, cell.average, cell.delivery>> ELSE None]

(* _attach_formal_dso_calculation_attestations.                             *)
AttestedClaim(q, g, cell, ledger) ==
    [value |-> cell.value, average |-> cell.average, delivery |-> cell.delivery,
     attestation |-> Attestation(q, g, cell, ledger)]

-----------------------------------------------------------------------------
(* _formal_dso_attested_components_are_valid.                               *)
ComponentsAreValid(claim, w) ==
    LET c == claim.attestation.components
        months == WindowMonths(w)
    IN /\ c = <<claim.value, claim.average, claim.delivery>>
       /\ None \notin {claim.value, claim.average, claim.delivery, months}
       /\ claim.delivery > 0
       /\ claim.value = <<claim.average, 2 * months, claim.delivery>>

(* _formal_dso_attestation_state.                                           *)
AttestationState(claim, w, sealed) ==
    LET a == claim.attestation
    IN CASE a.status = "verified" /\ a.reasons = {} /\ Formal \subseteq sealed
              /\ ComponentsAreValid(claim, w) -> "verified"
         [] a.status = "undefined" /\ a.reasons # {} /\ a.components = None -> "undefined"
         [] OTHER -> "invalid"

(* _fail_closed_formal_dso_model_wire: either every row is verified or the  *)
(* result is undefined; rows of both kinds, or no row, are told as evidence *)
(* that was damaged.                                                        *)
WithoutValue(claims) == [g \in DOMAIN claims |-> [claims[g] EXCEPT !.value = None]]
TellVerdictAny(states, claims, state, shown) ==
    CASE states = {"verified"} ->
           [refused |-> None, state |-> state, claims |-> claims, disclosures |-> shown]
      [] "undefined" \in states ->
           [refused |-> None, state |-> "undefined", claims |-> WithoutValue(claims),
            disclosures |-> shown \ {"formula"}]
      [] OTHER -> Failed("EVIDENCE_INTEGRITY_INVALID")
TellVerdict(states, claims, state, shown) ==
    CASE states = {"verified"} ->
           [refused |-> None, state |-> state, claims |-> claims, disclosures |-> shown]
      [] states = {"undefined"} ->
           [refused |-> None, state |-> "undefined", claims |-> WithoutValue(claims),
            disclosures |-> shown \ {"formula"}]
      [] OTHER -> Failed("EVIDENCE_INTEGRITY_INVALID")

(* The rows a statement returned; when nothing matched none is told.        *)
AttestedState(cells, cut) ==
    LET states == {cells[g].state : g \in DOMAIN cells}
    IN CASE cut -> "truncated"
         [] \A g \in DOMAIN cells : cells[g].match = 0 -> "empty"
         [] states = {"missing"} -> "undefined"
         [] "missing" \in states -> "incomplete"
         [] \E g \in DOMAIN cells : DOMAIN cells = {g} /\ cells[g].value[1] = 0 -> "zero"
         [] OTHER -> "rows"

TellAttested ==
    /\ Ask({"attested"})
    /\ LET q == question.ask
           ledger == LedgerOf(q)
           sealed == SealedIds(ledger)
       IN IF AnalysisRefusal(q) # None THEN Reply(Failed(AnalysisRefusal(q)))
          ELSE \E table \in {Dso(q)} : \E shown \in Shown(table, question.limit) :
                 LET cells == [g \in shown |-> table[g]]
                     state == AttestedState(cells, shown # DOMAIN table)
                     rows == IF state = "empty" THEN {} ELSE shown
                     claims == [g \in rows |-> AttestedClaim(q, g, cells[g], ledger)]
                     states == {AttestationState(claims[g], TimeWindow(q), sealed) : g \in rows}
                 IN Reply(TellVerdict(states, claims, state, sealed))

AttestationsNext == TellAttested

-----------------------------------------------------------------------------
AttestedTold == answer # None /\ question.form = "attested" /\ answer.refused = None

(* A turnover that is told is the one of the source rows, of a window whose *)
(* every month is over and proved; the formula is disclosed with the value  *)
(* and never without; and a result is told as undefined only when none of   *)
(* its rows could have had a value.                                         *)
(* (_formal_dso_calculation_attestation, _fail_closed_formal_dso_model_wire.) *)
AttestationTrue ==
    AttestedTold =>
      LET q == question.ask
          w == TimeWindow(q)
          months == MonthsIn(w)
          debts(g) == In(q, {r \in Rows(q, "debt") : {MonthOf(r), MonthOf(r) + 1} \cap months # {}}, g)
          delivery(g) == Made(Within(In(q, Rows(q, "delivery"), g), w), "amount")
          TurnoverOf(g) == LET average == Balances(debts(g), "amount", months)
                      IN IF None \in {average, delivery(g)} THEN None
                         ELSE IF delivery(g) <= 0 THEN None
                         ELSE <<average, 2 * Cardinality(months), delivery(g)>>
      IN /\ DOMAIN answer.claims # {}
         /\ \A g \in DOMAIN answer.claims :
              /\ answer.claims[g].value = TurnoverOf(g)
              /\ ("formula" \in answer.disclosures) = (answer.claims[g].value # None)
              /\ answer.claims[g].value # None => \A n \in months :
                   n < Now /\ \A m \in {n - 1, n} : OfMonth(debts(g), m) # {}
         /\ answer.state \in {"rows", "zero"} =>
              DOMAIN answer.claims = {Group(q, r) : r \in UNION {debts(g) : g \in DOMAIN answer.claims}}
         /\ {"coverage", "external_scope"} \subseteq answer.disclosures
=============================================================================
