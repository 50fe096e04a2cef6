---------------------------- MODULE Calculations ----------------------------
(* Arithmetic on two answers of one call: a difference, a ratio or a share  *)
(* is computed of two scalar claims, and shown only when both claims speak  *)
(* of the same metric, of periods that may be compared and, for a share,    *)
(* of a part and its whole (_build_governed_calculations of tools.py,       *)
(* _model_wire_calculations of result_projection.py).                       *)
EXTENDS Claims

(* The reasons a calculation, or a claim it needs, is refused for.          *)
Codes == {"CALCULATION_SOURCE_UNAVAILABLE", "CALCULATION_REQUIRES_SCALAR",
          "CALCULATION_SOURCE_INTEGRITY_INVALID", "CALCULATION_VALUE_UNAVAILABLE",
          "CALCULATION_SCOPE_MISMATCH", "CALCULATION_SUBSET_NOT_PROVEN",
          "CALCULATION_SHARE_OUT_OF_RANGE", "CALCULATION_DIVISION_BY_ZERO",
          "CONTRACT_UNAVAILABLE", "EVIDENCE_INTEGRITY_INVALID",
          "PERIOD_COMPARABILITY_NOT_ASSESSABLE", "PERIOD_COVERAGE_MISMATCH"}

ASSUME CalculationsAssumption ==
    /\ None \notin Codes
    /\ \A c \in Cases : \A q \in c.questions :
         q.form = "calculation" =>
           /\ q.op \in {"difference", "ratio", "share"} /\ Posed(q.left) /\ Posed(q.right)
           /\ \A f \in c.facts : Numbered(f)

(* A filter scope is a set of values for each filtered dimension.           *)
FilterScope(q) == IF q.filter = None THEN [d \in {} |-> {}]
                  ELSE [d \in {q.filter.dim} |-> q.filter.values]

(* _strict_subset_filter_dimensions: the dimensions the numerator narrows,  *)
(* empty unless it narrows at least one and widens none.                    *)
DifferingDimensions(numerator, denominator) ==
    IF \E d \in DOMAIN denominator :
         d \notin DOMAIN numerator \/ ~(numerator[d] \subseteq denominator[d] \/ denominator[d] \subseteq numerator[d])
    THEN {}
    ELSE {d \in DOMAIN numerator : d \notin DOMAIN denominator \/ numerator[d] # denominator[d]}
StrictSubsetDimensions(numerator, denominator) ==
    IF \E d \in DOMAIN denominator :
         d \notin DOMAIN numerator \/ ~(numerator[d] \subseteq denominator[d])
    THEN {}
    ELSE {d \in DOMAIN numerator : d \notin DOMAIN denominator \/ numerator[d] # denominator[d]}

(* _calculation_scope_contract: what identifies the metric beside time and  *)
(* filters.                                                                 *)
MetricBasis(q) == <<q.form, q.parts, q.dim, q.nonzero>>

(* _calculation_operand: one untruncated claim that is not of a group, that *)
(* the projection left unchanged, with a value.                             *)
OperandError(q, told) ==
    IF told.refused # None THEN "CALCULATION_SOURCE_UNAVAILABLE"
    ELSE IF Cardinality(DOMAIN told.claims) # 1 \/ told.state = "truncated"
    THEN "CALCULATION_REQUIRES_SCALAR"
    ELSE LET k == CHOOSE x \in DOMAIN told.claims : TRUE
         IN IF ~Authorized(told.verdict) THEN "CALCULATION_SOURCE_INTEGRITY_INVALID"
            ELSE IF Displayed(q, k) \/ q.dim \notin {None, "period"} THEN "CALCULATION_REQUIRES_SCALAR"
            ELSE IF told.claims[k].value = None THEN "CALCULATION_VALUE_UNAVAILABLE"
            ELSE None
Operand(told) == told.claims[CHOOSE k \in DOMAIN told.claims : TRUE].value

ScopeError(op, l, r) ==
    LET same == MetricBasis(l.ask) = MetricBasis(r.ask)
        narrowed == StrictSubsetDimensions(FilterScope(l.ask), FilterScope(r.ask))
    IN IF op # "share"
       THEN IF same /\ FilterScope(l.ask) = FilterScope(r.ask) THEN None
            ELSE "CALCULATION_SCOPE_MISMATCH"
       ELSE IF ~(same /\ l.told.period = r.told.period) THEN "CALCULATION_SCOPE_MISMATCH"
       ELSE IF narrowed = {} \/ ~(narrowed \subseteq question.partitions)
       THEN "CALCULATION_SUBSET_NOT_PROVEN"
       ELSE None
ValueError(op, l, r) ==
    CASE op = "share" /\ (r <= 0 \/ l < 0 \/ l > r) -> "CALCULATION_SHARE_OUT_OF_RANGE"
      [] op = "ratio" /\ r = 0 -> "CALCULATION_DIVISION_BY_ZERO"
      [] OTHER -> None

(* The periods of two operands; one that is itself a comparison is told as  *)
(* a pair, which only equals itself.                                        *)
PeriodVerdict(l, r) ==
    IF l.prior # None \/ r.prior # None
    THEN IF l = r THEN "compatible" ELSE "not_assessable"
    ELSE AssessOperands(l.current, r.current)

Combined(op, l, r) == IF op = "difference" THEN l - r ELSE <<l, r>>

(* The calculation, and what the model sees of it: nothing once a claim it  *)
(* was computed of is no longer visible or its periods do not match.        *)
Calculate(op, l, r, lost) ==
    LET left == OperandError(l.ask, l.told)
        right == OperandError(r.ask, r.told)
        verdict == PeriodVerdict(l.told.period, r.told.period)
        value == ValueError(op, Operand(l.told), Operand(r.told))
    IN IF left # None THEN Failed(left)
       ELSE IF right # None THEN Failed(right)
       ELSE IF ScopeError(op, l, r) # None THEN Failed(ScopeError(op, l, r))
       ELSE IF value # None THEN Failed(value)
       ELSE IF lost # {} THEN Failed("CALCULATION_SOURCE_INTEGRITY_INVALID")
       ELSE IF verdict # "compatible" THEN Failed(CHOOSE c \in Reasons(verdict) : TRUE)
       ELSE [refused |-> None, value |-> Combined(op, Operand(l.told), Operand(r.told))]

(* Both branches are told in full: a calculation never pages its operands.  *)
ToldWhole(q, table) == Tell(q, FALSE, {}, table, DOMAIN table)
WholeAnswer(q) ==
    [ask |-> q,
     told |-> IF PlanRefusal(q) # None THEN Failed(PlanRefusal(q)) ELSE ToldWhole(q, Run(q))]

RunCalculation ==
    /\ Ask({"calculation"})
    /\ \E lost \in SUBSET {"left", "right"} :
         Reply([lost |-> lost, result |-> Calculate(question.op, WholeAnswer(question.left),
                                                    WholeAnswer(question.right), lost)])

CalculationsNext == RunCalculation

(* A question of one of these families, answered once.                      *)
AnswersSpec ==
    AnswersInit /\ [][MetricsNext \/ ClaimsNext \/ CalculationsNext]_answerVars

-----------------------------------------------------------------------------
(* A number derived from two answers is the arithmetic of two true totals,  *)
(* never of one group of a breakdown or of an unknown amount; a difference  *)
(* or ratio compares the same population in periods that are both over or   *)
(* the same; the rows of a share are among those of its whole and it lies   *)
(* between nothing and all.                                                 *)
TrueTotal(q) == TruthOf(Current([q EXCEPT !.dim = None]), All)
Sees(q) == SourceRows(Current(q))
CalculationTrue ==
    answer # None /\ question.form = "calculation" /\ answer.result.refused = None =>
      LET l == question.left
          r == question.right
          op == question.op
      IN /\ answer.lost = {}
         /\ l.filter = r.filter \/ op = "share"
         /\ op = "share" => Sees(l) \subseteq Sees(r)
         /\ Exact(l) => /\ None \notin {TrueTotal(l), TrueTotal(r)}
                        /\ answer.result.value = Combined(op, TrueTotal(l), TrueTotal(r))
                        /\ op # "difference" => TrueTotal(r) # 0
                        /\ op = "share" => 0 <= TrueTotal(l) /\ TrueTotal(l) <= TrueTotal(r)
         /\ l.window # r.window => \A q \in {l, r} : q.window # None /\ q.window[2] <= Now
=============================================================================
