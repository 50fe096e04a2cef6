------------------------------- MODULE Claims -------------------------------
(* What is said of the rows a metric statement returned: tools.py binds a   *)
(* period and a data state to them, makes one claim of each row with the    *)
(* relations it may be used for, evidence.py summarises what the claims     *)
(* support, and result_projection.py removes what the model must not see.   *)
(* Months stand for dates; the observation day lies inside month Now.       *)
EXTENDS Metrics

Verdicts == {"compatible", "not_assessable", "coverage_mismatch"}
Courses == {"completed", "in_progress", "not_started"}
(* Why a series is not added up.                                            *)
SeriesGaps == {"FULL_MONTH_WINDOW_REQUIRED", "SERIES_TRUNCATED", "PERIOD_NOT_COMPLETED",
               "MISSING_PERIODS", "EMPTY_RESULT", "PERIOD_OUTSIDE_QUERY",
               "NONADDITIVE_PERIOD_FIELD", "MISSING_VALUES"}
(* What the tools accept as a question to tell of: a page has a row.        *)
ASSUME ClaimsAssumption ==
    /\ None \notin Verdicts \cup Courses \cup SeriesGaps
    /\ \A c \in Cases : \A q \in c.questions :
         q.form = "claims" =>
           /\ Posed(q.ask) /\ q.limit \in Nat \ {0} /\ q.additive \in BOOLEAN
           /\ \A f \in c.facts : Numbered(f)

-----------------------------------------------------------------------------
(* Periods: a half-open window of months, or the snapshot a metric's time   *)
(* policy selects, whose month the rows themselves must prove.  A period    *)
(* says where it is from: the running month asked for is not the default.   *)
Windows == {"explicit", "default_current_month"}
PeriodRead(m, q) ==
    LET Window(from, w) == [source |-> from, from |-> w[1], to |-> w[2], month |-> None]
    IN IF q.window # None THEN Window("explicit", q.window)
       ELSE IF m.policy = "current_month" THEN Window("default_current_month", <<Now, Now + 1>>)
       ELSE [source |-> m.policy, from |-> None, to |-> None, month |-> None]

IsSnapshot(p) == p.source \in Snapshots
IsWindow(p) == p.source \in Windows

(* _calendar_period_evidence: how far the calendar is, never how fresh the  *)
(* source is.                                                               *)
Progress(p) ==
    IF ~IsWindow(p) THEN None
    ELSE IF p.to <= Now THEN "completed"
    ELSE IF p.from > Now THEN "not_started" ELSE "in_progress"

(* assess_period_compatibility.                                             *)
Assess(l, r) ==
    LET states == {Progress(l), Progress(r)}
    IN IF IsSnapshot(l) \/ IsSnapshot(r)
       THEN IF /\ IsSnapshot(l) /\ IsSnapshot(r)
               /\ None \notin {l.month, r.month}
            THEN "compatible" ELSE "not_assessable"
       ELSE IF l = r THEN "compatible"
       ELSE IF states = {None} THEN None
       ELSE IF states = {"completed"} THEN "compatible"
       ELSE IF states \cap {None, "not_started"} # {} THEN "not_assessable"
       ELSE "coverage_mismatch"

(* A calculation of two operands has no verdict of its own to fall back on. *)
AssessOperands(l, r) == IF Assess(l, r) = None THEN "not_assessable" ELSE Assess(l, r)

Reasons(verdict) == CASE verdict = "not_assessable" -> {"PERIOD_COMPARABILITY_NOT_ASSESSABLE"}
                      [] verdict = "coverage_mismatch" -> {"PERIOD_COVERAGE_MISMATCH"}
                      [] OTHER -> {}

(* The matched windows of a year-over-year question carry their own proof   *)
(* of alignment: day numbers, the request's bounds and the observation day. *)
AssessAligned(start, end, observed, matched) ==
    LET first == DayNumber(start)
        effective == matched.current[2]
        clipped == effective < DayNumber(end)
    IN IF /\ first < effective /\ effective <= DayNumber(end)
          /\ effective <= DayNumber(observed) + 1
          /\ matched.current[1] = first
          /\ matched.prior[1] = DayNumber(YearEarlier(start))
          /\ \/ matched.prior[2] - matched.prior[1] = effective - first
             \/ /\ start[3] = 1 /\ end[3] = 1 /\ ~clipped
                /\ matched.prior[2] = DayNumber(YearEarlier(end))
       THEN "compatible" ELSE "not_assessable"

-----------------------------------------------------------------------------
(* The rows that come back, at most limit of them, and their data state.    *)
StateOf(c) == IF c.missing + c.known = 0 THEN "missing"
              ELSE IF c.missing = 0 THEN "complete"
              ELSE IF c.known = 0 THEN "missing" ELSE "incomplete"

Nought(q, v) == v # None /\ (IF q.form = "ratio" THEN v[1] = 0 ELSE v = 0)

(* _evidence_rows_and_state.                                                *)
DataState(q, cells, cut) ==
    LET states == {StateOf(cells[k]) : k \in DOMAIN cells}
        Only(k) == DOMAIN cells = {k}
    IN IF cut THEN "truncated"
       ELSE IF \A k \in DOMAIN cells : cells[k].match = 0 THEN "empty"
       ELSE IF "incomplete" \in states THEN "incomplete"
       ELSE IF states = {"missing"} THEN "undefined"
       ELSE IF "missing" \in states THEN "incomplete"
       ELSE IF \E k \in DOMAIN cells : Only(k) /\ cells[k].value = None THEN "undefined"
       ELSE IF \E k \in DOMAIN cells : Only(k) /\ Nought(q, cells[k].value) THEN "zero"
       ELSE "rows"

(* _resolve_snapshot_time_evidence: the month of a snapshot is the newest   *)
(* date among the rows of each group, which all groups must agree on; only  *)
(* the statement of a core metric returns it.                               *)
MonthsProved(m, q, keys) ==
    LET rows == Scope(m, q)
        NewestOf(k) == SqlMax([r \in {x \in rows : DimensionValue(q.dim, x) = k} |-> facts[r].month])
    IN IF q.form = "core" THEN {NewestOf(k) : k \in keys} \ {None} ELSE {}
WithMonth(p, months) ==
    IF IsSnapshot(p) /\ months # {} THEN [p EXCEPT !.month = Max(months)] ELSE p
Proved(m, q, keys) == WithMonth(PeriodRead(m, q), MonthsProved(m, q, keys))
Conflicting(m, q, keys) ==
    IsSnapshot(PeriodRead(m, q)) /\ Cardinality(MonthsProved(m, q, keys)) > 1
RequiredValueMissing(q, p, keys) ==
    /\ q.form = "core" /\ keys # {}
    /\ p.source = "latest_non_null_snapshot" /\ p.month = None

(* _resolve_current_as_of_date_evidence: without a row no date is proved,   *)
(* and what is told is one undefined row.                                   *)
AsOfMissing(q, p, keys) ==
    q.parts[1].metric.dated /\ p.source = "current_snapshot" /\ keys = {}

-----------------------------------------------------------------------------
(* Claims.                                                                  *)

(* _comparison_is_complete: every value and every state of both periods; a  *)
(* metric whose change may be partitioned also tells each side's state, and *)
(* a group absent from one side must have no source row there.              *)
SideComplete(table, k) == k \notin DOMAIN table \/ StateOf(table[k]) = "complete"
ComparisonComplete(q, additive, k, cell) ==
    /\ None \notin {cell.value, cell.comparison, cell.delta}
    /\ StateOf(cell) = "complete"
    /\ additive => SideComplete(Table(Current(q)), k) /\ SideComplete(Table(Prior(q)), k)

Displayed(q, k) == q.dim # None /\ (k # None \/ q.dim = "currency")

AuthorizedUnlessMismatched(verdict) == verdict # "coverage_mismatch"
Authorized(verdict) == verdict \in {None, "compatible"}

(* _claim_ledger: the relations a claim may be used for.                    *)
Relations(q, additive, verdict, k, cell) ==
    {"observation"}
    \cup (IF /\ q.compare # None /\ Authorized(verdict)
             /\ ComparisonComplete(q, additive, k, cell)
          THEN {"period_comparison"} ELSE {})
    \cup (IF Displayed(q, k) THEN {"dimension_breakdown"} ELSE {})

(* The claim the model sees; the change is withdrawn from a comparison of   *)
(* periods that do not match (_fail_closed_period_comparison_model_wire).   *)
ClaimOf(q, additive, verdict, k, cell) ==
    [relations |-> Relations(q, additive, verdict, k, cell),
     value |-> cell.value,
     delta |-> IF q.compare # None /\ Authorized(verdict) THEN cell.delta ELSE None]

Completeness(state) == CASE state = "truncated" -> "truncated"
                         [] state \in {"empty", "undefined", "incomplete"} -> "limited"
                         [] OTHER -> "complete"

Supports(state, claims) ==
    (UNION {claims[k].relations : k \in DOMAIN claims})
    \cup (CASE state = "empty" -> {"empty_result_state"}
            [] state = "undefined" -> {"undefined_result_state"}
            [] state = "zero" -> {"verified_zero_state"}
            [] OTHER -> {})

Limitations(state, verdict, periods) ==
    (CASE state = "truncated" -> {"SOURCE_TRUNCATED"}
       [] state = "empty" -> {"DATA_STATE_EMPTY"}
       [] state = "undefined" -> {"DATA_STATE_UNDEFINED"}
       [] state = "incomplete" -> {"DATA_STATE_INCOMPLETE"}
       [] OTHER -> {})
    \cup Reasons(verdict)
    \cup {"PERIOD_IN_PROGRESS" : p \in {x \in periods : Progress(x) = "in_progress"}}
    \cup {"PERIOD_NOT_STARTED" : p \in {x \in periods : Progress(x) = "not_started"}}

-----------------------------------------------------------------------------
(* build_numeric_evidence: a monthly series is ranked and added up only     *)
(* when every month of a window that is over came back.                     *)
SeriesGap(p, cut, months) ==
    IF ~IsWindow(p) THEN "FULL_MONTH_WINDOW_REQUIRED"
    ELSE IF cut THEN "SERIES_TRUNCATED"
    ELSE IF Progress(p) # "completed" THEN "PERIOD_NOT_COMPLETED"
    ELSE IF months # p.from..(p.to - 1) THEN "MISSING_PERIODS"
    ELSE None

Ranking(p, cut, claims) ==
    IF SeriesGap(p, cut, DOMAIN claims) # None \/ \E n \in DOMAIN claims : claims[n].value = None
    THEN None
    ELSE [n \in DOMAIN claims |-> 1 + Cardinality({x \in DOMAIN claims : claims[x].value < claims[n].value})]

(* _period_additive_fields.                                                 *)
Additive(q) == /\ q.form \in {"core", "composite"}
               /\ \A i \in DOMAIN q.parts :
                    /\ q.parts[i].metric.agg \in {"sum", "sum_positive", "sum_product"}
                    /\ q.parts[i].metric.policy \notin Snapshots \cup {"current_snapshot"}

SummaryGap(q, p, cut, claims, chosen) ==
    IF DOMAIN claims = {} THEN "EMPTY_RESULT"
    ELSE IF IsWindow(p) /\ ~(chosen \subseteq p.from..(p.to - 1)) THEN "PERIOD_OUTSIDE_QUERY"
    ELSE IF ~Additive(q) THEN "NONADDITIVE_PERIOD_FIELD"
    ELSE IF SeriesGap(p, cut, DOMAIN claims) # None THEN SeriesGap(p, cut, DOMAIN claims)
    ELSE IF \E n \in DOMAIN claims : claims[n].value = None THEN "MISSING_VALUES"
    ELSE None
SummaryUnless(gap, claims, chosen) ==
    LET Adding(months) == Sum([n \in months |-> claims[n].value])
    IN IF gap # None THEN [gap |-> gap, selected |-> None, total |-> None]
       ELSE [gap |-> None, selected |-> Adding(chosen), total |-> Adding(DOMAIN claims)]
Summary(q, p, cut, claims, chosen) ==
    SummaryUnless(SummaryGap(q, p, cut, claims, chosen), claims, chosen)

-----------------------------------------------------------------------------
(* One branch: its statement, the rows that fit, and what is told of them.  *)
Failed(code) == [refused |-> code]

StateTold(q, cells, cut, current, prior) ==
    IF \/ AsOfMissing(q, current, DOMAIN cells)
       \/ \E p \in {current, prior} \ {None} : RequiredValueMissing(q, p, DOMAIN cells)
    THEN "undefined" ELSE DataState(q, cells, cut)
RowsTold(q, cells, cut, current) ==
    IF AsOfMissing(q, current, DOMAIN cells) THEN [k \in {None} |-> NoCell]
    ELSE IF \A k \in DOMAIN cells : ~cut /\ cells[k].match = 0 THEN <<>>
    ELSE cells

OneSeries(q) == q.dim = "period" /\ q.compare = None /\ q.form # "ratio"
Wire(q, chosen, cut, state, verdict, current, prior, claims) ==
    IF (state = "empty") # (DOMAIN claims = {})  \* _filter_model_wire_evidence
    THEN Failed("EVIDENCE_INTEGRITY_INVALID")
    ELSE [refused |-> None, state |-> state, claims |-> claims, verdict |-> verdict,
          period |-> [current |-> current, prior |-> prior],
          completeness |-> Completeness(state), supports |-> Supports(state, claims),
          limitations |-> Limitations(state, verdict, {current, prior} \ {None}),
          ranking |-> IF OneSeries(q) /\ DOMAIN claims # {} THEN Ranking(current, cut, claims) ELSE None,
          summary |-> IF OneSeries(q) THEN Summary(q, current, cut, claims, chosen) ELSE None]

ClaimsOf(q, additive, verdict, told) ==
    [k \in DOMAIN told |-> ClaimOf(q, additive, verdict, k, told[k])]
TellRows(q, additive, chosen, cells, cut, current, prior, verdict) ==
    Wire(q, chosen, cut, StateTold(q, cells, cut, current, prior), verdict, current, prior,
         ClaimsOf(q, additive, verdict, RowsTold(q, cells, cut, current)))
Verdict(q, current, prior) == IF q.compare = None THEN None ELSE Assess(current, prior)
TellPeriods(q, additive, chosen, cells, cut, current, prior) ==
    TellRows(q, additive, chosen, cells, cut, current, prior, Verdict(q, current, prior))
Tell(q, additive, chosen, table, shown) ==
    LET m == q.parts[1].metric
    IN IF \/ Conflicting(m, Current(q), shown)
          \/ q.compare # None /\ Conflicting(m, Prior(q), shown)
       THEN Failed("CONTRACT_UNAVAILABLE")
       ELSE TellPeriods(q, additive, chosen, [k \in shown |-> table[k]], shown # DOMAIN table,
                        Proved(m, Current(q), shown),
                        IF q.compare = None THEN None ELSE Proved(m, Prior(q), shown))

Shown(table, limit) ==
    IF Cardinality(DOMAIN table) <= limit THEN {DOMAIN table} ELSE kSubset(limit, DOMAIN table)

TellBranch ==
    /\ Ask({"claims"})
    /\ LET q == question.ask
       IN IF PlanRefusal(q) # None THEN Reply(Failed(PlanRefusal(q)))
          ELSE \E table \in {Run(q)} : \E shown \in Shown(table, question.limit) :
                 Reply(Tell(q, question.additive, question.chosen, table, shown))

AlignedAnswer(q) ==
    LET periods == PeriodsOf(q)
    IN IF periods.refused # None \/ periods.matched = None THEN Failed("range")
       ELSE [refused |-> None, matched |-> periods.matched,
             verdict |-> AssessAligned(q[1], q[2], q[3], periods.matched)]
AlignTold == Ask({"aligned"}) /\ Reply(AlignedAnswer(question.ask))

ClaimsNext == TellBranch \/ AlignTold

-----------------------------------------------------------------------------
(* What is told, stated on the source rows alone.                           *)
Told == answer # None /\ question.form = "claims" /\ answer.refused = None
Asked == question.ask
Keys(q) == IF q.compare = None THEN KeysOf(q) ELSE KeysOf(Current(q)) \cup KeysOf(Prior(q))
Sides(q) == IF q.compare = None THEN {q} ELSE {Current(q), Prior(q)}
SourceRows(q) == UNION {Counted(q.parts[i].metric, q) : i \in DOMAIN q.parts}
Exact(q) == Sums(q) /\ q.form # "ratio"

(* "Complete" means every group with every value, all of them known; "zero" *)
(* a total of nothing but known amounts; "empty" that no source row is in   *)
(* any period asked for; "undefined" that no value can be known.            *)
(* (_evidence_rows_and_state, _completeness, _supports.)                    *)
StatesTrue ==
    Told =>
      /\ answer.completeness = "complete" =>
           /\ DOMAIN answer.claims = Keys(Asked)
           /\ Exact(Asked) => \A k \in DOMAIN answer.claims :
                /\ answer.claims[k].value # None
                /\ answer.claims[k].value = TruthOf(Current(Asked), k)
      /\ "verified_zero_state" \in answer.supports /\ Exact(Asked) =>
           TruthOf(Current([Asked EXCEPT !.dim = None]), All) = 0
      /\ "empty_result_state" \in answer.supports =>
           \A q \in Sides(Asked) : SourceRows(q) = {}
      /\ "undefined_result_state" \in answer.supports /\ Exact(Asked) =>
           \A k \in Keys(Asked) : None \in {TruthOf(q, k) : q \in Sides(Asked)}

(* A comparison is authorised, and a change shown, only between values that *)
(* are known on both sides of periods that are both over, or of snapshots   *)
(* whose months the rows prove; the month told is that of every row behind  *)
(* the answer. (_comparison_is_complete, assess_period_compatibility,       *)
(* _resolve_snapshot_time_evidence.)                                        *)
Over(p) == p.to <= Now
ComparisonsTrue ==
    Told =>
      /\ \A k \in DOMAIN answer.claims :
           LET c == answer.claims[k]
           IN /\ c.delta # None => \/ \A p \in {answer.period.current, answer.period.prior} :
                                        IsWindow(p) /\ Over(p)
                                   \/ \A p \in {answer.period.current, answer.period.prior} :
                                        p.month # None
              /\ "period_comparison" \in c.relations =>
                   /\ c.delta # None
                   /\ Exact(Asked) => c.delta = TruthOf(Current(Asked), k) - TruthOf(Prior(Asked), k)
      /\ IsSnapshot(answer.period.current) /\ answer.period.current.month # None =>
           \A r \in SourceRows(Current(Asked)) : facts[r].month = answer.period.current.month

(* The total of a series is the total of its window, the selected part that *)
(* of the selected months, and a month is ranked among all of the window;   *)
(* an overdue row is worth nothing here until it is assessed.               *)
(* (build_numeric_evidence, _period_additive_fields.)                       *)
InMonth(q, n) == TruthOf(q, n)
SeriesTrue ==
    Told /\ Asked.dim = "period" /\ Exact(Asked) =>
      /\ answer.summary # None /\ answer.summary.gap = None =>
           /\ answer.summary.total = TruthOf([Asked EXCEPT !.dim = None], All)
           /\ answer.summary.selected =
                Sum([n \in question.chosen |-> InMonth(Asked, n)])
      /\ answer.ranking # None => \A n \in Asked.window[1]..(Asked.window[2] - 1) :
           answer.ranking[n] = 1 + Cardinality({x \in Asked.window[1]..(Asked.window[2] - 1) :
                                                  InMonth(Asked, x) < InMonth(Asked, n)})

(* What is said of an answer is true of its source rows: its state, its     *)
(* comparisons and its series. (_claim_ledger, evidence.py.)                *)
ClaimsTrue == StatesTrue /\ ComparisonsTrue /\ SeriesTrue

(* The windows the compiler matches are the windows the evidence accepts,   *)
(* and it accepts none that covers more of one year than of the other.      *)
(* (assess_period_compatibility against matched_elapsed.)                   *)
AlignedTrue ==
    answer # None /\ question.form = "aligned" /\ answer.refused = None =>
      /\ answer.verdict = "compatible"
      /\ Days(answer.matched.prior) # Days(answer.matched.current) => WholeMonths(question.ask)

(* The windows of a comparison are fair, as compiled and as told.           *)
(* (_matched_windows of query_builders.py, assess_period_compatibility.)    *)
PeriodsTrue == PeriodsMatch /\ AlignedTrue
=============================================================================
