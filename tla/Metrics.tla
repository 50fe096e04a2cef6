------------------------------ MODULE Metrics ------------------------------
(* What a governed metric query returns.  query_builders.py compiles a      *)
(* question into one SQL statement: a filtered, joined and grouped          *)
(* aggregation (the core), a signed union of cores (composite), a quotient  *)
(* of two cores (ratio) or two periods of any of them side by side          *)
(* (comparison).  The model gives each statement its meaning: a table from  *)
(* group keys to cells, where NULL is None and an aggregate over no value   *)
(* is NULL.  Dates are the real calendar, months of fact rows are integers. *)
EXTENDS Answers

-----------------------------------------------------------------------------
(* What the contracts and the request schema let through: the metrics, the  *)
(* questions and the columns of fact rows that are numbers.  An overdue     *)
(* metric is of the current snapshot, and so is one whose statement must    *)
(* prove the date it was read (dated): neither is compared with another     *)
(* period, and no composite or ratio is made of it.                         *)
Snapshots == {"latest_snapshot", "latest_non_null_snapshot"}
Governed == [agg : {"sum", "sum_positive", "sum_product", "count_distinct", "max", "min"},
             kinds : SUBSET {"out", "back", "void"},
             policy : Snapshots \cup {"current_month", "current_snapshot"},
             scoped : {None, "unit", "currency"}, overdue : BOOLEAN, dated : BOOLEAN]
SignedMetrics == [metric : Governed, sign : {1, -1}]
Forms == {"core", "composite", "ratio"}
Dimensions == {"unit", "currency", "region", "period"}
Admissible(q) ==
    /\ q \in [form : Forms, parts : Seq(SignedMetrics), dim : {q.dim}, filter : {q.filter},
              window : {None} \cup (Int \X Int), offset : Int, compare : {None} \cup Int,
              nonzero : BOOLEAN]
    /\ q.form = "core" => Len(q.parts) = 1
    /\ q.form = "composite" => Len(q.parts) \in 2..5
    /\ q.form = "ratio" => Len(q.parts) = 2
    /\ \A i \in DOMAIN q.parts :
         q.parts[i].metric.overdue \/ q.parts[i].metric.dated => q.form = "core" /\ q.compare = None
(* As posed, a question names no snapshot offset of its own; flows are      *)
(* compared by their window, the latest snapshot of a core metric by months *)
(* before it, and neither month by month (metric_comparison_kinds of        *)
(* contracts.py, _build_comparison_metric_query).                           *)
Posed(q) ==
    /\ Admissible(q) /\ q.offset = 0
    /\ q.filter # None => q.filter = [dim |-> q.filter.dim, values |-> q.filter.values]
    /\ q.compare # None =>
         /\ q.dim # "period"
         /\ q.window = None => q.form = "core" /\ q.compare > 0
         /\ \A i \in DOMAIN q.parts :
              q.parts[i].metric.policy =
                IF q.window = None THEN "latest_snapshot" ELSE "current_month"
Numbered(f) ==
    /\ IsFiniteSet(DOMAIN f)
    /\ \A r \in DOMAIN f : /\ f[r].month \in Int
                          /\ {f[r].amount, f[r].qty, f[r].age} \subseteq Int \cup {None}
(* What rows are grouped by: asking for one group alone is a filter.        *)
GroupValues(f, cs) ==
    (UNION {{f[r].unit, f[r].cur} : r \in DOMAIN f}) \cup {"m", None}
      \cup {cs[f[r].cust].region : r \in {x \in DOMAIN f : f[x].cust # None /\ cs[f[x].cust] # None}}
Filters(f, cs) == {[dim |-> d, values |-> {v}] : d \in Dimensions, v \in GroupValues(f, cs)}
Dates == Int \X (1..12) \X (1..31)
Errors == {"range", "SCOPE_REQUIRED", "CONTRACT_UNAVAILABLE", "INVALID_PLAN"}

ASSUME MetricsAssumption ==
    /\ Now \in Int /\ None \notin Int \cup (Int \X Int) \cup Dimensions \cup Errors
    /\ \A c \in Cases :
         /\ \A q \in c.questions :
              /\ q.form \in Forms => Posed(q)
              /\ q.form \in {"periods", "aligned"} => q.ask \in Dates \X Dates \X Dates
         /\ (\E q \in c.questions : q.form \in Forms) =>
              \A f \in c.facts : Numbered(f) /\ \A cs \in c.customers : None \notin Filters(f, cs)

-----------------------------------------------------------------------------
(* The calendar: a date is <<year, month, day>>.                            *)
Leap(y) == (y % 4 = 0 /\ y % 100 # 0) \/ y % 400 = 0
MonthLength(y, m) == IF m = 2 THEN (IF Leap(y) THEN 29 ELSE 28)
                     ELSE IF m \in {4, 6, 9, 11} THEN 30 ELSE 31
(* Days of the months before m, by the usual approximation of 367 twelfths *)
(* a month.                                                                *)
DaysBefore(y, m) == (367 * m - 362) \div 12
                    - (IF m <= 2 THEN 0 ELSE IF Leap(y) THEN 1 ELSE 2)
DayNumber(d) ==
    LET y == d[1] - 1
    IN 365 * y + y \div 4 - y \div 100 + y \div 400
       + DaysBefore(d[1], d[2]) + d[3]
MonthNumber(d) == 12 * d[1] + d[2] - 1
MonthStart(n) == <<n \div 12, (n % 12) + 1, 1>>
YearEarlier(d) == <<d[1] - 1, d[2], Min({d[3], MonthLength(d[1] - 1, d[2])})>>

(* The window before [start, end): as many whole months when both bounds    *)
(* begin a month, as many days otherwise.  Windows are day numbers.         *)
PriorWindow(start, end) ==
    IF start[3] = 1 /\ end[3] = 1
    THEN <<DayNumber(MonthStart(2 * MonthNumber(start) - MonthNumber(end))),
           DayNumber(start)>>
    ELSE <<2 * DayNumber(start) - DayNumber(end), DayNumber(start)>>

(* year_over_year with coverage matched_elapsed: the current window is cut  *)
(* off after the observation day, the prior one is as long.                 *)
MatchedByYear(start, end, observed) ==
    LET effective == Min({DayNumber(end), DayNumber(observed) + 1})
    IN [current |-> <<DayNumber(start), effective>>,
        prior |-> <<DayNumber(YearEarlier(start)), DayNumber(YearEarlier(end))>>]
MatchedElapsed(start, end, observed) ==
    LET effective == Min({DayNumber(end), DayNumber(observed) + 1})
        first == DayNumber(YearEarlier(start))
        whole == effective = DayNumber(end) /\ start[3] = 1 /\ end[3] = 1
    IN [current |-> <<DayNumber(start), effective>>,
        prior |-> <<first, IF whole THEN DayNumber(YearEarlier(end))
                           ELSE first + effective - DayNumber(start)>>]

PeriodsOf(q) ==
    LET start == q[1]
        end == q[2]
        observed == q[3]
    IN IF DayNumber(start) >= DayNumber(end) THEN [refused |-> "range"]
       ELSE [refused |-> None,
             previous |-> PriorWindow(start, end),
             matched |-> IF DayNumber(observed) < DayNumber(start) THEN None
                         ELSE MatchedElapsed(start, end, observed)]

-----------------------------------------------------------------------------
(* The rows a question is about.                                            *)

(* The dataset's own required filter is a list of record kinds; a metric    *)
(* may repeat or narrow it and never replace it.                            *)
DatasetKinds == {"out", "back"}
KeepsPopulation(m) == m.kinds = {} \/ m.kinds \subseteq DatasetKinds
KindsOf(m) == IF m.kinds = {} THEN DatasetKinds ELSE m.kinds \cap DatasetKinds

(* Left join on a declared unique key of the target, whose own filter is a  *)
(* part of the join condition: a row is never lost and never doubled.       *)
Joined(r) ==
    LET key == facts[r].cust
    IN IF key # None /\ customers[key] # None /\ customers[key].active
       THEN customers[key] ELSE [region |-> None, days |-> None, active |-> FALSE]

Normal(unit) == IF unit = "M" THEN "m" ELSE unit

DimensionValue(d, r) ==
    CASE d = "unit" -> Normal(facts[r].unit)
      [] d = "currency" -> facts[r].cur
      [] d = "region" -> Joined(r).region
      [] d = "period" -> facts[r].month
      [] d = None -> All

Selected(f, r) ==
    f = None \/ DimensionValue(f.dim, r) \in
                  {IF f.dim = "unit" THEN Normal(v) ELSE v : v \in f.values}

(* _latest_snapshot_resolver_sql: the newest month of the dataset's whole   *)
(* population, whatever the metric or the user narrows.                     *)
LatestNarrowed(m, q) ==
    LET months == {facts[r].month : r \in {x \in DOMAIN facts :
                      facts[x].kind \in KindsOf(m) /\ Selected(q.filter, x)}}
    IN IF months = {} THEN None ELSE Max(months)
LatestSnapshot(m, q) ==
    LET population == {r \in DOMAIN facts :
            /\ facts[r].kind \in DatasetKinds
            /\ m.policy = "latest_non_null_snapshot" => facts[r].amount # None}
        months == {facts[r].month : r \in population}
    IN IF months = {} THEN None ELSE Max(months)

(* The months the statement reads: the request's own window, or the one of  *)
(* the metric's time policy.                                                *)
MonthsRead(m, q) ==
    IF q.window # None THEN q.window[1]..(q.window[2] - 1)
    ELSE CASE m.policy = "current_month" -> {Now}
           [] m.policy \in Snapshots ->
                LET latest == LatestSnapshot(m, q)
                IN IF latest = None THEN {} ELSE {latest - q.offset}
           [] m.policy = "current_snapshot" -> {facts[r].month : r \in DOMAIN facts}

Scope(m, q) ==
    LET months == MonthsRead(m, q)
    IN {r \in DOMAIN facts : /\ facts[r].kind \in KindsOf(m)
                             /\ facts[r].month \in months
                             /\ Selected(q.filter, r)}

(* Amounts in an original currency and quantities in several units are      *)
(* never added up: such a metric wants its unit as a group or one value.    *)
OneUnit(m, q) ==
    \/ m.scoped = None
    \/ q.dim = m.scoped
    \/ q.filter # None /\ q.filter.dim = m.scoped /\ Cardinality(q.filter.values) = 1

(* The plan's own errors, in the order the compiler meets them.             *)
Refusal(m, q) ==
    CASE ~OneUnit(m, q) -> "SCOPE_REQUIRED"
      [] ~KeepsPopulation(m) -> "CONTRACT_UNAVAILABLE"
      [] q.window # None /\ q.window[1] >= q.window[2] -> "INVALID_PLAN"
      [] q.window # None /\ m.policy \in Snapshots
           /\ q.window[2] - q.window[1] # 1 -> "INVALID_PLAN"
      [] OTHER -> None

-----------------------------------------------------------------------------
(* One cell: the aggregate of a set of rows, how many of them can and how   *)
(* many cannot be assessed, and what is known of rows without a currency.   *)

(* Required inputs of the aggregation, NULL in the row.                     *)
Incomplete(m, r) ==
    \/ m.agg \in {"sum", "sum_positive", "sum_product"} /\ facts[r].amount = None
    \/ m.agg = "sum_product" /\ facts[r].qty = None
    \/ m.scoped = "currency" /\ facts[r].cur = None

Measure(m, r) ==
    LET a == facts[r].amount
    IN CASE m.agg = "sum" -> a
         [] m.agg = "sum_product" -> Times(a, facts[r].qty)
         [] m.agg = "sum_positive" -> IF a # None /\ a > 0 THEN a ELSE 0
         [] OTHER -> a

AggregateOf(agg, values) ==
    CASE agg \in {"sum", "sum_positive", "sum_product"} -> OrZero(SqlSum(values))
      [] agg = "count_distinct" -> Cardinality({values[r] : r \in Some(values)})
      [] agg = "max" -> SqlMax(values)
      [] agg = "min" -> SqlMin(values)
Aggregate(m, rows) == AggregateOf(m.agg, [r \in rows |-> Measure(m, r)])

Signed(v, sign) == IF sign = -1 THEN Negated(v) ELSE v

Unclassified(m, rows, sign) ==
    LET lost == {r \in rows : m.scoped = "currency" /\ facts[r].cur = None}
        values == [r \in lost |-> IF m.agg = "sum" THEN Signed(facts[r].amount, sign) ELSE None]
    IN [count |-> Cardinality(lost), min |-> SqlMin(values), max |-> SqlMax(values)]

(* A value is told only when no row is missing; the value of the known ones *)
(* is kept beside it.                                                       *)
Cell(known, missing, value, unclassified) ==
    [value |-> IF missing > 0 THEN None ELSE value,
     missing |-> missing, known |-> known, match |-> known + missing,
     subset |-> IF known > 0 THEN value ELSE None,
     unclassified |-> unclassified]

PlainCell(m, rows, sign) ==
    LET incomplete == {r \in rows : Incomplete(m, r)}
    IN Cell(Cardinality(rows \ incomplete), Cardinality(incomplete),
            Signed(Aggregate(m, rows), sign), Unclassified(m, rows, sign))

(* Overdue: a row is eligible when its date plus the customer's credit days *)
(* lies before today, unknown when either is NULL.  Eligibility is decided  *)
(* in the select list: a row that cannot be assessed stays in the count.    *)
Unassessable(r) == facts[r].age = None \/ Joined(r).days = None
Overdue(r) == ~Unassessable(r) /\ facts[r].age > Joined(r).days

OverdueCell(m, rows, sign) ==
    LET eligible == {r \in rows : Overdue(r)}
        unknown == {r \in rows : Unassessable(r)}
        selected == {r \in eligible : ~Incomplete(m, r) /\ Measure(m, r) # None}
    IN Cell(Cardinality(selected), Cardinality(unknown) + Cardinality(eligible \ selected),
            IF selected = {} THEN None ELSE Signed(Aggregate(m, selected), sign),
            Unclassified(m, rows, sign))

CellOf(m, rows, sign) == IF m.overdue THEN OverdueCell(m, rows, sign)
                         ELSE PlainCell(m, rows, sign)

-----------------------------------------------------------------------------
(* The statements.  A table maps group keys to cells; an ungrouped one has  *)
(* a row even when no source row matches.                                   *)

(* _build_metric_core; a group of an overdue metric has a row to assess.    *)
GroupKeys(q, rows) == IF q.dim = None THEN {All} ELSE {DimensionValue(q.dim, r) : r \in rows}
Grouped(m, q, sign, rows) ==
    [k \in GroupKeys(q, rows) |-> CellOf(m, {r \in rows : DimensionValue(q.dim, r) = k}, sign)]
Having(assessed, table) ==
    [k \in {x \in DOMAIN table : assessed => table[x].match > 0} |-> table[k]]
Core(m, q, sign) == Having(m.overdue /\ q.dim # None, Grouped(m, q, sign, Scope(m, q)))

(* A left join finds no row: every column is NULL, the counts read as 0.    *)
NoCell == [value |-> None, missing |-> 0, known |-> 0, match |-> 0, subset |-> None,
           unclassified |-> [count |-> 0, min |-> None, max |-> None]]
At(table, k) == IF k \in DOMAIN table THEN table[k] ELSE NoCell
Full(c) == IF c.missing > 0 THEN None ELSE OrZero(c.value)

(* _build_composite_metric_core: UNION ALL of the signed components, then   *)
(* one more aggregation over their rows.                                    *)
Composite(parts) ==
    LET keys == UNION {DOMAIN parts[i] : i \in DOMAIN parts}
        Of(k) == {i \in DOMAIN parts : k \in DOMAIN parts[i]}
        Column(k, field) == Sum([i \in Of(k) |-> parts[i][k][field]])
        Lost(k, field) == [i \in Of(k) |-> parts[i][k].unclassified[field]]
    IN [k \in keys |->
          [value |-> IF Column(k, "missing") > 0 THEN None
                     ELSE OrZero(SqlSum([i \in Of(k) |-> parts[i][k].value])),
           missing |-> Column(k, "missing"), known |-> Column(k, "known"),
           match |-> Column(k, "match"), subset |-> None,
           unclassified |-> [count |-> OrZero(SqlSum(Lost(k, "count"))),
                             min |-> SqlMin(Lost(k, "min")),
                             max |-> SqlMax(Lost(k, "max"))]]]

(* _build_ratio_metric_core: numerator and denominator meet on the union of *)
(* their keys, NULL keys included.  A quotient is the pair of its operands. *)
Quotient(nonzero, n, d, top, base) ==
    [NoCell EXCEPT
       !.value = IF /\ n.missing + d.missing = 0
                    /\ base # None /\ (IF nonzero THEN base # 0 ELSE base > 0)
                 THEN <<top, base>> ELSE None,
       !.missing = n.missing + d.missing,
       !.known = n.known + d.known, !.match = n.match + d.match]
Ratio(nonzero, parts) ==
    [k \in DOMAIN parts[1] \cup DOMAIN parts[2] |->
       LET n == At(parts[1], k)
           d == At(parts[2], k)
       IN Quotient(nonzero, n, d, Full(n), Full(d))]

Assembled(q, parts) == CASE q.form = "core" -> parts[1]
                         [] q.form = "composite" -> Composite(parts)
                         [] q.form = "ratio" -> Ratio(q.nonzero, parts)
Table(q) ==
    Assembled(q, [i \in DOMAIN q.parts |->
                    Core(q.parts[i].metric, q, IF q.form = "composite" THEN q.parts[i].sign ELSE 1)])

(* _build_comparison_metric_query: the same statement for two windows.      *)
Current(q) == q
Prior(q) == IF q.window # None
            THEN [q EXCEPT !.window = <<2 * q.window[1] - q.window[2], q.window[1]>>]
            ELSE [q EXCEPT !.offset = q.compare]

Minus(c, p) == <<c[1] * p[2] - p[1] * c[2], c[2] * p[2]>>
Change(q, c, p, cur, old) ==
    LET quotient == q.form = "ratio"
        both == cur # None /\ old # None
    IN [value |-> cur, comparison |-> old,
        delta |-> IF ~both THEN None
                  ELSE IF quotient THEN Minus(cur, old) ELSE cur - old,
        rate |-> both /\ (IF quotient THEN old[1] * old[2] > 0
                          ELSE old > 0 /\ c.missing + p.missing = 0),
        missing |-> c.missing + p.missing, known |-> c.known + p.known,
        match |-> c.match + p.match]
SideValue(q, c) == IF q.form = "ratio" THEN c.value ELSE Full(c)
SideBySide(q, keys, c, p) ==
    [k \in keys |-> LET now == At(c, k)
                        then == At(p, k)
                    IN Change(q, now, then, SideValue(q, now), SideValue(q, then))]

OnCurrentKeys(q, c, p) == SideBySide(q, DOMAIN c, c, p)
OnEitherKeys(q, c, p) == SideBySide(q, DOMAIN c \cup DOMAIN p, c, p)
Comparison(q) == OnEitherKeys(q, Table(Current(q)), Table(Prior(q)))

(* The parts of a metric must read the same period, which only a window or  *)
(* one time policy makes them do.                                           *)
PeriodsAgree(q) ==
    q.window # None \/ \A i, j \in DOMAIN q.parts :
                          q.parts[i].metric.policy = q.parts[j].metric.policy
PlanRefusal(q) ==
    LET codes == {Refusal(q.parts[i].metric, p) :
                    i \in DOMAIN q.parts, p \in {q} \cup (IF q.compare = None THEN {} ELSE {Prior(q)})}
    IN IF codes # {None} THEN CHOOSE c \in codes : c # None
       ELSE IF PeriodsAgree(q) THEN None ELSE "CONTRACT_UNAVAILABLE"

-----------------------------------------------------------------------------
Allowed == PlanRefusal(question) = None

AlignPeriods == Ask({"periods"}) /\ Reply(PeriodsOf(question.ask))

Refuse == Ask(Forms) /\ ~Allowed /\ Reply([refused |-> PlanRefusal(question)])

RunMetric == /\ Ask(Forms)
             /\ question.compare = None
             /\ Allowed
             /\ Reply(Table(question))

RunComparison == /\ Ask(Forms)
                 /\ question.compare # None
                 /\ Allowed
                 /\ Reply(Comparison(question))

MetricsNext == AlignPeriods \/ Refuse \/ RunMetric \/ RunComparison

-----------------------------------------------------------------------------
(* What the answers mean, stated on the source rows alone.                  *)
Answered == answer # None /\ question.form \in Forms /\ Allowed

Live == {r \in DOMAIN facts : facts[r].kind \in DatasetKinds}
Newest(rows) == {r \in rows : \A x \in rows : facts[x].month <= facts[r].month}

(* The month a row must have to count: the one asked for, the running one,  *)
(* or the newest the dataset holds, the same for every part of an answer.   *)
InTime(m, q, r) ==
    IF q.window # None THEN q.window[1] <= facts[r].month /\ facts[r].month < q.window[2]
    ELSE CASE m.policy = "current_month" -> facts[r].month = Now
           [] m.policy = "current_snapshot" -> TRUE
           [] m.policy = "latest_snapshot" ->
                \E x \in Newest(Live) : facts[r].month = facts[x].month - q.offset
           [] OTHER -> \E x \in Newest({y \in Live : facts[y].amount # None}) :
                         facts[r].month = facts[x].month - q.offset
Counted(m, q) ==
    {r \in Live : /\ m.kinds # {} => facts[r].kind \in m.kinds
                  /\ InTime(m, q, r)
                  /\ Selected(q.filter, r)
                  /\ m.overdue => Overdue(r) \/ Unassessable(r)}
CountedIn(m, q, k) == {r \in Counted(m, q) : DimensionValue(q.dim, r) = k}

(* The value of a metric over rows: unknown as soon as one row is, and for  *)
(* a quotient unless the denominator admits one.                            *)
Worth(m, r) == CASE m.agg = "sum" -> facts[r].amount
                 [] m.agg = "sum_positive" -> Max({facts[r].amount, 0})
                 [] m.agg = "sum_product" -> facts[r].amount * facts[r].qty
Truth(m, rows) ==
    IF \E r \in rows : Incomplete(m, r) \/ (m.overdue /\ Unassessable(r)) THEN None
    ELSE IF m.overdue /\ rows = {} THEN None
    ELSE Sum([r \in rows |-> Worth(m, r)])
TruthOf(q, k) ==
    LET Of(i) == Truth(q.parts[i].metric, CountedIn(q.parts[i].metric, q, k))
    IN CASE q.form = "core" -> Of(1)
         [] q.form = "composite" ->
              IF \E i \in DOMAIN q.parts : Of(i) = None THEN None
              ELSE Sum([i \in DOMAIN q.parts |-> q.parts[i].sign * Of(i)])
         [] q.form = "ratio" ->
              IF None \in {Of(1), Of(2)} THEN None
              ELSE IF Of(2) = 0 \/ (Of(2) < 0 /\ ~q.nonzero) THEN None
              ELSE <<Of(1), Of(2)>>
KeysOf(q) == IF q.dim = None THEN {All}
             ELSE UNION {{DimensionValue(q.dim, r) : r \in Counted(q.parts[i].metric, q)} :
                           i \in DOMAIN q.parts}
Sums(q) == \A i \in DOMAIN q.parts : q.parts[i].metric.agg \in {"sum", "sum_positive", "sum_product"}

(* An answer has a row for exactly the groups that own a source row, the    *)
(* NULL group and groups of one side or one period alone included, and each *)
(* number is the one its rows make: NULL exactly when an input is unknown   *)
(* or the quotient does not exist, never a partial sum.                     *)
AnswerTrue ==
    Answered /\ Sums(question) =>
      LET q == question
      IN IF q.compare = None
         THEN /\ DOMAIN answer = KeysOf(q)
              /\ \A k \in DOMAIN answer : answer[k].value = TruthOf(q, k)
         ELSE /\ DOMAIN answer = KeysOf(Current(q)) \cup KeysOf(Prior(q))
              /\ \A k \in DOMAIN answer :
                   LET c == TruthOf(Current(q), k)
                       p == TruthOf(Prior(q), k)
                   IN /\ answer[k].value = c
                      /\ answer[k].comparison = p
                      /\ (answer[k].delta = None) = (None \in {c, p})
                      /\ q.form # "ratio" /\ answer[k].delta # None => answer[k].delta = c - p

(* The groups of an answer make up the whole: their row counts add up to    *)
(* those of the ungrouped answer, known and unknown ones separately, so do  *)
(* the values, and asking for one group alone returns that group's row.     *)
Run(q) == IF q.compare = None THEN Table(q) ELSE Comparison(q)
AddsUp(q, whole) ==
    LET Added(field) == Sum([k \in DOMAIN answer |-> answer[k][field]])
    IN /\ \A field \in {"missing", "known", "match"} : whole[field] = Added(field)
       /\ Sums(q) /\ q.form # "ratio" /\ whole.missing = 0 /\ whole.value # None =>
            whole.value = Added("value")
PartsAgree ==
    Answered =>
      LET q == question
      IN /\ AddsUp(q, Run([q EXCEPT !.dim = None])[All])
         /\ q.filter = None /\ q.dim \in {"unit", "region", "currency"} =>
              \A k \in DOMAIN answer \ {None} :
                Run([q EXCEPT !.dim = None, !.filter = [dim |-> q.dim, values |-> {k}]])[All]
                  = answer[k]

(* Two periods that are compared are as long as each other, in whole months *)
(* or in days, and do not overlap: the previous one ends where the current  *)
(* begins, last year's starts on the same day of the year; a running period *)
(* is never compared with a prior one that is already further on.           *)
Days(w) == w[2] - w[1]
WholeMonths(q) == q[1][3] = 1 /\ q[2][3] = 1
PeriodsMatch ==
    answer # None /\ question.form = "periods" /\ answer.refused = None =>
      LET q == question.ask
          m == answer.matched
      IN /\ answer.previous[2] = DayNumber(q[1])
         /\ IF WholeMonths(q)
            THEN \E y \in (2 * q[1][1] - q[2][1] - 1)..q[1][1], n \in 1..12 :
                   /\ answer.previous[1] = DayNumber(<<y, n, 1>>)
                   /\ MonthNumber(q[1]) - MonthNumber(<<y, n, 1>>)
                        = MonthNumber(q[2]) - MonthNumber(q[1])
            ELSE Days(answer.previous) = DayNumber(q[2]) - DayNumber(q[1])
         /\ m # None =>
              /\ m.current[2] <= DayNumber(q[3]) + 1
              /\ Days(m.current) > 0
              /\ Days(m.prior) # Days(m.current) =>
                   WholeMonths(q) /\ m.current[2] = DayNumber(q[2])
=============================================================================
