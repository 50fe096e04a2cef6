----------------------------- MODULE Analytics -----------------------------
(* The derived metrics of analytical_queries.py: turnover of stock and of   *)
(* receivables, settlement behaviour, two ledgers side by side, allocated   *)
(* net amounts and target completion.  Each aggregates every source on its  *)
(* own before it joins them, and answers NULL where an input is missing.    *)
(*                                                                          *)
(* Time is counted in half months: month n begins at 2n, rows of a monthly  *)
(* table lie there, and today lies in the first half of month Now.          *)
(* Quotients are kept as their operands.                                    *)
EXTENDS Answers

Analyses == {"turnover", "settlement", "dso", "paired", "allocated", "completion"}

MonthOf(r) == facts[r].time \div 2
Whole == [key |-> All, period |-> All]

(* Mapped filters and fixed filters narrow each source by itself.           *)
Rows(q, side) == {r \in DOMAIN facts : /\ facts[r].side = side
                                       /\ q.only = None \/ facts[r].key = q.only}
Group(q, r) == [key |-> IF "key" \in q.by THEN facts[r].key ELSE All,
                period |-> IF "period" \in q.by THEN MonthOf(r) ELSE All]
Groups(q, rows) == IF q.by = {} THEN {Whole} ELSE {Group(q, r) : r \in rows}
In(q, rows, g) == {r \in rows : Group(q, r) = g}
Within(rows, w) == {r \in rows : /\ facts[r].time # None
                                 /\ w[1] <= facts[r].time /\ facts[r].time < w[2]}
Nulls(rows, column) == Cardinality({r \in rows : facts[r][column] = None})
Total(rows, column) == SqlSum([r \in rows |-> facts[r][column]])

-----------------------------------------------------------------------------
(* Periods.                                                                 *)
TimeWindow(q) == CASE q.window # None -> q.window
                   [] q.months = 0 -> <<2 * Now, 2 * Now + 2>>
                   [] OTHER -> <<2 * (Now - q.months), 2 * Now>>
BeginsMonths(w) == w[1] % 2 = 0 /\ w[2] % 2 = 0
Completed(w) == w[2] <= 2 * Now

(* A target trend without a period covers six months, the running included. *)
TargetWindow(q) == IF "period" \in q.by /\ q.window = None
                   THEN <<2 * (Now - 5), 2 * (Now + 1)>> ELSE TimeWindow(q)
Mixed(w) == w[1] < 2 * (Now + 1) /\ w[2] > 2 * (Now + 1)

AnalysisRefusal(q) ==
    LET w == TimeWindow(q)
    IN CASE q.window # None /\ w[1] >= w[2] -> "INVALID_PLAN"
         [] q.form = "dso" /\ ~(BeginsMonths(w) /\ Completed(w)) -> "INVALID_PLAN"
         [] q.form = "turnover" /\ q.window # None /\ ~(BeginsMonths(w) /\ Completed(w))
              -> "INVALID_PLAN"
         [] q.form = "completion" /\ "period" \notin q.by /\ Mixed(TargetWindow(q))
              -> "TARGET_MIXED_PERIOD_REQUIRES_MONTHLY_BUCKET"
         [] q.form = "completion" /\ ~BeginsMonths(TargetWindow(q)) -> "INVALID_PLAN"
         [] OTHER -> None

-----------------------------------------------------------------------------
(* _inventory_turnover_query: average stock of the months over what left.   *)

(* A month is closed once any row of it, whatever is asked, has a cost.     *)
ClosedRow(r) == facts[r].cost \notin {None, 0}
OperatingMonths(q) ==
    LET closed == {MonthOf(r) : r \in {x \in DOMAIN facts : ClosedRow(x) /\ MonthOf(x) < Now}}
    IN IF q.window # None THEN (q.window[1] \div 2)..(q.window[2] \div 2 - 1)
       ELSE IF closed = {} THEN {} ELSE (Max(closed) - q.months + 1)..Max(closed)

TurnoverCell(rows, months) ==
    LET opening == Min(months) - 1
        span == months \cup {opening}
        flows == {r \in rows : MonthOf(r) \in months}
        seen == {MonthOf(r) : r \in rows}
        unready == {n \in span : ~\E r \in DOMAIN facts : MonthOf(r) = n /\ ClosedRow(r)}
        Weighted(r) == IF MonthOf(r) \in {opening, Max(months)} THEN facts[r].cost
                       ELSE Times(2, facts[r].cost)
        stock == IF unready # {} \/ seen # span \/ Nulls(rows, "cost") > 0 THEN None
                 ELSE SqlSum([r \in rows |-> Weighted(r)])
        net == IF ~(months \subseteq seen) \/ Nulls(flows, "net") > 0 THEN None
               ELSE Total(flows, "net")
    IN [value |-> IF stock = None \/ net \in {None, 0} THEN None
                  ELSE <<stock, 2 * Cardinality(months), net>>,
        stock |-> stock, net |-> net,
        missing |-> Nulls(rows, "cost"), match |-> Cardinality(rows),
        state |-> CASE unready # {} -> "inventory_cost_accounting_not_ready"
                    [] seen # span -> "missing_entity_snapshot"
                    [] Nulls(rows, "cost") > 0 -> "missing_cost_value"
                    [] net = None -> "missing_net_delivery_value"
                    [] net = 0 -> "zero_net_delivery"
                    [] OTHER -> "available"]

Turnover(q) ==
    LET months == OperatingMonths(q)
        rows == IF months = {} THEN {}
                ELSE {r \in Rows(q, "stock") : MonthOf(r) \in months \cup {Min(months) - 1}}
    IN [g \in {Group(q, r) : r \in rows} |-> TurnoverCell(In(q, rows, g), months)]

-----------------------------------------------------------------------------
(* _settlement_query: days from bill to completion, one value a document.   *)
Documents(q) ==
    LET rows == Within(Rows(q, "bill"), TimeWindow(q))
        Of(i) == {r \in rows : <<facts[r].doc, Group(q, r)>> = i}
        Days(some) ==
            LET billed == SqlMin([r \in some |-> facts[r].bill])
            IN IF billed = None THEN None ELSE SqlMin([r \in some |-> facts[r].time]) - billed
    IN [i \in {<<facts[r].doc, Group(q, r)>> : r \in rows} |->
          [days |-> Days(Of(i)),
           open |-> \E r \in Of(i) : facts[r].open # None /\ facts[r].open > 0,
           unclear |-> \E r \in Of(i) : None \in {facts[r].open, facts[r].bill}]]

Eligible(d) == d.days # None /\ d.days >= 0 /\ ~d.open /\ ~d.unclear
Band(days) == CASE days <= 2 -> "0-30" [] days <= 4 -> "31-60"
                [] days <= 6 -> "61-90" [] OTHER -> "over 90"

Settlement(q) ==
    LET bills == Documents(q)
        groups == IF q.by = {} THEN {Whole} ELSE {i[2] : i \in DOMAIN bills}
        Of(g) == {i \in DOMAIN bills : i[2] = g}
        Fit(g) == {i \in Of(g) : Eligible(bills[i])}
        Statistic(some) ==
            CASE q.statistic = "average" ->
                   <<MapThenSumSet(LAMBDA i : bills[i].days, some), Cardinality(some)>>
              [] q.statistic = "maximum" -> Max({bills[i].days : i \in some})
              [] OTHER -> Cardinality(some)
        Cell(g, some) ==
            LET negative == {i \in Of(g) : bills[i].days # None /\ bills[i].days < 0}
                open == {i \in Of(g) : bills[i].open}
                unclear == {i \in Of(g) : bills[i].unclear /\ ~bills[i].open}
            IN [value |-> IF unclear # {} \/ some = {} THEN None ELSE Statistic(some),
                subset |-> IF some = {} THEN None ELSE Statistic(some),
                known |-> Cardinality(some), negative |-> Cardinality(negative),
                open |-> Cardinality(open), missing |-> Cardinality(unclear),
                match |-> Cardinality(some) + Cardinality(negative)
                            + Cardinality(open) + Cardinality(unclear)]
        BandsOf(g) == IF Fit(g) = {} THEN {None} ELSE {Band(bills[i].days) : i \in Fit(g)}
    IN IF q.statistic = "distribution"
       THEN [x \in UNION {[group : {g}, band : BandsOf(g)] : g \in groups} |->
               Cell(x.group, {i \in Fit(x.group) : Band(bills[i].days) = x.band})]
       ELSE [x \in [group : groups, band : {All}] |-> Cell(x.group, Fit(x.group))]

-----------------------------------------------------------------------------
(* _formal_dso_query: average receivables over deliveries.  The debt side   *)
(* leads the join: only its groups are answered.                            *)
DsoCell(debts, sold, w) ==
    LET opening == w[1] \div 2 - 1
        ending == w[2] \div 2 - 1
        Weighted(r) == IF MonthOf(r) \in {opening, ending} THEN facts[r].amount
                       ELSE Times(2, facts[r].amount)
        average == IF Cardinality({MonthOf(r) : r \in debts}) = ending - opening + 1
                      /\ Nulls(debts, "amount") = 0
                   THEN SqlSum([r \in debts |-> Weighted(r)]) ELSE None
        delivery == IF sold = {} \/ Nulls(sold, "amount") > 0 THEN None
                    ELSE Total(sold, "amount")
        missing == Nulls(debts, "amount") + Nulls(sold, "amount")
        value == IF missing > 0 \/ average = None \/ delivery = None \/ delivery <= 0
                 THEN None ELSE <<average, 2 * (ending - opening), delivery>>
    IN [value |-> value, average |-> average, delivery |-> delivery, missing |-> missing,
        match |-> Cardinality(debts \cup sold),
        state |-> IF value # None THEN "complete" ELSE "missing"]

Dso(q) ==
    LET w == TimeWindow(q)
        debts == Within(Rows(q, "debt"), <<w[1] - 2, w[2]>>)
        sold == Within(Rows(q, "delivery"), w)
    IN [g \in Groups(q, debts) |-> DsoCell(In(q, debts, g), In(q, sold, g), w)]

-----------------------------------------------------------------------------
(* _aggregate_components: each signed fact is grouped by itself, then the   *)
(* groups are added up; a single fact is a list of one.                     *)
Component(q, part, w) ==
    LET rows == Within(Rows(q, part.side), w)
    IN [g \in Groups(q, rows) |->
          LET own == In(q, rows, g)
          IN [amount |-> part.sign * OrZero(Total(own, "amount")),
              rows |-> Cardinality(own), nulls |-> Nulls(own, "amount")]]

Components(q, parts, w) ==
    LET tables == [i \in DOMAIN parts |-> Component(q, parts[i], w)]
        Column(g, field) == MapThenSumSet(LAMBDA i : tables[i][g][field],
                                          {i \in DOMAIN parts : g \in DOMAIN tables[i]})
    IN [g \in UNION {DOMAIN tables[i] : i \in DOMAIN parts} |->
          [amount |-> Column(g, "amount"), rows |-> Column(g, "rows"),
           nulls |-> Column(g, "nulls")]]

Nobody == [amount |-> 0, rows |-> 0, nulls |-> 0]
SideOf(table, g) == IF g \in DOMAIN table THEN table[g] ELSE Nobody
Sure(s) == s.rows > 0 /\ s.nulls = 0

(* _paired_amounts_query: two ledgers on the union of their groups.         *)
PairedCell(l, r) ==
    LET both == Sure(l) /\ Sure(r)
        missing == l.nulls + r.nulls
        rows == l.rows + r.rows
    IN [value |-> IF both THEN l.amount - r.amount ELSE None,
        left |-> IF Sure(l) THEN l.amount ELSE None,
        right |-> IF Sure(r) THEN r.amount ELSE None,
        coverage |-> IF both /\ l.amount > 0 THEN <<r.amount, l.amount>> ELSE None,
        missing |-> missing, known |-> rows - missing, match |-> rows,
        state |-> CASE both -> "complete"
                    [] rows = missing -> "missing"
                    [] OTHER -> "incomplete"]
PairedJoined(q) ==
    LET l == Components(q, q.left, TimeWindow(q))
        r == Components(q, q.right, TimeWindow(q))
    IN [g \in DOMAIN l |-> PairedCell(l[g], SideOf(r, g))]
Paired(q) ==
    LET l == Components(q, q.left, TimeWindow(q))
        r == Components(q, q.right, TimeWindow(q))
    IN [g \in DOMAIN l \cup DOMAIN r |-> PairedCell(SideOf(l, g), SideOf(r, g))]

(* _allocated_amount_query.                                                 *)
Allocated(q) ==
    LET table == Components(q, q.left, TimeWindow(q))
    IN [g \in DOMAIN table |->
          [value |-> IF table[g].nulls > 0 THEN None ELSE table[g].amount,
           missing |-> table[g].nulls, known |-> table[g].rows - table[g].nulls,
           match |-> table[g].rows]]

-----------------------------------------------------------------------------
(* _target_completion_query: monthly targets and what has been achieved of  *)
(* them up to today.                                                        *)
PeriodState(q, g) ==
    LET w == TargetWindow(q)
    IN IF "period" \in q.by
       THEN CASE g.period > Now -> "not_started"
              [] g.period = Now -> "in_progress"
              [] OTHER -> "completed"
       ELSE CASE w[1] >= 2 * (Now + 1) -> "not_started"
              [] w[2] > 2 * (Now + 1) -> "includes_future"
              [] w[1] >= 2 * Now /\ w[2] <= 2 * (Now + 1) -> "in_progress"
              [] w[2] <= 2 * Now -> "completed"
              [] OTHER -> "includes_in_progress"

CompletionCell(target, actual, period) ==
    LET begun == period \notin {"not_started", "includes_future"}
        both == begun /\ Sure(target) /\ Sure(actual)
    IN [value |-> IF both /\ target.amount # 0 THEN <<actual.amount, target.amount>> ELSE None,
        target |-> IF Sure(target) THEN target.amount ELSE None,
        actual |-> IF begun /\ Sure(actual) THEN actual.amount ELSE None,
        gap |-> IF both THEN target.amount - actual.amount ELSE None,
        period |-> period,
        targetState |-> CASE target.rows = 0 /\ ~begun -> "not_set_for_future"
                          [] target.rows = 0 -> "missing"
                          [] target.nulls > 0 -> "incomplete"
                          [] target.amount = 0 -> "zero"
                          [] OTHER -> "set",
        actualState |-> CASE ~begun -> "not_started"
                          [] actual.rows = 0 -> "missing"
                          [] actual.nulls > 0 -> "incomplete"
                          [] OTHER -> "reported",
        missing |-> target.nulls, match |-> target.rows + actual.rows]

Completion(q) ==
    LET w == TargetWindow(q)
        observed == <<w[1], Min({w[2], 2 * Now + 1})>>
        targets == Components(q, <<[side |-> "target", sign |-> 1]>>, w)
        actuals == Components(q, q.left, observed)
    IN [g \in DOMAIN targets \cup DOMAIN actuals |->
          CompletionCell(SideOf(targets, g), SideOf(actuals, g), PeriodState(q, g))]

-----------------------------------------------------------------------------
Derived(q) == CASE q.form = "turnover" -> Turnover(q)
                [] q.form = "settlement" -> Settlement(q)
                [] q.form = "dso" -> Dso(q)
                [] q.form = "paired" -> Paired(q)
                [] q.form = "allocated" -> Allocated(q)
                [] q.form = "completion" -> Completion(q)

RefuseAnalysis == /\ Ask(Analyses)
                  /\ AnalysisRefusal(question) # None
                  /\ Reply([refused |-> AnalysisRefusal(question)])
RunAnalysis == /\ Ask(Analyses)
               /\ AnalysisRefusal(question) = None
               /\ Reply(Derived(question))

AnalyticsNext == RefuseAnalysis \/ RunAnalysis

-----------------------------------------------------------------------------
(* What the numbers mean, stated on the source rows alone.                  *)
Analysed == answer # None /\ question.form \in Analyses /\ AnalysisRefusal(question) = None

(* What rows make together: unknown as soon as one of them is.              *)
Made(rows, column) == IF \E r \in rows : facts[r][column] = None THEN None
                      ELSE MapThenSumSet(LAMBDA r : facts[r][column], rows)
OfMonth(rows, n) == {r \in rows : MonthOf(r) = n}

(* Twice the average of month ends times the number of months: each month   *)
(* counts its opening and its closing stock, and both must be there.        *)
Balances(rows, column, months) ==
    IF \E n \in months : \E m \in {n - 1, n} :
          OfMonth(rows, m) = {} \/ Made(OfMonth(rows, m), column) = None
    THEN None
    ELSE MapThenSumSet(LAMBDA n : Made(OfMonth(rows, n - 1), column) + Made(OfMonth(rows, n), column),
                       months)

MonthsIn(w) == {n \in (w[1] \div 2)..(w[2] \div 2) : w[1] <= 2 * n /\ 2 * n < w[2]}
LastClosed(n) == /\ n < Now
                 /\ \E r \in DOMAIN facts : ClosedRow(r) /\ MonthOf(r) = n
                 /\ \A r \in DOMAIN facts : ClosedRow(r) /\ MonthOf(r) < Now => MonthOf(r) <= n
TurnoverTruth(q, g, months) ==
    LET rows == In(q, Rows(q, "stock"), g)
        span == months \cup {n - 1 : n \in months}
        stock == IF \A n \in span : \E r \in OfMonth(DOMAIN facts, n) : ClosedRow(r)
                 THEN Balances(rows, "cost", months) ELSE None
        net == Made({r \in rows : MonthOf(r) \in months}, "net")
    IN IF stock = None \/ net \in {None, 0} THEN None
       ELSE <<stock, 2 * Cardinality(months), net>>
TurnoverIsTrue(q) ==
    LET months == IF q.window # None THEN MonthsIn(q.window)
                  ELSE {n \in -10..Now : \E last \in n..(n + q.months - 1) : LastClosed(last)}
        asked == {r \in Rows(q, "stock") : {MonthOf(r), MonthOf(r) + 1} \cap months # {}}
    IN /\ DOMAIN answer = {Group(q, r) : r \in asked}
       /\ \A g \in DOMAIN answer :
            /\ answer[g].value = TurnoverTruth(q, g, months)
            /\ (answer[g].value # None) = (answer[g].state = "available")

DsoIsTrue(q) ==
    LET w == TimeWindow(q)
        debts == {r \in Rows(q, "debt") : {MonthOf(r), MonthOf(r) + 1} \cap MonthsIn(w) # {}}
        Truth(g) ==
            LET average == Balances(In(q, debts, g), "amount", MonthsIn(w))
                sold == Within(In(q, Rows(q, "delivery"), g), w)
                delivery == Made(sold, "amount")
            IN IF average = None \/ delivery = None \/ delivery <= 0 THEN None
               ELSE <<average, 2 * Cardinality(MonthsIn(w)), delivery>>
    IN /\ DOMAIN answer = Groups(q, debts)
       /\ \A g \in DOMAIN answer : answer[g].value = Truth(g)

(* A document counts when every row of it is paid and billed and it was not *)
(* completed before it was billed; while nothing is open, an unknown amount *)
(* or date leaves the group without a value.                                *)
SettlementIsTrue(q) ==
    LET rows == Within(Rows(q, "bill"), TimeWindow(q))
        Own(g, d) == {r \in In(q, rows, g) : facts[r].doc = d}
        Docs(g) == {facts[r].doc : r \in In(q, rows, g)}
        Is(r, column, values) == facts[r][column] \in values
        Unpaid(g, d) == \E r \in Own(g, d) : Is(r, "open", Nat \ {0})
        Unsure(g, d) == /\ ~Unpaid(g, d)
                        /\ \E r \in Own(g, d) : Is(r, "open", {None}) \/ Is(r, "bill", {None})
        Took(g, d) == Min({facts[r].time : r \in Own(g, d)}) - Min({facts[r].bill : r \in Own(g, d)})
        Counts(g, d) == ~Unpaid(g, d) /\ ~Unsure(g, d) /\ Took(g, d) >= 0
        Sample(x) == {d \in Docs(x.group) : Counts(x.group, d)
                                         /\ x.band \in {All, Band(Took(x.group, d))}}
        Truth(x) ==
            CASE (\E d \in Docs(x.group) : Unsure(x.group, d)) \/ Sample(x) = {} -> None
              [] q.statistic = "distribution" -> Cardinality(Sample(x))
              [] q.statistic = "maximum" -> Max({Took(x.group, d) : d \in Sample(x)})
              [] OTHER -> <<MapThenSumSet(LAMBDA d : Took(x.group, d), Sample(x)),
                            Cardinality(Sample(x))>>
    IN /\ {x.group : x \in DOMAIN answer} = Groups(q, rows)
       /\ \A x \in DOMAIN answer :
            /\ answer[x].value = Truth(x)
            /\ (answer[x].match = 0) = (Docs(x.group) = {})
            /\ q.statistic # "distribution" => answer[x].match >= Cardinality(Docs(x.group))

(* Signed sums of the rows of one side.                                     *)
PartOf(parts, r) == {i \in DOMAIN parts : parts[i].side = facts[r].side}
SideRows(q, parts, w) ==
    UNION {Within(Rows(q, parts[i].side), w) : i \in DOMAIN parts}
SideMade(parts, rows) ==
    IF rows = {} \/ Made(rows, "amount") = None THEN None
    ELSE MapThenSumSet(LAMBDA r : parts[CHOOSE i \in PartOf(parts, r) : TRUE].sign * facts[r].amount,
                       rows)
PairedIsTrue(q) ==
    LET l == SideRows(q, q.left, TimeWindow(q))
        r == SideRows(q, q.right, TimeWindow(q))
    IN /\ DOMAIN answer = Groups(q, l \cup r)
       /\ \A g \in DOMAIN answer :
            LET a == answer[g]
                left == SideMade(q.left, In(q, l, g))
                right == SideMade(q.right, In(q, r, g))
            IN /\ a.left = left /\ a.right = right
               /\ a.value = IF None \in {left, right} THEN None ELSE left - right
               /\ (a.value # None) = (a.state = "complete")
               /\ a.coverage # None => a.value # None /\ left > 0

(* A target is met by what happened up to today, in the same period, for    *)
(* the same group; before a period begins there is nothing to say of it.    *)
CompletionIsTrue(q) ==
    LET w == TargetWindow(q)
        due == Within(Rows(q, "target"), w)
        done == {r \in SideRows(q, q.left, w) : facts[r].time <= 2 * Now}
        Begun(g) == IF "period" \in q.by THEN g.period <= Now ELSE w[2] <= 2 * Now + 2
    IN /\ DOMAIN answer = Groups(q, due \cup done)
       /\ \A g \in DOMAIN answer :
            LET a == answer[g]
                target == IF In(q, due, g) = {} THEN None ELSE Made(In(q, due, g), "amount")
                actual == IF Begun(g) THEN SideMade(q.left, In(q, done, g)) ELSE None
                both == None \notin {target, actual}
            IN /\ a.target = target /\ a.actual = actual
               /\ a.value = IF both /\ target # 0 THEN <<actual, target>> ELSE None
               /\ a.gap = IF both THEN target - actual ELSE None
               /\ (target # None) = (a.targetState \in {"set", "zero"})
               /\ (actual # None) = (a.actualState = "reported")

(* Every derived number is the one its source rows make, NULL exactly when  *)
(* a month, a side or an amount it needs is missing, and every group that   *)
(* owns a row of a leading source is there (query behaviour of              *)
(* analytical_queries.py).                                                  *)
DerivedTrue ==
    Analysed =>
      CASE question.form = "turnover" -> TurnoverIsTrue(question)
        [] question.form = "dso" -> DsoIsTrue(question)
        [] question.form = "settlement" -> SettlementIsTrue(question)
        [] question.form = "paired" -> PairedIsTrue(question)
        [] question.form = "completion" -> CompletionIsTrue(question)
        [] question.form = "allocated" ->
             LET rows == SideRows(question, question.left, TimeWindow(question))
             IN /\ DOMAIN answer = Groups(question, rows)
                /\ \A g \in DOMAIN answer :
                     LET own == In(question, rows, g)
                     IN answer[g].value = IF own = {} THEN 0 ELSE SideMade(question.left, own)

(* The groups of a derived answer make up its whole, months as well as      *)
(* members: no source row is counted in none or in two of them.             *)
GroupsMakeWhole ==
    Analysed /\ question.form \notin {"settlement", "dso"} =>
      LET q == [question EXCEPT !.by = {}]
          Added(field) == MapThenSumSet(LAMBDA g : answer[g][field], DOMAIN answer)
          amounts == CASE q.form = "turnover" -> {"stock", "net"}
                       [] q.form = "paired" -> {"left", "right"}
                       [] q.form = "completion" -> {"target", "actual"}
                       [] OTHER -> {"value"}
          spelled == IF q.form = "completion" THEN [q EXCEPT !.window = TargetWindow(question)] ELSE q
          whole == Derived(spelled)
      IN AnalysisRefusal(spelled) = None /\ DOMAIN answer # {} =>
           \A field \in {"match", "missing"} \cup amounts :
              (\A g \in DOMAIN answer : answer[g][field] # None)
                => whole[Whole][field] = Added(field)
=============================================================================
