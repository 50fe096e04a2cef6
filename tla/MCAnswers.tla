----------------------------- MODULE MCAnswers -----------------------------
(* Families of small tables and the questions asked of them.  Two or three  *)
(* source rows are enough for a group that only one side of a join has, for *)
(* an unknown next to a known amount and for a row of another month; each   *)
(* family varies the columns its questions read.                            *)
EXTENDS Calculations, TargetGaps, Attestations, Pools, Decomposition

Row == [kind |-> "out", month |-> 1, unit |-> "y", cust |-> "k", amount |-> 1,
        qty |-> 2, cur |-> "c", age |-> 5]
Client == [region |-> "e", days |-> 3, active |-> TRUE]

Metric == [agg |-> "sum", kinds |-> {"out"}, policy |-> "current_month",
           scoped |-> None, overdue |-> FALSE, dated |-> FALSE]
Part(m, sign) == [metric |-> m, sign |-> sign]
Question == [form |-> "core", parts |-> <<Part(Metric, 1)>>, dim |-> None, filter |-> None,
             window |-> None, offset |-> 0, compare |-> None, nonzero |-> FALSE]

Tables(ids, rows) == [ids -> rows]
Fixed == [k : {Client}]
(* Sale and return rows of two units and two months, known or not: sums,    *)
(* net sums, rates, and the change of each since the month before.          *)
Trade ==
    LET rows == {[Row EXCEPT !.kind = k, !.month = n, !.unit = u, !.amount = a] :
                   k \in {"out", "back"}, n \in 1..2, u \in {"y", None}, a \in {None, 1, 2}}
        back == [Metric EXCEPT !.kinds = {"back"}]
        parts == <<Part(Metric, 1), Part(back, -1)>>
        forms == {[Question EXCEPT !.form = f, !.parts = IF f = "core" THEN <<parts[1]>> ELSE parts] :
                    f \in {"core", "composite", "ratio"}}
    IN [facts |-> Tables(1..2, rows), customers |-> Fixed,
        questions |-> {[q EXCEPT !.dim = d] : q \in forms, d \in {None, "unit", "period"}}
                \cup {[q EXCEPT !.dim = d, !.window = <<2, 3>>, !.compare = 0] :
                        q \in forms, d \in {None, "unit"}}
                \cup {[q EXCEPT !.parts[1].metric.policy = "latest_snapshot"] : q \in forms}]

(* Snapshots of three months: the newest, the newest with a value, an older *)
(* one next to it; voided rows are no part of the population.               *)
Snapshot ==
    LET rows == {[Row EXCEPT !.kind = k, !.month = n, !.unit = u, !.amount = a] :
                   k \in {"out", "back", "void"}, n \in 1..3, u \in {"m", "M", "y"}, a \in {None, 1}}
        of(p) == [Question EXCEPT !.parts = <<Part([Metric EXCEPT !.policy = p], 1)>>]
        asked == {of(p) : p \in Snapshots \cup {"current_snapshot"}}
    IN [facts |-> Tables(1..2, rows), customers |-> Fixed,
        questions |-> {[q EXCEPT !.dim = d] : q \in asked, d \in {None, "unit"}}
                \cup {[q EXCEPT !.filter = [dim |-> "unit", values |-> {"M"}]] : q \in asked}
                \cup {[of("latest_snapshot") EXCEPT !.dim = d, !.compare = 1] : d \in {None, "unit"}}
                \cup {[of("latest_snapshot") EXCEPT !.window = w] : w \in {<<1, 2>>, <<1, 3>>, <<2, 2>>}}]

(* Joined customers, active or not, with and without credit days: regions,  *)
(* overdue amounts and the plans that are refused.                          *)
Clients ==
    LET rows == {[Row EXCEPT !.cust = c, !.age = n, !.amount = a, !.qty = p] :
                   c \in {"k", "l", None}, n \in {None, 3, 5}, a \in {None, 1}, p \in {None, 2}}
        clients == {None} \cup {[Client EXCEPT !.days = d, !.active = v] :
                                  d \in {None, 3}, v \in BOOLEAN}
        metrics == {[Metric EXCEPT !.agg = a, !.overdue = o] :
                      a \in {"sum", "sum_product"}, o \in BOOLEAN}
    IN [facts |-> Tables(1..2, rows), customers |-> {[k |-> c, l |-> [Client EXCEPT !.region = "f"]] : c \in clients},
        questions |-> {[Question EXCEPT !.parts = <<Part(m, 1)>>, !.dim = d] :
                         m \in metrics, d \in {None, "region"}}]

(* Other aggregations and amounts whose currency may be unknown.            *)
Currency ==
    LET rows == {[Row EXCEPT !.cur = c, !.amount = a, !.kind = k] :
                   c \in {"c", "d", None}, a \in {None, -1, 2}, k \in {"out", "back"}}
        metrics == {[Metric EXCEPT !.agg = a] : a \in {"sum_positive", "count_distinct", "max", "min"}}
                   \cup {[Metric EXCEPT !.kinds = k] : k \in {{}, DatasetKinds, {"void"}}}
        scoped == [Metric EXCEPT !.scoped = "currency"]
        back == [scoped EXCEPT !.kinds = {"back"}]
        filters == {None} \cup {[dim |-> "currency", values |-> v] : v \in {{"c"}, {"c", "d"}}}
    IN [facts |-> Tables(1..2, rows), customers |-> Fixed,
        questions |-> {[Question EXCEPT !.parts = <<Part(m, 1)>>, !.dim = d] :
                         m \in metrics, d \in {None, "currency"}}
                \cup {[Question EXCEPT !.parts = <<Part(scoped, 1)>>, !.dim = d, !.filter = f] :
                        d \in {None, "currency"}, f \in filters}
                \cup {[Question EXCEPT !.form = f, !.parts = <<Part(scoped, 1), Part(back, -1)>>,
                         !.dim = "currency", !.nonzero = TRUE] : f \in {"composite", "ratio"}}]

DatesDef == {<<2023, 12, 1>>, <<2024, 1, 1>>, <<2024, 2, 1>>, <<2024, 2, 29>>, <<2024, 3, 1>>,
             <<2024, 3, 31>>, <<2025, 2, 28>>, <<2025, 3, 1>>}
Calendar == [facts |-> {<<>>}, customers |-> {<<>>},
             questions |-> [form : {"periods"}, ask : DatesDef \X DatesDef \X DatesDef]]

(* What is told of an answer: rows that do not all fit, periods that are    *)
(* over or not, snapshots whose month must be proved.                       *)
Telling == [form |-> "claims", ask |-> Question, limit |-> 9, additive |-> TRUE, chosen |-> {}]
TradeTold ==
    LET rows == {[Row EXCEPT !.kind = k, !.month = n, !.unit = u, !.amount = a] :
                   k \in {"out", "back"}, n \in 0..1, u \in {"y", None}, a \in {None, 0, 1}}
        back == [Metric EXCEPT !.kinds = {"back"}]
        parts == <<Part(Metric, 1), Part(back, -1)>>
        forms == {[Question EXCEPT !.form = f, !.parts = IF f = "core" THEN <<parts[1]>> ELSE parts] :
                    f \in {"core", "composite", "ratio"}}
        of(q, w, n) == [Telling EXCEPT !.ask = [q EXCEPT !.window = w], !.limit = n]
    IN [facts |-> Tables(1..2, rows), customers |-> Fixed,
        questions |-> {of([q EXCEPT !.dim = d], <<1, 2>>, n) : q \in forms, d \in {None, "unit"}, n \in {1, 9}}
                \cup {[of([q EXCEPT !.dim = d, !.compare = 0], w, 9) EXCEPT !.additive = a] :
                        q \in forms, d \in {None, "unit"}, w \in {<<1, 2>>, <<2, 3>>}, a \in BOOLEAN}
                \cup {[of([q EXCEPT !.dim = "period"], w, 9) EXCEPT !.chosen = c] :
                        q \in forms, w \in {<<0, 2>>, <<0, 3>>, <<1, 2>>}, c \in {{1}, {0, 1}}}
                \cup {of([Question EXCEPT !.dim = "period"], <<0, 2>>, 1)}
                \cup {[of(q, None, 9) EXCEPT !.ask.parts[1].metric.policy = "latest_snapshot",
                                             !.ask.parts[2].metric.policy = "latest_snapshot"] :
                        q \in {x \in forms : x.form # "core"}}]
SnapshotTold ==
    LET rows == {[Row EXCEPT !.kind = k, !.month = n, !.unit = u, !.amount = a] :
                   k \in {"out", "void"}, n \in 1..3, u \in {"m", "y"}, a \in {None, 0, 1}}
        of(p) == [Telling EXCEPT !.ask.parts = <<Part([Metric EXCEPT !.policy = p], 1)>>]
        dated == {[of("current_snapshot") EXCEPT !.ask.parts[1].metric.dated = d] : d \in BOOLEAN}
        asked == {of(p) : p \in Snapshots} \cup dated
    IN [facts |-> Tables(1..2, rows), customers |-> Fixed,
        questions |-> {[q EXCEPT !.ask.dim = d] : q \in asked, d \in {None, "unit", "period"}}
                \cup {[q EXCEPT !.ask.filter = [dim |-> "unit", values |-> {"m"}]] : q \in asked}
                \cup {[of("latest_snapshot") EXCEPT !.ask.dim = d, !.ask.compare = 1] : d \in {None, "unit"}}]
Aligned == [facts |-> {<<>>}, customers |-> {<<>>},
            questions |-> [form : {"aligned"}, ask : DatesDef \X DatesDef \X DatesDef]]

(* Two answers of one call and the arithmetic on them.                      *)
Arithmetic ==
    LET rows == {[Row EXCEPT !.month = n, !.unit = u, !.amount = a] :
                   n \in 1..2, u \in {"m", "y", None}, a \in {None, -1, 2}}
        filters == {None} \cup {[dim |-> "unit", values |-> v] : v \in {{"y"}, {"m", "y"}}}
        scalars == {[Question EXCEPT !.filter = f, !.window = w] : f \in filters, w \in {<<1, 2>>, <<2, 3>>}}
        odd == {[Question EXCEPT !.dim = d, !.window = <<1, 2>>] : d \in {"unit", "period"}}
               \cup {[Question EXCEPT !.window = <<1, 2>>, !.compare = 0],
                     [Question EXCEPT !.window = <<1, 2>>, !.parts = <<Part([Metric EXCEPT !.agg = "max"], 1)>>]}
    IN [facts |-> Tables(1..2, rows), customers |-> Fixed,
        questions |-> [form : {"calculation"}, op : {"difference", "ratio", "share"},
                       left : scalars \cup odd, right : scalars \cup {Question}, partitions : {{"unit"}}]
                \cup [form : {"calculation"}, op : {"difference"}, left : odd, right : odd, partitions : {{}}]
                \cup [form : {"calculation"}, op : {"share"}, left : scalars, right : {Question}, partitions : {{}}]]

-----------------------------------------------------------------------------
(* Derived metrics; months 0 and 1 are over, month 2 is the running one.    *)
Analysis == [form |-> "turnover", by |-> {}, only |-> None, window |-> None, months |-> 1,
             statistic |-> None, left |-> <<>>, right |-> <<>>]
Family(tables, questions) == [facts |-> tables, customers |-> {<<>>}, questions |-> questions]

Stock(times, keys, costs, nets) ==
    [side : {"stock"}, time : times, key : keys, cost : costs, net : nets]
(* Two members and a month that may not be closed yet.                      *)
StockParts ==
    Family(Tables(1..2, Stock({0, 2, 4}, {"a", None}, {None, 0, 2}, {None, 0, 1})),
           {[Analysis EXCEPT !.by = b, !.only = o, !.window = w] :
              b \in {{}, {"key"}}, o \in {None, "a"}, w \in {None, <<2, 4>>}})
(* A member through three months.                                           *)
StockMonths ==
    Family([1..3 -> Stock({-2, 0, 2}, {"a"}, {None, 0, 2}, {None, 1})]
             \cup {[t EXCEPT ![3].time = 0, ![2].time = -2] : t \in [1..3 -> Stock({2}, {"a"}, {2, 4}, {0, 1})]},
           {[Analysis EXCEPT !.months = n, !.window = w] :
              n \in 1..2, w \in {None, <<0, 4>>, <<1, 4>>, <<2, 6>>, <<4, 2>>}})

Bills ==
    Family(Tables(1..2, [side : {"bill"}, doc : {"x", "y"}, key : {"a", None}, time : {0, 3, 8},
                         bill : {None, 0, 1}, open : {None, 0, 1}]),
           {[Analysis EXCEPT !.form = "settlement", !.by = b, !.window = <<0, 8>>, !.statistic = s] :
              b \in {{}, {"key"}}, s \in {"average", "maximum", "distribution"}})

Sided(sides, keys, times, amounts) ==
    [side : sides, key : keys, time : times, amount : amounts]
Receivables ==
    Family(Tables(1..3, Sided({"debt"}, {"a", None}, {0, 2}, {None, 1})
                        \cup Sided({"delivery"}, {"a"}, {2, 3, 4}, {None, -1, 2})),
           {[Analysis EXCEPT !.form = "dso", !.by = b, !.window = w] :
              b \in {{}, {"key"}}, w \in {None, <<2, 4>>}}
           \cup {[Analysis EXCEPT !.form = "dso", !.window = w] : w \in {<<2, 3>>, <<2, 6>>, <<2, 2>>}})

(* The same for two members, told with attestations.                        *)
Attesting ==
    LET debts(keys, times) == Sided({"debt"}, keys, times, {None, 0, 1})
        sold(keys) == Sided({"delivery"}, keys, {2, 4}, {None, -1, 2})
    IN Family({<<[d EXCEPT !.time = 0], d, s, e, t>> : d \in debts({"a"}, {2}), s \in sold({"a"}),
                   e \in debts({"b", None}, {0, 2}), t \in sold({"b", None})} \cup {<<>>},
              {[form |-> "attested", ask |-> [Analysis EXCEPT !.form = "dso", !.by = b, !.window = w, !.only = o],
                limit |-> n] : b \in {{}, {"key"}}, w \in {None, <<2, 4>>, <<2, 6>>}, o \in {None, "b"}, n \in {1, 9}})

Net == <<[side |-> "out", sign |-> 1], [side |-> "back", sign |-> -1]>>
Received == <<[side |-> "paid", sign |-> 1]>>
Ledgers ==
    Family(Tables(1..2, Sided({"out", "back", "paid"}, {"a", None}, {2, 4, 6}, {None, 0, 1})),
           {[Analysis EXCEPT !.form = "paired", !.by = b, !.window = w, !.left = Net, !.right = Received] :
              b \in {{}, {"key"}}, w \in {<<2, 6>>, <<4, 3>>}}
           \cup {[Analysis EXCEPT !.form = "allocated", !.by = b, !.months = n, !.left = Net] :
                    b \in SUBSET {"key", "period"}, n \in 0..1})
Targets ==
    Family(Tables(1..2, Sided({"target"}, {"a", None}, {2, 4, 6}, {None, 0, 2})
                        \cup Sided({"out", "back"}, {"a"}, {2, 4, 5, 6}, {None, 0, 1})),
           {[Analysis EXCEPT !.form = "completion", !.by = b, !.window = w, !.months = 0, !.left = Net] :
              b \in SUBSET {"key", "period"},
              w \in {None, <<2, 6>>, <<4, 8>>, <<6, 8>>, <<3, 6>>, <<2, 4>>}})

(* The gap to a target, whole and by member; the second member may be the   *)
(* nameless one, a target may be zero, below zero or unknown.               *)
Gaps ==
    LET of(side, keys, times, amounts) == Sided({side}, keys, times, amounts)
        asks == {[Analysis EXCEPT !.form = "completion", !.months = 0, !.left = Net, !.window = w] :
                   w \in {<<2, 4>>, <<4, 6>>, <<6, 8>>, <<4, 8>>}}
    IN Family({<<t, a, u, b>> : t \in of("target", {"a"}, {2}, {None, -1, 0, 2}),
                                a \in of("out", {"a"}, {2, 4}, {None, 0, 1}),
                                u \in of("target", {"b", None}, {2, 4}, {None, 1}),
                                b \in of("back", {"b", None}, {2, 5}, {0, 1})},
              [form : {"gap"}, ask : asks, mode : {"transaction_detail"}, identified : {TRUE}, limit : {1, 9}]
              \cup [form : {"gap"}, ask : asks, mode : {"transaction_detail"}, identified : {FALSE}, limit : {9}]
              \cup [form : {"gap"}, ask : asks, mode : {"ownership"}, identified : {TRUE}, limit : {9}])

-----------------------------------------------------------------------------
(* Pool records with at most one doubt each, or two in the narrow family.   *)
PoolAsk == [form |-> "movement", by |-> {}, only |-> None, week |-> None, window |-> None,
            sales |-> None, statistic |-> None]
Doubts(r, columns) == Cardinality({c \in columns : r[c] = None})
Frozen == [side |-> "then", id |-> 1, week |-> 1, at |-> 0, current |-> TRUE,
           product |-> "p", unit |-> "m", qty |-> 1]
Here == [side |-> "now", product |-> "p", unit |-> "m", qty |-> 1, white |-> "n"]
Keyed(r, products, units, amounts) ==
    {[r EXCEPT !.product = p, !.unit = u, !.qty = n] : p \in products, u \in units, n \in amounts}

PoolMovement ==
    LET keys == {"p", "q", None}
        then == {r \in Keyed(Frozen, keys, {"m", "y", None}, {1, 2, None}) :
                   Doubts(r, {"product", "unit", "qty"}) < 2}
        now == {r \in {[h EXCEPT !.white = w] : w \in {"n", "y", None},
                          h \in Keyed(Here, keys, {"m", None}, {0, 1, 2, None})} :
                  Doubts(r, {"product", "unit", "qty", "white"}) < 2}
    IN Family({<<a, b>> : a \in then, b \in now}
                \cup {<<Frozen, a, b>> : a \in Keyed(Here, {"p", None}, {"m", "y"}, {1, None}), b \in now},
              {[PoolAsk EXCEPT !.only = o, !.by = b] : o \in {None, "p"}, b \in {{}, {"unit"}}})

(* Baselines that are not one complete generation, and windows on them.     *)
PoolBaselines ==
    LET then == {[Frozen EXCEPT !.id = i, !.week = k, !.at = t, !.current = c, !.product = p] :
                   i \in 1..2, k \in 1..2, t \in {0, 1, 5, None}, c \in BOOLEAN, p \in {"p", None}}
    IN Family({<<>>} \cup Tables(1..1, then) \cup {<<a, b>> : a \in then, b \in {[Frozen EXCEPT !.id = 2], Here}},
              {[PoolAsk EXCEPT !.form = f, !.week = k] : f \in {"movement", "flow"}, k \in {None, 1}}
              \cup {[PoolAsk EXCEPT !.form = "flow", !.week = k, !.window = w] :
                       k \in {None, 1}, w \in {<<0, 3>>, <<1, 9>>, <<4, 6>>, <<3, 2>>}})

Document == [side |-> "out", product |-> "p", unit |-> "m", qty |-> 1, document |-> TRUE,
             valid |-> TRUE, time |-> 1, sales |-> "s", warehouse |-> TRUE, high |-> TRUE]
FlowColumns == {"product", "unit", "qty", "document", "valid", "time", "sales", "warehouse", "high"}
PoolFlow ==
    LET keyed == {[d EXCEPT !.side = s] : s \in {"out", "back"},
                    d \in Keyed(Document, {"p", "q", None}, {"m", "y", None}, {1, None})}
        judged == {[Document EXCEPT !.document = d, !.valid = v, !.warehouse = w, !.high = h] :
                     d \in {TRUE, FALSE, None}, v \in {TRUE, FALSE, None}, w \in {TRUE, FALSE, None},
                     h \in {TRUE, FALSE, None}}
        timed == {[Document EXCEPT !.side = x, !.time = t, !.sales = s, !.qty = 2] :
                    x \in {"out", "back"}, t \in {0, 1, 3, 4, None}, s \in {"s", "z", None}}
        rows == {r \in keyed \cup judged \cup timed : Doubts(r, FlowColumns) < 3}
        second == timed \cup {[Document EXCEPT !.high = FALSE], [Document EXCEPT !.side = "back", !.product = None]}
    IN Family({<<Frozen, a, b>> : a \in rows, b \in second},
              {[PoolAsk EXCEPT !.form = "flow", !.week = 1, !.by = b, !.sales = s, !.window = w] :
                 b \in {{}, {"sales"}}, s \in {None, "s"}, w \in {None, <<1, 4>>}})

PoolRecords ==
    LET rows == {r \in [side : {"pool"}, unit : {"m", None}, product : {"p", None}, rolls : {1, None},
                        qty : {1, None}, label : {"discountable", "handing", None}, price : {0, 1, None}] :
                   Doubts(r, DOMAIN r) < 3}
    IN Family(Tables(1..2, rows),
              {[PoolAsk EXCEPT !.form = "registered", !.statistic = s, !.by = b] : b \in {{}, {"unit"}},
                 s \in {"quantity", "products", "discount_rolls", "overlap_rolls", "unpriced_rolls"}})

CasesDef == {Trade, Snapshot, Clients, Currency, Calendar, StockParts, StockMonths, Bills,
             Receivables, TradeTold, SnapshotTold, Aligned, Arithmetic, Ledgers, Targets, Gaps, Attesting,
             PoolMovement, PoolBaselines, PoolFlow, PoolRecords}

-----------------------------------------------------------------------------
(* The other kind of call: a change and its partition, read by two          *)
(* statements (Decomposition); a behaviour is one call of either kind.      *)
callVars == <<kind, allowed, comparable, grouped, limit, table, stage, overall,
              partition, pending, recon, wire, read>>

NoCall ==
    /\ kind = Null /\ allowed = FALSE /\ comparable = FALSE /\ grouped = FALSE
    /\ limit = 1 /\ table = Null /\ stage = Null
    /\ overall = Null /\ partition = Null /\ pending = Null
    /\ recon = Null /\ wire = Null /\ read = Null
NoQuestion ==
    facts = <<>> /\ customers = <<>> /\ question = [form |-> None] /\ answer = None

MCInit == \/ AnswersInit /\ NoCall
          \/ NoQuestion /\ Init
MCNext == \/ (MetricsNext \/ ClaimsNext \/ CalculationsNext \/ AnalyticsNext \/ TargetGapsNext
                 \/ AttestationsNext \/ PoolsNext) /\ UNCHANGED callVars
          \/ Next /\ UNCHANGED answerVars
MCSpec == MCInit /\ [][MCNext]_<<answerVars, callVars>>

-----------------------------------------------------------------------------
(* The parts of a grouped answer make the whole: of a metric, of its latest *)
(* snapshot and of a derived metric.  (_build_core_metric_query,            *)
(* _latest_snapshot, the builders of analytical_queries.py.)                *)
PartsMakeWhole == PartsAgree /\ GroupsMakeWhole

(* What is said of a pool of slow stock is certain: it holds for every      *)
(* value its unknown columns could have.  (_build_slow_pool_movement,       *)
(* _build_slow_flow_identity_resolution, the registered quantities.)        *)
PoolCertain == MovementCertain /\ FlowCertain /\ RegisteredCertain

(* A derived number, and a statement sealed over several of them (a target  *)
(* partitioned, a turnover attested), is what its source rows make, and     *)
(* NULL when one of them is unknown.                                        *)
(* (analytical_queries.py, _finalize_target_gap_decompositions,             *)
(* _fail_closed_formal_dso_model_wire.)                                     *)
AnalysesTrue == DerivedTrue /\ GapTrue /\ AttestationTrue
=============================================================================
