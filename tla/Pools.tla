------------------------------- MODULE Pools -------------------------------
(* The slow-moving pool of analytical_queries.py: statistics of the records *)
(* registered now, the movement of the pool since a frozen weekly baseline, *)
(* and the recorded flow of what was frozen.  Source records may lack a key,*)
(* a quantity, a label, a status or a time; the statements say what is      *)
(* certain and mark the rest.  Product stands for product, specification    *)
(* and department, which are treated alike; None is a missing value, and    *)
(* for a unit or a label also one outside the contract.                     *)
EXTENDS Answers

PoolForms == {"registered", "movement", "flow"}
ReadAt == 2 * Now  \* the database clock when the statement runs

PoolRows(side) == {r \in DOMAIN facts : facts[r].side = side}
Added(rows, column) == SqlSum([r \in rows |-> facts[r][column]])
Lacking(rows, column) == {r \in rows : facts[r][column] = None}

(* The three values of an SQL condition, None for unknown.                  *)
And3(a, b) == IF FALSE \in {a, b} THEN FALSE ELSE IF None \in {a, b} THEN None ELSE TRUE

-----------------------------------------------------------------------------
(* _registered_slow_pool_query.                                             *)
IsDiscount(r) == IF facts[r].label = None THEN None ELSE facts[r].label = "discountable"
IsPriced(r) == facts[r].price # None /\ facts[r].price > 0

(* Whether a row belongs to a statistic about rolls.                        *)
Belongs(s, r) ==
    CASE s = "rolls" -> TRUE
      [] s = "discount_rolls" -> IsDiscount(r)
      [] s = "priced_rolls" -> IsPriced(r)
      [] s = "overlap_rolls" -> And3(IsDiscount(r), IsPriced(r))
      [] s = "unknown_label_rolls" -> facts[r].label = None
      [] s = "unpriced_rolls" -> facts[r].price = None

MissingRow(s, r) ==
    CASE s = "entries" -> FALSE
      [] s = "products" -> facts[r].product = None
      [] s = "quantity" -> None \in {facts[r].qty, facts[r].unit}
      [] OTHER -> \/ Belongs(s, r) = None
                  \/ Belongs(s, r) = TRUE /\ facts[r].rolls = None

PoolValue(s, rows) ==
    CASE s = "entries" -> Cardinality(rows)
      [] s = "products" -> Cardinality({facts[r].product : r \in rows} \ {None})
      [] s = "quantity" -> OrZero(Added({r \in rows : facts[r].unit # None}, "qty"))
      [] OTHER -> OrZero(Added({r \in rows : Belongs(s, r) = TRUE}, "rolls"))

RegisteredCell(s, rows) ==
    LET missing == Cardinality({r \in rows : MissingRow(s, r)})
    IN [value |-> IF missing > 0 THEN None ELSE PoolValue(s, rows),
        subset |-> IF missing < Cardinality(rows) THEN PoolValue(s, rows) ELSE None,
        missing |-> missing, match |-> Cardinality(rows)]

Registered(q) ==
    LET rows == {r \in PoolRows("pool") : q.only = None \/ facts[r].unit = q.only}
        Of(u) == {r \in rows : facts[r].unit = u}
    IN IF "unit" \in q.by THEN [u \in {facts[r].unit : r \in rows} |-> RegisteredCell(q.statistic, Of(u))]
       ELSE [u \in {All} |-> RegisteredCell(q.statistic, rows)]

-----------------------------------------------------------------------------
(* The frozen baseline: the rows of one week, and whether they are one      *)
(* complete generation frozen at one time (validate_frozen_pool_rows).      *)
BaselineWeek(q) ==
    LET weeks == {facts[r].week : r \in PoolRows("then")}
    IN IF q.week # None THEN q.week ELSE IF weeks = {} THEN None ELSE Max(weeks)
Baseline(q) == {r \in PoolRows("then") : facts[r].week = BaselineWeek(q)}
KeyKnown(r) == None \notin {facts[r].product, facts[r].unit}
FrozenAt(q) == SqlMin([r \in Baseline(q) |-> facts[r].at])

FlowWindow(q) == IF q.window = None THEN <<FrozenAt(q), ReadAt>>
                 ELSE <<q.window[1], Min({q.window[2], ReadAt})>>

WindowRefusal(q) ==
    CASE q.window = None -> None
      [] q.window[1] < FrozenAt(q) -> "FLOW_WINDOW_PRECEDES_BASELINE"
      [] q.window[1] >= ReadAt -> "FLOW_WINDOW_NOT_OBSERVED"
      [] q.window[1] >= q.window[2] -> "FLOW_WINDOW_INVALID"
      [] OTHER -> None
BaselineRefusal(q) ==
    LET rows == Baseline(q)
    IN CASE q.form = "flow" /\ (\E r \in rows : ~KeyKnown(r)) -> "BASELINE_IDENTITY_INCOMPLETE"
         [] rows = {} -> "BASELINE_NOT_FOUND"
         [] Cardinality({facts[r].id : r \in rows}) # Cardinality(rows)
              \/ (\E r \in rows : ~facts[r].current) -> "BASELINE_INCOMPLETE"
         [] Lacking(rows, "at") # {} \/ Cardinality({facts[r].at : r \in rows}) # 1
              -> "BASELINE_TIME_AMBIGUOUS"
         [] FrozenAt(q) > ReadAt -> "BASELINE_TIME_INVALID"
         [] OTHER -> WindowRefusal(q)

PoolRefusal(q) ==
    CASE q.form = "registered" ->
           IF q.statistic = "quantity" /\ "unit" \notin q.by /\ q.only = None
           THEN "UNIT_SCOPE_REQUIRED" ELSE None
      [] q.form = "flow" /\ q.window # None /\ q.week = None -> "BASELINE_WEEK_REQUIRED"
      [] OTHER -> BaselineRefusal(q)

-----------------------------------------------------------------------------
(* _pool_comparison_query: movement of each key from the baseline to now.   *)

(* A record is in the current pool when it is not on the white list and has *)
(* a quantity left; the answer may be unknown.                              *)
Membership(r) ==
    IF facts[r].side = "then" THEN TRUE
    ELSE And3(IF facts[r].qty = None THEN None ELSE facts[r].qty > 0,
              IF facts[r].white = None THEN None ELSE facts[r].white = "n")

(* The user's filter keeps the rows it cannot judge.                        *)
Kept(q, rows) == {r \in rows : /\ q.only # None => facts[r].product \in {q.only, None}
                               /\ Membership(r) # FALSE}

(* A row whose key is incomplete is a group of its own.                     *)
KeyOf(r) == [product |-> facts[r].product, unit |-> facts[r].unit,
             doubt |-> IF KeyKnown(r) THEN None ELSE r]
Compatible(u, k) == /\ facts[u].product \in {None, k.product}
                    /\ facts[u].unit \in {None, k.unit}

MovementCell(opening, closing, uncertain) ==
    LET Sure(rows) == {r \in rows : Membership(r) = TRUE}
        Doubtful(rows) == \E r \in rows : Membership(r) = None
        then == Sure(opening)
        now == Sure(closing)
        oq == Added(then, "qty")
        cq == Added(now, "qty")
        state == CASE uncertain \/ Doubtful(closing) -> "Unassessable"
                   [] then = {} /\ now # {} -> "New"
                   [] then # {} /\ now = {} -> "Exited"
                   [] Lacking(opening \cup closing, "qty") # {} -> "Unassessable"
                   [] cq < oq -> "Reduced"
                   [] cq > oq -> "Increased"
                   [] OTHER -> "No Change"
    IN [state |-> state,
        opening |-> IF uncertain \/ Lacking(opening, "qty") # {} THEN None ELSE oq,
        closing |-> IF uncertain \/ Lacking(closing, "qty") # {} \/ Doubtful(closing)
                    THEN None ELSE cq,
        delta |-> IF state \in {"Reduced", "Increased", "No Change"} THEN cq - oq ELSE None]

Movement(q) ==
    LET then == Kept(q, Baseline(q))
        now == Kept(q, PoolRows("now"))
        rows == then \cup now
        Of(some, k) == {r \in some : KeyOf(r) = k}
        Uncertain(k) == \/ k.doubt # None
                        \/ \E u \in rows : ~KeyKnown(u) /\ Compatible(u, k)
    IN [k \in {KeyOf(r) : r \in rows} |-> MovementCell(Of(then, k), Of(now, k), Uncertain(k))]

(* The summary by unit counts states and adds what is known for certain.    *)
MovementStates == {"New", "Exited", "Reduced", "No Change", "Increased", "Unassessable"}
MovementSummary(q) ==
    LET groups == Movement(q)
        Of(u) == {k \in DOMAIN groups : k.unit = u}
    IN [u \in {k.unit : k \in DOMAIN groups} |->
          [counts |-> [s \in MovementStates |-> Cardinality({k \in Of(u) : groups[k].state = s})],
           delta |-> SqlSum([k \in Of(u) |-> groups[k].delta])]]

-----------------------------------------------------------------------------
(* _frozen_pool_net_outbound_query: what left the frozen keys and came back.*)
FrozenKeys(q) == {KeyOf(r) : r \in {x \in Baseline(q) : q.only = None \/ facts[x].product = q.only}}

(* Rows that may concern a key, of the window or of an unknown time.        *)
Candidates(q, side) ==
    LET w == FlowWindow(q)
    IN {r \in PoolRows(side) :
          /\ \E k \in FrozenKeys(q) : facts[r].product \in {None, k.product}
          /\ facts[r].time = None \/ (w[1] <= facts[r].time /\ facts[r].time < w[2])
          /\ q.sales # None => facts[r].sales \in {q.sales, None}}

MatchStateEager(q, r) ==
    CASE ~KeyKnown(r) \/ None \in {facts[r].document, facts[r].valid, facts[r].time} -> "unknown"
      [] FALSE \in {facts[r].valid, facts[r].document} -> "excluded"
      [] KeyOf(r) \in FrozenKeys(q) -> "matched"
      [] OTHER -> "unmatched"
MatchState(q, r) ==
    CASE FALSE \in {facts[r].valid, facts[r].document} -> "excluded"
      [] \/ ~KeyKnown(r) \/ facts[r].warehouse # TRUE
         \/ None \in {facts[r].document, facts[r].valid, facts[r].time}
         \/ q.sales # None /\ facts[r].sales = None -> "unknown"
      [] KeyOf(r) \in FrozenKeys(q) -> "matched"
      [] OTHER -> "unmatched"

FlowCell(out, back, lost, returned) ==
    LET gross == OrZero(Added(out, "qty"))
        return == OrZero(Added(back, "qty"))
        high == {r \in out : facts[r].high = TRUE}
        sureOut == ~lost /\ Lacking(out, "qty") = {}
        sureBack == ~returned /\ Lacking(back, "qty") = {}
        sureHigh == ~lost /\ Lacking(out, "high") = {} /\ Lacking(high, "qty") = {}
    IN [net |-> IF sureOut /\ sureBack THEN gross - return ELSE None,
        known |-> gross - return,
        gross |-> IF sureOut THEN gross ELSE None,
        return |-> IF sureBack THEN return ELSE None,
        high |-> IF sureHigh THEN OrZero(Added(high, "qty")) ELSE None,
        highNet |-> IF sureHigh /\ sureBack THEN OrZero(Added(high, "qty")) - return ELSE None,
        state |-> CASE ~(sureOut /\ sureBack) -> "partial_unknown"
                    [] out \cup back = {} -> "no_recorded_flow"
                    [] {} \in {out, back} -> "one_sided_recorded_flow"
                    [] OTHER -> "both_sides_recorded"]

(* By salesperson the groups are those a flow was recorded for, NULL among  *)
(* them; otherwise every frozen unit has a row.                             *)
FlowGroup(q, unit, seller) ==
    [unit |-> unit, seller |-> IF "sales" \in q.by THEN seller ELSE All]
Flow(q) ==
    LET Is(side, state) == {r \in Candidates(q, side) : MatchState(q, r) = state}
        out == Is("out", "matched")
        back == Is("back", "matched")
        Own(rows, g) == {r \in rows : FlowGroup(q, facts[r].unit, facts[r].sales) = g}
        groups == IF "sales" \in q.by
                  THEN {FlowGroup(q, facts[r].unit, facts[r].sales) : r \in out \cup back}
                  ELSE {FlowGroup(q, k.unit, All) : k \in FrozenKeys(q)}
    IN [g \in groups |-> FlowCell(Own(out, g), Own(back, g),
                                  Is("out", "unknown") # {}, Is("back", "unknown") # {})]

-----------------------------------------------------------------------------
PoolAnswer(q) == CASE q.form = "registered" -> Registered(q)
                   [] q.form = "movement" -> IF "unit" \in q.by THEN MovementSummary(q) ELSE Movement(q)
                   [] q.form = "flow" -> Flow(q)

RefusePool == /\ Ask(PoolForms)
              /\ PoolRefusal(question) # None
              /\ Reply([refused |-> PoolRefusal(question)])
RunPool == /\ Ask(PoolForms)
           /\ PoolRefusal(question) = None
           /\ Reply(PoolAnswer(question))

PoolsNext == RefusePool \/ RunPool

-----------------------------------------------------------------------------
(* Certainty: a world gives every missing value of the records a value it   *)
(* may have; what an answer states must hold in all of them.                *)
PoolAnswered(form) == answer # None /\ question.form = form /\ PoolRefusal(question) = None
Maybe(v, values) == IF v = None THEN values ELSE {v}
Versions(r) ==
    LET f == facts[r]
        keyed == {[f EXCEPT !.product = p, !.unit = u] :
                    p \in Maybe(f.product, {"p", "q"}), u \in Maybe(f.unit, {"m", "y"})}
        sized == {[c EXCEPT !.qty = n] : c \in keyed,
                    n \in Maybe(f.qty, IF f.side = "now" THEN 0..3 ELSE 1..3)}
    IN CASE f.side = "then" -> sized
         [] f.side = "now" -> {[c EXCEPT !.white = w] : c \in sized, w \in Maybe(f.white, {"n", "y"})}
         [] OTHER ->
              {[c EXCEPT !.document = d, !.valid = v, !.time = t, !.sales = s, !.high = h,
                         !.warehouse = w] :
                 c \in sized, d \in Maybe(f.document, BOOLEAN), v \in Maybe(f.valid, BOOLEAN),
                 t \in Maybe(f.time, {0, 3}), s \in Maybe(f.sales, {"s", "z"}),
                 h \in Maybe(f.high, BOOLEAN),
                 w \in IF f.warehouse = TRUE THEN {TRUE} ELSE BOOLEAN}
Worlds ==
    LET open == {r \in DOMAIN facts : Cardinality(Versions(r)) > 1}
        filled == {w \in [open -> UNION {Versions(r) : r \in open}] :
                     \A r \in open : w[r] \in Versions(r)}
    IN {[r \in DOMAIN facts |-> IF r \in open THEN w[r] ELSE facts[r]] : w \in filled}

(* Movement of a key in a world without doubt.                              *)
Held(w, side, q, k) ==
    {r \in DOMAIN facts : /\ facts[r].side = side
                          /\ side = "then" => facts[r].week = BaselineWeek(q)
                          /\ side = "now" => w[r].white = "n" /\ w[r].qty > 0
                          /\ w[r].product = k.product /\ w[r].unit = k.unit}
Quantity(w, rows) == MapThenSumSet(LAMBDA r : w[r].qty, rows)
StateIn(w, q, k) ==
    LET then == Held(w, "then", q, k)
        now == Held(w, "now", q, k)
        change == Quantity(w, now) - Quantity(w, then)
    IN CASE then = {} /\ now = {} -> None
         [] then = {} -> "New"
         [] now = {} -> "Exited"
         [] change < 0 -> "Reduced"
         [] change > 0 -> "Increased"
         [] OTHER -> "No Change"

(* The movement an answer gives a key, its quantities and their difference  *)
(* are those of every world the records allow; a key that exists in some    *)
(* world is answered or a row of doubt stands for it, and where no record   *)
(* is in doubt every movement is told.                                      *)
MovementCertain ==
    PoolAnswered("movement") /\ question.by = {} =>
      LET q == question
          worlds == Worlds
          sure == {k \in DOMAIN answer : k.doubt = None}
          inScope == [product : IF q.only = None THEN {"p", "q"} ELSE {q.only},
                      unit : {"m", "y"}, doubt : {None}]
      IN /\ \A k \in sure, w \in worlds :
              /\ answer[k].state # "Unassessable" => answer[k].state = StateIn(w, q, k)
              /\ answer[k].opening # None => answer[k].opening = Quantity(w, Held(w, "then", q, k))
              /\ answer[k].delta # None =>
                   answer[k].delta = Quantity(w, Held(w, "now", q, k))
                                       - Quantity(w, Held(w, "then", q, k))
         /\ \A k \in inScope \ DOMAIN answer :
              (\E w \in worlds : StateIn(w, q, k) # None)
                => \E d \in DOMAIN answer : /\ d.doubt # None
                                            /\ d.product \in {None, k.product}
                                            /\ d.unit \in {None, k.unit}
         /\ Cardinality(worlds) = 1 => \A k \in DOMAIN answer : answer[k].state # "Unassessable"

(* What flowed in a world: valid documents of the window that carry a       *)
(* frozen key, of the salesperson asked for.                                *)
FlowIn(w, q, side, unit) ==
    {r \in DOMAIN facts :
       /\ facts[r].side = side
       /\ w[r].valid /\ w[r].document /\ w[r].warehouse
       /\ FlowWindow(q)[1] <= w[r].time /\ w[r].time < FlowWindow(q)[2]
       /\ q.sales # None => w[r].sales = q.sales
       /\ w[r].unit = unit
       /\ [product |-> w[r].product, unit |-> w[r].unit, doubt |-> None] \in FrozenKeys(q)}

(* A recorded flow that is answered is the one of every world the records   *)
(* allow, gross, returned, net and of the high discounts alone; a group     *)
(* without flow has none in any, and where no record is in doubt it is told.*)
FlowCertain ==
    PoolAnswered("flow") /\ "sales" \notin question.by =>
      LET q == question
          worlds == Worlds
      IN /\ {g.unit : g \in DOMAIN answer} = {k.unit : k \in FrozenKeys(q)}
         /\ \A g \in DOMAIN answer, w \in worlds :
              LET a == answer[g]
                  out == FlowIn(w, q, "out", g.unit)
                  back == FlowIn(w, q, "back", g.unit)
                  high == {r \in out : w[r].high}
              IN /\ a.gross # None => a.gross = Quantity(w, out)
                 /\ a.return # None => a.return = Quantity(w, back)
                 /\ a.net # None => a.net = Quantity(w, out) - Quantity(w, back)
                 /\ a.high # None => a.high = Quantity(w, high)
                 /\ a.highNet # None => a.highNet = Quantity(w, high) - Quantity(w, back)
                 /\ a.state = "no_recorded_flow" => out \cup back = {}
         /\ Cardinality(worlds) = 1 => \A g \in DOMAIN answer : None \notin {answer[g].net, answer[g].highNet}

(* A registered statistic is the one of every world, and is told where no   *)
(* label, roll count, quantity or product is missing.                       *)
Filled(r) == {[facts[r] EXCEPT !.label = l, !.rolls = n, !.qty = n, !.product = p] :
                l \in Maybe(facts[r].label, {"discountable", "handing"}),
                n \in Maybe(facts[r].rolls, 1..2), p \in Maybe(facts[r].product, {"p", "q"})}
Share(s, f) == CASE s = "rolls" -> f.rolls
                 [] s = "discount_rolls" -> IF f.label = "discountable" THEN f.rolls ELSE 0
                 [] s = "priced_rolls" -> IF f.price \in Nat \ {0} THEN f.rolls ELSE 0
                 [] s = "overlap_rolls" ->
                      IF f.label = "discountable" /\ f.price \in Nat \ {0} THEN f.rolls ELSE 0
RollStatistics == {"rolls", "discount_rolls", "priced_rolls", "overlap_rolls"}
RegisteredCertain ==
    PoolAnswered("registered") =>
      LET s == question.statistic
          rows == {r \in PoolRows("pool") : question.only \in {None, facts[r].unit}}
          Of(u) == {r \in rows : u \in {All, facts[r].unit}}
          Own(r) == {Share(s, f) : f \in Filled(r)}
      IN \A u \in DOMAIN answer :
           LET a == answer[u]
           IN /\ s \in RollStatistics =>
                   /\ a.value # None =>
                        /\ \A r \in Of(u) : Cardinality(Own(r)) = 1
                        /\ a.value = MapThenSumSet(LAMBDA r : Max(Own(r)), Of(u))
                   /\ (\A r \in Of(u) : Cardinality(Filled(r)) = 1) => a.value # None
              /\ s = "quantity" => (a.value # None) = (\A r \in Of(u) : None \notin {facts[r].qty, facts[r].unit})
              /\ a.match = Cardinality(Of(u))
=============================================================================
