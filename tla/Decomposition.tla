---------------------------- MODULE Decomposition ----------------------------
(* "What made this number move": an overall comparison of two periods and  *)
(* its partition by one dimension are read, the relationship is authorized *)
(* in tools.py, sealed, or refused with a reason, and validated again by   *)
(* evidence.py and result_projection.py before the model sees it.          *)
(*                                                                         *)
(* A table gives each group of the dimension one cell for each period: how *)
(* many of its source rows have a value, how many lack one, and the sum.   *)
(* The rules are written four times in the code, by the author of each     *)
(* stage: authorization, failure reason, validation and projection.        *)
EXTENDS Sums

CONSTANTS Members,    \* values of the dimension
          Amounts,   \* sums a cell may hold
          Limits,    \* row limits of the partition query, from 1 up
          Null       \* None, and NULL of SQL: no figure, no record, no text

ASSUME DecompositionAssumption ==
    /\ IsFiniteSet(Members) /\ Amounts \subseteq Int /\ Limits \subseteq Nat \ {0}
    /\ Null \notin Int /\ Null \notin {"snapshot", "DATA_COVERAGE_INCOMPLETE",
          "DATA_COVERAGE_PROOF_UNAVAILABLE", "DATA_COVERAGE_PROOF_MISMATCH"}
    /\ LET Triplets == Int \X Int \X Int
           Tallies == [{"cur", "cmp"} -> Nat \X Nat]
       IN Null \notin [triplet : Triplets, counts : Tallies, size : Nat]
                 \cup [operation : {"complete", "linked"}, scope : SUBSET Members, overall : Triplets,
                       sums : Triplets, unreturned : Int, drivers : SUBSET Members,
                       counts : Tallies, all : Tallies, returned : Tallies]

VARIABLES kind,       \* "complete": complete_change_decomposition,
                      \* "linked": decomposition_of_request_id
          allowed,    \* the metric declares the dimension additive
          comparable, \* _period_comparison_authorized
          grouped,    \* the pair runs in one snapshot executor
          limit, table, stage,
          overall, partition,  \* results of the two queries
          pending,             \* _change_reconciliation_pending
          recon,               \* change_reconciliation
          wire,                \* what the model is given
          read                 \* history: the table each query read

vars == <<kind, allowed, comparable, grouped, limit, table, stage, overall,
          partition, pending, recon, wire, read>>
fixed == <<kind, allowed, comparable, grouped, limit>>

-----------------------------------------------------------------------------
(* Cells and rows as the comparison SQL returns them.                      *)
Absent == [known |-> 0, missing |-> 0, sum |-> 0]
Cells == {Absent, [known |-> 0, missing |-> 1, sum |-> 0]}
         \cup {[known |-> 1, missing |-> 0, sum |-> a] : a \in Amounts}
Periods == {"cur", "cmp"}
Pairs == [Periods -> Cells]

Column(rows, p, field) == Sum([g \in DOMAIN rows |-> rows[g][p][field]])
Totals(rows) == [p \in Periods |-> [known   |-> Column(rows, p, "known"),
                                   missing |-> Column(rows, p, "missing"),
                                   sum     |-> Column(rows, p, "sum")]]

Value(c) == IF c.missing > 0 THEN Null ELSE c.sum
Delta(row) == IF Null \in {Value(row.cur), Value(row.cmp)} THEN Null
              ELSE row.cur.sum - row.cmp.sum
Triplet(row) == <<Value(row.cur), Value(row.cmp), Delta(row)>>
Counts(row) == [p \in Periods |-> <<row[p].missing, row[p].known>>]

(* metric_data_state; a group with no row in a period is "not_present",    *)
(* an overall with none is "missing".                                      *)
CellState(c, none) == CASE c.known + c.missing = 0 -> none
                        [] c.known = 0 /\ c.missing > 0 -> "missing"
                        [] c.known > 0 /\ c.missing > 0 -> "incomplete"
                        [] c.known > 0 /\ c.missing = 0 -> "complete"
States(row, none) == {CellState(row[p], none) : p \in Periods}

(* Windows over the whole partition in the statement that returns the      *)
(* limited rows; SQL sums skip NULL, and are NULL when nothing is left.    *)
Window(values) ==
    LET some == {g \in DOMAIN values : values[g] # Null}
    IN IF some = {} THEN Null ELSE Sum([g \in some |-> values[g]])

(* _validated_embedded_partition_proof: the proof, or None.                *)
Proof(rows, returned) ==
    LET cur == Window([g \in DOMAIN rows |-> Value(rows[g].cur)])
        cmp == Window([g \in DOMAIN rows |-> Value(rows[g].cmp)])
        delta == Window([g \in DOMAIN rows |-> Delta(rows[g])])
    IN IF Null \in {cur, cmp, delta} THEN Null
       ELSE IF delta # cur - cmp \/ Cardinality(DOMAIN rows) <= returned THEN Null
       ELSE [triplet |-> <<cur, cmp, delta>>, counts |-> Counts(Totals(rows)),
             size |-> Cardinality(DOMAIN rows)]

NoRows == [g \in {} |-> Totals([h \in {} |-> {}])]
Result(status, marker, scope, rows) ==
    [status |-> status, marker |-> marker, scope |-> scope, rows |-> rows,
     truncated |-> FALSE, proof |-> Null]
NoResult == Result("none", Null, {}, NoRows)
Refused(status) == [NoResult EXCEPT !.status = status]
Succeeded(r) == r.status = "success"
WholeRow(o) == o.rows["overall"]

-----------------------------------------------------------------------------
(* _comparison_is_complete and _claim_triplet; the relation a claim gets   *)
(* in _claim_ledger.                                                       *)
Complete(row, none) ==
    /\ Null \notin {Value(row.cur), Value(row.cmp)}
    /\ States(row, none) \subseteq {"complete", "not_present"}
Compares(row, none) == comparable /\ Complete(row, none)

(* _comparison_completeness_evidence.                                      *)
Coverage(row, none) ==
    IF States(row, none) \subseteq {"complete", "not_present"} THEN "complete"
    ELSE "incomplete"
OverallCoverage(o) == Coverage(WholeRow(o), "missing")
RowsCovered(p) == \A g \in DOMAIN p.rows : Coverage(p.rows[g], "not_present") = "complete"

Returned(p) == Totals(p.rows)
Proven(p) == p.truncated /\ p.proof # Null
PartitionCounts(p) == IF Proven(p) THEN p.proof.counts ELSE Counts(Returned(p))
PartitionTriplet(p) == IF Proven(p) THEN p.proof.triplet ELSE Triplet(Returned(p))
ReturnedTriplet(p) == Triplet(Returned(p))

(* The checks of _authorize_change_decompositions, then the claims that    *)
(* get structural_contribution: those that moved.                          *)
\* Mutant of OneSnapshot: the snapshot marker is not compared.
AnySnapshot(o, p) == TRUE

OneSnapshot(o, p) == o.marker # Null /\ o.marker = p.marker

Reconciles(o, p) ==
    /\ Counts(WholeRow(o)) = PartitionCounts(p)
    /\ Triplet(WholeRow(o)) = PartitionTriplet(p)

MayRelate(o, p) ==
    /\ allowed
    /\ Succeeded(o) /\ Succeeded(p)
    /\ OneSnapshot(o, p)
    /\ o.scope = p.scope
    /\ p.truncated => Proven(p)
    /\ DOMAIN p.rows # {}
    /\ Compares(WholeRow(o), "missing")
    /\ \A g \in DOMAIN p.rows : Compares(p.rows[g], "not_present")
    /\ OverallCoverage(o) = "complete" /\ RowsCovered(p)
    /\ Delta(WholeRow(o)) # 0
    /\ Reconciles(o, p)

Moved(p) == {g \in DOMAIN p.rows : Delta(p.rows[g]) \notin {0, Null}}

(* What is sealed with the relationship.                                   *)
Sealed(o, p) ==
    [operation |-> kind, scope |-> o.scope,
     overall |-> Triplet(WholeRow(o)), sums |-> PartitionTriplet(p),
     unreturned |-> PartitionTriplet(p)[3] - ReturnedTriplet(p)[3],
     drivers |-> Moved(p),
     counts |-> Counts(WholeRow(o)), all |-> PartitionCounts(p),
     returned |-> Counts(Returned(p))]

-----------------------------------------------------------------------------
(* _complete_decomposition_failure_reason, in its order.                   *)
CoverageReason(o, p) ==
    IF OverallCoverage(o) # "complete" THEN "DATA_COVERAGE_INCOMPLETE"
    ELSE IF DOMAIN p.rows = {} THEN "DATA_COVERAGE_PROOF_UNAVAILABLE"
    ELSE IF ~RowsCovered(p) THEN "DATA_COVERAGE_INCOMPLETE"
    ELSE IF p.truncated /\ p.proof = Null THEN "DATA_COVERAGE_PROOF_UNAVAILABLE"
    ELSE IF PartitionCounts(p) # Counts(WholeRow(o)) THEN "DATA_COVERAGE_PROOF_MISMATCH"
    ELSE Null

\* Mutant of ValueReason: the sums of the returned rows are compared even
\* when the window proof stands for the whole partition.
ValueReasonReturned(o, p) ==
    IF p.truncated /\ p.proof = Null THEN "PARTITION_PROOF_UNAVAILABLE"
    ELSE IF ~Complete(WholeRow(o), "missing") \/ DOMAIN p.rows = {} THEN "EVIDENCE_INCOMPLETE"
    ELSE IF Delta(WholeRow(o)) = 0 THEN "OVERALL_CHANGE_ZERO"
    ELSE IF ReturnedTriplet(p) # Triplet(WholeRow(o)) THEN "PARTITION_DOES_NOT_RECONCILE"
    ELSE "RECONCILIATION_NOT_ESTABLISHED"

ValueReason(o, p) ==
    IF p.truncated /\ p.proof = Null THEN "PARTITION_PROOF_UNAVAILABLE"
    ELSE IF ~Complete(WholeRow(o), "missing") \/ DOMAIN p.rows = {} THEN "EVIDENCE_INCOMPLETE"
    ELSE IF ~p.truncated /\ \E g \in DOMAIN p.rows : ~Complete(p.rows[g], "not_present")
         THEN "EVIDENCE_INCOMPLETE"
    ELSE IF Delta(WholeRow(o)) = 0 THEN "OVERALL_CHANGE_ZERO"
    ELSE IF PartitionTriplet(p) # Triplet(WholeRow(o)) THEN "PARTITION_DOES_NOT_RECONCILE"
    ELSE "RECONCILIATION_NOT_ESTABLISHED"

Reason(o, p) ==
    IF p.status = "unsupported" THEN "OPERATION_NOT_AUTHORIZED"
    ELSE IF ~Succeeded(o) THEN "OVERALL_QUERY_UNAVAILABLE"
    ELSE IF ~Succeeded(p) THEN "PARTITION_QUERY_UNAVAILABLE"
    ELSE IF ~OneSnapshot(o, p) THEN "SNAPSHOT_CONSISTENCY_UNPROVEN"
    ELSE IF o.scope # p.scope THEN "SCOPE_MISMATCH"
    ELSE IF CoverageReason(o, p) # Null THEN CoverageReason(o, p)
    ELSE ValueReason(o, p)

(* _reconciliation_is_valid and _structural_completeness_proof_is_valid.   *)
Validated(p, r) ==
    /\ r.operation = "complete"
    /\ DOMAIN p.rows # {} /\ r.drivers # {}
    /\ r.counts = r.all
    /\ \A q \in Periods : r.counts[q][1] = 0 /\ r.counts[q][2] > 0
    /\ r.returned = Counts(Returned(p))
    /\ IF p.truncated
       THEN \A q \in Periods : r.returned[q][1] <= r.all[q][1] /\ r.returned[q][2] <= r.all[q][2]
       ELSE r.returned = r.all
    /\ r.scope = p.scope
    /\ r.overall = r.sums

-----------------------------------------------------------------------------
Init ==
    /\ kind \in {"complete", "linked"}
    /\ allowed \in BOOLEAN /\ comparable \in BOOLEAN
    /\ grouped \in BOOLEAN /\ (kind = "complete" => grouped)
    /\ limit \in Limits
    /\ table \in [Members -> Pairs]
    /\ stage = "overall"
    /\ overall = NoResult /\ partition = NoResult
    /\ pending = Null /\ recon = Null /\ wire = Null
    /\ read = [overall |-> Null, partition |-> Null]

Present(T, scope) == {g \in scope : \E p \in Periods : T[g][p] # Absent}

(* _validate_complete_decomposition_capability fails the overall request,  *)
(* and the failure is copied to the partition before any statement.        *)
Unsupported ==
    /\ stage = "overall" /\ kind = "complete" /\ ~allowed
    /\ overall' = Refused("unsupported") /\ partition' = Refused("unsupported")
    /\ stage' = "authorize"
    /\ UNCHANGED <<fixed, table, pending, recon, wire, read>>

(* The overall statement, then the partition in the same snapshot, or on a *)
(* connection of its own when a sibling failed its preflight.              *)
Marker == IF grouped THEN "snapshot" ELSE Null

AskOverall ==
    /\ stage = "overall" /\ (kind = "complete" => allowed)
    /\ \/ /\ overall' = Result("success", Marker, Members,
                               [x \in {"overall"} |-> Totals(table)])
          /\ read' = [read EXCEPT !.overall = table]
       \/ /\ overall' = Refused("failed")
          /\ UNCHANGED read
    /\ stage' = "partition"
    /\ UNCHANGED <<fixed, table, partition, pending, recon, wire>>

(* The database changes between two statements that share no snapshot.     *)
Drift ==
    /\ stage = "partition" /\ ~grouped
    /\ \E g \in Members, c \in Cells : table' = [table EXCEPT ![g].cur = c]
    /\ UNCHANGED <<fixed, stage, overall, partition, pending, recon, wire, read>>

(* A linked request states its own filters; an expanded one copies them.   *)
Scopes == IF kind = "complete" THEN {Members} ELSE SUBSET Members

AskPartition ==
    /\ stage = "partition"
    /\ \/ /\ grouped => Succeeded(overall)
          /\ \E scope \in Scopes :
               LET rows == [g \in Present(table, scope) |-> table[g]]
                   cut == Cardinality(DOMAIN rows) > limit
               IN \E R \in SUBSET DOMAIN rows :
                    /\ Cardinality(R) = IF cut THEN limit ELSE Cardinality(DOMAIN rows)
                    /\ partition' = [Result("success", Marker, scope, [g \in R |-> rows[g]])
                                       EXCEPT !.truncated = cut,
                                              !.proof = IF cut THEN Proof(rows, limit) ELSE Null]
          /\ read' = [read EXCEPT !.partition = table]
       \/ /\ partition' = Refused("failed")
          /\ UNCHANGED read
    /\ stage' = "authorize"
    /\ UNCHANGED <<fixed, table, overall, pending, recon, wire>>

(* _authorize_change_decompositions and the tag of the operation.          *)
Authorize ==
    /\ stage = "authorize"
    /\ pending' = IF MayRelate(overall, partition) THEN Sealed(overall, partition) ELSE Null
    /\ stage' = "seal"
    /\ UNCHANGED <<fixed, table, overall, partition, recon, wire, read>>

(* _seal_change_reconciliations: nothing is sealed when no returned row    *)
(* moved; _finalize_complete_decomposition_outcomes: the reason.           *)
Seal ==
    /\ stage = "seal"
    /\ recon' = IF pending # Null /\ pending.drivers # {} THEN pending
                ELSE IF kind = "complete" THEN [reason |-> Reason(overall, partition)]
                ELSE Null
    /\ stage' = "project"
    /\ UNCHANGED <<fixed, table, overall, partition, pending, wire, read>>

IsSealed(r) == r # Null /\ "operation" \in DOMAIN r

(* _model_wire_result: a sealed relationship that the validation refuses   *)
(* takes every claim of the result with it.                                *)
Project ==
    /\ stage = "project"
    /\ wire' = IF ~Succeeded(partition) THEN [status |-> "failed", relation |-> Null]
               ELSE IF IsSealed(recon) /\ ~Validated(partition, recon)
                    THEN [status |-> "invalid", relation |-> Null]
               ELSE [status |-> "success", relation |-> recon]
    /\ stage' = "done"
    /\ UNCHANGED <<fixed, table, overall, partition, pending, recon, read>>

Next == \/ Unsupported \/ AskOverall \/ Drift \/ AskPartition
        \/ Authorize \/ Seal \/ Project

Spec == Init /\ [][Next]_vars

-----------------------------------------------------------------------------
Done == stage = "done"
Displays == Done /\ wire.status = "success" /\ IsSealed(wire.relation)

(* A sealed relationship, of an expanded or of a linked pair, is true of   *)
(* one state of the database: both queries read it, over one scope,        *)
(* nothing in it is missing, the overall numbers are its totals, each      *)
(* driver is a group that moved, and the drivers with the unreturned rest  *)
(* make up the whole change.  (_authorize_change_decompositions,           *)
(* _seal_change_reconciliations.)                                          *)
SoundRelation ==
    IsSealed(recon) =>
      LET r == recon
          T == [g \in partition.scope |-> read.partition[g]]
      IN /\ read.overall = read.partition /\ partition.scope = Members
         /\ \A g \in DOMAIN T : \A p \in Periods : T[g][p].missing = 0
         /\ r.overall = Triplet(Totals(T)) /\ r.overall[3] # 0
         /\ r.drivers = {g \in DOMAIN partition.rows : Delta(T[g]) # 0}
         /\ Sum([g \in r.drivers |-> Delta(T[g])]) + r.unreturned = r.overall[3]

(* What the authorization seals for a complete decomposition, the          *)
(* validation in evidence.py accepts, and a pair of the whole scope with   *)
(* full coverage and a change some returned row shares is never refused.   *)
ServedWhenSound ==
    Done /\ kind = "complete" =>
      /\ wire.status # "invalid"
      /\ ( /\ Succeeded(overall) /\ Succeeded(partition) /\ comparable
           /\ OverallCoverage(overall) = "complete"
           /\ Delta(WholeRow(overall)) # 0 /\ Moved(partition) # {} )
         => Displays

(* The reason a refused complete decomposition states is a fact of the     *)
(* data, and a partition read in the snapshot of its total is never said   *)
(* not to add up.                                                          *)
ReasonTrue ==
    Done /\ recon # Null /\ ~IsSealed(recon) =>
      LET T == [g \in Members |-> read.partition[g]] IN
      CASE recon.reason = "OPERATION_NOT_AUTHORIZED" -> ~allowed
        [] recon.reason = "OVERALL_QUERY_UNAVAILABLE" -> read.overall = Null
        [] recon.reason = "PARTITION_QUERY_UNAVAILABLE" -> read.partition = Null
        [] recon.reason = "DATA_COVERAGE_INCOMPLETE" ->
             \E p \in Periods : \/ \E g \in Members : T[g][p].missing > 0
                                \/ \A g \in Members : T[g][p] = Absent
        [] recon.reason = "OVERALL_CHANGE_ZERO" -> Delta(Totals(T)) = 0
        [] recon.reason = "RECONCILIATION_NOT_ESTABLISHED" ->
             ~comparable \/ Moved(partition) = {}
        [] OTHER -> FALSE

(* Four writings of the rules, of authorization, reason, validation and    *)
(* projection, agree on what is good and on why something is not.          *)
RulesAgree == ServedWhenSound /\ ReasonTrue

(* A sealed relationship between a change and its parts is true of one      *)
(* state of the database, and authorization, reason, validation and         *)
(* projection agree on what is good.  (_authorize_change_decompositions;    *)
(* evidence.py, result_projection.py.)                                      *)
RelationTrue == SoundRelation /\ RulesAgree

(* schemas.py of decomposition_of_request_id: "The tool authorizes a       *)
(* reconciled change relationship" for a partition that references its     *)
(* overall request; what is authorized is not withheld with every claim.   *)
LinkedIsServed == Done /\ kind = "linked" => wire.status # "invalid"

TypeOK ==
    /\ table \in [Members -> Pairs]
    /\ stage \in {"overall", "partition", "authorize", "seal", "project", "done"}
    /\ \A r \in {overall, partition} :
         /\ r.status \in {"none", "success", "failed", "unsupported"}
         /\ r.scope \subseteq Members
         /\ r.proof # Null => r.truncated
=============================================================================
