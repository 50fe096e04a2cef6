------------------------------ MODULE Answers ------------------------------
(* A governed question, the tables it is put to and what comes back.  Every *)
(* answer is one SQL statement compiled by query_builders.py or             *)
(* analytical_queries.py and run in one snapshot, so it is one step: a      *)
(* table from group keys to cells, or the error the plan was refused with.  *)
(* The families of statements are the modules that extend this one.         *)
EXTENDS Sums, Sequences

CONSTANTS Cases,   \* families of tables and questions: the contents the fact
                   \* tables (row id -> row) and the joined table (key -> row)
                   \* may have, and the requests, which carry their metrics'
                   \* definitions
          Now,     \* month of the observation date
          None

VARIABLES facts, customers, question, answer
answerVars == <<facts, customers, question, answer>>

All == "all"  \* the only key of an answer that is not grouped

-----------------------------------------------------------------------------
(* SQL aggregates over a family of values: NULLs are skipped, and the       *)
(* aggregate of nothing is NULL.                                            *)
Some(f) == {i \in DOMAIN f : f[i] # None}
SqlSum(f) == IF Some(f) = {} THEN None ELSE Sum([i \in Some(f) |-> f[i]])
SqlMax(f) == IF Some(f) = {} THEN None ELSE Max({f[i] : i \in Some(f)})
SqlMin(f) == IF Some(f) = {} THEN None ELSE Min({f[i] : i \in Some(f)})
OrZero(v) == IF v = None THEN 0 ELSE v
Negated(v) == IF v = None THEN None ELSE -v
Times(v, w) == IF None \in {v, w} THEN None ELSE v * w

-----------------------------------------------------------------------------
AnswersInit == /\ answer = None
               /\ \E c \in Cases : /\ question \in c.questions
                                  /\ facts \in c.facts
                                  /\ customers \in c.customers

Ask(forms) == answer = None /\ question.form \in forms
Reply(result) == answer' = result /\ UNCHANGED <<facts, customers, question>>
=============================================================================
