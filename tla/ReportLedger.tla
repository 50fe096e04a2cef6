--------------------------- MODULE ReportLedger ---------------------------
(***************************************************************************)
(* What the reports of one week promise.  Each of the two reports, the     *)
(* weekly and the monthly, is fixed once, its content with the routes it   *)
(* goes by.  Every account gets it once; the monthly one begins to go out  *)
(* when every account has the weekly one.  Only when everyone has both may *)
(* the same reports go out again, or new ones be fixed in their place.     *)
(***************************************************************************)
EXTENDS Sequences

CONSTANTS
  Accounts,   \* accounts of the week's recipient plan
  Versions,   \* contents a report may have
  Routes,     \* ways the messages may go
  None        \* a report that is not fixed yet

VARIABLES
  sealed,     \* the two reports
  told        \* the contents an account was sent of each, in order

vars == <<sealed, told>>

Phases == {"weekly", "monthly"}
Reports == [version : Versions, route : Routes]
Nothing == [p \in Phases |-> [a \in Accounts |-> <<>>]]
HasAll(p) == \A a \in Accounts : told[p][a] # <<>>

Init == sealed = [p \in Phases |-> None] /\ told = Nothing

Fix(p) ==
  /\ sealed[p] = None
  /\ p = "monthly" => sealed["weekly"] # None
  /\ \E report \in Reports :
       /\ p = "monthly" => report.route = sealed["weekly"].route
       /\ sealed' = [sealed EXCEPT ![p] = report]
  /\ UNCHANGED told

Tell(p, a) ==
  /\ sealed[p] # None
  /\ told[p][a] = <<>>
  /\ p = "monthly" => HasAll("weekly")
  /\ told' = [told EXCEPT ![p][a] = <<sealed[p].version>>]
  /\ UNCHANGED sealed

Again ==
  /\ \A p \in Phases : HasAll(p)
  /\ told' = Nothing
  /\ UNCHANGED sealed

Renew ==
  /\ \A p \in Phases : HasAll(p)
  /\ told' = Nothing
  /\ sealed' = [p \in Phases |-> None]

Next ==
  \/ \E p \in Phases : Fix(p)
  \/ \E p \in Phases, a \in Accounts : Tell(p, a)
  \/ Again
  \/ Renew

Spec == Init /\ [][Next]_vars
=============================================================================
