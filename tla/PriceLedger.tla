---------------------------- MODULE PriceLedger ----------------------------
(***************************************************************************)
(* What the hourly price reminders promise.  There is one reference price  *)
(* list.  A change is announced as a batch from the reference to a newer   *)
(* list; every party to it is told exactly once; only then does the         *)
(* reference move to the newer list, and only then can the next batch be   *)
(* opened, from there.                                                     *)
(***************************************************************************)
EXTENDS Naturals

CONSTANTS
  Accounts,   \* parties that may be told
  Lists,      \* price lists
  Initial,    \* the list the reference was initialized with
  None        \* no batch

VARIABLES
  ref,        \* the reference list
  open,       \* the batch being announced, or None
  told        \* how often a party was told of it

vars == <<ref, open, told>>

Batches == [before : Lists, after : Lists, parts : SUBSET Accounts]
Nobody == [a \in Accounts |-> 0]

Init == ref = Initial /\ open = None /\ told = Nobody

Announce ==
  /\ open = None
  /\ open' \in Batches
  /\ open'.before = ref
  /\ UNCHANGED <<ref, told>>

Tell(a) ==
  /\ open # None
  /\ a \in open.parts
  /\ told[a] = 0
  /\ told' = [told EXCEPT ![a] = 1]
  /\ UNCHANGED <<ref, open>>

Advance ==
  /\ open # None
  /\ \A a \in open.parts : told[a] # 0
  /\ ref' = open.after
  /\ open' = None
  /\ told' = Nobody

Next ==
  \/ Announce
  \/ \E a \in Accounts : Tell(a)
  \/ Advance

Spec == Init /\ [][Next]_vars
=============================================================================
