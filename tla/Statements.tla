----------------------------- MODULE Statements -----------------------------
(* What a group of statements on one database connection promises its      *)
(* caller, whatever happens to the connection, the server and the timer    *)
(* that guards it: rows are handed over only before the deadline in force, *)
(* a deadline once agreed is never loosened, and after one statement of    *)
(* the group failed no later one succeeds.                                 *)
EXTENDS Integers

CONSTANT N              \* the statements of the group are 1..N, in order

VARIABLES now,          \* the clock
          limit,        \* the deadline in force
          out           \* what the caller got for each statement

vars == <<now, limit, out>>

Init == now = 0 /\ limit \in Nat /\ out = [i \in 1..N |-> "none"]

Tick == now' = now + 1 /\ UNCHANGED <<limit, out>>

Tighten == limit' < limit /\ UNCHANGED <<now, out>>

Serve(i) ==
    /\ out[i] = "none"
    /\ now < limit
    /\ \A j \in 1..(i - 1) : out[j] # "failed"
    /\ out' = [out EXCEPT ![i] = "rows"]
    /\ UNCHANGED <<now, limit>>

Fail(i) ==
    /\ out[i] = "none"
    /\ out' = [out EXCEPT ![i] = "failed"]
    /\ UNCHANGED <<now, limit>>

Next == Tick \/ Tighten \/ \E i \in 1..N : Serve(i) \/ Fail(i)

Spec == Init /\ [][Next]_vars
=============================================================================
