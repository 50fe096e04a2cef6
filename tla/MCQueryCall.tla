----------------------------- MODULE MCQueryCall -----------------------------
(* Calls that share the slots of the process and may meet a change of the  *)
(* database server.  The larger plans run alone.                           *)
EXTENDS QueryCall

CONSTANTS c1, c2

Ask(a, b) == [c \in Calls |-> IF c = c1 THEN a ELSE b]

MCPlans ==
    {Ask(a, <<>>) : a \in {<<"plain", "plain">>, <<"decompose">>, <<"plain", "part">>}}
    \cup {Ask(a, None) : a \in {<<"plain", "part", "part">>, <<"plain", "decompose">>,
                                <<"decompose", "decompose">>, <<"filtered", "plain">>,
                                <<"invalid", "plain">>}}
=============================================================================
