----------------------------- MODULE MCEntities -----------------------------
(* "k" and "K" are one name, "q" is another that the collation takes for   *)
(* the same, and "z" contains "k".                                         *)
EXTENDS Entities

MCTexts == {"k", "K", "q", "z"}
MCFold(t) == IF t = "K" THEN "k" ELSE t
MCAlike(a, b) == a = b \/ {a, b} \subseteq {"k", "K", "q"}
MCInside(a, b) == b = "z" /\ MCFold(a) = "k"
MCShort(t) == t = "q"

Customer(id, code, name) == [type |-> "customer", id |-> id, code |-> code, name |-> name]
MCRows == {Customer("k", None, "k"), Customer("k", None, "z"), Customer("q", None, "k"),
           Customer("q", None, "q"), Customer("z", "K", "z"), Customer("z", "k", "q"),
           [Customer("k", None, "q") EXCEPT !.type = "product"]}
MCKnown == {[type |-> "department", aliases |-> {"q"}, values |-> {"q"}],
            [type |-> "department", aliases |-> {"z"}, values |-> {"q", "z"}]}

MCRoles == {"customer", "payer", "buyer", "product", "department"}
MCTypeOf == [r \in MCRoles |-> IF r \in {"payer", "buyer"} THEN "customer" ELSE r]
MCRolesOf == [t \in {"customer", "product", "department"} |->
                IF t = "customer" THEN {"customer", "payer"} ELSE {t}]
MCAllowed == [m \in {"sales", "debt"} |->
                IF m = "sales" THEN {"customer", "department"}
                ELSE {"customer", "payer", "product"}]

MCTypeLists == {None, {"customer"}, {"department"}, {"customer", "department"}}

Where(roles, texts) == [r \in roles |-> texts]
MCRequests ==
    [metric : {"sales"}, filters : {Where({"customer"}, {"k", "z"}),
                                    Where({"department"}, {"q", "z"}),
                                    ("customer" :> {"z"}) @@ ("buyer" :> {"q"})}]
    \cup [metric : {"debt"}, filters : {Where({"customer", "product"}, {"k"}),
                                        Where({"buyer"}, {"k"}),
                                        Where({"payer"}, {"z"})}]
=============================================================================
