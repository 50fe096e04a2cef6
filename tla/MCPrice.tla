------------------------------ MODULE MCPrice ------------------------------
(* Two parties in the order of the batch, and two target maps, one of the  *)
(* WeCom application and one of another transport.                         *)
EXTENDS Price

CONSTANTS r1, r2

PriceAccounts == {1, 2}
PriceRoutes == {r1, r2}
=============================================================================
