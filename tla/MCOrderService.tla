--------------------------- MODULE MCOrderService ---------------------------
(* Instances of OrderService for TLC: two products, item lists, stock.     *)
EXTENDS OrderService, TLC

CONSTANTS p1, p2

Amounts(m, n) == (p1 :> m) @@ (p2 :> n)

One   == [total |-> Amounts(1, 0), largest |-> Amounts(1, 0)]
Both  == [total |-> Amounts(1, 1), largest |-> Amounts(1, 1)]
Twice == [total |-> Amounts(2, 0), largest |-> Amounts(1, 0)]  \* one product in two items

JustBoth  == {Both}
JustOne   == {One}
BothTwice == {Both, Twice}

MCStock == Amounts(2, 1)

Symmetry == Permutations(Requests) \cup Permutations(Orders)
=============================================================================
