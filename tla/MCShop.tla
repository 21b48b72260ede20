------------------------------- MODULE MCShop -------------------------------
(* An instance of Shop for TLC.                                            *)
EXTENDS Shop, TLC

MCNewBodies == {[price |-> 5, stock |-> 3, status |-> "ACTIVE"]}

\* Three pieces at 5 cents: 70 % is a tie; at 1 cent they are less than the minimum.
MCBodies == {[price |-> 1, stock |-> 3, status |-> NoOne],
             [price |-> NoOne, stock |-> NoOne, status |-> "ACTIVE"]}

MCPromoBodies == {[kind |-> "PERCENTAGE", value |-> 9000, minimum |-> 10],
                  [kind |-> "FIXED_AMOUNT", value |-> 6, minimum |-> 3]}

MCBaskets == {[p \in Products |-> 3]}

Symmetry == Permutations(Sessions) \cup Permutations(Orders)
=============================================================================
