---------------------------- MODULE MCAuthService ----------------------------
(* An instance of AuthService for TLC: one address in two spellings, and   *)
(* another.                                                                *)
EXTENDS AuthService, TLC

CONSTANTS a, b, lower_a, upper_a, lower_b, w1, w2

MCEmails == {lower_a, upper_a, lower_b}
MCLower == (lower_a :> a) @@ (upper_a :> a) @@ (lower_b :> b)

MCForms ==
    {[email |-> lower_a, password |-> w1, role |-> "USER"],
     [email |-> upper_a, password |-> w2, role |-> "SELLER"],
     [email |-> lower_b, password |-> w2, role |-> "USER"]}

Symmetry == Permutations(Requests)
=============================================================================
