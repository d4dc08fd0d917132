------------------------- MODULE MCClientAccounting -------------------------
(* ClientAccounting with interchangeable clients on two plans. *)
EXTENDS ClientAccounting, TLC

Renewed == [quota |-> 1, expiry |-> 2, reset |-> 2]
FromFirstUse == [quota |-> 1, expiry |-> -1, reset |-> 0]

BothPlans == {Renewed, FromFirstUse}

Symmetry == Permutations(Emails)

=============================================================================
