-------------------------- MODULE MCPasswordReset --------------------------
(* Small instances of PasswordReset for TLC. *)
EXTENDS PasswordReset, FiniteSets, TLC

OneId == {1}

LinkKeys == 1..Cardinality(Links)

Slots ==
    Permutations(Operators) \cup Permutations(Visitors) \cup Permutations(Links)
        \cup Permutations(People)
=============================================================================
