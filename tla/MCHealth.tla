------------------------------ MODULE MCHealth ------------------------------
(* Small instances of Health for TLC. *)
EXTENDS Health

Fine ==
    [storage |-> TRUE, audit |-> TRUE, state |-> "initialized", users |-> 3,
     catalogue |-> 3]

\* An installation from its first day on, and what can go wrong with it.
SomeWorlds ==
    {Fine,
     [Fine EXCEPT !.state = "none", !.users = 0, !.catalogue = 0],
     [Fine EXCEPT !.state = "needs_bootstrap", !.catalogue = 1],
     [Fine EXCEPT !.users = 0],
     [Fine EXCEPT !.users = 1],
     [Fine EXCEPT !.users = 2, !.catalogue = 2],
     [Fine EXCEPT !.state = "other"],
     [Fine EXCEPT !.audit = FALSE],
     [Fine EXCEPT !.storage = FALSE]}
=============================================================================
