--------------------------- MODULE MCProxyAccess ---------------------------
(* Small instances of ProxyAccess for TLC. *)
EXTENDS ProxyAccess, TLC

CONSTANT u1

\* Every session is drawn for the one user there is.
OneOwner == [s \in Sessions |-> u1]

\* Everybody may enter every service.
Open ==
    [active |-> Users, temporary |-> {}, members |-> Users \X Groups,
     live |-> Groups, rules |-> Services \X Groups, enabled |-> Services,
     proxied |-> Services, sockets |-> Services]

OpenToAll == {Open}

\* The same for a new account that has yet to choose its password.
OpenToNewcomers == {[Open EXCEPT !.temporary = Users]}

AllChanges == PolicyChanges
NoChanges == {}
Slots == Permutations(Requests) \cup Permutations(Tickets)
=============================================================================
