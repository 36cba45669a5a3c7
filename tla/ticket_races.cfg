\* Two requests at a time with two tickets for two services.
CONSTANTS
    u1 = u1
    Users = {u1}
    Groups = {g1}
    Services = {v1, v2}
    Sessions = {s1, s2}
    Tickets = {t1, t2}
    NoTicket = NoTicket
    Requests = {r1, r2}
    Owner <- OneOwner
    InitialPolicies <- OpenToAll
    Changes <- NoChanges
SPECIFICATION Spec
SYMMETRY Slots
INVARIANTS TicketsAreRedeemedOnce ForwardedAfterLaunch
