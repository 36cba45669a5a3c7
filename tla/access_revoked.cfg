\* One request beside every change of the tables.
CONSTANTS
    u1 = u1
    Users = {u1}
    Groups = {g1}
    Services = {v1}
    Sessions = {s1}
    Tickets = {t1}
    NoTicket = NoTicket
    Requests = {r1}
    Owner <- OneOwner
    InitialPolicies <- OpenToNewcomers
    Changes <- AllChanges
SPECIFICATION Spec
INVARIANTS AuthorizedSinceArrival CookieOwnersChoseTheirPassword
