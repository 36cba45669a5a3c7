\* Two requests at a time, each a reset, a completion or a sign-in, with two
\* accounts that share an id.
CONSTANTS
    Ids <- OneId
    People = {p1, p2}
    Nobody = Nobody
    Links = {l1, l2, l3}
    NoLink = NoLink
    Keys <- LinkKeys
    Operators = {r1, r2}
    Visitors = {r1, r2}
    MaxSessions = 1
SPECIFICATION Spec
SYMMETRY Slots
INVARIANTS LinksLeaveWithTheirAccount UsedLinksAreConsumed
    NoMoreLinksThanResetsAtOnce NoMorePasswordsThanRacers
PROPERTIES ResetsEndSessions
