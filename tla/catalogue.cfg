\* Two requests at a time on the service pages, one on the group pages and one on
\* the membership pages.
CONSTANTS
    n1 = n1  n2 = n2  s1 = s1  d1 = d1  d2 = d2  a1 = a1  a2 = a2
    Users = {u1, u2}
    Administrators = {u1, u2}
    Services = {s1, s2}
    GroupIds <- TwoIds
    Names = {n1, n2}
    Slugs = {a1, a2}
    NoSlug = NoSlug
    Destinations = {d1, d2}
    Forms <- SomeForms
    Editors = {e1, e2}
    Keepers = {k1}
    Assigners = {m1}
    MaxRevision = 2
    MaxGroups = 2
    MaxRequests = 5
SPECIFICATION Spec
SYMMETRY Symmetric
INVARIANTS TypeOK AccessQueriesAgree
PROPERTIES LifecycleChangesWereAllowed OnlyMergesMakeServicesInvalid
    OnlyRacesOutdateResults
