\* A request, a relay and a page share two connections.
CONSTANTS
    Https = {h1}
    Sockets = {w1}
    Pages = {p1}
    Nobody = Nobody
    Size = 2
    MaxStale = 1
SPECIFICATION Spec
INVARIANTS TypeOK ConnectionsComeBack NothingOutlivesItsRelay RegistryFollowsRelays
PROPERTIES EveryRequestEnds
