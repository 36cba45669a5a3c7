\* One probe at a time.
CONSTANTS
    Probes = {p1}
    Worlds <- SomeWorlds
    MaxWorlds = 3
SPECIFICATION Spec
INVARIANTS TypeOK HealthyWasHealthy ReasonsWereTrue NoTransitionIsMissed
PROPERTIES TransitionsMakeAChain
