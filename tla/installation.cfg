\* Two commands at a time, one of them killed once.
CONSTANTS
    Procs = {p1, p2}
    Nobody = Nobody
    Order <- TwoTables
    Keyed <- TwoKeyed
    Columns <- FewColumns
    Names <- TwoSpellings
    Typed <- TwoNames
    NormOf <- Folded
    Legacies <- SomeLegacies
    MaxRows = 2
    MaxKills = 1
    MaxRenames = 1
SPECIFICATION Spec
INVARIANTS SetupMeansEmpty KeysAreThoseOfTheNames
PROPERTIES OneFirstAdministrator InitializedForGood SomebodyGetsReady
