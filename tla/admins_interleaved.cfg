\* Two administrators' requests at a time on two accounts, three revisions each.
CONSTANTS
    MaxUserId = 2
    Groups = {g1}
    SessionIds = {s1}
    NoSession = NoSession
    Operators = {o1, o2}
    Visitors = {}
    Forms <- Columns
    InitialUsers <- TwoAdmins
    MaxRevision = 3
SPECIFICATION Spec
SYMMETRY Slots
PROPERTIES ColumnsChangeOnRequest NobodyRemovesThemselves MembershipsReplacedAtTheirRevision OnlyTheOvertakenLeaveTheDirectory OnlyTheOvertakenRemoveTheLast
