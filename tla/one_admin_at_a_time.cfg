\* Every operation, administrators one after the other, visitors at any time.
CONSTANTS
    MaxUserId = 2
    Groups = {g1}
    SessionIds = {s1}
    NoSession = NoSession
    Operators = {o1}
    Visitors = {v1}
    Forms <- Everything
    InitialUsers <- AdminAndNewcomer
    MaxRevision = 3
SPECIFICATION Spec
PROPERTIES DirectorySpec RightsChangeEndsSessions EndedSessionsStayEnded
