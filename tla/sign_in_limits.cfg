\* Two threads, one account and two clients.
CONSTANTS
    account = account  client = client  other = other
    Threads = {t1, t2}
    Keys = {account, client, other}
    Requests <- TwoClients
    Attempts = 2
    Window = 2
    MaxStall = 1
SPECIFICATION Spec
INVARIANTS OvershootIsBounded
PROPERTIES NobodyPassesAFullKey LockoutsEnd
