--------------------------- MODULE MCInstallation ---------------------------
(* Small instances of Installation for TLC. *)
EXTENDS Installation, TLC

\* service_entries and audit_events only get columns, as users do here.
TwoTables == <<"users", "groups">>

TwoKeyed == {"users", "groups"}

FewColumns ==
    "users" :> {"normalized", "status"} @@ "groups" :> {"normalized"}

TwoSpellings == {"Ann", "ann", "bob"}

TwoNames == {"Ann", "bob"}

Folded == "Ann" :> "ann" @@ "ann" :> "ann" @@ "bob" :> "bob"

None == [i \in 1..MaxRows |-> NoRow]

Old(name) == [name |-> name, key |-> "null"]

EmptyFile ==
    [exists |-> [t \in AllTables |-> FALSE],
     missing |-> [t \in Tables |-> {}],
     rows |-> [t \in Keyed |-> None],
     indexed |-> [t \in Keyed |-> FALSE],
     inst |-> "none"]

\* A release before user management.
Prior ==
    [EmptyFile EXCEPT
        !.exists = [t \in AllTables |-> t # "installation_state"],
        !.missing = FewColumns,
        !.rows = [t \in Keyed |-> [None EXCEPT ![1] = Old("Ann")]]]

\* Two of its users have one name in two spellings.
Colliding ==
    [Prior EXCEPT !.rows["users"] = [None EXCEPT ![1] = Old("Ann"),
                                                 ![2] = Old("ann")]]

\* Initialized by nobody, although it is up to date and has a user.
Unmarked ==
    [EmptyFile EXCEPT
        !.exists = [t \in AllTables |-> TRUE],
        !.rows["users"] = [None EXCEPT ![1] = [name |-> "Ann", key |-> "ann"]],
        !.indexed = [t \in Keyed |-> TRUE],
        !.inst = "needs_bootstrap"]

SomeLegacies == {EmptyFile, Prior, Colliding, Unmarked}
=============================================================================
