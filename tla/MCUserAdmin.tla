---------------------------- MODULE MCUserAdmin -----------------------------
(* Small instances of UserAdmin for TLC. *)
EXTENDS UserAdmin, TLC

F(op, admin, st, gs) == [op |-> op, admin |-> admin, st |-> st, groups |-> gs]

Plain(op) == F(op, FALSE, "active", {})

Rename == Plain("rename")
Promote == F("profile", TRUE, "active", {})
Demote == F("profile", FALSE, "active", {})
Disable == F("status", FALSE, "disabled", {})
Reactivate == F("status", FALSE, "active", {})
Delete == Plain("delete")
Create == Plain("create")
CreateAdmin == F("create", TRUE, "active", Groups)
JoinAll == F("memberships", FALSE, "active", Groups)
LeaveAll == Plain("memberships")
SignOut == Plain("sign_out")
ChangePassword == Plain("change_password")

\* The operations that write different columns of one account.
Columns == {Rename, Demote, Disable, Reactivate, JoinAll}
Everything ==
    {Rename, Promote, Demote, Disable, Reactivate, Delete, Create, CreateAdmin,
     JoinAll, LeaveAll, SignOut, ChangePassword}

Row(st, cred, admin) == [st |-> st, cred |-> cred, admin |-> admin, rev |-> 1]
Admin == Row("active", "active", TRUE)
Member == Row("active", "active", FALSE)
Newcomer == Row("active", "temporary", FALSE)

\* Two administrators, and a third account that is a member or not there.
TwoAdmins ==
    {[u \in UserIds |-> IF u <= 2 THEN Admin ELSE third] :
        third \in {Member, AbsentRow}}

\* One administrator and one account with a generated password.
AdminAndNewcomer ==
    {[u \in UserIds |-> IF u = 1 THEN Admin
                        ELSE IF u = 2 THEN Newcomer ELSE AbsentRow]}

Slots == Permutations(Operators) \cup Permutations(Visitors)
=============================================================================
