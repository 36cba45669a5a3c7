--------------------------- MODULE UserDirectory ----------------------------
(***************************************************************************)
(* What user administration promises about the accounts, without requests: *)
(* every change is one atomic step that a usable administrator makes, and  *)
(* no step takes a right away from the administrator who makes it.         *)
(* It abstracts services/user_admin_service.py and change_password.  Every *)
(* commit of UserAdmin is one of its steps, except those of administrators *)
(* who lose their rights while their request runs.                         *)
(***************************************************************************)
CONSTANT Ids        \* the ids accounts can have

VARIABLE accounts   \* the account of each id, absent or not

AccountRows ==
    [st : {"absent", "active", "disabled"}, cred : {"temporary", "active"},
     admin : BOOLEAN]

NoAccount == [st |-> "absent", cred |-> "active", admin |-> FALSE]

Usable(x) == x.st = "active" /\ x.cred = "active" /\ x.admin

TypeOK == accounts \in [Ids -> AccountRows]

\* There is always somebody who can manage the accounts: the promise of
\* FR-010 for create_user, update_user, set_user_status, delete_user and
\* change_password.
SomeUsable == \E u \in Ids : Usable(accounts[u])

Init == TypeOK /\ SomeUsable

\* Demote, promote, disable, reactivate or delete somebody else.
ChangeOther(a, u) ==
    /\ Usable(accounts[a]) /\ a # u /\ accounts[u].st # "absent"
    /\ \E x \in AccountRows : accounts' = [accounts EXCEPT ![u] = x]

\* A new account waits for its first password.
Create(a, u) ==
    /\ Usable(accounts[a]) /\ accounts[u].st = "absent"
    /\ \E st \in {"active", "disabled"}, admin \in BOOLEAN :
         accounts' = [accounts EXCEPT ![u] =
                         [st |-> st, cred |-> "temporary", admin |-> admin]]

\* The owner replaces the temporary password.
SetPassword(u) ==
    /\ accounts[u].st # "absent"
    /\ accounts' = [accounts EXCEPT ![u].cred = "active"]

Next ==
    \/ \E a, u \in Ids : ChangeOther(a, u) \/ Create(a, u)
    \/ \E u \in Ids : SetPassword(u)

Spec == Init /\ [][Next]_accounts
=============================================================================
