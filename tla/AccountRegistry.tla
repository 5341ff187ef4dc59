--------------------------- MODULE AccountRegistry ---------------------------
(***************************************************************************)
(* What the accounts of an instance promise (the header of                 *)
(* lib/services/auth/accounts.ts): an email has at most one account, a role *)
(* is changed while there is an administrator to change it, and the instance *)
(* never has accounts and no administrator.                                 *)
(***************************************************************************)
CONSTANTS
    Emails,   \* the addresses people sign in with
    Ids,      \* account ids; an id is never given twice
    None      \* null

VARIABLES
    role,     \* each account's role, or why it has none
    email     \* each account's address

registry == <<role, email>>

Roles == {"ADMIN", "MANAGER"}

Present == {i \in Ids : role[i] \in Roles}
Admins  == {i \in Ids : role[i] = "ADMIN"}

AccountsOf(e) == {i \in Present : email[i] = e}

Init ==
    /\ role = [i \in Ids |-> "unused"]
    /\ email = [i \in Ids |-> None]

Join(i, e, r) ==
    /\ role[i] = "unused"
    /\ AccountsOf(e) = {}
    /\ r = "ADMIN" \/ Admins # {}
    /\ role' = [role EXCEPT ![i] = r]
    /\ email' = [email EXCEPT ![i] = e]

ChangeRole(actor, i, r) ==
    /\ actor \in Admins
    /\ i \in Present
    /\ i \in Admins => Admins # {i}
    /\ role' = [role EXCEPT ![i] = r]
    /\ UNCHANGED email

\* The last administrator leaves only as the last account.
Leave(i) ==
    /\ i \in Present
    /\ i \in Admins => Admins # {i} \/ Present = {i}
    /\ role' = [role EXCEPT ![i] = "erased"]
    /\ UNCHANGED email

Next ==
    \/ \E i \in Ids, e \in Emails, r \in Roles : Join(i, e, r)
    \/ \E actor, i \in Ids, r \in Roles : ChangeRole(actor, i, r)
    \/ \E i \in Ids : Leave(i)

Spec == Init /\ [][Next]_registry

\* An instance with accounts has someone to administer them.
AdministratorRemains == Present # {} => Admins # {}
==============================================================================
