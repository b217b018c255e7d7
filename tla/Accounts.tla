------------------------------ MODULE Accounts ------------------------------
(***************************************************************************)
(* The accounts of the staff (modules/identity/services.py): create_user,  *)
(* update_user and delete_user, which only deactivates.  Each request      *)
(* reads with its own session, checks that the e-mail is free and that the *)
(* tenant keeps an active SUPERADMIN, and commits later.  It locks no row, *)
(* and the table has no unique key on the e-mail.                          *)
(***************************************************************************)
EXTENDS Integers, FiniteSets

CONSTANTS
    Person,         \* ids that users get
    Tenant,
    Email,
    Registrar,          \* requests that run at the same time
    NoOne,          \* a user that does not exist yet
    MaxFields       \* bound on the fields that one update changes

Account == [email : Email, tenant : Tenant, role : {"SUPERADMIN", "STAFF"}, active : BOOLEAN]

ASSUME AccountsAssumption == NoOne \notin Account /\ MaxFields \in Nat

VARIABLES
    users,      \* the rows of users
    clerk,      \* the fields each request is about to write, and the rows
                \* others have written since it read
    clashed     \* pairs that got one e-mail from requests that overlapped

accountVars == <<users, clerk, clashed>>

Unasked == [op |-> "none"]

Users == {p \in Person : users[p] # NoOne}

\* The active SUPERADMINs of a tenant.
Admins(t) ==
    {p \in Users : users[p].tenant = t /\ users[p].role = "SUPERADMIN" /\ users[p].active}

-----------------------------------------------------------------------------
\* Mutant: e-mails are compared with those of one tenant.
EmailTakenInTenant(p, e) ==
    \E q \in Users \ {p} : users[q].email = e /\ p \in Users /\ users[q].tenant = users[p].tenant

\* The query for another user with the e-mail, over all tenants.
EmailTaken(p, e) == \E q \in Users \ {p} : users[q].email = e

\* Mutant: the count includes the user that is about to change.
ColleaguesAndSelf(p) == Admins(users[p].tenant)

\* The other active SUPERADMINs of the user's tenant.
Colleagues(p) == Admins(users[p].tenant) \ {p}

Plan(c, op, p, fields) ==
    /\ clerk[c] = Unasked
    /\ clerk' = [clerk EXCEPT ![c] = [op |-> op, person |-> p, fields |-> fields, unseen |-> {}]]
    /\ UNCHANGED <<users, clashed>>

CreateUserCheck(c, p, a) ==
    /\ users[p] = NoOne
    /\ \A j \in Registrar : clerk[j] # Unasked => clerk[j].person # p      \* ids are fresh
    /\ a.active
    /\ ~ EmailTaken(p, a.email)
    /\ Plan(c, "create", p, a)

\* The fields in which the request differs from the row that was loaded.
Differing(p, a) == {f \in DOMAIN a : a[f] # users[p][f]}

\* update_user: a SUPERADMIN that would be deactivated, demoted or moved needs
\* an active colleague.
UpdateUserCheck(c, p, a) ==
    /\ p \in Users
    /\ LET fields == Differing(p, a)
       IN  /\ Cardinality(fields) <= MaxFields
           /\ "email" \in fields => ~ EmailTaken(p, a.email)
           /\ /\ users[p].role = "SUPERADMIN"
              /\ fields \cap {"role", "tenant"} # {} \/ ("active" \in fields /\ users[p].active)
              => Colleagues(p) # {}
           /\ Plan(c, "update", p, [f \in fields |-> a[f]])

\* delete_user.
DeleteUserCheck(c, p) ==
    /\ p \in Users
    /\ users[p].role = "SUPERADMIN" /\ users[p].active => Colleagues(p) # {}
    /\ Plan(c, "delete", p, [f \in Differing(p, [users[p] EXCEPT !.active = FALSE]) |-> FALSE])

\* The INSERT, or the UPDATE of the columns that changed.
Written(p, fields) ==
    IF users[p] = NoOne THEN fields
    ELSE [f \in DOMAIN users[p] |-> IF f \in DOMAIN fields THEN fields[f] ELSE users[p][f]]

UserCommit(c) ==
    /\ clerk[c] # Unasked
    /\ LET p == clerk[c].person
           fields == clerk[c].fields
           old == IF "email" \in DOMAIN fields THEN {pair \in clashed : p \in pair} ELSE {}
           new == {{p, q} : q \in {q \in clerk[c].unseen \ {p} :
                                     "email" \in DOMAIN fields /\ users[q].email = fields.email}}
       IN  /\ users' = [users EXCEPT ![p] = Written(p, fields)]
           /\ clashed' = (clashed \ old) \cup new
           /\ clerk' = [j \in Registrar |->
                          IF j = c \/ clerk[j] = Unasked THEN Unasked
                          ELSE [clerk[j] EXCEPT !.unseen = @ \cup {p}]]

-----------------------------------------------------------------------------
AccountsInit ==
    /\ users = [p \in Person |-> NoOne]
    /\ clerk = [c \in Registrar |-> Unasked]
    /\ clashed = {}

AccountsNext ==
    \E c \in Registrar :
      \/ UserCommit(c)
      \/ \E p \in Person :
           \/ DeleteUserCheck(c, p)
           \/ \E a \in Account : CreateUserCheck(c, p, a) \/ UpdateUserCheck(c, p, a)

AccountsSpec == AccountsInit /\ [][AccountsNext]_accountVars

-----------------------------------------------------------------------------
(* Properties.                                                             *)

\* Types; and only an existing user is updated or deactivated.
AccountsTypeOK ==
    /\ users \in [Person -> Account \cup {NoOne}]
    /\ \A c \in Registrar : clerk[c] # Unasked =>
          /\ clerk[c].op \in {"create", "update", "delete"}
          /\ (clerk[c].op = "create") <=> (clerk[c].person \notin Users)
          /\ clerk[c].unseen \subseteq Users
    /\ \A pair \in clashed : pair \subseteq Users /\ Cardinality(pair) = 2

\* Two users have one e-mail only where the requests that gave it to them
\* overlapped (create_user, update_user).
EmailsUnique ==
    \A p, q \in Users : p # q /\ users[p].email = users[q].email => {p, q} \in clashed

\* A tenant loses its last active SUPERADMIN only to a request that counted
\* colleagues which another request has changed since (update_user,
\* delete_user): never by requests one after the other.
AdminRemains ==
    [][\A t \in Tenant : Admins(t) # {} /\ Admins(t)' = {} =>
         \E c \in Registrar : clerk[c] # Unasked /\ clerk'[c] = Unasked /\ clerk[c].unseen # {}]_accountVars

\* The accounts (identity/services.py).
AccountsInv == AccountsTypeOK /\ EmailsUnique

=============================================================================
