-------------------------- MODULE CatalogueProofs --------------------------
(***************************************************************************)
(* Theorems about the accounts, the hierarchy of spaces and the discount   *)
(* codes, for any number of them and of requests that edit or use them at  *)
(* the same time, and about what every calculation of a price answers, for *)
(* every cart and all rules.                                               *)
(***************************************************************************)
EXTENDS Accounts, Spaces, Quoted, FiniteData

-----------------------------------------------------------------------------
(* Accounts: the inductive invariant.                                      *)

Keys == {"email", "tenant", "role", "active"}

\* A request that is at work changes some fields of a user that is there, or
\* makes one that is not and that no other request has taken.
ClerkTypes(c) ==
    /\ DOMAIN clerk[c] = {"op", "person", "fields", "unseen"}
    /\ clerk[c].person \in Person
    /\ clerk[c].op \in {"create", "update", "delete"}
    /\ clerk[c].unseen \subseteq Users
    /\ \/ /\ clerk[c].op = "create" /\ clerk[c].person \notin Users
          /\ clerk[c].fields \in Account
          /\ \A j \in Registrar \ {c} : clerk[j] # Unasked => clerk[j].person # clerk[c].person
       \/ /\ clerk[c].op # "create" /\ clerk[c].person \in Users
          /\ \E a \in Account, D \in SUBSET Keys : clerk[c].fields = [f \in D |-> a[f]]

\* The e-mail it asks for is free but for what it has not seen.
EmailFree(c) ==
    "email" \in DOMAIN clerk[c].fields =>
        \A q \in Users \ (clerk[c].unseen \cup {clerk[c].person}) :
            users[q].email # clerk[c].fields.email

\* If nothing happened since it read, the colleague it counted is still there.
ColleagueCounted(c) ==
    LET p == clerk[c].person IN
    /\ clerk[c].unseen = {} /\ clerk[c].op # "create"
    /\ users[p].role = "SUPERADMIN" /\ users[p].active
    /\ DOMAIN clerk[c].fields \cap {"tenant", "role", "active"} # {}
    => Colleagues(p) # {}

UsersTypes == users \in [Person -> Account \cup {NoOne}]

Clerks ==
    \A c \in Registrar : clerk[c] # Unasked =>
        ClerkTypes(c) /\ EmailFree(c) /\ ColleagueCounted(c)

Pairs == \A pair \in clashed : pair \subseteq Users /\ Cardinality(pair) = 2

AccountsSafe ==
    /\ UsersTypes
    /\ clerk = [c \in Registrar |-> clerk[c]]
    /\ Clerks
    /\ Pairs
    /\ EmailsUnique

-----------------------------------------------------------------------------
(* Accounts: the steps.                                                    *)

\* A row of users is an account, and what is no row is nobody.
LEMMA UsersAreAccounts ==
    UsersTypes => /\ Users \subseteq Person
                  /\ \A p \in Person : p \in Users <=> users[p] \in Account
                  /\ \A p \in Person : p \notin Users => users[p] = NoOne
  BY AccountsAssumption DEF UsersTypes, Users

\* The fields of an account, one by one.
LEMMA AccountFields ==
    \A a \in Account :
        /\ DOMAIN a = Keys
        /\ a.email \in Email /\ a.tenant \in Tenant
        /\ a.role \in {"SUPERADMIN", "STAFF"} /\ a.active \in BOOLEAN
  BY DEF Account, Keys

\* Changing some fields of an account leaves an account.
LEMMA ChangedAccount ==
    ASSUME NEW u \in Account, NEW a \in Account, NEW D \in SUBSET Keys
    PROVE  [f \in DOMAIN u |-> IF f \in D THEN a[f] ELSE u[f]] \in Account
  BY AccountFields DEF Account, Keys

\* What a commit writes.
LEMMA CommitWrites ==
    ASSUME UsersTypes, NEW c \in Registrar, clerk[c] # Unasked, ClerkTypes(c), UserCommit(c)
    PROVE  LET p == clerk[c].person
               fields == clerk[c].fields
           IN  /\ users' \in [Person -> Account \cup {NoOne}]
               /\ \A q \in Person \ {p} : users'[q] = users[q]
               /\ users'[p] \in Account
               /\ Users' = Users \cup {p}
               /\ \A f \in DOMAIN fields : users'[p][f] = fields[f]
               /\ \A f \in Keys \ DOMAIN fields : p \in Users /\ users'[p][f] = users[p][f]
<1> DEFINE p == clerk[c].person
           fields == clerk[c].fields
<1>1. p \in Person /\ users' = [users EXCEPT ![p] = Written(p, fields)]
  BY DEF ClerkTypes, UserCommit
<1>2. CASE clerk[c].op = "create"
  <2>1. p \notin Users /\ fields \in Account
    BY <1>2 DEF ClerkTypes
  <2>2. users'[p] = fields
    BY <1>1, <2>1, UsersAreAccounts DEF Written, UsersTypes
  <2> QED
    BY <1>1, <2>1, <2>2, AccountFields, AccountsAssumption DEF UsersTypes, Users
<1>3. CASE clerk[c].op # "create"
  <2>1. PICK a \in Account, D \in SUBSET Keys : fields = [f \in D |-> a[f]]
    BY <1>3 DEF ClerkTypes
  <2>2. p \in Users /\ users[p] \in Account /\ users[p] # NoOne
    BY <1>3, UsersAreAccounts, AccountsAssumption DEF ClerkTypes
  <2>3. Written(p, fields) = [f \in DOMAIN users[p] |-> IF f \in D THEN a[f] ELSE users[p][f]]
    BY <2>1, <2>2 DEF Written
  <2>4. Written(p, fields) \in Account
    BY <2>2, <2>3, ChangedAccount
  <2>5. users'[p] = Written(p, fields)
    BY <1>1 DEF UsersTypes
  <2>6. \A f \in Keys : users'[p][f] = IF f \in D THEN a[f] ELSE users[p][f]
    BY <2>2, <2>3, <2>5, AccountFields
  <2> QED
    BY <1>1, <2>1, <2>2, <2>4, <2>5, <2>6, AccountsAssumption DEF UsersTypes, Users
<1> QED
  BY <1>2, <1>3

\* A request that checked is added to the ones at work.
LEMMA PlanStep ==
    ASSUME AccountsSafe, NEW c \in Registrar, NEW op, NEW p, NEW fields,
           Plan(c, op, p, fields),
           (ClerkTypes(c) /\ EmailFree(c) /\ ColleagueCounted(c))',
           op = "create" => \A j \in Registrar : clerk[j] # Unasked => clerk[j].person # p,
           op # "create" => p \in Users
    PROVE  AccountsSafe'
<1>1. /\ clerk[c] = Unasked /\ UNCHANGED <<users, clashed>>
      /\ \A j \in Registrar \ {c} : clerk'[j] = clerk[j]
      /\ clerk'[c] = [op |-> op, person |-> p, fields |-> fields, unseen |-> {}]
      /\ clerk' = [j \in Registrar |-> clerk'[j]]
  BY DEF Plan, AccountsSafe
<1>2. ASSUME NEW j \in Registrar \ {c}, clerk'[j] # Unasked
      PROVE  (ClerkTypes(j) /\ EmailFree(j) /\ ColleagueCounted(j))'
  <2>1. /\ clerk'[j] = clerk[j] /\ clerk[j] # Unasked
        /\ ClerkTypes(j) /\ EmailFree(j) /\ ColleagueCounted(j)
    BY <1>1, <1>2 DEF AccountsSafe, Clerks
  <2>2. ClerkTypes(j)'
    <3>1. users' = users /\ Users' = Users
      BY <1>1 DEF Users
    <3>2. CASE clerk[j].op = "create"
      <4>1. p # clerk[j].person
        BY <2>1, <3>2 DEF ClerkTypes
      <4>2. \A k \in Registrar \ {j} : clerk'[k] # Unasked => clerk'[k].person # clerk[j].person
        BY <1>1, <2>1, <3>2, <4>1 DEF ClerkTypes
      <4> QED
        BY <2>1, <3>1, <3>2, <4>2 DEF ClerkTypes
    <3>3. CASE clerk[j].op # "create"
      <4>1. PICK b \in Account, E \in SUBSET Keys : clerk[j].fields = [f \in E |-> b[f]]
        BY <2>1, <3>3 DEF ClerkTypes
      <4>2. \E x \in Account, E1 \in SUBSET Keys : clerk'[j].fields = [f \in E1 |-> x[f]]
        BY <2>1, <4>1
      <4> QED
        BY <2>1, <3>1, <3>3, <4>2 DEF ClerkTypes
    <3> QED
      BY <3>2, <3>3
  <2>3. EmailFree(j)'
    BY <1>1, <2>1 DEF EmailFree, Users
  <2>4. ColleagueCounted(j)'
    BY <1>1, <2>1 DEF ColleagueCounted, Colleagues, Admins, Users
  <2> QED
    BY <2>2, <2>3, <2>4
<1>3. Clerks'
  BY <1>2 DEF Clerks
<1>4. UsersTypes' /\ Pairs' /\ EmailsUnique'
  BY <1>1 DEF AccountsSafe, UsersTypes, Pairs, EmailsUnique, Users
<1> QED
  BY <1>1, <1>3, <1>4 DEF AccountsSafe

\* The three checks establish what a request at work relies on.
LEMMA CreateStep ==
    ASSUME AccountsSafe, NEW c \in Registrar, NEW p \in Person, NEW a \in Account,
           CreateUserCheck(c, p, a)
    PROVE  AccountsSafe'
<1>0. UsersTypes /\ clerk = [j \in Registrar |-> clerk[j]]
  BY DEF AccountsSafe
<1>1. /\ Plan(c, "create", p, a) /\ p \notin Users /\ ~ EmailTaken(p, a.email)
      /\ \A j \in Registrar : clerk[j] # Unasked => clerk[j].person # p
  BY DEF CreateUserCheck, Users
<1>2. /\ clerk'[c] = [op |-> "create", person |-> p, fields |-> a, unseen |-> {}]
      /\ \A j \in Registrar \ {c} : clerk'[j] = clerk[j]
      /\ users' = users /\ Users' = Users
  BY <1>0, <1>1 DEF Plan, Users
<1>3. ClerkTypes(c)'
  BY <1>1, <1>2 DEF ClerkTypes
<1>4. EmailFree(c)'
  BY <1>1, <1>2 DEF EmailFree, EmailTaken
<1>5. ColleagueCounted(c)'
  BY <1>2 DEF ColleagueCounted
<1> QED
  BY <1>1, <1>3, <1>4, <1>5, PlanStep

\* update_user reads, checks and decides (identity/services.py).
LEMMA UpdateStep ==
    ASSUME AccountsSafe, NEW c \in Registrar, NEW p \in Person, NEW a \in Account,
           UpdateUserCheck(c, p, a)
    PROVE  AccountsSafe'
<1> DEFINE D == Differing(p, a)
           fields == [f \in D |-> a[f]]
<1>0. UsersTypes /\ clerk = [j \in Registrar |-> clerk[j]]
  BY DEF AccountsSafe
<1>1. /\ Plan(c, "update", p, fields) /\ p \in Users
      /\ "email" \in D => ~ EmailTaken(p, a.email)
      /\ /\ users[p].role = "SUPERADMIN"
         /\ D \cap {"role", "tenant"} # {} \/ ("active" \in D /\ users[p].active)
         => Colleagues(p) # {}
  BY DEF UpdateUserCheck
<1>2. /\ clerk'[c] = [op |-> "update", person |-> p, fields |-> fields, unseen |-> {}]
      /\ users' = users /\ Users' = Users
  BY <1>0, <1>1 DEF Plan, Users
<1>3. D \in SUBSET Keys
  BY AccountFields DEF Differing
<1>4. ClerkTypes(c)'
  BY <1>1, <1>2, <1>3 DEF ClerkTypes
<1>5. EmailFree(c)'
  BY <1>1, <1>2 DEF EmailFree, EmailTaken
<1>6. ColleagueCounted(c)'
  <2>1. Colleagues(p)' = Colleagues(p)
    BY <1>2 DEF Colleagues, Admins
  <2>2. clerk'[c].person = p /\ DOMAIN clerk'[c].fields = D
    BY <1>2
  <2> QED
    BY <1>1, <1>2, <2>1, <2>2 DEF ColleagueCounted
<1> QED
  BY <1>1, <1>4, <1>5, <1>6, PlanStep

\* delete_user reads, checks and decides; it only deactivates.
LEMMA DeleteStep ==
    ASSUME AccountsSafe, NEW c \in Registrar, NEW p \in Person, DeleteUserCheck(c, p)
    PROVE  AccountsSafe'
<1> DEFINE a == [users[p] EXCEPT !.active = FALSE]
           D == Differing(p, a)
           fields == [f \in D |-> FALSE]
<1>0. UsersTypes /\ clerk = [j \in Registrar |-> clerk[j]]
  BY DEF AccountsSafe
<1>1. /\ Plan(c, "delete", p, fields) /\ p \in Users
      /\ users[p].role = "SUPERADMIN" /\ users[p].active => Colleagues(p) # {}
  BY DEF DeleteUserCheck
<1>2. /\ clerk'[c] = [op |-> "delete", person |-> p, fields |-> fields, unseen |-> {}]
      /\ users' = users /\ Users' = Users
  BY <1>0, <1>1 DEF Plan, Users
<1>3. users[p] \in Account
  BY <1>0, <1>1, UsersAreAccounts
<1>4. a \in Account /\ D \subseteq {"active"} /\ a.active = FALSE
  <2>1. a \in Account /\ a.active = FALSE /\ \A f \in Keys \ {"active"} : a[f] = users[p][f]
    BY <1>3 DEF Account, Keys
  <2> HIDE DEF a
  <2>2. DOMAIN a = Keys
    BY <2>1, AccountFields
  <2> QED
    BY <2>1, <2>2 DEF Differing
<1>5. fields = [f \in D |-> a[f]] /\ D \in SUBSET Keys
  BY <1>4 DEF Keys
<1>a. DOMAIN fields = D /\ "email" \notin D
  BY <1>4
<1>b. \E b \in Account, E \in SUBSET Keys : fields = [f \in E |-> b[f]]
  BY <1>4, <1>5
<1> HIDE DEF fields, D, a
<1>6. ClerkTypes(c)'
  BY <1>1, <1>2, <1>b DEF ClerkTypes
<1>7. EmailFree(c)'
  BY <1>2, <1>a DEF EmailFree
<1>8. ColleagueCounted(c)'
  <2>1. Colleagues(p)' = Colleagues(p)
    BY <1>2 DEF Colleagues, Admins
  <2>2. clerk'[c].person = p /\ DOMAIN clerk'[c].fields = D
    BY <1>2, <1>a
  <2> QED
    BY <1>1, <1>2, <2>1, <2>2 DEF ColleagueCounted
<1> QED
  BY <1>1, <1>6, <1>7, <1>8, PlanStep

\* The commit of one request, as the others see it.
LEMMA CommitStep ==
    ASSUME AccountsSafe, NEW c \in Registrar, UserCommit(c)
    PROVE  AccountsSafe'
<1> DEFINE p == clerk[c].person
           fields == clerk[c].fields
<1>0. /\ UsersTypes /\ clerk[c] # Unasked
      /\ ClerkTypes(c) /\ EmailFree(c) /\ ColleagueCounted(c)
  BY DEF AccountsSafe, Clerks, UserCommit
<1>1. /\ users' \in [Person -> Account \cup {NoOne}]
      /\ \A q \in Person \ {p} : users'[q] = users[q]
      /\ users'[p] \in Account
      /\ Users' = Users \cup {p}
      /\ \A f \in DOMAIN fields : users'[p][f] = fields[f]
      /\ \A f \in Keys \ DOMAIN fields : p \in Users /\ users'[p][f] = users[p][f]
  BY <1>0, CommitWrites
<1>2. /\ p \in Person /\ Users \subseteq Person
      /\ clerk' = [j \in Registrar |->
                     IF j = c \/ clerk[j] = Unasked THEN Unasked
                     ELSE [clerk[j] EXCEPT !.unseen = @ \cup {p}]]
  BY <1>0, UsersAreAccounts DEF ClerkTypes, UserCommit
<1>3. ASSUME NEW j \in Registrar, clerk'[j] # Unasked
      PROVE  (ClerkTypes(j) /\ EmailFree(j) /\ ColleagueCounted(j))'
  <2>1. /\ j # c /\ clerk[j] # Unasked /\ ClerkTypes(j) /\ EmailFree(j)
        /\ clerk'[j] = [clerk[j] EXCEPT !.unseen = clerk[j].unseen \cup {p}]
    BY <1>2, <1>3 DEF AccountsSafe, Clerks
  <2>2. /\ clerk'[j].op = clerk[j].op /\ clerk'[j].person = clerk[j].person
        /\ clerk'[j].fields = clerk[j].fields
        /\ clerk'[j].unseen = clerk[j].unseen \cup {p}
        /\ DOMAIN clerk'[j] = DOMAIN clerk[j]
    BY <2>1 DEF ClerkTypes
  <2>3. clerk[j].op = "create" => p # clerk[j].person
    BY <1>0, <2>1 DEF ClerkTypes
  <2>4. ClerkTypes(j)'
    <3>1. /\ clerk'[j].unseen \subseteq Users' /\ clerk'[j].person \in Person
          /\ DOMAIN clerk'[j] = {"op", "person", "fields", "unseen"}
          /\ clerk'[j].op \in {"create", "update", "delete"}
      BY <1>1, <2>1, <2>2 DEF ClerkTypes
    <3>2. CASE clerk[j].op = "create"
      <4>1. \A k \in Registrar \ {j} : clerk'[k] # Unasked =>
                clerk[k] # Unasked /\ clerk'[k].person = clerk[k].person
        <5>1. ASSUME NEW k \in Registrar \ {j}, clerk'[k] # Unasked
              PROVE  clerk[k] # Unasked /\ clerk'[k].person = clerk[k].person
          <6>1. /\ k # c /\ clerk[k] # Unasked /\ ClerkTypes(k)
                /\ clerk'[k] = [clerk[k] EXCEPT !.unseen = clerk[k].unseen \cup {p}]
            BY <1>2, <5>1 DEF AccountsSafe, Clerks
          <6> QED
            BY <6>1 DEF ClerkTypes
        <5> QED
          BY <5>1
      <4>2. clerk'[j].person \notin Users' /\ clerk'[j].fields \in Account
        BY <1>1, <2>1, <2>2, <2>3, <3>2 DEF ClerkTypes
      <4>3. \A k \in Registrar \ {j} : clerk'[k] # Unasked => clerk'[k].person # clerk'[j].person
        BY <2>1, <2>2, <3>2, <4>1 DEF ClerkTypes
      <4> QED
        BY <2>2, <3>1, <3>2, <4>2, <4>3 DEF ClerkTypes
    <3>3. CASE clerk[j].op # "create"
      <4>1. PICK b \in Account, E \in SUBSET Keys : clerk[j].fields = [f \in E |-> b[f]]
        BY <2>1, <3>3 DEF ClerkTypes
      <4>2. \E x \in Account, E1 \in SUBSET Keys : clerk'[j].fields = [f \in E1 |-> x[f]]
        BY <2>2, <4>1
      <4>3. clerk'[j].person \in Users'
        BY <1>1, <2>1, <2>2, <3>3 DEF ClerkTypes
      <4> QED
        BY <2>2, <3>1, <3>3, <4>2, <4>3 DEF ClerkTypes
    <3> QED
      BY <3>2, <3>3
  <2>5. EmailFree(j)'
    BY <1>1, <1>2, <2>1, <2>2 DEF EmailFree
  <2>6. ColleagueCounted(j)'
    BY <2>2 DEF ColleagueCounted
  <2> QED
    BY <2>4, <2>5, <2>6
<1>4. Clerks'
  BY <1>3 DEF Clerks
<1> DEFINE old == IF "email" \in DOMAIN fields THEN {pair \in clashed : p \in pair} ELSE {}
           same == {q \in clerk[c].unseen \ {p} :
                      "email" \in DOMAIN fields /\ users[q].email = fields.email}
<1>5. clashed' = (clashed \ old) \cup {{p, q} : q \in same}
  BY DEF UserCommit
<1>6. clerk[c].unseen \subseteq Users
  BY <1>0 DEF ClerkTypes
<1>7. Pairs'
  <2>1. ASSUME NEW q \in same
        PROVE  {p, q} \subseteq Users' /\ Cardinality({p, q}) = 2
    <3>1. q # p /\ q \in Users'
      BY <1>1, <1>6
    <3>2. Cardinality({q} \cup {p}) = 2
      <4>1. IsFiniteSet({q}) /\ Cardinality({q}) = 1
        BY FS_Singleton
      <4>2. Cardinality({q} \cup {p}) = Cardinality({q}) + 1
        BY <3>1, <4>1, FS_AddElement
      <4> QED
        BY <4>1, <4>2
    <3>3. {q} \cup {p} = {p, q}
      OBVIOUS
    <3> QED
      BY <1>1, <3>1, <3>2, <3>3
  <2>2. \A pair \in clashed : pair \subseteq Users' /\ Cardinality(pair) = 2
    BY <1>1 DEF AccountsSafe, Pairs
  <2> QED
    BY <1>5, <2>1, <2>2 DEF Pairs
<1>8. ASSUME NEW q \in Users', NEW r \in Users', q # r, users'[q].email = users'[r].email
      PROVE  {q, r} \in clashed'
  <2>1. \A x \in Users \ {p} : users'[x] = users[x]
    BY <1>1, <1>2
  <2>2. CASE q # p /\ r # p
    <3>1. q \in Users /\ r \in Users /\ users[q].email = users[r].email
      BY <1>1, <1>8, <2>1, <2>2
    <3>2. {q, r} \in clashed /\ {q, r} \notin old
      BY <1>8, <2>2, <3>1 DEF AccountsSafe, EmailsUnique
    <3> QED
      BY <1>5, <3>2
  <2>3. ASSUME NEW x \in Users \ {p}, users'[p].email = users'[x].email
        PROVE  {p, x} \in clashed'
    <3>1. CASE "email" \in DOMAIN fields
      <4>1. users[x].email = fields.email
        BY <1>1, <2>1, <2>3, <3>1
      <4>2. x \in clerk[c].unseen
        BY <1>0, <3>1, <4>1 DEF EmailFree
      <4>3. x \in same
        BY <3>1, <4>1, <4>2
      <4> QED
        BY <1>5, <4>3
    <3>2. CASE "email" \notin DOMAIN fields
      <4>1. p \in Users /\ users'[p].email = users[p].email
        BY <1>1, <3>2 DEF Keys
      <4>2. {p, x} \in clashed
        BY <2>1, <2>3, <4>1 DEF AccountsSafe, EmailsUnique
      <4>3. old = {}
        BY <3>2
      <4> QED
        BY <1>5, <4>2, <4>3
    <3> QED
      BY <3>1, <3>2
  <2>4. CASE q = p
    BY <1>1, <1>8, <2>3, <2>4
  <2>5. CASE r = p
    <3>1. {p, q} \in clashed' /\ {p, q} = {q, p}
      BY <1>1, <1>8, <2>3, <2>5
    <3> QED
      BY <2>5, <3>1
  <2> QED
    BY <2>2, <2>4, <2>5
<1>9. EmailsUnique'
  BY <1>8 DEF EmailsUnique
<1>10. UsersTypes' /\ clerk' = [j \in Registrar |-> clerk'[j]]
  BY <1>1, <1>2 DEF UsersTypes
<1> QED
  BY <1>4, <1>7, <1>9, <1>10 DEF AccountsSafe

-----------------------------------------------------------------------------
(* Accounts: the theorems.                                                 *)

\* No request on the accounts breaks the invariant.
LEMMA AccountsStep == AccountsSafe /\ [AccountsNext]_accountVars => AccountsSafe'
<1>1. ASSUME AccountsSafe, UNCHANGED accountVars PROVE AccountsSafe'
  <2>1. users' = users /\ clerk' = clerk /\ clashed' = clashed /\ Users' = Users
    BY <1>1 DEF accountVars, Users
  <2>2. ASSUME NEW c \in Registrar
        PROVE  /\ ClerkTypes(c) => ClerkTypes(c)'
               /\ EmailFree(c) => EmailFree(c)'
               /\ ColleagueCounted(c) => ColleagueCounted(c)'
    BY <2>1 DEF ClerkTypes, EmailFree, ColleagueCounted, Colleagues, Admins
  <2>3. Clerks'
    BY <1>1, <2>1, <2>2 DEF AccountsSafe, Clerks
  <2> QED
    BY <1>1, <2>1, <2>3 DEF AccountsSafe, UsersTypes, Pairs, EmailsUnique
<1> QED
  BY <1>1, CreateStep, UpdateStep, DeleteStep, CommitStep DEF AccountsNext

\* The inductive invariant of the accounts holds in every behaviour.
THEOREM AccountsAlwaysSafe == AccountsSpec => []AccountsSafe
<1>1. AccountsInit => AccountsSafe
  <2> SUFFICES ASSUME AccountsInit PROVE AccountsSafe
    OBVIOUS
  <2>1. Users = {}
    BY DEF AccountsInit, Users
  <2> QED
    BY <2>1 DEF AccountsInit, AccountsSafe, UsersTypes, Clerks, Pairs, EmailsUnique
<1> QED
  BY <1>1, AccountsStep, PTL DEF AccountsSpec

\* Two users share an e-mail only where the requests that gave it overlapped,
\* for any number of users, tenants and requests.
THEOREM EmailsAlwaysUnique == AccountsSpec => []AccountsInv
<1>1. AccountsSafe => AccountsInv
  BY DEF AccountsSafe, AccountsInv, AccountsTypeOK, UsersTypes, Clerks, ClerkTypes, Pairs
<1> QED
  BY <1>1, AccountsAlwaysSafe, PTL

\* A tenant loses its last active SUPERADMIN only to a request that had not
\* seen another request's commit.
LEMMA LastAdminStep ==
    ASSUME AccountsSafe, NEW c \in Registrar, UserCommit(c), clerk[c].unseen = {},
           NEW t \in Tenant, Admins(t) # {}
    PROVE  Admins(t)' # {}
<1> DEFINE p == clerk[c].person
           fields == clerk[c].fields
<1>0. UsersTypes /\ ClerkTypes(c) /\ ColleagueCounted(c) /\ clerk[c] # Unasked
  BY DEF AccountsSafe, Clerks, UserCommit
<1>1. /\ \A q \in Person \ {p} : users'[q] = users[q]
      /\ Users' = Users \cup {p}
      /\ \A f \in Keys \ DOMAIN fields : users'[p][f] = users[p][f]
  BY <1>0, CommitWrites
<1>2. Users \subseteq Person
  BY <1>0, UsersAreAccounts
<1>3. \A q \in Admins(t) \ {p} : q \in Admins(t)'
  BY <1>1, <1>2 DEF Admins
<1>4. CASE \E q \in Admins(t) : q # p
  BY <1>3, <1>4
<1>5. CASE Admins(t) = {p}
  <2>1. /\ p \in Users /\ users[p].tenant = t /\ users[p].role = "SUPERADMIN" /\ users[p].active
    BY <1>5 DEF Admins
  <2>2. Colleagues(p) = {}
    BY <1>5, <2>1 DEF Colleagues
  <2>3. clerk[c].op # "create"
    BY <1>0, <2>1 DEF ClerkTypes
  <2>4. DOMAIN fields \cap {"tenant", "role", "active"} = {}
    BY <1>0, <2>1, <2>2, <2>3 DEF ColleagueCounted
  <2>5. /\ users'[p].tenant = users[p].tenant /\ users'[p].role = users[p].role
        /\ users'[p].active = users[p].active
    BY <1>1, <2>4 DEF Keys
  <2> QED
    BY <1>1, <2>1, <2>5 DEF Admins
<1> QED
  BY <1>4, <1>5

\* A tenant loses its last active SUPERADMIN only to a request whose count of
\* colleagues was outdated by another commit (identity/services.py).
THEOREM AdminAlwaysRemains == AccountsSpec => AdminRemains
<1>1. AccountsSafe /\ [AccountsNext]_accountVars =>
        [\A t \in Tenant : Admins(t) # {} /\ Admins(t)' = {} =>
           \E c \in Registrar :
              clerk[c] # Unasked /\ clerk'[c] = Unasked /\ clerk[c].unseen # {}]_accountVars
  <2> SUFFICES ASSUME AccountsSafe, [AccountsNext]_accountVars,
                      NEW t \in Tenant, Admins(t) # {}, Admins(t)' = {}
               PROVE  \E c \in Registrar :
                         clerk[c] # Unasked /\ clerk'[c] = Unasked /\ clerk[c].unseen # {}
    OBVIOUS
  <2>1. PICK c \in Registrar : UserCommit(c)
    <3>1. users' # users
      BY DEF Admins, Users
    <3> QED
      BY <3>1 DEF AccountsNext, accountVars, Plan, CreateUserCheck, UpdateUserCheck, DeleteUserCheck
  <2>2. clerk[c] # Unasked /\ clerk'[c] = Unasked
    BY <2>1 DEF UserCommit
  <2> QED
    BY <2>1, <2>2, LastAdminStep
<1> QED
  BY <1>1, AccountsAlwaysSafe, PTL DEF AccountsSpec, AdminRemains

-----------------------------------------------------------------------------
(* Spaces.                                                                 *)

\* A request at work, by what it is about to do.
Edits ==
    {Unoccupied}
    \cup [op : {"relate"}, edge : Edge, unseen : SUBSET Edge]
    \cup [op : {"remove"}, space : Space, unseen : SUBSET Edge]
    \cup [op : {"rule"}, space : Space, new : Rule, found : BOOLEAN, unseen : SUBSET Edge]

EditsTypes ==
    /\ spaces \subseteq Space /\ edges \subseteq Edge /\ rule \in [Space -> Rule \cup {"none"}]
    /\ curator \in [Curator -> Edits]

\* What a request has not seen is there; and whatever was related to a space
\* since its deletion began has not been seen by the deletion.
Touching(E, s) == {e \in E : s \in {e[1], e[2]}}

EditsSound ==
    \A k \in Curator :
        /\ curator[k].unseen \subseteq edges
        /\ curator[k].op = "remove" => Touching(edges, curator[k].space) \subseteq curator[k].unseen

RulesHaveSpaces == \A s \in Space : rule[s] # "none" => s \in spaces

MissedPairs == \A pair \in missed : pair \subseteq edges /\ Cardinality(pair) = 2

SpacesSafe == EditsTypes /\ EditsSound /\ RulesHaveSpaces /\ MissedPairs /\ EdgesJoinSpaces

\* What a request on the catalogue has in hand is of the right kind, and stays
\* so when it misses more relationships.
LEMMA EditsFields ==
    ASSUME NEW w \in Edits
    PROVE  /\ w.unseen \subseteq Edge
           /\ w.op = "relate" => w.edge \in Edge
           /\ w.op = "remove" => w.space \in Space
           /\ w.op = "rule" => w.space \in Space /\ w.new \in Rule
           /\ \A new \in SUBSET Edge :
                 LET v == [w EXCEPT !.unseen = new]
                 IN  /\ v \in Edits \/ w = Unoccupied
                     /\ v.unseen = new /\ v.op = w.op
                     /\ w.op = "remove" => v.space = w.space
<1>1. CASE w = Unoccupied
  BY <1>1 DEF Unoccupied
<1>2. CASE w \in [op : {"relate"}, edge : Edge, unseen : SUBSET Edge]
  BY <1>2 DEF Edits
<1>3. CASE w \in [op : {"remove"}, space : Space, unseen : SUBSET Edge]
  BY <1>3 DEF Edits
<1>4. CASE w \in [op : {"rule"}, space : Space, new : Rule, found : BOOLEAN, unseen : SUBSET Edge]
  BY <1>4 DEF Edits
<1> QED
  BY <1>1, <1>2, <1>3, <1>4 DEF Edits

\* The requests that go on when one of them ends: they add what is new to what
\* they have not seen, and forget what is gone.
LEMMA AfterSound ==
    ASSUME EditsTypes, EditsSound, NEW k \in Curator,
           NEW new \in SUBSET Edge, NEW gone \in SUBSET Edge,
           edges' = (edges \cup new) \ gone, curator' = After(k, new, gone)
    PROVE  curator' \in [Curator -> Edits] /\ EditsSound' /\ curator'[k] = Unoccupied
<1>1. ASSUME NEW j \in Curator
      PROVE  /\ curator'[j] \in Edits
             /\ curator'[j].unseen \subseteq edges'
             /\ curator'[j].op = "remove" =>
                  Touching(edges', curator'[j].space) \subseteq curator'[j].unseen
  <2>1. CASE j = k \/ curator[j] = Unoccupied
    <3>1. curator'[j] = Unoccupied
      BY <2>1 DEF After
    <3> QED
      BY <3>1 DEF Unoccupied, Edits
  <2>2. CASE ~ (j = k \/ curator[j] = Unoccupied)
    <3> DEFINE rest == (curator[j].unseen \cup new) \ gone
    <3>1. curator'[j] = [curator[j] EXCEPT !.unseen = rest] /\ curator[j] \in Edits
      BY <2>2 DEF After, EditsTypes
    <3>2. rest \in SUBSET Edge /\ rest \subseteq edges'
      BY <3>1, EditsFields DEF EditsSound
    <3> HIDE DEF rest
    <3>3. /\ curator'[j] \in Edits /\ curator'[j].unseen = rest /\ curator'[j].op = curator[j].op
          /\ curator[j].op = "remove" => curator'[j].space = curator[j].space
      BY <2>2, <3>1, <3>2, EditsFields
    <3>4. curator[j].op = "remove" => Touching(edges', curator[j].space) \subseteq rest
      BY DEF EditsSound, Touching, rest
    <3> QED
      BY <3>2, <3>3, <3>4
  <2> QED
    BY <2>1, <2>2
<1>2. curator' = [j \in Curator |-> curator'[j]] /\ curator'[k] = Unoccupied
  BY DEF After
<1> QED
  BY <1>1, <1>2 DEF EditsSound

\* A request that begins has seen everything.
LEMMA BeginSound ==
    ASSUME EditsTypes, EditsSound, NEW k \in Curator, NEW w \in Edits,
           curator' = [curator EXCEPT ![k] = w], UNCHANGED edges,
           w.unseen = {}, w.op = "remove" => Touching(edges, w.space) = {}
    PROVE  curator' \in [Curator -> Edits] /\ EditsSound'
  BY DEF EditsTypes, EditsSound

\* No request on the catalogue breaks the invariant.
LEMMA SpacesStep == SpacesSafe /\ [SpacesNext]_spacesVars => SpacesSafe'
<1> SUFFICES ASSUME EditsTypes, EditsSound, RulesHaveSpaces, MissedPairs, EdgesJoinSpaces,
                    [SpacesNext]_spacesVars
             PROVE  SpacesSafe'
  BY DEF SpacesSafe
<1> USE SpacesAssumption
<1>0. \A k \in Curator : curator[k] \in Edits
  BY DEF EditsTypes
<1>1. ASSUME NEW k \in Curator, NEW p \in Space, NEW c \in Space, RelateCheck(k, p, c)
      PROVE  SpacesSafe'
  <2> DEFINE w == [op |-> "relate", edge |-> <<p, c>>, unseen |-> {}]
  <2>1. w \in Edits /\ w.unseen = {} /\ w.op = "relate"
    BY DEF Edits, Edge
  <2>2. curator' = [curator EXCEPT ![k] = w] /\ UNCHANGED <<spaces, edges, rule, missed>>
    BY <1>1 DEF RelateCheck
  <2> HIDE DEF w
  <2>3. curator' \in [Curator -> Edits] /\ EditsSound'
    BY <2>1, <2>2, BeginSound
  <2> QED
    BY <2>2, <2>3 DEF SpacesSafe, EditsTypes, RulesHaveSpaces, MissedPairs, EdgesJoinSpaces
<1>2. ASSUME NEW k \in Curator, RelateCommit(k) PROVE SpacesSafe'
  <2> DEFINE e == curator[k].edge
  <2>0. e \in Edge /\ UNCHANGED <<spaces, rule>> /\ curator[k].unseen \subseteq edges
    BY <1>0, <1>2, EditsFields DEF RelateCommit, EditsSound
  <2>1. CASE e \notin edges /\ {e[1], e[2]} \subseteq spaces
    <3>1. /\ edges' = (edges \cup {e}) \ {} /\ curator' = After(k, {e}, {})
          /\ missed' = missed \cup {{e, f} : f \in curator[k].unseen}
      BY <1>2, <2>1 DEF RelateCommit
    <3> HIDE DEF e
    <3>a. {e} \in SUBSET Edge /\ {} \in SUBSET Edge
      BY <2>0
    <3>2. curator' \in [Curator -> Edits] /\ EditsSound'
      BY <3>1, <3>a, AfterSound
    <3>3. ASSUME NEW f \in curator[k].unseen
          PROVE  {e, f} \subseteq edges' /\ Cardinality({e, f}) = 2
      <4>1. f \in edges /\ f # e
        BY <2>0, <2>1
      <4>2. IsFiniteSet({e}) /\ Cardinality({e}) = 1
        BY FS_Singleton
      <4>3. Cardinality({e} \cup {f}) = Cardinality({e}) + 1
        BY <4>1, <4>2, FS_AddElement
      <4>4. {e} \cup {f} = {e, f}
        OBVIOUS
      <4> QED
        <5>1. Cardinality({e, f}) = 2
          BY <4>2, <4>3, <4>4
        <5> QED
          BY <3>1, <4>1, <5>1
    <3>4. MissedPairs'
      BY <3>1, <3>3 DEF MissedPairs
    <3> QED
      BY <2>0, <2>1, <3>1, <3>2, <3>4 DEF SpacesSafe, EditsTypes, RulesHaveSpaces, EdgesJoinSpaces
  <2>2. CASE ~ (e \notin edges /\ {e[1], e[2]} \subseteq spaces)
    <3>1. edges' = (edges \cup {}) \ {} /\ curator' = After(k, {}, {}) /\ UNCHANGED <<edges, missed>>
      BY <1>2, <2>2 DEF RelateCommit
    <3>2. curator' \in [Curator -> Edits] /\ EditsSound'
      BY <3>1, AfterSound
    <3> QED
      BY <2>0, <3>1, <3>2 DEF SpacesSafe, EditsTypes, RulesHaveSpaces, MissedPairs, EdgesJoinSpaces
  <2> QED
    BY <2>1, <2>2
<1>3. ASSUME NEW e \in edges, Unrelate(e) PROVE SpacesSafe'
  <2>1. /\ edges' = edges \ {e} /\ missed' = MissedWithout({e}) /\ UNCHANGED <<spaces, rule>>
        /\ curator' = [k \in Curator |-> [curator[k] EXCEPT !.unseen = curator[k].unseen \ {e}]]
    BY <1>3 DEF Unrelate
  <2>2. ASSUME NEW k \in Curator
        PROVE  /\ curator'[k] \in Edits
               /\ curator'[k].unseen \subseteq edges'
               /\ curator'[k].op = "remove" =>
                    Touching(edges', curator'[k].space) \subseteq curator'[k].unseen
    <3> DEFINE rest == curator[k].unseen \ {e}
    <3>1. curator'[k] = [curator[k] EXCEPT !.unseen = rest]
      BY <2>1
    <3>2. rest \in SUBSET Edge /\ rest \subseteq edges'
      BY <1>0, <2>1, EditsFields DEF EditsSound
    <3>3. CASE curator[k] = Unoccupied
      <4>1. [Unoccupied EXCEPT !.unseen = {}] = Unoccupied /\ rest = {}
        BY <3>3 DEF Unoccupied
      <4> QED
        BY <3>1, <3>3, <4>1 DEF Unoccupied, Edits
    <3>4. CASE curator[k] # Unoccupied
      <4> HIDE DEF rest
      <4>1. /\ curator'[k] \in Edits /\ curator'[k].unseen = rest
            /\ curator'[k].op = curator[k].op
            /\ curator[k].op = "remove" => curator'[k].space = curator[k].space
        BY <1>0, <3>1, <3>2, <3>4, EditsFields
      <4>2. curator[k].op = "remove" => Touching(edges', curator[k].space) \subseteq rest
        BY <2>1 DEF EditsSound, Touching, rest
      <4> QED
        BY <3>2, <4>1, <4>2
    <3> QED
      BY <3>3, <3>4
  <2>3. curator' \in [Curator -> Edits] /\ EditsSound'
    BY <2>1, <2>2 DEF EditsSound
  <2>4. MissedPairs'
    BY <2>1 DEF MissedPairs, MissedWithout
  <2> QED
    BY <2>1, <2>3, <2>4 DEF SpacesSafe, EditsTypes, RulesHaveSpaces, EdgesJoinSpaces
<1>4. ASSUME NEW s \in Space, CreateSpace(s) PROVE SpacesSafe'
  BY <1>4
  DEF CreateSpace, SpacesSafe, EditsTypes, EditsSound, RulesHaveSpaces, MissedPairs,
      EdgesJoinSpaces
<1>5. ASSUME NEW k \in Curator, NEW s \in Space, DeleteSpaceLoad(k, s) PROVE SpacesSafe'
  <2> DEFINE w == [op |-> "remove", space |-> s, unseen |-> {}]
  <2>1. w \in Edits /\ w.unseen = {} /\ w.space = s
    BY DEF Edits
  <2>2. /\ curator' = [curator EXCEPT ![k] = w] /\ UNCHANGED <<spaces, edges, rule, missed>>
        /\ Touching(edges, s) = {}
    BY <1>5 DEF DeleteSpaceLoad, At, Touching
  <2> HIDE DEF w
  <2>3. curator' \in [Curator -> Edits] /\ EditsSound'
    BY <2>1, <2>2, BeginSound
  <2> QED
    BY <2>2, <2>3 DEF SpacesSafe, EditsTypes, RulesHaveSpaces, MissedPairs, EdgesJoinSpaces
<1>6. ASSUME NEW k \in Curator, DeleteSpaceCommit(k) PROVE SpacesSafe'
  <2> DEFINE s == curator[k].space
  <2>1. /\ s \in Space /\ spaces' = spaces \ {s} /\ rule' = [rule EXCEPT ![s] = "none"]
        /\ edges' = edges \ At(s) /\ missed' = MissedWithout(At(s))
        /\ curator' = After(k, {}, At(s))
    BY <1>0, <1>6, EditsFields DEF DeleteSpaceCommit
  <2>2. At(s) \in SUBSET Edge
    BY DEF At, EditsTypes
  <2>3. edges' = (edges \cup {}) \ At(s)
    BY <2>1
  <2>4. curator' \in [Curator -> Edits] /\ EditsSound'
    <3> HIDE DEF s
    <3> QED
      BY <2>1, <2>2, <2>3, AfterSound
  <2>5. EdgesJoinSpaces'
    BY <2>1 DEF EdgesJoinSpaces, At
  <2>6. RulesHaveSpaces' /\ rule' \in [Space -> Rule \cup {"none"}]
    BY <2>1 DEF RulesHaveSpaces, EditsTypes
  <2>7. MissedPairs'
    BY <2>1 DEF MissedPairs, MissedWithout
  <2> QED
    BY <2>1, <2>4, <2>5, <2>6, <2>7 DEF SpacesSafe, EditsTypes
<1>7. ASSUME NEW k \in Curator, NEW s \in Ruled, NEW r \in Rule, RuleLoad(k, s, r)
      PROVE  SpacesSafe'
  <2> DEFINE w == [op |-> "rule", space |-> s, new |-> r, found |-> rule[s] # "none",
                   unseen |-> {}]
  <2>1. w \in Edits /\ w.unseen = {} /\ w.op = "rule"
    BY DEF Edits
  <2>2. curator' = [curator EXCEPT ![k] = w] /\ UNCHANGED <<spaces, edges, rule, missed>>
    BY <1>7 DEF RuleLoad
  <2> HIDE DEF w
  <2>3. curator' \in [Curator -> Edits] /\ EditsSound'
    BY <2>1, <2>2, BeginSound
  <2> QED
    BY <2>2, <2>3 DEF SpacesSafe, EditsTypes, RulesHaveSpaces, MissedPairs, EdgesJoinSpaces
<1>8. ASSUME NEW k \in Curator, RuleCommit(k) PROVE SpacesSafe'
  <2> DEFINE s == curator[k].space
             lands == s \in spaces /\ (curator[k].found <=> rule[s] # "none")
  <2>1. /\ s \in Space /\ curator[k].new \in Rule
        /\ curator' = After(k, {}, {}) /\ UNCHANGED <<spaces, edges, missed>>
        /\ rule' = IF lands THEN [rule EXCEPT ![s] = curator[k].new] ELSE rule
    BY <1>0, <1>8, EditsFields DEF RuleCommit
  <2>2. curator' \in [Curator -> Edits] /\ EditsSound'
    <3>1. edges' = (edges \cup {}) \ {}
      BY <2>1
    <3> QED
      BY <2>1, <3>1, AfterSound
  <2>3. rule' \in [Space -> Rule \cup {"none"}]
    BY <2>1 DEF EditsTypes
  <2>4. RulesHaveSpaces'
    BY <2>1 DEF RulesHaveSpaces, EditsTypes
  <2> QED
    BY <2>1, <2>2, <2>3, <2>4 DEF SpacesSafe, EditsTypes, MissedPairs, EdgesJoinSpaces
<1>9. CASE UNCHANGED spacesVars
  BY <1>9
  DEF spacesVars, SpacesSafe, EditsTypes, EditsSound, RulesHaveSpaces, MissedPairs,
      EdgesJoinSpaces
<1> QED
  BY <1>1, <1>2, <1>3, <1>4, <1>5, <1>6, <1>7, <1>8, <1>9 DEF SpacesNext

\* The inductive invariant of the catalogue holds in every behaviour.
THEOREM SpacesAlwaysSafe == SpacesSpec => []SpacesSafe
<1>1. SpacesInit => SpacesSafe
  BY SpacesAssumption
  DEF SpacesInit, SpacesSafe, EditsTypes, EditsSound, RulesHaveSpaces, MissedPairs,
      EdgesJoinSpaces, Edits, Unoccupied, Touching
<1> QED
  BY <1>1, SpacesStep, PTL DEF SpacesSpec

\* However edits and deletions meet, every relationship joins two spaces that
\* are there and every rule belongs to one.
THEOREM EdgesAlwaysJoinSpaces == SpacesSpec => [](SpacesTypeOK /\ EdgesJoinSpaces)
<1>1. \A w \in Edits : w.op \in {"none", "relate", "remove", "rule"}
  BY DEF Edits, Unoccupied
<1>2. SpacesSafe => SpacesTypeOK /\ EdgesJoinSpaces
  BY <1>1 DEF SpacesSafe, EditsTypes, RulesHaveSpaces, MissedPairs, SpacesTypeOK
<1> QED
  BY <1>2, SpacesAlwaysSafe, PTL

-----------------------------------------------------------------------------
(* Spaces: the search for a way back from the child to the parent.         *)

\* What the search has seen, round by round.
LEMMA SearchRuns ==
    ASSUME edges \subseteq Edge, NEW c \in Space
    PROVE  \E f \in [Nat -> SUBSET Space] :
             /\ Reached(c) = f[Cardinality(Space)]
             /\ f[0] = {c}
             /\ \A n \in Nat : f[n + 1] = f[n] \cup Children(f[n])
<1> DEFINE D == SUBSET Space
           F == [S \in D |-> S \cup Children(S)]
           Seen(f, n) == IF n = 0 THEN {c} ELSE f[n - 1] \cup Children(f[n - 1])
           Runs(f) == f = [n \in Nat |-> Seen(f, n)]
<1>0. \A S \in D : Children(S) \in D
  BY DEF Children, Edge
<1>1. F \in [D -> D]
  BY <1>0
<1>2. PICK g \in [Nat -> D] : g[0] = {c} /\ \A n \in Nat : g[n + 1] = F[g[n]]
  <2>1. PICK d, h, r : d = D /\ h = F /\ r = {c}
    OBVIOUS
  <2>2. h \in [d -> d] /\ r \in d
    BY <1>1, <2>1
  <2>3. \E g \in [Nat -> d] : Iterates(g, h, r)
    BY <2>2, Iterated
  <2> HIDE DEF D, F
  <2> QED
    BY <2>1, <2>3 DEF Iterates
<1>3. Runs(g)
  <2>1. ASSUME NEW n \in Nat PROVE g[n] = Seen(g, n)
    <3>1. CASE n = 0
      BY <1>2, <3>1
    <3>2. CASE n # 0
      <4>1. n - 1 \in Nat /\ (n - 1) + 1 = n
        BY <3>2
      <4>2. g[n] = F[g[n - 1]] /\ g[n - 1] \in D
        BY <1>2, <4>1
      <4> QED
        BY <3>2, <4>2
    <3> QED
      BY <3>1, <3>2
  <2> HIDE DEF Seen
  <2> QED
    BY <2>1
<1> DEFINE f == CHOOSE f : Runs(f)
<1>4. Runs(f)
  <2> HIDE DEF Runs
  <2> QED
    BY <1>3
<1>5. Reached(c) = f[Cardinality(Space)]
  BY DEF Reached
<1> HIDE DEF f
<1>6. f[0] = {c}
  BY <1>4
<1>7. ASSUME NEW n \in Nat PROVE f[n + 1] = f[n] \cup Children(f[n])
  <2>1. f[n + 1] = Seen(f, n + 1)
    <3> HIDE DEF Seen
    <3> QED
      BY <1>4
  <2>2. n + 1 # 0 /\ (n + 1) - 1 = n
    OBVIOUS
  <2> QED
    BY <2>1, <2>2
<1>8. f \in [Nat -> D]
  <2> DEFINE U == {n \in Nat : f[n] \in D}
  <2>1. 0 \in U
    BY <1>6
  <2>2. ASSUME NEW n \in Nat, n \in U PROVE n + 1 \in U
    BY <1>0, <1>7, <2>2
  <2>3. Nat \subseteq U
    <3> HIDE DEF U
    <3> QED
      BY <2>1, <2>2, InductionOnNat
  <2>4. f = [n \in Nat |-> f[n]]
    BY <1>4
  <2> QED
    BY <2>3, <2>4
<1> QED
  BY <1>5, <1>6, <1>7, <1>8

\* A set of spaces that no edge leaves.
Closed(E, T) == \A e \in E : e[1] \in T => e[2] \in T

\* What was seen when the queue is empty is such a set: a round that adds
\* nothing is the last one, and no more rounds than spaces can add any.
LEMMA SearchEnds ==
    ASSUME edges \subseteq Edge, IsFiniteSet(Space), NEW c \in Space
    PROVE  Reached(c) \in SUBSET Space /\ c \in Reached(c) /\ Closed(edges, Reached(c))
<1> DEFINE N == Cardinality(Space)
<1>0. N \in Nat
  BY FS_CardinalityType
<1>1. PICK f \in [Nat -> SUBSET Space] :
             /\ Reached(c) = f[N]
             /\ f[0] = {c}
             /\ \A n \in Nat : f[n + 1] = f[n] \cup Children(f[n])
  BY SearchRuns
<1>2. \A n \in Nat : f[n] \subseteq Space /\ IsFiniteSet(f[n]) /\ Cardinality(f[n]) \in Nat
  BY FS_Subset, FS_CardinalityType
<1>3. ASSUME NEW n \in Nat PROVE f[n] = f[n + 1] <=> Closed(edges, f[n])
  <2>1. Closed(edges, f[n]) <=> Children(f[n]) \subseteq f[n]
    BY DEF Closed, Children
  <2> QED
    BY <1>1, <2>1
<1>4. \A n \in Nat : c \in f[n]
  <2> DEFINE U == {n \in Nat : c \in f[n]}
  <2>1. 0 \in U /\ \A n \in Nat : n \in U => n + 1 \in U
    BY <1>1
  <2>2. Nat \subseteq U
    <3> HIDE DEF U
    <3> QED
      BY <2>1, InductionOnNat
  <2> QED
    BY <2>2
<1>5. \A n \in Nat : Closed(edges, f[n]) \/ Cardinality(f[n]) > n
  <2> DEFINE U == {n \in Nat : Closed(edges, f[n]) \/ Cardinality(f[n]) > n}
  <2>1. 0 \in U
    <3>1. Cardinality(f[0]) = 1
      BY <1>1, FS_Singleton
    <3> QED
      BY <3>1
  <2>2. ASSUME NEW n \in Nat, n \in U PROVE n + 1 \in U
    <3>1. CASE Closed(edges, f[n])
      <4>1. f[n + 1] = f[n]
        BY <1>3, <3>1
      <4> QED
        BY <3>1, <4>1
    <3>2. CASE ~ Closed(edges, f[n])
      <4>1. f[n] # f[n + 1] /\ f[n] \subseteq f[n + 1] /\ Cardinality(f[n]) > n
        BY <1>1, <1>3, <2>2, <3>2
      <4>2. Cardinality(f[n]) < Cardinality(f[n + 1])
        BY <1>2, <4>1, FS_Subset
      <4>3. Cardinality(f[n]) \in Nat /\ Cardinality(f[n + 1]) \in Nat
        BY <1>2
      <4> QED
        BY <4>1, <4>2, <4>3
    <3> QED
      BY <3>1, <3>2
  <2>3. Nat \subseteq U
    <3> HIDE DEF U
    <3> QED
      BY <2>1, <2>2, InductionOnNat
  <2> QED
    BY <2>3
<1>6. Cardinality(f[N]) <= N
  BY <1>0, <1>2, FS_Subset
<1>7. Closed(edges, f[N])
  BY <1>0, <1>2, <1>5, <1>6
<1> QED
  BY <1>0, <1>1, <1>2, <1>4, <1>7

-----------------------------------------------------------------------------
(* Spaces: the cycles of the hierarchy.                                    *)

\* A request that is about to relate two spaces knows that no edges it has seen
\* lead from the child to the parent: it has a set of spaces with the child and
\* without the parent that none of them leaves.
NoWayBack ==
    \A k \in Curator : curator[k].op = "relate" =>
        \E T \in SUBSET Space :
            /\ curator[k].edge[2] \in T /\ curator[k].edge[1] \notin T
            /\ Closed(edges \ curator[k].unseen, T)

\* A request that goes on has seen no edge that it had not seen before.
LEMMA NoWayBackKept ==
    ASSUME NoWayBack,
           NEW j \in Curator, curator'[j].op = "relate",
           curator[j].op = "relate", curator'[j].edge = curator[j].edge,
           edges' \ curator'[j].unseen \subseteq edges \ curator[j].unseen
    PROVE  \E T \in SUBSET Space :
             /\ curator'[j].edge[2] \in T /\ curator'[j].edge[1] \notin T
             /\ Closed(edges' \ curator'[j].unseen, T)
<1>1. PICK T \in SUBSET Space :
             /\ curator[j].edge[2] \in T /\ curator[j].edge[1] \notin T
             /\ Closed(edges \ curator[j].unseen, T)
  BY DEF NoWayBack
<1>2. Closed(edges' \ curator'[j].unseen, T)
  BY <1>1 DEF Closed
<1> QED
  BY <1>1, <1>2

\* The requests that go on when one of them ends.
LEMMA NoWayBackAfter ==
    ASSUME NoWayBack, EditsTypes, NEW k \in Curator,
           NEW new, NEW gone,
           edges' = (edges \cup new) \ gone, curator' = After(k, new, gone)
    PROVE  NoWayBack'
<1> SUFFICES ASSUME NEW j \in Curator, curator'[j].op = "relate"
             PROVE  \E T \in SUBSET Space :
                      /\ curator'[j].edge[2] \in T /\ curator'[j].edge[1] \notin T
                      /\ Closed(edges' \ curator'[j].unseen, T)
  BY DEF NoWayBack
<1>1. j # k /\ curator[j] # Unoccupied
  BY DEF After, Unoccupied
<1>2. curator'[j] = [curator[j] EXCEPT !.unseen = (curator[j].unseen \cup new) \ gone]
  BY <1>1 DEF After
<1>3. curator[j] \in Edits
  BY DEF EditsTypes
<1>4. /\ curator'[j].unseen = (curator[j].unseen \cup new) \ gone
      /\ curator'[j].op = curator[j].op
      /\ curator[j].op = "relate" => curator'[j].edge = curator[j].edge
  BY <1>1, <1>2, <1>3 DEF Edits
<1>5. edges' \ curator'[j].unseen \subseteq edges \ curator[j].unseen
  BY <1>4
<1> QED
  BY <1>4, <1>5, NoWayBackKept

\* A request that begins another edit changes nothing for the others.
LEMMA NoWayBackBegin ==
    ASSUME NoWayBack, EditsTypes, NEW k \in Curator, NEW w,
           curator' = [curator EXCEPT ![k] = w], UNCHANGED edges, w.op # "relate"
    PROVE  NoWayBack'
<1>1. \A j \in Curator : j # k => curator'[j] = curator[j]
  BY DEF EditsTypes
<1>2. curator'[k] = w
  BY DEF EditsTypes
<1> QED
  BY <1>1, <1>2 DEF NoWayBack

\* Removing edges, and what is known of them, leaves no cycle unexplained.
LEMMA CyclesWithout ==
    ASSUME CyclesOnlyByOverlap, NEW gone, edges' = edges \ gone, missed' = MissedWithout(gone)
    PROVE  CyclesOnlyByOverlap'
<1> SUFFICES ASSUME NEW C \in (SUBSET (edges')) \ {{}},
                    \A e \in C : \E f \in C : f[1] = e[2]
             PROVE  \E e, f \in C : {e, f} \in missed'
  BY DEF CyclesOnlyByOverlap
<1>1. PICK e \in C, f \in C : {e, f} \in missed
  BY DEF CyclesOnlyByOverlap
<1>2. {e, f} \in missed'
  BY <1>1 DEF MissedWithout
<1> QED
  BY <1>2

\* A new edge closes a cycle only with an edge that its check did not see: the
\* edges of the cycle that start in the set without a way back would lead on
\* for ever without it.
LEMMA CyclesWith ==
    ASSUME CyclesOnlyByOverlap, NEW e, NEW unseen, NEW T,
           edges' = edges \cup {e}, missed' = missed \cup {{e, f} : f \in unseen},
           e[2] \in T, e[1] \notin T, Closed(edges \ unseen, T)
    PROVE  CyclesOnlyByOverlap'
<1> SUFFICES ASSUME NEW C \in (SUBSET (edges')) \ {{}},
                    \A g \in C : \E f \in C : f[1] = g[2]
             PROVE  \E g, f \in C : {g, f} \in missed'
  BY DEF CyclesOnlyByOverlap
<1>1. CASE e \notin C
  <2>1. C \in (SUBSET edges) \ {{}}
    BY <1>1
  <2>2. \E g, f \in C : {g, f} \in missed
    BY <2>1 DEF CyclesOnlyByOverlap
  <2> QED
    BY <2>2
<1>2. CASE e \in C /\ C \cap unseen # {}
  <2>1. PICK f \in C : f \in unseen
    BY <1>2
  <2>2. {e, f} \in missed'
    BY <2>1
  <2> QED
    BY <1>2, <2>1, <2>2
<1>3. CASE e \in C /\ C \cap unseen = {}
  <2> DEFINE D == {f \in C : f[1] \in T}
  <2>1. D \subseteq edges \ unseen
    BY <1>3
  <2>2. D # {}
    BY <1>3
  <2>3. ASSUME NEW g \in D PROVE \E f \in D : f[1] = g[2]
    <3>1. g[2] \in T
      BY <2>1 DEF Closed
    <3>2. PICK f \in C : f[1] = g[2]
      OBVIOUS
    <3> QED
      BY <3>1, <3>2
  <2>4. D \subseteq C /\ D \in (SUBSET edges) \ {{}}
    BY <2>1, <2>2
  <2> HIDE DEF D
  <2>5. \E g, f \in D : {g, f} \in missed
    BY <2>3, <2>4 DEF CyclesOnlyByOverlap
  <2> QED
    BY <2>4, <2>5
<1> QED
  BY <1>1, <1>2, <1>3

\* What the cycles need of the other requests is inductive.
CyclesSafe == SpacesSafe /\ NoWayBack /\ CyclesOnlyByOverlap

\* No request on the catalogue closes a cycle that its check could have seen.
LEMMA CyclesStep == CyclesSafe /\ [SpacesNext]_spacesVars => CyclesSafe'
<1> SUFFICES ASSUME SpacesSafe, NoWayBack, CyclesOnlyByOverlap, [SpacesNext]_spacesVars
             PROVE  NoWayBack' /\ CyclesOnlyByOverlap'
  BY SpacesStep DEF CyclesSafe
<1>0. EditsTypes /\ EditsSound /\ \A k \in Curator : curator[k] \in Edits
  BY DEF SpacesSafe, EditsTypes
<1>a. UNCHANGED <<edges, missed>> => CyclesOnlyByOverlap'
  BY DEF CyclesOnlyByOverlap
<1>1. ASSUME NEW k \in Curator, NEW p \in Space, NEW c \in Space, RelateCheck(k, p, c)
      PROVE  NoWayBack' /\ CyclesOnlyByOverlap'
  <2> DEFINE w == [op |-> "relate", edge |-> <<p, c>>, unseen |-> {}]
  <2>1. curator' = [curator EXCEPT ![k] = w] /\ UNCHANGED <<edges, missed>> /\ p \notin Reached(c)
    BY <1>1 DEF RelateCheck, WouldCycle
  <2>2. Reached(c) \in SUBSET Space /\ c \in Reached(c) /\ Closed(edges, Reached(c))
    BY <1>0, SearchEnds, SpacesAssumption DEF EditsTypes
  <2>3. ASSUME NEW j \in Curator, curator'[j].op = "relate"
        PROVE  \E T \in SUBSET Space :
                 /\ curator'[j].edge[2] \in T /\ curator'[j].edge[1] \notin T
                 /\ Closed(edges' \ curator'[j].unseen, T)
    <3>1. CASE j = k
      <4>1. curator'[j] = w
        BY <1>0, <2>1, <3>1 DEF EditsTypes
      <4>2. curator'[j].edge[2] = c /\ curator'[j].edge[1] = p /\ edges' \ curator'[j].unseen = edges
        BY <2>1, <4>1
      <4> QED
        BY <2>1, <2>2, <4>2
    <3>2. CASE j # k
      <4>1. curator'[j] = curator[j]
        BY <1>0, <2>1, <3>2 DEF EditsTypes
      <4> QED
        BY <2>1, <2>3, <4>1, NoWayBackKept
    <3> QED
      BY <3>1, <3>2
  <2> QED
    BY <1>a, <2>1, <2>3 DEF NoWayBack
<1>2. ASSUME NEW k \in Curator, RelateCommit(k) PROVE NoWayBack' /\ CyclesOnlyByOverlap'
  <2> DEFINE e == curator[k].edge
  <2>1. CASE e \notin edges /\ {e[1], e[2]} \subseteq spaces
    <3>1. /\ edges' = edges \cup {e} /\ curator' = After(k, {e}, {})
          /\ missed' = missed \cup {{e, f} : f \in curator[k].unseen}
      BY <1>2, <2>1 DEF RelateCommit
    <3>2. PICK T \in SUBSET Space :
             e[2] \in T /\ e[1] \notin T /\ Closed(edges \ curator[k].unseen, T)
      BY <1>2 DEF RelateCommit, NoWayBack
    <3> HIDE DEF e
    <3>3. CyclesOnlyByOverlap'
      BY <3>1, <3>2, CyclesWith
    <3>4. edges' = (edges \cup {e}) \ {}
      BY <3>1
    <3> QED
      BY <1>0, <3>1, <3>3, <3>4, NoWayBackAfter
  <2>2. CASE ~ (e \notin edges /\ {e[1], e[2]} \subseteq spaces)
    <3>1. edges' = (edges \cup {}) \ {} /\ curator' = After(k, {}, {}) /\ UNCHANGED <<edges, missed>>
      BY <1>2, <2>2 DEF RelateCommit
    <3> QED
      BY <1>0, <1>a, <3>1, NoWayBackAfter
  <2> QED
    BY <2>1, <2>2
<1>3. ASSUME NEW e \in edges, Unrelate(e) PROVE NoWayBack' /\ CyclesOnlyByOverlap'
  <2>1. /\ edges' = edges \ {e} /\ missed' = MissedWithout({e})
        /\ curator' = [k \in Curator |-> [curator[k] EXCEPT !.unseen = curator[k].unseen \ {e}]]
    BY <1>3 DEF Unrelate
  <2>2. ASSUME NEW j \in Curator, curator'[j].op = "relate"
        PROVE  \E T \in SUBSET Space :
                 /\ curator'[j].edge[2] \in T /\ curator'[j].edge[1] \notin T
                 /\ Closed(edges' \ curator'[j].unseen, T)
    <3>1. curator'[j] = [curator[j] EXCEPT !.unseen = curator[j].unseen \ {e}]
      BY <2>1
    <3>2. /\ curator'[j].unseen = curator[j].unseen \ {e} /\ curator'[j].op = curator[j].op
          /\ curator[j].op = "relate" => curator'[j].edge = curator[j].edge
      BY <1>0, <3>1 DEF Edits, Unoccupied
    <3>3. edges' \ curator'[j].unseen \subseteq edges \ curator[j].unseen
      BY <2>1, <3>2
    <3> QED
      BY <2>2, <3>2, <3>3, NoWayBackKept
  <2> QED
    BY <2>1, <2>2, CyclesWithout DEF NoWayBack
<1>4. ASSUME NEW s \in Space, CreateSpace(s) PROVE NoWayBack' /\ CyclesOnlyByOverlap'
  BY <1>4, <1>a DEF CreateSpace, NoWayBack
<1>5. ASSUME NEW k \in Curator, NEW s \in Space, DeleteSpaceLoad(k, s)
      PROVE  NoWayBack' /\ CyclesOnlyByOverlap'
  <2> DEFINE w == [op |-> "remove", space |-> s, unseen |-> {}]
  <2>1. curator' = [curator EXCEPT ![k] = w] /\ UNCHANGED <<edges, missed>> /\ w.op # "relate"
    BY <1>5 DEF DeleteSpaceLoad
  <2> HIDE DEF w
  <2> QED
    BY <1>0, <1>a, <2>1, NoWayBackBegin
<1>6. ASSUME NEW k \in Curator, DeleteSpaceCommit(k) PROVE NoWayBack' /\ CyclesOnlyByOverlap'
  <2> DEFINE gone == At(curator[k].space)
  <2>1. edges' = edges \ gone /\ missed' = MissedWithout(gone) /\ curator' = After(k, {}, gone)
    BY <1>6 DEF DeleteSpaceCommit
  <2> HIDE DEF gone
  <2>2. edges' = (edges \cup {}) \ gone
    BY <2>1
  <2> QED
    BY <1>0, <2>1, <2>2, NoWayBackAfter, CyclesWithout
<1>7. ASSUME NEW k \in Curator, NEW s \in Ruled, NEW r \in Rule, RuleLoad(k, s, r)
      PROVE  NoWayBack' /\ CyclesOnlyByOverlap'
  <2> DEFINE w == [op |-> "rule", space |-> s, new |-> r, found |-> rule[s] # "none",
                   unseen |-> {}]
  <2>1. curator' = [curator EXCEPT ![k] = w] /\ UNCHANGED <<edges, missed>> /\ w.op # "relate"
    BY <1>7 DEF RuleLoad
  <2> HIDE DEF w
  <2> QED
    BY <1>0, <1>a, <2>1, NoWayBackBegin
<1>8. ASSUME NEW k \in Curator, RuleCommit(k) PROVE NoWayBack' /\ CyclesOnlyByOverlap'
  <2>1. edges' = (edges \cup {}) \ {} /\ curator' = After(k, {}, {}) /\ UNCHANGED <<edges, missed>>
    BY <1>8 DEF RuleCommit
  <2> QED
    BY <1>0, <1>a, <2>1, NoWayBackAfter
<1>9. CASE UNCHANGED spacesVars
  BY <1>9, <1>a DEF spacesVars, NoWayBack
<1> QED
  BY <1>1, <1>2, <1>3, <1>4, <1>5, <1>6, <1>7, <1>8, <1>9 DEF SpacesNext

\* The catalogue stays in order, however edits meet: the hierarchy has a cycle
\* only where two relationships were checked without seeing each other, every
\* relationship joins two spaces that are there, and every rule belongs to one.
THEOREM CatalogueAlwaysInOrder == SpacesSpec => []SpacesInv
<1>1. SpacesInit => NoWayBack /\ CyclesOnlyByOverlap
  BY DEF SpacesInit, NoWayBack, CyclesOnlyByOverlap, Unoccupied
<1>2. SpacesSpec => [](NoWayBack /\ CyclesOnlyByOverlap)
  <2>1. SpacesSafe /\ (NoWayBack /\ CyclesOnlyByOverlap) /\ [SpacesNext]_spacesVars
          => (NoWayBack /\ CyclesOnlyByOverlap)'
    BY CyclesStep DEF CyclesSafe
  <2> QED
    BY <1>1, <2>1, SpacesAlwaysSafe, PTL DEF SpacesSpec
<1> QED
  BY <1>2, EdgesAlwaysJoinSpaces, PTL DEF SpacesInv

\* A deletion takes no relationship that was there when it began.
THEOREM RelatedAlwaysStay == SpacesSpec => RelatedStay
<1>1. SpacesSafe /\ [SpacesNext]_spacesVars =>
        [\A k \in Curator : curator[k].op = "remove" /\ curator'[k] = Unoccupied =>
            At(curator[k].space) \subseteq curator[k].unseen]_spacesVars
  BY DEF SpacesSafe, EditsSound, At, Touching
<1> QED
  BY <1>1, SpacesAlwaysSafe, PTL DEF SpacesSpec, RelatedStay

-----------------------------------------------------------------------------
(* Discount codes: the amounts.                                            *)

\* A rounded quotient is a number, and no less than nothing when its dividend is.
LEMMA Rounded ==
    ASSUME NEW a \in Int, NEW b \in Nat \ {0}
    PROVE  RoundDiv(a, b) \in Int /\ (a >= 0 => RoundDiv(a, b) >= 0)
  BY DEF RoundDiv

\* The reservations of an event bear its discount to the cent.
LEMMA SharesAdd ==
    ASSUME NEW amount \in Nat, NEW n \in Nat \ {0}
    PROVE  Total(Shares(amount, n)) = amount
<1> DEFINE x == RoundDiv(amount, n)
           f == Shares(amount, n)
<1>1. x \in Int
  BY Rounded
<1>2. /\ \A i \in 1..(n - 1) : f[i] = x
      /\ f[n] = amount - (n - 1) * x
      /\ DOMAIN f = 1..n
  BY DEF Shares
<1>3. Total(f) = SumFunctionOnSet(f, 1..n)
  BY <1>2 DEF Total, SumFunction
<1> HIDE DEF x, f
<1>4. (n - 1) * x \in Int
  BY <1>1
<1>5. \A i \in 1..n : f[i] \in Int
  BY <1>1, <1>2, <1>4
<1>6. IsFiniteSet(1..n) /\ (1..n) \ {n} = 1..(n - 1) /\ n \in 1..n
  BY FS_Interval
<1>7. SumFunctionOnSet(f, 1..n) = f[n] + SumFunctionOnSet(f, 1..(n - 1))
  BY <1>5, <1>6, SumWithout
<1>8. SumFunctionOnSet(f, 1..(n - 1)) = (n - 1) * x
  BY <1>1, <1>2, SumOfEqual
<1>9. SumFunctionOnSet(f, 1..n) = amount
  BY <1>2, <1>4, <1>7, <1>8
<1> QED
  BY <1>3, <1>9 DEF f

\* What a code takes off is between nothing and all of it.
LEMMA AmountOf ==
    ASSUME NEW row \in CodeRow, NEW subtotal \in Nat
    PROVE  DiscountAmount(row, subtotal) \in 0..subtotal
<1> DEFINE percent == IF row.value < 10000 THEN row.value ELSE 10000
           amount == IF row.kind = "PERCENT" THEN RoundDiv(subtotal * percent, 10000)
                     ELSE row.value
<1>1. row.value \in Nat
  BY DEF CodeRow
<1>2. percent \in Nat
  BY <1>1
<1>3. subtotal * percent \in Nat
  BY <1>2
<1>4. RoundDiv(subtotal * percent, 10000) \in Nat
  <2>1. \A a \in Nat : RoundDiv(a, 10000) \in Int /\ RoundDiv(a, 10000) >= 0
    BY Rounded
  <2> HIDE DEF percent
  <2> QED
    BY <1>3, <2>1
<1>5. amount \in Nat
  <2> HIDE DEF percent
  <2> QED
    BY <1>1, <1>4
<1>6. DiscountAmount(row, subtotal) = IF amount < subtotal THEN amount ELSE subtotal
  BY DEF DiscountAmount
<1> HIDE DEF amount
<1> QED
  BY <1>5, <1>6

-----------------------------------------------------------------------------
(* Discount codes: the inductive invariant.                                *)

\* What a request has decided, once the code was accepted.
Deals ==
    [phase : {"priced", "booked"}, loaded : CodeRow, known : SUBSET Booking, subtotal : Nat,
     amount : Nat, shares : {Shares(a, n) : a \in Nat, n \in EventSizes}]

DiscountsTypes ==
    /\ codes \in [Code -> CodeRow \cup {NoCode}]
    /\ booking \in [Booking -> {[phase |-> "new"], [phase |-> "refused"]} \cup Deals]

HasDeal(q) == booking[q].phase \in {"priced", "booked"}

\* Bookings that follow one another.
Serial(S) == \A q, r \in S : q # r => ~ Overlapped(q, r)

\* A request knows usages that were registered before its own.  If these
\* followed one another, the row it loaded counts them all.
DealSafe(q) ==
    /\ codes[BookedCode[q]] # NoCode
    /\ booking[q].amount \in 0..booking[q].subtotal
    /\ Total(booking[q].shares) = booking[q].amount
    /\ booking[q].known \subseteq Uses(BookedCode[q]) \ {q}
    /\ booking[q].loaded.used <= Cardinality(booking[q].known)
    /\ Serial(booking[q].known) => booking[q].loaded.used = Cardinality(booking[q].known)
    /\ booking[q].loaded.limit # Unlimited => booking[q].loaded.used < booking[q].loaded.limit
    /\ booking[q].loaded.single => \A r \in booking[q].known : BookedBy[r] # BookedBy[q]

DealsSafe == \A q \in Booking : HasDeal(q) => DealSafe(q)

DiscountsSafe == DiscountsTypes /\ DealsSafe /\ CounterNeverAhead /\ SerialUsesKeepLimits

\* A deal and its parts.
LEMMA DealFields ==
    ASSUME DiscountsTypes, NEW q \in Booking
    PROVE  /\ HasDeal(q) => /\ booking[q] \in Deals /\ booking[q].loaded \in CodeRow
                            /\ booking[q].loaded.used \in Nat
                            /\ booking[q].known \in SUBSET Booking
           /\ booking[q].phase \in {"new", "refused", "priced", "booked"}
           /\ BookedCode[q] \in Code
  BY DiscountsAssumption DEF DiscountsTypes, HasDeal, Deals, CodeRow

\* The usages of a code are finitely many requests.
LEMMA UsesFinite ==
    ASSUME NEW S \in SUBSET Booking
    PROVE  /\ IsFiniteSet(S) /\ Cardinality(S) \in Nat
           /\ \A q \in Booking \ S : Cardinality(S \cup {q}) = Cardinality(S) + 1
  BY DiscountsAssumption, FS_Subset, FS_CardinalityType, FS_AddElement

\* A deal stays sound when usages are added and codes are edited.
LEMMA DealKept ==
    ASSUME NEW q \in Booking, HasDeal(q), DealSafe(q),
           booking'[q].loaded = booking[q].loaded, booking'[q].known = booking[q].known,
           booking'[q].subtotal = booking[q].subtotal,
           booking'[q].amount = booking[q].amount, booking'[q].shares = booking[q].shares,
           codes'[BookedCode[q]] # NoCode,
           Uses(BookedCode[q]) \subseteq Uses(BookedCode[q])',
           \A r \in Uses(BookedCode[q]) : booking'[r].known = booking[r].known
    PROVE  DealSafe(q)'
<1>1. Serial(booking[q].known)' => Serial(booking[q].known)
  BY DEF DealSafe, Serial, Overlapped
<1> QED
  BY <1>1 DEF DealSafe, Serial, Overlapped


-----------------------------------------------------------------------------
(* Discount codes: the steps.                                              *)

\* Requests that begin or fail register no usage.
LEMMA RequestMoves ==
    ASSUME DiscountsSafe, NEW q \in Booking, NEW w,
           w \in {[phase |-> "refused"]} \cup Deals, w.phase # "booked",
           booking[q].phase # "booked",
           booking' = [booking EXCEPT ![q] = w], UNCHANGED codes,
           w.phase = "priced" => DealSafe(q)'
    PROVE  DiscountsSafe'
<1>1. DiscountsTypes' /\ booking'[q] = w /\ \A r \in Booking \ {q} : booking'[r] = booking[r]
  BY DEF DiscountsSafe, DiscountsTypes
<1>2. \A c \in Code : Uses(c)' = Uses(c)
  BY <1>1 DEF Uses
<1>3. DealsSafe'
  <2> SUFFICES ASSUME NEW r \in Booking, HasDeal(r)' PROVE DealSafe(r)'
    BY DEF DealsSafe
  <2>1. CASE r = q
    BY <1>1, <2>1 DEF HasDeal
  <2>2. CASE r # q
    <3>1. booking'[r] = booking[r] /\ HasDeal(r) /\ DealSafe(r)
      BY <1>1, <2>2 DEF HasDeal, DiscountsSafe, DealsSafe
    <3>2. \A u \in Uses(BookedCode[r]) : u # q
      BY DEF Uses
    <3>3. BookedCode[r] \in Code
      BY DiscountsAssumption
    <3>4. \A u \in Uses(BookedCode[r]) : booking'[u].known = booking[u].known
      BY <1>1, <3>2 DEF Uses
    <3> QED
      BY <1>2, <3>1, <3>3, <3>4, DealKept DEF DealSafe
  <2> QED
    BY <2>1, <2>2
<1>4. CounterNeverAhead'
  BY <1>2 DEF DiscountsSafe, CounterNeverAhead
<1>5. SerialUsesKeepLimits'
  <2> SUFFICES ASSUME NEW c \in Code,
                      \A a, b \in Uses(c)' : a # b => ~ Overlapped(a, b)'
               PROVE  /\ codes'[c] # NoCode => codes'[c].used = Cardinality(Uses(c)')
                      /\ Uses(c)' # {} =>
                            \E u \in Uses(c)' :
                               \/ booking'[u].loaded.limit = Unlimited
                               \/ Cardinality(Uses(c)') <= booking'[u].loaded.limit
                      /\ \A u \in Uses(c)' : booking'[u].loaded.single =>
                            \A r \in booking'[u].known : BookedBy[r] # BookedBy[u]
    BY DEF SerialUsesKeepLimits
  <2>1. \A u \in Uses(c) : booking'[u] = booking[u]
    BY <1>1 DEF Uses
  <2>2. \A a, b \in Uses(c) : a # b => ~ Overlapped(a, b)
    BY <1>2, <2>1 DEF Overlapped
  <2>3. /\ codes[c] # NoCode => codes[c].used = Cardinality(Uses(c))
        /\ Uses(c) # {} =>
              \E u \in Uses(c) :
                 \/ booking[u].loaded.limit = Unlimited
                 \/ Cardinality(Uses(c)) <= booking[u].loaded.limit
        /\ \A u \in Uses(c) : booking[u].loaded.single =>
              \A r \in booking[u].known : BookedBy[r] # BookedBy[u]
    BY <2>2 DEF DiscountsSafe, SerialUsesKeepLimits
  <2> QED
    BY <1>2, <2>1, <2>3
<1> QED
  BY <1>1, <1>3, <1>4, <1>5 DEF DiscountsSafe

\* Nor does the administration, and it leaves the counters alone.
LEMMA CodesEdited ==
    ASSUME DiscountsSafe, UNCHANGED booking, codes' \in [Code -> CodeRow \cup {NoCode}],
           \A c \in Code : codes[c] # NoCode =>
               codes'[c] # NoCode /\ codes'[c].used = codes[c].used,
           \A c \in Code : codes[c] = NoCode /\ codes'[c] # NoCode => codes'[c].used = 0
    PROVE  DiscountsSafe'
<1>1. \A c : Uses(c)' = Uses(c)
  BY DEF Uses
<1>2. DealsSafe'
  <2> SUFFICES ASSUME NEW r \in Booking, HasDeal(r) PROVE DealSafe(r)'
    BY DEF DealsSafe, HasDeal
  <2>1. DealSafe(r) /\ BookedCode[r] \in Code
    BY DiscountsAssumption DEF DiscountsSafe, DealsSafe
  <2>2. codes'[BookedCode[r]] # NoCode
    BY <2>1 DEF DealSafe
  <2> QED
    BY <1>1, <2>1, <2>2, DealKept
<1>3. ASSUME NEW c \in Code, codes[c] = NoCode, codes'[c] # NoCode
      PROVE  codes'[c].used = 0 /\ Uses(c) = {} /\ Cardinality(Uses(c)) = 0
  <2>1. Uses(c) = {}
    BY <1>3 DEF Uses, DiscountsSafe, DealsSafe, DealSafe, HasDeal
  <2> QED
    BY <1>3, <2>1, FS_EmptySet
<1>4. CounterNeverAhead'
  BY <1>1, <1>3 DEF DiscountsSafe, CounterNeverAhead
<1>5. SerialUsesKeepLimits'
  <2> SUFFICES ASSUME NEW c \in Code, \A a, b \in Uses(c) : a # b => ~ Overlapped(a, b)
               PROVE  /\ codes'[c] # NoCode => codes'[c].used = Cardinality(Uses(c))
                      /\ Uses(c) # {} =>
                            \E u \in Uses(c) :
                               \/ booking[u].loaded.limit = Unlimited
                               \/ Cardinality(Uses(c)) <= booking[u].loaded.limit
                      /\ \A u \in Uses(c) : booking[u].loaded.single =>
                            \A r \in booking[u].known : BookedBy[r] # BookedBy[u]
    BY <1>1 DEF SerialUsesKeepLimits, Overlapped
  <2>1. /\ codes[c] # NoCode => codes[c].used = Cardinality(Uses(c))
        /\ Uses(c) # {} =>
              \E u \in Uses(c) :
                 \/ booking[u].loaded.limit = Unlimited
                 \/ Cardinality(Uses(c)) <= booking[u].loaded.limit
        /\ \A u \in Uses(c) : booking[u].loaded.single =>
              \A r \in booking[u].known : BookedBy[r] # BookedBy[u]
    BY DEF DiscountsSafe, SerialUsesKeepLimits
  <2>2. codes'[c] # NoCode => codes'[c].used = Cardinality(Uses(c))
    BY <1>3, <2>1
  <2> QED
    BY <2>1, <2>2
<1> QED
  BY <1>2, <1>4, <1>5 DEF DiscountsSafe, DiscountsTypes

\* The usages that a request registers beside its own.  If they all followed one
\* another, it knew every one of them: none of them can know a request that
\* had registered nothing.
LEMMA SerialKnown ==
    ASSUME DiscountsTypes, DealsSafe, NEW q \in Booking, booking[q].phase = "priced",
           \A r \in Uses(BookedCode[q]) : ~ Overlapped(q, r)
    PROVE  booking[q].known = Uses(BookedCode[q])
<1>1. q \notin Uses(BookedCode[q])
  BY DEF Uses
<1>2. booking[q].known \subseteq Uses(BookedCode[q])
  BY DEF DealsSafe, DealSafe, HasDeal
<1>3. ASSUME NEW r \in Uses(BookedCode[q]) PROVE r \in booking[q].known
  <2>1. r \in Booking /\ HasDeal(r) /\ BookedCode[r] = BookedCode[q]
    BY DEF Uses, HasDeal
  <2>2. booking[r].known \subseteq Uses(BookedCode[q])
    BY <2>1 DEF DealsSafe, DealSafe
  <2> QED
    BY <1>1, <2>2 DEF Overlapped
<1> QED
  BY <1>2, <1>3


\* What the commit of a booking writes: its usage, and the counter it loaded
\* plus one.
LEMMA RegisterWrites ==
    ASSUME DiscountsTypes, NEW q \in Booking, RegisterUsage(q)
    PROVE  LET c == BookedCode[q] IN
           /\ c \in Code /\ HasDeal(q)
           /\ booking' \in [Booking -> {[phase |-> "new"], [phase |-> "refused"]} \cup Deals]
           /\ \A r \in Booking \ {q} : booking'[r] = booking[r]
           /\ booking'[q].phase = "booked" /\ booking'[q].loaded = booking[q].loaded
           /\ booking'[q].known = booking[q].known /\ booking'[q].subtotal = booking[q].subtotal
           /\ booking'[q].amount = booking[q].amount /\ booking'[q].shares = booking[q].shares
           /\ q \notin Uses(c) /\ Uses(c)' = Uses(c) \cup {q}
           /\ \A d \in Code \ {c} : Uses(d)' = Uses(d)
<1>1. booking[q].phase = "priced" /\ booking' = [booking EXCEPT ![q].phase = "booked"]
  BY DEF RegisterUsage
<1>2. booking[q] \in Deals /\ BookedCode[q] \in Code
  BY <1>1, DealFields DEF HasDeal
<1>3. booking'[q] = [booking[q] EXCEPT !.phase = "booked"]
  BY <1>1 DEF DiscountsTypes
<1>4. /\ booking'[q] \in Deals
      /\ booking'[q].phase = "booked" /\ booking'[q].loaded = booking[q].loaded
      /\ booking'[q].known = booking[q].known /\ booking'[q].subtotal = booking[q].subtotal
      /\ booking'[q].amount = booking[q].amount /\ booking'[q].shares = booking[q].shares
  BY <1>2, <1>3 DEF Deals
<1>5. \A r \in Booking \ {q} : booking'[r] = booking[r]
  BY <1>1 DEF DiscountsTypes
<1>6. booking' \in [Booking -> {[phase |-> "new"], [phase |-> "refused"]} \cup Deals]
  BY <1>1, <1>4, <1>5 DEF DiscountsTypes
<1>7. \A r \in Booking : booking'[r].phase = "booked" <=> r = q \/ booking[r].phase = "booked"
  BY <1>4, <1>5
<1>8. /\ q \notin Uses(BookedCode[q]) /\ Uses(BookedCode[q])' = Uses(BookedCode[q]) \cup {q}
      /\ \A d \in Code \ {BookedCode[q]} : Uses(d)' = Uses(d)
  BY <1>1, <1>7 DEF Uses
<1> QED
  BY <1>1, <1>2, <1>4, <1>5, <1>6, <1>8 DEF HasDeal

\* Registering a usage breaks nothing.
LEMMA RegisterStep ==
    ASSUME DiscountsSafe, NEW q \in Booking, RegisterUsage(q)
    PROVE  DiscountsSafe'
<1> DEFINE c == BookedCode[q]
           row == booking[q].loaded
<1>0. DiscountsTypes /\ DealsSafe /\ CounterNeverAhead /\ SerialUsesKeepLimits
  BY DEF DiscountsSafe
<1>1. /\ c \in Code /\ HasDeal(q)
      /\ booking' \in [Booking -> {[phase |-> "new"], [phase |-> "refused"]} \cup Deals]
      /\ \A r \in Booking \ {q} : booking'[r] = booking[r]
      /\ booking'[q].phase = "booked" /\ booking'[q].loaded = row
      /\ booking'[q].known = booking[q].known /\ booking'[q].subtotal = booking[q].subtotal
      /\ booking'[q].amount = booking[q].amount /\ booking'[q].shares = booking[q].shares
      /\ q \notin Uses(c) /\ Uses(c)' = Uses(c) \cup {q}
      /\ \A d \in Code \ {c} : Uses(d)' = Uses(d)
  BY <1>0, RegisterWrites
<1>2. DealSafe(q) /\ booking[q].phase = "priced"
  BY <1>0, <1>1 DEF DealsSafe, RegisterUsage
<1>3. row \in CodeRow /\ row.used \in Nat
  BY <1>0, <1>1, DealFields
<1>4. codes[c] \in CodeRow /\ codes' = [codes EXCEPT ![c] = [codes[c] EXCEPT !.used = row.used + 1]]
  BY <1>0, <1>1, <1>2 DEF RegisterUsage, DealSafe, DiscountsTypes
<1>5. codes'[c] \in CodeRow /\ codes'[c].used = row.used + 1
  <2>1. codes'[c] = [codes[c] EXCEPT !.used = row.used + 1]
    BY <1>0, <1>1, <1>4 DEF DiscountsTypes
  <2>2. row.used + 1 \in Nat
    BY <1>3
  <2> HIDE DEF row
  <2> QED
    BY <1>4, <2>1, <2>2 DEF CodeRow
<1>6. codes' \in [Code -> CodeRow \cup {NoCode}] /\ \A d \in Code \ {c} : codes'[d] = codes[d]
  BY <1>0, <1>1, <1>4, <1>5 DEF DiscountsTypes
<1>7. codes'[c] # NoCode
  BY <1>5, CodesAssumption
<1> HIDE DEF c, row
<1>8. DiscountsTypes'
  BY <1>1, <1>6 DEF DiscountsTypes
<1>9. \A r \in Booking : booking'[r].known = booking[r].known /\ booking'[r].loaded = booking[r].loaded
  BY <1>1 DEF row
<1>10. DealsSafe'
  <2> SUFFICES ASSUME NEW r \in Booking, HasDeal(r)' PROVE DealSafe(r)'
    BY DEF DealsSafe
  <2>1. HasDeal(r) /\ DealSafe(r) /\ BookedCode[r] \in Code
    BY <1>0, <1>1, DiscountsAssumption DEF HasDeal, DealsSafe
  <2>2. /\ booking'[r].loaded = booking[r].loaded /\ booking'[r].known = booking[r].known
        /\ booking'[r].subtotal = booking[r].subtotal
        /\ booking'[r].amount = booking[r].amount /\ booking'[r].shares = booking[r].shares
    BY <1>1 DEF row
  <2>3. codes'[BookedCode[r]] # NoCode
    BY <1>6, <1>7, <2>1 DEF DealSafe
  <2>4. Uses(BookedCode[r]) \subseteq Uses(BookedCode[r])'
    BY <1>1, <2>1
  <2>5. \A u \in Uses(BookedCode[r]) : booking'[u].known = booking[u].known
    BY <1>9 DEF Uses
  <2> QED
    BY <2>1, <2>2, <2>3, <2>4, <2>5, DealKept
<1>11. /\ IsFiniteSet(Uses(c)) /\ Cardinality(Uses(c)) \in Nat
       /\ Cardinality(Uses(c)') = Cardinality(Uses(c)) + 1
  <2>1. Uses(c) \in SUBSET Booking /\ q \in Booking \ Uses(c)
    BY <1>1 DEF Uses
  <2> QED
    BY <1>1, <2>1, UsesFinite
<1>12. booking[q].known \subseteq Uses(c) /\ row.used <= Cardinality(booking[q].known)
  BY <1>2 DEF DealSafe, c, row
<1>13. CounterNeverAhead'
  <2>1. Cardinality(booking[q].known) <= Cardinality(Uses(c)) /\ Cardinality(booking[q].known) \in Nat
    BY <1>11, <1>12, FS_Subset, FS_CardinalityType
  <2>2. codes'[c].used <= Cardinality(Uses(c)')
    BY <1>3, <1>5, <1>11, <1>12, <2>1
  <2> QED
    BY <1>0, <1>1, <1>6, <2>2 DEF CounterNeverAhead
<1>14. ASSUME NEW d \in Code, \A a, b \in Uses(d)' : a # b => ~ Overlapped(a, b)'
       PROVE  /\ codes'[d] # NoCode => codes'[d].used = Cardinality(Uses(d)')
              /\ Uses(d)' # {} =>
                    \E u \in Uses(d)' :
                       \/ booking'[u].loaded.limit = Unlimited
                       \/ Cardinality(Uses(d)') <= booking'[u].loaded.limit
              /\ \A u \in Uses(d)' : booking'[u].loaded.single =>
                    \A r \in booking'[u].known : BookedBy[r] # BookedBy[u]
  <2>1. Uses(d) \subseteq Uses(d)' /\ Uses(d)' \subseteq Booking
    BY <1>1 DEF Uses
  <2>2. \A a, b \in Uses(d) : a # b => ~ Overlapped(a, b)
    BY <1>9, <1>14, <2>1 DEF Overlapped
  <2>3. /\ codes[d] # NoCode => codes[d].used = Cardinality(Uses(d))
        /\ Uses(d) # {} =>
              \E u \in Uses(d) :
                 \/ booking[u].loaded.limit = Unlimited
                 \/ Cardinality(Uses(d)) <= booking[u].loaded.limit
        /\ \A u \in Uses(d) : booking[u].loaded.single =>
              \A r \in booking[u].known : BookedBy[r] # BookedBy[u]
    BY <1>0, <2>2 DEF SerialUsesKeepLimits
  <2>4. CASE d # c
    <3>1. Uses(d)' = Uses(d) /\ codes'[d] = codes[d]
      BY <1>1, <1>6, <2>4
    <3> QED
      BY <1>9, <2>1, <2>3, <3>1
  <2>5. CASE d = c
    <3>1. \A r \in Uses(c) : ~ Overlapped(q, r)
      <4>1. \A r \in Uses(c) : r # q /\ r \in Uses(d)' /\ q \in Uses(d)'
        BY <1>1, <2>5
      <4> QED
        BY <1>9, <1>14, <2>1, <4>1 DEF Overlapped
    <3>2. booking[q].known = Uses(c)
      BY <1>0, <1>2, <3>1, SerialKnown DEF c
    <3>3. row.used = Cardinality(Uses(c))
      BY <1>2, <2>2, <2>5, <3>2 DEF DealSafe, Serial, row
    <3>4. codes'[d].used = Cardinality(Uses(d)')
      BY <1>5, <1>11, <2>5, <3>3
    <3>5. /\ q \in Uses(d)'
          /\ booking'[q].loaded.limit = Unlimited
               \/ Cardinality(Uses(d)') <= booking'[q].loaded.limit
      <4>1. row.limit # Unlimited => row.limit \in Nat /\ row.used < row.limit
        BY <1>2, <1>3 DEF DealSafe, row, CodeRow
      <4> QED
        BY <1>1, <1>3, <1>11, <2>5, <3>3, <4>1
    <3>6. booking'[q].loaded.single => \A r \in booking'[q].known : BookedBy[r] # BookedBy[q]
      BY <1>1, <1>2 DEF DealSafe, row
    <3>7. \A u \in Uses(d)' : booking'[u].loaded.single =>
             \A r \in booking'[u].known : BookedBy[r] # BookedBy[u]
      BY <1>1, <1>9, <2>1, <2>3, <2>5, <3>6
    <3> QED
      BY <3>4, <3>5, <3>7
  <2> QED
    BY <2>4, <2>5
<1>15. SerialUsesKeepLimits'
  BY <1>14 DEF SerialUsesKeepLimits
<1> QED
  BY <1>8, <1>10, <1>13, <1>15 DEF DiscountsSafe


\* Some fields of a code, changed, leave a code and its counter.
LEMMA ChangedCode ==
    ASSUME NEW row \in CodeRow, NEW change \in CodeChanges
    PROVE  LET new == [f \in DOMAIN row |-> IF f \in DOMAIN change THEN change[f] ELSE row[f]]
           IN  new \in CodeRow /\ new.used = row.used
<1> DEFINE new == [f \in DOMAIN row |-> IF f \in DOMAIN change THEN change[f] ELSE row[f]]
<1>1. /\ DOMAIN change \subseteq {"value", "minimum", "limit", "single", "active", "expired"}
      /\ "value" \in DOMAIN change => change["value"] \in Nat
      /\ "minimum" \in DOMAIN change => change["minimum"] \in Nat
      /\ "limit" \in DOMAIN change => change["limit"] \in Nat \cup {Unlimited}
      /\ "single" \in DOMAIN change => change["single"] \in BOOLEAN
      /\ "active" \in DOMAIN change => change["active"] \in BOOLEAN
      /\ "expired" \in DOMAIN change => change["expired"] \in BOOLEAN
  BY CodesAssumption DEF Editable
<1>2. /\ DOMAIN row = {"kind", "value", "minimum", "limit", "single", "active", "expired", "used"}
      /\ row["kind"] \in Kinds /\ row["value"] \in Nat /\ row["minimum"] \in Nat
      /\ row["limit"] \in Nat \cup {Unlimited} /\ row["single"] \in BOOLEAN
      /\ row["active"] \in BOOLEAN /\ row["expired"] \in BOOLEAN /\ row["used"] \in Nat
  BY DEF CodeRow
<1>3. /\ new["kind"] \in Kinds /\ new["value"] \in Nat /\ new["minimum"] \in Nat
      /\ new["limit"] \in Nat \cup {Unlimited} /\ new["used"] = row["used"]
  BY <1>1, <1>2
<1>4. new["single"] \in BOOLEAN /\ new["active"] \in BOOLEAN /\ new["expired"] \in BOOLEAN
  BY <1>1, <1>2
<1>5. DOMAIN new = {"kind", "value", "minimum", "limit", "single", "active", "expired", "used"}
  BY <1>2
<1>6. new = [f \in DOMAIN new |-> new[f]]
  OBVIOUS
<1> HIDE DEF new
<1>7. new \in CodeRow
  BY <1>2, <1>3, <1>4, <1>5, <1>6 DEF CodeRow
<1> QED
  BY <1>3, <1>7 DEF new

\* The administration's steps.
LEMMA AdministrationStep ==
    ASSUME DiscountsSafe, NEW c \in Code,
           \/ \E content \in NewCodes : CreateCode(c, content)
           \/ \E change \in CodeChanges : UpdateCode(c, change)
           \/ CodeExpires(c)
    PROVE  DiscountsSafe'
<1>0. codes \in [Code -> CodeRow \cup {NoCode}]
  BY DEF DiscountsSafe, DiscountsTypes
<1>a. ASSUME NEW row \in CodeRow, codes' = [codes EXCEPT ![c] = row], UNCHANGED booking,
             codes[c] # NoCode => row.used = codes[c].used,
             codes[c] = NoCode => row.used = 0
      PROVE  DiscountsSafe'
  <2>1. /\ codes' \in [Code -> CodeRow \cup {NoCode}] /\ codes'[c] = row /\ row # NoCode
        /\ \A d \in Code \ {c} : codes'[d] = codes[d]
    BY <1>0, <1>a, CodesAssumption
  <2> QED
    BY <1>a, <2>1, CodesEdited
<1>1. ASSUME NEW content \in NewCodes, CreateCode(c, content) PROVE DiscountsSafe'
  <2>1. NewRow(content) \in CodeRow /\ NewRow(content).used = 0
    BY CodesAssumption DEF NewRow
  <2> QED
    BY <1>1, <1>a, <2>1 DEF CreateCode
<1>2. ASSUME NEW change \in CodeChanges, UpdateCode(c, change) PROVE DiscountsSafe'
  <2> DEFINE row == codes[c]
             new == [f \in DOMAIN row |-> IF f \in DOMAIN change THEN change[f] ELSE row[f]]
  <2>1. row \in CodeRow /\ codes' = [codes EXCEPT ![c] = new] /\ UNCHANGED booking /\ row # NoCode
    BY <1>0, <1>2 DEF UpdateCode
  <2>2. new \in CodeRow /\ new.used = row.used
    BY <2>1, ChangedCode
  <2> HIDE DEF new
  <2> QED
    BY <1>a, <2>1, <2>2
<1>3. ASSUME CodeExpires(c) PROVE DiscountsSafe'
  <2> DEFINE new == [codes[c] EXCEPT !.expired = TRUE]
  <2>1. codes[c] \in CodeRow /\ codes[c] # NoCode /\ UNCHANGED booking
        /\ codes' = [codes EXCEPT ![c] = new]
    BY <1>0, <1>3 DEF CodeExpires
  <2>2. new \in CodeRow /\ new.used = codes[c].used
    BY <2>1 DEF CodeRow
  <2> HIDE DEF new
  <2> QED
    BY <1>a, <2>1, <2>2
<1> QED
  BY <1>1, <1>2, <1>3

\* The check of a code.
LEMMA ValidateStep ==
    ASSUME DiscountsSafe, NEW q \in Booking, NEW subtotal \in CodeSubtotals,
           NEW n \in EventSizes, ValidateCode(q, subtotal, n)
    PROVE  DiscountsSafe'
<1> DEFINE c == BookedCode[q]
           amount == DiscountAmount(codes[c], subtotal)
           w == [phase |-> "priced", loaded |-> codes[c], known |-> Uses(c),
                 subtotal |-> subtotal, amount |-> amount, shares |-> Shares(amount, n)]
<1>0. /\ codes \in [Code -> CodeRow \cup {NoCode}] /\ c \in Code
      /\ CounterNeverAhead /\ SerialUsesKeepLimits /\ DiscountsTypes
      /\ subtotal \in Nat /\ n \in Nat \ {0}
      /\ booking[q].phase # "booked" /\ UNCHANGED codes
  BY DiscountsAssumption DEF DiscountsSafe, DiscountsTypes, ValidateCode
<1>1. CASE ~ Valid(c, subtotal, {BookedBy[q]})
  <2> DEFINE v == [phase |-> "refused"]
  <2>1. booking' = [booking EXCEPT ![q] = v]
    BY <1>1 DEF ValidateCode
  <2>2. v \in {[phase |-> "refused"]} \cup Deals /\ v.phase # "booked" /\ v.phase # "priced"
    OBVIOUS
  <2> HIDE DEF v
  <2> QED
    BY <1>0, <2>1, <2>2, RequestMoves
<1>2. CASE Valid(c, subtotal, {BookedBy[q]})
  <2>1. booking' = [booking EXCEPT ![q] = w]
    BY <1>2 DEF ValidateCode
  <2>2. /\ codes[c] # NoCode /\ codes[c] \in CodeRow
        /\ DiscountStatus(codes[c]) = "ACTIVE"
        /\ codes[c].single => \A r \in Uses(c) : BookedBy[r] # BookedBy[q]
    BY <1>0, <1>2 DEF Valid, Accepts
  <2>3. amount \in 0..subtotal /\ amount \in Nat
    BY <1>0, <2>2, AmountOf
  <2> HIDE DEF amount
  <2>4. Total(Shares(amount, n)) = amount
    BY <1>0, <2>3, SharesAdd
  <2>5. Uses(c) \in SUBSET Booking /\ q \notin Uses(c)
    BY <1>0 DEF Uses
  <2>6. w \in Deals
    BY <1>0, <2>2, <2>3, <2>5 DEF Deals
  <2>7. codes[c].limit # Unlimited => codes[c].used < codes[c].limit
    <3>1. codes[c].used \in Nat /\ codes[c].limit \in Nat \cup {Unlimited}
          /\ codes[c].active \in BOOLEAN /\ codes[c].expired \in BOOLEAN
      BY <2>2 DEF CodeRow
    <3>2. ~ (codes[c].limit # Unlimited /\ codes[c].used >= codes[c].limit)
      BY <2>2, <3>1 DEF DiscountStatus
    <3> QED
      BY <3>1, <3>2
  <2>8. codes[c].used <= Cardinality(Uses(c))
    BY <1>0, <2>2 DEF CounterNeverAhead
  <2>9. Serial(Uses(c)) => codes[c].used = Cardinality(Uses(c))
    BY <1>0, <2>2 DEF SerialUsesKeepLimits, Serial
  <2>10. /\ w.phase = "priced" /\ w.loaded = codes[c] /\ w.known = Uses(c)
         /\ w.subtotal = subtotal /\ w.amount = amount /\ w.shares = Shares(amount, n)
    OBVIOUS
  <2> HIDE DEF w
  <2>11. booking'[q] = w /\ \A r \in Booking \ {q} : booking'[r] = booking[r]
    BY <1>0, <2>1 DEF DiscountsTypes
  <2>12. Uses(c)' = Uses(c)
    BY <1>0, <2>10, <2>11 DEF Uses
  <2>13. Serial(Uses(c))' => Serial(Uses(c))
    <3>1. \A r \in Uses(c) : booking'[r] = booking[r]
      BY <2>5, <2>11
    <3> QED
      BY <2>12, <3>1 DEF Serial, Overlapped
  <2>14. DealSafe(q)'
    <3>1. codes'[BookedCode[q]] # NoCode
      BY <1>0, <2>2
    <3>2. booking'[q].known = Uses(c) /\ booking'[q].loaded = codes[c]
      BY <2>10, <2>11
    <3>3. booking'[q].amount \in 0..booking'[q].subtotal
          /\ Total(booking'[q].shares) = booking'[q].amount
      BY <2>3, <2>4, <2>10, <2>11
    <3>4. Serial(booking[q].known)' => booking'[q].loaded.used = Cardinality(booking'[q].known)
      <4>1. Serial(booking[q].known)' => Serial(Uses(c))'
        BY <2>12, <3>2 DEF Serial
      <4> QED
        BY <2>9, <2>13, <3>2, <4>1
    <3> QED
      BY <2>2, <2>5, <2>7, <2>8, <2>12, <3>1, <3>2, <3>3, <3>4 DEF DealSafe
  <2> QED
    BY <1>0, <2>1, <2>6, <2>10, <2>14, RequestMoves
<1> QED
  BY <1>1, <1>2

\* No step of the administration or of a booking breaks the invariant.
LEMMA DiscountsStep == DiscountsSafe /\ [DiscountsNext]_discountVars => DiscountsSafe'
<1> SUFFICES ASSUME DiscountsSafe, [DiscountsNext]_discountVars PROVE DiscountsSafe'
  OBVIOUS
<1>1. ASSUME NEW q \in Booking, SlotsTaken(q) PROVE DiscountsSafe'
  <2> DEFINE v == [phase |-> "refused"]
  <2>1. booking' = [booking EXCEPT ![q] = v] /\ UNCHANGED codes /\ booking[q].phase # "booked"
    BY <1>1 DEF SlotsTaken
  <2>2. v \in {[phase |-> "refused"]} \cup Deals /\ v.phase # "booked" /\ v.phase # "priced"
    OBVIOUS
  <2> HIDE DEF v
  <2> QED
    BY <2>1, <2>2, RequestMoves
<1>2. CASE UNCHANGED discountVars
  BY <1>2
  DEF discountVars, DiscountsSafe, DiscountsTypes, DealsSafe, HasDeal, DealSafe, Serial,
      Overlapped, Uses, CounterNeverAhead, SerialUsesKeepLimits
<1> QED
  BY <1>1, <1>2, AdministrationStep, ValidateStep, RegisterStep DEF DiscountsNext

\* What discount codes promise, for any number of codes, customers and bookings
\* at once: the reservations of an event bear its discount to the cent, the
\* counter never runs ahead of the usages, and usages that follow one another
\* keep to the limits.
THEOREM DiscountsAlwaysKept == DiscountsSpec => []DiscountsInv
<1>1. DiscountsInit => DiscountsSafe
  <2> SUFFICES ASSUME DiscountsInit PROVE DiscountsSafe
    OBVIOUS
  <2>1. \A q \in Booking : booking[q].phase = "new"
    BY DEF DiscountsInit
  <2>2. \A c : Uses(c) = {}
    BY <2>1 DEF Uses
  <2> QED
    BY <2>1, <2>2
    DEF DiscountsInit, DiscountsSafe, DiscountsTypes, DealsSafe, HasDeal, CounterNeverAhead,
        SerialUsesKeepLimits
<1>2. DiscountsSafe => DiscountsInv
  <2> SUFFICES ASSUME DiscountsSafe PROVE DiscountsTypeOK
    BY DEF DiscountsSafe, DiscountsInv
  <2>1. DiscountsTypes /\ DealsSafe
    BY DEF DiscountsSafe
  <2>2. \A c \in Code : codes[c] \in CodeRow \cup {NoCode}
    BY <2>1 DEF DiscountsTypes
  <2>3. \A q \in Booking : /\ booking[q].phase \in {"new", "priced", "booked", "refused"}
                           /\ HasDeal(q) => booking[q].loaded \in CodeRow /\ DealSafe(q)
    BY <2>1, DealFields DEF DealsSafe
  <2> QED
    BY <2>2, <2>3 DEF DiscountsTypeOK, HasDeal, DealSafe
<1> QED
  BY <1>1, <1>2, DiscountsStep, PTL DEF DiscountsSpec

-----------------------------------------------------------------------------
(* Prices: the slots of a cart and the blocks that they make.              *)

\* The slots of a cart.
LEMMA SlotsFinite ==
    ASSUME NEW c \in Seq(Item) PROVE IsFiniteSet(DOMAIN c) /\ DOMAIN c \subseteq Nat
<1>1. Len(c) \in Nat /\ DOMAIN c = 1..Len(c)
  OBVIOUS
<1>2. IsFiniteSet(1..Len(c)) /\ 1..Len(c) \subseteq Nat
  BY <1>1, FS_Interval
<1> QED
  BY <1>1, <1>2, Zenon

LEMMA ItemFields ==
    ASSUME NEW x \in Item
    PROVE  x.fin \in Int /\ x.inicio \in Int /\ x.space \in PricedSpace /\ x.fecha \in Fecha
  BY DEF Item

LEMMA SlotTypes ==
    ASSUME NEW c \in Seq(Item), NEW i \in DOMAIN c
    PROVE  /\ c[i] \in Item
           /\ c[i].space \in PricedSpace /\ c[i].fecha \in Fecha
           /\ c[i].inicio \in Int /\ c[i].fin \in Int
<1>1. c[i] \in Item
  OBVIOUS
<1> QED
  BY <1>1, ItemFields

\* Slots are sorted: no two are in the same place.
LEMMA SlotsSorted ==
    ASSUME NEW c \in Seq(Item), NEW i \in DOMAIN c, NEW j \in DOMAIN c
    PROVE  /\ ~ Before(c, i, i)
           /\ i = j \/ Before(c, i, j) \/ Before(c, j, i)
           /\ ~ (Before(c, i, j) /\ Before(c, j, i))
           /\ \A k \in DOMAIN c : Before(c, i, j) /\ Before(c, j, k) => Before(c, i, k)
<1>1. \A k \in DOMAIN c : k \in Int /\ c[k].inicio \in Int /\ c[k].fin \in Int
  BY SlotsFinite, SlotTypes
<1> QED
  BY <1>1 DEF Before

\* Some slots have a last one.
LEMMA LatestFound ==
    ASSUME NEW c \in Seq(Item), NEW S \in SUBSET DOMAIN c, S # {}
    PROVE  /\ LatestIn(c, S) \in S
           /\ \A j \in S : j = LatestIn(c, S) \/ Before(c, j, LatestIn(c, S))
           /\ \A i \in S : (\A j \in S : j = i \/ Before(c, j, i)) => i = LatestIn(c, S)
<1> DEFINE IsLast(i, s) == i \in s /\ \A j \in s \ {i} : Before(c, j, i)
           Q == {s \in SUBSET S : s # {} => \E i \in s : IsLast(i, s)}
<1>1. ASSUME NEW s \in SUBSET S, \A x \in s : s \ {x} \in Q PROVE s \in Q
  <2> SUFFICES ASSUME s # {} PROVE \E i \in s : IsLast(i, s)
    OBVIOUS
  <2>1. PICK x \in s : TRUE
    OBVIOUS
  <2>2. CASE s = {x}
    BY <2>2
  <2>3. CASE s # {x}
    <3>1. PICK m \in s \ {x} : IsLast(m, s \ {x})
      BY <1>1, <2>1, <2>3
    <3>2. x \in DOMAIN c /\ m \in DOMAIN c /\ x # m
      BY <3>1, <2>1
    <3>3. CASE Before(c, x, m)
      BY <3>1, <3>3
    <3>4. CASE Before(c, m, x)
      <4>1. ASSUME NEW j \in s \ {x} PROVE Before(c, j, x)
        BY <3>1, <3>2, <3>4, <4>1, SlotsSorted
      <4> QED
        BY <4>1, <2>1
    <3> QED
      BY <3>2, <3>3, <3>4, SlotsSorted
  <2> QED
    BY <2>2, <2>3
<1>2. S \in Q
  <2>1. IsFiniteSet(S) /\ S \in SUBSET S
    BY SlotsFinite, FS_Subset
  <2> HIDE DEF Q
  <2> QED
    BY <1>1, <2>1, InductionOnSubsets
<1>3. PICK i \in S : \A j \in S \ {i} : Before(c, j, i)
  BY <1>2
<1> DEFINE l == LatestIn(c, S)
<1>4. l \in S /\ \A j \in S \ {l} : Before(c, j, l)
  BY <1>3 DEF LatestIn
<1>5. ASSUME NEW k \in S, \A j \in S : j = k \/ Before(c, j, k) PROVE k = l
  <2>1. CASE k # l
    <3>1. Before(c, k, l) /\ Before(c, l, k) /\ k \in DOMAIN c /\ l \in DOMAIN c
      BY <2>1, <1>4, <1>5
    <3> QED
      BY <3>1, SlotsSorted
  <2> QED
    BY <2>1
<1> HIDE DEF l
<1> QED
  BY <1>4, <1>5 DEF l

\* And a first one.
LEMMA EarliestFound ==
    ASSUME NEW c \in Seq(Item), NEW S \in SUBSET DOMAIN c, S # {}
    PROVE  /\ Earliest(c, S) \in S
           /\ \A j \in S : j = Earliest(c, S) \/ Before(c, Earliest(c, S), j)
           /\ \A i \in S : (\A j \in S : j = i \/ Before(c, i, j)) => i = Earliest(c, S)
<1> DEFINE IsFirst(i, s) == i \in s /\ \A j \in s \ {i} : Before(c, i, j)
           Q == {s \in SUBSET S : s # {} => \E i \in s : IsFirst(i, s)}
<1>1. ASSUME NEW s \in SUBSET S, \A x \in s : s \ {x} \in Q PROVE s \in Q
  <2> SUFFICES ASSUME s # {} PROVE \E i \in s : IsFirst(i, s)
    OBVIOUS
  <2>1. PICK x \in s : TRUE
    OBVIOUS
  <2>2. CASE s = {x}
    BY <2>2
  <2>3. CASE s # {x}
    <3>1. PICK m \in s \ {x} : IsFirst(m, s \ {x})
      BY <1>1, <2>1, <2>3
    <3>2. x \in DOMAIN c /\ m \in DOMAIN c /\ x # m
      BY <3>1, <2>1
    <3>3. CASE Before(c, m, x)
      BY <3>1, <3>3
    <3>4. CASE Before(c, x, m)
      <4>1. ASSUME NEW j \in s \ {x} PROVE Before(c, x, j)
        BY <3>1, <3>2, <3>4, <4>1, SlotsSorted
      <4> QED
        BY <4>1, <2>1
    <3> QED
      BY <3>2, <3>3, <3>4, SlotsSorted
  <2> QED
    BY <2>2, <2>3
<1>2. S \in Q
  <2>1. IsFiniteSet(S) /\ S \in SUBSET S
    BY SlotsFinite, FS_Subset
  <2> HIDE DEF Q
  <2> QED
    BY <1>1, <2>1, InductionOnSubsets
<1>3. PICK i \in S : \A j \in S \ {i} : Before(c, i, j)
  BY <1>2
<1> DEFINE l == Earliest(c, S)
<1>4. l \in S /\ \A j \in S \ {l} : Before(c, l, j)
  BY <1>3 DEF Earliest
<1>5. ASSUME NEW k \in S, \A j \in S : j = k \/ Before(c, k, j) PROVE k = l
  <2>1. CASE k # l
    <3>1. Before(c, k, l) /\ Before(c, l, k) /\ k \in DOMAIN c /\ l \in DOMAIN c
      BY <2>1, <1>4, <1>5
    <3> QED
      BY <3>1, SlotsSorted
  <2> QED
    BY <2>1
<1> HIDE DEF l
<1> QED
  BY <1>4, <1>5 DEF l

\* The slots that open a block.
Openers(c) == {i \in DOMAIN c : Opens(c, i)}

\* Two slots of one space and day.
SameDay(c, i, j) == c[i].space = c[j].space /\ c[i].fecha = c[j].fecha

LEMMA OpenerFound ==
    ASSUME NEW c \in Seq(Item), NEW i \in DOMAIN c, NEW o, o = Opener(c, Openers(c), i)
    PROVE  /\ o \in Openers(c) /\ o \in DOMAIN c /\ SameDay(c, o, i)
           /\ o = i \/ Before(c, o, i)
           /\ \A j \in Openers(c) : SameDay(c, j, i) /\ (j = i \/ Before(c, j, i)) =>
                   j = o \/ Before(c, j, o)
           /\ i \in Openers(c) => o = i
           /\ Opener(c, Openers(c), o) = o
<1> DEFINE S == Earlier(c, i) \cup {i}
           e == Earliest(c, S)
           T == Openers(c) \cap S
<1>1. S \in SUBSET DOMAIN c /\ S # {} /\ T \in SUBSET DOMAIN c
  BY DEF Earlier
<1>2. e \in S /\ \A j \in S : j = e \/ Before(c, e, j)
  <2> HIDE DEF S
  <2> QED
    BY <1>1, EarliestFound
<1>3. Earlier(c, e) = {}
  <2>1. ASSUME NEW j \in Earlier(c, e) PROVE FALSE
    <3>1. e \in DOMAIN c /\ j \in DOMAIN c /\ Before(c, j, e)
      BY <1>1, <1>2, <2>1 DEF Earlier
    <3>2. j \in Earlier(c, i)
      BY <1>2, <2>1, <3>1, SlotsSorted DEF Earlier
    <3>3. j = e \/ Before(c, e, j)
      BY <1>2, <3>2
    <3> QED
      BY <3>1, <3>3, SlotsSorted
  <2> QED
    BY <2>1
<1>4. T # {}
  <2>1. e \in Openers(c)
    BY <1>1, <1>2, <1>3 DEF Openers, Opens
  <2> QED
    BY <2>1, <1>2
<1>5. /\ o \in T
      /\ \A j \in T : j = o \/ Before(c, j, o)
      /\ \A k \in T : (\A j \in T : j = k \/ Before(c, j, k)) => k = o
  <2>1. o = LatestIn(c, T)
    BY DEF Opener
  <2> HIDE DEF T
  <2> QED
    BY <2>1, <1>1, <1>4, LatestFound
<1>6. o \in Openers(c) /\ o \in DOMAIN c /\ SameDay(c, o, i) /\ (o = i \/ Before(c, o, i))
  BY <1>1, <1>5 DEF Earlier, SameDay
<1>7. ASSUME NEW j \in Openers(c), SameDay(c, j, i), j = i \/ Before(c, j, i)
      PROVE  j = o \/ Before(c, j, o)
  <2>1. j \in T
    BY <1>7 DEF Openers, Earlier, SameDay
  <2> QED
    BY <2>1, <1>5
<1>8. ASSUME i \in Openers(c) PROVE o = i
  <2>1. i \in T /\ \A j \in T : j = i \/ Before(c, j, i)
    BY <1>8 DEF Earlier
  <2> QED
    BY <2>1, <1>5
<1>9. Opener(c, Openers(c), o) = o
  <2> DEFINE R == Openers(c) \cap (Earlier(c, o) \cup {o})
  <2>1. R \in SUBSET DOMAIN c /\ o \in R /\ \A j \in R : j = o \/ Before(c, j, o)
    BY <1>6 DEF Earlier
  <2>2. LatestIn(c, R) = o
    <3> HIDE DEF R
    <3>1. R # {}
      BY <2>1
    <3> QED
      BY <2>1, <3>1, LatestFound
  <2> QED
    BY <2>2 DEF Opener
<1> QED
  BY <1>6, <1>7, <1>8, <1>9

\* The slots of one opener.
BlockFrom(c, o) == {i \in DOMAIN c : Opener(c, Openers(c), i) = o}

LEMMA BlocksAre == ASSUME NEW c PROVE AllBlocks(c) = {BlockFrom(c, o) : o \in Openers(c)}
  BY DEF AllBlocks, Openers, BlockFrom

\* A block has slots of one space and day, of which the first opened it.
LEMMA BlockFound ==
    ASSUME NEW c \in Seq(Item), NEW b \in AllBlocks(c), NEW o, o = Earliest(c, b)
    PROVE  /\ b \in SUBSET DOMAIN c /\ IsFiniteSet(b) /\ b # {} /\ o \in b
           /\ o \in Openers(c) /\ b = BlockFrom(c, o)
           /\ \A i \in b : /\ Opener(c, Openers(c), i) = o /\ SameDay(c, i, o)
                           /\ i = o \/ Before(c, o, i)
           /\ LatestIn(c, b) \in b
           /\ \A i \in b : i = LatestIn(c, b) \/ Before(c, i, LatestIn(c, b))
<1>1. PICK p \in Openers(c) : b = BlockFrom(c, p)
  BY BlocksAre
<1>2. p \in b /\ b \in SUBSET DOMAIN c
  <2>1. p \in DOMAIN c
    BY DEF Openers
  <2>2. Opener(c, Openers(c), p) = p
    BY <2>1, OpenerFound
  <2> QED
    BY <1>1, <2>1, <2>2 DEF BlockFrom
<1>3. ASSUME NEW i \in b
      PROVE  /\ Opener(c, Openers(c), i) = p /\ SameDay(c, i, p)
             /\ i = p \/ Before(c, p, i)
  <2>1. i \in DOMAIN c /\ Opener(c, Openers(c), i) = p
    BY <1>1 DEF BlockFrom
  <2> QED
    BY <2>1, OpenerFound DEF SameDay
<1>4. p = o
  <2>1. b # {}
    BY <1>2
  <2> QED
    BY <1>2, <1>3, <2>1, EarliestFound
<1>5. IsFiniteSet(b)
  BY <1>2, SlotsFinite, FS_Subset
<1>6. LatestIn(c, b) \in b /\ \A i \in b : i = LatestIn(c, b) \/ Before(c, i, LatestIn(c, b))
  <2>1. b # {}
    BY <1>2
  <2> QED
    BY <1>2, <2>1, LatestFound
<1> QED
  BY <1>1, <1>2, <1>3, <1>4, <1>5, <1>6

\* Every slot is in one block.
LEMMA OneBlockEach ==
    ASSUME NEW c \in Seq(Item)
    PROVE  /\ IsFiniteSet(AllBlocks(c))
           /\ \A i \in DOMAIN c : \E b \in AllBlocks(c) : i \in b
           /\ \A b1, b2 \in AllBlocks(c) : \A i \in b1 : i \in b2 => b1 = b2
<1>1. IsFiniteSet(AllBlocks(c))
  <2>1. IsFiniteSet(DOMAIN c) /\ AllBlocks(c) \subseteq SUBSET DOMAIN c
    BY SlotsFinite, BlocksAre DEF BlockFrom
  <2> QED
    BY <2>1, FS_SUBSET, FS_Subset
<1>2. ASSUME NEW i \in DOMAIN c PROVE \E b \in AllBlocks(c) : i \in b
  <2> DEFINE o == Opener(c, Openers(c), i)
  <2>1. o \in Openers(c)
    BY OpenerFound
  <2>2. i \in BlockFrom(c, o)
    BY DEF BlockFrom
  <2> QED
    BY <2>1, <2>2, BlocksAre
<1>3. ASSUME NEW b1 \in AllBlocks(c), NEW b2 \in AllBlocks(c), NEW i \in b1, i \in b2
      PROVE  b1 = b2
  <2>1. PICK o1 \in Openers(c) : b1 = BlockFrom(c, o1)
    BY BlocksAre
  <2>2. PICK o2 \in Openers(c) : b2 = BlockFrom(c, o2)
    BY BlocksAre
  <2>3. o1 = o2
    BY <1>3, <2>1, <2>2 DEF BlockFrom
  <2> QED
    BY <2>1, <2>2, <2>3
<1> QED
  BY <1>1, <1>2, <1>3

\* In a block, a slot after the first starts where the one before it ends.
LEMMA SlotContinues ==
    ASSUME NEW c \in Seq(Item), NEW b \in AllBlocks(c), NEW i \in b, i # Earliest(c, b)
    PROVE  \E p \in b : /\ Before(c, p, i) /\ c[p].fin = c[i].inicio
                        /\ \A j \in b : Before(c, j, i) => j = p \/ Before(c, j, p)
<1> DEFINE o == Earliest(c, b)
           p == LatestIn(c, Earlier(c, i))
<1>0. /\ b \in SUBSET DOMAIN c /\ b = BlockFrom(c, o)
      /\ \A j \in b : Opener(c, Openers(c), j) = o /\ SameDay(c, j, o)
  BY BlockFound
<1>1. i \in DOMAIN c /\ i \notin Openers(c)
  <2>1. i \in DOMAIN c /\ Opener(c, Openers(c), i) = o
    BY <1>0
  <2> QED
    BY <2>1, OpenerFound
<1>2. Earlier(c, i) # {} /\ c[p].fin = c[i].inicio
  BY <1>1 DEF Openers, Opens
<1>3. p \in Earlier(c, i) /\ \A j \in Earlier(c, i) : j = p \/ Before(c, j, p)
  <2>1. Earlier(c, i) \in SUBSET DOMAIN c
    BY DEF Earlier
  <2> QED
    BY <1>2, <2>1, LatestFound
<1> HIDE DEF p, o
<1>4. p \in DOMAIN c /\ Before(c, p, i) /\ SameDay(c, p, i)
  BY <1>3 DEF Earlier, SameDay
<1>5. Opener(c, Openers(c), p) = Opener(c, Openers(c), i)
  <2>1. Openers(c) \cap (Earlier(c, p) \cup {p}) = Openers(c) \cap (Earlier(c, i) \cup {i})
    <3>1. ASSUME NEW j \in DOMAIN c
          PROVE  j \in Earlier(c, p) \cup {p} <=> j \in Earlier(c, i)
      <4>1. SameDay(c, j, p) <=> SameDay(c, j, i)
        BY <1>4 DEF SameDay
      <4>2. j = p \/ Before(c, j, p) => Before(c, j, i)
        BY <1>1, <1>4, SlotsSorted
      <4> QED
        BY <1>3, <1>4, <4>1, <4>2 DEF Earlier, SameDay
    <3>2. Openers(c) \subseteq DOMAIN c
      BY DEF Openers
    <3> QED
      BY <1>1, <3>1, <3>2
  <2> QED
    BY <2>1 DEF Opener
<1>6. p \in b
  BY <1>0, <1>4, <1>5 DEF BlockFrom
<1>7. ASSUME NEW j \in b, Before(c, j, i) PROVE j = p \/ Before(c, j, p)
  <2>1. j \in DOMAIN c /\ SameDay(c, j, i)
    BY <1>0 DEF SameDay
  <2>2. j \in Earlier(c, i)
    BY <2>1, <1>7 DEF Earlier, SameDay
  <2> QED
    BY <2>2, <1>3
<1> QED
  BY <1>2, <1>4, <1>6, <1>7

\* The lengths of the slots of a block add up to the length of the block.
LEMMA BlockTelescopes ==
    ASSUME NEW c \in Seq(Item), NEW b \in AllBlocks(c)
    PROVE  /\ Total(Lengths(c, b)) = SumFunctionOnSet(Lengths(c, b), b)
           /\ SumFunctionOnSet(Lengths(c, b), b) = BlockLength(c, b)
           /\ BlockLength(c, b) \in Int
           /\ \A i \in b : Lengths(c, b)[i] \in Int /\ Lengths(c, b)[i] = c[i].fin - c[i].inicio
<1> DEFINE o == Earliest(c, b)
           last == LatestIn(c, b)
           f == Lengths(c, b)
           Upto(i) == {j \in b : j = i \/ Before(c, j, i)}
           Sum(s) == SumFunctionOnSet(f, s)
           Q == {s \in SUBSET b : \A i \in b : s = Upto(i) => Sum(s) = c[i].fin - c[o].inicio}
<1>0. /\ b \in SUBSET DOMAIN c /\ IsFiniteSet(b) /\ o \in b /\ last \in b
      /\ \A i \in b : i = o \/ Before(c, o, i)
      /\ \A i \in b : i = last \/ Before(c, i, last)
  BY BlockFound
<1>1. \A i \in b : c[i].inicio \in Int /\ c[i].fin \in Int
  BY <1>0, SlotTypes
<1>2. DOMAIN f = b /\ \A i \in b : f[i] \in Int /\ f[i] = c[i].fin - c[i].inicio
  BY <1>1 DEF Lengths
<1> HIDE DEF f, o, last
<1>3. ASSUME NEW s \in SUBSET b
      PROVE  \A x \in s : Sum(s) = f[x] + Sum(s \ {x})
  BY <1>0, <1>2, SumBasics
<1>4. ASSUME NEW s \in SUBSET b, \A x \in s : s \ {x} \in Q PROVE s \in Q
  <2> SUFFICES ASSUME NEW i \in b, s = Upto(i) PROVE Sum(s) = c[i].fin - c[o].inicio
    OBVIOUS
  <2>1. i \in s /\ Sum(s) = f[i] + Sum(s \ {i})
    BY <1>3
  <2>2. CASE i = o
    <3>1. s = {o}
      <4>1. ASSUME NEW j \in s PROVE j = o
        <5>1. j \in DOMAIN c /\ o \in DOMAIN c /\ (j = o \/ Before(c, j, o))
          BY <1>0, <2>2
        <5>2. j = o \/ Before(c, o, j)
          BY <1>0
        <5> QED
          BY <5>1, <5>2, SlotsSorted
      <4> QED
        BY <4>1, <2>1, <2>2
    <3>2. Sum(s) = f[o]
      <4>1. SumFunctionOnSet(f, {o}) = f[o]
        BY <1>0, <1>2, SumOfOne
      <4> QED
        BY <3>1, <4>1, Zenon
    <3> QED
      BY <3>2, <2>2, <1>0, <1>2
  <2>3. CASE i # o
    <3>1. PICK p \in b : /\ Before(c, p, i) /\ c[p].fin = c[i].inicio
                         /\ \A j \in b : Before(c, j, i) => j = p \/ Before(c, j, p)
      BY <2>3, SlotContinues DEF o
    <3>2. s \ {i} = Upto(p)
      <4>1. ASSUME NEW j \in b
            PROVE  (j = p \/ Before(c, j, p)) <=> (Before(c, j, i) /\ j # i)
        <5>1. j \in DOMAIN c /\ p \in DOMAIN c /\ i \in DOMAIN c
          BY <1>0
        <5>2. j = p \/ Before(c, j, p) => Before(c, j, i)
          BY <5>1, <3>1, SlotsSorted
        <5>3. ~ Before(c, i, i)
          BY <5>1, SlotsSorted
        <5> QED
          BY <3>1, <5>2, <5>3
      <4> QED
        BY <4>1
    <3>3. Sum(s \ {i}) = c[p].fin - c[o].inicio
      BY <1>4, <2>1, <3>2
    <3>4. f[i] = c[i].fin - c[i].inicio /\ c[i].fin \in Int /\ c[i].inicio \in Int
          /\ c[o].inicio \in Int
      BY <1>0, <1>1, <1>2
    <3> HIDE DEF Sum
    <3> QED
      BY <2>1, <3>1, <3>3, <3>4
  <2> QED
    BY <2>2, <2>3
<1>5. b \in Q
  <2>1. b \in SUBSET b
    OBVIOUS
  <2> HIDE DEF Q
  <2> QED
    BY <1>0, <1>4, <2>1, InductionOnSubsets
<1>6. b = Upto(last)
  BY <1>0
<1>7. Sum(b) = c[last].fin - c[o].inicio
  BY <1>0, <1>5, <1>6
<1>8. BlockLength(c, b) = c[last].fin - c[o].inicio
  BY DEF BlockLength, last, o
<1>9. BlockLength(c, b) \in Int
  BY <1>0, <1>1, <1>8
<1>10. Total(f) = Sum(b)
  BY <1>2 DEF Total, SumFunction
<1> QED
  BY <1>2, <1>7, <1>8, <1>9, <1>10 DEF f

\* Adding up block by block is adding up slot by slot.
LEMMA SumByBlocks ==
    ASSUME NEW c \in Seq(Item), NEW f, \A i \in DOMAIN c : f[i] \in Int,
           NEW g, \A b \in AllBlocks(c) : g[b] = SumFunctionOnSet(f, b)
    PROVE  SumFunctionOnSet(g, AllBlocks(c)) = SumFunctionOnSet(f, DOMAIN c)
<1> DEFINE key == [i \in DOMAIN c |-> CHOOSE b \in AllBlocks(c) : i \in b]
<1>1. IsFiniteSet(AllBlocks(c)) /\ IsFiniteSet(DOMAIN c)
  BY OneBlockEach, SlotsFinite
<1>2. ASSUME NEW i \in DOMAIN c PROVE key[i] \in AllBlocks(c) /\ i \in key[i]
  <2>1. \E b \in AllBlocks(c) : i \in b
    BY OneBlockEach
  <2> QED
    BY <2>1
<1>3. ASSUME NEW b \in AllBlocks(c)
      PROVE  b = {i \in DOMAIN c : key[i] = b}
  <2>1. b \in SUBSET DOMAIN c
    BY BlockFound
  <2>2. ASSUME NEW i \in DOMAIN c PROVE i \in b <=> key[i] = b
    <3> HIDE DEF key
    <3> QED
      BY <1>2, OneBlockEach
  <2> HIDE DEF key
  <2> QED
    BY <2>1, <2>2
<1> DEFINE part == [b \in AllBlocks(c) |-> b]
<1>4. \A b \in AllBlocks(c) : /\ part[b] = {i \in DOMAIN c : key[i] = b}
                              /\ g[b] = SumFunctionOnSet(f, part[b])
  <2> HIDE DEF key
  <2> QED
    BY <1>3
<1> DEFINE D == DOMAIN c
           K == AllBlocks(c)
<1> HIDE DEF key, part
<1>a. IsFiniteSet(D) /\ IsFiniteSet(K)
  BY <1>1
<1>b. \A i \in D : f[i] \in Int
  OBVIOUS
<1>d. \A i \in D : key[i] \in K
  BY <1>2
<1>e. \A b \in K : part[b] = {i \in D : key[i] = b}
  BY <1>4
<1>f. \A b \in K : g[b] = SumFunctionOnSet(f, part[b])
  BY <1>4
<1> HIDE DEF D, K
<1>6. SumFunctionOnSet(g, K) = SumFunctionOnSet(f, D)
  BY <1>a, <1>b, <1>d, <1>e, <1>f, SumByKey
<1> QED
  BY <1>6 DEF K, D

-----------------------------------------------------------------------------
(* Arithmetic of the prices.                                               *)

\* Rounding moves a quotient by half at most.
LEMMA RoundDivNear ==
    ASSUME NEW a \in Int, NEW b \in Nat, b > 0
    PROVE  /\ RoundDiv(a, b) \in Int
           /\ -b <= 2 * (b * RoundDiv(a, b) - a) /\ 2 * (b * RoundDiv(a, b) - a) <= b
<1> DEFINE q == a \div b
           r == a % b
<1>1. q \in Int /\ r \in Int /\ a = b * q + r /\ 0 <= r /\ r < b
  OBVIOUS
<1>2. (RoundDiv(a, b) = q /\ 2 * r <= b) \/ (RoundDiv(a, b) = q + 1 /\ 2 * r >= b)
  <2> HIDE DEF q, r
  <2>1. RoundDiv(a, b) = IF 2 * r < b \/ (2 * r = b /\ q % 2 = 0) THEN q ELSE q + 1
    BY DEF RoundDiv, q, r
  <2> QED
    BY <1>1, <2>1
<1> HIDE DEF q, r
<1>3. b * (q + 1) = b * q + b
  BY <1>1
<1> DEFINE bq == b * q
<1>4. bq \in Int /\ a = bq + r /\ b * (q + 1) = bq + b
  BY <1>1, <1>3
<1> HIDE DEF bq
<1>5. CASE RoundDiv(a, b) = q /\ 2 * r <= b
  <2>1. b * RoundDiv(a, b) = bq
    BY <1>5 DEF bq
  <2> QED
    BY <1>1, <1>4, <1>5, <2>1
<1>6. CASE RoundDiv(a, b) = q + 1 /\ 2 * r >= b
  <2>1. b * RoundDiv(a, b) = bq + b
    BY <1>4, <1>6
  <2> QED
    BY <1>1, <1>4, <1>6, <2>1
<1> QED
  BY <1>2, <1>5, <1>6

\* Shares that add up to what is shared, each near its part.
SharedOut(S, w, total, share) ==
    /\ SumFunctionOnSet(share, S) = total
    /\ Cardinality(S) \in Nat /\ Total(w) \in Int
    /\ \A x \in S :
         LET d == 2 * (Total(w) * share[x] - total * w[x])
         IN /\ share[x] \in Int
            /\ -(Total(w) * Cardinality(S)) <= d /\ d <= Total(w) * Cardinality(S)

LEMMA AllocateAddsUp ==
    ASSUME NEW S, IsFiniteSet(S), NEW w, DOMAIN w = S, \A x \in S : w[x] \in Int,
           NEW last \in S, NEW total \in Int, Total(w) > 0
    PROVE  SharedOut(S, w, total, Allocate(total, w, last))
<1> DEFINE hours == Total(w)
           part == [x \in S |-> RoundDiv(total * w[x], hours)]
           rest == S \ {last}
           share == Allocate(total, w, last)
           P == SumFunctionOnSet(part, rest)
<1>1. hours = SumFunctionOnSet(w, S) /\ hours \in Int /\ hours > 0
  <2>1. hours = SumFunctionOnSet(w, S)
    BY DEF Total, SumFunction
  <2>2. S \in SUBSET S
    OBVIOUS
  <2>3. SumFunctionOnSet(w, S) \in Int
    BY <2>2, SumBasics
  <2> QED
    BY <2>1, <2>3
<1>2. share = [part EXCEPT ![last] = total - P]
  BY DEF Allocate
<1> HIDE DEF hours, share
<1>3. \A x \in S : /\ part[x] \in Int /\ total * w[x] \in Int
                   /\ -hours <= 2 * (hours * part[x] - total * w[x])
                   /\ 2 * (hours * part[x] - total * w[x]) <= hours
  <2> TAKE x \in S
  <2>1. total * w[x] \in Int /\ hours \in Nat
    BY <1>1
  <2>2. part[x] = RoundDiv(total * w[x], hours)
    OBVIOUS
  <2> QED
    BY <1>1, <2>1, <2>2, RoundDivNear
<1>4. DOMAIN part = S
  OBVIOUS
<1> HIDE DEF part
<1>5. rest \in SUBSET S /\ IsFiniteSet(rest) /\ last \notin rest
  BY FS_RemoveElement
<1>6. P \in Int
  <2>1. \A x \in S : part[x] \in Int
    BY <1>3
  <2> QED
    BY <1>5, <2>1, SumBasics
<1>7. /\ DOMAIN share = S /\ share[last] = total - P
      /\ \A x \in rest : share[x] = part[x]
      /\ \A x \in S : share[x] \in Int
  <2> HIDE DEF P
  <2> QED
    BY <1>2, <1>3, <1>4, <1>6
<1>8. SumFunctionOnSet(share, S) = total
  <2>1. \A x \in S : share[x] \in Int
    BY <1>7
  <2>2. SumFunctionOnSet(share, S) = share[last] + SumFunctionOnSet(share, rest)
    BY <2>1, SumWithout
  <2>3. \A x \in rest : part[x] \in Int /\ part[x] = share[x]
    BY <1>3, <1>5, <1>7
  <2>4. P = SumFunctionOnSet(share, rest)
    BY <1>5, <2>3, SumSame
  <2> HIDE DEF P
  <2>5. SumFunctionOnSet(share, S) = (total - P) + P
    BY <1>7, <2>2, <2>4
  <2> QED
    BY <1>6, <2>5
<1>9. Cardinality(S) \in Nat /\ Cardinality(S) >= 1 /\ Cardinality(rest) = Cardinality(S) - 1
  <2>1. Cardinality(S) \in Nat /\ Cardinality(rest) = Cardinality(S) - 1
        /\ Cardinality(rest) \in Nat
    BY LessOne
  <2> QED
    BY <2>1
<1> DEFINE n == Cardinality(S)
           hn == hours * n
           d(x) == 2 * (hours * share[x] - total * w[x])
<1>10. hn \in Int /\ hn >= hours
  <2>1. hours * (n - 1) \in Int /\ hours * (n - 1) >= 0 /\ hours * (n - 1) = hours * n - hours
    <3> HIDE DEF n
    <3>0. n \in Nat /\ n >= 1
      BY <1>9 DEF n
    <3>1. n - 1 \in Nat
      BY <3>0
    <3>2. hours * (n - 1) = hours * n - hours
      BY <1>1, <3>0
    <3>3. \A i, j \in Nat : i * j >= 0 /\ i * j \in Int
      OBVIOUS
    <3>4. hours * (n - 1) >= 0 /\ hours * (n - 1) \in Int
      BY <1>1, <3>1, <3>3
    <3> QED
      BY <3>2, <3>4
  <2> QED
    BY <1>1, <1>9, <2>1
<1>11. ASSUME NEW x \in rest PROVE -hn <= d(x) /\ d(x) <= hn
  <2>1. d(x) = 2 * (hours * part[x] - total * w[x])
    BY <1>7
  <2>2. -hours <= d(x) /\ d(x) <= hours /\ d(x) \in Int
    BY <1>1, <1>3, <1>5, <2>1
  <2> HIDE DEF hn, d
  <2> QED
    BY <1>1, <1>10, <2>2
<1>12. -hn <= d(last) /\ d(last) <= hn
  <2> DEFINE off == [x \in S |-> hours * part[x] - total * w[x]]
             off2 == [x \in S |-> 2 * off[x]]
             W == SumFunctionOnSet(w, rest)
             O == SumFunctionOnSet(off, rest)
  <2>1. \A x \in rest : part[x] \in Int /\ w[x] \in Int /\ off[x] \in Int
    BY <1>1, <1>3, <1>5
  <2>2. W \in Int /\ O \in Int /\ hours = w[last] + W
    <3>1. rest \in SUBSET rest
      OBVIOUS
    <3>2. W \in Int
      BY <1>5, <2>1, <3>1, SumBasics
    <3>3. O \in Int
      <4>1. \A x \in rest : off[x] \in Int
        BY <2>1
      <4> HIDE DEF off
      <4> QED
        BY <1>5, <3>1, <4>1, SumBasics
    <3>4. SumFunctionOnSet(w, S) = w[last] + W
      BY SumWithout
    <3> QED
      BY <1>1, <3>2, <3>3, <3>4
  <2>3. O = hours * P + (-total) * W
    <3>1. \A x \in rest : part[x] \in Int
      BY <2>1
    <3>2. \A x \in rest : w[x] \in Int
      BY <2>1
    <3>3. \A x \in rest : off[x] = hours * part[x] + (-total) * w[x]
      <4> TAKE x \in rest
      <4>1. off[x] = hours * part[x] - total * w[x] /\ part[x] \in Int /\ w[x] \in Int
        BY <1>5, <2>1
      <4> DEFINE v == w[x]
                 tv == total * v
                 hp == hours * part[x]
      <4>2. v \in Int /\ hp \in Int /\ tv \in Int /\ off[x] = hp - tv
        BY <1>1, <4>1
      <4>3. (-total) * v = -tv
        <5> HIDE DEF v
        <5> QED
          BY <4>2
      <4> HIDE DEF off, tv, hp, v
      <4>4. off[x] = hp + (-total) * v
        BY <4>2, <4>3
      <4> QED
        BY <4>4 DEF hp, v
    <3>4. hours \in Int /\ -total \in Int
      BY <1>1
    <3> HIDE DEF off
    <3> QED
      BY <1>5, <3>1, <3>2, <3>3, <3>4, SumLinear
  <2>4. d(last) = -(2 * O)
    <3> DEFINE v == w[last]
    <3>1. v \in Int /\ hours = v + W
      BY <2>2
    <3>2. d(last) = 2 * (hours * (total - P) - total * v)
      BY <1>7
    <3> HIDE DEF d, v, O, W, P, n
    <3>3. hours * (total - P) = hours * total - hours * P
      BY <1>1, <1>6
    <3>4. hours * total = total * v + total * W
      BY <3>1, <2>2
    <3>5. (-total) * W = -(total * W)
      BY <2>2
    <3> DEFINE tv == total * v
               tW == total * W
               hP == hours * P
    <3>6. tv \in Int /\ tW \in Int /\ hP \in Int
      BY <1>1, <1>6, <2>2, <3>1
    <3>7. d(last) = 2 * (((tv + tW) - hP) - tv) /\ O = hP + (-tW)
      BY <3>2, <3>3, <3>4, <3>5, <2>3
    <3> HIDE DEF tv, tW, hP
    <3> QED
      BY <3>6, <3>7
  <2>5. 2 * O = SumFunctionOnSet(off2, rest)
    <3>1. \A x \in rest : off[x] \in Int
      BY <2>1
    <3>2. \A x \in rest : off2[x] = 2 * off[x] + 0 * off[x]
      <4> TAKE x \in rest
      <4>1. off2[x] = 2 * off[x] /\ off[x] \in Int
        BY <1>5, <3>1
      <4> HIDE DEF off, off2
      <4> QED
        BY <4>1
    <3> HIDE DEF off, off2
    <3>3. SumFunctionOnSet(off2, rest) = 2 * O + 0 * O
      BY <1>5, <3>1, <3>2, SumLinear
    <3> HIDE DEF O
    <3> QED
      BY <2>2, <3>3
  <2>6. \A x \in rest : off2[x] \in Int /\ -hours <= off2[x] /\ off2[x] <= hours
    BY <1>1, <1>3, <1>5, <2>1
  <2>7. /\ -(hours * Cardinality(rest)) <= 2 * O
        /\ 2 * O <= hours * Cardinality(rest)
    <3> HIDE DEF off, off2, O
    <3> QED
      BY <1>1, <1>5, <2>5, <2>6, SumBounded
  <2>8. hours * Cardinality(rest) = hn - hours
    <3>1. Cardinality(rest) = n - 1 /\ n \in Nat
      BY <1>9
    <3> HIDE DEF n
    <3> QED
      BY <1>1, <3>1
  <2> HIDE DEF d, O, hn
  <2> QED
    BY <1>1, <1>10, <2>2, <2>4, <2>7, <2>8
<1>13. \A x \in S : -hn <= d(x) /\ d(x) <= hn
  <2> HIDE DEF d, hn
  <2> QED
    BY <1>11, <1>12
<1> QED
  BY <1>1, <1>7, <1>8, <1>9, <1>13 DEF share, hours, SharedOut

-----------------------------------------------------------------------------
(* The rules.                                                              *)

LEMMA RuleFields ==
    ASSUME NEW r \in RuleRow
    PROVE  /\ r.base6 \in Nat /\ r.base12 \in Nat /\ r.extra \in Nat
           /\ r.from \in Nat /\ r.created \in Nat /\ r.space \in PricedSpace
           /\ r # NoRule
<1>1. r.base6 \in Nat /\ r.base12 \in Nat /\ r.extra \in Nat
  BY DEF RuleRow
<1>2. r.from \in Nat /\ r.created \in Nat /\ r.space \in PricedSpace
  BY PricingAssumption DEF RuleRow
<1>3. r # NoRule
  <2>1. "base6" \in DOMAIN r
    BY DEF RuleRow
  <2>2. "base6" \notin DOMAIN NoRule
    BY DEF NoRule
  <2> QED
    BY <2>1, <2>2
<1> QED
  BY <1>1, <1>2, <1>3

\* Some rules have a latest one.
LEMMA LatestIsOne ==
    ASSUME NEW R \in SUBSET RuleRow, IsFiniteSet(R), R # {}
    PROVE  Latest(R) \in R
<1> DEFINE AtLeast(r, q) == r.from > q.from \/ (r.from = q.from /\ r.created >= q.created)
           Q == {s \in SUBSET R : s # {} => \E r \in s : \A q \in s : AtLeast(r, q)}
<1>1. ASSUME NEW s \in SUBSET R, \A x \in s : s \ {x} \in Q PROVE s \in Q
  <2> SUFFICES ASSUME s # {} PROVE \E r \in s : \A q \in s : AtLeast(r, q)
    OBVIOUS
  <2>0. \A r \in s : r.from \in Nat /\ r.created \in Nat
    BY RuleFields
  <2>1. PICK x \in s : TRUE
    OBVIOUS
  <2>2. CASE s = {x}
    <3>1. \A q \in s : AtLeast(x, q)
      BY <2>0, <2>2
    <3> QED
      BY <2>1, <3>1
  <2>3. CASE s # {x}
    <3>1. PICK m \in s \ {x} : \A q \in s \ {x} : AtLeast(m, q)
      BY <1>1, <2>1, <2>3
    <3>2. AtLeast(m, x) \/ AtLeast(x, m)
      BY <2>0, <2>1
    <3>3. CASE AtLeast(m, x)
      BY <3>1, <3>3
    <3>4. CASE AtLeast(x, m)
      <4>1. \A q \in s : AtLeast(x, q)
        BY <2>0, <2>1, <3>1, <3>4
      <4> QED
        BY <2>1, <4>1
    <3> QED
      BY <3>2, <3>3, <3>4
  <2> QED
    BY <2>2, <2>3
<1>2. R \in Q
  <2>1. R \in SUBSET R
    OBVIOUS
  <2> HIDE DEF Q
  <2> QED
    BY <1>1, <2>1, InductionOnSubsets
<1>3. \E r \in R : \A q \in R : AtLeast(r, q)
  BY <1>2
<1> QED
  BY <1>3 DEF Latest

\* Rules are finitely many.
PricingInd == PricingTypeOK /\ IsFiniteSet(rules)

LEMMA RuleFound ==
    ASSUME PricingInd, NEW s, NEW d
    PROVE  RuleOn(s, d) = NoRule \/ (RuleOn(s, d) \in RuleRow /\ RuleOn(s, d) \in RulesOf(s))
<1> DEFINE R == {r \in RulesOf(s) : r.from <= d /\ (r.to = Open \/ d <= r.to)}
<1>1. R \in SUBSET RuleRow /\ IsFiniteSet(R) /\ R \subseteq RulesOf(s)
  <2>1. R \subseteq rules /\ R \subseteq RulesOf(s)
    BY DEF RulesOf
  <2> QED
    BY <2>1, FS_Subset DEF PricingInd, PricingTypeOK
<1>2. RuleOn(s, d) = Latest(R)
  BY DEF RuleOn
<1> HIDE DEF R
<1>3. CASE R = {}
  BY <1>2, <1>3 DEF Latest
<1>4. CASE R # {}
  BY <1>1, <1>2, <1>4, LatestIsOne
<1> QED
  BY <1>3, <1>4

LEMMA PricingStarts == PricingInit => PricingInd
<1> SUFFICES ASSUME PricingInit PROVE PricingInd
  OBVIOUS
<1>1. rules = {} /\ IsFiniteSet(rules)
  BY FS_EmptySet DEF PricingInit
<1>2. cart \in Seq(Item)
  BY PricingAssumption DEF PricingInit
<1>3. \A k \in Clerk : adding[k] = Idle
  BY DEF PricingInit
<1> QED
  BY <1>1, <1>2, <1>3 DEF PricingInd, PricingTypeOK

LEMMA PricingKept == PricingInd /\ [PricingNext]_pricingVars => PricingInd'
<1> SUFFICES ASSUME PricingInd, [PricingNext]_pricingVars PROVE PricingInd'
  OBVIOUS
<1>0. /\ rules \subseteq RuleRow /\ IsFiniteSet(rules) /\ cart \in Seq(Item)
      /\ \A k \in Clerk : \/ adding[k] = Idle
                           \/ adding[k] \in [space : PricedSpace, content : RuleContent]
  BY DEF PricingInd, PricingTypeOK
<1>1. ASSUME NEW k \in Clerk, NEW s \in PricedSpace, NEW c \in RuleContent,
             AddRuleCheck(k, s, c)
      PROVE  PricingInd'
  <2>1. rules' = rules /\ cart' = cart
    BY <1>1 DEF AddRuleCheck
  <2>2. \A j \in Clerk : \/ adding'[j] = Idle
                         \/ adding'[j] \in [space : PricedSpace, content : RuleContent]
    <3> TAKE j \in Clerk
    <3>1. adding' = [adding EXCEPT ![k] = [space |-> s, content |-> c]]
      BY <1>1 DEF AddRuleCheck
    <3>2. adding'[j] = adding[j] \/ adding'[j] = [space |-> s, content |-> c]
      BY <3>1
    <3> QED
      BY <1>0, <3>2
  <2> QED
    BY <1>0, <2>1, <2>2 DEF PricingInd, PricingTypeOK
<1>2. ASSUME NEW k \in Clerk, AddRuleCommit(k) PROVE PricingInd'
  <2> DEFINE c == adding[k].content
             new == [space |-> adding[k].space, base6 |-> c.base6, base12 |-> c.base12,
                     extra |-> c.extra, from |-> c.from, to |-> c.to,
                     created |-> Cardinality(rules)]
  <2>1. rules' = rules \cup {new} /\ cart' = cart /\ adding' = [adding EXCEPT ![k] = Idle]
    BY <1>2 DEF AddRuleCommit
  <2>2. new \in RuleRow
    <3>1. adding[k].space \in PricedSpace /\ c \in RuleContent
      BY <1>0, <1>2 DEF AddRuleCommit
    <3>2. /\ c.base6 \in Nat /\ c.base12 \in Nat /\ c.extra \in Nat
          /\ c.from \in Fecha /\ c.to \in Fecha \cup {Open}
      BY <3>1, PricingAssumption
    <3>3. Cardinality(rules) \in Nat
      BY <1>0, FS_CardinalityType
    <3> HIDE DEF c
    <3> QED
      BY <3>1, <3>2, <3>3 DEF RuleRow
  <2>3. IsFiniteSet(rules')
    BY <1>0, <2>1, FS_AddElement
  <2>4. \A j \in Clerk : adding'[j] = adding[j] \/ adding'[j] = Idle
    BY <2>1
  <2> HIDE DEF new
  <2> QED
    BY <1>0, <2>1, <2>2, <2>3, <2>4 DEF PricingInd, PricingTypeOK
<1>3. ASSUME NEW s \in PricedSpace, NEW c \in RuleContent, NEW fields \in Patch,
             UpdateRule(s, c, fields)
      PROVE  PricingInd'
  <2> DEFINE old == Latest(RulesOf(s))
             new == [f \in DOMAIN old |-> IF f \in fields THEN c[f] ELSE old[f]]
  <2>1. rules' = (rules \ {old}) \cup {new} /\ cart' = cart /\ adding' = adding
    BY <1>3 DEF UpdateRule
  <2>2. old \in RuleRow
    <3>1. RulesOf(s) # {} /\ RulesOf(s) \subseteq rules
      BY <1>3 DEF UpdateRule, RulesOf
    <3>2. IsFiniteSet(RulesOf(s)) /\ RulesOf(s) \in SUBSET RuleRow
      BY <1>0, <3>1, FS_Subset
    <3>3. old \in RulesOf(s)
      BY <3>1, <3>2, LatestIsOne
    <3> QED
      BY <3>2, <3>3
  <2>3. new \in RuleRow
    <3>1. fields \subseteq {"base6", "base12", "extra", "from", "to"}
      BY PricingAssumption
    <3>2. /\ c["base6"] \in Nat /\ c["base12"] \in Nat /\ c["extra"] \in Nat
          /\ c["from"] \in Fecha /\ c["to"] \in Fecha \cup {Open}
      BY PricingAssumption
    <3>3. DOMAIN old = {"space", "base6", "base12", "extra", "from", "to", "created"}
      BY <2>2 DEF RuleRow
    <3>4. /\ old["space"] \in PricedSpace /\ old["base6"] \in Nat /\ old["base12"] \in Nat
          /\ old["extra"] \in Nat /\ old["from"] \in Fecha
          /\ old["to"] \in Fecha \cup {Open} /\ old["created"] \in Nat
      BY <2>2 DEF RuleRow
    <3> HIDE DEF old
    <3>5. new = [space |-> new["space"], base6 |-> new["base6"], base12 |-> new["base12"],
                 extra |-> new["extra"], from |-> new["from"], to |-> new["to"],
                 created |-> new["created"]]
      BY <3>3
    <3>6. /\ new["space"] \in PricedSpace /\ new["created"] \in Nat
          /\ new["base6"] \in Nat /\ new["base12"] \in Nat
      BY <3>1, <3>2, <3>3, <3>4
    <3>7. /\ new["extra"] \in Nat /\ new["from"] \in Fecha /\ new["to"] \in Fecha \cup {Open}
      BY <3>2, <3>3, <3>4
    <3> HIDE DEF new
    <3> QED
      BY <3>5, <3>6, <3>7 DEF RuleRow
  <2>4. IsFiniteSet(rules')
    <3>1. IsFiniteSet(rules \ {old})
      BY <1>0, FS_Subset
    <3> QED
      BY <2>1, <3>1, FS_AddElement
  <2> HIDE DEF new, old
  <2> QED
    BY <1>0, <2>1, <2>3, <2>4 DEF PricingInd, PricingTypeOK
<1>4. ASSUME UNCHANGED pricingVars PROVE PricingInd'
  BY <1>0, <1>4 DEF pricingVars, PricingInd, PricingTypeOK
<1> QED
  BY <1>1, <1>2, <1>3, <1>4 DEF PricingNext

-----------------------------------------------------------------------------
(* Shares and lines.                                                       *)

LEMMA PackagePriceType ==
    ASSUME NEW h \in Int, NEW r \in RuleRow PROVE PackagePrice(h, r) \in Int
<1> DEFINE n12 == IF r.base12 > 0 THEN h \div 24 ELSE 0
           n6 == IF r.base6 > 0 THEN (h - 24 * n12) \div 12 ELSE 0
           left == h - 24 * n12 - 12 * n6
<1>0. PackagePrice(h, r) = n12 * r.base12 + n6 * r.base6 + RoundDiv(left * r.extra, 2)
  BY DEF PackagePrice
<1>1. r.base6 \in Int /\ r.base12 \in Int /\ r.extra \in Int
  BY RuleFields
<1>2. n12 \in Int
  BY <1>1
<1> HIDE DEF n12
<1>3. n6 \in Int
  BY <1>1, <1>2
<1> HIDE DEF n6
<1>4. left \in Int
  BY <1>2, <1>3
<1> HIDE DEF left
<1>5. left * r.extra \in Int /\ n12 * r.base12 \in Int /\ n6 * r.base6 \in Int
  BY <1>1, <1>2, <1>3, <1>4
<1>6. RoundDiv(left * r.extra, 2) \in Int
  <2> DEFINE a == left * r.extra
  <2>1. a \in Int
    BY <1>5
  <2> HIDE DEF a
  <2>2. RoundDiv(a, 2) \in Int
    BY <2>1, RoundDivNear
  <2> QED
    BY <2>2 DEF a
<1> DEFINE x == n12 * r.base12
           y == n6 * r.base6
           z == RoundDiv(left * r.extra, 2)
<1>7. x \in Int /\ y \in Int /\ z \in Int /\ PackagePrice(h, r) = x + y + z
  BY <1>0, <1>5, <1>6
<1> HIDE DEF x, y, z
<1> QED
  BY <1>7

LEMMA HybridPriceType ==
    ASSUME NEW h \in Int, NEW r \in RuleRow PROVE HybridPrice(h, r) \in Int
<1>1. r.base6 \in Int /\ r.base12 \in Int /\ r.extra \in Int
  BY RuleFields
<1>2. (h - 24) * r.extra \in Int
  BY <1>1
<1>3. RoundDiv((h - 24) * r.extra, 2) \in Int
  BY <1>2, RoundDivNear
<1> QED
  BY <1>1, <1>3 DEF HybridPrice

\* The shares of a block of a cart that has a price.
LEMMA SharesOfBlock ==
    ASSUME PricingInd, NEW c \in Seq(Item), Priceable(c), NEW b \in AllBlocks(c),
           NEW share, share = Allocate(BlockPrice(c, b), Lengths(c, b), LatestIn(c, b))
    PROVE  /\ BlockPrice(c, b) \in Int
           /\ \A i \in b : ItemPrices(c)[i] = share[i]
           /\ SharedOut(b, Lengths(c, b), BlockPrice(c, b), share)
<1> DEFINE o == Earliest(c, b)
           w == Lengths(c, b)
           last == LatestIn(c, b)
           price == BlockPrice(c, b)
<1>1. b \in SUBSET DOMAIN c /\ IsFiniteSet(b) /\ o \in b /\ last \in b
  BY BlockFound
<1>2. Total(w) = BlockLength(c, b) /\ BlockLength(c, b) \in Int /\ \A i \in b : w[i] \in Int
  BY BlockTelescopes
<1>3. BlockLength(c, b) > 0
  BY DEF Priceable
<1>4. price \in Int
  <2>1. RuleOn(c[o].space, c[o].fecha) # NoRule
    BY <1>1 DEF Priceable
  <2>2. RuleOn(c[o].space, c[o].fecha) \in RuleRow
    BY <2>1, RuleFound
  <2> QED
    BY <1>2, <2>2, PackagePriceType DEF BlockPrice
<1>5. DOMAIN w = b
  BY DEF Lengths
<1>6. \A i \in b : ItemPrices(c)[i] = share[i]
  <2> TAKE i \in b
  <2> DEFINE k == CHOOSE x \in AllBlocks(c) : i \in x
  <2>1. k \in AllBlocks(c) /\ i \in k
    OBVIOUS
  <2>2. k = b
    BY <2>1, OneBlockEach
  <2>3. ItemPrices(c)[i] = Allocate(BlockPrice(c, k), Lengths(c, k), LatestIn(c, k))[i]
    BY <1>1 DEF ItemPrices
  <2> HIDE DEF k
  <2> QED
    BY <2>2, <2>3
<1> HIDE DEF o, w, last, price
<1>7. SharedOut(b, w, price, share)
  <2>1. share = Allocate(price, w, last)
    BY DEF price, w, last
  <2>2. Total(w) > 0
    BY <1>2, <1>3
  <2>3. \A x \in b : w[x] \in Int
    BY <1>2
  <2>4. SharedOut(b, w, price, Allocate(price, w, last))
    BY <1>1, <1>4, <1>5, <2>2, <2>3, AllocateAddsUp
  <2> QED
    BY <2>1, <2>4
<1> QED
  BY <1>4, <1>6, <1>7 DEF w, price

\* A block is as long as its slots, and its shares are its price.
LEMMA SharesAddToPrice == ASSUME PricingInd PROVE SharesAddUp
<1> SUFFICES ASSUME Priceable(cart), NEW b \in AllBlocks(cart)
    PROVE  LET share == ItemPrices(cart)
               price == BlockPrice(cart, b)
               hours == Total(Lengths(cart, b))
               slack == hours * Cardinality(b)
           IN  /\ Total([i \in b |-> share[i]]) = price
               /\ \A i \in b :
                     2 * (hours * share[i] - price * Lengths(cart, b)[i]) \in -slack .. slack
  BY DEF SharesAddUp
<1> DEFINE share == ItemPrices(cart)
           price == BlockPrice(cart, b)
           hours == Total(Lengths(cart, b))
           slack == hours * Cardinality(b)
           sh == Allocate(price, Lengths(cart, b), LatestIn(cart, b))
           g == [i \in b |-> share[i]]
<1>0. cart \in Seq(Item)
  BY DEF PricingInd, PricingTypeOK
<1>1. /\ price \in Int
      /\ \A i \in b : share[i] = sh[i] /\ sh[i] \in Int
      /\ SumFunctionOnSet(sh, b) = price
      /\ hours \in Int /\ Cardinality(b) \in Nat
      /\ \A i \in b :
           LET d == 2 * (hours * sh[i] - price * Lengths(cart, b)[i])
           IN -slack <= d /\ d <= slack
  BY <1>0, SharesOfBlock DEF SharedOut
<1>2. \A i \in b : Lengths(cart, b)[i] \in Int
  BY <1>0, BlockTelescopes
<1>3. IsFiniteSet(b)
  BY <1>0, BlockFound
<1> HIDE DEF share, price, hours, sh
<1>4. Total(g) = price
  <2>1. \A i \in b : sh[i] \in Int /\ sh[i] = g[i]
    BY <1>1
  <2>2. DOMAIN g = b
    OBVIOUS
  <2> HIDE DEF g
  <2>3. SumFunctionOnSet(sh, b) = SumFunctionOnSet(g, b)
    BY <1>3, <2>1, SumSame
  <2> QED
    BY <1>1, <2>2, <2>3 DEF Total, SumFunction
<1>5. ASSUME NEW i \in b
      PROVE  2 * (hours * share[i] - price * Lengths(cart, b)[i]) \in -slack .. slack
  <2> DEFINE l == Lengths(cart, b)[i]
             d == 2 * (hours * sh[i] - price * l)
  <2>1. -slack <= d /\ d <= slack /\ share[i] = sh[i] /\ sh[i] \in Int
    BY <1>1
  <2>2. hours * sh[i] \in Int /\ price * l \in Int /\ slack \in Int
    BY <1>1, <1>2, <2>1
  <2>3. d \in Int
    BY <2>2
  <2>4. 2 * (hours * share[i] - price * Lengths(cart, b)[i]) = d
    BY <2>1
  <2> HIDE DEF d, slack
  <2> QED
    BY <2>1, <2>2, <2>3, <2>4
<1> QED
  BY <1>4, <1>5 DEF share, price, hours

\* A quote is the sum of the packages of the blocks.
LEMMA QuoteOfBlocks ==
    ASSUME PricingInd, NEW c \in Seq(Item), Priceable(c),
           NEW f, \A b \in AllBlocks(c) : f[b] = BlockPrice(c, b)
    PROVE  /\ QuoteTotal(c) = SumFunctionOnSet(f, AllBlocks(c))
           /\ \A b \in AllBlocks(c) : f[b] \in Int
<1> DEFINE D == DOMAIN c
           B == AllBlocks(c)
           ip == ItemPrices(c)
<1>1. ASSUME NEW b \in B
      PROVE  /\ f[b] \in Int /\ f[b] = SumFunctionOnSet(ip, b)
             /\ \A i \in b : ip[i] \in Int
  <2> DEFINE share == Allocate(BlockPrice(c, b), Lengths(c, b), LatestIn(c, b))
  <2>1. /\ BlockPrice(c, b) \in Int
        /\ \A i \in b : ip[i] = share[i] /\ share[i] \in Int
        /\ SumFunctionOnSet(share, b) = BlockPrice(c, b)
    BY SharesOfBlock DEF SharedOut
  <2>2. b \in SUBSET D /\ IsFiniteSet(b)
    BY BlockFound
  <2> HIDE DEF share, ip
  <2>3. SumFunctionOnSet(ip, b) = SumFunctionOnSet(share, b)
    BY <2>1, <2>2, SumSame
  <2> QED
    BY <2>1, <2>2, <2>3
<1>2. \A i \in D : ip[i] \in Int
  <2> HIDE DEF ip
  <2> QED
    BY <1>1, OneBlockEach
<1>3. QuoteTotal(c) = SumFunctionOnSet(f, B)
  <2>1. DOMAIN ip = D
    BY DEF ItemPrices
  <2>2. QuoteTotal(c) = SumFunctionOnSet(ip, D)
    BY <2>1 DEF QuoteTotal, Total, SumFunction
  <2>3. \A b \in B : f[b] = SumFunctionOnSet(ip, b)
    BY <1>1
  <2> HIDE DEF ip
  <2>4. SumFunctionOnSet(f, B) = SumFunctionOnSet(ip, D)
    BY <1>2, <2>3, SumByBlocks
  <2> QED
    BY <2>2, <2>4
<1> QED
  BY <1>1, <1>3

\* The lines of an event add up to its slots.
LEMMA LinesAddToSubtotal == ASSUME PricingInd PROVE EventLinesAgree
<1> SUFFICES ASSUME EventPriceable(cart)
    PROVE  /\ Total(LineItems(cart)) = EventSubtotal(cart)
           /\ SummaryHours(cart) = Total(Lengths(cart, DOMAIN cart))
  BY DEF EventLinesAgree
<1> DEFINE c == cart
           D == DOMAIN cart
           price == [i \in D |-> SlotPrice(c[i])]
           hours == Lengths(c, D)
<1>0. c \in Seq(Item) /\ IsFiniteSet(D)
  <2>1. c \in Seq(Item)
    BY DEF PricingInd, PricingTypeOK
  <2> QED
    BY <2>1, SlotsFinite
<1>1. \A i \in D : price[i] \in Int
  <2> TAKE i \in D
  <2>1. c[i].fin \in Int /\ c[i].inicio \in Int
    BY <1>0, SlotTypes
  <2>2. RuleOn(c[i].space, c[i].fecha) \in RuleRow
    BY RuleFound DEF EventPriceable
  <2> QED
    BY <2>1, <2>2, HybridPriceType DEF SlotPrice
<1>2. \A i \in D : hours[i] \in Int /\ hours[i] > 0 /\ hours[i] = c[i].fin - c[i].inicio
  <2> TAKE i \in D
  <2>1. c[i].fin \in Int /\ c[i].inicio \in Int
    BY <1>0, SlotTypes
  <2>2. c[i].inicio < c[i].fin
    BY DEF EventPriceable
  <2> QED
    BY <2>1, <2>2 DEF Lengths
<1> DEFINE lines == LineItems(c)
           summary == [b \in AllBlocks(c) |-> IF BlockLength(c, b) > 0 THEN BlockLength(c, b) ELSE 0]
<1>3. \A b \in AllBlocks(c) : lines[b] = SumFunctionOnSet(price, b)
  <2> TAKE b \in AllBlocks(c)
  <2> DEFINE g == [i \in b |-> SlotPrice(c[i])]
  <2>1. b \in SUBSET D /\ IsFiniteSet(b)
    BY <1>0, BlockFound
  <2>2. \A i \in b : price[i] \in Int /\ price[i] = g[i]
    BY <1>1, <2>1
  <2>3. lines[b] = SumFunctionOnSet(g, b)
    BY DEF LineItems, Total, SumFunction
  <2> HIDE DEF price, g
  <2>4. SumFunctionOnSet(price, b) = SumFunctionOnSet(g, b)
    BY <2>1, <2>2, SumSame
  <2> QED
    BY <2>3, <2>4
<1>4. \A b \in AllBlocks(c) : summary[b] = SumFunctionOnSet(hours, b)
  <2> TAKE b \in AllBlocks(c)
  <2> DEFINE g == Lengths(c, b)
  <2>1. b \in SUBSET D /\ IsFiniteSet(b) /\ b # {}
    BY <1>0, BlockFound
  <2>2. /\ SumFunctionOnSet(g, b) = BlockLength(c, b)
        /\ BlockLength(c, b) \in Int
        /\ \A i \in b : g[i] = c[i].fin - c[i].inicio
    BY <1>0, BlockTelescopes
  <2>3. \A i \in b : hours[i] \in Int /\ hours[i] = g[i] /\ hours[i] \in Nat /\ hours[i] > 0
    BY <1>2, <2>1, <2>2
  <2> HIDE DEF hours, g
  <2>4. SumFunctionOnSet(hours, b) = SumFunctionOnSet(g, b)
    BY <2>1, <2>3, SumSame
  <2>5. SumFunctionOnSet(hours, b) > 0
    <3>1. PICK i \in b : TRUE
      BY <2>1
    <3>2. \A x \in b : hours[x] \in Int
      BY <2>3
    <3>3. SumFunctionOnSet(hours, b) = hours[i] + SumFunctionOnSet(hours, b \ {i})
      BY <2>1, <3>2, SumWithout
    <3>4. \A x \in b : hours[x] \in Nat
      BY <2>3
    <3>5. b \ {i} \in SUBSET b
      OBVIOUS
    <3>6. SumFunctionOnSet(hours, b \ {i}) \in Nat
      BY <2>1, <3>4, <3>5, SumOfPart
    <3>7. hours[i] \in Nat /\ hours[i] > 0
      BY <2>3
    <3> QED
      BY <3>3, <3>6, <3>7
  <2> QED
    BY <2>2, <2>4, <2>5
<1>5. /\ DOMAIN lines = AllBlocks(c) /\ DOMAIN summary = AllBlocks(c)
      /\ DOMAIN price = D /\ DOMAIN hours = D
  BY DEF LineItems, Lengths
<1>6. EventSubtotal(cart) = Total(price)
  BY DEF EventSubtotal
<1>7. SummaryHours(cart) = Total(summary)
  BY DEF SummaryHours
<1> HIDE DEF lines, summary, price, hours
<1>8. SumFunctionOnSet(lines, AllBlocks(c)) = SumFunctionOnSet(price, D)
  BY <1>0, <1>1, <1>3, SumByBlocks
<1>9. SumFunctionOnSet(summary, AllBlocks(c)) = SumFunctionOnSet(hours, D)
  <2>1. \A i \in D : hours[i] \in Int
    BY <1>2
  <2> QED
    BY <1>0, <1>4, <2>1, SumByBlocks
<1>10. Total(lines) = Total(price)
  BY <1>5, <1>8 DEF Total, SumFunction
<1>11. Total(summary) = Total(hours)
  BY <1>5, <1>9 DEF Total, SumFunction
<1> QED
  BY <1>6, <1>7, <1>10, <1>11 DEF lines, hours

-----------------------------------------------------------------------------
(* The table of a cart: packages and hours of each block.                  *)

\* A multiple divides without rounding.
LEMMA RoundDivExact ==
    ASSUME NEW b \in Nat, b > 0, NEW q \in Int PROVE RoundDiv(b * q, b) = q
<1> DEFINE a == b * q
           d == RoundDiv(a, b)
           m == d - q
<1>1. a \in Int
  OBVIOUS
<1>2. d \in Int /\ -b <= 2 * (b * d - a) /\ 2 * (b * d - a) <= b
  <2> HIDE DEF a
  <2> QED
    BY <1>1, RoundDivNear
<1>3. b * d - a = b * m
  <2> HIDE DEF d
  <2> QED
    BY <1>2
<1>4. m \in Int /\ b * m \in Int
  <2>1. m \in Int
    BY <1>2
  <2> HIDE DEF m
  <2> QED
    BY <2>1
<1> HIDE DEF d, a
<1>5. ASSUME m >= 1 PROVE FALSE
  <2>1. b * m >= b
    <3> HIDE DEF m
    <3>1. PICK j \in Nat : m = j + 1
      <4>1. m - 1 \in Nat /\ m = (m - 1) + 1
        BY <1>4, <1>5
      <4> QED
        BY <4>1
    <3>2. b * (j + 1) = b * j + b
      OBVIOUS
    <3>3. \A i, k \in Nat : i * k >= 0
      OBVIOUS
    <3> QED
      BY <3>1, <3>2, <3>3
  <2> HIDE DEF m
  <2> QED
    BY <1>2, <1>3, <1>4, <2>1
<1>6. ASSUME m <= -1 PROVE FALSE
  <2>1. b * m <= -b
    <3> HIDE DEF m
    <3>1. PICK j \in Nat : m = -(j + 1)
      <4>1. -m - 1 \in Nat /\ m = -((-m - 1) + 1)
        BY <1>4, <1>6
      <4> QED
        BY <4>1
    <3>2. b * (-(j + 1)) = -(b * j) - b
      OBVIOUS
    <3>3. \A i, k \in Nat : i * k >= 0
      OBVIOUS
    <3>4. b * j >= 0 /\ b * j \in Int
      BY <3>3
    <3> QED
      BY <3>1, <3>2, <3>4
  <2> HIDE DEF m
  <2> QED
    BY <1>2, <1>3, <1>4, <2>1
<1>7. m = 0
  <2> HIDE DEF m
  <2> QED
    BY <1>4, <1>5, <1>6
<1>8. d = q
  BY <1>2, <1>7
<1> QED
  BY <1>8 DEF d, a

\* Catalog prices, and the counts of a block's packages and half hours.
PriceRow == [hora : Nat, seis : Nat, doce : Nat]

SegmentKinds == {"h12", "h6", "hora"}

Packed(h, p) ==
    LET n12 == IF p.doce > 0 THEN h \div 24 ELSE 0
        n6 == IF p.seis > 0 THEN (h - 24 * n12) \div 12 ELSE 0
    IN [h12 |-> n12, h6 |-> n6,
        hora |-> IF p.hora > 0 THEN h - 24 * n12 - 12 * n6 ELSE 0]

Timed(h) == [h12 |-> h \div 24, h6 |-> (h % 24) \div 12, hora |-> h % 12]

Nothing(n) == n.h12 = 0 /\ n.h6 = 0 /\ n.hora = 0

Counts(h, p) ==
    LET n == IF p.doce > 0 \/ p.seis > 0 THEN Packed(h, p) ELSE Timed(h)
    IN IF Nothing(n) THEN [h12 |-> 0, h6 |-> 0, hora |-> IF h > 2 THEN h ELSE 2] ELSE n

CountRow == [h12 : Nat, h6 : Nat, hora : Nat]

SegmentsOf(n) == {[kind |-> k, qty |-> n[k]] : k \in {x \in SegmentKinds : n[x] > 0}}

LEMMA SomeOfEach ==
    ASSUME NEW n \in CountRow
    PROVE  /\ SegmentsOf(n) = Some("h12", n.h12) \cup Some("h6", n.h6) \cup Some("hora", n.hora)
           /\ (SegmentsOf(n) = {}) <=> Nothing(n)
<1>1. n.h12 \in Nat /\ n.h6 \in Nat /\ n.hora \in Nat
  BY DEF CountRow
<1>2. SegmentsOf(n) = Some("h12", n.h12) \cup Some("h6", n.h6) \cup Some("hora", n.hora)
  <2>0. n.h12 = n["h12"] /\ n.h6 = n["h6"] /\ n.hora = n["hora"]
    OBVIOUS
  <2>1. ASSUME NEW k \in SegmentKinds, n[k] > 0
        PROVE  [kind |-> k, qty |-> n[k]] \in
                 Some("h12", n.h12) \cup Some("h6", n.h6) \cup Some("hora", n.hora)
    <3>1. [kind |-> k, qty |-> n[k]] \in Some(k, n[k])
      BY <2>1 DEF Some
    <3>2. k = "h12" \/ k = "h6" \/ k = "hora"
      BY DEF SegmentKinds
    <3> QED
      BY <2>0, <3>1, <3>2
  <2>2. ASSUME NEW k \in SegmentKinds PROVE Some(k, n[k]) \subseteq SegmentsOf(n)
    BY DEF Some, SegmentsOf
  <2>3. Some("h12", n.h12) \cup Some("h6", n.h6) \cup Some("hora", n.hora) \subseteq SegmentsOf(n)
    BY <2>0, <2>2 DEF SegmentKinds
  <2>4. SegmentsOf(n) \subseteq
          Some("h12", n.h12) \cup Some("h6", n.h6) \cup Some("hora", n.hora)
    BY <2>1 DEF SegmentsOf
  <2> QED
    BY <2>3, <2>4
<1>3. (SegmentsOf(n) = {}) <=> Nothing(n)
  <2>1. ASSUME NEW k, NEW m \in Nat PROVE (Some(k, m) = {}) <=> (m = 0)
    <3>1. CASE m = 0
      BY <3>1 DEF Some
    <3>2. CASE m > 0
      <4>1. [kind |-> k, qty |-> m] \in Some(k, m)
        BY <3>2 DEF Some
      <4> QED
        BY <3>2, <4>1
    <3> QED
      BY <3>1, <3>2
  <2> DEFINE A == Some("h12", n.h12)
             B == Some("h6", n.h6)
             C == Some("hora", n.hora)
  <2>2. (A = {} <=> n.h12 = 0) /\ (B = {} <=> n.h6 = 0) /\ (C = {} <=> n.hora = 0)
    BY <1>1, <2>1
  <2>3. SegmentsOf(n) = (A \cup B) \cup C
    BY <1>2
  <2> HIDE DEF A, B, C
  <2>4. ((A \cup B) \cup C = {}) <=> (A = {} /\ B = {} /\ C = {})
    OBVIOUS
  <2>5. (SegmentsOf(n) = {}) <=> (A = {} /\ B = {} /\ C = {})
    BY <2>3, <2>4, Zenon
  <2> QED
    BY <2>2, <2>5 DEF Nothing
<1> QED
  BY <1>2, <1>3

LEMMA PackedCounts ==
    ASSUME NEW p \in PriceRow, NEW h \in Nat, h % 2 = 0
    PROVE  /\ Packed(h, p) \in CountRow /\ Packed(h, p).hora % 2 = 0
           /\ PackageSegments(h, p) = SegmentsOf(Packed(h, p))
<1> DEFINE n12 == IF p.doce > 0 THEN h \div 24 ELSE 0
           n6 == IF p.seis > 0 THEN (h - 24 * n12) \div 12 ELSE 0
           left == h - 24 * n12 - 12 * n6
           n == Packed(h, p)
<1>0. p.hora \in Nat /\ p.seis \in Nat /\ p.doce \in Nat
  BY DEF PriceRow
<1>a. n = [h12 |-> n12, h6 |-> n6, hora |-> IF p.hora > 0 THEN left ELSE 0]
  BY DEF Packed
<1>b. PackageSegments(h, p) = Some("h12", n12) \cup Some("h6", n6)
                              \cup Some("hora", IF p.hora > 0 THEN left ELSE 0)
  BY DEF PackageSegments
<1>1. n12 \in Nat /\ h - 24 * n12 >= 0
  BY <1>0
<1> HIDE DEF n12
<1>2. n6 \in Nat /\ left \in Nat /\ left % 2 = 0
  BY <1>0, <1>1
<1> HIDE DEF n6, left, n
<1>3. n \in CountRow /\ n.hora % 2 = 0
  BY <1>a, <1>1, <1>2 DEF CountRow
<1>4. n.h12 = n12 /\ n.h6 = n6 /\ n.hora = IF p.hora > 0 THEN left ELSE 0
  BY <1>a
<1>5. PackageSegments(h, p) = SegmentsOf(n)
  BY <1>b, <1>3, <1>4, SomeOfEach, Zenon
<1> QED
  BY <1>3, <1>5 DEF n

LEMMA TimedCounts ==
    ASSUME NEW h \in Nat, h > 0, h % 2 = 0
    PROVE  /\ Timed(h) \in CountRow /\ Timed(h).hora % 2 = 0 /\ ~ Nothing(Timed(h))
           /\ TimeSegments(h) = SegmentsOf(Timed(h))
           /\ h = 24 * Timed(h).h12 + 12 * Timed(h).h6 + Timed(h).hora
<1>1. /\ h \div 24 \in Nat /\ (h % 24) \div 12 \in Nat /\ h % 12 \in Nat
      /\ (h % 12) % 2 = 0
      /\ h = 24 * (h \div 24) + 12 * ((h % 24) \div 12) + (h % 12)
  <2> DEFINE a == h \div 24
             b == h % 24
             x == b \div 12
             d == b % 12
             q == h \div 12
             e == h % 12
  <2>1. a \in Nat /\ b \in Nat /\ h = 24 * a + b /\ b < 24
    OBVIOUS
  <2>2. q \in Nat /\ e \in Nat /\ h = 12 * q + e /\ e < 12
    OBVIOUS
  <2>3. x \in Nat /\ d \in Nat /\ b = 12 * x + d /\ d < 12
    <3> HIDE DEF b
    <3> QED
      BY <2>1
  <2> HIDE DEF a, b, x, d, q, e
  <2>4. d = e
    BY <2>1, <2>2, <2>3
  <2>5. e % 2 = 0
    BY <2>2
  <2>6. h = 24 * a + 12 * x + e
    BY <2>1, <2>3, <2>4
  <2> QED
    BY <2>1, <2>2, <2>3, <2>5, <2>6 DEF a, b, x, q, e
<1>2. Timed(h) \in CountRow /\ Timed(h).hora % 2 = 0 /\ ~ Nothing(Timed(h))
  BY <1>1 DEF Timed, CountRow, Nothing
<1>3. TimeSegments(h) = SegmentsOf(Timed(h))
  BY <1>2, SomeOfEach DEF TimeSegments, Timed
<1>4. h = 24 * Timed(h).h12 + 12 * Timed(h).h6 + Timed(h).hora
  BY <1>1 DEF Timed
<1> QED
  BY <1>2, <1>3, <1>4

LEMMA SegmentsCounted ==
    ASSUME NEW p \in PriceRow, NEW h \in Nat, h > 0, h % 2 = 0
    PROVE  /\ Counts(h, p) \in CountRow /\ Counts(h, p).hora % 2 = 0
           /\ Segments(h, p) = SegmentsOf(Counts(h, p))
<1> DEFINE packages == p.doce > 0 \/ p.seis > 0
           n == IF packages THEN Packed(h, p) ELSE Timed(h)
           least == [h12 |-> 0, h6 |-> 0, hora |-> IF h > 2 THEN h ELSE 2]
           found == IF packages THEN PackageSegments(h, p) ELSE TimeSegments(h)
<1>1. n \in CountRow /\ n.hora % 2 = 0 /\ found = SegmentsOf(n)
  <2>1. CASE packages
    <3>1. n = Packed(h, p) /\ found = PackageSegments(h, p)
      BY <2>1
    <3> QED
      BY <3>1, PackedCounts
  <2>2. CASE ~ packages
    <3>1. n = Timed(h) /\ found = TimeSegments(h)
      BY <2>2
    <3> QED
      BY <3>1, TimedCounts
  <2> QED
    BY <2>1, <2>2
<1>2. least \in CountRow /\ least.hora % 2 = 0
  BY DEF CountRow
<1>3. {[kind |-> "hora", qty |-> IF h > 2 THEN h ELSE 2]} = SegmentsOf(least)
  <2>1. SegmentsOf(least) = Some("h12", 0) \cup Some("h6", 0)
                            \cup Some("hora", IF h > 2 THEN h ELSE 2)
    BY <1>2, SomeOfEach
  <2> QED
    BY <2>1 DEF Some
<1>4. Counts(h, p) = IF Nothing(n) THEN least ELSE n
  BY DEF Counts
<1>5. Segments(h, p) = IF found # {} THEN found
                       ELSE {[kind |-> "hora", qty |-> IF h > 2 THEN h ELSE 2]}
  BY DEF Segments
<1> HIDE DEF n, found, least
<1>6. (found = {}) <=> Nothing(n)
  BY <1>1, SomeOfEach
<1>7. CASE Nothing(n)
  BY <1>2, <1>3, <1>4, <1>5, <1>6, <1>7
<1>8. CASE ~ Nothing(n)
  BY <1>1, <1>4, <1>5, <1>6, <1>8
<1> QED
  BY <1>7, <1>8

\* What a number of packages or half hours costs, in pesos.
Cost(k, q, p) == Extend(k, q, UnitPrice(k, p))

LEMMA UnitPriceType ==
    ASSUME NEW p \in PriceRow, NEW k \in SegmentKinds PROVE UnitPrice(k, p) \in Int
<1>1. \A a \in Int : Pesos(a) \in Int
  BY RoundDivNear DEF Pesos
<1>2. p.hora \in Nat /\ p.seis \in Nat /\ p.doce \in Nat
  BY DEF PriceRow
<1>3. /\ Pesos(p.doce) \in Int /\ Pesos(2 * p.seis) \in Int /\ Pesos(12 * p.hora) \in Int
      /\ Pesos(p.seis) \in Int /\ Pesos(6 * p.hora) \in Int /\ Pesos(p.hora) \in Int
  <2>1. /\ 2 * p.seis \in Int /\ 12 * p.hora \in Int /\ 6 * p.hora \in Int
        /\ p.doce \in Int /\ p.seis \in Int /\ p.hora \in Int
    BY <1>2
  <2> QED
    BY <1>1, <2>1
<1> QED
  BY <1>3 DEF UnitPrice, SegmentKinds

\* Even half hours and packages extend without rounding.
LEMMA ExtendExact ==
    ASSUME NEW k \in SegmentKinds, NEW q \in Nat, k = "hora" => q % 2 = 0, NEW u \in Int
    PROVE  /\ Extend(k, q, u) \in Int
           /\ k = "hora" => 2 * Extend(k, q, u) = q * u
           /\ k # "hora" => Extend(k, q, u) = q * u
<1>1. CASE k # "hora"
  BY <1>1 DEF Extend
<1>2. CASE k = "hora"
  <2>1. PICK m \in Nat : q = 2 * m
    BY <1>2
  <2>2. q * u = 2 * (m * u) /\ m * u \in Int
    BY <2>1
  <2> DEFINE mu == m * u
  <2>3. RoundDiv(2 * mu, 2) = mu
    <3>1. mu \in Int
      BY <2>2
    <3> HIDE DEF mu
    <3> QED
      BY <3>1, RoundDivExact
  <2>4. Extend(k, q, u) = mu
    BY <1>2, <2>2, <2>3 DEF Extend
  <2> QED
    BY <1>2, <2>2, <2>4
<1> QED
  BY <1>1, <1>2

LEMMA PesosExact ==
    ASSUME NEW a \in Nat, a % 100 = 0
    PROVE  /\ a = 100 * Pesos(a) /\ Pesos(a) \in Nat
           /\ \A n \in Nat : Pesos(n * a) = n * Pesos(a)
<1>1. PICK q \in Nat : a = 100 * q
  <2>1. a \div 100 \in Nat /\ a = 100 * (a \div 100)
    OBVIOUS
  <2> QED
    BY <2>1
<1>2. Pesos(a) = q
  BY <1>1, RoundDivExact DEF Pesos
<1>3. ASSUME NEW n \in Nat PROVE Pesos(n * a) = n * q
  <2>1. n * a = 100 * (n * q) /\ n * q \in Int
    BY <1>1
  <2> DEFINE nq == n * q
  <2>2. nq \in Int /\ Pesos(n * a) = RoundDiv(100 * nq, 100)
    BY <2>1 DEF Pesos
  <2> HIDE DEF nq
  <2>3. RoundDiv(100 * nq, 100) = nq
    BY <2>2, RoundDivExact
  <2> QED
    BY <2>2, <2>3 DEF nq
<1> QED
  BY <1>1, <1>2, <1>3

\* The table's segments of a block cost its package price.
LEMMA SegmentsCost ==
    ASSUME NEW r \in RuleRow, r.base6 % 100 = 0, r.base12 % 100 = 0, r.extra % 100 = 0,
           NEW h \in Nat, h > 0, h % 2 = 0,
           NEW p, p = [hora |-> r.extra, seis |-> r.base6, doce |-> r.base12],
           NEW n, n = Counts(h, p)
    PROVE  100 * (Cost("h12", n.h12, p) + Cost("h6", n.h6, p) + Cost("hora", n.hora, p))
               = PackagePrice(h, r)
<1> DEFINE a == Pesos(r.base12)
           b == Pesos(r.base6)
           e == Pesos(r.extra)
           n12 == IF r.base12 > 0 THEN h \div 24 ELSE 0
           n6 == IF r.base6 > 0 THEN (h - 24 * n12) \div 12 ELSE 0
           left == h - 24 * n12 - 12 * n6
           sum == Cost("h12", n.h12, p) + Cost("h6", n.h6, p) + Cost("hora", n.hora, p)
<1>1. /\ r.base12 = 100 * a /\ r.base6 = 100 * b /\ r.extra = 100 * e
      /\ a \in Nat /\ b \in Nat /\ e \in Nat
  BY RuleFields, PesosExact
<1>2. p.hora = r.extra /\ p.seis = r.base6 /\ p.doce = r.base12 /\ p \in PriceRow
  BY RuleFields DEF PriceRow
<1>3. PackagePrice(h, r) = n12 * r.base12 + n6 * r.base6 + RoundDiv(left * r.extra, 2)
  BY DEF PackagePrice
<1>4. /\ UnitPrice("hora", p) = e
      /\ r.base12 > 0 => UnitPrice("h12", p) = a
      /\ r.base6 > 0 => UnitPrice("h6", p) = b
      /\ r.base12 = 0 /\ r.base6 = 0 => UnitPrice("h12", p) = 12 * e /\ UnitPrice("h6", p) = 6 * e
  <2>1. Pesos(12 * r.extra) = 12 * e /\ Pesos(6 * r.extra) = 6 * e
    BY RuleFields, PesosExact
  <2>2. r.base12 \in Nat /\ r.base6 \in Nat
    BY RuleFields
  <2>3. UnitPrice("hora", p) = Pesos(p.hora)
    BY DEF UnitPrice
  <2>4. UnitPrice("h6", p) = IF p.seis > 0 THEN Pesos(p.seis) ELSE Pesos(6 * p.hora)
    BY DEF UnitPrice
  <2>5. UnitPrice("h12", p) = IF p.doce > 0 THEN Pesos(p.doce)
                 ELSE IF p.seis > 0 THEN Pesos(2 * p.seis) ELSE Pesos(12 * p.hora)
    BY DEF UnitPrice
  <2> QED
    BY <1>2, <2>1, <2>2, <2>3, <2>4, <2>5
<1>5. /\ n \in CountRow /\ n.h12 \in Nat /\ n.h6 \in Nat /\ n.hora \in Nat
      /\ n.hora % 2 = 0
  BY <1>2, SegmentsCounted DEF CountRow
<1>6. PICK m \in Nat : n.hora = 2 * m
  BY <1>5
<1>7. /\ UnitPrice("h12", p) \in Int /\ UnitPrice("h6", p) \in Int
      /\ Cost("h12", n.h12, p) = n.h12 * UnitPrice("h12", p)
      /\ Cost("h6", n.h6, p) = n.h6 * UnitPrice("h6", p)
      /\ Cost("hora", n.hora, p) = m * e
  <2>1. UnitPrice("h12", p) \in Int /\ UnitPrice("h6", p) \in Int
    BY <1>2, UnitPriceType DEF SegmentKinds
  <2>2. n.hora * e = 2 * (m * e) /\ m * e \in Int
    BY <1>1, <1>6
  <2>3. 2 * Cost("hora", n.hora, p) = n.hora * e /\ Cost("hora", n.hora, p) \in Int
    <3>1. "hora" \in SegmentKinds /\ n.hora \in Nat /\ n.hora % 2 = 0 /\ e \in Int
      BY <1>1, <1>5 DEF SegmentKinds
    <3> HIDE DEF e
    <3>2. Extend("hora", n.hora, e) \in Int /\ 2 * Extend("hora", n.hora, e) = n.hora * e
      BY <3>1, ExtendExact
    <3> QED
      BY <1>4, <3>2 DEF Cost
  <2>4. Cost("hora", n.hora, p) = m * e
    <3> DEFINE me == m * e
               x == Cost("hora", n.hora, p)
    <3>1. 2 * x = 2 * me /\ x \in Int /\ me \in Int
      BY <2>2, <2>3
    <3> HIDE DEF me, x
    <3>2. x = me
      BY <3>1
    <3> QED
      BY <3>2 DEF me, x
  <2>5. Cost("h12", n.h12, p) = n.h12 * UnitPrice("h12", p)
    BY DEF Cost, Extend
  <2>6. Cost("h6", n.h6, p) = n.h6 * UnitPrice("h6", p)
    BY DEF Cost, Extend
  <2> QED
    BY <2>1, <2>4, <2>5, <2>6
<1> DEFINE base == RoundDiv(left * r.extra, 2)
<1>8. /\ n12 \in Nat /\ n6 \in Nat /\ left \in Nat /\ left % 2 = 0
      /\ r.base12 \in Nat /\ r.base6 \in Nat /\ r.extra \in Nat
  <2>0. r.base12 \in Nat /\ r.base6 \in Nat /\ r.extra \in Nat
    BY RuleFields
  <2>1. n12 \in Nat /\ h - 24 * n12 >= 0
    BY <2>0
  <2> HIDE DEF n12
  <2>2. n6 \in Nat /\ left \in Nat /\ left % 2 = 0
    BY <2>0, <2>1
  <2> QED
    BY <2>0, <2>1, <2>2
<1>9. PICK l \in Nat : left = 2 * l
  <2> HIDE DEF left
  <2> QED
    BY <1>8
<1>10. base = 100 * (l * e)
  <2>1. left * r.extra = 2 * (l * r.extra) /\ l * r.extra \in Int
    <3> HIDE DEF left
    <3> QED
      BY <1>8, <1>9
  <2> DEFINE x == l * r.extra
  <2>2. base = RoundDiv(2 * x, 2) /\ x \in Int
    BY <2>1
  <2>3. RoundDiv(2 * x, 2) = x
    <3> HIDE DEF x
    <3> QED
      BY <2>2, RoundDivExact
  <2>4. x = 100 * (l * e)
    <3>1. x = l * (100 * e)
      BY <1>1
    <3> HIDE DEF e
    <3> QED
      BY <1>1, <3>1
  <2> QED
    BY <2>2, <2>3, <2>4
<1>11. PackagePrice(h, r) = 100 * (n12 * a + n6 * b + l * e)
  <2>1. n12 * r.base12 = 100 * (n12 * a) /\ n6 * r.base6 = 100 * (n6 * b)
    <3>1. n12 * r.base12 = n12 * (100 * a) /\ n6 * r.base6 = n6 * (100 * b)
      BY <1>1
    <3> HIDE DEF a, b, n12, n6
    <3> QED
      BY <1>1, <1>8, <3>1
  <2> DEFINE x == n12 * a
             y == n6 * b
             z == l * e
  <2>2. x \in Int /\ y \in Int /\ z \in Int
    <3> HIDE DEF a, b, e, n12, n6
    <3> QED
      BY <1>1, <1>8
  <2>3. PackagePrice(h, r) = 100 * x + 100 * y + 100 * z
    BY <1>3, <1>10, <2>1
  <2>4. 100 * x + 100 * y + 100 * z = 100 * (x + y + z)
    <3> HIDE DEF x, y, z
    <3> QED
      BY <2>2
  <2> QED
    BY <2>3, <2>4
<1>12. /\ r.base12 > 0 \/ r.base6 > 0 =>
            IF Nothing(Packed(h, p)) THEN n.h12 = 0 /\ n.h6 = 0 ELSE n = Packed(h, p)
       /\ ~ (r.base12 > 0 \/ r.base6 > 0) /\ ~ Nothing(Timed(h)) => n = Timed(h)
  <2> DEFINE packages == p.doce > 0 \/ p.seis > 0
             k == IF packages THEN Packed(h, p) ELSE Timed(h)
             least == [h12 |-> 0, h6 |-> 0, hora |-> IF h > 2 THEN h ELSE 2]
  <2>1. n = IF Nothing(k) THEN least ELSE k
    BY DEF Counts
  <2>2. packages <=> (r.base12 > 0 \/ r.base6 > 0)
    BY <1>2
  <2>3. least.h12 = 0 /\ least.h6 = 0
    OBVIOUS
  <2>4. ASSUME packages
        PROVE  IF Nothing(Packed(h, p)) THEN n.h12 = 0 /\ n.h6 = 0 ELSE n = Packed(h, p)
    <3>1. k = Packed(h, p)
      BY <2>4
    <3> HIDE DEF k, least, packages
    <3> QED
      BY <2>1, <2>3, <3>1
  <2>5. ASSUME ~ packages, ~ Nothing(Timed(h)) PROVE n = Timed(h)
    <3>1. k = Timed(h)
      BY <2>5
    <3> HIDE DEF k, least, packages
    <3> QED
      BY <2>1, <2>5, <3>1
  <2> HIDE DEF packages
  <2> QED
    BY <2>2, <2>4, <2>5
<1>13. Packed(h, p) = [h12 |-> n12, h6 |-> n6, hora |-> IF r.extra > 0 THEN left ELSE 0]
  BY <1>2 DEF Packed
<1>14. r.extra = 0 => e = 0
  BY <1>1
<1>15. r.base12 = 0 => n12 = 0 /\ a = 0
  BY <1>1
<1>16. r.base6 = 0 => n6 = 0 /\ b = 0
  BY <1>1
<1>17. sum = n.h12 * UnitPrice("h12", p) + n.h6 * UnitPrice("h6", p) + m * e
  BY <1>7
<1>18. CASE r.base12 > 0 \/ r.base6 > 0
  <2>1. CASE Nothing(Packed(h, p))
    <3>1. n.h12 = 0 /\ n.h6 = 0
      BY <1>12, <1>18, <2>1
    <3>2. n12 = 0 /\ n6 = 0 /\ (r.extra > 0 => left = 0)
      BY <1>13, <2>1 DEF Nothing
    <3>3. e = 0
      <4>1. ASSUME r.extra > 0 PROVE FALSE
        <5>1. left = h - 24 * n12 - 12 * n6 /\ left = 0
          BY <3>2, <4>1
        <5> HIDE DEF left, n12, n6
        <5> QED
          BY <3>2, <5>1
      <4> QED
        BY <1>8, <1>14, <4>1
    <3>4. sum = 0
      <4>1. \A x \in Int : 0 * x = 0 /\ x * 0 = 0
        OBVIOUS
      <4>2. 0 * UnitPrice("h12", p) = 0 /\ 0 * UnitPrice("h6", p) = 0 /\ m * 0 = 0
        BY <1>7, <4>1
      <4> HIDE DEF sum, e
      <4> QED
        BY <1>17, <3>1, <3>3, <4>2
    <3>5. PackagePrice(h, r) = 0
      <4>1. \A x \in Int : 0 * x = 0 /\ x * 0 = 0
        OBVIOUS
      <4> HIDE DEF n12, n6, e, a, b
      <4>2. n12 * a = 0 /\ n6 * b = 0 /\ l * e = 0
        BY <1>1, <3>2, <3>3, <4>1
      <4> QED
        BY <1>11, <4>2
    <3> QED
      BY <3>4, <3>5
  <2>2. CASE ~ Nothing(Packed(h, p))
    <3>1. n = Packed(h, p)
      BY <1>12, <1>18, <2>2
    <3>2. n.h12 = n12 /\ n.h6 = n6 /\ n.hora = IF r.extra > 0 THEN left ELSE 0
      BY <1>13, <3>1
    <3>3. n.h12 * UnitPrice("h12", p) = n12 * a
      <4>1. CASE r.base12 > 0
        BY <1>4, <3>2, <4>1
      <4>2. CASE r.base12 = 0
        <5>1. \A x \in Int : 0 * x = 0 /\ x * 0 = 0
          OBVIOUS
        <5>2. n.h12 = 0 /\ n12 = 0 /\ a = 0
          BY <1>15, <3>2, <4>2
        <5> HIDE DEF n12, a
        <5> QED
          BY <1>7, <5>1, <5>2
      <4> QED
        BY <1>8, <4>1, <4>2
    <3>4. n.h6 * UnitPrice("h6", p) = n6 * b
      <4>1. CASE r.base6 > 0
        BY <1>4, <3>2, <4>1
      <4>2. CASE r.base6 = 0
        <5>1. \A x \in Int : 0 * x = 0 /\ x * 0 = 0
          OBVIOUS
        <5>2. n.h6 = 0 /\ n6 = 0 /\ b = 0
          BY <1>16, <3>2, <4>2
        <5> HIDE DEF n6, b
        <5> QED
          BY <1>7, <5>1, <5>2
      <4> QED
        BY <1>8, <4>1, <4>2
    <3>5. m * e = l * e
      <4>1. CASE r.extra > 0
        <5>1. 2 * m = 2 * l
          BY <1>6, <1>9, <3>2, <4>1
        <5>2. m = l
          BY <5>1
        <5> QED
          BY <5>2
      <4>2. CASE r.extra = 0
        <5>1. \A x \in Int : x * 0 = 0
          OBVIOUS
        <5>2. e = 0
          BY <1>14, <4>2
        <5>3. m * 0 = 0 /\ l * 0 = 0
          BY <5>1
        <5> HIDE DEF e
        <5> QED
          BY <5>2, <5>3
      <4> QED
        BY <1>8, <4>1, <4>2
    <3>6. sum = n12 * a + n6 * b + l * e
      BY <1>17, <3>3, <3>4, <3>5
    <3> QED
      BY <1>11, <3>6
  <2> QED
    BY <2>1, <2>2
<1>19. CASE r.base12 = 0 /\ r.base6 = 0
  <2>1. ~ Nothing(Timed(h)) /\ Timed(h) \in CountRow
    BY TimedCounts
  <2>2. n = Timed(h)
    BY <1>12, <1>19, <2>1
  <2>3. n12 = 0 /\ n6 = 0 /\ a = 0 /\ b = 0
    BY <1>15, <1>16, <1>19
  <2>4. h = 24 * n.h12 + 12 * n.h6 + n.hora
    BY <2>2, TimedCounts DEF Timed
  <2>5. h = 2 * l
    <3>1. left = h - 24 * n12 - 12 * n6
      OBVIOUS
    <3> HIDE DEF left, n12, n6
    <3> QED
      BY <1>9, <2>3, <3>1
  <2>6. l = 12 * n.h12 + 6 * n.h6 + m
    <3> DEFINE x == n.h12
               y == n.h6
    <3>1. x \in Nat /\ y \in Nat /\ 2 * l = 24 * x + 12 * y + 2 * m
      BY <1>5, <1>6, <2>4, <2>5
    <3> HIDE DEF x, y
    <3>2. l = 12 * x + 6 * y + m
      BY <3>1
    <3> QED
      BY <3>2 DEF x, y
  <2>7. UnitPrice("h12", p) = 12 * e /\ UnitPrice("h6", p) = 6 * e
    BY <1>4, <1>19
  <2>8. n.h12 * (12 * e) + n.h6 * (6 * e) + m * e = l * e
    <3> HIDE DEF e
    <3>1. l * e = (12 * n.h12 + 6 * n.h6 + m) * e
      BY <2>6
    <3> DEFINE x == n.h12
               y == n.h6
    <3>2. x \in Nat /\ y \in Nat
      BY <1>5
    <3> HIDE DEF x, y
    <3>3. (12 * x + 6 * y + m) * e = x * (12 * e) + y * (6 * e) + m * e
      BY <1>1, <3>2
    <3> QED
      BY <3>1, <3>3 DEF x, y
  <2>9. sum = l * e
    BY <1>17, <2>7, <2>8
  <2>10. n12 * a + n6 * b + l * e = l * e
    <3> DEFINE le == l * e
    <3>1. le \in Int
      <4> HIDE DEF e
      <4> QED
        BY <1>1
    <3> HIDE DEF le, n12, n6, a, b
    <3>2. n12 * a = 0 /\ n6 * b = 0
      BY <2>3
    <3>3. n12 * a + n6 * b + le = le
      BY <3>1, <3>2
    <3> QED
      BY <3>3 DEF le
  <2> QED
    BY <1>11, <2>9, <2>10
<1> QED
  BY <1>8, <1>18, <1>19

-----------------------------------------------------------------------------
(* The rows of the table.                                                  *)

LEMMA CatalogType ==
    ASSUME PricingInd, NEW s \in PricedSpace, NEW d PROVE CatalogPrices(s, d) \in PriceRow
<1> DEFINE r == RuleOn(s, d)
<1>1. CASE r = NoRule
  BY <1>1, PricingAssumption DEF CatalogPrices, PriceRow
<1>2. CASE r # NoRule
  <2>1. r \in RuleRow
    BY <1>2, RuleFound
  <2>2. r.base6 \in Nat /\ r.base12 \in Nat /\ r.extra \in Nat
    BY <2>1, RuleFields
  <2> QED
    BY <1>2, <2>2 DEF CatalogPrices, PriceRow
<1> QED
  BY <1>1, <1>2

\* A block of whole hours.
LEMMA BlockIsWhole ==
    ASSUME NEW c \in Seq(Item), WholeHours(c), NEW b \in AllBlocks(c)
    PROVE  BlockHours(c, b) \in Nat /\ BlockHours(c, b) > 0 /\ BlockHours(c, b) % 2 = 0
<1> DEFINE x == c[LatestIn(c, b)].fin
           y == c[Earliest(c, b)].inicio
<1>1. LatestIn(c, b) \in DOMAIN c /\ Earliest(c, b) \in DOMAIN c
  BY BlockFound
<1>2. x \in Int /\ y \in Int /\ x % 2 = 0 /\ y % 2 = 0
  BY <1>1, SlotTypes DEF WholeHours
<1>3. BlockLength(c, b) = x - y
  BY DEF BlockLength
<1>4. BlockHours(c, b) = IF x - y <= 0 THEN 2 ELSE x - y
  BY <1>3 DEF BlockHours
<1> HIDE DEF x, y
<1> QED
  BY <1>2, <1>4

\* The blocks have whole hours.
WholeBlocks(c) ==
    \A b \in AllBlocks(c) :
        BlockHours(c, b) \in Nat /\ BlockHours(c, b) > 0 /\ BlockHours(c, b) % 2 = 0

\* The prices at which a block is printed.
LinePrices(c, b) == CatalogPrices(c[Earliest(c, b)].space, RefDate(c))

LinesOf(c, b) == BlockLines(c, b, LinePrices(c, b))

\* What holds of a line of a block.
LineOf(c, b, l) ==
    /\ l.block = b /\ l.kind \in SegmentKinds
    /\ l.qty \in Nat /\ l.qty > 0 /\ (l.kind = "hora" => l.qty % 2 = 0)
    /\ l.unit = UnitPrice(l.kind, LinePrices(c, b)) /\ l.unit \in Int
    /\ l.total = Extend(l.kind, l.qty, l.unit)
    /\ l.total \in Int

LEMMA BlockLinesFound ==
    ASSUME PricingInd, NEW c \in Seq(Item), WholeBlocks(c), NEW b \in AllBlocks(c),
           NEW n, n = Counts(BlockHours(c, b), LinePrices(c, b))
    PROVE  /\ LinePrices(c, b) \in PriceRow /\ n \in CountRow /\ IsFiniteSet(LinesOf(c, b))
           /\ \A l \in LinesOf(c, b) : LineOf(c, b, l) /\ l.qty = n[l.kind]
           /\ \A k \in SegmentKinds : n[k] > 0 =>
                \E l \in LinesOf(c, b) : l.kind = k
           /\ \A l, m \in LinesOf(c, b) : l.kind = m.kind => l = m
<1> DEFINE p == LinePrices(c, b)
           h == BlockHours(c, b)
           Line(k) == [block |-> b, kind |-> k, qty |-> n[k], unit |-> UnitPrice(k, p),
                       total |-> Extend(k, n[k], UnitPrice(k, p))]
           K == {k \in SegmentKinds : n[k] > 0}
<1>1. p \in PriceRow
  <2>1. c[Earliest(c, b)].space \in PricedSpace
    BY BlockFound, SlotTypes
  <2> QED
    BY <2>1, CatalogType DEF LinePrices
<1>2. h \in Nat /\ h > 0 /\ h % 2 = 0
  BY DEF WholeBlocks
<1> HIDE DEF h, p
<1>3. n \in CountRow /\ n.hora % 2 = 0 /\ Segments(h, p) = SegmentsOf(n)
  BY <1>1, <1>2, SegmentsCounted DEF h, p
<1>4. \A k \in SegmentKinds : n[k] \in Nat /\ (k = "hora" => n[k] % 2 = 0)
  BY <1>3 DEF CountRow, SegmentKinds
<1>5. LinesOf(c, b) = {Line(k) : k \in K}
  <2> DEFINE Of(g) == [block |-> b, kind |-> g.kind, qty |-> g.qty, unit |-> UnitPrice(g.kind, p),
                       total |-> Extend(g.kind, g.qty, UnitPrice(g.kind, p))]
  <2>1. LinesOf(c, b) = {Of(g) : g \in SegmentsOf(n)}
    BY <1>3 DEF LinesOf, BlockLines, p, h
  <2>2. SegmentsOf(n) = {[kind |-> k, qty |-> n[k]] : k \in K}
    BY DEF SegmentsOf
  <2> DEFINE Seg(k) == [kind |-> k, qty |-> n[k]]
  <2>3. \A k \in K : Of(Seg(k)) = Line(k)
    OBVIOUS
  <2> HIDE DEF Of, Line, K, Seg
  <2>4. SegmentsOf(n) = {Seg(k) : k \in K}
    BY <2>2 DEF Seg
  <2>5. {Of(g) : g \in SegmentsOf(n)} = {Of(Seg(k)) : k \in K}
    BY <2>4
  <2>6. {Of(Seg(k)) : k \in K} = {Line(k) : k \in K}
    BY <2>3
  <2> QED
    BY <2>1, <2>5, <2>6, Zenon
<1>6. ASSUME NEW k \in K
      PROVE  LineOf(c, b, Line(k)) /\ Line(k).kind = k /\ Line(k).qty = n[k]
  <2>1. n[k] \in Nat /\ n[k] > 0 /\ (k = "hora" => n[k] % 2 = 0) /\ k \in SegmentKinds
    BY <1>4
  <2>2. UnitPrice(k, p) \in Int
    BY <1>1, <2>1, UnitPriceType
  <2>3. Extend(k, n[k], UnitPrice(k, p)) \in Int
    BY <2>1, <2>2, ExtendExact
  <2> QED
    BY <2>1, <2>2, <2>3 DEF LineOf, p
<1>7. IsFiniteSet(LinesOf(c, b))
  <2> DEFINE f == [k \in K |-> Line(k)]
  <2>1. IsFiniteSet(K)
    <3>1. IsFiniteSet(SegmentKinds)
      <4>1. IsFiniteSet({"h12"}) /\ IsFiniteSet({"h6"}) /\ IsFiniteSet({"hora"})
        BY FS_Singleton
      <4>2. SegmentKinds = {"h12"} \cup ({"h6"} \cup {"hora"})
        BY DEF SegmentKinds
      <4> QED
        BY <4>1, <4>2, FS_Union
    <3> QED
      BY <3>1, FS_Subset
  <2>2. IsFiniteSet({f[k] : k \in K})
    <3> HIDE DEF f, K
    <3> QED
      BY <2>1, ImageFinite
  <2>3. {f[k] : k \in K} = {Line(k) : k \in K}
    OBVIOUS
  <2> HIDE DEF f, K, Line
  <2> QED
    BY <1>5, <2>2, <2>3
<1> HIDE DEF Line, K
<1>8. \A l \in LinesOf(c, b) : LineOf(c, b, l) /\ l.qty = n[l.kind]
  BY <1>5, <1>6
<1>9. \A k \in SegmentKinds : n[k] > 0 => \E l \in LinesOf(c, b) : l.kind = k
  BY <1>5, <1>6 DEF K
<1>10. \A l, m \in LinesOf(c, b) : l.kind = m.kind => l = m
  BY <1>5, <1>6
<1> QED
  BY <1>1, <1>3, <1>7, <1>8, <1>9, <1>10 DEF p

LEMMA LinesFound ==
    ASSUME PricingInd, NEW c \in Seq(Item), WholeBlocks(c)
    PROVE  /\ IsFiniteSet(DetailLines(c))
           /\ \A l \in DetailLines(c) : /\ l.block \in AllBlocks(c) /\ l \in LinesOf(c, l.block)
                                        /\ LineOf(c, l.block, l)
           /\ \A b \in AllBlocks(c) : LinesOf(c, b) = {l \in DetailLines(c) : l.block = b}
<1> DEFINE f == [b \in AllBlocks(c) |-> LinesOf(c, b)]
<1>1. DetailLines(c) = UNION {f[b] : b \in AllBlocks(c)}
  BY DEF DetailLines, LinesOf, LinePrices
<1>2. \A b \in AllBlocks(c) : IsFiniteSet(f[b]) /\ \A l \in f[b] : LineOf(c, b, l)
  BY BlockLinesFound
<1>3. IsFiniteSet(AllBlocks(c))
  BY OneBlockEach
<1>4. IsFiniteSet(DetailLines(c))
  <2> DEFINE R == {f[b] : b \in AllBlocks(c)}
  <2>1. IsFiniteSet(R)
    <3> HIDE DEF f
    <3> QED
      BY <1>3, ImageFinite
  <2>2. \A s \in R : IsFiniteSet(s)
    BY <1>2
  <2>3. DetailLines(c) = UNION R
    BY <1>1
  <2> HIDE DEF R
  <2> QED
    BY <2>1, <2>2, <2>3, FS_UNION
<1>5. \A b \in AllBlocks(c) : \A l \in LinesOf(c, b) :
        l \in DetailLines(c) /\ l.block = b /\ LineOf(c, b, l)
  BY <1>1, <1>2 DEF LineOf
<1>6. \A l \in DetailLines(c) : \E b \in AllBlocks(c) : l \in LinesOf(c, b)
  BY <1>1
<1> HIDE DEF f
<1>7. \A l \in DetailLines(c) : /\ l.block \in AllBlocks(c) /\ l \in LinesOf(c, l.block)
                                /\ LineOf(c, l.block, l)
  BY <1>5, <1>6
<1>8. ASSUME NEW b \in AllBlocks(c)
      PROVE  LinesOf(c, b) = {l \in DetailLines(c) : l.block = b}
  BY <1>5, <1>7
<1> QED
  BY <1>4, <1>7, <1>8

\* Equal lines are one row, at their unit price.
LEMMA RowOfLines ==
    ASSUME NEW L, IsFiniteSet(L), L # {}, NEW kind \in SegmentKinds, NEW u \in Int,
           \A l \in L : /\ l.kind = kind /\ l.unit = u
                        /\ l.qty \in Nat /\ l.qty > 0 /\ (kind = "hora" => l.qty % 2 = 0)
                        /\ l.total = Extend(kind, l.qty, u) /\ l.total \in Int
    PROVE  Row(L).total = Extend(Row(L).kind, Row(L).cantidad, Row(L).precio_unitario)
<1> DEFINE q == [m \in L |-> m.qty]
           t == [m \in L |-> m.total]
           Q == SumFunctionOnSet(q, L)
           T == SumFunctionOnSet(t, L)
           one == CHOOSE l \in L : TRUE
           per == IF kind = "hora" THEN 2 ELSE 1
           h == [m \in L |-> u * m.qty]
<1>1. one \in L
  OBVIOUS
<1>2. \A l \in L : q[l] \in Nat /\ q[l] \in Int /\ q[l] > 0 /\ t[l] \in Int
  OBVIOUS
<1>3. \A l \in L : u * l.qty = per * l.total
  <2> TAKE l \in L
  <2>1. /\ l.qty \in Nat /\ kind = "hora" => l.qty % 2 = 0
        /\ l.total = Extend(kind, l.qty, u) /\ l.total \in Int
    OBVIOUS
  <2> DEFINE x == l.qty
             y == l.total
  <2>2. x \in Nat /\ (kind = "hora" => x % 2 = 0) /\ y = Extend(kind, x, u) /\ y \in Int
    OBVIOUS
  <2> HIDE DEF x, y
  <2>3. (kind = "hora" => 2 * y = x * u) /\ (kind # "hora" => y = x * u)
    BY <2>2, ExtendExact
  <2>4. x * u = u * x
    BY <2>2
  <2>5. u * x = per * y
    BY <2>2, <2>3, <2>4
  <2> QED
    BY <2>5 DEF x, y
<1>4. Q \in Nat /\ T \in Int /\ Q > 0
  <2>1. q[one] \in Nat /\ q[one] > 0 /\ L \ {one} \in SUBSET L
    BY <1>1, <1>2
  <2> HIDE DEF q, t, one
  <2>2. Q = q[one] + SumFunctionOnSet(q, L \ {one})
    BY <1>1, <1>2, SumWithout
  <2>3. SumFunctionOnSet(q, L \ {one}) \in Nat
    BY <1>2, <2>1, SumOfPart
  <2>4. T \in Int
    BY <1>2, SumFirst
  <2> QED
    BY <2>1, <2>2, <2>3, <2>4
<1>5. u * Q = per * T
  <2> DEFINE H == SumFunctionOnSet(h, L)
  <2>1. \A x \in L : h[x] = u * q[x] + 0 * t[x]
    <3> TAKE x \in L
    <3>1. h[x] = u * q[x] /\ t[x] \in Int /\ q[x] \in Int
      BY <1>2
    <3> HIDE DEF h, q, t
    <3>2. u * q[x] \in Int /\ 0 * t[x] = 0
      BY <3>1
    <3> QED
      BY <3>1, <3>2
  <2>2. \A x \in L : h[x] = per * t[x] + 0 * q[x]
    <3> TAKE x \in L
    <3>1. h[x] = per * t[x] /\ t[x] \in Int /\ q[x] \in Int
      BY <1>2, <1>3
    <3> HIDE DEF h, q, t
    <3>2. 0 * q[x] = 0 /\ per * t[x] \in Int
      BY <3>1
    <3> QED
      BY <3>1, <3>2
  <2>3. per \in Int /\ 0 \in Int
    OBVIOUS
  <2>4. (\A x \in L : q[x] \in Int) /\ (\A x \in L : t[x] \in Int)
    BY <1>2
  <2> HIDE DEF h, q, t, per
  <2>5. H = u * Q + 0 * T
    BY <2>1, <2>3, <2>4, SumLinear
  <2>6. H = per * T + 0 * Q
    BY <2>2, <2>3, <2>4, SumLinear
  <2> HIDE DEF Q, T, H
  <2>7. 0 * T = 0 /\ 0 * Q = 0 /\ u * Q \in Int /\ per * T \in Int
    BY <1>4, <2>3
  <2> QED
    BY <2>5, <2>6, <2>7
<1>6. RoundDiv(Q * u, Q) = u
  <2> HIDE DEF Q
  <2> QED
    BY <1>4, RoundDivExact
<1>7. /\ Row(L).kind = kind /\ Row(L).cantidad = Q /\ Row(L).total = T
      /\ Row(L).precio_unitario = IF L = {one} THEN u
                                  ELSE RoundDiv(IF kind = "hora" THEN 2 * T ELSE T, Q)
  <2>1. Total(q) = Q /\ Total(t) = T
    BY DEF Total, SumFunction
  <2>2. one.kind = kind /\ one.unit = u
    BY <1>1
  <2>3. Row(L) = [kind |-> one.kind, cantidad |-> Total(q), total |-> Total(t),
                  precio_unitario |-> IF L = {one} THEN one.unit
                     ELSE RoundDiv(IF one.kind = "hora" THEN 2 * Total(t) ELSE Total(t), Total(q))]
    BY DEF Row
  <2> HIDE DEF q, t, Q, T, one
  <2> QED
    BY <2>1, <2>2, <2>3
<1>8. (IF kind = "hora" THEN 2 * T ELSE T) = Q * u
  <2> HIDE DEF Q, T
  <2>1. u * Q = Q * u
    BY <1>4
  <2> QED
    BY <1>4, <1>5, <2>1
<1>9. Row(L).precio_unitario = u
  <2> HIDE DEF Q, T, one
  <2> QED
    BY <1>6, <1>7, <1>8
<1>10. T = Extend(kind, Q, u)
  <2> HIDE DEF Q, T
  <2>1. CASE kind = "hora"
    <3>1. Extend(kind, Q, u) = RoundDiv(2 * T, 2)
      BY <1>8, <2>1 DEF Extend
    <3>2. RoundDiv(2 * T, 2) = T
      BY <1>4, RoundDivExact
    <3> QED
      BY <3>1, <3>2
  <2>2. CASE kind # "hora"
    BY <1>8, <2>2 DEF Extend
  <2> QED
    BY <2>1, <2>2
<1> QED
  BY <1>7, <1>9, <1>10

LEMMA RowsMultiply == ASSUME PricingInd PROVE RowsMultiplyOut
<1> SUFFICES ASSUME WholeHours(cart), NEW k \in DOMAIN DetailRows(cart)
    PROVE  DetailRows(cart)[k].total =
             Extend(DetailRows(cart)[k].kind, DetailRows(cart)[k].cantidad,
                    DetailRows(cart)[k].precio_unitario)
  BY DEF RowsMultiplyOut
<1> DEFINE lines == DetailLines(cart)
           L == {l \in lines : RowKey(cart, l) = k}
<1>0. cart \in Seq(Item)
  BY DEF PricingInd, PricingTypeOK
<1>w. WholeBlocks(cart)
  BY <1>0, BlockIsWhole DEF WholeBlocks
<1>1. L # {} /\ DetailRows(cart)[k] = Row(L)
  <2> DEFINE key == [l \in lines |-> RowKey(cart, l)]
  <2>1. DetailRows(cart) = [x \in {key[l] : l \in lines} |-> Row({l \in lines : key[l] = x})]
    BY DEF DetailRows
  <2>2. k \in {key[l] : l \in lines} /\ DetailRows(cart)[k] = Row({l \in lines : key[l] = k})
    BY <2>1
  <2>3. {l \in lines : key[l] = k} = L
    OBVIOUS
  <2>4. L # {}
    BY <2>2
  <2> HIDE DEF key, L
  <2> QED
    BY <2>2, <2>3, <2>4
<1>2. PICK one \in L : TRUE
  BY <1>1
<1>3. IsFiniteSet(L)
  <2>1. IsFiniteSet(lines) /\ L \subseteq lines
    BY <1>0, <1>w, LinesFound
  <2> QED
    BY <2>1, FS_Subset
<1>4. \A l \in L : LineOf(cart, l.block, l) /\ RowKey(cart, l) = RowKey(cart, one)
  BY <1>0, <1>w, <1>2, LinesFound
<1>5. \A l \in L : l.kind = one.kind /\ l.unit = one.unit
  BY <1>4 DEF RowKey
<1>6. one.kind \in SegmentKinds /\ one.unit \in Int
  BY <1>2, <1>4 DEF LineOf
<1>7. \A l \in L : /\ l.kind = one.kind /\ l.unit = one.unit
                   /\ l.qty \in Nat /\ l.qty > 0 /\ (one.kind = "hora" => l.qty % 2 = 0)
                   /\ l.total = Extend(one.kind, l.qty, one.unit) /\ l.total \in Int
  BY <1>4, <1>5 DEF LineOf
<1>8. Row(L).total = Extend(Row(L).kind, Row(L).cantidad, Row(L).precio_unitario)
  <2> DEFINE kind == one.kind
             u == one.unit
  <2> HIDE DEF L
  <2> QED
    BY <1>1, <1>3, <1>6, <1>7, RowOfLines
<1> QED
  BY <1>1, <1>8

-----------------------------------------------------------------------------
(* The total of a quote and the subtotal of its table.                     *)

\* A cart with slots has a first date.
LEMMA RefDateFound ==
    ASSUME NEW c \in Seq(Item), NEW i \in DOMAIN c
    PROVE  \E j \in DOMAIN c : RefDate(c) = c[j].fecha
<1> DEFINE D == DOMAIN c
           Q == {s \in SUBSET D : s # {} => \E x \in s : \A y \in s : c[x].fecha <= c[y].fecha}
<1>0. \A x \in D : c[x].fecha \in Nat /\ c[x].fecha \in Fecha
  BY SlotTypes, PricingAssumption
<1>1. ASSUME NEW s \in SUBSET D, \A x \in s : s \ {x} \in Q PROVE s \in Q
  <2> SUFFICES ASSUME s # {} PROVE \E x \in s : \A y \in s : c[x].fecha <= c[y].fecha
    OBVIOUS
  <2>1. PICK x \in s : TRUE
    OBVIOUS
  <2>2. CASE s = {x}
    BY <1>0, <2>2
  <2>3. CASE s # {x}
    <3>1. PICK m \in s \ {x} : \A y \in s \ {x} : c[m].fecha <= c[y].fecha
      BY <1>1, <2>1, <2>3
    <3>2. CASE c[m].fecha <= c[x].fecha
      BY <3>1, <3>2
    <3>3. CASE c[x].fecha <= c[m].fecha
      <4>1. \A y \in s : c[x].fecha <= c[y].fecha
        BY <1>0, <2>1, <3>1, <3>3
      <4> QED
        BY <2>1, <4>1
    <3>4. c[m].fecha <= c[x].fecha \/ c[x].fecha <= c[m].fecha
      <4>1. c[m].fecha \in Nat /\ c[x].fecha \in Nat
        BY <1>0, <2>1, <3>1
      <4> QED
        BY <4>1
    <3> QED
      BY <3>2, <3>3, <3>4
  <2> QED
    BY <2>2, <2>3
<1>2. D \in Q
  <2>1. IsFiniteSet(D) /\ D \in SUBSET D
    BY SlotsFinite
  <2> HIDE DEF D, Q
  <2> QED
    BY <1>1, <2>1, InductionOnSubsets
<1>3. PICK x \in D : \A y \in D : c[x].fecha <= c[y].fecha
  BY <1>2
<1>4. \E d \in Fecha : (\E j \in D : c[j].fecha = d) /\ \A j \in D : d <= c[j].fecha
  BY <1>0, <1>3
<1>5. \E j \in D : c[j].fecha = RefDate(c)
  BY <1>4 DEF RefDate
<1> QED
  BY <1>5

\* What the lines of a block cost together.
LEMMA LinesCost ==
    ASSUME PricingInd, NEW c \in Seq(Item), WholeBlocks(c), NEW b \in AllBlocks(c),
           NEW n, n = Counts(BlockHours(c, b), LinePrices(c, b)),
           NEW t, \A l \in LinesOf(c, b) : t[l] = l.total
    PROVE  SumFunctionOnSet(t, LinesOf(c, b))
               = Cost("h12", n.h12, LinePrices(c, b)) + Cost("h6", n.h6, LinePrices(c, b))
                 + Cost("hora", n.hora, LinePrices(c, b))
<1> DEFINE p == LinePrices(c, b)
           L == LinesOf(c, b)
           key == [l \in L |-> l.kind]
           part == [k \in SegmentKinds |-> {l \in L : key[l] = k}]
           g == [k \in SegmentKinds |-> Cost(k, n[k], p)]
<1>1. /\ p \in PriceRow /\ n \in CountRow /\ IsFiniteSet(L)
      /\ \A l \in L : LineOf(c, b, l) /\ l.qty = n[l.kind]
      /\ \A k \in SegmentKinds : n[k] > 0 => \E l \in L : l.kind = k
      /\ \A l, m \in L : l.kind = m.kind => l = m
  BY BlockLinesFound
<1>2. \A l \in L : /\ t[l] \in Int /\ t[l] = Cost(l.kind, n[l.kind], p)
                   /\ l.kind \in SegmentKinds /\ n[l.kind] > 0
  BY <1>1 DEF LineOf, Cost
<1>3. \A k \in SegmentKinds : n[k] \in Nat
  BY <1>1 DEF CountRow, SegmentKinds
<1> HIDE DEF p, L
<1>4. ASSUME NEW k \in SegmentKinds
      PROVE  g[k] = SumFunctionOnSet(t, part[k]) /\ g[k] \in Int
  <2>1. CASE n[k] > 0
    <3>1. PICK l \in L : l.kind = k
      BY <1>1, <2>1
    <3>2. part[k] = {l}
      BY <1>1, <3>1
    <3>3. t[l] \in Int /\ t[l] = g[k]
      BY <1>2, <3>1
    <3> HIDE DEF g
    <3>4. SumFunctionOnSet(t, {l}) = t[l]
      BY <3>3, SumOfOne
    <3>5. SumFunctionOnSet(t, part[k]) = t[l]
      BY <3>2, <3>4, Zenon
    <3> QED
      BY <3>3, <3>5
  <2>2. CASE n[k] = 0
    <3>1. part[k] = {} /\ IsFiniteSet({})
      BY <1>2, <2>2, FS_EmptySet
    <3>2. SumFunctionOnSet(t, {}) = 0
      BY <3>1, SumFirst
    <3>3. SumFunctionOnSet(t, part[k]) = 0
      BY <3>1, <3>2, Zenon
    <3>4. g[k] = 0
      <4> DEFINE u == UnitPrice(k, p)
      <4>1. u \in Int /\ g[k] = Extend(k, 0, u)
        BY <1>1, <2>2, UnitPriceType DEF Cost
      <4> HIDE DEF u, g
      <4>2. 0 * u = 0 /\ RoundDiv(0, 2) = 0
        BY <4>1 DEF RoundDiv
      <4>3. Extend(k, 0, u) = 0
        BY <4>2 DEF Extend
      <4> QED
        BY <4>1, <4>3
    <3> QED
      BY <3>3, <3>4
  <2> QED
    BY <1>3, <2>1, <2>2
<1>5. SegmentKinds = {"h12"} \cup ({"h6"} \cup {"hora"}) /\ IsFiniteSet(SegmentKinds)
  <2>1. IsFiniteSet({"h12"}) /\ IsFiniteSet({"h6"}) /\ IsFiniteSet({"hora"})
    BY FS_Singleton
  <2>2. SegmentKinds = {"h12"} \cup ({"h6"} \cup {"hora"})
    BY DEF SegmentKinds
  <2> QED
    BY <2>1, <2>2, FS_Union
<1>6. SumFunctionOnSet(g, SegmentKinds) = SumFunctionOnSet(t, L)
  <2>1. \A l \in L : t[l] \in Int
    BY <1>2
  <2>2. \A l \in L : key[l] \in SegmentKinds
    BY <1>2
  <2>3. \A k \in SegmentKinds : part[k] = {l \in L : key[l] = k}
    OBVIOUS
  <2>4. \A k \in SegmentKinds : g[k] = SumFunctionOnSet(t, part[k])
    BY <1>4
  <2>5. IsFiniteSet(L) /\ IsFiniteSet(SegmentKinds)
    BY <1>1, <1>5
  <2> HIDE DEF key, part, g
  <2> QED
    BY <2>1, <2>2, <2>3, <2>4, <2>5, SumByKey
<1>7. SumFunctionOnSet(g, SegmentKinds) = g["h12"] + (g["h6"] + g["hora"])
  <2>1. \A k \in SegmentKinds : g[k] \in Int
    BY <1>4
  <2> HIDE DEF g
  <2>2. /\ {"h12"} \in SUBSET SegmentKinds /\ {"h6"} \in SUBSET SegmentKinds
        /\ {"hora"} \in SUBSET SegmentKinds /\ {"h6"} \cup {"hora"} \in SUBSET SegmentKinds
        /\ {"h12"} \cap ({"h6"} \cup {"hora"}) = {} /\ {"h6"} \cap {"hora"} = {}
    BY DEF SegmentKinds
  <2>3. /\ SumFunctionOnSet(g, {"h12"}) = g["h12"]
        /\ SumFunctionOnSet(g, {"h6"}) = g["h6"]
        /\ SumFunctionOnSet(g, {"hora"}) = g["hora"]
    <3>1. g["h12"] \in Int /\ g["h6"] \in Int /\ g["hora"] \in Int
      BY <2>1 DEF SegmentKinds
    <3> QED
      BY <3>1, SumOfOne
  <2>4. SumFunctionOnSet(g, {"h12"} \cup ({"h6"} \cup {"hora"}))
          = SumFunctionOnSet(g, {"h12"}) + SumFunctionOnSet(g, {"h6"} \cup {"hora"})
    BY <1>5, <2>1, <2>2, SumOfUnion
  <2>5. SumFunctionOnSet(g, {"h6"} \cup {"hora"})
          = SumFunctionOnSet(g, {"h6"}) + SumFunctionOnSet(g, {"hora"})
    BY <1>5, <2>1, <2>2, SumOfUnion
  <2>6. SumFunctionOnSet(g, SegmentKinds) = SumFunctionOnSet(g, {"h12"} \cup ({"h6"} \cup {"hora"}))
    BY <1>5, Zenon
  <2> QED
    BY <2>3, <2>4, <2>5, <2>6
<1>8. /\ g["h12"] = Cost("h12", n.h12, p) /\ g["h6"] = Cost("h6", n.h6, p)
      /\ g["hora"] = Cost("hora", n.hora, p)
      /\ g["h12"] \in Int /\ g["h6"] \in Int /\ g["hora"] \in Int
  <2>1. "h12" \in SegmentKinds /\ "h6" \in SegmentKinds /\ "hora" \in SegmentKinds
    BY DEF SegmentKinds
  <2>2. g["h12"] \in Int /\ g["h6"] \in Int /\ g["hora"] \in Int
    BY <1>4, <2>1
  <2>3. /\ g["h12"] = Cost("h12", n.h12, p) /\ g["h6"] = Cost("h6", n.h6, p)
        /\ g["hora"] = Cost("hora", n.hora, p)
    BY <2>1
  <2> QED
    BY <2>2, <2>3
<1> HIDE DEF g
<1>9. SumFunctionOnSet(t, L) = Cost("h12", n.h12, p) + Cost("h6", n.h6, p) + Cost("hora", n.hora, p)
  BY <1>6, <1>7, <1>8
<1> QED
  BY <1>9 DEF L, p

\* At the rules of its own day, a block is printed at its package price.
LEMMA LinesAreThePackage ==
    ASSUME PricingInd, NEW c \in Seq(Item), WholeBlocks(c), WholePesos, OneRulePerSpace(c),
           NEW b \in AllBlocks(c), BlockLength(c, b) > 0,
           RuleOn(c[Earliest(c, b)].space, c[Earliest(c, b)].fecha) # NoRule,
           NEW t, \A l \in LinesOf(c, b) : t[l] = l.total
    PROVE  /\ 100 * SumFunctionOnSet(t, LinesOf(c, b)) = BlockPrice(c, b)
           /\ SumFunctionOnSet(t, LinesOf(c, b)) \in Int
<1> DEFINE o == Earliest(c, b)
           h == BlockHours(c, b)
           p == LinePrices(c, b)
           r == RuleOn(c[o].space, c[o].fecha)
           n == Counts(h, p)
           sum == SumFunctionOnSet(t, LinesOf(c, b))
<1>1. o \in DOMAIN c
  BY BlockFound
<1>2. RuleOn(c[o].space, RefDate(c)) = r
  <2>1. PICK j \in DOMAIN c : RefDate(c) = c[j].fecha
    BY <1>1, RefDateFound
  <2> QED
    BY <1>1, <2>1 DEF OneRulePerSpace
<1>3. r \in RuleRow /\ r \in rules
  BY RuleFound DEF RulesOf
<1>4. p = [hora |-> r.extra, seis |-> r.base6, doce |-> r.base12]
  BY <1>2 DEF LinePrices, CatalogPrices
<1>5. h \in Nat /\ h > 0 /\ h % 2 = 0 /\ h = BlockLength(c, b)
  <2>1. h = BlockLength(c, b)
    <3>1. BlockLength(c, b) \in Int
      BY BlockTelescopes
    <3> QED
      BY <3>1 DEF BlockHours
  <2> QED
    BY <2>1 DEF WholeBlocks
<1>6. r.base6 % 100 = 0 /\ r.base12 % 100 = 0 /\ r.extra % 100 = 0
  BY <1>3 DEF WholePesos
<1>7. BlockPrice(c, b) = PackagePrice(h, r)
  BY <1>5 DEF BlockPrice
<1>8. sum = Cost("h12", n.h12, p) + Cost("h6", n.h6, p) + Cost("hora", n.hora, p)
  BY LinesCost
<1>9. sum \in Int
  <2>1. IsFiniteSet(LinesOf(c, b)) /\ \A l \in LinesOf(c, b) : t[l] \in Int
    BY BlockLinesFound DEF LineOf
  <2> QED
    BY <2>1, SumFirst
<1>10. n = Counts(h, p)
  OBVIOUS
<1> HIDE DEF n, h, p, r, sum
<1>11. 100 * (Cost("h12", n.h12, p) + Cost("h6", n.h6, p) + Cost("hora", n.hora, p))
         = PackagePrice(h, r)
  BY <1>3, <1>4, <1>5, <1>6, <1>10, SegmentsCost
<1> QED
  BY <1>7, <1>8, <1>9, <1>11 DEF sum

\* The subtotal of the table is what its lines cost.
LEMMA SubtotalOfLines ==
    ASSUME PricingInd, NEW c \in Seq(Item), WholeBlocks(c),
           NEW t, \A l \in DetailLines(c) : t[l] = l.total
    PROVE  DetailSubtotal(c) = SumFunctionOnSet(t, DetailLines(c))
<1> DEFINE S == DetailLines(c)
           key == [l \in S |-> RowKey(c, l)]
           K == {key[l] : l \in S}
           part == [k \in K |-> {l \in S : key[l] = k}]
           rows == DetailRows(c)
           g == [k \in K |-> rows[k].total]
<1>1. IsFiniteSet(S) /\ \A l \in S : t[l] \in Int
  BY LinesFound DEF LineOf
<1>2. rows = [k \in K |-> Row({l \in S : key[l] = k})]
  BY DEF DetailRows
<1>3. DOMAIN rows = K /\ \A k \in K : rows[k] = Row(part[k])
  BY <1>2
<1>4. IsFiniteSet(K)
  <2> HIDE DEF key
  <2> QED
    BY <1>1, ImageFinite
<1>5. \A k \in K : part[k] = {l \in S : key[l] = k}
  OBVIOUS
<1>6. \A l \in S : key[l] \in K
  OBVIOUS
<1>7. DetailSubtotal(c) = Total([k \in DOMAIN rows |-> rows[k].total])
  BY DEF DetailSubtotal
<1>8. [k \in DOMAIN rows |-> rows[k].total] = g
  BY <1>3
<1>9. DOMAIN g = K /\ \A k \in K : g[k] = Row(part[k]).total
  BY <1>3
<1> HIDE DEF S, key, K, part, rows, g
<1>10. ASSUME NEW k \in K PROVE g[k] = SumFunctionOnSet(t, part[k])
  <2> DEFINE q == [m \in part[k] |-> m.total]
  <2>1. Row(part[k]).total = Total(q)
    BY DEF Row
  <2>2. Total(q) = SumFunctionOnSet(q, part[k])
    BY DEF Total, SumFunction
  <2>3. IsFiniteSet(part[k]) /\ part[k] \subseteq S
    BY <1>1, <1>5, FS_Subset
  <2>4. \A m \in part[k] : t[m] \in Int /\ t[m] = q[m]
    BY <1>1, <2>3 DEF S
  <2> HIDE DEF q
  <2>5. SumFunctionOnSet(t, part[k]) = SumFunctionOnSet(q, part[k])
    BY <2>3, <2>4, SumSame
  <2> QED
    BY <1>9, <2>1, <2>2, <2>5
<1>11. SumFunctionOnSet(g, K) = SumFunctionOnSet(t, S)
  BY <1>1, <1>4, <1>5, <1>6, <1>10, SumByKey
<1>12. Total(g) = SumFunctionOnSet(g, K)
  BY <1>9 DEF Total, SumFunction
<1> QED
  BY <1>7, <1>8, <1>11, <1>12 DEF S

LEMMA QuoteIsDetail ==
    ASSUME PricingInd, NEW c \in Seq(Item),
           Priceable(c), WholeBlocks(c), WholePesos, OneRulePerSpace(c)
    PROVE  QuoteTotal(c) = 100 * DetailSubtotal(c)
<1> DEFINE D == DOMAIN c
           B == AllBlocks(c)
           S == DetailLines(c)
           ip == ItemPrices(c)
           price == [b \in B |-> BlockPrice(c, b)]
           t == [l \in S |-> l.total]
           key == [l \in S |-> l.block]
           part == [b \in B |-> {l \in S : key[l] = b}]
           cost == [b \in B |-> SumFunctionOnSet(t, part[b])]
<1>1. IsFiniteSet(D) /\ IsFiniteSet(B) /\ IsFiniteSet(S)
  BY SlotsFinite, OneBlockEach, LinesFound
<1>4. QuoteTotal(c) = SumFunctionOnSet(price, B) /\ \A b \in B : price[b] \in Int
  <2>1. \A b \in B : price[b] = BlockPrice(c, b)
    OBVIOUS
  <2> HIDE DEF price
  <2> QED
    BY <2>1, QuoteOfBlocks
<1>5. DetailSubtotal(c) = SumFunctionOnSet(t, S)
  BY SubtotalOfLines
<1>6. ASSUME NEW b \in B PROVE cost[b] \in Int /\ price[b] = 100 * cost[b]
  <2>1. LinesOf(c, b) = {l \in S : l.block = b}
    BY LinesFound
  <2>2. {l \in S : l.block = b} = part[b]
    OBVIOUS
  <2>3. \A l \in LinesOf(c, b) : t[l] = l.total
    BY <2>1
  <2>4. BlockLength(c, b) > 0 /\ Earliest(c, b) \in D
    BY BlockFound DEF Priceable
  <2>5. RuleOn(c[Earliest(c, b)].space, c[Earliest(c, b)].fecha) # NoRule
    BY <2>4 DEF Priceable
  <2>6. cost[b] = SumFunctionOnSet(t, part[b]) /\ price[b] = BlockPrice(c, b)
    OBVIOUS
  <2> HIDE DEF t, part, cost, price
  <2>7. /\ 100 * SumFunctionOnSet(t, LinesOf(c, b)) = BlockPrice(c, b)
        /\ SumFunctionOnSet(t, LinesOf(c, b)) \in Int
    BY <2>3, <2>4, <2>5, LinesAreThePackage
  <2>8. LinesOf(c, b) = part[b]
    BY <2>1, <2>2, Zenon
  <2>9. SumFunctionOnSet(t, LinesOf(c, b)) = cost[b]
    BY <2>6, <2>8, Zenon
  <2> QED
    BY <2>6, <2>7, <2>9
<1>7. SumFunctionOnSet(cost, B) = SumFunctionOnSet(t, S)
  <2>1. \A l \in S : t[l] \in Int
    BY LinesFound DEF LineOf
  <2>4. \A l \in S : key[l] \in B
    BY LinesFound
  <2>2. \A b \in B : part[b] = {l \in S : key[l] = b}
    OBVIOUS
  <2>3. \A b \in B : cost[b] = SumFunctionOnSet(t, part[b])
    OBVIOUS
  <2>5. IsFiniteSet(S) /\ IsFiniteSet(B)
    BY <1>1
  <2> HIDE DEF t, key, part, cost, S, B, D, ip, price
  <2> QED
    BY <2>1, <2>2, <2>3, <2>4, <2>5, SumByKey
<1>8. SumFunctionOnSet(price, B) = 100 * SumFunctionOnSet(cost, B)
  <2> HIDE DEF price, cost
  <2>1. \A b \in B : cost[b] \in Int
    BY <1>6
  <2>2. \A b \in B : price[b] = 100 * cost[b] + 0 * cost[b]
    <3> TAKE b \in B
    <3>1. cost[b] \in Int /\ price[b] = 100 * cost[b]
      BY <1>6
    <3> QED
      BY <3>1
  <2> HIDE DEF B
  <2>3. SumFunctionOnSet(price, B)
          = 100 * SumFunctionOnSet(cost, B) + 0 * SumFunctionOnSet(cost, B)
    BY <1>1, <2>1, <2>2, SumLinear
  <2>4. SumFunctionOnSet(cost, B) \in Int
    BY <1>1, <2>1, SumFirst
  <2> QED
    BY <2>3, <2>4
<1> HIDE DEF price, cost, t
<1> QED
  BY <1>4, <1>5, <1>7, <1>8

LEMMA QuoteMatches == ASSUME PricingInd PROVE QuoteMatchesDetail
<1>1. cart \in Seq(Item)
  BY DEF PricingInd, PricingTypeOK
<1> QED
  BY <1>1, QuoteIsDetail, BlockIsWhole DEF QuoteMatchesDetail, WholeBlocks

-----------------------------------------------------------------------------
(* The totals that are printed.                                            *)

\* The amount that a quote comes to.
LEMMA QuoteType ==
    ASSUME PricingInd, NEW c \in Seq(Item), Priceable(c)
    PROVE  /\ QuoteTotal(c) \in Int
           /\ \A i \in DOMAIN c : ItemPrices(c)[i] \in Int
           /\ QuoteTotal(c) = SumFunctionOnSet(ItemPrices(c), DOMAIN c)
<1> DEFINE D == DOMAIN c
           ip == ItemPrices(c)
<1>1. \A i \in D : ip[i] \in Int
  <2> TAKE i \in D
  <2>1. PICK b \in AllBlocks(c) : i \in b
    BY OneBlockEach
  <2>2. \A x \in b : ip[x] \in Int
    <3> DEFINE share == Allocate(BlockPrice(c, b), Lengths(c, b), LatestIn(c, b))
    <3>1. \A x \in b : ip[x] = share[x] /\ share[x] \in Int
      BY SharesOfBlock DEF SharedOut
    <3> HIDE DEF share, ip
    <3> QED
      BY <3>1
  <2> QED
    BY <2>1, <2>2
<1>2. DOMAIN ip = D
  BY DEF ItemPrices
<1>3. QuoteTotal(c) = SumFunctionOnSet(ip, D)
  BY <1>2 DEF QuoteTotal, Total, SumFunction
<1> HIDE DEF ip
<1>4. SumFunctionOnSet(ip, D) \in Int
  BY <1>1, SlotsFinite, SumFirst
<1> QED
  BY <1>1, <1>3, <1>4 DEF ip

LEMMA PdfIsPreview == ASSUME PricingInd PROVE PdfShowsPreview
<1> SUFFICES ASSUME Priceable(cart), WholeHours(cart), WholePesos, OneRulePerSpace(cart),
                    NEW row \in CodeRows
    PROVE  WizardPdf(cart, row).total = WizardPreview(row, QuoteTotal(cart))
  BY DEF PdfShowsPreview
<1> DEFINE subtotal == 100 * DetailSubtotal(cart)
           accepted == Accepts(row, subtotal, {}, {})
           amount == DiscountAmount(row, subtotal)
<1>1. cart \in Seq(Item)
  BY DEF PricingInd, PricingTypeOK
<1>2. WholeBlocks(cart)
  BY <1>1, BlockIsWhole DEF WholeBlocks
<1>3. subtotal = QuoteTotal(cart) /\ subtotal \in Int
  BY <1>1, <1>2, QuoteIsDetail, QuoteType
<1>4. WizardPdf(cart, row).total = subtotal - (IF accepted THEN amount ELSE 0)
  BY DEF WizardPdf, CartContext
<1>5. WizardPreview(row, subtotal) = IF accepted THEN subtotal - amount ELSE subtotal
  BY DEF WizardPreview, Preview
<1> HIDE DEF subtotal, accepted, amount
<1>6. subtotal - 0 = subtotal
  BY <1>3
<1> QED
  BY <1>3, <1>4, <1>5, <1>6

\* A slot that is a package by itself has one price.
LEMMA PackageIsTier ==
    ASSUME NEW r \in RuleRow, r.base6 > 0, r.base12 > 0
    PROVE  /\ PackagePrice(12, r) = r.base6 /\ HybridPrice(12, r) = r.base6
           /\ PackagePrice(24, r) = r.base12 /\ HybridPrice(24, r) = r.base12
<1>1. r.base6 \in Nat /\ r.base12 \in Nat /\ r.extra \in Nat
  BY RuleFields
<1>2. RoundDiv(0 * r.extra, 2) = 0
  BY <1>1 DEF RoundDiv
<1>3. HybridPrice(12, r) = r.base6 /\ HybridPrice(24, r) = r.base12
  BY DEF HybridPrice
<1>4. PackagePrice(12, r) = r.base6
  <2>1. PackagePrice(12, r) = 0 * r.base12 + 1 * r.base6 + RoundDiv(0 * r.extra, 2)
    BY <1>1 DEF PackagePrice
  <2> QED
    BY <1>1, <1>2, <2>1
<1>5. PackagePrice(24, r) = r.base12
  <2>1. PackagePrice(24, r) = 1 * r.base12 + 0 * r.base6 + RoundDiv(0 * r.extra, 2)
    BY <1>1 DEF PackagePrice
  <2> QED
    BY <1>1, <1>2, <2>1
<1> QED
  BY <1>3, <1>4, <1>5

LEMMA PackagesAreBlocks ==
    ASSUME PricingInd, NEW c \in Seq(Item), EventPriceable(c), WholePackages(c)
    PROVE  /\ Priceable(c) /\ WholeBlocks(c)
           /\ \A i \in DOMAIN c : ItemPrices(c)[i] = SlotPrice(c[i]) /\ SlotPrice(c[i]) \in Nat
<1>1. ASSUME NEW b \in AllBlocks(c)
      PROVE  \E i \in DOMAIN c : b = {i} /\ BlockLength(c, b) = c[i].fin - c[i].inicio
                                 /\ Earliest(c, b) = i
  <2>1. PICK i \in b : i \in DOMAIN c
    BY BlockFound
  <2>2. {i} \in AllBlocks(c)
    BY <2>1 DEF WholePackages
  <2>3. b = {i}
    BY <2>1, <2>2, OneBlockEach
  <2>4. Earliest(c, b) = i /\ LatestIn(c, b) = i
    <3>1. Earliest(c, b) \in b /\ LatestIn(c, b) \in b
      BY BlockFound
    <3> QED
      BY <2>3, <3>1
  <2> QED
    BY <2>1, <2>3, <2>4 DEF BlockLength
<1>2. \A i \in DOMAIN c : c[i].fin - c[i].inicio \in {12, 24}
  BY DEF WholePackages
<1>3. Priceable(c)
  <2>1. ASSUME NEW b \in AllBlocks(c) PROVE BlockLength(c, b) > 0
    BY <1>1, <1>2
  <2> QED
    BY <2>1 DEF Priceable, EventPriceable
<1>4. WholeBlocks(c)
  <2> SUFFICES ASSUME NEW b \in AllBlocks(c)
      PROVE BlockHours(c, b) \in Nat /\ BlockHours(c, b) > 0 /\ BlockHours(c, b) % 2 = 0
    BY DEF WholeBlocks
  <2>1. BlockLength(c, b) = 12 \/ BlockLength(c, b) = 24
    BY <1>1, <1>2
  <2>2. BlockHours(c, b) = 12 \/ BlockHours(c, b) = 24
    BY <2>1 DEF BlockHours
  <2> QED
    BY <2>2
<1>5. ASSUME NEW i \in DOMAIN c
      PROVE  ItemPrices(c)[i] = SlotPrice(c[i]) /\ SlotPrice(c[i]) \in Nat
  <2> DEFINE b == {i}
             r == RuleOn(c[i].space, c[i].fecha)
             share == Allocate(BlockPrice(c, b), Lengths(c, b), LatestIn(c, b))
  <2>1. b \in AllBlocks(c) /\ r # NoRule
    BY DEF WholePackages, EventPriceable
  <2>2. r \in RuleRow
    BY <2>1, RuleFound
  <2>3. r.base6 > 0 /\ r.base12 > 0
    BY <2>1 DEF WholePackages
  <2>4. r.base6 \in Nat /\ r.base12 \in Nat
    BY <2>2, RuleFields
  <2>5. BlockLength(c, b) = c[i].fin - c[i].inicio /\ Earliest(c, b) = i
    BY <1>1, <2>1
  <2>6. BlockPrice(c, b) = SlotPrice(c[i]) /\ SlotPrice(c[i]) \in Nat
    <3>1. BlockPrice(c, b) = PackagePrice(c[i].fin - c[i].inicio, r)
      BY <2>5 DEF BlockPrice
    <3>2. SlotPrice(c[i]) = HybridPrice(c[i].fin - c[i].inicio, r)
      BY DEF SlotPrice
    <3> HIDE DEF r, b
    <3> QED
      BY <1>2, <2>2, <2>3, <2>4, <3>1, <3>2, PackageIsTier
  <2>7. /\ \A x \in b : ItemPrices(c)[x] = share[x] /\ share[x] \in Int
        /\ SumFunctionOnSet(share, b) = BlockPrice(c, b)
    BY <1>3, <2>1, SharesOfBlock DEF SharedOut
  <2> HIDE DEF share, r
  <2>8. SumFunctionOnSet(share, {i}) = share[i]
    BY <2>7, SumOfOne
  <2> QED
    BY <2>6, <2>7, <2>8
<1> QED
  BY <1>3, <1>4, <1>5

LEMMA ReprintKeeps == ASSUME PricingInd PROVE ReprintKeepsDiscount
<1> SUFFICES ASSUME EventPriceable(cart), WholePackages(cart), WholePesos, OneRulePerSpace(cart),
                    NEW content \in NewCodes, NEW row \in CodeRows,
                    row.value = content.value, row.kind = content.kind,
                    NEW granted, granted = DiscountAmount(NewRow(content), EventSubtotal(cart))
    PROVE  /\ EventPdf(cart, row).discount = Total(Shares(granted, Len(cart)))
           /\ EventPdf(cart, row).total = EventSubtotal(cart) - granted
  BY DEF ReprintKeepsDiscount
<1> DEFINE c == cart
           D == DOMAIN c
           price == [i \in D |-> SlotPrice(c[i])]
           ip == ItemPrices(c)
           s == EventSubtotal(c)
<1>1. c \in Seq(Item)
  BY DEF PricingInd, PricingTypeOK
<1>2. /\ Priceable(c) /\ WholeBlocks(c)
      /\ \A i \in D : ip[i] = price[i] /\ price[i] \in Nat
  BY <1>1, PackagesAreBlocks
<1>3. s = SumFunctionOnSet(price, D)
  BY DEF EventSubtotal, Total, SumFunction
<1>4. IsFiniteSet(D)
  BY <1>1, SlotsFinite
<1>5. s = QuoteTotal(c) /\ s \in Nat
  <2> HIDE DEF price, ip, s
  <2>1. \A i \in D : price[i] \in Int /\ price[i] = ip[i]
    BY <1>2
  <2>2. SumFunctionOnSet(price, D) = SumFunctionOnSet(ip, D)
    BY <1>4, <2>1, SumSame
  <2>3. QuoteTotal(c) = SumFunctionOnSet(ip, D)
    BY <1>1, <1>2, QuoteType DEF ip
  <2>4. \A i \in D : price[i] \in Nat
    BY <1>2
  <2>5. D \in SUBSET D
    OBVIOUS
  <2>6. SumFunctionOnSet(price, D) \in Nat
    BY <1>4, <2>4, <2>5, SumOfPart
  <2> QED
    BY <1>3, <2>2, <2>3, <2>6
<1>6. s = 100 * DetailSubtotal(c)
  BY <1>1, <1>2, <1>5, QuoteIsDetail
<1>7. DiscountAmount(row, s) = granted
  BY DEF DiscountAmount, NewRow
<1>8. EventPdf(c, row).discount = granted /\ EventPdf(c, row).total = s - granted
  <2>1. EventPdf(c, row) = [subtotal |-> s, discount |-> DiscountAmount(row, s),
                            total |-> s - DiscountAmount(row, s)]
    BY <1>6 DEF EventPdf, EventContext
  <2> HIDE DEF s
  <2> QED
    BY <1>7, <2>1
<1>9. granted \in 0..s
  <2>1. NewRow(content) \in CodeRow
    BY CodesAssumption
  <2> QED
    BY <1>5, <2>1, AmountOf
<1>10. Total(Shares(granted, Len(c))) = granted
  <2>1. Len(c) \in Nat /\ D = 1..Len(c)
    BY <1>1
  <2>2. CASE Len(c) > 0
    BY <1>5, <1>9, <2>1, <2>2, SharesAdd
  <2>3. CASE Len(c) = 0
    <3>1. D = {}
      BY <2>1, <2>3
    <3>2. s = 0
      <4> HIDE DEF price
      <4>1. \A i \in D : price[i] \in Int
        BY <1>2
      <4> QED
        BY <1>3, <1>4, <3>1, <4>1, SumFirst
    <3>3. granted = 0
      BY <1>9, <3>2
    <3> DEFINE f == Shares(granted, Len(c))
    <3>4. DOMAIN f = {}
      BY <2>3 DEF Shares
    <3>5. Total(f) = SumFunctionOnSet(f, {})
      BY <3>4 DEF Total, SumFunction
    <3>6. SumFunctionOnSet(f, {}) = 0
      <4> HIDE DEF f
      <4> QED
        BY FS_EmptySet, SumFirst
    <3> QED
      BY <3>3, <3>5, <3>6
  <2> QED
    BY <2>1, <2>2, <2>3
<1> QED
  BY <1>8, <1>10

-----------------------------------------------------------------------------
(* The order of the request.                                               *)

\* The cart d has the slots of c in another order.
Reorders(c, d, p) ==
    /\ c \in Seq(Item) /\ \A i, j \in DOMAIN c : c[i] = c[j] => i = j
    /\ p \in [DOMAIN c -> DOMAIN c]
    /\ \A i, j \in DOMAIN c : p[i] = p[j] => i = j
    /\ \A j \in DOMAIN c : \E i \in DOMAIN c : p[i] = j
    /\ d = [k \in DOMAIN c |-> c[p[k]]]

LEMMA SameItem ==
    ASSUME NEW x \in Item, NEW y \in Item, x.space = y.space, x.fecha = y.fecha,
           x.inicio = y.inicio, x.fin = y.fin
    PROVE  x = y
  BY DEF Item

LEMMA Reordered ==
    ASSUME NEW c, NEW d, NEW p, Reorders(c, d, p)
    PROVE  /\ d \in Seq(Item) /\ DOMAIN d = DOMAIN c
           /\ \A i \in DOMAIN c : d[i] = c[p[i]] /\ p[i] \in DOMAIN c
           /\ \A i, j \in DOMAIN c :
                /\ SameDay(d, i, j) <=> SameDay(c, p[i], p[j])
                /\ SameDay(d, i, j) => (Before(d, i, j) <=> Before(c, p[i], p[j]))
<1>1. c \in Seq(Item) /\ Len(c) \in Nat /\ DOMAIN c = 1..Len(c)
  BY DEF Reorders
<1>2. DOMAIN d = DOMAIN c /\ \A i \in DOMAIN c : d[i] = c[p[i]] /\ p[i] \in DOMAIN c
  BY DEF Reorders
<1>3. d \in Seq(Item)
  <2>1. d \in [1..Len(c) -> Item]
    BY <1>1, <1>2 DEF Reorders
  <2> QED
    BY <1>1, <2>1
<1>4. ASSUME NEW i \in DOMAIN c, NEW j \in DOMAIN c
      PROVE  /\ SameDay(d, i, j) <=> SameDay(c, p[i], p[j])
             /\ SameDay(d, i, j) => (Before(d, i, j) <=> Before(c, p[i], p[j]))
  <2> DEFINE x == c[p[i]]
             y == c[p[j]]
             ordered == x.inicio < y.inicio \/ (x.inicio = y.inicio /\ x.fin < y.fin)
             tie == x.inicio = y.inicio /\ x.fin = y.fin
  <2>1. d[i] = x /\ d[j] = y /\ x \in Item /\ y \in Item
    BY <1>1, <1>2
  <2>2. SameDay(d, i, j) <=> x.space = y.space /\ x.fecha = y.fecha
    BY <2>1 DEF SameDay
  <2>3. SameDay(c, p[i], p[j]) <=> x.space = y.space /\ x.fecha = y.fecha
    BY DEF SameDay
  <2>4. Before(d, i, j) <=> ordered \/ (tie /\ i < j)
    BY <2>1 DEF Before
  <2>5. Before(c, p[i], p[j]) <=> ordered \/ (tie /\ p[i] < p[j])
    BY DEF Before
  <2>6. ASSUME SameDay(d, i, j), tie PROVE ~ (i < j) /\ ~ (p[i] < p[j])
    <3>1. x = y
      BY <2>1, <2>2, <2>6, SameItem
    <3>2. p[i] = p[j]
      BY <1>2, <3>1 DEF Reorders
    <3>3. i = j /\ i \in Nat /\ p[i] \in Nat
      BY <1>1, <1>2, <3>2 DEF Reorders
    <3> QED
      BY <3>2, <3>3
  <2> HIDE DEF ordered, tie, x, y
  <2> QED
    BY <2>2, <2>3, <2>4, <2>5, <2>6
<1> QED
  BY <1>2, <1>3, <1>4

\* The slots of one space and day keep their first and their last.
LEMMA ReorderedEnds ==
    ASSUME NEW c, NEW d, NEW p, Reorders(c, d, p), NEW S \in SUBSET DOMAIN c, S # {},
           \A i, j \in S : SameDay(d, i, j),
           NEW T, T = {p[i] : i \in S}
    PROVE  LatestIn(c, T) = p[LatestIn(d, S)] /\ Earliest(c, T) = p[Earliest(d, S)]
<1>0. c \in Seq(Item)
  BY DEF Reorders
<1>1. /\ c \in Seq(Item) /\ d \in Seq(Item) /\ S \in SUBSET DOMAIN d
      /\ T \in SUBSET DOMAIN c /\ T # {}
  BY <1>0, Reordered
<1>2. ASSUME NEW i \in S, NEW j \in S PROVE Before(d, i, j) => Before(c, p[i], p[j])
  BY Reordered
<1>3. LatestIn(c, T) = p[LatestIn(d, S)]
  <2> DEFINE l == LatestIn(d, S)
  <2>1. l \in S /\ \A j \in S : j = l \/ Before(d, j, l)
    BY <1>1, LatestFound
  <2> HIDE DEF l
  <2>2. p[l] \in T /\ \A t \in T : t = p[l] \/ Before(c, t, p[l])
    BY <1>2, <2>1
  <2>3. p[l] = LatestIn(c, T)
    BY <1>1, <2>2, LatestFound
  <2> QED
    BY <2>3 DEF l
<1>4. Earliest(c, T) = p[Earliest(d, S)]
  <2> DEFINE l == Earliest(d, S)
  <2>1. l \in S /\ \A j \in S : j = l \/ Before(d, l, j)
    BY <1>1, EarliestFound
  <2> HIDE DEF l
  <2>2. p[l] \in T /\ \A t \in T : t = p[l] \/ Before(c, p[l], t)
    BY <1>2, <2>1
  <2>3. p[l] = Earliest(c, T)
    BY <1>1, <2>2, EarliestFound
  <2> QED
    BY <2>3 DEF l
<1> QED
  BY <1>3, <1>4

LEMMA ReorderedOpens ==
    ASSUME NEW c, NEW d, NEW p, Reorders(c, d, p), NEW i \in DOMAIN c
    PROVE  /\ Earlier(c, p[i]) = {p[j] : j \in Earlier(d, i)}
           /\ Opens(c, p[i]) <=> Opens(d, i)
<1>1. c \in Seq(Item)
  BY DEF Reorders
<1>2. /\ c \in Seq(Item) /\ d \in Seq(Item) /\ DOMAIN d = DOMAIN c /\ p[i] \in DOMAIN c
      /\ \A k \in DOMAIN c : d[k] = c[p[k]] /\ p[k] \in DOMAIN c
  BY <1>1, Reordered
<1>3. ASSUME NEW j \in DOMAIN c PROVE j \in Earlier(d, i) <=> p[j] \in Earlier(c, p[i])
  <2>1. j \in Earlier(d, i) <=> SameDay(d, j, i) /\ Before(d, j, i)
    BY <1>2 DEF Earlier, SameDay
  <2>2. p[j] \in Earlier(c, p[i]) <=> SameDay(c, p[j], p[i]) /\ Before(c, p[j], p[i])
    BY <1>2 DEF Earlier, SameDay
  <2> QED
    BY <2>1, <2>2, Reordered
<1>4. Earlier(c, p[i]) = {p[j] : j \in Earlier(d, i)}
  <2>1. Earlier(d, i) \subseteq DOMAIN c /\ Earlier(c, p[i]) \subseteq DOMAIN c
    BY <1>2 DEF Earlier
  <2>2. \A t \in DOMAIN c : \E j \in DOMAIN c : p[j] = t
    BY DEF Reorders
  <2> QED
    BY <1>3, <2>1, <2>2
<1>5. CASE Earlier(d, i) = {}
  <2>1. Earlier(c, p[i]) = {}
    BY <1>4, <1>5
  <2> QED
    BY <1>4, <1>5, <2>1 DEF Opens
<1>6. CASE Earlier(d, i) # {}
  <2> DEFINE l == LatestIn(d, Earlier(d, i))
  <2>1. Earlier(d, i) \in SUBSET DOMAIN c
    BY <1>2 DEF Earlier
  <2>2. \A j, k \in Earlier(d, i) : SameDay(d, j, k)
    BY DEF Earlier, SameDay
  <2>3. LatestIn(c, Earlier(c, p[i])) = p[l]
    BY <1>4, <1>6, <2>1, <2>2, ReorderedEnds
  <2>4. l \in DOMAIN c
    BY <1>2, <1>6, <2>1, LatestFound
  <2>5. Earlier(c, p[i]) # {}
    BY <1>4, <1>6
  <2>6. c[LatestIn(c, Earlier(c, p[i]))].fin = d[l].fin /\ c[p[i]].inicio = d[i].inicio
    BY <1>2, <2>3, <2>4
  <2> QED
    BY <1>4, <1>6, <2>5, <2>6 DEF Opens
<1> QED
  BY <1>4, <1>5, <1>6

LEMMA ReorderedOpener ==
    ASSUME NEW c, NEW d, NEW p, Reorders(c, d, p), NEW i \in DOMAIN c
    PROVE  Opener(c, Openers(c), p[i]) = p[Opener(d, Openers(d), i)]
<1> DEFINE S == Openers(d) \cap (Earlier(d, i) \cup {i})
           T == Openers(c) \cap (Earlier(c, p[i]) \cup {p[i]})
           o == Opener(d, Openers(d), i)
<1>1. c \in Seq(Item)
  BY DEF Reorders
<1>2. /\ c \in Seq(Item) /\ d \in Seq(Item) /\ DOMAIN d = DOMAIN c
      /\ \A k \in DOMAIN c : p[k] \in DOMAIN c
  BY <1>1, Reordered
<1>3. Earlier(c, p[i]) = {p[j] : j \in Earlier(d, i)}
  BY ReorderedOpens
<1>4. Earlier(d, i) \subseteq DOMAIN c /\ Earlier(c, p[i]) = {p[j] : j \in Earlier(d, i)}
  BY <1>2, <1>3 DEF Earlier
<1>5. \A j \in DOMAIN c : p[j] \in Openers(c) <=> j \in Openers(d)
  BY <1>2, ReorderedOpens DEF Openers
<1>6. T = {p[j] : j \in S}
  BY <1>2, <1>4, <1>5
<1>7. S # {}
  <2>1. o \in Openers(d) /\ o \in DOMAIN d /\ SameDay(d, o, i) /\ (o = i \/ Before(d, o, i))
    BY <1>2, OpenerFound
  <2>2. o \in S
    BY <2>1 DEF Earlier, SameDay
  <2> QED
    BY <2>2
<1>8. S \in SUBSET DOMAIN c /\ \A j, k \in S : SameDay(d, j, k)
  BY <1>4 DEF Earlier, SameDay
<1>9. LatestIn(c, T) = p[LatestIn(d, S)]
  <2> HIDE DEF S, T
  <2> QED
    BY <1>6, <1>7, <1>8, ReorderedEnds
<1> QED
  BY <1>9 DEF Opener

\* Blocks have the slots that they had.
LEMMA ReorderedBlock ==
    ASSUME NEW c, NEW d, NEW p, Reorders(c, d, p), NEW b \in AllBlocks(d),
           NEW a, a = {p[i] : i \in b}
    PROVE  /\ a \in AllBlocks(c) /\ b \in SUBSET DOMAIN c
           /\ LatestIn(c, a) = p[LatestIn(d, b)] /\ Earliest(c, a) = p[Earliest(d, b)]
           /\ BlockLength(d, b) = BlockLength(c, a) /\ BlockPrice(d, b) = BlockPrice(c, a)
<1> DEFINE o == Earliest(d, b)
           l == LatestIn(d, b)
<1>1. c \in Seq(Item)
  BY DEF Reorders
<1>2. /\ c \in Seq(Item) /\ d \in Seq(Item) /\ DOMAIN d = DOMAIN c
      /\ \A k \in DOMAIN c : d[k] = c[p[k]] /\ p[k] \in DOMAIN c
  BY <1>1, Reordered
<1>3. /\ b \in SUBSET DOMAIN c /\ b # {} /\ o \in b /\ o \in Openers(d) /\ b = BlockFrom(d, o)
      /\ l \in b /\ \A i \in b : SameDay(d, i, o)
  BY <1>2, BlockFound
<1>4. p[o] \in Openers(c)
  BY <1>2, <1>3, ReorderedOpens DEF Openers
<1>5. a = BlockFrom(c, p[o])
  <2>1. ASSUME NEW i \in DOMAIN c PROVE i \in b <=> p[i] \in BlockFrom(c, p[o])
    <3>1. i \in b <=> Opener(d, Openers(d), i) = o
      BY <1>2, <1>3 DEF BlockFrom
    <3>2. p[i] \in BlockFrom(c, p[o]) <=> Opener(c, Openers(c), p[i]) = p[o]
      BY <1>2 DEF BlockFrom
    <3>3. Opener(c, Openers(c), p[i]) = p[Opener(d, Openers(d), i)]
      BY ReorderedOpener
    <3>4. Opener(d, Openers(d), i) \in DOMAIN c /\ o \in DOMAIN c
      BY <1>2, <1>3, OpenerFound
    <3>5. p[Opener(d, Openers(d), i)] = p[o] <=> Opener(d, Openers(d), i) = o
      BY <3>4 DEF Reorders
    <3> QED
      BY <3>1, <3>2, <3>3, <3>5
  <2>2. BlockFrom(c, p[o]) \subseteq DOMAIN c
    BY DEF BlockFrom
  <2>3. \A t \in DOMAIN c : \E j \in DOMAIN c : p[j] = t
    BY DEF Reorders
  <2> HIDE DEF o
  <2> QED
    BY <1>3, <2>1, <2>2, <2>3
<1>6. a \in AllBlocks(c)
  BY <1>4, <1>5, BlocksAre
<1>7. \A i, j \in b : SameDay(d, i, j)
  BY <1>3 DEF SameDay
<1>8. LatestIn(c, a) = p[l] /\ Earliest(c, a) = p[o]
  BY <1>3, <1>7, ReorderedEnds
<1>9. o \in DOMAIN c /\ l \in DOMAIN c
  BY <1>3
<1>10. d[o] = c[Earliest(c, a)] /\ d[l] = c[LatestIn(c, a)]
  BY <1>2, <1>8, <1>9
<1>11. BlockLength(d, b) = BlockLength(c, a)
  BY <1>10 DEF BlockLength
<1>12. BlockPrice(d, b) = BlockPrice(c, a)
  BY <1>10, <1>11 DEF BlockPrice
<1> QED
  BY <1>3, <1>6, <1>8, <1>11, <1>12

\* Shares follow the weights and the one that is last, under any names.
\* The slots of S with the weights v are, by other names, those of T with w.
Renamed(S, T, h, v, w) ==
    /\ IsFiniteSet(S) /\ h \in [S -> T] /\ DOMAIN v = S /\ DOMAIN w = T
    /\ \A x, y \in S : h[x] = h[y] => x = y
    /\ \A t \in T : \E x \in S : h[x] = t
    /\ \A x \in S : v[x] \in Int /\ v[x] = w[h[x]]

LEMMA AllocateRenamed ==
    ASSUME NEW S, NEW T, NEW h, NEW v, NEW w, Renamed(S, T, h, v, w),
           NEW total \in Int, NEW last \in S, Total(v) > 0, NEW x \in S
    PROVE  Allocate(total, v, last)[x] = Allocate(total, w, h[last])[h[x]]
<1> SUFFICES ASSUME IsFiniteSet(S), h \in [S -> T], DOMAIN v = S, DOMAIN w = T,
                    \A i, j \in S : h[i] = h[j] => i = j,
                    \A t \in T : \E i \in S : h[i] = t,
                    \A i \in S : v[i] \in Int /\ v[i] = w[h[i]]
             PROVE  Allocate(total, v, last)[x] = Allocate(total, w, h[last])[h[x]]
  BY DEF Renamed
<1> DEFINE sum == Total(v)
           part == [i \in S |-> RoundDiv(total * v[i], sum)]
           slice == [t \in T |-> RoundDiv(total * w[t], sum)]
           rest == S \ {last}
           left == T \ {h[last]}
<1>1. sum = SumFunctionOnSet(v, S) /\ sum \in Int
  <2>1. sum = SumFunctionOnSet(v, S)
    BY DEF Total, SumFunction
  <2>2. \A i \in S : v[i] \in Int
    OBVIOUS
  <2>3. SumFunctionOnSet(v, S) \in Int
    BY <2>2, SumFirst
  <2> QED
    BY <2>1, <2>3
<1>2. Total(w) = sum
  <2>1. Total(w) = SumFunctionOnSet(w, T)
    BY DEF Total, SumFunction
  <2>2. SumFunctionOnSet(w, T) = SumFunctionOnSet(v, S)
    BY SumRenamed
  <2> QED
    BY <1>1, <2>1, <2>2
<1>3. Allocate(total, v, last) = [part EXCEPT ![last] = total - SumFunctionOnSet(part, rest)]
  BY DEF Allocate
<1>4. Allocate(total, w, h[last])
        = [slice EXCEPT ![h[last]] = total - SumFunctionOnSet(slice, left)]
  BY <1>2 DEF Allocate
<1>5. \A i \in S : part[i] = slice[h[i]] /\ part[i] \in Int
  <2> TAKE i \in S
  <2>1. v[i] \in Int /\ v[i] = w[h[i]] /\ h[i] \in T
    OBVIOUS
  <2>2. total * v[i] \in Int
    <3> DEFINE u == v[i]
    <3>1. u \in Int
      BY <2>1
    <3> HIDE DEF u
    <3>2. total * u \in Int
      BY <3>1
    <3> QED
      BY <3>2 DEF u
  <2>3. sum \in Nat /\ sum > 0
    BY <1>1
  <2> DEFINE a == total * v[i]
  <2>4. part[i] = RoundDiv(a, sum) /\ slice[h[i]] = RoundDiv(a, sum)
    BY <2>1
  <2> HIDE DEF a, sum, part, slice
  <2>5. RoundDiv(a, sum) \in Int
    <3>1. a \in Int
      BY <2>2 DEF a
    <3> QED
      BY <2>3, <3>1, RoundDivNear
  <2> QED
    BY <2>4, <2>5
<1>6. SumFunctionOnSet(slice, left) = SumFunctionOnSet(part, rest)
  <2> DEFINE k == [i \in rest |-> h[i]]
  <2>1. k \in [rest -> left]
    OBVIOUS
  <2>2. \A i, j \in rest : k[i] = k[j] => i = j
    OBVIOUS
  <2>3. \A t \in left : \E i \in rest : k[i] = t
    <3> TAKE t \in left
    <3>1. PICK i \in S : h[i] = t
      OBVIOUS
    <3>2. i \in rest /\ k[i] = t
      BY <3>1
    <3> QED
      BY <3>2
  <2>4. \A i \in rest : part[i] \in Int /\ part[i] = slice[k[i]]
    <3> TAKE i \in rest
    <3>1. i \in S /\ k[i] = h[i]
      OBVIOUS
    <3> QED
      BY <1>5, <3>1
  <2>5. IsFiniteSet(rest)
    BY FS_Subset
  <2> HIDE DEF k, part, slice, rest, left
  <2> QED
    BY <2>1, <2>2, <2>3, <2>4, <2>5, SumRenamed
<1>7. CASE x = last
  <2>1. Allocate(total, v, last)[x] = total - SumFunctionOnSet(part, rest)
    BY <1>3, <1>7
  <2>2. Allocate(total, w, h[last])[h[x]] = total - SumFunctionOnSet(slice, left)
    BY <1>4, <1>7
  <2> QED
    BY <1>6, <2>1, <2>2
<1>8. CASE x # last
  <2>1. Allocate(total, v, last)[x] = part[x]
    BY <1>3, <1>8
  <2>2. h[x] \in T /\ h[x] # h[last]
    BY <1>8
  <2>3. Allocate(total, w, h[last])[h[x]] = slice[h[x]]
    BY <1>4, <2>2
  <2> QED
    BY <1>5, <2>1, <2>3
<1> QED
  BY <1>7, <1>8

LEMMA ReorderedShares ==
    ASSUME PricingInd, NEW c, NEW d, NEW p, Reorders(c, d, p), Priceable(c),
           NEW b \in AllBlocks(d), NEW i \in b, NEW a, a = {p[j] : j \in b}
    PROVE  Allocate(BlockPrice(d, b), Lengths(d, b), LatestIn(d, b))[i]
             = Allocate(BlockPrice(c, a), Lengths(c, a), LatestIn(c, a))[p[i]]
<1>1. c \in Seq(Item)
  BY DEF Reorders
<1>2. /\ c \in Seq(Item) /\ d \in Seq(Item) /\ DOMAIN d = DOMAIN c
      /\ \A k \in DOMAIN c : d[k] = c[p[k]] /\ p[k] \in DOMAIN c
  BY <1>1, Reordered
<1>3. b \in AllBlocks(d) /\ i \in b
  OBVIOUS
<1>4. a = {p[j] : j \in b}
  OBVIOUS
<1>5. /\ a \in AllBlocks(c) /\ b \in SUBSET DOMAIN c
      /\ LatestIn(c, a) = p[LatestIn(d, b)]
      /\ BlockLength(d, b) = BlockLength(c, a) /\ BlockPrice(d, b) = BlockPrice(c, a)
  BY <1>4, ReorderedBlock
<1> DEFINE name == [j \in b |-> p[j]]
           mine == Lengths(d, b)
           yours == Lengths(c, a)
           cost == BlockPrice(c, a)
           final == LatestIn(d, b)
<1>6. /\ name \in [b -> a] /\ (\A x, y \in b : name[x] = name[y] => x = y)
      /\ \A t \in a : \E x \in b : name[x] = t
  <2>1. name \in [b -> a]
    BY <1>4
  <2>2. ASSUME NEW x \in b, NEW y \in b, name[x] = name[y] PROVE x = y
    <3>1. x \in DOMAIN c /\ y \in DOMAIN c /\ p[x] = p[y]
      BY <1>5, <2>2
    <3> QED
      BY <3>1 DEF Reorders
  <2>3. \A t \in a : \E x \in b : name[x] = t
    BY <1>4
  <2> QED
    BY <2>1, <2>2, <2>3
<1>7. DOMAIN mine = b /\ DOMAIN yours = a /\ IsFiniteSet(b) /\ final \in b
  BY <1>2, <1>3, BlockFound DEF Lengths
<1>8. \A x \in b : mine[x] \in Int /\ mine[x] = yours[name[x]]
  <2> TAKE x \in b
  <2>1. mine[x] \in Int /\ mine[x] = d[x].fin - d[x].inicio
    BY <1>2, <1>3, BlockTelescopes
  <2>2. p[x] \in a /\ name[x] = p[x] /\ d[x] = c[p[x]]
    BY <1>2, <1>5, <1>4
  <2>3. yours[p[x]] = c[p[x]].fin - c[p[x]].inicio
    BY <2>2 DEF Lengths
  <2> QED
    BY <2>1, <2>2, <2>3
<1>9. Total(mine) > 0 /\ cost \in Int
  <2>1. Total(mine) = BlockLength(d, b)
    BY <1>2, <1>3, BlockTelescopes
  <2>2. BlockLength(c, a) > 0
    BY <1>5 DEF Priceable
  <2>3. cost \in Int
    BY <1>2, <1>5, SharesOfBlock
  <2> QED
    BY <1>5, <2>1, <2>2, <2>3
<1>10. Allocate(cost, mine, final)[i] = Allocate(cost, yours, name[final])[name[i]]
  <2> HIDE DEF name, mine, yours, cost, final
  <2>1. Renamed(b, a, name, mine, yours)
    BY <1>6, <1>7, <1>8 DEF Renamed
  <2>2. final \in b /\ i \in b /\ cost \in Int /\ Total(mine) > 0
    BY <1>3, <1>7, <1>9
  <2> QED
    BY <2>1, <2>2, AllocateRenamed
<1>11. name[final] = LatestIn(c, a) /\ name[i] = p[i]
  BY <1>3, <1>5, <1>7
<1> HIDE DEF name, mine, yours, cost, final
<1>12. Allocate(cost, mine, final)[i] = Allocate(cost, yours, LatestIn(c, a))[p[i]]
  BY <1>10, <1>11
<1> QED
  BY <1>5, <1>12 DEF cost, mine, yours, final

LEMMA ReorderedPrices ==
    ASSUME PricingInd, NEW c, NEW d, NEW p, Reorders(c, d, p), Priceable(c), NEW i \in DOMAIN c
    PROVE  ItemPrices(d)[i] = ItemPrices(c)[p[i]]
<1>1. c \in Seq(Item)
  BY DEF Reorders
<1>2. /\ c \in Seq(Item) /\ d \in Seq(Item) /\ DOMAIN d = DOMAIN c
      /\ \A k \in DOMAIN c : d[k] = c[p[k]] /\ p[k] \in DOMAIN c
  BY <1>1, Reordered
<1> DEFINE b == CHOOSE x \in AllBlocks(d) : i \in x
           a == {p[j] : j \in b}
           e == CHOOSE x \in AllBlocks(c) : p[i] \in x
<1>3. b \in AllBlocks(d) /\ i \in b
  BY <1>2, OneBlockEach
<1>4. ItemPrices(d)[i] = Allocate(BlockPrice(d, b), Lengths(d, b), LatestIn(d, b))[i]
  BY <1>2 DEF ItemPrices
<1>5. ItemPrices(c)[p[i]] = Allocate(BlockPrice(c, e), Lengths(c, e), LatestIn(c, e))[p[i]]
  BY <1>2 DEF ItemPrices
<1>6. a = {p[j] : j \in b}
  OBVIOUS
<1> HIDE DEF b, a
<1>7. /\ a \in AllBlocks(c) /\ b \in SUBSET DOMAIN c
      /\ LatestIn(c, a) = p[LatestIn(d, b)]
      /\ BlockLength(d, b) = BlockLength(c, a) /\ BlockPrice(d, b) = BlockPrice(c, a)
  BY <1>3, <1>6, ReorderedBlock
<1>8. e = a
  <2>1. p[i] \in a
    BY <1>3, <1>6
  <2>2. e \in AllBlocks(c) /\ p[i] \in e
    BY <1>7, <2>1
  <2> HIDE DEF e
  <2> QED
    BY <1>2, <1>7, <2>1, <2>2, OneBlockEach
<1> HIDE DEF e
<1>9. Allocate(BlockPrice(d, b), Lengths(d, b), LatestIn(d, b))[i]
        = Allocate(BlockPrice(c, a), Lengths(c, a), LatestIn(c, a))[p[i]]
  BY <1>3, <1>6, ReorderedShares
<1> QED
  BY <1>4, <1>5, <1>8, <1>9

LEMMA OrderIgnored == ASSUME PricingInd PROVE PriceIgnoresOrder
<1> SUFFICES ASSUME Priceable(cart), IsInjective(cart), NEW p \in Bijection(DOMAIN cart, DOMAIN cart)
    PROVE  ItemPrices([k \in DOMAIN cart |-> cart[p[k]]])
             = [i \in DOMAIN cart |-> ItemPrices(cart)[p[i]]]
  BY DEF PriceIgnoresOrder
<1> DEFINE d == [k \in DOMAIN cart |-> cart[p[k]]]
<1>1. Reorders(cart, d, p)
  BY DEF Reorders, PricingInd, PricingTypeOK, IsInjective, Bijection, Injection, Surjection
<1>2. \A i \in DOMAIN cart : ItemPrices(d)[i] = ItemPrices(cart)[p[i]]
  BY <1>1, ReorderedPrices
<1>3. DOMAIN d = DOMAIN cart
  OBVIOUS
<1>4. ItemPrices(d) = [i \in DOMAIN cart |-> ItemPrices(d)[i]]
  <2> DEFINE price(i) == LET b == CHOOSE b \in AllBlocks(d) : i \in b
                         IN Allocate(BlockPrice(d, b), Lengths(d, b), LatestIn(d, b))[i]
  <2>1. ItemPrices(d) = [i \in DOMAIN d |-> price(i)]
    BY DEF ItemPrices
  <2> HIDE DEF price, d
  <2> QED
    BY <1>3, <2>1
<1> HIDE DEF d
<1>5. ItemPrices(d) = [i \in DOMAIN cart |-> ItemPrices(cart)[p[i]]]
  BY <1>2, <1>4
<1> QED
  BY <1>5 DEF d

-----------------------------------------------------------------------------
(* The slicing of the request.                                             *)

\* In a cart with a price, a slot that ends before it starts cannot stand
\* behind another of its day: it would be the last of a block without hours.
LEMMA NextStartsLater ==
    ASSUME NEW c \in Seq(Item), Priceable(c), Disjoint(c),
           NEW i \in DOMAIN c, NEW k \in DOMAIN c,
           c[i].inicio < c[i].fin, SameDay(c, i, k), Before(c, i, k)
    PROVE  c[i].fin <= c[k].inicio
<1> SUFFICES ASSUME ~ (c[i].fin <= c[k].inicio) PROVE FALSE
  OBVIOUS
<1>1. /\ c[i].inicio \in Int /\ c[i].fin \in Int /\ c[k].inicio \in Int /\ c[k].fin \in Int
      /\ i # k
  BY SlotTypes, SlotsSorted
<1>2. c[k].fin <= c[i].inicio
  BY <1>1 DEF Disjoint, SameDay
<1>3. c[k].fin < c[k].inicio
  BY <1>1, <1>2 DEF Before
<1>4. PICK b \in AllBlocks(c) : k \in b
  BY OneBlockEach
<1> DEFINE e == Earliest(c, b)
<1>5. /\ b \in SUBSET DOMAIN c /\ e \in DOMAIN c
      /\ e = k \/ Before(c, e, k)
      /\ \A j \in b : SameDay(c, j, e) /\ (j = e \/ Before(c, e, j))
      /\ Opener(c, Openers(c), k) = e
  BY <1>4, BlockFound
<1>6. ASSUME NEW j \in b, Before(c, k, j) PROVE FALSE
  <2> DEFINE S == {x \in b : Before(c, k, x)}
             n == Earliest(c, S)
  <2>1. n \in S /\ \A x \in S : x = n \/ Before(c, n, x)
    <3>1. S \in SUBSET DOMAIN c /\ S # {}
      BY <1>5, <1>6
    <3> HIDE DEF S
    <3> QED
      BY <3>1, EarliestFound
  <2>2. n \in b /\ n \in DOMAIN c /\ Before(c, k, n)
    BY <1>5, <2>1
  <2>3. n # e
    BY <1>5, <2>2, SlotsSorted
  <2>4. PICK p \in b : /\ Before(c, p, n) /\ c[p].fin = c[n].inicio
                       /\ \A x \in b : Before(c, x, n) => x = p \/ Before(c, x, p)
    BY <2>2, <2>3, SlotContinues
  <2>5. p = k
    <3>1. k = p \/ Before(c, k, p)
      BY <1>4, <2>2, <2>4
    <3>2. Before(c, k, p) => p = n \/ Before(c, n, p)
      BY <2>1
    <3>3. p \in DOMAIN c
      BY <1>5
    <3> QED
      BY <2>2, <2>4, <3>1, <3>2, <3>3, SlotsSorted
  <2>6. c[n].inicio \in Int
    BY <2>2, SlotTypes
  <2> HIDE DEF n
  <2> QED
    BY <1>1, <1>3, <2>2, <2>4, <2>5, <2>6 DEF Before
<1>7. LatestIn(c, b) = k
  <2>1. \A j \in b : j = k \/ Before(c, j, k)
    BY <1>5, <1>6, SlotsSorted
  <2> QED
    BY <1>4, <1>5, <2>1, LatestFound
<1>8. e # k
  BY <1>1, <1>3, <1>7 DEF Priceable, BlockLength
<1>9. k \notin Openers(c)
  BY <1>5, <1>8, OpenerFound
<1> DEFINE p == LatestIn(c, Earlier(c, k))
<1>10. i \in Earlier(c, k) /\ Earlier(c, k) \in SUBSET DOMAIN c
  BY DEF Earlier, SameDay
<1>11. p \in Earlier(c, k) /\ (i = p \/ Before(c, i, p))
  BY <1>10, LatestFound
<1>12. c[p].fin = c[k].inicio
  BY <1>9 DEF Openers, Opens
<1>13. p \in DOMAIN c /\ SameDay(c, p, k) /\ Before(c, p, k)
  BY <1>11 DEF Earlier, SameDay
<1> HIDE DEF p, e
<1>14. c[p].inicio \in Int /\ c[p].fin \in Int
  BY <1>13, SlotTypes
<1>15. i # p
  BY <1>12, <1>1
<1>16. c[i].fin <= c[p].inicio \/ c[p].fin <= c[i].inicio
  BY <1>13, <1>15 DEF Disjoint, SameDay
<1> QED
  BY <1>1, <1>2, <1>3, <1>11, <1>12, <1>13, <1>14, <1>15, <1>16 DEF Before

\* The cart d has the slots of c, with a slot z between slot i and what follows:
\* i ends where z starts, z ends where i ended.
Spliced(c, d, i, z) ==
    /\ c \in Seq(Item) /\ d \in Seq(Item)
    /\ i \in DOMAIN c /\ z \notin DOMAIN c /\ DOMAIN d = DOMAIN c \cup {z}
    /\ \A k \in DOMAIN c :
         d[k].space = c[k].space /\ d[k].fecha = c[k].fecha /\ d[k].inicio = c[k].inicio
    /\ \A k \in DOMAIN c \ {i} : d[k].fin = c[k].fin
    /\ d[z].space = c[i].space /\ d[z].fecha = c[i].fecha
    /\ d[i].fin = d[z].inicio /\ d[z].fin = c[i].fin
    /\ \A k, l \in DOMAIN c : SameDay(c, k, l) => (Before(d, k, l) <=> Before(c, k, l))
    /\ \A k \in DOMAIN c : SameDay(c, k, i) =>
         /\ Before(d, k, z) <=> k = i \/ Before(c, k, i)
         /\ Before(d, z, k) <=> Before(c, i, k)

LEMMA CutWithin ==
    ASSUME NEW from \in 0..48, NEW to \in 0..48, NEW m \in from + 1 .. to - 1
    PROVE  m \in 0..48 /\ m \in Int /\ from < m /\ m < to
  OBVIOUS

LEMMA CutSplices ==
    ASSUME NEW c \in Seq(Item), Priceable(c), Disjoint(c), NEW i \in DOMAIN c,
           NEW m \in c[i].inicio + 1 .. c[i].fin - 1
    PROVE  Spliced(c, Cut(c, i, m), i, Len(c) + 1)
<1> DEFINE d == Cut(c, i, m)
           z == Len(c) + 1
           x == [c[i] EXCEPT !.fin = m]
           y == [c[i] EXCEPT !.inicio = m]
           c1 == [c EXCEPT ![i] = x]
<1>1. /\ c[i] \in Item /\ c[i].inicio \in Int /\ c[i].fin \in Int
      /\ m \in Int /\ c[i].inicio < m /\ m < c[i].fin /\ m \in 0..48
  <2>1. c[i] \in Item
    BY SlotTypes
  <2>2. c[i].inicio \in 0..48 /\ c[i].fin \in 0..48
    BY <2>1 DEF Item
  <2>3. m \in 0..48 /\ m \in Int /\ c[i].inicio < m /\ m < c[i].fin
    BY <2>2, CutWithin
  <2> QED
    BY <2>1, <2>3, SlotTypes
<1>2. /\ x \in Item /\ x.fin = m /\ x.inicio = c[i].inicio
      /\ x.space = c[i].space /\ x.fecha = c[i].fecha
  BY <1>1 DEF Item
<1>3. /\ y \in Item /\ y.inicio = m /\ y.fin = c[i].fin
      /\ y.space = c[i].space /\ y.fecha = c[i].fecha
  BY <1>1 DEF Item
<1>4. c1 \in Seq(Item) /\ Len(c1) = Len(c) /\ DOMAIN c1 = DOMAIN c
  <2>1. c1 \in [1..Len(c) -> Item] /\ Len(c) \in Nat
    <3>1. c \in [1..Len(c) -> Item] /\ Len(c) \in Nat
      OBVIOUS
    <3> HIDE DEF x
    <3> QED
      BY <1>2, <3>1
  <2> QED
    BY <2>1
<1>5. /\ d \in Seq(Item) /\ DOMAIN d = DOMAIN c \cup {z} /\ z \notin DOMAIN c
      /\ d[z] = y /\ \A k \in DOMAIN c : d[k] = c1[k]
  <2>1. d = Append(c1, y)
    BY DEF Cut
  <2>2. DOMAIN c = 1..Len(c) /\ Len(c) \in Nat
    OBVIOUS
  <2> HIDE DEF c1, y, d
  <2> QED
    BY <1>3, <1>4, <2>1, <2>2
<1>6. d[i] = x /\ \A k \in DOMAIN c \ {i} : d[k] = c[k]
  <2> HIDE DEF d, x
  <2> QED
    BY <1>5
<1> HIDE DEF d, x, y, c1
<1>7. \A k \in DOMAIN c : /\ d[k].space = c[k].space /\ d[k].fecha = c[k].fecha
                          /\ d[k].inicio = c[k].inicio
  BY <1>2, <1>6
<1>8. z \in Nat /\ DOMAIN c \subseteq Nat /\ \A k \in DOMAIN c : k < z
  BY DEF z
<1> HIDE DEF z
<1>9. ASSUME NEW k \in DOMAIN c, SameDay(c, k, i), k # i
      PROVE  /\ c[k].inicio \in Int /\ c[k].fin \in Int
             /\ Before(c, i, k) => c[i].fin <= c[k].inicio
             /\ Before(c, k, i) => c[k].inicio < c[i].inicio \/ c[k].fin <= c[i].inicio
             /\ Before(c, k, i) => c[k].inicio <= c[i].inicio
             /\ Before(c, k, i) \/ Before(c, i, k)
             /\ ~ (Before(c, k, i) /\ Before(c, i, k))
  <2>1. c[k].inicio \in Int /\ c[k].fin \in Int
    BY SlotTypes
  <2>2. Before(c, i, k) => c[i].fin <= c[k].inicio
    <3>1. c[i].inicio < c[i].fin /\ SameDay(c, i, k)
      BY <1>1, <1>9 DEF SameDay
    <3> QED
      BY <3>1, NextStartsLater
  <2>3. c[i].fin <= c[k].inicio \/ c[k].fin <= c[i].inicio
    BY <1>9 DEF Disjoint, SameDay
  <2>4. Before(c, k, i) => c[k].inicio <= c[i].inicio
    BY <1>1, <2>1 DEF Before
  <2>5. Before(c, k, i) => c[k].inicio < c[i].inicio \/ c[k].fin <= c[i].inicio
    BY <1>1, <2>1, <2>3, <2>4
  <2> QED
    BY <1>9, <2>1, <2>2, <2>4, <2>5, SlotsSorted
<1>10. ASSUME NEW k \in DOMAIN c, SameDay(c, k, i)
       PROVE  /\ Before(d, k, z) <=> k = i \/ Before(c, k, i)
              /\ Before(d, z, k) <=> Before(c, i, k)
  <2>1. CASE k = i
    <3>1. ~ Before(c, i, i)
      BY SlotsSorted
    <3>2. d[k].inicio < d[z].inicio
      BY <1>1, <1>2, <1>3, <1>5, <1>6, <2>1
    <3>3. Before(d, k, z) /\ ~ Before(d, z, k)
      BY <1>1, <1>2, <1>3, <1>5, <1>6, <2>1, <3>2 DEF Before
    <3> QED
      BY <2>1, <3>1, <3>3
  <2>2. CASE k # i
    <3>1. d[k].inicio = c[k].inicio /\ d[z].inicio = m
      BY <1>3, <1>5, <1>7
    <3>2. CASE Before(c, k, i)
      <4>1. c[k].inicio < m
        BY <1>1, <1>9, <1>10, <2>2, <3>2
      <4>2. c[k].inicio \in Int /\ ~ Before(c, i, k)
        BY <1>9, <1>10, <2>2, <3>2
      <4>3. Before(d, k, z) /\ ~ Before(d, z, k)
        BY <1>1, <3>1, <4>1, <4>2 DEF Before
      <4> QED
        BY <3>2, <4>2, <4>3
    <3>3. CASE Before(c, i, k)
      <4>1. m < c[k].inicio
        BY <1>1, <1>9, <1>10, <2>2, <3>3
      <4>2. c[k].inicio \in Int /\ ~ Before(c, k, i)
        BY <1>9, <1>10, <2>2, <3>3
      <4>3. Before(d, z, k) /\ ~ Before(d, k, z)
        BY <1>1, <3>1, <4>1, <4>2 DEF Before
      <4> QED
        BY <2>2, <3>3, <4>2, <4>3
    <3> QED
      BY <1>9, <1>10, <2>2, <3>2, <3>3
  <2> QED
    BY <2>1, <2>2
<1>11. ASSUME NEW k \in DOMAIN c, SameDay(c, k, i), k # i
       PROVE  /\ Before(d, k, i) <=> Before(c, k, i)
              /\ Before(d, i, k) <=> Before(c, i, k)
  <2>1. d[k] = c[k] /\ d[i].inicio = c[i].inicio /\ d[i].fin = m
    BY <1>2, <1>6, <1>11
  <2>2. CASE Before(c, k, i)
    <3>1. c[k].inicio < c[i].inicio \/ (c[k].inicio = c[i].inicio /\ c[k].fin < m)
      BY <1>1, <1>9, <1>11, <2>2
    <3>2. c[k].inicio \in Int /\ c[k].fin \in Int /\ ~ Before(c, i, k)
      BY <1>9, <1>11, <2>2
    <3>3. Before(d, k, i) /\ ~ Before(d, i, k)
      BY <1>1, <2>1, <3>1, <3>2 DEF Before
    <3> QED
      BY <2>2, <3>2, <3>3
  <2>3. CASE Before(c, i, k)
    <3>1. c[i].inicio < c[k].inicio
      BY <1>1, <1>9, <1>11, <2>3
    <3>2. c[k].inicio \in Int /\ ~ Before(c, k, i)
      BY <1>9, <1>11, <2>3
    <3>3. Before(d, i, k) /\ ~ Before(d, k, i)
      BY <1>1, <2>1, <3>1, <3>2 DEF Before
    <3> QED
      BY <2>3, <3>2, <3>3
  <2> QED
    BY <1>9, <1>11, <2>2, <2>3
<1>12. ASSUME NEW k \in DOMAIN c, NEW l \in DOMAIN c, SameDay(c, k, l)
       PROVE  Before(d, k, l) <=> Before(c, k, l)
  <2>1. CASE k = l
    <3>1. k \in Nat /\ d[k].inicio \in Int /\ d[k].fin \in Int
      <4>1. k \in DOMAIN d
        BY <1>5
      <4> QED
        BY <1>5, <1>8, <4>1, SlotTypes
    <3>2. ~ Before(d, k, k) /\ ~ Before(c, k, k)
      BY <3>1, SlotsSorted DEF Before
    <3> QED
      BY <2>1, <3>2
  <2>2. CASE k # l /\ k = i
    BY <1>11, <1>12, <2>2 DEF SameDay
  <2>3. CASE k # l /\ l = i
    BY <1>11, <1>12, <2>3 DEF SameDay
  <2>4. CASE k # l /\ k # i /\ l # i
    <3>1. d[k] = c[k] /\ d[l] = c[l]
      BY <1>6, <2>4
    <3> QED
      BY <3>1 DEF Before
  <2> QED
    BY <2>1, <2>2, <2>3, <2>4
<1>13. /\ d[z].space = c[i].space /\ d[z].fecha = c[i].fecha
       /\ d[i].fin = d[z].inicio /\ d[z].fin = c[i].fin
       /\ \A k \in DOMAIN c \ {i} : d[k].fin = c[k].fin
  BY <1>2, <1>3, <1>5, <1>6
<1>14. Spliced(c, d, i, z)
  BY <1>5, <1>7, <1>10, <1>12, <1>13 DEF Spliced
<1> QED
  BY <1>14 DEF d, z

\* The slots of S, with z if i is one of them.
With(i, z, S) == S \cup {k \in {z} : i \in S}

\* Slots of one space and day end with z instead of i.
LEMMA SplicedLatest ==
    ASSUME NEW c, NEW d, NEW i, NEW z, Spliced(c, d, i, z),
           NEW S \in SUBSET DOMAIN c, S # {}, \A j, k \in S : SameDay(c, j, k)
    PROVE  d[LatestIn(d, With(i, z, S))].fin = c[LatestIn(c, S)].fin
<1> DEFINE l == LatestIn(c, S)
           T == With(i, z, S)
<1>0. /\ c \in Seq(Item) /\ d \in Seq(Item) /\ DOMAIN d = DOMAIN c \cup {z} /\ i \in DOMAIN c
      /\ z \notin DOMAIN c
  BY DEF Spliced
<1>1. l \in S /\ l \in DOMAIN c /\ \A j \in S : j = l \/ Before(c, j, l)
  BY <1>0, LatestFound
<1>2. T \in SUBSET DOMAIN d /\ T # {} /\ S \subseteq T
  BY <1>0 DEF With
<1> HIDE DEF l
<1>3. \A j \in S : j = l \/ Before(d, j, l)
  BY <1>1 DEF Spliced
<1>4. \A j \in S : SameDay(c, j, i) => (Before(d, j, z) <=> j = i \/ Before(c, j, i))
  BY DEF Spliced
<1>5. CASE i \notin S
  <2>1. T = S /\ l # i
    BY <1>1, <1>5 DEF With
  <2>2. LatestIn(d, T) = l
    BY <1>0, <1>1, <1>2, <1>3, <2>1, LatestFound
  <2>3. d[l].fin = c[l].fin
    BY <1>1, <2>1 DEF Spliced
  <2> QED
    BY <2>2, <2>3 DEF l
<1>6. CASE l = i
  <2>1. T = S \cup {z}
    BY <1>1, <1>6 DEF With
  <2>2. \A j \in T : j = z \/ Before(d, j, z)
    BY <1>1, <1>4, <1>6, <2>1
  <2>3. LatestIn(d, T) = z
    <3>1. z \in T
      BY <2>1
    <3> HIDE DEF T
    <3> QED
      BY <1>0, <1>2, <2>2, <3>1, LatestFound
  <2>4. d[z].fin = c[i].fin
    BY DEF Spliced
  <2> QED
    BY <1>6, <2>3, <2>4 DEF l
<1>7. CASE i \in S /\ l # i
  <2>1. T = S \cup {z}
    BY <1>7 DEF With
  <2>2. SameDay(c, l, i) /\ Before(c, i, l)
    BY <1>1, <1>7
  <2>3. Before(d, z, l)
    BY <1>1, <2>2 DEF Spliced
  <2>4. LatestIn(d, T) = l
    <3>1. \A j \in T : j = l \/ Before(d, j, l)
      BY <1>3, <2>1, <2>3
    <3>2. l \in T
      BY <1>1, <2>1
    <3> HIDE DEF T
    <3> QED
      BY <1>0, <1>2, <3>1, <3>2, LatestFound
  <2>5. d[l].fin = c[l].fin
    BY <1>1, <1>7 DEF Spliced
  <2> QED
    BY <2>4, <2>5 DEF l
<1> QED
  BY <1>5, <1>6, <1>7

LEMMA SplicedEarlier ==
    ASSUME NEW c, NEW d, NEW i, NEW z, Spliced(c, d, i, z)
    PROVE  /\ \A k \in DOMAIN c : Earlier(d, k) = With(i, z, Earlier(c, k))
           /\ Earlier(d, z) = Earlier(c, i) \cup {i}
<1>0. /\ c \in Seq(Item) /\ d \in Seq(Item) /\ DOMAIN d = DOMAIN c \cup {z} /\ i \in DOMAIN c
      /\ z \notin DOMAIN c
  BY DEF Spliced
<1>1. \A j, k \in DOMAIN c : SameDay(d, j, k) <=> SameDay(c, j, k)
  BY DEF Spliced, SameDay
<1>2. \A j \in DOMAIN c : /\ SameDay(d, j, z) <=> SameDay(c, j, i)
                          /\ SameDay(d, z, j) <=> SameDay(c, i, j)
  BY DEF Spliced, SameDay
<1>3. \A j, k \in DOMAIN c : SameDay(c, j, k) => (Before(d, j, k) <=> Before(c, j, k))
  BY DEF Spliced
<1>4. \A k \in DOMAIN c : SameDay(c, k, i) =>
         /\ Before(d, k, z) <=> k = i \/ Before(c, k, i)
         /\ Before(d, z, k) <=> Before(c, i, k)
  BY DEF Spliced
<1>5. \A k \in DOMAIN d : Earlier(d, k) = {j \in DOMAIN d : SameDay(d, j, k) /\ Before(d, j, k)}
  BY DEF Earlier, SameDay
<1>6. \A k \in DOMAIN c : Earlier(c, k) = {j \in DOMAIN c : SameDay(c, j, k) /\ Before(c, j, k)}
  BY DEF Earlier, SameDay
<1>7. ASSUME NEW k \in DOMAIN c PROVE Earlier(d, k) = With(i, z, Earlier(c, k))
  <2>1. \A j \in DOMAIN c : j \in Earlier(d, k) <=> j \in Earlier(c, k)
    BY <1>0, <1>1, <1>3, <1>5, <1>6
  <2>2. z \in Earlier(d, k) <=> i \in Earlier(c, k)
    <3>1. SameDay(c, i, k) <=> SameDay(c, k, i)
      BY DEF SameDay
    <3>2. z \in Earlier(d, k) <=> SameDay(d, z, k) /\ Before(d, z, k)
      BY <1>0, <1>5
    <3>3. i \in Earlier(c, k) <=> SameDay(c, i, k) /\ Before(c, i, k)
      BY <1>0, <1>6
    <3> QED
      BY <1>2, <1>4, <3>1, <3>2, <3>3
  <2>3. Earlier(d, k) \subseteq DOMAIN c \cup {z} /\ Earlier(c, k) \subseteq DOMAIN c
    BY <1>0, <1>5, <1>6
  <2> QED
    BY <1>0, <2>1, <2>2, <2>3 DEF With
<1>8. Earlier(d, z) = Earlier(c, i) \cup {i}
  <2>1. ~ Before(d, z, z)
    BY <1>0, SlotsSorted
  <2>2. SameDay(c, i, i)
    BY DEF SameDay
  <2>3. \A j \in DOMAIN c : j \in Earlier(d, z) <=> j \in Earlier(c, i) \/ j = i
    <3> TAKE j \in DOMAIN c
    <3>1. j \in Earlier(d, z) <=> SameDay(d, j, z) /\ Before(d, j, z)
      BY <1>0, <1>5
    <3>2. j \in Earlier(c, i) <=> SameDay(c, j, i) /\ Before(c, j, i)
      BY <1>0, <1>6
    <3> QED
      BY <1>2, <1>4, <2>2, <3>1, <3>2
  <2>4. z \notin Earlier(d, z)
    BY <1>0, <1>5, <2>1
  <2>5. Earlier(d, z) \subseteq DOMAIN c \cup {z} /\ Earlier(c, i) \subseteq DOMAIN c
    BY <1>0, <1>5, <1>6
  <2> QED
    BY <1>0, <2>3, <2>4, <2>5
<1> QED
  BY <1>7, <1>8

LEMMA SplicedOpeners ==
    ASSUME NEW c, NEW d, NEW i, NEW z, Spliced(c, d, i, z)
    PROVE  Openers(d) = Openers(c)
<1>0. /\ c \in Seq(Item) /\ d \in Seq(Item) /\ DOMAIN d = DOMAIN c \cup {z} /\ i \in DOMAIN c
      /\ z \notin DOMAIN c
  BY DEF Spliced
<1>1. ASSUME NEW k \in DOMAIN c PROVE Opens(d, k) <=> Opens(c, k)
  <2>1. Earlier(d, k) = With(i, z, Earlier(c, k))
    BY SplicedEarlier
  <2>2. CASE Earlier(c, k) = {}
    <3>1. Earlier(d, k) = {}
      BY <2>1, <2>2 DEF With
    <3> QED
      BY <2>2, <3>1 DEF Opens
  <2>3. CASE Earlier(c, k) # {}
    <3>1. Earlier(d, k) # {}
      BY <2>1, <2>3 DEF With
    <3>2. Earlier(c, k) \in SUBSET DOMAIN c /\ \A j, l \in Earlier(c, k) : SameDay(c, j, l)
      BY DEF Earlier, SameDay
    <3>3. d[LatestIn(d, With(i, z, Earlier(c, k)))].fin = c[LatestIn(c, Earlier(c, k))].fin
      BY <2>3, <3>2, SplicedLatest
    <3>4. d[LatestIn(d, Earlier(d, k))].fin = c[LatestIn(c, Earlier(c, k))].fin
      BY <2>1, <3>3
    <3>5. d[k].inicio = c[k].inicio
      BY DEF Spliced
    <3> QED
      BY <2>3, <3>1, <3>4, <3>5 DEF Opens
  <2> QED
    BY <2>2, <2>3
<1>2. ~ Opens(d, z)
  <2> DEFINE S == Earlier(d, z)
  <2>1. S = Earlier(c, i) \cup {i}
    BY SplicedEarlier
  <2>2. S \in SUBSET DOMAIN d /\ i \in S
    BY <1>0, <2>1 DEF Earlier
  <2>3. \A j \in S : j = i \/ Before(d, j, i)
    <3>1. \A j \in Earlier(c, i) : j \in DOMAIN c /\ SameDay(c, j, i) /\ Before(c, j, i)
      BY DEF Earlier, SameDay
    <3>2. \A j \in DOMAIN c : SameDay(c, j, i) => (Before(d, j, i) <=> Before(c, j, i))
      BY <1>0 DEF Spliced
    <3> HIDE DEF S
    <3> QED
      BY <2>1, <3>1, <3>2
  <2> HIDE DEF S
  <2>4. LatestIn(d, S) = i
    BY <1>0, <2>2, <2>3, LatestFound
  <2>5. d[i].fin = d[z].inicio
    BY DEF Spliced
  <2> QED
    BY <2>2, <2>4, <2>5 DEF S, Opens
<1> QED
  BY <1>0, <1>1, <1>2 DEF Openers

LEMMA SplicedOpener ==
    ASSUME NEW c, NEW d, NEW i, NEW z, Spliced(c, d, i, z)
    PROVE  /\ \A k \in DOMAIN c : Opener(d, Openers(d), k) = Opener(c, Openers(c), k)
           /\ Opener(d, Openers(d), z) = Opener(c, Openers(c), i)
<1> DEFINE O == Openers(c)
           day(k) == O \cap (Earlier(c, k) \cup {k})
<1>0. /\ c \in Seq(Item) /\ d \in Seq(Item) /\ DOMAIN d = DOMAIN c \cup {z} /\ i \in DOMAIN c
      /\ z \notin DOMAIN c
  BY DEF Spliced
<1>1. Openers(d) = O /\ O \in SUBSET DOMAIN c
  BY SplicedOpeners DEF Openers
<1>2. ASSUME NEW k \in DOMAIN c PROVE LatestIn(d, day(k)) = LatestIn(c, day(k))
  <2> DEFINE S == day(k)
             l == LatestIn(c, S)
  <2>1. S \in SUBSET DOMAIN c /\ S # {}
    <3>1. Opener(c, O, k) \in O /\ Opener(c, O, k) \in DOMAIN c
             /\ SameDay(c, Opener(c, O, k), k)
             /\ (Opener(c, O, k) = k \/ Before(c, Opener(c, O, k), k))
      BY <1>0, OpenerFound
    <3>2. Opener(c, O, k) \in S
      BY <3>1 DEF Earlier, SameDay
    <3>3. S \in SUBSET DOMAIN c
      BY <1>1
    <3> QED
      BY <3>2, <3>3
  <2>2. \A j, m \in S : SameDay(c, j, m)
    BY DEF Earlier, SameDay
  <2> HIDE DEF S
  <2>3. l \in S /\ \A j \in S : j = l \/ Before(c, j, l)
    BY <1>0, <2>1, LatestFound
  <2> HIDE DEF l
  <2>4. \A j \in S : j = l \/ Before(d, j, l)
    BY <2>1, <2>2, <2>3 DEF Spliced
  <2>5. LatestIn(d, S) = l
    BY <1>0, <2>1, <2>3, <2>4, LatestFound
  <2> QED
    BY <2>5 DEF S, l
<1>3. ASSUME NEW k \in DOMAIN c
      PROVE  Opener(d, Openers(d), k) = Opener(c, Openers(c), k)
  <2>1. Earlier(d, k) = With(i, z, Earlier(c, k))
    BY SplicedEarlier
  <2>2. O \cap (Earlier(d, k) \cup {k}) = day(k)
    BY <1>0, <1>1, <2>1 DEF With
  <2> QED
    BY <1>1, <1>2, <2>2 DEF Opener
<1>4. Opener(d, Openers(d), z) = Opener(c, Openers(c), i)
  <2>1. Earlier(d, z) = Earlier(c, i) \cup {i}
    BY SplicedEarlier
  <2>2. O \cap (Earlier(d, z) \cup {z}) = day(i)
    BY <1>0, <1>1, <2>1
  <2>3. LatestIn(d, day(i)) = LatestIn(c, day(i))
    BY <1>0, <1>2
  <2> QED
    BY <1>1, <2>2, <2>3 DEF Opener
<1> QED
  BY <1>3, <1>4

LEMMA OpensItsBlock ==
    ASSUME NEW c \in Seq(Item), NEW o \in Openers(c)
    PROVE  BlockFrom(c, o) \in AllBlocks(c) /\ Earliest(c, BlockFrom(c, o)) = o
<1> DEFINE b == BlockFrom(c, o)
           e == Earliest(c, b)
<1>1. b \in AllBlocks(c)
  BY BlocksAre
<1>2. o \in DOMAIN c /\ Opener(c, Openers(c), o) = o
  <2>1. o \in DOMAIN c
    BY DEF Openers
  <2> QED
    BY <2>1, OpenerFound
<1>3. o \in b
  BY <1>2 DEF BlockFrom
<1> HIDE DEF b
<1>4. Opener(c, Openers(c), o) = e
  BY <1>1, <1>3, BlockFound
<1> QED
  BY <1>1, <1>2, <1>4 DEF b

LEMMA SplicedBlock ==
    ASSUME NEW c, NEW d, NEW i, NEW z, Spliced(c, d, i, z), NEW o \in Openers(c),
           NEW a, a = BlockFrom(c, o), NEW b, b = BlockFrom(d, o)
    PROVE  BlockLength(d, b) = BlockLength(c, a) /\ BlockPrice(d, b) = BlockPrice(c, a)
<1>0. /\ c \in Seq(Item) /\ d \in Seq(Item) /\ DOMAIN d = DOMAIN c \cup {z} /\ i \in DOMAIN c
      /\ z \notin DOMAIN c
  BY DEF Spliced
<1>1. /\ a \in AllBlocks(c) /\ Earliest(c, a) = o /\ Earliest(d, b) = o
  BY <1>0, OpensItsBlock, SplicedOpeners
<1>2. b = With(i, z, a)
  <2>1. /\ \A k \in DOMAIN c : Opener(d, Openers(d), k) = Opener(c, Openers(c), k)
        /\ Opener(d, Openers(d), z) = Opener(c, Openers(c), i)
    BY SplicedOpener
  <2> QED
    BY <1>0, <2>1 DEF BlockFrom, With
<1>3. a \in SUBSET DOMAIN c /\ a # {} /\ \A j, k \in a : SameDay(c, j, k)
  <2>1. /\ a \in SUBSET DOMAIN c /\ a # {}
        /\ \A j \in a : SameDay(c, j, Earliest(c, a))
    BY <1>0, <1>1, BlockFound
  <2> QED
    BY <2>1 DEF SameDay
<1>4. d[LatestIn(d, b)].fin = c[LatestIn(c, a)].fin
  <2>1. d[LatestIn(d, With(i, z, a))].fin = c[LatestIn(c, a)].fin
    BY <1>3, SplicedLatest
  <2> QED
    BY <1>2, <2>1
<1>5. o \in DOMAIN c
  BY DEF Openers
<1>6. d[o].inicio = c[o].inicio /\ d[o].space = c[o].space /\ d[o].fecha = c[o].fecha
  BY <1>5 DEF Spliced
<1>7. BlockLength(d, b) = BlockLength(c, a)
  BY <1>1, <1>4, <1>6 DEF BlockLength
<1>8. BlockPrice(d, b) = BlockPrice(c, a)
  BY <1>1, <1>6, <1>7 DEF BlockPrice
<1> QED
  BY <1>7, <1>8

LEMMA SplicedPriceable ==
    ASSUME NEW c, NEW d, NEW i, NEW z, Spliced(c, d, i, z), Priceable(c)
    PROVE  Priceable(d)
<1>0. /\ d \in Seq(Item) /\ DOMAIN d = DOMAIN c \cup {z} /\ i \in DOMAIN c
      /\ z \notin DOMAIN c /\ c \in Seq(Item)
  BY DEF Spliced
<1>1. ASSUME NEW k \in DOMAIN d PROVE RuleOn(d[k].space, d[k].fecha) # NoRule
  <2>1. CASE k \in DOMAIN c
    <3>1. d[k].space = c[k].space /\ d[k].fecha = c[k].fecha
      BY <2>1 DEF Spliced
    <3> QED
      BY <2>1, <3>1 DEF Priceable
  <2>2. CASE k = z
    <3>1. d[z].space = c[i].space /\ d[z].fecha = c[i].fecha
      BY DEF Spliced
    <3> QED
      BY <1>0, <2>2, <3>1 DEF Priceable
  <2> QED
    BY <1>0, <2>1, <2>2
<1>2. ASSUME NEW b \in AllBlocks(d) PROVE BlockLength(d, b) > 0
  <2>1. PICK o \in Openers(c) : b = BlockFrom(d, o)
    BY BlocksAre, SplicedOpeners
  <2>2. BlockLength(d, b) = BlockLength(c, BlockFrom(c, o))
    BY <2>1, SplicedBlock
  <2>3. BlockFrom(c, o) \in AllBlocks(c)
    BY <1>0, OpensItsBlock
  <2> QED
    BY <2>2, <2>3 DEF Priceable
<1> QED
  BY <1>1, <1>2 DEF Priceable

\* Blocks that open alike and cost alike make the same quote.
LEMMA QuoteByOpener ==
    ASSUME PricingInd, NEW c \in Seq(Item), Priceable(c),
           NEW O, O = Openers(c),
           NEW f, \A o \in O : f[o] = BlockPrice(c, BlockFrom(c, o))
    PROVE  QuoteTotal(c) = SumFunctionOnSet(f, O)
<1> DEFINE B == AllBlocks(c)
           price == [b \in B |-> BlockPrice(c, b)]
           h == [b \in B |-> Earliest(c, b)]
<1>1. IsFiniteSet(B)
  BY OneBlockEach
<1>4. QuoteTotal(c) = SumFunctionOnSet(price, B) /\ \A b \in B : price[b] \in Int
  <2>1. \A b \in B : price[b] = BlockPrice(c, b)
    OBVIOUS
  <2> HIDE DEF price
  <2> QED
    BY <2>1, QuoteOfBlocks
<1>5. /\ h \in [B -> O] /\ (\A a, b \in B : h[a] = h[b] => a = b)
      /\ \A o \in O : \E b \in B : h[b] = o
  <2>1. \A b \in B : Earliest(c, b) \in O /\ b = BlockFrom(c, Earliest(c, b))
    BY BlockFound
  <2>2. \A o \in O : BlockFrom(c, o) \in B /\ Earliest(c, BlockFrom(c, o)) = o
    BY OpensItsBlock
  <2> QED
    BY <2>1, <2>2
<1>6. \A b \in B : price[b] \in Int /\ price[b] = f[h[b]]
  <2> TAKE b \in B
  <2>1. Earliest(c, b) \in O /\ b = BlockFrom(c, Earliest(c, b))
    BY BlockFound
  <2>2. f[Earliest(c, b)] = BlockPrice(c, b)
    BY <2>1
  <2>3. price[b] = BlockPrice(c, b) /\ h[b] = Earliest(c, b)
    OBVIOUS
  <2> QED
    BY <1>4, <2>2, <2>3
<1> HIDE DEF h, price, B
<1>7. h \in [B -> O]
  BY <1>5
<1>8. \A a, b \in B : h[a] = h[b] => a = b
  BY <1>5
<1>9. \A o \in O : \E b \in B : h[b] = o
  BY <1>5
<1>10. SumFunctionOnSet(f, O) = SumFunctionOnSet(price, B)
  BY <1>1, <1>6, <1>7, <1>8, <1>9, SumRenamed
<1> QED
  BY <1>4, <1>10

LEMMA SlicingIgnored == ASSUME PricingInd PROVE TotalIgnoresSlicing
<1> SUFFICES ASSUME Priceable(cart), Disjoint(cart), NEW i \in DOMAIN cart,
                    NEW m \in cart[i].inicio + 1 .. cart[i].fin - 1
    PROVE  QuoteTotal(Cut(cart, i, m)) = QuoteTotal(cart)
  BY DEF TotalIgnoresSlicing
<1> DEFINE d == Cut(cart, i, m)
           z == Len(cart) + 1
           O == Openers(cart)
           f == [o \in O |-> BlockPrice(cart, BlockFrom(cart, o))]
<1>1. cart \in Seq(Item)
  BY DEF PricingInd, PricingTypeOK
<1>2. Spliced(cart, d, i, z)
  BY <1>1, CutSplices
<1> HIDE DEF d, z
<1>3. d \in Seq(Item)
  BY <1>2 DEF Spliced
<1>4. Priceable(d) /\ O = Openers(d)
  BY <1>2, SplicedPriceable, SplicedOpeners
<1>5. \A o \in O : /\ f[o] = BlockPrice(cart, BlockFrom(cart, o))
                   /\ f[o] = BlockPrice(d, BlockFrom(d, o))
  BY <1>2, SplicedBlock
<1> HIDE DEF f, O
<1>6. QuoteTotal(cart) = SumFunctionOnSet(f, O)
  BY <1>1, <1>5, QuoteByOpener DEF O
<1>7. QuoteTotal(d) = SumFunctionOnSet(f, O)
  BY <1>3, <1>4, <1>5, QuoteByOpener
<1> QED
  BY <1>6, <1>7 DEF d

-----------------------------------------------------------------------------
(* Prices: the theorems.                                                   *)

\* The amounts that the application computes for a cart agree, whatever the
\* cart and the rules: quote and table, event lines and subtotal, rows, shares;
\* and neither the order of the slots nor how they are cut changes a price.
THEOREM PricesAlwaysAgree == PricingSpec => []PricesAgree
<1>1. PricingInd => PricesAgree
  BY QuoteMatches, SlicingIgnored, SharesAddToPrice, OrderIgnored, RowsMultiply,
     LinesAddToSubtotal DEF PricesAgree, PricingInd
<1> QED
  BY PricingStarts, PricingKept, <1>1, PTL DEF PricingSpec

\* A discount is printed as it was shown and as it was granted, for every cart,
\* all rules and every code, in whatever state the code is by then.
THEOREM DiscountsAlwaysHonoured == PricingSpec => []DiscountsHonoured
<1>1. PricingInd => DiscountsHonoured
  BY PdfIsPreview, ReprintKeeps DEF DiscountsHonoured
<1> QED
  BY PricingStarts, PricingKept, <1>1, PTL DEF PricingSpec

=============================================================================
