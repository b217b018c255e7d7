------------------------------ MODULE Credits ------------------------------
(***************************************************************************)
(* Credit balances (modules/finance/credit_balances.py, credits_router.py):*)
(* a handler reads a row, decides, and writes what it computed, in one     *)
(* transaction without a lock.  Amounts are in cents; the rows are put     *)
(* into the table by hand, no endpoint creates one.                        *)
(***************************************************************************)
EXTENDS Integers

CONSTANTS
    Credit,         \* rows of credit_balances
    Original,       \* monto_original of each
    Finance,        \* requests of the finance staff
    Montos,         \* amounts that they ask to apply
    NoCredit

ASSUME CreditsAssumption ==
    /\ Original \in [Credit -> Nat \ {0}]
    /\ Montos \subseteq Nat \ {0}
    /\ NoCredit \notin Credit

VARIABLES
    balance,    \* saldo_restante of each credit
    used,       \* how often it was applied, and for how much in all
    asking,     \* the credit that a request has read, its balance, the amount
    raced       \* credits that two requests had read at the same time

creditVars == <<balance, used, asking, raced>>

NoAsk == [credit |-> NoCredit, saldo |-> 0, aplicar |-> 0]

Smaller(a, b) == IF a < b THEN a ELSE b

\* Mutant: aplicado_a_reservation_id is not looked at.
ApplyLoadAgain(k, c) ==
    /\ asking[k] = NoAsk
    /\ balance[c] > 0
    /\ \E m \in Montos :
        asking' = [asking EXCEPT ![k] =
            [credit |-> c, saldo |-> balance[c], aplicar |-> Smaller(m, balance[c])]]
    /\ raced' = IF \E j \in Finance : asking[j].credit = c THEN raced \cup {c} ELSE raced
    /\ UNCHANGED <<balance, used>>

\* apply_credit_to_reservation reads the row: it must have a balance and be
\* applied to nothing.  What is not applied now is never applied.
ApplyLoad(k, c) ==
    /\ asking[k] = NoAsk
    /\ balance[c] > 0 /\ used[c].times = 0
    /\ \E m \in Montos :
        asking' = [asking EXCEPT ![k] =
            [credit |-> c, saldo |-> balance[c], aplicar |-> Smaller(m, balance[c])]]
    /\ raced' = IF \E j \in Finance : asking[j].credit = c THEN raced \cup {c} ELSE raced
    /\ UNCHANGED <<balance, used>>

\* The balance is written as computed from the row that was read.
ApplyCommit(k) ==
    LET c == asking[k].credit IN
    /\ c # NoCredit
    /\ balance' = [balance EXCEPT ![c] = asking[k].saldo - asking[k].aplicar]
    /\ used' = [used EXCEPT ![c] =
                    [times |-> @.times + 1, amount |-> @.amount + asking[k].aplicar]]
    /\ asking' = [asking EXCEPT ![k] = NoAsk]
    /\ UNCHANGED raced

CreditsInit ==
    /\ balance = Original
    /\ used = [c \in Credit |-> [times |-> 0, amount |-> 0]]
    /\ asking = [k \in Finance |-> NoAsk]
    /\ raced = {}

CreditsNext ==
    \E k \in Finance : ApplyCommit(k) \/ \E c \in Credit : ApplyLoad(k, c)

CreditsSpec == CreditsInit /\ [][CreditsNext]_creditVars

-----------------------------------------------------------------------------
(* Properties.                                                             *)

\* Types, within the bounds that the checks of a request leave.
CreditsTypeOK ==
    /\ balance \in [Credit -> Nat]
    /\ used \in [Credit -> [times : Nat, amount : Nat]]
    /\ asking \in [Finance -> [credit : Credit \cup {NoCredit}, saldo : Nat, aplicar : Nat]]
    /\ raced \subseteq Credit

\* Money is neither made nor lost, and a credit is applied once, unless two
\* requests read it before either wrote (credit_balances.py:63-72).
CreditConserved ==
    \A c \in Credit \ raced :
        used[c].times <= 1 /\ balance[c] + used[c].amount = Original[c]

\* The credit balances (finance/credit_balances.py).
CreditsInv == CreditsTypeOK /\ CreditConserved

=============================================================================
