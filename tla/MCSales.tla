------------------------------ MODULE MCSales ------------------------------
(***************************************************************************)
(* Instances for TLC of contracts, credit balances and reminders.  They    *)
(* share no state: a behaviour is about one of them.                       *)
(***************************************************************************)
EXTENDS Contracts, Credits, Reminders, TLC

CONSTANTS d1, k1, k2, l1, l2, c1, contracts, credits, reminders

VARIABLE about

salesVars == <<about, vars, creditVars, reminderVars>>

\* The second line's discount exceeds its price.
Prices == [d \in Deal |-> l1 :> [price |-> 500, off |-> 150] @@ l2 :> [price |-> 200, off |-> 300]]

Credited == [c \in Credit |-> 1000]

Init ==
    /\ ContractsInit /\ CreditsInit /\ RemindersInit
    /\ about \in {contracts, credits, reminders}

Next ==
    \/ about = contracts /\ ContractsNext /\ UNCHANGED <<about, creditVars, reminderVars>>
    \/ about = credits /\ CreditsNext /\ UNCHANGED <<about, vars, reminderVars>>
    \/ about = reminders /\ RemindersNext /\ UNCHANGED <<about, vars, creditVars>>

Spec == Init /\ [][Next]_salesVars /\ ContractsFairness /\ RemindersFairness

=============================================================================
