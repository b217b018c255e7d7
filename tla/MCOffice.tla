------------------------------ MODULE MCOffice ------------------------------
(***************************************************************************)
(* Instances of Fulfillment and of Dossier for TLC.  They share no state:  *)
(* a behaviour is about one of them.                                       *)
(***************************************************************************)
EXTENDS Fulfillment, Dossier, TLC

CONSTANTS ine, otro, other1, other2, i1, k1, k2, pdf, a, b, orders, kyc,
          MaxSpent    \* bound on uploads, started ones included, and changes together

VARIABLE about

officeVars == <<about, fulfillmentVars, dossierVars>>

\* One type of document that may be asked for more than once.
Tipos == ine :> ine @@ other1 :> otro @@ other2 :> otro

Spent ==
    uploads + changes + Cardinality({k \in Helper : helper[k].op \in {"upload", "creating"}})

Init ==
    /\ FulfillmentInit /\ DossierInit
    /\ about \in {orders, kyc}

Next ==
    \/ /\ about = orders /\ UNCHANGED <<about, dossierVars>>
       /\ FulfillmentNext /\ Spent' <= MaxSpent
    \/ about = kyc /\ DossierNext /\ UNCHANGED <<about, fulfillmentVars>>

Spec == Init /\ [][Next]_officeVars /\ FulfillmentFairness /\ DossierFairness

=============================================================================
