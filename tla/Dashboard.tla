----------------------------- MODULE Dashboard -----------------------------
(***************************************************************************)
(* The operations dashboard (modules/operations): a summary of the groups  *)
(* of reservations and the day's figures.  It reads the reservations and   *)
(* the vouchers and changes nothing; the windows are those of one day.     *)
(***************************************************************************)
EXTENDS Booking

\* The groups that a set of reservation rows forms: _group_key.
Groups(R) ==
    {{q \in R : (IF grp[q] = None THEN q ELSE grp[q]) = k} :
        k \in {IF grp[r] = None THEN r ELSE grp[r] : r \in R}}

\* _STATUS_URGENCY of event_summary.py.
Urgency == <<"CANCELLED", "EXPIRED", "PENDING_SLIP", "AWAITING_PAYMENT",
             "PAYMENT_UNDER_REVIEW", "CONFIRMED">>

StatusesOf(G) == {status[r] : r \in G}

\* pick_primary_status.
Primary(G) ==
    CHOOSE s \in StatusesOf(G) : \E i \in DOMAIN Urgency :
        /\ Urgency[i] = s
        /\ \A j \in 1 .. i - 1 : Urgency[j] \notin StatusesOf(G)

\* Mutant: only the first row of the group is looked up.
HasVoucherFirst(G) == \E f \in File : vouchers[f] = CHOOSE r \in G : TRUE

HasVoucher(G) == \E f \in File : vouchers[f] \in G

PaymentReceived(G) == (\E r \in G : status[r] = "CONFIRMED") \/ HasVoucher(G)

\* What the list says of a group.
Entry(G) ==
    [members |-> G, status |-> Primary(G), mixed |-> Cardinality(StatusesOf(G)) > 1,
     payment |-> PaymentReceived(G)]

\* build_reservations_summary for a reader and an optional status filter,
\* which selects rows before they are grouped.
Summary(reader, filter) ==
    {Entry(G) : G \in Groups({r \in Reservation :
        /\ Exists(r)
        /\ reader \in Customer => UserOf[r] = reader
        /\ filter \in {None, status[r]}})}

\* _compute_kpis: the day's rows in an active status.
Counted == {r \in Reservation : Live(r)}

Kpis ==
    [events |-> Groups(Counted),
     spaces |-> {slot[r][1] : r \in Counted},
     pending |-> {G \in Groups(Counted) : Primary(G) = "PENDING_SLIP"},
     confirmed |-> {G \in Groups(Counted) : Primary(G) = "CONFIRMED"}]

-----------------------------------------------------------------------------
(* Properties.                                                             *)

\* The two halves of one answer agree although they look at different rows:
\* a listed group is counted under its listed status, or not at all when all
\* its members are terminal, unless one of them has expired; cancelling is
\* all or nothing, so it never makes the two differ.
FiguresMatchList ==
    \A e \in Summary(None, None) :
        LET counted == e.members \cap Counted
        IN  /\ e.status = "CANCELLED" => counted = {}
            /\ e.status # "EXPIRED" =>
                 /\ (e.status = "PENDING_SLIP") <=> (e.members \in Kpis.pending)
                 /\ (e.status = "CONFIRMED") <=> (e.members \in Kpis.confirmed)

\* A group listed as under review is flagged as paid, unless the voucher of
\* each member was deleted again: every one of them is in the expediente.
ReviewHasEvidence ==
    \A e \in Summary(None, None) :
        e.status = "PAYMENT_UNDER_REVIEW" /\ ~ e.payment =>
            \A r \in e.members : \E f \in File :
                <<r, f>> \in expediente /\ vouchers[f] # r

\* The page of the operations staff does not contradict itself or the
\* vouchers (operations/services.py).
DashboardIsRight == FiguresMatchList /\ ReviewHasEvidence

=============================================================================
