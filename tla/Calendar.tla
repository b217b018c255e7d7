------------------------------ MODULE Calendar ------------------------------
(***************************************************************************)
(* What readers are told of the inventory: the month calendar and the two  *)
(* availability checks (modules/inventory/services.py), and the staff's    *)
(* occupancy monitor (its router.py).  They read the table and change      *)
(* nothing; the question is whether they agree with what a claim would do. *)
(***************************************************************************)
EXTENDS Booking

RelativeBlocks(table, s) == table[s].estado \in HardBlockStatuses

\* _derived_relationship_block: what the relatives' rows imply for a row that
\* is free itself.
Derived(table, s) ==
    IF HasParent(s) /\ RelativeBlocks(table, ParentSlot(s)) THEN "BLOCKED_BY_PARENT"
    ELSE IF \E c \in ChildSlots(s) : RelativeBlocks(table, c) THEN "BLOCKED_BY_CHILD"
    ELSE "AVAILABLE"

Perceived(table, s) ==
    IF table[s].estado = "AVAILABLE" THEN Derived(table, s) ELSE table[s].estado

\* _PUBLIC_STATUS_MAP.
PublicStatus(estado) ==
    CASE estado = "AVAILABLE" -> "AVAILABLE"
      [] estado \in {"SOFT_HOLD", "TTL_BLOCKED"} -> "TTL_PENDING"
      [] OTHER -> "BLOCKED"

\* The calendar shows the shortest slot from each start that the rule allows.
MonthSlots ==
    {s \in Bookable : \A t \in Bookable :
        t[1] = s[1] /\ t[2][1] = s[2][1] => s[2][2] <= t[2][2]}

\* get_month_availability.
Month(table, s, role) ==
    IF table[s].estado = "MAINTENANCE" /\ role = "SUPERADMIN" THEN "MAINTENANCE"
    ELSE PublicStatus(Perceived(table, s))

CheckSingle(table, s) ==
    IF s \notin Bookable
    THEN [available |-> FALSE, estado |-> "INVALID_SLOT_GRANULARITY"]
    ELSE [available |-> Perceived(table, s) = "AVAILABLE",
          estado |-> PublicStatus(Perceived(table, s))]

CheckGroup(table, S) ==
    LET conflicts == {s \in S : ~ CheckSingle(table, s).available}
    IN  [all_available |-> conflicts = {}, conflicts |-> conflicts]

-----------------------------------------------------------------------------
(* get_admin_occupancy.                                                    *)

\* The rows a query reads: of the whole venue, or of the one space in space_id.
\* (Its range of dates drops whole windows, hence relatives with their rows.)
MonitorQueries == {Slot} \cup {{x} \X Window : x \in Space}

\* The relatives in whose reservation a shadow row looks for its event.  They
\* are looked up among the rows read (slot_index), so that a query for one
\* space finds none.
RelatedSlots(table, read, s) ==
    CASE table[s].reservation_id # None           -> {}
      [] table[s].estado = "BLOCKED_BY_PARENT"    -> read \cap {p \in {ParentSlot(s)} : HasParent(s)}
      [] table[s].estado = "BLOCKED_BY_CHILD"     -> read \cap ChildSlots(s)
      [] OTHER                                    -> {}

\* A related reservation is compared with ReservationStatus.COMPLETED, which
\* does not exist: the request fails.
MonitorAnswers(table, read) ==
    \A s \in read : \A t \in RelatedSlots(table, read, s) : table[t].reservation_id = None

\* Mutant: a blocked row counts as confirmed.
OccupancyOfBlocked(table, s) ==
    CASE table[s].estado = "AVAILABLE" -> "AVAILABLE"
      [] table[s].estado = "TTL_BLOCKED" -> "TENTATIVE"
      [] OTHER -> "CONFIRMED"

\* _map_occupancy_status, with the row's reservation if it has one.
Occupancy(table, s) ==
    LET r == table[s].reservation_id
    IN  CASE r # None /\ status[r] = "CONFIRMED" -> "CONFIRMED"
          [] table[s].estado = "RESERVED"        -> "CONFIRMED"
          [] table[s].estado = "AVAILABLE"       -> "AVAILABLE"
          [] OTHER                               -> "TENTATIVE"

-----------------------------------------------------------------------------
(* Properties.                                                             *)

\* The calendar and the check offer a slot exactly when a claim of it would
\* find nothing in the way but a row of the same space whose window meets it:
\* that one query of claim_slot_for_reservation they do not make.
OfferedIsClaimable ==
    \A s \in Slot :
        /\ s \in MonthSlots =>
             ((Month(rows, s, "CUSTOMER") = "AVAILABLE") <=> CheckSingle(rows, s).available)
        /\ Claimable(rows, s) <=>
             /\ CheckSingle(rows, s).available
             /\ \A t \in Overlapping(s) : rows[t].estado = "AVAILABLE"

\* A cart that the group check finds available can be claimed as one event,
\* one slot after the other in any order, if each slot is claimable alone and
\* no two of them need the same floor: the shadow rows of one claim reach no
\* other slot of the cart (check_group_availability, post_event_reservation).
GroupIsBookable ==
    \A s, t \in Slot : \A r \in Reservation :
        /\ CheckGroup(rows, {s, t}).all_available
        /\ Claimable(rows, s) /\ Claimable(rows, t)
        /\ ~ Conflict(s, t)
        => Claimable(Claim(rows, s, r), t)

\* Whenever the monitor answers, it shows a slot as confirmed if and only if a
\* confirmed reservation occupies that slot, and shows none as available whose
\* floor a live reservation uses in the same window (get_admin_occupancy).
MonitorIsRight ==
    \A read \in MonitorQueries : MonitorAnswers(rows, read) =>
        \A s \in read :
            /\ Occupancy(rows, s) = "CONFIRMED" <=>
                 \E r \in Reservation : status[r] = "CONFIRMED" /\ slot[r] = s
            /\ Occupancy(rows, s) = "AVAILABLE" =>
                 \A r \in Reservation : Live(r) =>
                    /\ slot[r] # s
                    /\ slot[r] \notin ChildSlots(s)
                    /\ HasParent(s) => slot[r] # ParentSlot(s)

\* What customers and staff are shown agrees with what a booking finds
\* (inventory/services.py, inventory/router.py).
CalendarIsRight == OfferedIsClaimable /\ GroupIsBookable /\ MonitorIsRight

=============================================================================
