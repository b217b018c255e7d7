------------------------------ MODULE Booking ------------------------------
(***************************************************************************)
(* The reservation lifecycle (modules/booking) over the inventory table    *)
(* (modules/inventory): every request handler and every iteration of the   *)
(* Celery sweep is one database transaction, and one action here.  What    *)
(* happens when two of these transactions overlap in time is the subject   *)
(* of SlotClaim; this module is about long sequences of committed ones.    *)
(***************************************************************************)
EXTENDS Slots, FiniteSets

CONSTANTS
    User,
    Customer,       \* the users whose role is not in STAFF_ROLES
    UserOf,         \* the user each reservation id will belong to
    MaxActive,      \* MAX_ACTIVE_RESERVATIONS_PER_CUSTOMER
    File            \* payment vouchers, identified by their SHA-256

ASSUME BookingAssumption ==
    /\ Customer \subseteq User
    /\ None \notin User
    /\ UserOf \in [Reservation -> User]
    /\ MaxActive \in Nat

VARIABLES
    rows,           \* the inventory table
    status,         \* reservations.status; "NONE" before the row exists
    slot,           \* space_id, fecha, hora_inicio, hora_fin of a reservation
    grp,            \* group_event_id, named by the event's first reservation
    frozen,         \* reservations with ttl_frozen
    due,            \* reservations with ttl_expires_at < now
    vouchers,       \* payment_vouchers: the reservation each file is stored for
    expediente,     \* PAYMENT_VOUCHER documents <<reservation, file>>: append-only
    sweep,          \* ids selected by a running expire_reservations_ttl task
    trail           \* valor_nuevo.status of the last audit record of each id

vars == <<rows, status, slot, grp, frozen, due, vouchers, expediente, sweep, trail>>

Status == {"PENDING_SLIP", "AWAITING_PAYMENT", "PAYMENT_UNDER_REVIEW",
           "CONFIRMED", "EXPIRED", "CANCELLED"}

\* Mutant: a confirmed reservation can be cancelled.
ExpirableOrConfirmed == {"PENDING_SLIP", "AWAITING_PAYMENT", "CONFIRMED"}

Expirable == {"PENDING_SLIP", "AWAITING_PAYMENT"}   \* also can_cancel_reservation

ActiveStatuses == Expirable \cup {"PAYMENT_UNDER_REVIEW"}

Terminal == {"EXPIRED", "CANCELLED"}

\* ALLOWED_TRANSITIONS.
Allowed(from) ==
    CASE from = "PENDING_SLIP"         -> {"AWAITING_PAYMENT", "CANCELLED"}
      [] from = "AWAITING_PAYMENT"     -> {"PAYMENT_UNDER_REVIEW", "CANCELLED"}
      [] from = "PAYMENT_UNDER_REVIEW" -> {"CONFIRMED", "EXPIRED"}
      [] OTHER                         -> {}

Exists(r) == status[r] # "NONE"

Live(r) == status[r] \in ActiveStatuses \cup {"CONFIRMED"}

\* The members of the event r belongs to; r alone when group_event_id is NULL.
Event(r) == IF grp[r] = None THEN {r} ELSE {q \in Reservation : grp[q] = grp[r]}

Init ==
    /\ rows = [s \in Slot |-> FreeRow]
    /\ status = [r \in Reservation |-> "NONE"]
    /\ slot = [r \in Reservation |-> None]
    /\ grp = [r \in Reservation |-> None]
    /\ frozen = {}
    /\ due = {}
    /\ vouchers = [f \in File |-> None]
    /\ expediente = {}
    /\ sweep = {}
    /\ trail = [r \in Reservation |-> "NONE"]

-----------------------------------------------------------------------------
(* Creation.                                                               *)

\* check_anti_hoarding: an event counts once, a single reservation counts as
\* itself; staff is not limited.
LogicalActive(u) ==
    {IF grp[r] = None THEN r ELSE grp[r] :
        r \in {q \in Reservation : UserOf[q] = u /\ status[q] \in ActiveStatuses}}

MayReserve(u) == u \in Customer => Cardinality(LogicalActive(u)) < MaxActive

\* POST /reservations (g = None), and an event of one item (g = r).
PostReservation(r, s, g) ==
    /\ status[r] = "NONE"
    /\ MayReserve(UserOf[r])
    /\ Claimable(rows, s)
    /\ g \in {None, r}
    /\ rows' = Claim(rows, s, r)
    /\ status' = [status EXCEPT ![r] = "PENDING_SLIP"]
    /\ slot' = [slot EXCEPT ![r] = s]
    /\ grp' = [grp EXCEPT ![r] = g]
    /\ UNCHANGED <<frozen, due, vouchers, expediente, sweep, trail>>

\* POST /reservation-events with two items: the second claim sees what the
\* first one flushed, and an unavailable item rolls both back.
PostEvent(q, r, s, t) ==
    /\ q # r /\ UserOf[q] = UserOf[r]
    /\ status[q] = "NONE" /\ status[r] = "NONE"
    /\ MayReserve(UserOf[q])
    /\ Claimable(rows, s)
    /\ Claimable(Claim(rows, s, q), t)
    /\ rows' = Claim(Claim(rows, s, q), t, r)
    /\ status' = [status EXCEPT ![q] = "PENDING_SLIP", ![r] = "PENDING_SLIP"]
    /\ slot' = [slot EXCEPT ![q] = s, ![r] = t]
    /\ grp' = [grp EXCEPT ![q] = q, ![r] = q]
    /\ UNCHANGED <<frozen, due, vouchers, expediente, sweep, trail>>

\* The clock passes ttl_expires_at of a reservation.
TTLPasses(r) ==
    /\ Exists(r) /\ r \notin due
    /\ due' = due \cup {r}
    /\ UNCHANGED <<rows, status, slot, grp, frozen, vouchers, expediente, sweep, trail>>

-----------------------------------------------------------------------------
(* Payment.                                                                *)

GenerateSlip(r) ==
    /\ Exists(r) /\ "AWAITING_PAYMENT" \in Allowed(status[r])
    /\ status' = [status EXCEPT ![r] = "AWAITING_PAYMENT"]
    /\ trail' = [trail EXCEPT ![r] = "AWAITING_PAYMENT"]
    /\ UNCHANGED <<rows, slot, grp, frozen, due, vouchers, expediente, sweep>>

\* Mutant: the whole selection is audited.
BulkGenerateSlipAuditingAll(selection) ==
    LET pending == {r \in selection : status[r] = "PENDING_SLIP"}
    IN  /\ \A r \in selection : Exists(r)
        /\ pending # {}
        /\ status' = [r \in Reservation |->
                        IF r \in pending THEN "AWAITING_PAYMENT" ELSE status[r]]
        /\ trail' = [r \in Reservation |->
                        IF r \in selection THEN "AWAITING_PAYMENT" ELSE trail[r]]
        /\ UNCHANGED <<rows, slot, grp, frozen, due, vouchers, expediente, sweep>>

\* POST /reservations/bulk/generate-slip: the selection may contain
\* reservations in any state; those in PENDING_SLIP move, and there is one.
BulkGenerateSlip(selection) ==
    LET pending == {r \in selection : status[r] = "PENDING_SLIP"}
    IN  /\ \A r \in selection : Exists(r)
        /\ pending # {}
        /\ status' = [r \in Reservation |->
                        IF r \in pending THEN "AWAITING_PAYMENT" ELSE status[r]]
        /\ trail' = [r \in Reservation |->
                        IF r \in pending THEN "AWAITING_PAYMENT" ELSE trail[r]]
        /\ UNCHANGED <<rows, slot, grp, frozen, due, vouchers, expediente, sweep>>

\* The unique constraint on sha256_hash rejects a file that is stored already,
\* and the rejection rolls the transition back too.
UploadSlip(r, f) ==
    /\ status[r] \in {"AWAITING_PAYMENT", "PAYMENT_UNDER_REVIEW"}
    /\ vouchers[f] = None
    /\ vouchers' = [vouchers EXCEPT ![f] = r]
    /\ expediente' = expediente \cup {<<r, f>>}
    /\ IF status[r] = "AWAITING_PAYMENT"
       THEN /\ status' = [status EXCEPT ![r] = "PAYMENT_UNDER_REVIEW"]
            /\ frozen' = frozen \cup {r}
            /\ trail' = [trail EXCEPT ![r] = "PAYMENT_UNDER_REVIEW"]
       ELSE UNCHANGED <<status, frozen, trail>>
    /\ UNCHANGED <<rows, slot, grp, due, sweep>>

\* The status and ttl_frozen stay as they are, whatever vouchers remain.
DeleteVoucher(r, f) ==
    /\ status[r] \in {"AWAITING_PAYMENT", "PAYMENT_UNDER_REVIEW"}
    /\ vouchers[f] = r
    /\ vouchers' = [vouchers EXCEPT ![f] = None]
    /\ UNCHANGED <<rows, status, slot, grp, frozen, due, expediente, sweep, trail>>

\* The row _get_slot_for_reservation finds, if it still carries the id.
Holds(r) == rows[slot[r]].reservation_id = r

ConfirmPayment(r) ==
    /\ Exists(r) /\ "CONFIRMED" \in Allowed(status[r])
    /\ status' = [status EXCEPT ![r] = "CONFIRMED"]
    /\ rows' = IF Holds(r) THEN [rows EXCEPT ![slot[r]].estado = "RESERVED"] ELSE rows
    /\ trail' = [trail EXCEPT ![r] = "CONFIRMED"]
    /\ UNCHANGED <<slot, grp, frozen, due, vouchers, expediente, sweep>>

\* Mutants: the slot is looked up without its reservation id; only a row in the
\* state of a booking is given back.
GiveBackUnowned(table, r) == Release(table, slot[r])

GiveBackBooked(table, r) ==
    IF Holds(r) /\ table[slot[r]].estado \in {"TTL_BLOCKED", "RESERVED"}
    THEN Release(table, slot[r]) ELSE table

\* The table after reject_payment, expire_reservation_by_ttl or
\* cancel_reservation has given the slot of r back.
GiveBack(table, r) ==
    IF table[slot[r]].reservation_id = r THEN Release(table, slot[r]) ELSE table

RejectPayment(r) ==
    /\ Exists(r) /\ "EXPIRED" \in Allowed(status[r])
    /\ status' = [status EXCEPT ![r] = "EXPIRED"]
    /\ rows' = GiveBack(rows, r)
    /\ trail' = [trail EXCEPT ![r] = "EXPIRED"]
    /\ UNCHANGED <<slot, grp, frozen, due, vouchers, expediente, sweep>>

-----------------------------------------------------------------------------
(* Cancellation.                                                           *)

\* release_inventory_for_reservation: the cleanup never touches RESERVED.  It
\* finds the row by reservation_id; no other row than r's own slot carries r
\* (OwnerConsistent).
CleanUp(table, r) ==
    IF table[slot[r]].estado # "RESERVED" THEN GiveBack(table, r) ELSE table

\* cancel_reservation_request for a reservation outside any event.  A
\* terminal reservation is accepted again and only cleaned up.
CancelSingle(r) ==
    /\ Exists(r) /\ grp[r] = None
    /\ \/ /\ status[r] \in Expirable
          /\ status' = [status EXCEPT ![r] = "CANCELLED"]
          /\ trail' = [trail EXCEPT ![r] = "CANCELLED"]
          /\ rows' = GiveBack(rows, r)
       \/ /\ status[r] \in Terminal
          /\ rows' = CleanUp(rows, r)
          /\ UNCHANGED <<status, trail>>
    /\ UNCHANGED <<slot, grp, frozen, due, vouchers, expediente, sweep>>

\* One turn of the loop over the members of an event: cancel if the status
\* allows it, then clean up in any case.
CancelMember(table, r) ==
    CleanUp(IF status[r] \in Expirable THEN GiveBack(table, r) ELSE table, r)

\* Mutant: the members that can be cancelled are, whatever the others are.
CancelEventPartly(q, r) ==
    /\ Exists(q) /\ grp[q] # None
    /\ Event(q) = {q, r}
    /\ rows' = IF q = r THEN CancelMember(rows, q)
                        ELSE CancelMember(CancelMember(rows, q), r)
    /\ status' = [m \in Reservation |->
                    IF m \in Event(q) /\ status[m] \in Expirable
                    THEN "CANCELLED" ELSE status[m]]
    /\ UNCHANGED <<slot, grp, frozen, due, vouchers, expediente, sweep, trail>>

\* The event is cancelled as a whole or, if one member is past cancelling,
\* not at all.  Events have at most two members here, visited in either order.
CancelEvent(q, r) ==
    /\ Exists(q) /\ grp[q] # None
    /\ Event(q) = {q, r}
    /\ \A m \in Event(q) : status[m] \in Expirable \cup Terminal
    /\ rows' = IF q = r THEN CancelMember(rows, q)
                        ELSE CancelMember(CancelMember(rows, q), r)
    /\ status' = [m \in Reservation |->
                    IF m \in Event(q) /\ status[m] \in Expirable
                    THEN "CANCELLED" ELSE status[m]]
    /\ trail' = [m \in Reservation |->
                    IF m \in Event(q) /\ status[m] \in Expirable
                    THEN "CANCELLED" ELSE trail[m]]
    /\ UNCHANGED <<slot, grp, frozen, due, vouchers, expediente, sweep>>

-----------------------------------------------------------------------------
(* The Celery task expire_reservations_ttl: one transaction selects ids,   *)
(* then every id has a transaction of its own.                             *)

\* Mutant: only slips that were never generated are selected.
SweepSelectPending ==
    /\ sweep = {}
    /\ sweep' = {r \in due \ frozen : status[r] = "PENDING_SLIP"}
    /\ sweep' # {}
    /\ UNCHANGED <<rows, status, slot, grp, frozen, due, vouchers, expediente, trail>>

SweepSelect ==
    /\ sweep = {}
    /\ sweep' = {r \in due \ frozen : status[r] \in Expirable}
    /\ sweep' # {}
    /\ UNCHANGED <<rows, status, slot, grp, frozen, due, vouchers, expediente, trail>>

\* Mutant: the status is not looked at again.
SweepOneBlindly(r) ==
    /\ r \in sweep
    /\ sweep' = sweep \ {r}
    /\ status' = [status EXCEPT ![r] = "EXPIRED"]
    /\ rows' = GiveBack(rows, r)
    /\ trail' = [trail EXCEPT ![r] = "EXPIRED"]
    /\ UNCHANGED <<slot, grp, frozen, due, vouchers, expediente>>

\* expire_reservation_by_ttl returns silently when the status has moved on;
\* the task writes its audit record in both cases.
SweepOne(r) ==
    /\ r \in sweep
    /\ sweep' = sweep \ {r}
    /\ IF status[r] \in Expirable
       THEN /\ status' = [status EXCEPT ![r] = "EXPIRED"]
            /\ rows' = GiveBack(rows, r)
       ELSE UNCHANGED <<status, rows>>
    /\ trail' = [trail EXCEPT ![r] = "EXPIRED"]
    /\ UNCHANGED <<slot, grp, frozen, due, vouchers, expediente>>

\* An exception in one transaction is re-raised and ends the task; so does a
\* worker that dies.  The next beat starts from a new selection.
SweepAbort ==
    /\ sweep # {}
    /\ sweep' = {}
    /\ UNCHANGED <<rows, status, slot, grp, frozen, due, vouchers, expediente, trail>>

-----------------------------------------------------------------------------
(* Quotes hold slots; nothing in the application releases a hold.          *)

CreateQuote(q, S) ==
    /\ S # {}
    /\ \A s \in Slot : rows[s].quote_id # q
    /\ Holdable(rows, S)
    /\ rows' = Hold(rows, S, q)
    /\ UNCHANGED <<status, slot, grp, frozen, due, vouchers, expediente, sweep, trail>>

\* POST /spaces/{id}/block, marked internal / testing in the router.
BlockSlot(s) ==
    /\ \/ rows' = BlockParentAndChildren(rows, s)
       \/ rows' = BlockChildAndParent(rows, s)
    /\ UNCHANGED <<status, slot, grp, frozen, due, vouchers, expediente, sweep, trail>>

-----------------------------------------------------------------------------

Create ==
    \/ \E r \in Reservation, s \in Slot, g \in Reservation \cup {None} :
            PostReservation(r, s, g)
    \/ \E q, r \in Reservation, s, t \in Slot : PostEvent(q, r, s, t)

Pay ==
    \/ \E r \in Reservation : GenerateSlip(r)
    \/ \E selection \in SUBSET Reservation : BulkGenerateSlip(selection)
    \/ \E r \in Reservation, f \in File : UploadSlip(r, f) \/ DeleteVoucher(r, f)
    \/ \E r \in Reservation : ConfirmPayment(r) \/ RejectPayment(r)

Cancel ==
    \/ \E r \in Reservation : CancelSingle(r)
    \/ \E q, r \in Reservation : CancelEvent(q, r)

Sweep ==
    \/ SweepSelect
    \/ \E r \in Reservation : SweepOne(r)
    \/ SweepAbort

Next ==
    \/ Create
    \/ Pay
    \/ Cancel
    \/ \E r \in Reservation : TTLPasses(r)
    \/ Sweep
    \/ \E q \in Quote, S \in SUBSET Slot : CreateQuote(q, S)

Spec == Init /\ [][Next]_vars

\* The same application with the internal block endpoint in use.
SpecWithBlocks == Init /\ [][Next \/ \E s \in Slot : BlockSlot(s)]_vars

\* Celery beat starts the sweep every five minutes, and a sweep that keeps
\* reaching an id does not fail on it forever.
FairSpec ==
    /\ Spec
    /\ WF_vars(SweepSelect)
    /\ \A r \in Reservation : SF_vars(SweepOne(r))

-----------------------------------------------------------------------------
(* Properties.                                                             *)

\* The columns have their types (booking/models.py, inventory/models.py).
TypeOK ==
    /\ rows \in [Slot -> Row]
    /\ status \in [Reservation -> Status \cup {"NONE"}]
    /\ slot \in [Reservation -> Slot \cup {None}]
    /\ grp \in [Reservation -> Reservation \cup {None}]
    /\ frozen \subseteq Reservation
    /\ due \subseteq Reservation
    /\ vouchers \in [File -> Reservation \cup {None}]
    /\ expediente \subseteq Reservation \X File
    /\ sweep \subseteq Reservation
    /\ trail \in [Reservation -> Status \cup {"NONE"}]
    /\ \A r \in Reservation : Exists(r) => slot[r] \in Slot

\* A row that carries a reservation id carries it for a live reservation of
\* exactly that slot: claims, releases, the shadowing of relatives and even
\* the block endpoint never leave a row with the id of a reservation that
\* was cancelled, expired or made for another slot.
OwnerConsistent ==
    \A s \in Slot : rows[s].reservation_id # None =>
        /\ Live(rows[s].reservation_id)
        /\ slot[rows[s].reservation_id] = s

\* The two tables agree in the other direction: a live reservation owns its
\* row, RESERVED exactly when it is CONFIRMED and TTL_BLOCKED before, and
\* no release of somebody else's slot has taken the row away.
LiveHoldsSlot ==
    \A r \in Reservation : Live(r) =>
        /\ rows[slot[r]].reservation_id = r
        /\ rows[slot[r]].estado =
              IF status[r] = "CONFIRMED" THEN "RESERVED" ELSE "TTL_BLOCKED"

\* Two live reservations of one space never meet in time, although their
\* windows may differ and so live in different rows (the overlap check of
\* claim_slot_for_reservation).
NoDoubleBooking ==
    \A q, r \in Reservation :
        q # r /\ Live(q) /\ Live(r) /\ slot[q][1] = slot[r][1]
            => ~ Overlap(slot[q][2], slot[r][2])

\* A space and a part of it are never booked for windows that meet.  The code
\* looks up relatives only under the very same window; windows that merely
\* overlap are kept apart by the shadow rows, for as long as these stay.
FamilyExclusion ==
    \A q, r \in Reservation :
        Live(q) /\ Live(r) /\ Parent[slot[q][1]] = slot[r][1]
            => ~ Overlap(slot[q][2], slot[r][2])

\* What keeps overlapping windows of a space and its parts apart: as long as a
\* row is owned, its parent's row is not available, nor, for a space without a
\* parent, are its children's, whatever siblings and relatives are released.
Sheltered ==
    \A s \in Slot : rows[s].reservation_id # None =>
        /\ HasParent(s) => rows[ParentSlot(s)].estado # "AVAILABLE"
        /\ ~ HasParent(s) => \A c \in ChildSlots(s) : rows[c].estado # "AVAILABLE"

\* Cancelling is all or nothing: once one member of an event was cancelled,
\* every other member is cancelled or had expired, whatever payments and
\* sweeps came in between.
EventCancelsTogether ==
    \A q, r \in Reservation :
        /\ status[q] = "CANCELLED"
        /\ grp[q] # None
        /\ grp[r] = grp[q]
        => status[r] \in Terminal

\* The last status that the audit log has for a reservation is its status, or
\* the EXPIRED that the sweep records of an id it selected although
\* expire_reservation_by_ttl left it alone (booking/tasks.py:42-61).
AuditErrsOnlyBySweep ==
    \A r \in Reservation :
        trail[r] \in {"NONE", status[r]} \/ (trail[r] = "EXPIRED" /\ r \in due)

\* No booking, release or sweep touches a row that a quote holds: neither as
\* the requested slot, nor as the parent or the child of one.
HoldStands ==
    [][\A s \in Slot : rows[s].estado = "SOFT_HOLD" => rows'[s] = rows[s]]_vars

\* A confirmed reservation is final, and so is its slot: no later cancel of
\* its event, sweep or release of a relative changes either.
ConfirmedIsFinal ==
    [][\A r \in Reservation : status[r] = "CONFIRMED" =>
            status'[r] = "CONFIRMED" /\ rows'[slot[r]] = rows[slot[r]]]_vars

\* The sweep acts on ids it selected in an earlier transaction.  An id whose
\* payment went under review in between keeps its status and its slot.
SweepSparesReviewed ==
    [][\A r \in sweep : status[r] = "PAYMENT_UNDER_REVIEW" /\ r \notin sweep'
            => status'[r] = status[r] /\ rows' = rows]_vars

\* A reservation whose TTL ran out before a voucher froze it does not block
\* its slot forever: it is expired, or its payment moves on.
DueLeaves ==
    \A r \in Reservation :
        (r \in due /\ status[r] \in Expirable) ~> (status[r] \notin Expirable)

(* What a comment of the repository says, and the code does not do.         *)

\* inventory/services.py:281 says that a released child unlocks its parent
\* unless a sibling is active: a parent blocked by a child has an active one.
ParentUnlocked ==
    \A p \in Slot : rows[p].estado = "BLOCKED_BY_CHILD" => ActiveChild(rows, p)

=============================================================================
