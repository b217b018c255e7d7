------------------------------- MODULE Slots -------------------------------
(***************************************************************************)
(* The inventory table and the row-level algorithms that every booking     *)
(* operation runs on it (modules/inventory/services.py).                   *)
(*                                                                         *)
(* A slot is a space and a time window: the unique key (space_id, fecha,   *)
(* hora_inicio, hora_fin) of the table.  A row that was never inserted     *)
(* reads the same as an AVAILABLE one, because _get_or_create_slot inserts *)
(* it AVAILABLE, so the table is a total function on Slot.  (The module    *)
(* SlotClaim models the insertion itself.)  The operators below take the   *)
(* table as a parameter and return what one call leaves in it.             *)
(***************************************************************************)
EXTENDS Naturals

CONSTANTS
    Space,          \* spaces of one tenant
    NoSpace,        \* Parent[s] of a space that is the child of no other
    Parent,         \* the child -> parent rows of space_relationships
    Window,         \* time windows <<start, end>>; the date is part of both
    Bookable,       \* the slots that satisfy the space's SpaceBookingRule
    Reservation,    \* reservation ids
    Quote,          \* quote ids
    None            \* SQL NULL

Slot == Space \X Window

\* A relationship never makes a space its own parent (would_create_cycle).
ASSUME SlotsAssumption ==
    /\ NoSpace \notin Space
    /\ Parent \in [Space -> Space \cup {NoSpace}]
    /\ \A s \in Space : Parent[s] # s
    /\ Window \subseteq Nat \X Nat
    /\ \A w \in Window : w[1] < w[2]
    /\ Bookable \subseteq Slot
    /\ None \notin Reservation \cup Quote

SlotStatus == {"AVAILABLE", "BLOCKED_BY_PARENT", "BLOCKED_BY_CHILD",
               "TTL_BLOCKED", "RESERVED", "SOFT_HOLD", "MAINTENANCE"}

Row == [estado : SlotStatus,
        reservation_id : Reservation \cup {None},
        quote_id : Quote \cup {None}]

FreeRow == [estado |-> "AVAILABLE", reservation_id |-> None, quote_id |-> None]

\* Mutant: soft holds are forgotten.
HardBlockStatusesNoHold == {"TTL_BLOCKED", "RESERVED", "MAINTENANCE"}

HardBlockStatuses == {"TTL_BLOCKED", "RESERVED", "SOFT_HOLD", "MAINTENANCE"}

-----------------------------------------------------------------------------
(* Geometry: which slots a claim looks at besides its own.                 *)

HasParent(s) == Parent[s[1]] # NoSpace

ParentSlot(s) == <<Parent[s[1]], s[2]>>

ChildSlots(s) == {<<c, s[2]>> : c \in {x \in Space : Parent[x] = s[1]}}

\* No part of a space has parts of its own.
TwoLevelHierarchy == \A s \in Space : Parent[s] # NoSpace => Parent[Parent[s]] = NoSpace

Overlap(v, w) == v[1] < w[2] /\ w[1] < v[2]

\* The other rows of the same space whose window meets the window of s.
Overlapping(s) == {t \in Slot : t[1] = s[1] /\ t # s /\ Overlap(t[2], s[2])}

\* Two slots that cannot both be occupied by events: the same floor space is
\* used by both, in windows that meet.
Conflict(s, t) ==
    /\ Overlap(s[2], t[2])
    /\ s[1] = t[1] \/ Parent[s[1]] = t[1] \/ Parent[t[1]] = s[1]

-----------------------------------------------------------------------------
(* claim_slot_for_reservation                                              *)

\* Mutant: the overlap query of CA-08 is dropped.
ClaimableNoOverlap(rows, s) ==
    /\ s \in Bookable
    /\ rows[s] = FreeRow
    /\ HasParent(s) =>
         rows[ParentSlot(s)].estado \notin HardBlockStatuses \cup {"BLOCKED_BY_PARENT"}
    /\ \A c \in ChildSlots(s) :
         rows[c].estado \notin HardBlockStatuses \cup {"BLOCKED_BY_CHILD"}

Claimable(rows, s) ==
    /\ s \in Bookable
    /\ rows[s].estado = "AVAILABLE"
    /\ rows[s].reservation_id = None
    /\ \A t \in Overlapping(s) : rows[t].estado = "AVAILABLE"
    /\ HasParent(s) =>
         rows[ParentSlot(s)].estado \notin HardBlockStatuses \cup {"BLOCKED_BY_PARENT"}
    /\ \A c \in ChildSlots(s) :
         rows[c].estado \notin HardBlockStatuses \cup {"BLOCKED_BY_CHILD"}

\* Mutants: only the children, or only the parent, are shadowed.
ShadowChildrenOnly(rows, s) == IF HasParent(s) THEN {} ELSE ChildSlots(s)

ShadowParentOnly(rows, s) ==
    {p \in {ParentSlot(s)} : HasParent(s) /\ rows[p].estado = "AVAILABLE"}

\* The relatives a claim of s shadows.  A space that has a parent does not
\* shadow its own children: the code's else branch is not reached for it.
ShadowedBy(rows, s) ==
    IF HasParent(s)
    THEN {p \in {ParentSlot(s)} : rows[p].estado = "AVAILABLE"}
    ELSE ChildSlots(s)

\* Mutant: one status, outside the enumeration, for both directions.
ShadowStatusMerged(s) == "BLOCKED"

ShadowStatus(s) == IF HasParent(s) THEN "BLOCKED_BY_CHILD" ELSE "BLOCKED_BY_PARENT"

Claim(rows, s, r) ==
    [t \in Slot |->
        IF t = s
        THEN [rows[t] EXCEPT !.estado = "TTL_BLOCKED", !.reservation_id = r]
        ELSE IF t \in ShadowedBy(rows, s)
        THEN [rows[t] EXCEPT !.estado = ShadowStatus(s), !.reservation_id = None]
        ELSE rows[t]]

-----------------------------------------------------------------------------
(* Releasing a slot, as reject_payment, expire_reservation_by_ttl,         *)
(* cancel_reservation and release_inventory_for_reservation do it: the row *)
(* is reset in the session and release_relationship_blocks_for_            *)
(* reservation_slot is called BEFORE anything is flushed.  The session     *)
(* does not autoflush, so the sibling query reads the table as it was: the *)
(* released row still counts as an active sibling of itself.               *)

ActiveChild(rows, p) ==
    \E c \in ChildSlots(p) : rows[c].estado \in {"TTL_BLOCKED", "RESERVED", "SOFT_HOLD"}

UnshadowedBy(rows, s) ==
    IF HasParent(s)
    THEN {p \in {ParentSlot(s)} :
            /\ ~ ActiveChild(rows, p)
            /\ rows[p].estado = "BLOCKED_BY_CHILD"
            /\ rows[p].reservation_id = None}
    ELSE {c \in ChildSlots(s) :
            /\ rows[c].estado = "BLOCKED_BY_PARENT"
            /\ rows[c].reservation_id = None}

Release(rows, s) ==
    [t \in Slot |->
        IF t = s
        THEN [rows[t] EXCEPT !.estado = "AVAILABLE", !.reservation_id = None]
        ELSE IF t \in UnshadowedBy(rows, s)
        THEN [rows[t] EXCEPT !.estado = "AVAILABLE"]
        ELSE rows[t]]

-----------------------------------------------------------------------------
(* apply_soft_hold_for_quote, and the two functions behind                 *)
(* POST /spaces/{id}/block, which overwrite whatever state they find.      *)

Holdable(rows, S) == \A s \in S : rows[s] = FreeRow

Hold(rows, S, q) ==
    [t \in Slot |->
        IF t \in S THEN [rows[t] EXCEPT !.estado = "SOFT_HOLD", !.quote_id = q]
                   ELSE rows[t]]

BlockParentAndChildren(rows, s) ==
    [t \in Slot |->
        IF t = s THEN [rows[t] EXCEPT !.estado = "TTL_BLOCKED"]
        ELSE IF t \in ChildSlots(s) THEN [rows[t] EXCEPT !.estado = "BLOCKED_BY_PARENT"]
        ELSE rows[t]]

BlockChildAndParent(rows, s) ==
    [t \in Slot |->
        IF t = s THEN [rows[t] EXCEPT !.estado = "TTL_BLOCKED"]
        ELSE IF HasParent(s) /\ t = ParentSlot(s)
        THEN [rows[t] EXCEPT !.estado = "BLOCKED_BY_CHILD"]
        ELSE rows[t]]

=============================================================================
