--------------------------- MODULE BookingProofs ---------------------------
(***************************************************************************)
(* Theorems about Booking for every hierarchy of spaces, every set of      *)
(* windows and any number of reservations: what one claim, release, hold   *)
(* or confirmation does to any inventory table; what holds in every state; *)
(* what no step may do; that each step is one of the ledger's; and that    *)
(* the readers of the tables are shown what is in them.                    *)
(***************************************************************************)
EXTENDS Booking, BookingLedger, Calendar, Dashboard, TLAPS

Owned(tb, s) == tb[s].reservation_id # None

\* Owned rows are in the states of a booking.
Booked(tb) == \A s \in Slot : Owned(tb, s) => tb[s].estado \in {"TTL_BLOCKED", "RESERVED"}

\* No two owned rows of one space meet in time.
Separate(tb) ==
    \A s, t \in Slot : Owned(tb, s) /\ Owned(tb, t) /\ s # t /\ s[1] = t[1]
                            => ~ Overlap(s[2], t[2])

\* Neither the parent of an owned row nor, for a space that has no parent, its
\* children are available.
Shelters(tb) ==
    \A s \in Slot : Owned(tb, s) =>
        /\ HasParent(s) => tb[ParentSlot(s)].estado # "AVAILABLE"
        /\ ~ HasParent(s) => \A c \in ChildSlots(s) : tb[c].estado # "AVAILABLE"

\* An owned row of a space and one of a part of it do not meet in time.
FamilySeparate(tb) ==
    \A s, t \in Slot : Owned(tb, s) /\ Owned(tb, t) /\ Parent[s[1]] = t[1]
                            => ~ Overlap(s[2], t[2])

\* A hierarchy of two levels keeps its families apart.
Families(tb) == TwoLevelHierarchy => Shelters(tb) /\ FamilySeparate(tb)

-----------------------------------------------------------------------------
(* Types.                                                                  *)

\* A claim writes rows of the table's type.
LEMMA ClaimType ==
    ASSUME NEW tb \in [Slot -> Row], NEW s \in Slot, NEW r \in Reservation
    PROVE  Claim(tb, s, r) \in [Slot -> Row]
  BY DEF Claim, Row, SlotStatus, ShadowStatus

\* A release writes rows of the table's type.
LEMMA ReleaseType ==
    ASSUME NEW tb \in [Slot -> Row], NEW s
    PROVE  Release(tb, s) \in [Slot -> Row]
  BY DEF Release, Row, SlotStatus

\* A hold writes rows of the table's type.
LEMMA HoldType ==
    ASSUME NEW tb \in [Slot -> Row], NEW S, NEW q \in Quote
    PROVE  Hold(tb, S, q) \in [Slot -> Row]
  BY DEF Hold, Row, SlotStatus

-----------------------------------------------------------------------------
(* Geometry.                                                               *)

\* Children and parents are slots, never the slot itself, and each other's
\* inverse.
LEMMA Relatives ==
    ASSUME NEW s \in Slot
    PROVE  /\ HasParent(s) => ParentSlot(s) \in Slot /\ ParentSlot(s) # s
           /\ ChildSlots(s) \subseteq Slot
           /\ s \notin ChildSlots(s)
           /\ \A c \in Slot : c \in ChildSlots(s) <=> HasParent(c) /\ ParentSlot(c) = s
  BY SlotsAssumption DEF Slot, HasParent, ParentSlot, ChildSlots

\* Overlap of two windows, strict at both ends in the query, is symmetric.
LEMMA OverlapSymmetric ==
    ASSUME NEW s \in Slot, NEW t \in Slot, Overlap(s[2], t[2])
    PROVE  Overlap(t[2], s[2])
  BY DEF Overlap

-----------------------------------------------------------------------------
(* Claim.                                                                  *)

\* A claim that was allowed takes a free row, leaves every owned row as it
\* is, and makes nothing available.
LEMMA ClaimFrame ==
    ASSUME NEW tb \in [Slot -> Row], Booked(tb),
           NEW s \in Slot, NEW r \in Reservation, Claimable(tb, s)
    PROVE  LET new == Claim(tb, s, r)
           IN  /\ ~ Owned(tb, s)
               /\ new[s].reservation_id = r
               /\ new[s].estado = "TTL_BLOCKED"
               /\ \A t \in Slot : t # s =>
                    /\ new[t].reservation_id = tb[t].reservation_id
                    /\ Owned(tb, t) => new[t] = tb[t]
                    /\ new[t].estado = "AVAILABLE" => tb[t].estado = "AVAILABLE"
<1> DEFINE new == Claim(tb, s, r)
<1>1. ~ Owned(tb, s)
  BY DEF Claimable, Owned
<1>2. new[s].reservation_id = r /\ new[s].estado = "TTL_BLOCKED"
  BY DEF Claim, Row
<1>3. \A t \in ShadowedBy(tb, s) : t \in Slot => ~ Owned(tb, t)
  <2> SUFFICES ASSUME NEW t \in ShadowedBy(tb, s), t \in Slot PROVE ~ Owned(tb, t)
    OBVIOUS
  <2>1. CASE HasParent(s)
    BY <2>1 DEF ShadowedBy, Booked
  <2>2. CASE ~ HasParent(s)
    BY <2>2 DEF ShadowedBy, Claimable, Booked, HardBlockStatuses
  <2> QED
    BY <2>1, <2>2
<1>4. ASSUME NEW t \in Slot, t # s
      PROVE  /\ new[t].reservation_id = tb[t].reservation_id
             /\ Owned(tb, t) => new[t] = tb[t]
             /\ new[t].estado = "AVAILABLE" => tb[t].estado = "AVAILABLE"
  <2>1. CASE t \in ShadowedBy(tb, s)
    BY <1>3, <1>4, <2>1 DEF Claim, Row, Owned, ShadowStatus
  <2>2. CASE t \notin ShadowedBy(tb, s)
    BY <1>4, <2>2 DEF Claim
  <2> QED
    BY <2>1, <2>2
<1> QED
  BY <1>1, <1>2, <1>4

\* A claim never meets an owned row of the same space.
LEMMA ClaimSeparate ==
    ASSUME NEW tb \in [Slot -> Row], Booked(tb), Separate(tb),
           NEW s \in Slot, NEW r \in Reservation, Claimable(tb, s)
    PROVE  Separate(Claim(tb, s, r))
<1>1. \A t \in Slot : Owned(tb, t) /\ t # s /\ t[1] = s[1] => ~ Overlap(t[2], s[2])
  BY DEF Booked, Claimable, Overlapping
<1>2. \A t \in Slot : t # s /\ Owned(Claim(tb, s, r), t) => Owned(tb, t)
  BY ClaimFrame DEF Owned
<1> QED
  BY <1>1, <1>2, OverlapSymmetric DEF Separate

-----------------------------------------------------------------------------
(* Release.                                                                *)

\* A release frees its own row and leaves every other owned row as it is.
LEMMA ReleaseFrame ==
    ASSUME NEW tb \in [Slot -> Row], NEW s \in Slot
    PROVE  LET new == Release(tb, s)
           IN  /\ ~ Owned(new, s)
               /\ \A t \in Slot : t # s =>
                    /\ new[t].reservation_id = tb[t].reservation_id
                    /\ Owned(tb, t) => new[t] = tb[t]
                    /\ new[t].estado = "AVAILABLE" =>
                         tb[t].estado = "AVAILABLE" \/ t \in UnshadowedBy(tb, s)
<1> DEFINE new == Release(tb, s)
<1>1. ~ Owned(new, s)
  BY DEF Release, Row, Owned
<1>2. \A t \in UnshadowedBy(tb, s) : ~ Owned(tb, t)
  BY DEF UnshadowedBy, Owned
<1>3. ASSUME NEW t \in Slot, t # s
      PROVE  /\ new[t].reservation_id = tb[t].reservation_id
             /\ Owned(tb, t) => new[t] = tb[t]
             /\ new[t].estado = "AVAILABLE" =>
                  tb[t].estado = "AVAILABLE" \/ t \in UnshadowedBy(tb, s)
  BY <1>2, <1>3 DEF Release, Row
<1> QED
  BY <1>1, <1>3

\* A release keeps the owned rows of a space from meeting.
LEMMA ReleaseSeparate ==
    ASSUME NEW tb \in [Slot -> Row], Separate(tb), NEW s \in Slot
    PROVE  Separate(Release(tb, s))
<1>1. \A t \in Slot : Owned(Release(tb, s), t) => Owned(tb, t)
  BY ReleaseFrame DEF Owned
<1> QED
  BY <1>1 DEF Separate

-----------------------------------------------------------------------------
(* Hold.                                                                   *)

\* A hold that was allowed leaves every owned row as it is.
LEMMA HoldFrame ==
    ASSUME NEW tb \in [Slot -> Row], NEW S \in SUBSET Slot, NEW q \in Quote, Holdable(tb, S)
    PROVE  LET new == Hold(tb, S, q)
           IN  \A t \in Slot :
                 /\ new[t].reservation_id = tb[t].reservation_id
                 /\ Owned(tb, t) => new[t] = tb[t]
                 /\ new[t].estado = "AVAILABLE" => tb[t].estado = "AVAILABLE"
  BY DEF Hold, Holdable, FreeRow, Row, Owned

-----------------------------------------------------------------------------
(* Families, when the hierarchy has two levels.                            *)

\* A step that frees no owned row, owns no new one and makes nothing available
\* keeps the families apart.
LEMMA FamilyFrame ==
    ASSUME NEW tb, NEW new,
           \A t \in Slot :
              /\ new[t].reservation_id = tb[t].reservation_id
              /\ new[t].estado = "AVAILABLE" => tb[t].estado = "AVAILABLE"
    PROVE  /\ Shelters(tb) => Shelters(new)
           /\ FamilySeparate(tb) => FamilySeparate(new)
<1>1. \A t \in Slot : Owned(new, t) <=> Owned(tb, t)
  BY DEF Owned
<1>2. ASSUME Shelters(tb) PROVE Shelters(new)
  <2> SUFFICES ASSUME NEW s \in Slot, Owned(tb, s)
               PROVE  /\ HasParent(s) => new[ParentSlot(s)].estado # "AVAILABLE"
                      /\ ~ HasParent(s) =>
                           \A c \in ChildSlots(s) : new[c].estado # "AVAILABLE"
    BY <1>1 DEF Shelters
  <2>1. HasParent(s) => new[ParentSlot(s)].estado # "AVAILABLE"
    BY <1>2, Relatives DEF Shelters
  <2>2. ~ HasParent(s) => \A c \in ChildSlots(s) : new[c].estado # "AVAILABLE"
    BY <1>2, Relatives DEF Shelters
  <2> QED
    BY <2>1, <2>2
<1> QED
  BY <1>1, <1>2 DEF FamilySeparate

\* A claim shadows the relatives that would be looked up for its windows.
LEMMA ClaimShelters ==
    ASSUME NEW tb \in [Slot -> Row], Booked(tb), Shelters(tb),
           NEW s \in Slot, NEW r \in Reservation, Claimable(tb, s)
    PROVE  Shelters(Claim(tb, s, r))
<1> DEFINE new == Claim(tb, s, r)
<1>1. \A t \in Slot : new[t].estado = "AVAILABLE" => tb[t].estado = "AVAILABLE"
  BY ClaimFrame
<1>2. \A t \in Slot : t # s /\ Owned(new, t) => Owned(tb, t)
  BY ClaimFrame DEF Owned
<1>3. ASSUME NEW t \in Slot, Owned(new, t), HasParent(t)
      PROVE  new[ParentSlot(t)].estado # "AVAILABLE"
  <2>1. CASE t = s
    <3> DEFINE p == ParentSlot(s)
    <3>1. HasParent(s) /\ p \in Slot /\ p # s
      BY <1>3, <2>1, Relatives
    <3>2. CASE p \in ShadowedBy(tb, s)
      BY <3>1, <3>2, <2>1 DEF Claim, ShadowStatus, Row
    <3>3. CASE p \notin ShadowedBy(tb, s)
      <4>1. tb[p].estado # "AVAILABLE"
        BY <3>1, <3>3 DEF ShadowedBy
      <4> QED
        BY <1>1, <2>1, <3>1, <4>1
    <3> QED
      BY <3>2, <3>3
  <2>2. CASE t # s
    BY <1>1, <1>2, <1>3, <2>2, Relatives DEF Shelters
  <2> QED
    BY <2>1, <2>2
<1>4. ASSUME NEW t \in Slot, Owned(new, t), ~ HasParent(t), NEW c \in ChildSlots(t)
      PROVE  new[c].estado # "AVAILABLE"
  <2>1. CASE t = s
    <3>1. c \in Slot /\ c # s /\ c \in ShadowedBy(tb, s)
      BY <1>4, <2>1, Relatives DEF ShadowedBy
    <3> QED
      BY <1>4, <2>1, <3>1 DEF Claim, ShadowStatus, Row
  <2>2. CASE t # s
    BY <1>1, <1>2, <1>4, <2>2, Relatives DEF Shelters
  <2> QED
    BY <2>1, <2>2
<1> QED
  BY <1>3, <1>4 DEF Shelters

\* A claim is refused when a space it is a part of, or a part of it, is owned
\* for a window that meets: under the same window its row is looked up, under
\* another one its shadow is an overlapping row that is not available.
LEMMA ClaimFamilySeparate ==
    ASSUME TwoLevelHierarchy,
           NEW tb \in [Slot -> Row], Booked(tb), Shelters(tb), FamilySeparate(tb),
           NEW s \in Slot, NEW r \in Reservation, Claimable(tb, s)
    PROVE  FamilySeparate(Claim(tb, s, r))
<1>1. ASSUME NEW t \in Slot, Owned(tb, t), Parent[s[1]] = t[1], Overlap(s[2], t[2])
      PROVE  FALSE
  <2> DEFINE u == <<s[1], t[2]>>
  <2>1. HasParent(s) /\ ~ HasParent(t)
    BY <1>1, SlotsAssumption DEF Slot, HasParent, TwoLevelHierarchy
  <2>2. CASE t[2] = s[2]
    <3>1. ParentSlot(s) = t
      BY <1>1, <2>2 DEF ParentSlot, Slot
    <3> QED
      BY <1>1, <2>1, <3>1 DEF Claimable, Booked, HardBlockStatuses
  <2>3. CASE t[2] # s[2]
    <3>1. u \in ChildSlots(t)
      BY <1>1 DEF ChildSlots, Slot
    <3>2. tb[u].estado # "AVAILABLE"
      BY <1>1, <2>1, <3>1 DEF Shelters
    <3>3. u \in Overlapping(s)
      BY <1>1, <2>3, OverlapSymmetric DEF Overlapping, Slot
    <3> QED
      BY <3>2, <3>3 DEF Claimable
  <2> QED
    BY <2>2, <2>3
<1>2. ASSUME NEW t \in Slot, Owned(tb, t), Parent[t[1]] = s[1], Overlap(t[2], s[2])
      PROVE  FALSE
  <2> DEFINE u == <<s[1], t[2]>>
  <2>1. HasParent(t) /\ ParentSlot(t) = u
    BY <1>2, SlotsAssumption DEF Slot, HasParent, ParentSlot
  <2>2. CASE t[2] = s[2]
    <3>1. t \in ChildSlots(s)
      BY <2>1, <2>2, Relatives DEF Slot
    <3> QED
      BY <1>2, <3>1 DEF Claimable, Booked, HardBlockStatuses
  <2>3. CASE t[2] # s[2]
    <3>1. tb[u].estado # "AVAILABLE"
      BY <1>2, <2>1 DEF Shelters
    <3>2. u \in Overlapping(s)
      BY <1>2, <2>3 DEF Overlapping, Slot
    <3> QED
      BY <3>1, <3>2 DEF Claimable
  <2> QED
    BY <2>2, <2>3
<1>3. Parent[s[1]] # s[1]
  BY SlotsAssumption DEF Slot
<1>4. \A t \in Slot : t # s /\ Owned(Claim(tb, s, r), t) => Owned(tb, t)
  BY ClaimFrame DEF Owned
<1> QED
  BY <1>1, <1>2, <1>3, <1>4 DEF FamilySeparate

\* The release of an owned row makes no relative of another owned row
\* available: the parent stays shadowed, because the released row itself is
\* still counted as active, and the children of a space without a parent are
\* relatives of no other space.
LEMMA ReleaseShelters ==
    ASSUME TwoLevelHierarchy,
           NEW tb \in [Slot -> Row], Booked(tb), Shelters(tb), FamilySeparate(tb),
           NEW s \in Slot, Owned(tb, s)
    PROVE  Shelters(Release(tb, s))
<1> DEFINE new == Release(tb, s)
<1>1. \A w \in Window : Overlap(w, w)
  BY SlotsAssumption DEF Overlap
<1>2. HasParent(s) => UnshadowedBy(tb, s) = {}
  BY Relatives DEF UnshadowedBy, ActiveChild, Booked
<1>3. ~ HasParent(s) => UnshadowedBy(tb, s) \subseteq ChildSlots(s)
  BY DEF UnshadowedBy
<1>4. ASSUME NEW t \in Slot, Owned(new, t), HasParent(t), new[ParentSlot(t)].estado = "AVAILABLE"
      PROVE  FALSE
  <2>1. t # s /\ Owned(tb, t) /\ ParentSlot(t) \in Slot
    BY <1>4, ReleaseFrame, Relatives DEF Owned
  <2>2. CASE ParentSlot(t) = s
    <3>1. Parent[t[1]] = s[1] /\ t[2] = s[2] /\ s[2] \in Window
      BY <2>2 DEF ParentSlot, Slot
    <3> QED
      BY <1>1, <2>1, <3>1 DEF FamilySeparate
  <2>3. CASE ParentSlot(t) # s
    <3>1. ParentSlot(t) \in UnshadowedBy(tb, s)
      BY <1>4, <2>1, <2>3, ReleaseFrame DEF Shelters
    <3>2. HasParent(ParentSlot(t))
      BY <1>2, <1>3, <2>1, <3>1, Relatives
    <3> QED
      BY <1>4, <3>2, SlotsAssumption DEF TwoLevelHierarchy, HasParent, ParentSlot, Slot
  <2> QED
    BY <2>2, <2>3
<1>5. ASSUME NEW t \in Slot, Owned(new, t), ~ HasParent(t),
             NEW c \in ChildSlots(t), new[c].estado = "AVAILABLE"
      PROVE  FALSE
  <2>1. t # s /\ Owned(tb, t) /\ c \in Slot /\ HasParent(c) /\ ParentSlot(c) = t
    BY <1>5, ReleaseFrame, Relatives DEF Owned
  <2>2. CASE c = s
    <3>1. Parent[s[1]] = t[1] /\ t[2] = s[2] /\ s[2] \in Window
      BY <2>1, <2>2 DEF ParentSlot, Slot
    <3> QED
      BY <1>1, <2>1, <3>1 DEF FamilySeparate
  <2>3. CASE c # s
    <3>1. c \in UnshadowedBy(tb, s)
      BY <1>5, <2>1, <2>3, ReleaseFrame DEF Shelters
    <3> QED
      BY <1>2, <1>3, <2>1, <3>1, Relatives
  <2> QED
    BY <2>2, <2>3
<1> QED
  BY <1>4, <1>5 DEF Shelters

\* A release keeps the owned rows of a space and its part from meeting.
LEMMA ReleaseFamilySeparate ==
    ASSUME NEW tb \in [Slot -> Row], FamilySeparate(tb), NEW s \in Slot
    PROVE  FamilySeparate(Release(tb, s))
<1>1. \A t \in Slot : Owned(Release(tb, s), t) => Owned(tb, t)
  BY ReleaseFrame DEF Owned
<1> QED
  BY <1>1 DEF FamilySeparate

\* A claim that is accepted keeps families apart and sheltered.
LEMMA ClaimFamilies ==
    ASSUME NEW tb \in [Slot -> Row], Booked(tb), Families(tb),
           NEW s \in Slot, NEW r \in Reservation, Claimable(tb, s)
    PROVE  Families(Claim(tb, s, r))
  BY ClaimShelters, ClaimFamilySeparate DEF Families

\* A release keeps families apart and sheltered.
LEMMA ReleaseFamilies ==
    ASSUME NEW tb \in [Slot -> Row], Booked(tb), Families(tb), NEW s \in Slot, Owned(tb, s)
    PROVE  Families(Release(tb, s))
  BY ReleaseShelters, ReleaseFamilySeparate DEF Families

-----------------------------------------------------------------------------
(* Types.                                                                  *)

\* Giving back a slot writes rows of the table's type.
LEMMA GiveBackType ==
    ASSUME NEW tb \in [Slot -> Row], NEW r
    PROVE  GiveBack(tb, r) \in [Slot -> Row]
  BY ReleaseType DEF GiveBack

\* The clean-up of a cancellation writes rows of the table's type.
LEMMA CleanUpType ==
    ASSUME NEW tb \in [Slot -> Row], NEW r
    PROVE  CleanUp(tb, r) \in [Slot -> Row]
  BY GiveBackType DEF CleanUp

\* One turn of the event cancellation writes rows of the table's type.
LEMMA CancelMemberType ==
    ASSUME NEW tb \in [Slot -> Row], NEW r
    PROVE  CancelMember(tb, r) \in [Slot -> Row]
  BY GiveBackType, CleanUpType DEF CancelMember

\* Every reachable state of the reservation and inventory tables is well typed,
\* and a reservation that exists has a slot.
THEOREM TypeCorrect == Spec => []TypeOK
<1>1. Init => TypeOK
  BY DEF Init, TypeOK, Row, SlotStatus, FreeRow, Exists
<1>2. TypeOK /\ [Next]_vars => TypeOK'
  <2> SUFFICES ASSUME TypeOK, [Next]_vars PROVE TypeOK'
    OBVIOUS
  <2> USE DEF TypeOK, Exists, Status
  <2>1. ASSUME NEW r \in Reservation, NEW s \in Slot, NEW g \in Reservation \cup {None},
               PostReservation(r, s, g)
        PROVE  TypeOK'
    <3>1. rows' \in [Slot -> Row]
      BY <2>1, ClaimType DEF PostReservation
    <3> QED
      BY <2>1, <3>1 DEF PostReservation
  <2>2. ASSUME NEW q \in Reservation, NEW r \in Reservation, NEW s \in Slot, NEW t \in Slot,
               PostEvent(q, r, s, t)
        PROVE  TypeOK'
    <3>1. Claim(rows, s, q) \in [Slot -> Row]
      BY <2>2, ClaimType
    <3>2. rows' \in [Slot -> Row]
      BY <2>2, <3>1, ClaimType DEF PostEvent
    <3> QED
      BY <2>2, <3>2 DEF PostEvent
  <2>3. ASSUME NEW r \in Reservation, TTLPasses(r)
        PROVE  TypeOK'
    BY <2>3 DEF TTLPasses
  <2>4. ASSUME NEW r \in Reservation, GenerateSlip(r)
        PROVE  TypeOK'
    BY <2>4 DEF GenerateSlip
  <2>5. ASSUME NEW selection \in SUBSET Reservation, BulkGenerateSlip(selection)
        PROVE  TypeOK'
    BY <2>5 DEF BulkGenerateSlip
  <2>6. ASSUME NEW r \in Reservation, NEW f \in File, UploadSlip(r, f)
        PROVE  TypeOK'
    BY <2>6 DEF UploadSlip
  <2>7. ASSUME NEW r \in Reservation, NEW f \in File, DeleteVoucher(r, f)
        PROVE  TypeOK'
    BY <2>7 DEF DeleteVoucher
  <2>8. ASSUME NEW r \in Reservation, ConfirmPayment(r)
        PROVE  TypeOK'
    <3>1. rows' \in [Slot -> Row]
      BY <2>8 DEF ConfirmPayment, Row, SlotStatus
    <3> QED
      BY <2>8, <3>1 DEF ConfirmPayment
  <2>9. ASSUME NEW r \in Reservation, RejectPayment(r)
        PROVE  TypeOK'
    BY <2>9, GiveBackType DEF RejectPayment
  <2>10. ASSUME NEW r \in Reservation, CancelSingle(r)
        PROVE  TypeOK'
    <3>1. rows' \in [Slot -> Row]
      BY <2>10, GiveBackType, CleanUpType DEF CancelSingle
    <3> QED
      BY <2>10, <3>1 DEF CancelSingle
  <2>11. ASSUME NEW q \in Reservation, NEW r \in Reservation, CancelEvent(q, r)
        PROVE  TypeOK'
    <3>1. rows' \in [Slot -> Row]
      <4>1. CancelMember(rows, q) \in [Slot -> Row]
        BY CancelMemberType
      <4>2. CancelMember(CancelMember(rows, q), r) \in [Slot -> Row]
        BY <4>1, CancelMemberType
      <4>3. rows' = IF q = r THEN CancelMember(rows, q)
                             ELSE CancelMember(CancelMember(rows, q), r)
        BY <2>11 DEF CancelEvent
      <4> QED
        BY <4>1, <4>2, <4>3
    <3>2. status' \in [Reservation -> Status \cup {"NONE"}]
      BY <2>11 DEF CancelEvent
    <3>3. trail' \in [Reservation -> Status \cup {"NONE"}]
      BY <2>11 DEF CancelEvent
    <3>4. \A m \in Reservation : status'[m] # "NONE" => status[m] # "NONE"
      BY <2>11 DEF CancelEvent, Expirable
    <3>5. \A m \in Reservation : status'[m] # "NONE" => slot'[m] \in Slot
      BY <2>11, <3>4 DEF CancelEvent
    <3>6. UNCHANGED <<slot, grp, frozen, due, vouchers, expediente, sweep>>
      BY <2>11 DEF CancelEvent
    <3> QED
      BY <3>1, <3>2, <3>3, <3>4, <3>5, <3>6
  <2>12. ASSUME SweepSelect PROVE TypeOK'
    BY <2>12 DEF SweepSelect
  <2>13. ASSUME NEW r \in Reservation, SweepOne(r)
        PROVE  TypeOK'
    <3>1. rows' \in [Slot -> Row]
      BY <2>13, GiveBackType DEF SweepOne
    <3> QED
      BY <2>13, <3>1 DEF SweepOne, Expirable
  <2>14. ASSUME SweepAbort PROVE TypeOK'
    BY <2>14 DEF SweepAbort
  <2>15. ASSUME NEW q \in Quote, NEW S \in SUBSET Slot, CreateQuote(q, S)
        PROVE  TypeOK'
    BY <2>15, HoldType DEF CreateQuote
  <2>16. ASSUME UNCHANGED vars PROVE TypeOK'
    BY <2>16 DEF vars
  <2> QED
    BY <2>1, <2>2, <2>3, <2>4, <2>5, <2>6, <2>7, <2>8, <2>9, <2>10, <2>11, <2>12,
       <2>13, <2>14, <2>15, <2>16 DEF Next, Create, Pay, Cancel, Sweep
<1> QED
  BY <1>1, <1>2, PTL DEF Spec

-----------------------------------------------------------------------------
(* The reservation table and the inventory table agree.  The invariant is  *)
(* stated about any two tables, because one action may take several steps  *)
(* (the two items of an event) and each of them keeps it.                  *)

LiveStatus == ActiveStatuses \cup {"CONFIRMED"}

\* tb: inventory rows; st, sl: status and slot of the reservations.
Linked(tb, st, sl) ==
    /\ tb \in [Slot -> Row]
    /\ st \in [Reservation -> Status \cup {"NONE"}]
    /\ sl \in [Reservation -> Slot \cup {None}]
    /\ \A r \in Reservation : st[r] # "NONE" => sl[r] \in Slot
    /\ \A s \in Slot : Owned(tb, s) =>
          st[tb[s].reservation_id] \in LiveStatus /\ sl[tb[s].reservation_id] = s
    /\ \A r \in Reservation : st[r] \in LiveStatus =>
          /\ tb[sl[r]].reservation_id = r
          /\ tb[sl[r]].estado =
                IF st[r] = "CONFIRMED" THEN "RESERVED" ELSE "TTL_BLOCKED"
    /\ Separate(tb)
    /\ Families(tb)

\* Owners are reservations, so their rows are in the states of a booking.
LEMMA LinkedBooked ==
    ASSUME NEW tb, NEW st, NEW sl, Linked(tb, st, sl)
    PROVE  Booked(tb)
  BY DEF Linked, Booked, Owned, Row

\* A new reservation of a claimable slot.
LEMMA NewReservation ==
    ASSUME NEW tb, NEW st, NEW sl, Linked(tb, st, sl),
           NEW r \in Reservation, st[r] = "NONE",
           NEW s \in Slot, Claimable(tb, s)
    PROVE  Linked(Claim(tb, s, r), [st EXCEPT ![r] = "PENDING_SLIP"], [sl EXCEPT ![r] = s])
<1> DEFINE new == Claim(tb, s, r)
           st2 == [st EXCEPT ![r] = "PENDING_SLIP"]
           sl2 == [sl EXCEPT ![r] = s]
<1> USE DEF LiveStatus, ActiveStatuses, Expirable, Status
<1>1. tb \in [Slot -> Row] /\ Booked(tb) /\ Separate(tb) /\ Families(tb)
  BY LinkedBooked DEF Linked
<1>2. new \in [Slot -> Row] /\ Separate(new) /\ Families(new)
  BY <1>1, ClaimType, ClaimSeparate, ClaimFamilies
<1>3. st2 \in [Reservation -> Status \cup {"NONE"}] /\ sl2 \in [Reservation -> Slot \cup {None}]
  BY DEF Linked
<1>4. ASSUME NEW q \in Reservation, st2[q] # "NONE" PROVE sl2[q] \in Slot
  BY <1>4 DEF Linked
<1>5. ASSUME NEW t \in Slot, Owned(new, t)
      PROVE  st2[new[t].reservation_id] \in LiveStatus /\ sl2[new[t].reservation_id] = t
  <2>1. CASE t = s
    BY <1>1, <2>1, ClaimFrame DEF Linked
  <2>2. CASE t # s
    <3>1. Owned(tb, t) /\ new[t].reservation_id = tb[t].reservation_id
      BY <1>1, <1>5, <2>2, ClaimFrame DEF Owned
    <3>2. tb[t].reservation_id \in Reservation /\ st[tb[t].reservation_id] \in LiveStatus
      BY <1>1, <3>1 DEF Linked, Owned, Row
    <3> QED
      BY <3>1, <3>2 DEF Linked
  <2> QED
    BY <2>1, <2>2
<1>6. ASSUME NEW q \in Reservation, st2[q] \in LiveStatus
      PROVE  /\ new[sl2[q]].reservation_id = q
             /\ new[sl2[q]].estado =
                   IF st2[q] = "CONFIRMED" THEN "RESERVED" ELSE "TTL_BLOCKED"
  <2>1. CASE q = r
    BY <1>1, <2>1, ClaimFrame DEF Linked
  <2>2. CASE q # r
    <3>1. /\ st2[q] = st[q] /\ sl2[q] = sl[q] /\ sl[q] \in Slot
          /\ tb[sl[q]].reservation_id = q
          /\ tb[sl[q]].estado = IF st[q] = "CONFIRMED" THEN "RESERVED" ELSE "TTL_BLOCKED"
      BY <1>6, <2>2 DEF Linked
    <3>2. Owned(tb, sl[q])
      BY <3>1, SlotsAssumption DEF Owned
    <3>3. new[sl[q]] = tb[sl[q]]
      BY <1>1, <3>1, <3>2, ClaimFrame
    <3> QED
      BY <3>1, <3>3
  <2> QED
    BY <2>1, <2>2
<1> QED
  BY <1>2, <1>3, <1>4, <1>5, <1>6 DEF Linked

\* An active reservation gives its slot back when it is cancelled or expires.
LEMMA EndReservation ==
    ASSUME NEW tb, NEW st, NEW sl, Linked(tb, st, sl),
           NEW r \in Reservation, st[r] \in ActiveStatuses, NEW end \in Terminal
    PROVE  /\ sl[r] \in Slot
           /\ tb[sl[r]].reservation_id = r
           /\ Linked(Release(tb, sl[r]), [st EXCEPT ![r] = end], sl)
<1> DEFINE new == Release(tb, sl[r])
           st2 == [st EXCEPT ![r] = end]
<1> USE DEF LiveStatus, ActiveStatuses, Expirable, Status, Terminal
<1>1. /\ sl[r] \in Slot /\ tb[sl[r]].reservation_id = r
      /\ tb \in [Slot -> Row] /\ Booked(tb) /\ Separate(tb) /\ Families(tb)
  BY LinkedBooked DEF Linked
<1>2. new \in [Slot -> Row] /\ Separate(new) /\ Families(new)
  <2>1. Owned(tb, sl[r])
    BY <1>1, SlotsAssumption DEF Owned
  <2> QED
    BY <1>1, <2>1, ReleaseType, ReleaseSeparate, ReleaseFamilies
<1>3. st2 \in [Reservation -> Status \cup {"NONE"}]
  BY DEF Linked
<1>4. ASSUME NEW t \in Slot, Owned(new, t)
      PROVE  st2[new[t].reservation_id] \in LiveStatus /\ sl[new[t].reservation_id] = t
  <2>1. t # sl[r] /\ Owned(tb, t) /\ new[t].reservation_id = tb[t].reservation_id
    BY <1>1, <1>4, ReleaseFrame DEF Owned
  <2>2. tb[t].reservation_id \in Reservation
    BY <1>1, <2>1 DEF Owned, Row
  <2>3. st[tb[t].reservation_id] \in LiveStatus /\ sl[tb[t].reservation_id] = t
    BY <2>1 DEF Linked
  <2> QED
    BY <2>1, <2>2, <2>3 DEF Linked
<1>5. ASSUME NEW q \in Reservation, st2[q] \in LiveStatus
      PROVE  /\ new[sl[q]].reservation_id = q
             /\ new[sl[q]].estado =
                   IF st2[q] = "CONFIRMED" THEN "RESERVED" ELSE "TTL_BLOCKED"
  <2>1. /\ q # r /\ st2[q] = st[q] /\ sl[q] \in Slot
        /\ tb[sl[q]].reservation_id = q
        /\ tb[sl[q]].estado = IF st[q] = "CONFIRMED" THEN "RESERVED" ELSE "TTL_BLOCKED"
    BY <1>5 DEF Linked
  <2>2. Owned(tb, sl[q]) /\ sl[q] # sl[r]
    BY <1>1, <2>1, SlotsAssumption DEF Owned
  <2>3. new[sl[q]] = tb[sl[q]]
    BY <1>1, <2>1, <2>2, ReleaseFrame
  <2> QED
    BY <2>1, <2>3
<1>6. \A q \in Reservation : st2[q] # "NONE" => sl[q] \in Slot
  BY DEF Linked
<1> QED
  BY <1>1, <1>2, <1>3, <1>4, <1>5, <1>6 DEF Linked

\* Slips and vouchers move active reservations among the active statuses.
LEMMA MoveReservations ==
    ASSUME NEW tb, NEW st, NEW sl, Linked(tb, st, sl),
           NEW st2 \in [Reservation -> Status \cup {"NONE"}],
           \A r \in Reservation :
              st2[r] = st[r] \/ (st[r] \in ActiveStatuses /\ st2[r] \in ActiveStatuses)
    PROVE  Linked(tb, st2, sl)
<1> USE DEF LiveStatus, ActiveStatuses, Expirable
<1>1. \A s \in Slot : Owned(tb, s) => tb[s].reservation_id \in Reservation
  BY DEF Linked, Owned, Row
<1> QED
  BY <1>1 DEF Linked

\* A payment is confirmed.
LEMMA ConfirmReservation ==
    ASSUME NEW tb, NEW st, NEW sl, Linked(tb, st, sl),
           NEW r \in Reservation, st[r] \in ActiveStatuses
    PROVE  /\ sl[r] \in Slot
           /\ tb[sl[r]].reservation_id = r
           /\ Linked([tb EXCEPT ![sl[r]].estado = "RESERVED"], [st EXCEPT ![r] = "CONFIRMED"], sl)
<1> DEFINE new == [tb EXCEPT ![sl[r]].estado = "RESERVED"]
           st2 == [st EXCEPT ![r] = "CONFIRMED"]
<1> USE DEF LiveStatus, ActiveStatuses, Expirable, Status
<1>1. sl[r] \in Slot /\ tb[sl[r]].reservation_id = r /\ tb \in [Slot -> Row] /\ Separate(tb)
  BY DEF Linked
<1>2. new \in [Slot -> Row]
  BY <1>1 DEF Row, SlotStatus
<1>3. \A t \in Slot :
        /\ new[t].reservation_id = tb[t].reservation_id
        /\ Owned(new, t) <=> Owned(tb, t)
        /\ t # sl[r] => new[t] = tb[t]
  BY <1>1 DEF Owned, Row
<1>4. new[sl[r]].estado = "RESERVED"
  BY <1>1 DEF Row
<1>5. Separate(new) /\ Families(new)
  <2>1. \A t \in Slot : new[t].estado = "AVAILABLE" => tb[t].estado = "AVAILABLE"
    BY <1>3, <1>4
  <2>2. Families(tb)
    BY DEF Linked
  <2> HIDE DEF new
  <2>3. Families(new)
    BY <1>3, <2>1, <2>2, FamilyFrame DEF Families
  <2> QED
    BY <1>1, <1>3, <2>3 DEF Separate
<1>6. \A t \in Slot : Owned(tb, t) => tb[t].reservation_id \in Reservation
  BY <1>1 DEF Owned, Row
<1>7. \A t \in Slot : Owned(new, t) =>
        st2[new[t].reservation_id] \in LiveStatus /\ sl[new[t].reservation_id] = t
  BY <1>3, <1>6 DEF Linked
<1>8. ASSUME NEW q \in Reservation, st2[q] \in LiveStatus
      PROVE  /\ new[sl[q]].reservation_id = q
             /\ new[sl[q]].estado =
                   IF st2[q] = "CONFIRMED" THEN "RESERVED" ELSE "TTL_BLOCKED"
  BY <1>1, <1>3, <1>4, <1>8 DEF Linked
<1>9. /\ st2 \in [Reservation -> Status \cup {"NONE"}]
      /\ \A q \in Reservation : st2[q] # "NONE" => sl[q] \in Slot
  BY DEF Linked
<1>10. sl \in [Reservation -> Slot \cup {None}]
  BY DEF Linked
<1> QED
  BY <1>1, <1>2, <1>5, <1>7, <1>8, <1>9, <1>10 DEF Linked

\* A quote holds slots.
LEMMA HoldSlots ==
    ASSUME NEW tb, NEW st, NEW sl, Linked(tb, st, sl),
           NEW S \in SUBSET Slot, NEW q \in Quote, Holdable(tb, S)
    PROVE  Linked(Hold(tb, S, q), st, sl)
<1> DEFINE new == Hold(tb, S, q)
<1>1. tb \in [Slot -> Row] /\ new \in [Slot -> Row]
  BY HoldType DEF Linked
<1>2. \A t \in Slot :
        /\ new[t].reservation_id = tb[t].reservation_id
        /\ Owned(new, t) <=> Owned(tb, t)
        /\ Owned(tb, t) => new[t] = tb[t]
  BY <1>1, HoldFrame DEF Owned
<1>3. Separate(new) /\ Families(new)
  <2>1. \A t \in Slot : new[t].estado = "AVAILABLE" => tb[t].estado = "AVAILABLE"
    BY <1>1, HoldFrame
  <2>2. Families(tb)
    BY DEF Linked
  <2>3. Families(new)
    BY <1>2, <2>1, <2>2, FamilyFrame DEF Families
  <2> QED
    BY <1>2, <2>3 DEF Separate, Linked
<1>4. ASSUME NEW r \in Reservation, st[r] \in LiveStatus
      PROVE  new[sl[r]] = tb[sl[r]]
  BY <1>2, <1>4, SlotsAssumption DEF Linked, Owned, LiveStatus, ActiveStatuses, Expirable
<1>5. \A t \in Slot : Owned(new, t) =>
        st[new[t].reservation_id] \in LiveStatus /\ sl[new[t].reservation_id] = t
  BY <1>2 DEF Linked
<1> QED
  BY <1>1, <1>3, <1>4, <1>5 DEF Linked

-----------------------------------------------------------------------------
(* The inductive invariant.                                                *)

IInv == TypeOK /\ Linked(rows, status, slot)

\* A turn of the cancellation loop: an expirable member gives its slot back, and
\* the cleanup that follows finds nothing more to do; for a terminal member
\* neither does anything, because no row carries its id.
LEMMA CancelMemberStep ==
    ASSUME NEW tb, NEW st, Linked(tb, st, slot),
           NEW r \in Reservation, st[r] = status[r],
           status[r] \in Expirable \cup Terminal
    PROVE  IF status[r] \in Expirable
           THEN Linked(CancelMember(tb, r), [st EXCEPT ![r] = "CANCELLED"], slot)
           ELSE CancelMember(tb, r) = tb
<1>1. slot[r] \in Slot /\ tb \in [Slot -> Row]
  BY DEF Linked, Expirable, Terminal
<1>2. CASE status[r] \in Expirable
  <2> DEFINE freed == Release(tb, slot[r])
  <2>1. tb[slot[r]].reservation_id = r /\ Linked(freed, [st EXCEPT ![r] = "CANCELLED"], slot)
    <3>1. st[r] \in ActiveStatuses /\ "CANCELLED" \in Terminal
      BY <1>2 DEF ActiveStatuses, Terminal
    <3> QED
      BY <3>1, EndReservation
  <2>2. freed[slot[r]].reservation_id # r
    BY <1>1, ReleaseFrame, SlotsAssumption DEF Owned
  <2>3. GiveBack(tb, r) = freed
    BY <2>1 DEF GiveBack
  <2>4. CleanUp(freed, r) = freed
    BY <2>2 DEF CleanUp, GiveBack
  <2>5. CancelMember(tb, r) = freed
    BY <1>2, <2>3, <2>4 DEF CancelMember
  <2> QED
    BY <1>2, <2>1, <2>5
<1>3. CASE status[r] \notin Expirable
  <2>1. tb[slot[r]].reservation_id # r
    <3>1. status[r] \notin LiveStatus
      BY <1>3 DEF LiveStatus, ActiveStatuses, Expirable, Terminal
    <3> QED
      BY <1>1, <3>1, SlotsAssumption DEF Linked, Owned
  <2> QED
    BY <1>3, <2>1 DEF CancelMember, CleanUp, GiveBack
<1> QED
  BY <1>2, <1>3

\* The invariant holds of the empty tables.
LEMMA InitIInv == Init => IInv
<1> SUFFICES ASSUME Init PROVE IInv
  OBVIOUS
<1>1. TypeOK
  BY DEF Init, TypeOK, Row, SlotStatus, FreeRow, Exists
<1>2. \A s \in Slot : ~ Owned(rows, s)
  BY DEF Init, Owned, FreeRow
<1>3. \A r \in Reservation : status[r] \notin LiveStatus
  BY DEF Init, LiveStatus, ActiveStatuses, Expirable
<1>4. Separate(rows) /\ Families(rows)
  BY <1>2 DEF Separate, Families, Shelters, FamilySeparate
<1> QED
  BY <1>1, <1>2, <1>3, <1>4 DEF IInv, Linked, TypeOK, Exists

\* Every committed transaction of Booking keeps the invariant.
LEMMA NextIInv == IInv /\ TypeOK' /\ [Next]_vars => IInv'
<1> SUFFICES ASSUME IInv, TypeOK', [Next]_vars PROVE Linked(rows', status', slot')
  BY DEF IInv, Linked, Separate, Families, Shelters, FamilySeparate, Owned
<1>0. Linked(rows, status, slot)
  BY DEF IInv
<1>1. ASSUME NEW r \in Reservation, NEW s \in Slot, NEW g \in Reservation \cup {None},
             PostReservation(r, s, g)
      PROVE  Linked(rows', status', slot')
  BY <1>0, <1>1, NewReservation DEF PostReservation
<1>2. ASSUME NEW q \in Reservation, NEW r \in Reservation, NEW s \in Slot, NEW t \in Slot,
             PostEvent(q, r, s, t)
      PROVE  Linked(rows', status', slot')
  <2> DEFINE tb == Claim(rows, s, q)
             st == [status EXCEPT ![q] = "PENDING_SLIP"]
             sl == [slot EXCEPT ![q] = s]
  <2>1. Linked(tb, st, sl)
    BY <1>0, <1>2, NewReservation DEF PostEvent
  <2>2. st[r] = "NONE" /\ Claimable(tb, t)
    BY <1>2 DEF PostEvent
  <2>3. Linked(Claim(tb, t, r), [st EXCEPT ![r] = "PENDING_SLIP"], [sl EXCEPT ![r] = t])
    BY <2>1, <2>2, NewReservation
  <2>4. /\ rows' = Claim(tb, t, r)
        /\ status' = [st EXCEPT ![r] = "PENDING_SLIP"]
        /\ slot' = [sl EXCEPT ![r] = t]
    BY <1>2 DEF PostEvent
  <2> QED
    BY <2>3, <2>4
<1>3. ASSUME NEW r \in Reservation, GenerateSlip(r)
      PROVE  Linked(rows', status', slot')
  <2>1. \A q \in Reservation : status'[q] = status[q]
            \/ (status[q] \in ActiveStatuses /\ status'[q] \in ActiveStatuses)
    BY <1>3 DEF GenerateSlip, Allowed, ActiveStatuses, Expirable, IInv, TypeOK
  <2> QED
    BY <1>0, <1>3, <2>1, MoveReservations DEF GenerateSlip, TypeOK
<1>4. ASSUME NEW selection \in SUBSET Reservation, BulkGenerateSlip(selection)
      PROVE  Linked(rows', status', slot')
  <2>1. \A q \in Reservation : status'[q] = status[q]
            \/ (status[q] \in ActiveStatuses /\ status'[q] \in ActiveStatuses)
    BY <1>4 DEF BulkGenerateSlip, ActiveStatuses, Expirable
  <2> QED
    BY <1>0, <1>4, <2>1, MoveReservations DEF BulkGenerateSlip, TypeOK
<1>5. ASSUME NEW r \in Reservation, NEW f \in File, UploadSlip(r, f)
      PROVE  Linked(rows', status', slot')
  <2>1. \A q \in Reservation : status'[q] = status[q]
            \/ (status[q] \in ActiveStatuses /\ status'[q] \in ActiveStatuses)
    BY <1>5 DEF UploadSlip, ActiveStatuses, Expirable, IInv, TypeOK
  <2> QED
    BY <1>0, <1>5, <2>1, MoveReservations DEF UploadSlip, TypeOK
<1>6. ASSUME NEW r \in Reservation, ConfirmPayment(r)
      PROVE  Linked(rows', status', slot')
  <2>1. status[r] \in ActiveStatuses
    BY <1>6 DEF ConfirmPayment, Allowed, ActiveStatuses, Expirable
  <2>2. /\ rows[slot[r]].reservation_id = r
        /\ Linked([rows EXCEPT ![slot[r]].estado = "RESERVED"],
                  [status EXCEPT ![r] = "CONFIRMED"], slot)
    BY <1>0, <2>1, ConfirmReservation
  <2> QED
    BY <1>6, <2>2 DEF ConfirmPayment, Holds
<1>7. ASSUME NEW r \in Reservation, RejectPayment(r)
      PROVE  Linked(rows', status', slot')
  <2>1. status[r] \in ActiveStatuses /\ "EXPIRED" \in Terminal
    BY <1>7 DEF RejectPayment, Allowed, ActiveStatuses, Expirable, Terminal
  <2>2. /\ rows[slot[r]].reservation_id = r
        /\ Linked(Release(rows, slot[r]), [status EXCEPT ![r] = "EXPIRED"], slot)
    BY <1>0, <2>1, EndReservation
  <2> QED
    BY <1>7, <2>2 DEF RejectPayment, GiveBack
<1>8. ASSUME NEW r \in Reservation, CancelSingle(r)
      PROVE  Linked(rows', status', slot')
  <2>1. CASE status[r] \in Expirable
    <3>1. status[r] \in ActiveStatuses /\ status[r] \notin Terminal /\ "CANCELLED" \in Terminal
      BY <2>1 DEF ActiveStatuses, Expirable, Terminal
    <3>2. /\ rows[slot[r]].reservation_id = r
          /\ Linked(Release(rows, slot[r]), [status EXCEPT ![r] = "CANCELLED"], slot)
      BY <1>0, <3>1, EndReservation
    <3> QED
      BY <1>8, <3>1, <3>2 DEF CancelSingle, GiveBack
  <2>2. CASE status[r] \in Terminal
    <3>1. status[r] \notin LiveStatus /\ status[r] # "NONE" /\ status[r] \notin Expirable
      BY <2>2 DEF LiveStatus, ActiveStatuses, Expirable, Terminal
    <3>2. rows[slot[r]].reservation_id # r
      BY <1>0, <3>1, SlotsAssumption DEF Linked, Owned
    <3> QED
      BY <1>0, <1>8, <3>1, <3>2 DEF CancelSingle, CleanUp, GiveBack
  <2> QED
    BY <1>8, <2>1, <2>2 DEF CancelSingle
<1>9. ASSUME NEW q \in Reservation, NEW r \in Reservation, CancelEvent(q, r)
      PROVE  Linked(rows', status', slot')
  <2> DEFINE tb == CancelMember(rows, q)
             st == IF status[q] \in Expirable
                   THEN [status EXCEPT ![q] = "CANCELLED"] ELSE status
  <2>1. /\ status[q] \in Expirable \cup Terminal
        /\ status[r] \in Expirable \cup Terminal
        /\ slot' = slot
        /\ rows' = IF q = r THEN tb ELSE CancelMember(tb, r)
    BY <1>9 DEF CancelEvent
  <2>2. \A m \in Reservation : status'[m] =
            IF m \in {q, r} /\ status[m] \in Expirable THEN "CANCELLED" ELSE status[m]
    BY <1>9 DEF CancelEvent
  <2>3. status \in [Reservation -> Status \cup {"NONE"}]
        /\ status' \in [Reservation -> Status \cup {"NONE"}]
    BY DEF IInv, TypeOK
  <2>4. Linked(tb, st, slot)
    BY <1>0, <2>1, CancelMemberStep
  <2>5. CASE q = r
    <3>1. status' = st
      BY <2>2, <2>3, <2>5
    <3> QED
      BY <2>1, <2>4, <2>5, <3>1
  <2>6. CASE q # r
    <3> DEFINE st2 == IF status[r] \in Expirable
                      THEN [st EXCEPT ![r] = "CANCELLED"] ELSE st
    <3>1. st[r] = status[r]
      BY <2>3, <2>6
    <3>2. Linked(CancelMember(tb, r), st2, slot)
      BY <2>1, <2>4, <3>1, CancelMemberStep
    <3>3. status' = st2
      BY <2>2, <2>3, <2>6
    <3> QED
      BY <2>1, <2>6, <3>2, <3>3
  <2> QED
    BY <2>5, <2>6
<1>10. ASSUME NEW r \in Reservation, SweepOne(r)
       PROVE  Linked(rows', status', slot')
  <2>1. CASE status[r] \in Expirable
    <3>1. status[r] \in ActiveStatuses /\ "EXPIRED" \in Terminal
      BY <2>1 DEF ActiveStatuses, Terminal
    <3>2. /\ rows[slot[r]].reservation_id = r
          /\ Linked(Release(rows, slot[r]), [status EXCEPT ![r] = "EXPIRED"], slot)
      BY <1>0, <3>1, EndReservation
    <3> QED
      BY <1>10, <2>1, <3>2 DEF SweepOne, GiveBack
  <2>2. CASE status[r] \notin Expirable
    BY <1>0, <1>10, <2>2 DEF SweepOne
  <2> QED
    BY <2>1, <2>2
<1>11. ASSUME NEW q \in Quote, NEW S \in SUBSET Slot, CreateQuote(q, S)
       PROVE  Linked(rows', status', slot')
  BY <1>0, <1>11, HoldSlots DEF CreateQuote
<1>12. ASSUME UNCHANGED <<rows, status, slot>>
       PROVE  Linked(rows', status', slot')
  BY <1>0, <1>12
<1> QED
  BY <1>1, <1>2, <1>3, <1>4, <1>5, <1>6, <1>7, <1>8, <1>9, <1>10, <1>11, <1>12
     DEF Next, Create, Pay, Cancel, Sweep, TTLPasses, DeleteVoucher, SweepSelect,
         SweepAbort, vars

\* The reservation table and the inventory agree in every reachable state.
THEOREM IInvAlways == Spec => []IInv
<1>1. Spec => []TypeOK
  BY TypeCorrect
<1>2. Init => IInv
  BY InitIInv
<1>3. IInv /\ TypeOK' /\ [Next]_vars => IInv'
  BY NextIInv
<1> QED
  BY <1>1, <1>2, <1>3, PTL DEF Spec

-----------------------------------------------------------------------------
(* Its consequences.                                                       *)

\* Whatever is cancelled, expired, rejected or shadowed, a row never keeps the
\* id of a reservation that is not live or that is for another slot.
THEOREM OwnersAlwaysLive == Spec => []OwnerConsistent
<1>1. IInv => OwnerConsistent
  BY DEF IInv, Linked, OwnerConsistent, Owned, Live, LiveStatus
<1> QED
  BY <1>1, IInvAlways, PTL

\* No release ever takes the row of a live reservation away.
THEOREM LiveAlwaysHolds == Spec => []LiveHoldsSlot
<1>1. IInv => LiveHoldsSlot
  BY DEF IInv, Linked, LiveHoldsSlot, Live, LiveStatus
<1> QED
  BY <1>1, IInvAlways, PTL

\* In any hierarchy, with any windows, no space is booked twice at a time.
THEOREM NeverDoubleBooked == Spec => []NoDoubleBooking
<1>1. IInv => NoDoubleBooking
  <2> SUFFICES ASSUME IInv, NEW q \in Reservation, NEW r \in Reservation,
                      q # r, Live(q), Live(r), slot[q][1] = slot[r][1]
               PROVE  ~ Overlap(slot[q][2], slot[r][2])
    BY DEF NoDoubleBooking
  <2>1. /\ slot[q] \in Slot /\ rows[slot[q]].reservation_id = q
        /\ slot[r] \in Slot /\ rows[slot[r]].reservation_id = r
    BY DEF IInv, Linked, Live, LiveStatus, ActiveStatuses, Expirable
  <2>2. Owned(rows, slot[q]) /\ Owned(rows, slot[r]) /\ slot[q] # slot[r]
    BY <2>1, SlotsAssumption DEF Owned
  <2> QED
    BY <2>1, <2>2 DEF IInv, Linked, Separate
<1> QED
  BY <1>1, IInvAlways, PTL

\* In a hierarchy of two levels, while a space is booked, neither its parent
\* nor a part of it is available for the same window.
THEOREM AlwaysSheltered ==
    ASSUME TwoLevelHierarchy
    PROVE  Spec => []Sheltered
<1>1. IInv => Sheltered
  BY DEF IInv, Linked, Families, Shelters, Sheltered, Owned
<1> QED
  BY <1>1, IInvAlways, PTL

\* In a hierarchy of two levels a space and a part of it are never booked for
\* windows that meet, equal or not.
THEOREM FamilyNeverShared ==
    ASSUME TwoLevelHierarchy
    PROVE  Spec => []FamilyExclusion
<1>1. IInv => FamilyExclusion
  <2> SUFFICES ASSUME IInv, NEW q \in Reservation, NEW r \in Reservation,
                      Live(q), Live(r), Parent[slot[q][1]] = slot[r][1]
               PROVE  ~ Overlap(slot[q][2], slot[r][2])
    BY DEF FamilyExclusion
  <2>1. /\ slot[q] \in Slot /\ rows[slot[q]].reservation_id = q
        /\ slot[r] \in Slot /\ rows[slot[r]].reservation_id = r
    BY DEF IInv, Linked, Live, LiveStatus, ActiveStatuses, Expirable
  <2>2. Owned(rows, slot[q]) /\ Owned(rows, slot[r])
    BY <2>1, SlotsAssumption DEF Owned
  <2> QED
    BY <2>1, <2>2 DEF IInv, Linked, Families, FamilySeparate
<1> QED
  BY <1>1, IInvAlways, PTL

-----------------------------------------------------------------------------
(* The rows a table operation spares.                                      *)

\* From tb to new, no held row and no row owned outside R is touched.
Spares(tb, new, R) ==
    \A s \in Slot :
        \/ tb[s].estado = "SOFT_HOLD"
        \/ Owned(tb, s) /\ tb[s].reservation_id \notin R
        => new[s] = tb[s]

\* Two operations in a row spare what both spare.
LEMMA SparesTransitive ==
    ASSUME NEW tb, NEW mid, NEW new, NEW R, Spares(tb, mid, R), Spares(mid, new, R)
    PROVE  Spares(tb, new, R)
  BY DEF Spares, Owned

\* A claim writes its own row, which is free, and shadows of rows nobody holds.
LEMMA ClaimSpares ==
    ASSUME NEW tb \in [Slot -> Row], Booked(tb),
           NEW s \in Slot, NEW r \in Reservation, Claimable(tb, s), NEW R
    PROVE  Spares(tb, Claim(tb, s, r), R)
<1>1. \A t \in ShadowedBy(tb, s) : tb[t].estado # "SOFT_HOLD"
  <2>1. CASE HasParent(s)
    BY <2>1 DEF ShadowedBy
  <2>2. CASE ~ HasParent(s)
    BY <2>2 DEF ShadowedBy, Claimable, HardBlockStatuses
  <2> QED
    BY <2>1, <2>2
<1>2. ASSUME NEW t \in Slot, tb[t].estado = "SOFT_HOLD"
      PROVE  Claim(tb, s, r)[t] = tb[t]
  BY <1>1, <1>2 DEF Claim, Claimable
<1>3. ASSUME NEW t \in Slot, Owned(tb, t)
      PROVE  Claim(tb, s, r)[t] = tb[t]
  BY <1>3, ClaimFrame
<1> QED
  BY <1>2, <1>3 DEF Spares

\* A table stays Booked when the row of r is given back, or nothing is.
LEMMA GiveBackSpares ==
    ASSUME NEW tb \in [Slot -> Row], Booked(tb),
           NEW r \in Reservation, slot[r] \in Slot, NEW R, r \in R
    PROVE  /\ GiveBack(tb, r) \in [Slot -> Row]
           /\ Booked(GiveBack(tb, r))
           /\ Spares(tb, GiveBack(tb, r), R)
<1> DEFINE s == slot[r]
           new == Release(tb, s)
<1>1. CASE tb[s].reservation_id # r
  BY <1>1 DEF GiveBack, Spares
<1>2. CASE tb[s].reservation_id = r
  <2>1. Owned(tb, s) /\ tb[s].estado # "SOFT_HOLD"
    BY <1>2, SlotsAssumption DEF Owned, Booked
  <2>2. \A t \in Slot : Owned(new, t) => Owned(tb, t) /\ new[t] = tb[t]
    BY ReleaseFrame DEF Owned
  <2>3. \A t \in Slot : tb[t].estado = "SOFT_HOLD" => new[t] = tb[t]
    BY <2>1 DEF Release, UnshadowedBy
  <2>4. \A t \in Slot : Owned(tb, t) /\ tb[t].reservation_id \notin R => new[t] = tb[t]
    BY <1>2, ReleaseFrame
  <2>5. GiveBack(tb, r) = new
    BY <1>2 DEF GiveBack
  <2> QED
    BY <2>2, <2>3, <2>4, <2>5, ReleaseType DEF Booked, Spares
<1> QED
  BY <1>1, <1>2

\* The clean-up of a cancellation touches no row but its own and its shadows.
LEMMA CleanUpSpares ==
    ASSUME NEW tb \in [Slot -> Row], Booked(tb),
           NEW r \in Reservation, slot[r] \in Slot, NEW R, r \in R
    PROVE  /\ CleanUp(tb, r) \in [Slot -> Row]
           /\ Booked(CleanUp(tb, r))
           /\ Spares(tb, CleanUp(tb, r), R)
<1>1. CASE tb[slot[r]].estado = "RESERVED"
  BY <1>1 DEF CleanUp, Spares
<1>2. CASE tb[slot[r]].estado # "RESERVED"
  BY <1>2, GiveBackSpares DEF CleanUp
<1> QED
  BY <1>1, <1>2

\* So does one turn of the loop over the members of an event.
LEMMA CancelMemberSpares ==
    ASSUME NEW tb \in [Slot -> Row], Booked(tb),
           NEW r \in Reservation, slot[r] \in Slot, NEW R, r \in R
    PROVE  /\ CancelMember(tb, r) \in [Slot -> Row]
           /\ Booked(CancelMember(tb, r))
           /\ Spares(tb, CancelMember(tb, r), R)
<1> DEFINE mid == IF status[r] \in Expirable THEN GiveBack(tb, r) ELSE tb
<1>1. mid \in [Slot -> Row] /\ Booked(mid) /\ Spares(tb, mid, R)
  BY GiveBackSpares DEF Spares
<1>2. /\ CleanUp(mid, r) \in [Slot -> Row]
      /\ Booked(CleanUp(mid, r))
      /\ Spares(mid, CleanUp(mid, r), R)
  BY <1>1, CleanUpSpares
<1> QED
  BY <1>1, <1>2, SparesTransitive DEF CancelMember

-----------------------------------------------------------------------------

Unconfirmed == {r \in Reservation : status[r] # "CONFIRMED"}

\* The one fact behind the two action properties below: whatever a step does,
\* it touches rows of unconfirmed reservations only, and no held row.
LEMMA StepSpares == IInv /\ [Next]_vars => Spares(rows, rows', Unconfirmed)
<1> SUFFICES ASSUME IInv, [Next]_vars PROVE Spares(rows, rows', Unconfirmed)
  OBVIOUS
<1>0. rows \in [Slot -> Row] /\ Booked(rows)
      /\ \A r \in Reservation : Exists(r) => slot[r] \in Slot
  BY LinkedBooked DEF IInv, TypeOK
<1> HIDE DEF IInv
<1>1. ASSUME NEW r \in Reservation, NEW s \in Slot, NEW g \in Reservation \cup {None},
             PostReservation(r, s, g)
      PROVE  Spares(rows, rows', Unconfirmed)
  BY <1>0, <1>1, ClaimSpares DEF PostReservation
<1>2. ASSUME NEW q \in Reservation, NEW r \in Reservation, NEW s \in Slot, NEW t \in Slot,
             PostEvent(q, r, s, t)
      PROVE  Spares(rows, rows', Unconfirmed)
  <2> DEFINE mid == Claim(rows, s, q)
  <2>1. Claimable(rows, s) /\ Claimable(mid, t) /\ rows' = Claim(mid, t, r)
    BY <1>2 DEF PostEvent
  <2>2. mid \in [Slot -> Row] /\ Spares(rows, mid, Unconfirmed)
    BY <1>0, <2>1, ClaimType, ClaimSpares
  <2>3. Booked(mid)
    BY <1>0, <2>1, ClaimFrame DEF Booked, Owned
  <2> HIDE DEF mid
  <2>4. Spares(mid, rows', Unconfirmed)
    BY <2>1, <2>2, <2>3, ClaimSpares
  <2> QED
    BY <2>2, <2>4, SparesTransitive
<1>3. ASSUME NEW r \in Reservation, ConfirmPayment(r)
      PROVE  Spares(rows, rows', Unconfirmed)
  <2>1. r \in Unconfirmed /\ slot[r] \in Slot
    BY <1>0, <1>3 DEF ConfirmPayment, Allowed, Unconfirmed
  <2>2. CASE Holds(r)
    <3>1. rows[slot[r]].estado # "SOFT_HOLD"
      BY <1>0, <2>1, <2>2, SlotsAssumption DEF Holds, Booked, Owned
    <3>2. \A t \in Slot : t # slot[r] => rows'[t] = rows[t]
      BY <1>0, <1>3, <2>1, <2>2 DEF ConfirmPayment
    <3> QED
      BY <2>1, <2>2, <3>1, <3>2 DEF Spares, Holds
  <2>3. CASE ~ Holds(r)
    BY <1>3, <2>3 DEF ConfirmPayment, Spares
  <2> QED
    BY <2>2, <2>3
<1>4. ASSUME NEW r \in Reservation, RejectPayment(r)
      PROVE  Spares(rows, rows', Unconfirmed)
  <2>1. r \in Unconfirmed /\ slot[r] \in Slot
    BY <1>0, <1>4 DEF RejectPayment, Allowed, Unconfirmed
  <2> QED
    BY <1>0, <1>4, <2>1, GiveBackSpares DEF RejectPayment
<1>5. ASSUME NEW r \in Reservation, CancelSingle(r)
      PROVE  Spares(rows, rows', Unconfirmed)
  <2>1. r \in Unconfirmed /\ slot[r] \in Slot
    BY <1>0, <1>5 DEF CancelSingle, Expirable, Terminal, Unconfirmed
  <2> QED
    <3>1. rows' = GiveBack(rows, r) \/ rows' = CleanUp(rows, r)
      BY <1>5 DEF CancelSingle
    <3>2. CASE rows' = GiveBack(rows, r)
      BY <1>0, <2>1, <3>2, GiveBackSpares
    <3>3. CASE rows' = CleanUp(rows, r)
      BY <1>0, <2>1, <3>3, CleanUpSpares
    <3> QED
      BY <3>1, <3>2, <3>3
<1>6. ASSUME NEW q \in Reservation, NEW r \in Reservation, CancelEvent(q, r)
      PROVE  Spares(rows, rows', Unconfirmed)
  <2> DEFINE mid == CancelMember(rows, q)
  <2>1. /\ status[q] \in Expirable \cup Terminal
        /\ status[r] \in Expirable \cup Terminal
        /\ rows' = IF q = r THEN mid ELSE CancelMember(mid, r)
    BY <1>6 DEF CancelEvent
  <2>2. q \in Unconfirmed /\ slot[q] \in Slot /\ r \in Unconfirmed /\ slot[r] \in Slot
    BY <1>0, <2>1 DEF Expirable, Terminal, Unconfirmed, Exists
  <2>3. mid \in [Slot -> Row] /\ Booked(mid) /\ Spares(rows, mid, Unconfirmed)
    BY <1>0, <2>2, CancelMemberSpares
  <2> HIDE DEF mid
  <2>4. Spares(mid, CancelMember(mid, r), Unconfirmed)
    BY <2>2, <2>3, CancelMemberSpares
  <2> QED
    BY <2>1, <2>3, <2>4, SparesTransitive
<1>7. ASSUME NEW r \in Reservation, SweepOne(r)
      PROVE  Spares(rows, rows', Unconfirmed)
  <2>1. CASE status[r] \in Expirable
    <3>1. r \in Unconfirmed /\ slot[r] \in Slot
      BY <1>0, <2>1 DEF Expirable, Unconfirmed, Exists
    <3> QED
      BY <1>0, <1>7, <2>1, <3>1, GiveBackSpares DEF SweepOne
  <2>2. CASE status[r] \notin Expirable
    BY <1>7, <2>2 DEF SweepOne, Spares
  <2> QED
    BY <2>1, <2>2
<1>8. ASSUME NEW q \in Quote, NEW S \in SUBSET Slot, CreateQuote(q, S)
      PROVE  Spares(rows, rows', Unconfirmed)
  <2>1. Holdable(rows, S) /\ rows' = Hold(rows, S, q)
    BY <1>8 DEF CreateQuote
  <2>2. \A t \in S : rows[t].estado # "SOFT_HOLD" /\ ~ Owned(rows, t)
    BY <2>1 DEF Holdable, FreeRow, Owned
  <2>3. \A t \in Slot : t \notin S => rows'[t] = rows[t]
    BY <1>0, <2>1 DEF Hold
  <2> QED
    BY <2>2, <2>3 DEF Spares
<1>9. ASSUME UNCHANGED rows
      PROVE  Spares(rows, rows', Unconfirmed)
  BY <1>9 DEF Spares
<1> QED
  BY <1>1, <1>2, <1>3, <1>4, <1>5, <1>6, <1>7, <1>8, <1>9
     DEF Next, Create, Pay, Cancel, Sweep, TTLPasses, GenerateSlip, BulkGenerateSlip,
         UploadSlip, DeleteVoucher, SweepSelect, SweepAbort, vars

\* No booking, release, confirmation or sweep touches a row that a quote holds.
THEOREM HoldsAlwaysStand == Spec => HoldStands
<1>1. IInv /\ [Next]_vars =>
        [\A s \in Slot : rows[s].estado = "SOFT_HOLD" => rows'[s] = rows[s]]_vars
  BY StepSpares DEF Spares
<1> QED
  BY <1>1, IInvAlways, PTL DEF Spec, HoldStands

\* Terminal and confirmed reservations keep their status, whatever happens.
LEMMA StatusIsFinal ==
    IInv /\ [Next]_vars =>
        \A r \in Reservation :
            status[r] \in Terminal \cup {"CONFIRMED"} => status'[r] = status[r]
<1> SUFFICES ASSUME IInv, [Next]_vars, NEW r \in Reservation,
                    status[r] \in Terminal \cup {"CONFIRMED"}
             PROVE  status'[r] = status[r]
  OBVIOUS
<1>0. status \in [Reservation -> Status \cup {"NONE"}]
  BY DEF IInv, TypeOK
<1> HIDE DEF IInv
<1> USE DEF Terminal, Expirable
<1>1. ASSUME Create PROVE status'[r] = status[r]
  BY <1>0, <1>1 DEF Create, PostReservation, PostEvent
<1>2. ASSUME NEW q \in Reservation, GenerateSlip(q) \/ ConfirmPayment(q) \/ RejectPayment(q)
      PROVE  status'[r] = status[r]
  BY <1>0, <1>2 DEF GenerateSlip, ConfirmPayment, RejectPayment, Allowed
<1>3. ASSUME NEW selection \in SUBSET Reservation, BulkGenerateSlip(selection)
      PROVE  status'[r] = status[r]
  BY <1>0, <1>3 DEF BulkGenerateSlip
<1>4. ASSUME NEW q \in Reservation, NEW f \in File, UploadSlip(q, f)
      PROVE  status'[r] = status[r]
  BY <1>0, <1>4 DEF UploadSlip
<1>5. ASSUME NEW q \in Reservation, CancelSingle(q)
      PROVE  status'[r] = status[r]
  BY <1>0, <1>5 DEF CancelSingle
<1>6. ASSUME NEW q \in Reservation, NEW m \in Reservation, CancelEvent(q, m)
      PROVE  status'[r] = status[r]
  BY <1>0, <1>6 DEF CancelEvent
<1>7. ASSUME NEW q \in Reservation, SweepOne(q)
      PROVE  status'[r] = status[r]
  BY <1>0, <1>7 DEF SweepOne
<1>8. ASSUME UNCHANGED status PROVE status'[r] = status[r]
  BY <1>8
<1> QED
  BY <1>1, <1>2, <1>3, <1>4, <1>5, <1>6, <1>7, <1>8
     DEF Next, Pay, Cancel, Sweep, TTLPasses, DeleteVoucher, SweepSelect, SweepAbort,
         CreateQuote, vars

\* A confirmed reservation is final, and so is its row.
THEOREM ConfirmedAlwaysFinal == Spec => ConfirmedIsFinal
<1>1. ASSUME IInv, [Next]_vars, NEW r \in Reservation, status[r] = "CONFIRMED"
      PROVE  status'[r] = "CONFIRMED" /\ rows'[slot[r]] = rows[slot[r]]
  <2>1. slot[r] \in Slot /\ rows[slot[r]].reservation_id = r
    BY <1>1 DEF IInv, Linked, LiveStatus
  <2>2. Owned(rows, slot[r]) /\ r \notin Unconfirmed
    BY <1>1, <2>1, SlotsAssumption DEF Owned, Unconfirmed
  <2>3. rows'[slot[r]] = rows[slot[r]]
    BY <1>1, <2>1, <2>2, StepSpares DEF Spares
  <2>4. status'[r] = "CONFIRMED"
    BY <1>1, StatusIsFinal
  <2> QED
    BY <2>3, <2>4
<1>2. IInv /\ [Next]_vars =>
        [\A r \in Reservation : status[r] = "CONFIRMED" =>
            status'[r] = "CONFIRMED" /\ rows'[slot[r]] = rows[slot[r]]]_vars
  BY <1>1
<1> QED
  BY <1>2, IInvAlways, PTL DEF Spec, ConfirmedIsFinal

\* The sweep leaves a selected id alone whose payment went under review since.
THEOREM SweepAlwaysSparesReviewed == Spec => SweepSparesReviewed
<1>1. ASSUME [Next]_vars, NEW r \in sweep,
             status[r] = "PAYMENT_UNDER_REVIEW", r \notin sweep'
      PROVE  status'[r] = status[r] /\ rows' = rows
  <2>1. CASE \E q \in Reservation : SweepOne(q)
    BY <1>1, <2>1 DEF SweepOne, Expirable
  <2>2. CASE SweepSelect \/ SweepAbort
    BY <1>1, <2>2 DEF SweepSelect, SweepAbort
  <2>3. CASE UNCHANGED sweep
    BY <1>1, <2>3
  <2> QED
    BY <1>1, <2>1, <2>2, <2>3
       DEF Next, Create, Pay, Cancel, Sweep, PostReservation, PostEvent, TTLPasses,
           GenerateSlip, BulkGenerateSlip, UploadSlip, DeleteVoucher, ConfirmPayment,
           RejectPayment, CancelSingle, CancelEvent, CreateQuote, vars
<1>2. [Next]_vars =>
        [\A r \in sweep : status[r] = "PAYMENT_UNDER_REVIEW" /\ r \notin sweep'
            => status'[r] = status[r] /\ rows' = rows]_vars
  BY <1>1
<1> QED
  BY <1>2, PTL DEF Spec, SweepSparesReviewed

-----------------------------------------------------------------------------
(* Events.                                                                 *)

\* A member of an event exists, and so does the reservation it is named by: a
\* new event never takes the name of an old one.
EventsNamed ==
    \A r \in Reservation : grp[r] # None => Exists(r) /\ Exists(grp[r])

EInv == IInv /\ EventsNamed /\ EventCancelsTogether

\* Every transaction keeps events named and cancelled as a whole.
LEMMA NextEvents == EInv /\ TypeOK' /\ [Next]_vars => EventsNamed' /\ EventCancelsTogether'
<1> SUFFICES ASSUME EInv, TypeOK', [Next]_vars
             PROVE  EventsNamed' /\ EventCancelsTogether'
  OBVIOUS
<1>0. /\ status \in [Reservation -> Status \cup {"NONE"}]
      /\ grp \in [Reservation -> Reservation \cup {None}]
      /\ EventsNamed /\ EventCancelsTogether
      /\ \A r \in Reservation : status[r] \in Terminal => status'[r] = status[r]
  BY StatusIsFinal DEF EInv, IInv, TypeOK
<1>1. /\ status' \in [Reservation -> Status \cup {"NONE"}]
      /\ grp' \in [Reservation -> Reservation \cup {None}]
  BY DEF TypeOK
<1> HIDE DEF EInv
\* Steps that keep the groups and cancel no member of one.
<1>2. ASSUME grp' = grp,
             \A r \in Reservation : Exists(r) => status'[r] # "NONE",
             \A r \in Reservation : grp[r] # None /\ status'[r] = "CANCELLED"
                                      => status[r] = "CANCELLED"
      PROVE  EventsNamed' /\ EventCancelsTogether'
  <2>1. EventsNamed'
    BY <1>0, <1>2 DEF EventsNamed, Exists
  <2>2. EventCancelsTogether'
    BY <1>0, <1>2 DEF EventCancelsTogether
  <2> QED
    BY <2>1, <2>2
<1>3. ASSUME NEW r \in Reservation, NEW s \in Slot, NEW g \in Reservation \cup {None},
             PostReservation(r, s, g)
      PROVE  EventsNamed' /\ EventCancelsTogether'
  <2>1. /\ status[r] = "NONE" /\ g \in {None, r}
        /\ status' = [status EXCEPT ![r] = "PENDING_SLIP"]
        /\ grp' = [grp EXCEPT ![r] = g]
    BY <1>3 DEF PostReservation
  <2>2. \A q \in Reservation : grp[q] # r
    BY <1>0, <2>1, SlotsAssumption DEF EventsNamed, Exists
  <2>3. EventsNamed'
    BY <1>0, <2>1 DEF EventsNamed, Exists
  <2>4. EventCancelsTogether'
    BY <1>0, <2>1, <2>2 DEF EventCancelsTogether
  <2> QED
    BY <2>3, <2>4
<1>4. ASSUME NEW q \in Reservation, NEW r \in Reservation, NEW s \in Slot, NEW t \in Slot,
             PostEvent(q, r, s, t)
      PROVE  EventsNamed' /\ EventCancelsTogether'
  <2>1. /\ status[q] = "NONE" /\ status[r] = "NONE"
        /\ status' = [status EXCEPT ![q] = "PENDING_SLIP", ![r] = "PENDING_SLIP"]
        /\ grp' = [grp EXCEPT ![q] = q, ![r] = q]
    BY <1>4 DEF PostEvent
  <2>2. \A m \in Reservation : grp[m] # q
    BY <1>0, <2>1, SlotsAssumption DEF EventsNamed, Exists
  <2>3. EventsNamed'
    BY <1>0, <2>1 DEF EventsNamed, Exists
  <2>4. EventCancelsTogether'
    BY <1>0, <2>1, <2>2 DEF EventCancelsTogether
  <2> QED
    BY <2>3, <2>4
<1>5. ASSUME NEW q \in Reservation, NEW r \in Reservation, CancelEvent(q, r)
      PROVE  EventsNamed' /\ EventCancelsTogether'
  <2>1. /\ grp' = grp /\ grp[q] # None
        /\ \A m \in Event(q) : status[m] \in Expirable \cup Terminal
        /\ \A m \in Reservation : status'[m] =
              IF m \in Event(q) /\ status[m] \in Expirable THEN "CANCELLED" ELSE status[m]
    BY <1>5 DEF CancelEvent
  <2>2. \A m \in Reservation : m \in Event(q) <=> grp[m] = grp[q]
    BY <2>1 DEF Event
  <2>3. EventsNamed'
    BY <1>0, <2>1 DEF EventsNamed, Exists
  <2>4. \A m \in Event(q) : m \in Reservation => status'[m] \in Terminal
    BY <2>1 DEF Terminal
  <2>5. EventCancelsTogether'
    <3> SUFFICES ASSUME NEW m \in Reservation, NEW n \in Reservation,
                        status'[m] = "CANCELLED", grp[m] # None, grp[n] = grp[m]
                 PROVE  status'[n] \in Terminal
      BY <2>1 DEF EventCancelsTogether
    <3>1. CASE m \in Event(q)
      BY <2>2, <2>4, <3>1
    <3>2. CASE m \notin Event(q)
      BY <1>0, <2>1, <3>2 DEF EventCancelsTogether
    <3> QED
      BY <3>1, <3>2
  <2> QED
    BY <2>3, <2>5
<1>6. ASSUME NEW r \in Reservation, CancelSingle(r)
      PROVE  EventsNamed' /\ EventCancelsTogether'
  BY <1>0, <1>2, <1>6 DEF CancelSingle, Exists
<1>7. ASSUME NEW r \in Reservation, GenerateSlip(r) \/ ConfirmPayment(r) \/ RejectPayment(r)
      PROVE  EventsNamed' /\ EventCancelsTogether'
  BY <1>0, <1>2, <1>7 DEF GenerateSlip, ConfirmPayment, RejectPayment, Exists
<1>8. ASSUME NEW selection \in SUBSET Reservation, BulkGenerateSlip(selection)
      PROVE  EventsNamed' /\ EventCancelsTogether'
  BY <1>0, <1>2, <1>8 DEF BulkGenerateSlip, Exists
<1>9. ASSUME NEW r \in Reservation, NEW f \in File, UploadSlip(r, f)
      PROVE  EventsNamed' /\ EventCancelsTogether'
  BY <1>0, <1>2, <1>9 DEF UploadSlip, Exists
<1>10. ASSUME NEW r \in Reservation, SweepOne(r)
       PROVE  EventsNamed' /\ EventCancelsTogether'
  BY <1>0, <1>2, <1>10 DEF SweepOne, Exists
<1>11. ASSUME UNCHANGED <<status, grp>>
       PROVE  EventsNamed' /\ EventCancelsTogether'
  BY <1>0, <1>2, <1>11 DEF Exists
<1> QED
  BY <1>3, <1>4, <1>5, <1>6, <1>7, <1>8, <1>9, <1>10, <1>11
     DEF Next, Create, Pay, Cancel, Sweep, TTLPasses, DeleteVoucher, SweepSelect,
         SweepAbort, CreateQuote, vars

\* An event, of the one or two items PostEvent creates, is cancelled as a whole
\* or not at all, however many events and reservations there are.
THEOREM EventsAlwaysCancelTogether == Spec => []EventCancelsTogether
<1>1. Init => EventsNamed /\ EventCancelsTogether
  BY DEF Init, EventsNamed, EventCancelsTogether
<1>2. IInv /\ EventsNamed /\ EventCancelsTogether /\ TypeOK' /\ [Next]_vars
        => EventsNamed' /\ EventCancelsTogether'
  BY NextEvents DEF EInv
<1> QED
  BY <1>1, <1>2, IInvAlways, TypeCorrect, PTL DEF Spec

-----------------------------------------------------------------------------
(* The audit log.                                                          *)

\* The sweep selects ids whose TTL has run out, and these exist.
SweepIsDue == sweep \subseteq due /\ \A r \in due : Exists(r)

\* Whatever a transaction writes, the last audit record of a reservation says
\* its status, or is the sweep's about an id that is due.
LEMMA NextAudit ==
    TypeOK /\ SweepIsDue /\ AuditErrsOnlyBySweep /\ [Next]_vars
        => SweepIsDue' /\ AuditErrsOnlyBySweep'
<1> SUFFICES ASSUME TypeOK, SweepIsDue, AuditErrsOnlyBySweep, [Next]_vars
             PROVE  SweepIsDue' /\ AuditErrsOnlyBySweep'
  OBVIOUS
<1>0. /\ status \in [Reservation -> Status \cup {"NONE"}]
      /\ trail \in [Reservation -> Status \cup {"NONE"}]
      /\ due \subseteq Reservation
  BY DEF TypeOK
<1> USE DEF SweepIsDue, AuditErrsOnlyBySweep, Exists
<1>1. CASE Create
  BY <1>0, <1>1 DEF Create, PostReservation, PostEvent
<1>2. CASE Pay
  <2>1. ASSUME NEW r \in Reservation, GenerateSlip(r) \/ ConfirmPayment(r) \/ RejectPayment(r)
        PROVE  SweepIsDue' /\ AuditErrsOnlyBySweep'
    BY <1>0, <2>1 DEF GenerateSlip, ConfirmPayment, RejectPayment
  <2>2. ASSUME NEW selection \in SUBSET Reservation, BulkGenerateSlip(selection)
        PROVE  SweepIsDue' /\ AuditErrsOnlyBySweep'
    BY <1>0, <2>2 DEF BulkGenerateSlip
  <2>3. ASSUME NEW r \in Reservation, NEW f \in File, UploadSlip(r, f) \/ DeleteVoucher(r, f)
        PROVE  SweepIsDue' /\ AuditErrsOnlyBySweep'
    BY <1>0, <2>3 DEF UploadSlip, DeleteVoucher
  <2> QED
    BY <1>2, <2>1, <2>2, <2>3 DEF Pay
<1>3. CASE Cancel
  BY <1>0, <1>3 DEF Cancel, CancelSingle, CancelEvent
<1>4. CASE Sweep
  BY <1>0, <1>4 DEF Sweep, SweepSelect, SweepOne, SweepAbort
<1>5. ASSUME NEW r \in Reservation, TTLPasses(r)
      PROVE  SweepIsDue' /\ AuditErrsOnlyBySweep'
  BY <1>0, <1>5 DEF TTLPasses
<1>6. ASSUME UNCHANGED <<status, due, sweep, trail>>
      PROVE  SweepIsDue' /\ AuditErrsOnlyBySweep'
  BY <1>6
<1> QED
  BY <1>1, <1>2, <1>3, <1>4, <1>5, <1>6 DEF Next, CreateQuote, vars

\* The audit log never has a wrong last word about a reservation but for the
\* EXPIRED that the sweep writes about an id it then left alone.
THEOREM AuditAlwaysErrsOnlyBySweep == Spec => []AuditErrsOnlyBySweep
<1>1. Init => SweepIsDue /\ AuditErrsOnlyBySweep
  BY DEF Init, SweepIsDue, AuditErrsOnlyBySweep
<1> QED
  BY <1>1, NextAudit, TypeCorrect, PTL DEF Spec

-----------------------------------------------------------------------------
(* The ledger.                                                             *)

\* The rows keep live reservations apart as the ledger wants its entries.
LEMMA EntriesCompatible ==
    ASSUME TwoLevelHierarchy, IInv
    PROVE  Ledger!Compatible(Entries)
<1> SUFFICES ASSUME NEW q \in Reservation, NEW r \in Reservation, Live(q), Live(r),
                    <<q, slot[q]>> # <<r, slot[r]>>
             PROVE  q # r /\ ~ Conflict(slot[q], slot[r])
  BY DEF Ledger!Compatible, Entries
<1>1. /\ slot[q] \in Slot /\ Owned(rows, slot[q]) /\ rows[slot[q]].reservation_id = q
      /\ slot[r] \in Slot /\ Owned(rows, slot[r]) /\ rows[slot[r]].reservation_id = r
  BY SlotsAssumption DEF IInv, Linked, Owned, Live, LiveStatus, ActiveStatuses, Expirable
<1>2. slot[q] # slot[r]
  BY <1>1
<1>3. Separate(rows) /\ FamilySeparate(rows)
  BY DEF IInv, Linked, Families
<1>4. Overlap(slot[q][2], slot[r][2]) => Overlap(slot[r][2], slot[q][2])
  BY DEF Overlap
<1> QED
  BY <1>1, <1>2, <1>3, <1>4 DEF Conflict, Separate, FamilySeparate

\* A step that takes, confirms and ends no reservation shows in no entry.
LEMMA LedgerStutters ==
    ASSUME slot' = slot,
           \A r \in Reservation : Live(r)' <=> Live(r),
           \A r \in Reservation : status'[r] = "CONFIRMED" <=> status[r] = "CONFIRMED"
    PROVE  UNCHANGED <<Entries, Confirmed>>
  BY DEF Entries, Confirmed

\* Ending reservations that are not confirmed takes their entries away.
LEMMA LedgerGivesUp ==
    ASSUME NEW q \in Reservation, NEW r \in Reservation,
           Live(q), Live(r), status[q] # "CONFIRMED", status[r] # "CONFIRMED",
           slot' = slot,
           \A m \in Reservation : Live(m)' <=> Live(m) /\ m \notin {q, r},
           \A m \in Reservation : status'[m] = "CONFIRMED" <=> status[m] = "CONFIRMED"
    PROVE  Ledger!LNext
<1> DEFINE a == <<q, slot[q]>>
           b == <<r, slot[r]>>
<1>1. a \in Entries /\ b \in Entries
  BY DEF Entries
<1>2. Entries' = Entries \ {a, b}
  BY DEF Entries
<1>3. Confirmed' = Confirmed /\ q \notin Confirmed /\ r \notin Confirmed
  BY DEF Confirmed
<1>4. Ledger!GiveUp({a, b})
  BY <1>1, <1>2, <1>3 DEF Ledger!GiveUp
<1> QED
  BY <1>1, <1>4 DEF Ledger!LNext

\* Every transaction is a step of the ledger, or does not show in it.
LEMMA LedgerStep ==
    ASSUME TypeOK, Ledger!Compatible(Entries)', [Next]_vars
    PROVE  Ledger!LNext \/ UNCHANGED <<Entries, Confirmed>>
<1>0. /\ status \in [Reservation -> Status \cup {"NONE"}]
      /\ slot \in [Reservation -> Slot \cup {None}]
      /\ Ledger!Compatible(Entries')
  BY DEF TypeOK, Ledger!Compatible
<1> USE DEF Live, ActiveStatuses, Expirable
<1>1. ASSUME NEW r \in Reservation, NEW s \in Slot, NEW g \in Reservation \cup {None},
             PostReservation(r, s, g)
      PROVE  Ledger!LNext
  <2>1. /\ status[r] = "NONE"
        /\ status' = [status EXCEPT ![r] = "PENDING_SLIP"]
        /\ slot' = [slot EXCEPT ![r] = s]
    BY <1>1 DEF PostReservation
  <2>2. Entries' = Entries \cup {<<r, s>>} /\ <<r, s>> \notin Entries
    BY <1>0, <2>1 DEF Entries
  <2>3. Confirmed' = Confirmed
    BY <1>0, <2>1 DEF Confirmed
  <2>4. Ledger!Take({<<r, s>>, <<r, s>>})
    BY <1>0, <2>2, <2>3 DEF Ledger!Take, Ledger!Compatible
  <2> QED
    BY <2>4 DEF Ledger!LNext
<1>2. ASSUME NEW q \in Reservation, NEW r \in Reservation, NEW s \in Slot, NEW t \in Slot,
             PostEvent(q, r, s, t)
      PROVE  Ledger!LNext
  <2>1. /\ q # r /\ status[q] = "NONE" /\ status[r] = "NONE"
        /\ status' = [status EXCEPT ![q] = "PENDING_SLIP", ![r] = "PENDING_SLIP"]
        /\ slot' = [slot EXCEPT ![q] = s, ![r] = t]
    BY <1>2 DEF PostEvent
  <2>2. /\ Entries' = Entries \cup {<<q, s>>, <<r, t>>}
        /\ <<q, s>> \notin Entries /\ <<r, t>> \notin Entries
    BY <1>0, <2>1 DEF Entries
  <2>3. Confirmed' = Confirmed
    BY <1>0, <2>1 DEF Confirmed
  <2>4. Ledger!Take({<<q, s>>, <<r, t>>})
    BY <1>0, <2>2, <2>3 DEF Ledger!Take, Ledger!Compatible
  <2> QED
    BY <2>4 DEF Ledger!LNext
<1>3. ASSUME NEW r \in Reservation, ConfirmPayment(r)
      PROVE  Ledger!LNext
  <2>1. /\ status[r] = "PAYMENT_UNDER_REVIEW" /\ slot' = slot
        /\ status' = [status EXCEPT ![r] = "CONFIRMED"]
    BY <1>3 DEF ConfirmPayment, Allowed
  <2>2. Entries' = Entries /\ <<r, slot[r]>> \in Entries
    BY <1>0, <2>1 DEF Entries
  <2>3. Confirmed' = Confirmed \cup {r} /\ r \notin Confirmed
    BY <1>0, <2>1 DEF Confirmed
  <2>4. Ledger!Seal(<<r, slot[r]>>)
    BY <2>2, <2>3 DEF Ledger!Seal
  <2> QED
    BY <2>2, <2>4 DEF Ledger!LNext
<1>4. ASSUME NEW r \in Reservation, RejectPayment(r)
      PROVE  Ledger!LNext
  <2>1. /\ status[r] = "PAYMENT_UNDER_REVIEW" /\ slot' = slot
        /\ status' = [status EXCEPT ![r] = "EXPIRED"]
    BY <1>4 DEF RejectPayment, Allowed
  <2> QED
    BY <1>0, <2>1, LedgerGivesUp
<1>5. ASSUME NEW r \in Reservation, CancelSingle(r) \/ SweepOne(r)
      PROVE  Ledger!LNext \/ UNCHANGED <<Entries, Confirmed>>
  <2>1. CASE status' = status /\ slot' = slot
    BY <2>1, LedgerStutters
  <2>2. CASE /\ status[r] \in Expirable /\ slot' = slot
             /\ status'[r] \in Terminal
             /\ status' = [status EXCEPT ![r] = status'[r]]
    BY <1>0, <2>2, LedgerGivesUp DEF Terminal
  <2> QED
    BY <1>0, <1>5, <2>1, <2>2 DEF CancelSingle, SweepOne, Terminal
<1>6. ASSUME NEW q \in Reservation, NEW r \in Reservation, CancelEvent(q, r)
      PROVE  Ledger!LNext \/ UNCHANGED <<Entries, Confirmed>>
  <2>1. /\ slot' = slot
        /\ {q, r} \subseteq Event(q) /\ Event(q) \subseteq {q, r}
        /\ \A m \in {q, r} : status[m] \in Expirable \cup Terminal
        /\ \A m \in Reservation : status'[m] =
              IF m \in {q, r} /\ status[m] \in Expirable THEN "CANCELLED" ELSE status[m]
    BY <1>6 DEF CancelEvent
  <2> USE DEF Terminal
  <2>2. CASE status[q] \in Expirable /\ status[r] \in Expirable
    BY <1>0, <2>1, <2>2, LedgerGivesUp
  <2>3. CASE status[q] \in Expirable /\ status[r] \notin Expirable
    <3>1. \A m \in Reservation : Live(m)' <=> Live(m) /\ m \notin {q, q}
      BY <1>0, <2>1, <2>3
    <3> QED
      BY <1>0, <2>1, <2>3, <3>1, LedgerGivesUp
  <2>4. CASE status[q] \notin Expirable /\ status[r] \in Expirable
    <3>1. \A m \in Reservation : Live(m)' <=> Live(m) /\ m \notin {r, r}
      BY <1>0, <2>1, <2>4
    <3> QED
      BY <1>0, <2>1, <2>4, <3>1, LedgerGivesUp
  <2>5. CASE status[q] \notin Expirable /\ status[r] \notin Expirable
    BY <1>0, <2>1, <2>5, LedgerStutters
  <2> QED
    BY <2>2, <2>3, <2>4, <2>5
<1>7. ASSUME NEW r \in Reservation, GenerateSlip(r)
      PROVE  UNCHANGED <<Entries, Confirmed>>
  BY <1>0, <1>7, LedgerStutters DEF GenerateSlip, Allowed
<1>8. ASSUME NEW selection \in SUBSET Reservation, BulkGenerateSlip(selection)
      PROVE  UNCHANGED <<Entries, Confirmed>>
  BY <1>0, <1>8, LedgerStutters DEF BulkGenerateSlip
<1>9. ASSUME NEW r \in Reservation, NEW f \in File, UploadSlip(r, f)
      PROVE  UNCHANGED <<Entries, Confirmed>>
  BY <1>0, <1>9, LedgerStutters DEF UploadSlip
<1>10. ASSUME UNCHANGED <<status, slot>>
       PROVE  UNCHANGED <<Entries, Confirmed>>
  BY <1>10, LedgerStutters
<1> QED
  BY <1>1, <1>2, <1>3, <1>4, <1>5, <1>6, <1>7, <1>8, <1>9, <1>10
     DEF Next, Create, Pay, Cancel, Sweep, TTLPasses, DeleteVoucher, SweepSelect,
         SweepAbort, CreateQuote, vars

\* In a hierarchy of two levels the application implements the ledger: what a
\* user is told of the slots never depends on rows, shadows, sweeps or events.
THEOREM LedgerImplemented ==
    ASSUME TwoLevelHierarchy
    PROVE  Spec => ImplementsLedger
<1>1. Init => Ledger!LInit
  BY DEF Init, Ledger!LInit, Entries, Confirmed, Live, ActiveStatuses, Expirable
<1>2. IInv => TypeOK /\ Ledger!Compatible(Entries)
  BY EntriesCompatible DEF IInv
<1>3. TypeOK /\ Ledger!Compatible(Entries)' /\ [Next]_vars => [Ledger!LNext]_(Ledger!lvars)
  BY LedgerStep DEF Ledger!lvars
<1> QED
  BY <1>1, <1>2, <1>3, IInvAlways, PTL DEF Spec, ImplementsLedger, Ledger!LSpec

-----------------------------------------------------------------------------
(* What readers are shown of the inventory.                                *)

\* A shadow lies on the row of a relative, and a RESERVED row has an owner.
Placed(tb) ==
    \A s \in Slot :
        /\ tb[s].estado = "BLOCKED_BY_PARENT" => HasParent(s)
        /\ tb[s].estado = "BLOCKED_BY_CHILD" => ChildSlots(s) # {}
        /\ tb[s].estado = "RESERVED" => Owned(tb, s)

\* A claim casts its shadows on relatives.
LEMMA ClaimPlaced ==
    ASSUME NEW tb \in [Slot -> Row], Placed(tb),
           NEW s \in Slot, NEW r \in Reservation, Claimable(tb, s)
    PROVE  Placed(Claim(tb, s, r))
<1> DEFINE new == Claim(tb, s, r)
<1>1. new[s].estado = "TTL_BLOCKED"
  BY DEF Claim, Row
<1>2. ASSUME NEW t \in Slot, t # s, t \in ShadowedBy(tb, s)
      PROVE  /\ new[t].estado = "BLOCKED_BY_PARENT" => HasParent(t)
             /\ new[t].estado = "BLOCKED_BY_CHILD" => ChildSlots(t) # {}
             /\ new[t].estado # "RESERVED"
  <2>1. new[t].estado = ShadowStatus(s)
    BY <1>2 DEF Claim, Row
  <2>2. IF HasParent(s) THEN t = ParentSlot(s) ELSE t \in ChildSlots(s)
    BY <1>2 DEF ShadowedBy
  <2> QED
    BY <2>1, <2>2, Relatives DEF ShadowStatus
<1>3. ASSUME NEW t \in Slot, t # s, t \notin ShadowedBy(tb, s)
      PROVE  new[t] = tb[t]
  BY <1>3 DEF Claim
<1> QED
  BY <1>1, <1>2, <1>3 DEF Placed, Owned

\* A release takes shadows away and casts none.
LEMMA ReleasePlaced ==
    ASSUME NEW tb \in [Slot -> Row], Placed(tb), NEW s \in Slot
    PROVE  Placed(Release(tb, s))
<1> DEFINE new == Release(tb, s)
<1>1. \A t \in Slot : new[t].estado = "AVAILABLE" \/ new[t] = tb[t]
  BY DEF Release, Row
<1> QED
  BY <1>1 DEF Placed, Owned

\* So does giving the slot of a reservation back.
LEMMA GiveBackPlaced ==
    ASSUME NEW tb \in [Slot -> Row], Placed(tb), NEW r, slot[r] \in Slot
    PROVE  Placed(GiveBack(tb, r)) /\ Placed(CleanUp(tb, r))
  BY ReleasePlaced DEF GiveBack, CleanUp

\* Every transaction keeps shadows and reservations where they belong.
LEMMA NextPlaced == IInv /\ Placed(rows) /\ [Next]_vars => Placed(rows')
<1> SUFFICES ASSUME IInv, Placed(rows), [Next]_vars PROVE Placed(rows')
  OBVIOUS
<1>0. /\ rows \in [Slot -> Row]
      /\ \A r \in Reservation : Exists(r) => slot[r] \in Slot
      /\ \A r \in Reservation : Live(r) => rows[slot[r]].reservation_id = r
  BY DEF IInv, TypeOK, Linked, Live, LiveStatus
<1> HIDE DEF IInv
<1>1. ASSUME NEW r \in Reservation, NEW s \in Slot, NEW g \in Reservation \cup {None},
             PostReservation(r, s, g)
      PROVE  Placed(rows')
  BY <1>0, <1>1, ClaimPlaced DEF PostReservation
<1>2. ASSUME NEW q \in Reservation, NEW r \in Reservation, NEW s \in Slot, NEW t \in Slot,
             PostEvent(q, r, s, t)
      PROVE  Placed(rows')
  <2> DEFINE mid == Claim(rows, s, q)
  <2>1. Claimable(rows, s) /\ Claimable(mid, t) /\ rows' = Claim(mid, t, r)
    BY <1>2 DEF PostEvent
  <2>2. mid \in [Slot -> Row] /\ Placed(mid)
    BY <1>0, <2>1, ClaimType, ClaimPlaced
  <2> HIDE DEF mid
  <2> QED
    BY <2>1, <2>2, ClaimPlaced
<1>3. ASSUME NEW r \in Reservation, ConfirmPayment(r)
      PROVE  Placed(rows')
  <2>1. slot[r] \in Slot
    BY <1>0, <1>3 DEF ConfirmPayment
  <2>2. CASE Holds(r)
    <3>1. /\ rows'[slot[r]].estado = "RESERVED"
          /\ rows'[slot[r]].reservation_id = r
          /\ \A t \in Slot : t # slot[r] => rows'[t] = rows[t]
      BY <1>0, <1>3, <2>1, <2>2 DEF ConfirmPayment, Holds, Row
    <3> QED
      BY <3>1, SlotsAssumption DEF Placed, Owned
  <2>3. CASE ~ Holds(r)
    BY <1>3, <2>3 DEF ConfirmPayment
  <2> QED
    BY <2>2, <2>3
<1>4. ASSUME NEW r \in Reservation, Exists(r),
             rows' \in {rows, GiveBack(rows, r), CleanUp(rows, r)}
      PROVE  Placed(rows')
  BY <1>0, <1>4, GiveBackPlaced
<1>5. ASSUME NEW q \in Reservation, NEW r \in Reservation, CancelEvent(q, r)
      PROVE  Placed(rows')
  <2>1. /\ slot[q] \in Slot /\ slot[r] \in Slot
        /\ rows' = IF q = r THEN CancelMember(rows, q)
                   ELSE CancelMember(CancelMember(rows, q), r)
    BY <1>0, <1>5 DEF CancelEvent, Expirable, Terminal, Exists
  <2>2. ASSUME NEW tb \in [Slot -> Row], Placed(tb), NEW m \in {q, r}
        PROVE  CancelMember(tb, m) \in [Slot -> Row] /\ Placed(CancelMember(tb, m))
    <3> DEFINE mid == IF status[m] \in Expirable THEN GiveBack(tb, m) ELSE tb
    <3>1. mid \in [Slot -> Row] /\ Placed(mid)
      BY <2>1, <2>2, GiveBackPlaced, GiveBackType
    <3>2. CleanUp(mid, m) \in [Slot -> Row] /\ Placed(CleanUp(mid, m))
      BY <2>1, <3>1, GiveBackPlaced, CleanUpType
    <3> QED
      BY <3>2 DEF CancelMember
  <2> QED
    BY <1>0, <2>1, <2>2
<1>6. ASSUME NEW q \in Quote, NEW S \in SUBSET Slot, CreateQuote(q, S)
      PROVE  Placed(rows')
  <2>1. \A t \in Slot : rows'[t].estado = "SOFT_HOLD" \/ rows'[t] = rows[t]
    BY <1>0, <1>6 DEF CreateQuote, Hold, Row
  <2> QED
    BY <2>1 DEF Placed, Owned
<1>7. ASSUME NEW r \in Reservation, RejectPayment(r) \/ CancelSingle(r) \/ SweepOne(r)
      PROVE  Placed(rows')
  BY <1>4, <1>7 DEF RejectPayment, CancelSingle, SweepOne, Exists, Expirable
<1>8. ASSUME UNCHANGED rows PROVE Placed(rows')
  BY <1>8
<1> QED
  BY <1>1, <1>2, <1>3, <1>5, <1>6, <1>7, <1>8
     DEF Next, Create, Pay, Cancel, Sweep, TTLPasses, GenerateSlip, BulkGenerateSlip,
         UploadSlip, DeleteVoucher, SweepSelect, SweepAbort, vars

\* Customers are told that a row is available exactly when it is perceived so.
LEMMA PublicAvailable ==
    ASSUME NEW estado
    PROVE  (PublicStatus(estado) = "AVAILABLE") <=> (estado = "AVAILABLE")
<1>1. CASE estado = "AVAILABLE"
  BY <1>1 DEF PublicStatus
<1>2. CASE estado \in {"SOFT_HOLD", "TTL_BLOCKED"}
  <2>1. PublicStatus(estado) = "TTL_PENDING"
    BY <1>2 DEF PublicStatus
  <2> QED
    BY <1>2, <2>1
<1>3. CASE estado \notin {"AVAILABLE", "SOFT_HOLD", "TTL_BLOCKED"}
  <2>1. PublicStatus(estado) = "BLOCKED"
    BY <1>3 DEF PublicStatus
  <2> QED
    BY <1>3, <2>1
<1> QED
  BY <1>1, <1>2, <1>3

\* The calendar and the check see what a claim sees, but for the overlap query.
LEMMA OfferIsRight ==
    ASSUME TwoLevelHierarchy, IInv, Placed(rows)
    PROVE  OfferedIsClaimable
<1> SUFFICES ASSUME NEW s \in Slot
             PROVE  /\ s \in MonthSlots =>
                         ((Month(rows, s, "CUSTOMER") = "AVAILABLE")
                            <=> CheckSingle(rows, s).available)
                    /\ Claimable(rows, s) <=>
                         /\ CheckSingle(rows, s).available
                         /\ \A t \in Overlapping(s) : rows[t].estado = "AVAILABLE"
  BY DEF OfferedIsClaimable
<1>1. CheckSingle(rows, s).available <=> s \in Bookable /\ Perceived(rows, s) = "AVAILABLE"
  BY DEF CheckSingle
<1>2. (Month(rows, s, "CUSTOMER") = "AVAILABLE") <=> Perceived(rows, s) = "AVAILABLE"
  BY PublicAvailable DEF Month
<1>3. Perceived(rows, s) = "AVAILABLE" <=>
        /\ rows[s].estado = "AVAILABLE"
        /\ HasParent(s) => rows[ParentSlot(s)].estado \notin HardBlockStatuses
        /\ \A c \in ChildSlots(s) : rows[c].estado \notin HardBlockStatuses
  BY DEF Perceived, Derived, RelativeBlocks
<1>4. rows[s].estado = "AVAILABLE" => rows[s].reservation_id = None
  BY LinkedBooked DEF IInv, Booked, Owned
<1>5. HasParent(s) => rows[ParentSlot(s)].estado # "BLOCKED_BY_PARENT"
  BY Relatives DEF Placed, TwoLevelHierarchy, HasParent, ParentSlot, Slot
<1>6. ASSUME NEW c \in ChildSlots(s) PROVE rows[c].estado # "BLOCKED_BY_CHILD"
  <2>1. c \in Slot /\ HasParent(c)
    BY <1>6, Relatives
  <2>2. ChildSlots(c) = {}
    <3> SUFFICES ASSUME NEW d \in ChildSlots(c) PROVE FALSE
      OBVIOUS
    <3>1. d \in Slot /\ HasParent(d) /\ ParentSlot(d) = c
      BY <2>1, Relatives
    <3> QED
      BY <2>1, <3>1 DEF TwoLevelHierarchy, HasParent, ParentSlot, Slot
  <2> QED
    BY <2>1, <2>2 DEF Placed
<1>7. Claimable(rows, s) <=>
        /\ CheckSingle(rows, s).available
        /\ \A t \in Overlapping(s) : rows[t].estado = "AVAILABLE"
  BY <1>1, <1>3, <1>4, <1>5, <1>6 DEF Claimable
<1> QED
  BY <1>1, <1>2, <1>7 DEF MonthSlots

\* The shadows of one claim reach no other slot of a cart without conflicts.
LEMMA ClaimsCommute ==
    ASSUME TwoLevelHierarchy, NEW tb \in [Slot -> Row],
           NEW s \in Slot, NEW t \in Slot, NEW r \in Reservation,
           Claimable(tb, s), Claimable(tb, t), ~ Conflict(s, t)
    PROVE  Claimable(Claim(tb, s, r), t)
<1> DEFINE new == Claim(tb, s, r)
<1>1. \A w \in Window : Overlap(w, w)
  BY SlotsAssumption DEF Overlap
<1>2. s[1] \in Space /\ s[2] \in Window /\ t[1] \in Space /\ t[2] \in Window
      /\ s = <<s[1], s[2]>> /\ t = <<t[1], t[2]>>
  BY DEF Slot
<1>3. \A u \in Slot : u[1] = t[1] /\ Overlap(u[2], t[2]) => u # s /\ u \notin ShadowedBy(tb, s)
  BY <1>2 DEF ShadowedBy, Conflict, ParentSlot, ChildSlots, HasParent, Overlap
<1>4. \A u \in Slot : u # s /\ u \notin ShadowedBy(tb, s) => new[u] = tb[u]
  BY DEF Claim
<1>5. new[t] = tb[t]
  BY <1>1, <1>2, <1>3, <1>4
<1>6. \A u \in Overlapping(t) : new[u] = tb[u]
  BY <1>3, <1>4 DEF Overlapping
<1>7. ASSUME HasParent(t)
      PROVE  new[ParentSlot(t)].estado \notin HardBlockStatuses \cup {"BLOCKED_BY_PARENT"}
  <2>1. ParentSlot(t) \in Slot /\ ParentSlot(t) # s
    BY <1>1, <1>2, <1>7, Relatives DEF Conflict, ParentSlot
  <2>2. CASE ParentSlot(t) \in ShadowedBy(tb, s)
    <3>1. HasParent(s)
      BY <1>2, <1>7, <2>1, <2>2, Relatives
         DEF ShadowedBy, TwoLevelHierarchy, HasParent, ParentSlot
    <3>2. new[ParentSlot(t)].estado = "BLOCKED_BY_CHILD"
      BY <2>1, <2>2, <3>1 DEF Claim, ShadowStatus, Row
    <3> QED
      BY <3>2 DEF HardBlockStatuses
  <2>3. CASE ParentSlot(t) \notin ShadowedBy(tb, s)
    BY <1>4, <1>7, <2>1, <2>3 DEF Claimable
  <2> QED
    BY <2>2, <2>3
<1>8. ASSUME NEW c \in ChildSlots(t)
      PROVE  new[c].estado \notin HardBlockStatuses \cup {"BLOCKED_BY_CHILD"}
  <2>1. c \in Slot /\ HasParent(c) /\ ParentSlot(c) = t
    BY Relatives
  <2>2. c # s
    BY <1>1, <1>2, <2>1 DEF Conflict, ParentSlot
  <2>3. c \notin ShadowedBy(tb, s)
    <3>1. CASE HasParent(s)
      BY <1>2, <2>1, <3>1, Relatives DEF ShadowedBy, TwoLevelHierarchy, HasParent, ParentSlot
    <3>2. CASE ~ HasParent(s)
      <4>1. s # t
        BY <1>1, <1>2 DEF Conflict
      <4> QED
        BY <2>1, <3>2, <4>1, Relatives DEF ShadowedBy
    <3> QED
      BY <3>1, <3>2
  <2> QED
    BY <1>4, <2>1, <2>2, <2>3 DEF Claimable
<1> QED
  BY <1>5, <1>6, <1>7, <1>8 DEF Claimable

\* The monitor shows a slot as confirmed exactly when it is, and as available
\* only if neither it nor a relative is booked, whichever rows a query reads.
LEMMA MonitorAgrees ==
    ASSUME TwoLevelHierarchy, IInv, Placed(rows)
    PROVE  MonitorIsRight
<1> SUFFICES ASSUME NEW read \in MonitorQueries, NEW s \in read
             PROVE  /\ Occupancy(rows, s) = "CONFIRMED" <=>
                         \E q \in Reservation : status[q] = "CONFIRMED" /\ slot[q] = s
                    /\ Occupancy(rows, s) = "AVAILABLE" =>
                         \A q \in Reservation : Live(q) =>
                            /\ slot[q] # s
                            /\ slot[q] \notin ChildSlots(s)
                            /\ HasParent(s) => slot[q] # ParentSlot(s)
  BY DEF MonitorIsRight
<1>0. s \in Slot
  BY DEF MonitorQueries, Slot
<1> DEFINE r == rows[s].reservation_id
<1>1. Owned(rows, s) => r \in Reservation /\ Live(r) /\ slot[r] = s
        /\ (rows[s].estado = "RESERVED" <=> status[r] = "CONFIRMED")
  BY <1>0 DEF IInv, Linked, Owned, Row, Live, LiveStatus
<1>2. \A q \in Reservation : status[q] = "CONFIRMED" /\ slot[q] = s => r = q
  BY DEF IInv, Linked, LiveStatus
<1>3. Occupancy(rows, s) = "CONFIRMED" <=> (r # None /\ status[r] = "CONFIRMED")
  <2>1. rows[s].estado = "RESERVED" <=> r # None /\ status[r] = "CONFIRMED"
    BY <1>0, <1>1 DEF Placed, Owned
  <2> HIDE DEF r
  <2>2. CASE r # None /\ status[r] = "CONFIRMED"
    <3>1. Occupancy(rows, s) = "CONFIRMED"
      BY <2>1, <2>2, Zenon DEF Occupancy, r
    <3> QED
      BY <2>2, <3>1
  <2>3. CASE ~ (r # None /\ status[r] = "CONFIRMED") /\ rows[s].estado = "AVAILABLE"
    <3>1. Occupancy(rows, s) = "AVAILABLE"
      BY <2>1, <2>3, Zenon DEF Occupancy, r
    <3> QED
      BY <2>3, <3>1
  <2>4. CASE ~ (r # None /\ status[r] = "CONFIRMED") /\ rows[s].estado # "AVAILABLE"
    <3>1. Occupancy(rows, s) = "TENTATIVE"
      BY <2>1, <2>4, Zenon DEF Occupancy, r
    <3> QED
      BY <2>4, <3>1
  <2> QED
    BY <2>2, <2>3, <2>4
<1>4. ASSUME Occupancy(rows, s) = "AVAILABLE" PROVE rows[s].estado = "AVAILABLE"
  BY <1>4, Zenon DEF Occupancy
<1>5. ASSUME rows[s].estado = "AVAILABLE", NEW q \in Reservation, Live(q)
      PROVE  /\ slot[q] # s
             /\ slot[q] \notin ChildSlots(s)
             /\ HasParent(s) => slot[q] # ParentSlot(s)
  <2>1. slot[q] \in Slot /\ Owned(rows, slot[q]) /\ rows[slot[q]].estado # "AVAILABLE"
    BY <1>5, SlotsAssumption
       DEF IInv, Linked, LiveStatus, Live, ActiveStatuses, Expirable, Owned
  <2>2. /\ HasParent(slot[q]) => rows[ParentSlot(slot[q])].estado # "AVAILABLE"
        /\ ~ HasParent(slot[q]) => \A c \in ChildSlots(slot[q]) : rows[c].estado # "AVAILABLE"
    BY <2>1 DEF IInv, Linked, Families, Shelters
  <2>3. slot[q] \in ChildSlots(s) => HasParent(slot[q]) /\ ParentSlot(slot[q]) = s
    BY <1>0, Relatives
  <2>4. HasParent(s) /\ slot[q] = ParentSlot(s) => ~ HasParent(slot[q]) /\ s \in ChildSlots(slot[q])
    BY <1>0 DEF TwoLevelHierarchy, HasParent, ParentSlot, ChildSlots, Slot
  <2> QED
    BY <1>5, <2>1, <2>2, <2>3, <2>4
<1>6. Occupancy(rows, s) = "CONFIRMED" <=>
        \E q \in Reservation : status[q] = "CONFIRMED" /\ slot[q] = s
  BY <1>0, <1>1, <1>2, <1>3, SlotsAssumption DEF Owned
<1> QED
  BY <1>4, <1>5, <1>6

\* In a hierarchy of two levels, what customers and staff are shown agrees with
\* what a booking finds.
THEOREM CalendarAlwaysRight ==
    ASSUME TwoLevelHierarchy
    PROVE  Spec => []CalendarIsRight
<1>1. Init => Placed(rows)
  BY DEF Init, Placed, FreeRow
<1>2. IInv /\ Placed(rows) => CalendarIsRight
  <2> SUFFICES ASSUME IInv, Placed(rows) PROVE CalendarIsRight
    OBVIOUS
  <2>1. GroupIsBookable
    BY ClaimsCommute DEF GroupIsBookable, IInv, TypeOK
  <2> QED
    BY <2>1, OfferIsRight, MonitorAgrees DEF CalendarIsRight
<1>3. IInv /\ Placed(rows) /\ [Next]_vars => Placed(rows)'
  BY NextPlaced DEF Placed, Owned
<1> QED
  BY <1>1, <1>2, <1>3, IInvAlways, PTL DEF Spec

-----------------------------------------------------------------------------
(* What the operations staff is shown.                                     *)

\* The first member of an event belongs to it.
EventsHaveFirst == \A r \in Reservation : grp[r] # None => grp[grp[r]] = grp[r]

\* A payment under review left a file in the expediente.
ReviewedHasFile ==
    \A r \in Reservation : status[r] = "PAYMENT_UNDER_REVIEW" =>
        \E f \in File : <<r, f>> \in expediente

\* Every transaction keeps both.
LEMMA NextEvidence ==
    TypeOK /\ TypeOK' /\ EventsNamed /\ EventsHaveFirst /\ ReviewedHasFile /\ [Next]_vars
        => EventsHaveFirst' /\ ReviewedHasFile'
<1> SUFFICES ASSUME TypeOK, TypeOK', EventsNamed, EventsHaveFirst, ReviewedHasFile, [Next]_vars
             PROVE  EventsHaveFirst' /\ ReviewedHasFile'
  OBVIOUS
<1>0. /\ status \in [Reservation -> Status \cup {"NONE"}]
      /\ grp \in [Reservation -> Reservation \cup {None}]
  BY DEF TypeOK
<1> USE DEF Expirable, Terminal
<1>1. ASSUME NEW r \in Reservation, NEW s \in Slot, NEW g \in Reservation \cup {None},
             PostReservation(r, s, g)
      PROVE  EventsHaveFirst' /\ ReviewedHasFile'
  <2>1. /\ status[r] = "NONE" /\ g \in {None, r} /\ expediente' = expediente
        /\ status' = [status EXCEPT ![r] = "PENDING_SLIP"]
        /\ grp' = [grp EXCEPT ![r] = g]
    BY <1>1 DEF PostReservation
  <2>2. grp[r] = None /\ \A q \in Reservation : grp[q] # r
    BY <1>0, <2>1, SlotsAssumption DEF EventsNamed, Exists
  <2>3. EventsHaveFirst'
    BY <1>0, <2>1, <2>2 DEF EventsHaveFirst
  <2> QED
    BY <1>0, <2>1, <2>3 DEF ReviewedHasFile
<1>2. ASSUME NEW q \in Reservation, NEW r \in Reservation, NEW s \in Slot, NEW t \in Slot,
             PostEvent(q, r, s, t)
      PROVE  EventsHaveFirst' /\ ReviewedHasFile'
  <2>1. /\ status[q] = "NONE" /\ status[r] = "NONE" /\ expediente' = expediente
        /\ status' = [status EXCEPT ![q] = "PENDING_SLIP", ![r] = "PENDING_SLIP"]
        /\ grp' = [grp EXCEPT ![q] = q, ![r] = q]
    BY <1>2 DEF PostEvent
  <2>2. \A m \in Reservation : grp[m] \notin {q, r}
    BY <1>0, <2>1, SlotsAssumption DEF EventsNamed, Exists
  <2>3. EventsHaveFirst'
    BY <1>0, <2>1, <2>2 DEF EventsHaveFirst
  <2> QED
    BY <1>0, <2>1, <2>3 DEF ReviewedHasFile
<1>3. ASSUME NEW r \in Reservation, NEW f \in File, UploadSlip(r, f)
      PROVE  EventsHaveFirst' /\ ReviewedHasFile'
  BY <1>0, <1>3 DEF UploadSlip, EventsHaveFirst, ReviewedHasFile
<1>4. ASSUME grp' = grp, expediente' = expediente,
             \A r \in Reservation : status'[r] = "PAYMENT_UNDER_REVIEW" => status'[r] = status[r]
      PROVE  EventsHaveFirst' /\ ReviewedHasFile'
  BY <1>4 DEF EventsHaveFirst, ReviewedHasFile
<1>5. ASSUME NEW r \in Reservation, GenerateSlip(r) \/ ConfirmPayment(r) \/ RejectPayment(r)
      PROVE  EventsHaveFirst' /\ ReviewedHasFile'
  BY <1>0, <1>4, <1>5 DEF GenerateSlip, ConfirmPayment, RejectPayment
<1>6. ASSUME NEW selection \in SUBSET Reservation, BulkGenerateSlip(selection)
      PROVE  EventsHaveFirst' /\ ReviewedHasFile'
  BY <1>0, <1>4, <1>6 DEF BulkGenerateSlip
<1>7. ASSUME NEW r \in Reservation, CancelSingle(r) \/ SweepOne(r)
      PROVE  EventsHaveFirst' /\ ReviewedHasFile'
  BY <1>0, <1>4, <1>7 DEF CancelSingle, SweepOne
<1>8. ASSUME NEW q \in Reservation, NEW r \in Reservation, CancelEvent(q, r)
      PROVE  EventsHaveFirst' /\ ReviewedHasFile'
  BY <1>0, <1>4, <1>8 DEF CancelEvent
<1>9. ASSUME UNCHANGED <<status, grp, expediente>>
      PROVE  EventsHaveFirst' /\ ReviewedHasFile'
  BY <1>4, <1>9
<1> QED
  BY <1>1, <1>2, <1>3, <1>5, <1>6, <1>7, <1>8, <1>9
     DEF Next, Create, Pay, Cancel, Sweep, TTLPasses, DeleteVoucher, SweepSelect,
         SweepAbort, CreateQuote, vars

\* The key by which rows are grouped.
Key(r) == IF grp[r] = None THEN r ELSE grp[r]

\* A group is what one key selects.
LEMMA GroupsByKey ==
    ASSUME NEW R \in SUBSET Reservation, NEW G
    PROVE  G \in Groups(R) <=> \E r \in R : G = {q \in R : Key(q) = Key(r)}
  BY DEF Groups, Key

\* The primary status is the first of the list that a member has.
LEMMA PrimaryIsFirst ==
    ASSUME NEW G, G # {}, \A r \in G : status[r] \in Status
    PROVE  /\ Primary(G) \in StatusesOf(G)
           /\ \E i \in 1 .. 6 : /\ Urgency[i] = Primary(G)
                                /\ \A j \in 1 .. i - 1 : Urgency[j] \notin StatusesOf(G)
<1>1. DOMAIN Urgency = 1 .. 6
  BY DEF Urgency
<1>2. \E i \in 1 .. 6 : Urgency[i] \in StatusesOf(G)
  BY DEF Urgency, StatusesOf, Status
<1>3. \E i \in 1 .. 6 : /\ Urgency[i] \in StatusesOf(G)
                        /\ \A j \in 1 .. i - 1 : Urgency[j] \notin StatusesOf(G)
  <2> DEFINE U(i) == Urgency[i] \in StatusesOf(G)
  <2> HIDE DEF U
  <2>1. \E i \in 1 .. 6 : U(i) /\ \A j \in 1 .. i - 1 : ~ U(j)
    <3>1. \E i \in 1 .. 6 : U(i)
      BY <1>2 DEF U
    <3>2. CASE U(1)
      BY <3>2
    <3>3. CASE ~ U(1) /\ U(2)
      BY <3>3
    <3>4. CASE ~ U(1) /\ ~ U(2) /\ U(3)
      BY <3>4
    <3>5. CASE ~ U(1) /\ ~ U(2) /\ ~ U(3) /\ U(4)
      BY <3>5
    <3>6. CASE ~ U(1) /\ ~ U(2) /\ ~ U(3) /\ ~ U(4) /\ U(5)
      BY <3>6
    <3>7. CASE ~ U(1) /\ ~ U(2) /\ ~ U(3) /\ ~ U(4) /\ ~ U(5) /\ U(6)
      BY <3>7
    <3> QED
      BY <3>1, <3>2, <3>3, <3>4, <3>5, <3>6, <3>7
  <2> QED
    BY <2>1 DEF U
<1>4. \E s \in StatusesOf(G) : \E i \in DOMAIN Urgency :
        Urgency[i] = s /\ \A j \in 1 .. i - 1 : Urgency[j] \notin StatusesOf(G)
  BY <1>1, <1>3
<1> QED
  BY <1>1, <1>4 DEF Primary

\* A group that lists nothing terminal has no terminal member.
LEMMA NoMoreUrgent ==
    ASSUME NEW G, G # {}, \A r \in G : status[r] \in Status
    PROVE  LET p == Primary(G)
           IN  /\ \E r \in G : status[r] = p
               /\ p # "CANCELLED" => \A r \in G : status[r] # "CANCELLED"
               /\ p \notin Terminal => \A r \in G : status[r] \notin Terminal
               /\ p = "PAYMENT_UNDER_REVIEW" =>
                    \A r \in G : status[r] \in {"PAYMENT_UNDER_REVIEW", "CONFIRMED"}
<1>1. PICK i \in 1 .. 6 : /\ Urgency[i] = Primary(G)
                          /\ \A j \in 1 .. i - 1 : Urgency[j] \notin StatusesOf(G)
  BY PrimaryIsFirst
<1>2. \E r \in G : status[r] = Primary(G)
  BY PrimaryIsFirst DEF StatusesOf
<1>3. \A r \in G : \A j \in 1 .. i - 1 : status[r] # Urgency[j]
  BY <1>1 DEF StatusesOf
<1>4. i = 1 \/ i = 2 \/ i = 3 \/ i = 4 \/ i = 5 \/ i = 6
  OBVIOUS
<1> QED
  BY <1>1, <1>2, <1>3, <1>4 DEF Urgency, Status, Terminal

\* The staff's unfiltered list has an entry for each group of rows, and only these.
LEMMA ListedGroups ==
    ASSUME NEW e \in Summary(None, None)
    PROVE  \E G \in Groups({r \in Reservation : Exists(r)}) :
             /\ e.members = G /\ e.status = Primary(G) /\ e.payment = PaymentReceived(G)
<1>1. None \notin Customer
  BY BookingAssumption
<1>2. {r \in Reservation : /\ Exists(r)
                           /\ None \in Customer => UserOf[r] = None
                           /\ None \in {None, status[r]}}
        = {r \in Reservation : Exists(r)}
  BY <1>1
<1>3. e \in {Entry(G) : G \in Groups({r \in Reservation : Exists(r)})}
  BY <1>2 DEF Summary
<1> QED
  BY <1>3 DEF Entry

\* A group of existing rows is not empty, and its rows have a status.
LEMMA GroupHasRows ==
    ASSUME TypeOK, NEW G \in Groups({r \in Reservation : Exists(r)})
    PROVE  /\ G # {} /\ G \subseteq Reservation
           /\ \A r \in G : status[r] \in Status
           /\ \E k \in G : G = {q \in Reservation : Exists(q) /\ Key(q) = Key(k)}
<1>1. PICK k \in {r \in Reservation : Exists(r)} :
        G = {q \in {r \in Reservation : Exists(r)} : Key(q) = Key(k)}
  BY GroupsByKey
<1> QED
  BY <1>1 DEF TypeOK, Exists

\* The list and the figures agree about a group.
LEMMA FiguresAgree ==
    ASSUME TypeOK, EventsHaveFirst, EventCancelsTogether
    PROVE  FiguresMatchList
<1> SUFFICES ASSUME NEW G \in Groups({r \in Reservation : Exists(r)})
             PROVE  /\ Primary(G) = "CANCELLED" => G \cap Counted = {}
                    /\ Primary(G) # "EXPIRED" =>
                         /\ (Primary(G) = "PENDING_SLIP") <=> (G \in Kpis.pending)
                         /\ (Primary(G) = "CONFIRMED") <=> (G \in Kpis.confirmed)
  BY ListedGroups DEF FiguresMatchList
<1>1. /\ G # {} /\ G \subseteq Reservation
      /\ \A r \in G : status[r] \in Status
  BY GroupHasRows
<1>2. PICK k \in G : G = {q \in Reservation : Exists(q) /\ Key(q) = Key(k)}
  BY GroupHasRows
<1>3. Counted \subseteq {r \in Reservation : Exists(r)} /\ Counted \subseteq Reservation
  BY DEF Counted, Live, Exists, ActiveStatuses, Expirable
<1>4. \A q, r \in G : q # r => grp[q] # None /\ grp[q] = grp[r]
  <2> SUFFICES ASSUME NEW q \in G, NEW r \in G, q # r PROVE grp[q] # None /\ grp[q] = grp[r]
    OBVIOUS
  <2>1. Key(q) = Key(r) /\ grp \in [Reservation -> Reservation \cup {None}]
    BY <1>2 DEF TypeOK
  <2> QED
    BY <1>1, <2>1, SlotsAssumption DEF Key, EventsHaveFirst
<1>5. Kpis.pending = {H \in Groups(Counted) : Primary(H) = "PENDING_SLIP"}
      /\ Kpis.confirmed = {H \in Groups(Counted) : Primary(H) = "CONFIRMED"}
  BY DEF Kpis
<1>6. ASSUME NEW H \in Groups(Counted) PROVE H # {} /\ H \subseteq Counted
  BY <1>3, <1>6, GroupsByKey
<1>7. CASE Primary(G) = "CANCELLED"
  <2>1. PICK q \in G : status[q] = "CANCELLED"
    BY <1>1, <1>7, NoMoreUrgent
  <2>2. \A r \in G : status[r] \in Terminal
    BY <1>1, <1>4, <2>1 DEF EventCancelsTogether, Terminal
  <2>3. G \cap Counted = {}
    BY <1>1, <2>2 DEF Counted, Live, ActiveStatuses, Expirable, Terminal
  <2>4. G \notin Groups(Counted)
    BY <1>6, <2>3
  <2> QED
    BY <1>5, <1>7, <2>3, <2>4
<1>8. CASE Primary(G) \notin Terminal
  <2>1. \A r \in G : status[r] \notin Terminal
    BY <1>1, <1>8, NoMoreUrgent
  <2>2. G \subseteq Counted
    BY <1>1, <2>1 DEF Counted, Live, Status, ActiveStatuses, Expirable, Terminal
  <2>3. G = {q \in Counted : Key(q) = Key(k)}
    BY <1>2, <1>3, <2>2
  <2>4. G \in Groups(Counted)
    BY <1>3, <2>2, <2>3, GroupsByKey
  <2> QED
    BY <1>5, <1>8, <2>4 DEF Terminal
<1> QED
  BY <1>7, <1>8 DEF Terminal

\* A group under review that is not flagged as paid has its evidence elsewhere.
LEMMA EvidenceKept ==
    ASSUME TypeOK, ReviewedHasFile
    PROVE  ReviewHasEvidence
<1> SUFFICES ASSUME NEW G \in Groups({r \in Reservation : Exists(r)}),
                    Primary(G) = "PAYMENT_UNDER_REVIEW", ~ PaymentReceived(G), NEW r \in G
             PROVE  \E f \in File : <<r, f>> \in expediente /\ vouchers[f] # r
  BY ListedGroups DEF ReviewHasEvidence
<1>1. G # {} /\ G \subseteq Reservation /\ \A q \in G : status[q] \in Status
  BY GroupHasRows
<1>2. status[r] = "PAYMENT_UNDER_REVIEW"
  BY <1>1, NoMoreUrgent DEF PaymentReceived
<1> QED
  BY <1>1, <1>2 DEF ReviewedHasFile, PaymentReceived, HasVoucher

\* The page of the operations staff never contradicts itself or the vouchers.
THEOREM DashboardAlwaysRight == Spec => []DashboardIsRight
<1>1. Init => EventsNamed /\ EventCancelsTogether /\ EventsHaveFirst /\ ReviewedHasFile
  BY DEF Init, EventsNamed, EventCancelsTogether, EventsHaveFirst, ReviewedHasFile
<1>2. IInv /\ EventsNamed /\ EventCancelsTogether /\ TypeOK' /\ [Next]_vars
        => EventsNamed' /\ EventCancelsTogether'
  BY NextEvents DEF EInv
<1>3. TypeOK /\ EventsHaveFirst /\ ReviewedHasFile /\ EventCancelsTogether => DashboardIsRight
  BY FiguresAgree, EvidenceKept DEF DashboardIsRight
<1> QED
  BY <1>1, <1>2, <1>3, NextEvidence, IInvAlways, TypeCorrect, PTL DEF Spec

=============================================================================
