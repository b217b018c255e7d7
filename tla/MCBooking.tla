----------------------------- MODULE MCBooking -----------------------------
(***************************************************************************)
(* Instances for TLC of Booking and of what is read from its tables: a     *)
(* hall with two rooms, and windows that meet.                             *)
(***************************************************************************)
EXTENDS Calendar, Dashboard, BookingLedger, TLC

CONSTANTS hall, room1, room2, staff, customer, r1, r2, r3

TwoLevels == [s \in Space |-> IF s = hall THEN NoSpace ELSE hall]

Morning == <<9, 11>>
Midday == <<10, 12>>
TwoWindows == {Morning, Midday}
OneWindow == {Morning}

AllBookable == Space \X Window

\* r3 belongs to the staff, the others to a customer limited to MaxActive.
Users == {staff, customer}
Owners == [r \in Reservation |-> IF r = r3 THEN staff ELSE customer]

=============================================================================
