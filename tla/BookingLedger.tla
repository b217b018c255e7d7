--------------------------- MODULE BookingLedger ---------------------------
(***************************************************************************)
(* How the two tables implement the ledger that a user relies on.          *)
(***************************************************************************)
EXTENDS Booking

\* The ledger a reader sees in the two tables: the live reservations with
\* their slots, ...
Entries == {<<r, slot[r]>> : r \in {q \in Reservation : Live(q)}}

\* ... sealed once they are confirmed.
Confirmed == {r \in Reservation : status[r] = "CONFIRMED"}

Ledger == INSTANCE SlotLedger WITH
    Id <- Reservation,
    Place <- Slot,
    Clash <- Conflict,
    ledger <- Entries,
    sealed <- Confirmed

\* Every behaviour of the two tables, the release algorithm, the sweep and
\* the group operations is a behaviour of the ledger.
ImplementsLedger == Ledger!LSpec

=============================================================================
