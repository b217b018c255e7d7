----------------------------- MODULE Discounts -----------------------------
(***************************************************************************)
(* Discount codes (modules/discounts) and the events that are booked with  *)
(* one (modules/booking/router.py).  The request that books an event       *)
(* loads the code, validates it, books the slots, and writes the counter   *)
(* back, all in one transaction that locks nothing of the code: the        *)
(* counter it writes is the one it loaded, plus one.                       *)
(***************************************************************************)
EXTENDS Money, FiniteSets

CONSTANTS
    Code, Booking, Customer,
    BookedBy,       \* the customer of a booking
    BookedCode,     \* the code it names, normalized
    CodeSubtotals,  \* subtotals of bookings, in cents
    EventSizes,     \* numbers of reservations
    NewCodes,       \* contents of a new code
    CodeChanges,    \* partial contents that a PATCH sends
    NoCode, Unlimited

ASSUME DiscountsAssumption ==
    /\ IsFiniteSet(Booking)
    /\ BookedBy \in [Booking -> Customer] /\ BookedCode \in [Booking -> Code]
    /\ CodeSubtotals \subseteq Nat /\ EventSizes \subseteq Nat \ {0}

VARIABLES
    codes,      \* discount_codes
    booking     \* requests, and the usage that a committed one registered

discountVars == <<codes, booking>>

Kinds == {"PERCENT", "FIXED"}

\* discount_value is in hundredths of a percent, or in cents.
CodeRow ==
    [kind : Kinds, value : Nat, minimum : Nat, limit : Nat \cup {Unlimited},
     single : BOOLEAN, active : BOOLEAN, expired : BOOLEAN, used : Nat]

Uses(c) == {q \in Booking : BookedCode[q] = c /\ booking[q].phase = "booked"}

-----------------------------------------------------------------------------
(* The services.                                                           *)

\* Mutant: one use too many.
DiscountStatusOffByOne(row) ==
    CASE ~ row.active -> "INACTIVE"
      [] row.active /\ row.expired -> "EXPIRED"
      [] row.active /\ ~ row.expired /\ row.limit # Unlimited /\ row.used > row.limit
            -> "USAGE_LIMIT_REACHED"
      [] OTHER -> "ACTIVE"

DiscountStatus(row) ==
    CASE ~ row.active -> "INACTIVE"
      [] row.active /\ row.expired -> "EXPIRED"
      [] row.active /\ ~ row.expired /\ row.limit # Unlimited /\ row.used >= row.limit
            -> "USAGE_LIMIT_REACHED"
      [] OTHER -> "ACTIVE"

\* compute_discount_amount
DiscountAmount(row, subtotal) ==
    LET percent == IF row.value < 10000 THEN row.value ELSE 10000
        amount == IF row.kind = "PERCENT" THEN RoundDiv(subtotal * percent, 10000)
                  ELSE row.value
    IN IF amount < subtotal THEN amount ELSE subtotal

\* validate_code_for_subtotal of a row that the given customers have used; the
\* wizard asks without a customer.
Accepts(row, subtotal, buyers, customers) ==
    /\ DiscountStatus(row) = "ACTIVE"
    /\ subtotal >= row.minimum
    /\ row.single => customers \cap buyers = {}

Valid(c, subtotal, customers) ==
    /\ codes[c] # NoCode
    /\ Accepts(codes[c], subtotal, {BookedBy[q] : q \in Uses(c)}, customers)

\* What a preview endpoint answers: a refused code changes nothing.
Preview(row, subtotal, buyers, customers) ==
    IF Accepts(row, subtotal, buyers, customers)
    THEN subtotal - DiscountAmount(row, subtotal) ELSE subtotal

\* The amount that each reservation of the event bears: the last takes the rest.
Shares(amount, n) ==
    [i \in 1..n |-> IF i < n THEN RoundDiv(amount, n)
                    ELSE amount - (n - 1) * RoundDiv(amount, n)]

-----------------------------------------------------------------------------
(* Administration.                                                         *)

\* What a PATCH may change.
Editable ==
    [value |-> Nat, minimum |-> Nat, limit |-> Nat \cup {Unlimited},
     single |-> BOOLEAN, active |-> BOOLEAN, expired |-> BOOLEAN]

NewRow(content) ==
    [kind |-> content.kind, value |-> content.value, minimum |-> content.minimum,
     limit |-> content.limit, single |-> content.single, active |-> TRUE,
     expired |-> FALSE, used |-> 0]

ASSUME CodesAssumption ==
    /\ Unlimited \notin Nat /\ NoCode \notin CodeRow
    /\ \A content \in NewCodes : NewRow(content) \in CodeRow
    /\ \A change \in CodeChanges :
          /\ DOMAIN change \subseteq DOMAIN Editable
          /\ \A f \in DOMAIN change : change[f] \in Editable[f]

CreateCode(c, content) ==
    /\ codes[c] = NoCode
    /\ codes' = [codes EXCEPT ![c] = NewRow(content)]
    /\ UNCHANGED booking

\* Only the fields that were sent, and never the counter.
UpdateCode(c, change) ==
    /\ codes[c] # NoCode
    /\ codes' = [codes EXCEPT ![c] =
            [f \in DOMAIN @ |-> IF f \in DOMAIN change THEN change[f] ELSE @[f]]]
    /\ UNCHANGED booking

\* expires_at passes.
CodeExpires(c) ==
    /\ codes[c] # NoCode
    /\ ~ codes[c].expired
    /\ codes' = [codes EXCEPT ![c].expired = TRUE]
    /\ UNCHANGED booking

-----------------------------------------------------------------------------
(* The booking of an event with a code.                                    *)

ValidateCode(q, subtotal, n) ==
    LET c == BookedCode[q] IN
    /\ booking[q].phase = "new"
    /\ IF Valid(c, subtotal, {BookedBy[q]})
       THEN booking' = [booking EXCEPT ![q] =
                [phase |-> "priced", loaded |-> codes[c], known |-> Uses(c),
                 subtotal |-> subtotal, amount |-> DiscountAmount(codes[c], subtotal),
                 shares |-> Shares(DiscountAmount(codes[c], subtotal), n)]]
       ELSE booking' = [booking EXCEPT ![q] = [phase |-> "refused"]]
    /\ UNCHANGED codes

\* register_discount_usage and the commit.
RegisterUsage(q) ==
    /\ booking[q].phase = "priced"
    /\ codes' = [codes EXCEPT ![BookedCode[q]].used = booking[q].loaded.used + 1]
    /\ booking' = [booking EXCEPT ![q].phase = "booked"]

\* A slot of the event is taken: the request rolls back.
SlotsTaken(q) ==
    /\ booking[q].phase = "priced"
    /\ booking' = [booking EXCEPT ![q] = [phase |-> "refused"]]
    /\ UNCHANGED codes

-----------------------------------------------------------------------------
DiscountsInit ==
    /\ codes = [c \in Code |-> NoCode]
    /\ booking = [q \in Booking |-> [phase |-> "new"]]

DiscountsNext ==
    \/ \E c \in Code :
          \/ \E content \in NewCodes : CreateCode(c, content)
          \/ \E change \in CodeChanges : UpdateCode(c, change)
          \/ CodeExpires(c)
    \/ \E q \in Booking :
          \/ \E subtotal \in CodeSubtotals, n \in EventSizes : ValidateCode(q, subtotal, n)
          \/ RegisterUsage(q)
          \/ SlotsTaken(q)

DiscountsSpec == DiscountsInit /\ [][DiscountsNext]_discountVars

-----------------------------------------------------------------------------
(* Properties.                                                             *)

\* Types, and that the reservations of an event bear its discount to the cent
\* (booking/router.py:210-216).
DiscountsTypeOK ==
    /\ \A c \in Code : codes[c] \in CodeRow \cup {NoCode}
    /\ \A q \in Booking :
          /\ booking[q].phase \in {"new", "priced", "booked", "refused"}
          /\ booking[q].phase \in {"priced", "booked"} =>
                /\ booking[q].loaded \in CodeRow
                /\ booking[q].amount \in 0..booking[q].subtotal
                /\ Total(booking[q].shares) = booking[q].amount

\* The counter loses uses when bookings overlap, but never runs ahead of the
\* usages that are registered: no customer is refused while uses are left.
CounterNeverAhead ==
    \A c \in Code : codes[c] # NoCode => codes[c].used <= Cardinality(Uses(c))

\* Two bookings overlapped if neither saw the usage of the other.
Overlapped(q, r) == q \notin booking[r].known /\ r \notin booking[q].known

\* Bookings that follow one another use a code as often as its largest limit
\* says, and once per customer if it is a single-use code then, although the
\* counter is written back without a lock and staff edit the code meanwhile.
SerialUsesKeepLimits ==
    \A c \in Code :
        (\A q, r \in Uses(c) : q # r => ~ Overlapped(q, r)) =>
            /\ codes[c] # NoCode => codes[c].used = Cardinality(Uses(c))
            /\ Uses(c) # {} =>
                  \E q \in Uses(c) : \/ booking[q].loaded.limit = Unlimited
                                     \/ Cardinality(Uses(c)) <= booking[q].loaded.limit
            /\ \A q \in Uses(c) : booking[q].loaded.single =>
                  \A r \in booking[q].known : BookedBy[r] # BookedBy[q]

\* The codes, their counters and their usages (discounts/services.py).
DiscountsInv == DiscountsTypeOK /\ CounterNeverAhead /\ SerialUsesKeepLimits

=============================================================================
