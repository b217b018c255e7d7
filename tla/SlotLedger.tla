----------------------------- MODULE SlotLedger -----------------------------
(***************************************************************************)
(* What the booking system promises its users, without statuses, rows,     *)
(* shadow blocks or sweeps: a ledger of who has which slot.  No two        *)
(* entries conflict, the items of an event enter together, and an entry    *)
(* that was sealed by a confirmed payment never leaves.                    *)
(***************************************************************************)
CONSTANTS
    Id,             \* reservation ids
    Place,          \* the slots
    Clash(_, _)     \* slots that cannot both be taken

VARIABLES
    ledger,         \* set of entries <<id, place>>
    sealed          \* ids of the confirmed entries

lvars == <<ledger, sealed>>

LInit == ledger = {} /\ sealed = {}

Compatible(entries) ==
    \A a, b \in entries : a # b => a[1] # b[1] /\ ~ Clash(a[2], b[2])

\* Take all the slots of new, or none.
Take(new) ==
    /\ new # {}
    /\ new \cap ledger = {}
    /\ Compatible(ledger \cup new)
    /\ ledger' = ledger \cup new
    /\ UNCHANGED sealed

Seal(entry) ==
    /\ entry \in ledger
    /\ entry[1] \notin sealed
    /\ sealed' = sealed \cup {entry[1]}
    /\ UNCHANGED ledger

\* Give slots back: one that lapsed, or those of a cancelled event.
GiveUp(old) ==
    /\ old # {}
    /\ old \subseteq ledger
    /\ \A e \in old : e[1] \notin sealed
    /\ ledger' = ledger \ old
    /\ UNCHANGED sealed

\* An event has one item or two.
LNext ==
    \/ \E a, b \in Id \X Place : Take({a, b})
    \/ \E entry \in ledger : Seal(entry)
    \/ \E a, b \in ledger : GiveUp({a, b})

LSpec == LInit /\ [][LNext]_lvars

=============================================================================
