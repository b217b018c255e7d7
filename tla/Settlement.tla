----------------------------- MODULE Settlement -----------------------------
(***************************************************************************)
(* What becomes of ONE reservation after its claim, when the requests that *)
(* settle it overlap in time: the slip, vouchers, confirm, reject, cancel  *)
(* and the TTL sweep (modules/booking), with the service order, the QR     *)
(* token and the expediente that a confirmation writes.  Booking takes the *)
(* same handlers as single steps.                                          *)
(*                                                                         *)
(* A request checks the status that it loaded.  Its UPDATEs wait for the   *)
(* row locks of other open transactions and then overwrite: there is no    *)
(* version check.  PostgreSQL ends a cycle of waits by aborting a          *)
(* transaction.  Locks last to the commit, so what a transaction has       *)
(* written is kept in its job and applied when it commits.                 *)
(***************************************************************************)
EXTENDS Expediente, Sequences, FiniteSetsExt

CONSTANTS
    Worker,         \* requests and task iterations that run at the same time
    Scan,           \* contents of vouchers, told apart by their SHA-256
    Draft,          \* types of the ACTIVE KYC documents of the event
    MaxVouchers     \* bound on vouchers

ASSUME SettlementAssumption ==
    /\ MaxVouchers \in Nat
    /\ IsFiniteSet(Worker)
    /\ "voucher" \notin Draft

VARIABLES
    status,     \* reservations.status
    clock,      \* ttl_frozen; ttl_expires_at < now
    slot,       \* estado and holder (this reservation, another one, nobody)
    vouchers,   \* the content of each voucher that is stored
    scans,      \* vouchers whose file is on disk
    links,      \* the expediente
    papers,     \* service orders and QR tokens of the reservation
    job,        \* what each worker is doing
    made,       \* vouchers so far: they number the ids
    cut,        \* vouchers whose deletion was cut off after their file went
    stale,      \* a status was written over one that had changed meanwhile
    tangled     \* transactions that append to the expediente overlapped

settlementVars == <<status, clock, slot, vouchers, scans, links, papers, job, made, cut,
                    stale, tangled>>

\* Everything but the jobs: what a statement before the commit leaves alone.
tables == <<status, clock, slot, vouchers, scans, links, papers, made, cut, stale, tangled>>

Live == {"PENDING_SLIP", "AWAITING_PAYMENT", "PAYMENT_UNDER_REVIEW", "CONFIRMED"}

Settled == {"CONFIRMED", "EXPIRED", "CANCELLED"}

\* The statuses in which each request goes ahead, and the one it leaves.
From == [slip    |-> {"PENDING_SLIP"},
         upload  |-> {"AWAITING_PAYMENT", "PAYMENT_UNDER_REVIEW"},
         delete  |-> {"AWAITING_PAYMENT", "PAYMENT_UNDER_REVIEW"},
         confirm |-> {"PAYMENT_UNDER_REVIEW"},
         reject  |-> {"PAYMENT_UNDER_REVIEW"},
         cancel  |-> {"PENDING_SLIP", "AWAITING_PAYMENT"},
         sweep   |-> {"PENDING_SLIP", "AWAITING_PAYMENT"},
         cleanup |-> {"CANCELLED", "EXPIRED"}]

To == [slip    |-> "AWAITING_PAYMENT",
       upload  |-> "PAYMENT_UNDER_REVIEW",
       confirm |-> "CONFIRMED",
       reject  |-> "EXPIRED",
       cancel  |-> "CANCELLED",
       sweep   |-> "EXPIRED"]

Op == DOMAIN From

\* The requests that give the slot back.
Releases == {"reject", "cancel", "sweep", "cleanup"}

\* The requests that append to the expediente.
Appends == {"upload", "confirm"}

Idle == [op |-> "none", pc |-> "idle", status |-> "none", found |-> FALSE, todo |-> <<>>,
         holds |-> {}, at |-> 0, seen |-> {}, voucher |-> 0, scan |-> "none", own |-> {},
         token |-> FALSE]

\* A second upload finds the status already there and does not write it.
WritesStatus(j) == j.op \in DOMAIN To /\ j.status # To[j.op]

\* Start of a transaction: later than that of every one that left a trace.
Now == 1 + Max({0} \cup {l.at : l \in links} \cup {job[k].at : k \in Worker})

-----------------------------------------------------------------------------
(* Taking a request up.                                                    *)

\* The row as it is read; a request in the wrong status is refused.
Loaded(op) ==
    LET writes == op = "slip" \/ (op = "upload" /\ status = "AWAITING_PAYMENT") IN
    [Idle EXCEPT !.op = op, !.status = status,
                 !.pc = CASE op \in Releases \cup {"confirm"} -> "find"
                          [] op = "delete" -> "unlink"
                          [] writes -> "update"
                          [] OTHER -> "store",
                 !.todo = IF writes THEN <<"reservation">> ELSE <<>>,
                 !.at = IF op \in Appends THEN Now ELSE 0,
                 !.seen = IF op \in Appends THEN Numbers(links) ELSE {}]

\* cancel turns into a clean-up when the reservation is over already.  upload
\* comes with one of the contents, delete with one of the stored vouchers.
Load(k, op) ==
    /\ job[k] = Idle
    /\ op # "sweep"
    /\ status \in From[op]
    /\ CASE op = "upload" -> /\ made + Cardinality({i \in Worker : job[i].op = "upload"}) < MaxVouchers
                             /\ \E s \in Scan :
                                job' = [job EXCEPT ![k] = [Loaded(op) EXCEPT !.scan = s]]
         [] op = "delete" -> \E v \in DOMAIN vouchers :
                                job' = [job EXCEPT ![k] = [Loaded(op) EXCEPT !.voucher = v]]
         [] OTHER -> job' = [job EXCEPT ![k] = Loaded(op)]
    /\ UNCHANGED tables

\* expire_reservations_ttl selects the ids in a transaction of its own ...
Pick(k) ==
    /\ job[k] = Idle
    /\ clock.due /\ ~ clock.frozen /\ status \in From["sweep"]
    /\ job' = [job EXCEPT ![k] = [Idle EXCEPT !.op = "sweep", !.pc = "picked"]]
    /\ UNCHANGED tables

\* Mutant: the status is not looked at again.
LoadPickedBlindly(k) ==
    /\ job[k].pc = "picked"
    /\ job' = [job EXCEPT ![k] = Loaded("sweep")]
    /\ UNCHANGED tables

\* ... and loads each of them in another one, where it looks at the status
\* alone.
LoadPicked(k) ==
    /\ job[k].pc = "picked"
    /\ job' = [job EXCEPT ![k] = IF status \in From["sweep"] THEN Loaded("sweep") ELSE Idle]
    /\ UNCHANGED tables

-----------------------------------------------------------------------------
(* The statements of a transaction.                                        *)

\* Mutant: a confirmation does not flush before it goes on.
FindUnflushed(k) ==
    LET found == slot.holder = "this" IN
    /\ job[k].pc = "find"
    /\ job' = [job EXCEPT ![k].found = found,
                          ![k].pc = IF job[k].op = "confirm" THEN "sync" ELSE "update",
                          ![k].todo = IF job[k].op = "confirm" THEN <<>>
                                      ELSE <<"slot", "reservation">>]
    /\ UNCHANGED tables

\* The slot that carries the reservation's id, if there is one.  A release
\* flushes it before the reservation; a confirmation flushes both together,
\* the reservation first, and writes no slot that is RESERVED already.  The
\* clean-up leaves a RESERVED slot alone.
Find(k) ==
    LET op == job[k].op
        found == slot.holder = "this"
                 /\ (op \in {"confirm", "cleanup"} => slot.estado # "RESERVED")
        todo == CASE op = "cleanup" -> IF found THEN <<"slot">> ELSE <<>>
                  [] ~ found        -> <<"reservation">>
                  [] op = "confirm" -> <<"reservation", "slot">>
                  [] OTHER          -> <<"slot", "reservation">>
    IN
    /\ job[k].pc = "find"
    /\ job' = [job EXCEPT ![k].pc = IF todo = <<>> THEN "commit" ELSE "update",
                          ![k].found = found, ![k].todo = todo]
    /\ UNCHANGED tables

Locked(row) == \E j \in Worker : row \in job[j].holds

\* What a transaction turns to after its UPDATEs.
Following(op) == CASE op = "confirm" -> "sync" [] op = "upload" -> "store" [] OTHER -> "commit"

\* One UPDATE: it waits for the row.
Update(k) ==
    LET j == job[k] IN
    /\ j.pc = "update" /\ ~ Locked(Head(j.todo))
    /\ job' = [job EXCEPT ![k].todo = Tail(@), ![k].holds = @ \cup {Head(j.todo)},
                          ![k].pc = IF Len(j.todo) = 1 THEN Following(j.op) ELSE "update"]
    /\ UNCHANGED tables

\* Two transactions that wait for each other: one is aborted.
Deadlock(k) ==
    /\ job[k].pc = "update"
    /\ \E i \in Worker \ {k} :
        /\ Head(job[k].todo) \in job[i].holds
        /\ job[i].pc = "update"
        /\ Head(job[i].todo) \in job[k].holds
    /\ job' = [job EXCEPT ![k] = Idle]
    /\ UNCHANGED tables

\* The links that a transaction sees, and the next number.
Visible(k) == links \cup job[k].own

NextNumber == 1 + Max({0} \cup Numbers(links \cup UNION {job[k].own : k \in Worker}))

LinkBy(k, doc, prev) == Appended(job[k].own, doc, job[k].at, NextNumber, prev)

\* An upload inserts its voucher, which waits for another of the same content
\* and fails if that is stored; it writes the file, named by the voucher's id;
\* and it appends to the expediente.
Store(k) ==
    LET j == job[k] IN
    /\ j.pc = "store"
    /\ \A i \in Worker : job[i].op = "upload" /\ job[i].pc = "commit" => job[i].scan # j.scan
    /\ IF \E w \in DOMAIN vouchers : vouchers[w] = j.scan
       THEN /\ job' = [job EXCEPT ![k] = Idle]
            /\ UNCHANGED tables
       ELSE /\ \E prev \in LastOf(Visible(k)) :
                job' = [job EXCEPT ![k].pc = "commit", ![k].voucher = made + 1,
                                   ![k].own = LinkBy(k, "voucher", prev)]
            /\ made' = made + 1
            /\ scans' = scans \cup {made + 1}
            /\ UNCHANGED <<status, clock, slot, vouchers, links, papers, cut, stale, tangled>>

\* delete_voucher removes the file, if that succeeds, before the row.
Unlink(k) ==
    /\ job[k].pc = "unlink"
    /\ scans' \in {scans, scans \ {job[k].voucher}}
    /\ job' = [job EXCEPT ![k].pc = "commit"]
    /\ UNCHANGED <<status, clock, slot, vouchers, links, papers, made, cut, stale, tangled>>

\* The types that the expediente lacks.
Missing(k) == Draft \ {l.doc : l \in Visible(k)}

\* sync_kyc_documents_to_expediente_for_reservation: one link for each type
\* that has none, in no particular order.
Sync(k) ==
    /\ job[k].pc = "sync"
    /\ \E d \in Missing(k), prev \in LastOf(Visible(k)) :
            job' = [job EXCEPT ![k].own = LinkBy(k, d, prev)]
    /\ UNCHANGED tables

\* Then the service order is inserted, and the token if none is found.  (The
\* unique key of the token stays out of the model: see OneToken.)
Papers(k) ==
    /\ job[k].pc = "sync" /\ Missing(k) = {}
    /\ job' = [job EXCEPT ![k].pc = "commit", ![k].token = (papers.tokens = 0)]
    /\ UNCHANGED tables

\* What the transaction wrote to the slot it had found.
SlotAfter(j) ==
    CASE j.found /\ j.op \in Releases  -> [estado |-> "AVAILABLE", holder |-> "nobody"]
      [] j.found /\ j.op = "confirm"   -> [slot EXCEPT !.estado = "RESERVED"]
      [] OTHER                         -> slot

\* The rows of payment_vouchers.
VouchersAfter(j) ==
    CASE j.op = "upload" -> [v \in DOMAIN vouchers \cup {j.voucher} |->
                                IF v = j.voucher THEN j.scan ELSE vouchers[v]]
      [] j.op = "delete" -> [v \in DOMAIN vouchers \ {j.voucher} |-> vouchers[v]]
      [] OTHER           -> vouchers

Commit(k) ==
    LET j == job[k] IN
    /\ j.pc = "commit"
    /\ status' = IF WritesStatus(j) THEN To[j.op] ELSE status
    /\ clock' = [clock EXCEPT !.frozen = @ \/ (j.op = "upload" /\ WritesStatus(j))]
    /\ slot' = SlotAfter(j)
    /\ vouchers' = VouchersAfter(j)
    /\ links' = links \cup j.own
    /\ papers' = [orders |-> papers.orders + IF j.op = "confirm" THEN 1 ELSE 0,
                  tokens |-> papers.tokens + IF j.token THEN 1 ELSE 0]
    /\ stale' = (stale \/ (WritesStatus(j) /\ j.status # status))
    /\ tangled' = (tangled \/ (j.own # {} /\ Numbers(links) # j.seen))
    /\ job' = [job EXCEPT ![k] = Idle]
    /\ UNCHANGED <<scans, made, cut>>

\* The worker is killed and the database rolls its transaction back: that leaves
\* a trace only if a file was written or removed.
KillWorker(k) ==
    /\ job[k].pc = "commit" /\ job[k].op \in {"upload", "delete"}
    /\ job' = [job EXCEPT ![k] = Idle]
    /\ cut' = IF job[k].op = "delete" THEN cut \cup ({job[k].voucher} \ scans) ELSE cut
    /\ UNCHANGED <<status, clock, slot, vouchers, scans, links, papers, made, stale, tangled>>

-----------------------------------------------------------------------------
(* The surroundings.                                                       *)

TtlPasses ==
    /\ ~ clock.due
    /\ clock' = [clock EXCEPT !.due = TRUE]
    /\ UNCHANGED <<status, slot, vouchers, scans, links, papers, job, made, cut, stale, tangled>>

\* Another reservation takes the slot as soon as it is free; that it is free
\* is checked under the lock of the row.
OtherClaims ==
    /\ slot.estado = "AVAILABLE" /\ ~ Locked("slot")
    /\ slot' = [estado |-> "TTL_BLOCKED", holder |-> "other"]
    /\ UNCHANGED <<status, clock, vouchers, scans, links, papers, job, made, cut, stale, tangled>>

SettlementInit ==
    /\ status = "PENDING_SLIP"
    /\ clock = [frozen |-> FALSE, due |-> FALSE]
    /\ slot = [estado |-> "TTL_BLOCKED", holder |-> "this"]
    /\ vouchers = <<>> /\ scans = {} /\ links = {}
    /\ papers = [orders |-> 0, tokens |-> 0]
    /\ job = [k \in Worker |-> Idle]
    /\ made = 0 /\ cut = {}
    /\ stale = FALSE /\ tangled = FALSE

Advance(k) ==
    \/ LoadPicked(k) \/ Find(k) \/ Update(k) \/ Deadlock(k)
    \/ Store(k) \/ Unlink(k) \/ Sync(k) \/ Papers(k) \/ Commit(k)

SettlementNext ==
    \/ TtlPasses \/ OtherClaims
    \/ \E k \in Worker :
        \/ Advance(k) \/ KillWorker(k) \/ Pick(k)
        \/ \E op \in Op : Load(k, op)

SettlementSpec == SettlementInit /\ [][SettlementNext]_settlementVars

-----------------------------------------------------------------------------
(* Properties.                                                             *)

\* Types of the tables and the jobs.
SettlementTypeOK ==
    /\ status \in Live \cup Settled
    /\ clock \in [frozen : BOOLEAN, due : BOOLEAN]
    /\ slot \in [estado : {"AVAILABLE", "TTL_BLOCKED", "RESERVED"},
                 holder : {"this", "other", "nobody"}]
    /\ DOMAIN vouchers \subseteq 1..made /\ scans \subseteq 1..made /\ made <= MaxVouchers
    /\ \A v, w \in DOMAIN vouchers : vouchers[v] = vouchers[w] => v = w
    /\ \A k \in Worker : /\ job[k].status = "none" \/ job[k].status \in From[job[k].op]
                         /\ job[k].holds \subseteq {"reservation", "slot"}

\* The slot is the reservation's exactly as long as the reservation lives, and
\* RESERVED exactly if it is confirmed, unless a request wrote its status over
\* one that it had not seen (booking/services.py:165-262: no lock is taken
\* before the status is checked).
SlotFollowsStatus ==
    ~ stale => /\ slot.holder = "this" <=> status \in Live
               /\ slot.estado = "RESERVED" <=> status = "CONFIRMED"

\* With the same exception, a slot that went to another reservation is left
\* alone (release_inventory_for_reservation included).
OthersKeepTheirSlot ==
    [][slot.holder = "other" => (slot' = slot \/ stale')]_settlementVars

\* With the same exception, what is confirmed, expired or cancelled stays so.
SettledForGood ==
    [][(status \in Settled) => (status' = status \/ stale')]_settlementVars

\* A confirmed reservation has its order and its token, and with the same
\* exception only one order (booking/router.py:931-945).
ConfirmedHasPapers ==
    /\ status = "CONFIRMED" => papers.orders >= 1 /\ papers.tokens >= 1
    /\ ~ stale => papers.orders <= 1

\* However confirmations overlap, the unique key of the token is never hit:
\* the token is looked for after the reservation's row was locked
\* (access/services.py:20-26).
OneToken == papers.tokens <= 1

\* Nor is a KYC document copied to the expediente twice
\* (kyc_expediente.py:79-81).
KycLinkedOnce ==
    \A l, m \in links : l.doc = m.doc /\ l.doc # "voucher" => l = m

\* Links with the same created_at: one transaction appended them.
Tied == \E l, m \in links : l # m /\ l.at = m.at

\* Three of them.
ThreeTied ==
    \E l, m, n \in links : l # m /\ l # n /\ m # n /\ l.at = m.at /\ l.at = n.at

\* The expediente is one chain, unless transactions that append to it
\* overlapped, one appended more than two links, or a late write took a
\* confirmation back that had appended two (expediente/services.py: the last
\* link is looked for by created_at).
ChainForksOnlyInRaces == Linear(links) \/ tangled \/ (stale /\ Tied) \/ ThreeTied

\* The module's promise of a chain, for confirmations of any number of
\* documents and without any overlap (expediente/models.py:18).
ChainIsLinear == Linear(links)

\* A voucher that is listed can be downloaded, unless its deletion is under way
\* or was cut off after the file went.
VouchersHaveScans ==
    DOMAIN vouchers \ {job[k].voucher : k \in {w \in Worker : job[w].op = "delete"}}
        \subseteq scans \cup cut

\* A reservation with its slot, papers and vouchers, whatever its handlers
\* overlap with (booking/services.py, booking/router.py).
SettlementInv ==
    /\ SettlementTypeOK
    /\ SlotFollowsStatus
    /\ ConfirmedHasPapers /\ OneToken /\ KycLinkedOnce
    /\ VouchersHaveScans

\* What no late write may do.
NoLateWrites == OthersKeepTheirSlot /\ SettledForGood

=============================================================================
