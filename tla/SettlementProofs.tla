-------------------------- MODULE SettlementProofs --------------------------
(***************************************************************************)
(* Theorems about the settlement of a reservation, for any number of       *)
(* overlapping requests, vouchers and KYC documents: its tables, what no   *)
(* late write may do, and the chain of its expediente.                     *)
(***************************************************************************)
EXTENDS Settlement, FiniteData

-----------------------------------------------------------------------------
(* What the inductive invariant says of one job.                           *)

\* A job is a record with the fields of Idle.
IsJob(j) ==
    j = [op |-> j.op, pc |-> j.pc, status |-> j.status, found |-> j.found, todo |-> j.todo,
         holds |-> j.holds, at |-> j.at, seen |-> j.seen, voucher |-> j.voucher,
         scan |-> j.scan, own |-> j.own, token |-> j.token]

Finding == Releases \cup {"confirm"}

Rows == {"reservation", "slot"}

Todos == {<<>>, <<"reservation">>, <<"slot">>, <<"reservation", "slot">>,
          <<"slot", "reservation">>}

\* Where each request may stand, and that a confirmation goes on from its
\* UPDATEs with the lock of the reservation.
Placed(j) ==
    /\ IsJob(j)
    /\ j.pc = "idle" => j = Idle
    /\ j.pc = "picked" => j.op = "sweep" /\ j.status = "none" /\ j.own = {} /\ j.holds = {}
    /\ j.pc \notin {"idle", "picked"} => j.op \in Op /\ j.status \in From[j.op]
    /\ j.pc \in {"idle", "picked", "find", "update", "store", "unlink", "sync", "commit"}
    /\ j.op = "delete" => j.pc \in {"unlink", "commit"}
    /\ j.pc = "find" => j.op \in Finding
    /\ j.pc = "unlink" => j.op = "delete"
    /\ j.pc = "store" => j.op = "upload"
    /\ j.pc = "sync" => j.op = "confirm"
    /\ j.pc \in {"picked", "find"} => ~ j.found
    /\ j.found => j.op \in Finding
    /\ j.holds \subseteq Rows
    /\ j.todo \in Todos
    /\ j.pc = "update" => j.todo # <<>>
    /\ j.op = "confirm" /\ j.pc = "update" =>
         j.todo \in {<<"reservation">>, <<"reservation", "slot">>} \/ "reservation" \in j.holds
    /\ j.op = "confirm" /\ j.pc \in {"sync", "commit"} => "reservation" \in j.holds
    /\ j.token => j.op = "confirm" /\ j.pc = "commit"
    /\ j.own # {} => \/ j.op = "upload" /\ j.pc = "commit"
                     \/ j.op = "confirm" /\ j.pc \in {"sync", "commit"}

\* The statuses that may follow one.
Later == [PENDING_SLIP         |-> Live \cup Settled,
          AWAITING_PAYMENT     |-> (Live \cup Settled) \ {"PENDING_SLIP"},
          PAYMENT_UNDER_REVIEW |-> {"PAYMENT_UNDER_REVIEW", "CONFIRMED", "EXPIRED"},
          CONFIRMED            |-> {"CONFIRMED"},
          EXPIRED              |-> {"EXPIRED"},
          CANCELLED            |-> {"CANCELLED"}]

\* Unless something was overwritten, the status has only gone on since it was
\* loaded; and while it is what was loaded, so is the slot.
Timely(j) ==
    ~ stale /\ j.status # "none" =>
        /\ status \in Later[j.status]
        /\ j.op = "cleanup" => ~ j.found
        /\ j.op \in Finding \ {"cleanup"} /\ j.pc # "find" /\ status = j.status => j.found

Tokened(j) ==
    /\ j.token => papers.tokens = 0
    /\ j.op = "confirm" /\ j.pc = "commit" => j.token \/ papers.tokens = 1

\* The links a transaction has in store are of types that the expediente lacks.
Linked(j) ==
    /\ j.op = "upload" => \A l \in j.own : l.doc = "voucher"
    /\ \A l \in j.own : l.doc # "voucher" =>
        /\ \A m \in links : m.doc # l.doc
        /\ \A m \in j.own : m.doc = l.doc => m = l

\* What an upload has written and a deletion takes away.
Scanned(j) ==
    /\ j.op = "upload" /\ j.pc = "commit" =>
         /\ j.voucher \in scans /\ j.voucher \in 1..made
         /\ j.voucher \notin DOMAIN vouchers
         /\ \A w \in DOMAIN vouchers : vouchers[w] # j.scan
    /\ j.op = "delete" => j.voucher \in 1..made

\* Two jobs.
Uploading(j) == j.op = "upload" /\ j.pc = "commit"

Apart(i, j) ==
    /\ i.holds \cap j.holds = {}
    /\ Uploading(i) /\ Uploading(j) => i.voucher # j.voucher /\ i.scan # j.scan
    /\ Uploading(i) /\ j.op = "delete" => i.voucher # j.voucher
    /\ Uploading(j) /\ i.op = "delete" => i.voucher # j.voucher

-----------------------------------------------------------------------------
(* What it says of the tables.                                             *)

Coming == {k \in Worker : job[k].op = "upload" /\ job[k].pc # "commit"}

TablesSafe ==
    /\ status \in Live \cup Settled
    /\ clock \in [frozen : BOOLEAN, due : BOOLEAN]
    /\ slot \in [estado : {"AVAILABLE", "TTL_BLOCKED", "RESERVED"},
                 holder : {"this", "other", "nobody"}]
    /\ slot.estado = "AVAILABLE" => slot.holder = "nobody"
    /\ SlotFollowsStatus
    /\ papers \in [orders : Nat, tokens : 0..1]
    /\ status = "CONFIRMED" => papers.orders >= 1 /\ papers.tokens = 1
    /\ ~ stale => papers.orders <= 1 /\ (papers.orders = 1 => status = "CONFIRMED")
    /\ stale \in BOOLEAN /\ tangled \in BOOLEAN
    /\ KycLinkedOnce
    /\ vouchers = [v \in DOMAIN vouchers |-> vouchers[v]]
    /\ DOMAIN vouchers \subseteq 1..made /\ scans \subseteq 1..made
    /\ \A v, w \in DOMAIN vouchers : vouchers[v] = vouchers[w] => v = w

Bounded == made \in Nat /\ made + Cardinality(Coming) <= MaxVouchers

Jobs == job = [k \in Worker |-> job[k]]

OneByOne ==
    \A k \in Worker :
        Placed(job[k]) /\ Timely(job[k]) /\ Tokened(job[k]) /\ Linked(job[k]) /\ Scanned(job[k])

TwoByTwo == \A i, k \in Worker : i # k => Apart(job[i], job[k])

SettlementSafe ==
    TablesSafe /\ Bounded /\ Jobs /\ OneByOne /\ TwoByTwo /\ VouchersHaveScans

-----------------------------------------------------------------------------
(* A request takes a step of its own and leaves the tables alone.          *)

\* The operations, and the statuses they start from.
LEMMA OpIs ==
    /\ Op = {"slip", "upload", "delete", "confirm", "reject", "cancel", "sweep", "cleanup"}
    /\ \A op \in Op : From[op] \subseteq Live \cup Settled
    /\ DOMAIN To = {"slip", "upload", "confirm", "reject", "cancel", "sweep"}
  BY DEF Op, From, To, Live, Settled

\* What two jobs are to each other they are both ways.
LEMMA ApartSymmetric == \A i, j : Apart(i, j) => Apart(j, i)
  BY DEF Apart

\* A job that takes no lock and finishes no upload is as far apart as before.
LEMMA ApartStill ==
    ASSUME NEW i, NEW j, NEW m, Apart(i, j), m.holds \subseteq j.holds,
           Uploading(m) => Uploading(j) /\ m.voucher = j.voucher /\ m.scan = j.scan,
           m.op = "delete" => j.op = "delete" /\ m.voucher = j.voucher
    PROVE  Apart(i, m)
  BY DEF Apart

\* A job that takes a step leaves the other ones as they are.
LEMMA JobsAfter ==
    ASSUME Jobs, NEW k \in Worker, NEW m, job' = [job EXCEPT ![k] = m]
    PROVE  Jobs' /\ job'[k] = m /\ \A i \in Worker : i # k => job'[i] = job[i]
  BY DEF Jobs

\* The workers are finitely many, and any set of them can be counted.
LEMMA ComingFinite ==
    /\ IsFiniteSet(Coming) /\ Cardinality(Coming) \in Nat
    /\ \A S \in SUBSET Worker : IsFiniteSet(S) /\ Cardinality(S) \in Nat
  BY SettlementAssumption, FS_Subset, FS_CardinalityType DEF Coming

\* The bound on vouchers holds when no new upload is begun.
LEMMA BoundedStill ==
    ASSUME Bounded, Jobs, NEW k \in Worker, NEW m, job' = [job EXCEPT ![k] = m],
           UNCHANGED made, m.op = "upload" => m.pc = "commit" \/ k \in Coming
    PROVE  Bounded'
<1>1. Coming' \subseteq Coming
  BY JobsAfter DEF Coming
<1>2. Cardinality(Coming') <= Cardinality(Coming) /\ Cardinality(Coming') \in Nat
  BY <1>1, ComingFinite, FS_Subset, FS_CardinalityType
<1> QED
  BY <1>2, ComingFinite, SettlementAssumption DEF Bounded

\* A step that leaves the tables alone keeps what is said of them,
LEMMA TablesFrame ==
    ASSUME TablesSafe, UNCHANGED tables PROVE TablesSafe'
  BY DEF TablesSafe, tables, SlotFollowsStatus, KycLinkedOnce

\* and what is said of a job against them.
LEMMA SoloFrame ==
    ASSUME UNCHANGED tables, NEW m
    PROVE  /\ Timely(m) => Timely(m)'
           /\ Tokened(m) => Tokened(m)'
           /\ Linked(m) => Linked(m)'
           /\ Scanned(m) => Scanned(m)'
  BY DEF tables, Timely, Tokened, Linked, Scanned

\* The invariant follows from what a moved job is, when the tables stay.
LEMMA JobMoves ==
    ASSUME SettlementSafe, UNCHANGED tables, NEW k \in Worker, NEW m,
           job' = [job EXCEPT ![k] = m], Bounded',
           Placed(m), Timely(m), Tokened(m), Linked(m), Scanned(m),
           \A i \in Worker : i # k => Apart(job[i], m),
           job[k].op = "delete" => m.op = "delete" /\ m.voucher = job[k].voucher
    PROVE  SettlementSafe'
<1>1. Jobs' /\ job'[k] = m /\ \A i \in Worker : i # k => job'[i] = job[i]
  BY JobsAfter DEF SettlementSafe
<1>2. TablesSafe'
  BY TablesFrame DEF SettlementSafe
<1>3. ASSUME NEW i \in Worker
      PROVE  Placed(job[i])' /\ Timely(job[i])' /\ Tokened(job[i])' /\ Linked(job[i])'
             /\ Scanned(job[i])'
  <2>1. PICK n : n = job'[i]
    OBVIOUS
  <2>2. Placed(n) /\ Timely(n) /\ Tokened(n) /\ Linked(n) /\ Scanned(n)
    BY <1>1, <2>1 DEF SettlementSafe, OneByOne
  <2>3. Timely(n)' /\ Tokened(n)' /\ Linked(n)' /\ Scanned(n)'
    BY <2>2, SoloFrame
  <2>4. Placed(job[i])'
    BY <2>1, <2>2 DEF Placed, IsJob
  <2> QED
    BY <2>1, <2>3, <2>4 DEF Timely, Tokened, Linked, Scanned
<1>4. ASSUME NEW i \in Worker, NEW j \in Worker, i # j PROVE Apart(job[i], job[j])'
  <2>1. Apart(job'[i], job'[j])
    BY <1>1, <1>4, ApartSymmetric DEF SettlementSafe, TwoByTwo
  <2> QED
    BY <2>1 DEF Apart, Uploading
<1>5. VouchersHaveScans'
  <2>1. \A i \in Worker : job[i].op = "delete" =>
            job'[i].op = "delete" /\ job'[i].voucher = job[i].voucher
    BY <1>1
  <2>2. {job[i].voucher : i \in {w \in Worker : job[w].op = "delete"}}
            \subseteq {job'[i].voucher : i \in {w \in Worker : job'[w].op = "delete"}}
    BY <2>1
  <2> QED
    BY <2>2 DEF SettlementSafe, VouchersHaveScans, tables
<1> QED
  BY <1>1, <1>2, <1>3, <1>4, <1>5 DEF SettlementSafe, OneByOne, TwoByTwo

\* A job that is over is in nobody's way.
LEMMA IdleSafe ==
    /\ Placed(Idle) /\ Timely(Idle) /\ Tokened(Idle) /\ Linked(Idle) /\ Scanned(Idle)
    /\ \A i : Apart(i, Idle)
  BY DEF Placed, IsJob, Idle, Timely, Tokened, Linked, Scanned, Apart, Uploading, Finding,
         Releases, Todos, Rows

\* What a request loads: the status it found is one it goes ahead in.
LEMMA LoadedSafe ==
    ASSUME TablesSafe, NEW op \in Op, status \in From[op], NEW m, IsJob(m),
           m.op = op, m.status = status, m.pc = Loaded(op).pc, m.todo = Loaded(op).todo,
           m.found = FALSE, m.holds = {}, m.own = {}, m.token = FALSE,
           op = "delete" => m.voucher \in 1..made
    PROVE  /\ Placed(m) /\ Timely(m) /\ Tokened(m) /\ Linked(m) /\ Scanned(m)
           /\ ~ Uploading(m) /\ m.pc \in {"find", "unlink", "update", "store"}
<1>1. /\ op \in Finding => m.pc = "find" /\ m.todo = <<>>
      /\ op = "delete" => m.pc = "unlink" /\ m.todo = <<>>
      /\ op \notin Finding \cup {"delete"} => m.pc \in {"update", "store"}
      /\ m.pc = "store" => op = "upload"
      /\ m.pc = "update" => m.todo = <<"reservation">>
      /\ m.todo \in Todos
  BY OpIs DEF Loaded, Idle, Finding, Releases, Todos
<1>2. /\ m.pc \in {"find", "unlink", "update", "store"}
      /\ m.pc = "find" => op \in Finding
      /\ m.pc = "unlink" => op = "delete"
      /\ op = "confirm" => m.pc = "find"
      /\ op = "delete" => m.pc = "unlink"
      /\ m.pc = "update" => m.todo # <<>>
      /\ m.holds \subseteq Rows /\ m.todo \in Todos
  BY <1>1 DEF Finding, Releases
<1>3. Placed(m)
  BY <1>1, <1>2, Zenon DEF Placed
<1>4. Timely(m)
  BY <1>1, <1>2, OpIs DEF Timely, Later, TablesSafe, Live, Settled
<1> QED
  BY <1>2, <1>3, <1>4 DEF Tokened, Linked, Scanned, Uploading

\* A request that has just loaded its reservation.
LEMMA LoadedIsJob ==
    ASSUME NEW op
    PROVE  /\ IsJob(Loaded(op)) /\ Loaded(op).op = op /\ Loaded(op).status = status
           /\ Loaded(op).found = FALSE /\ Loaded(op).holds = {} /\ Loaded(op).own = {}
           /\ Loaded(op).token = FALSE
<1>1. PICK p, t, a, n :
          Loaded(op) = [Idle EXCEPT !.op = op, !.status = status, !.pc = p, !.todo = t,
                                    !.at = a, !.seen = n]
  BY DEF Loaded
<1>2. PICK m : m = Loaded(op)
  OBVIOUS
<1>3. m = [Idle EXCEPT !.op = op, !.status = status, !.pc = p, !.todo = t, !.at = a,
                       !.seen = n]
  BY <1>1, <1>2
<1>4. /\ IsJob(m) /\ m.op = op /\ m.status = status /\ m.found = FALSE
      /\ m.holds = {} /\ m.own = {} /\ m.token = FALSE
  BY <1>3 DEF Idle, IsJob
<1> QED
  BY <1>2, <1>4

\* A job with another content or voucher.
LEMMA WithScan ==
    ASSUME NEW j, IsJob(j), NEW x, NEW m, m = [j EXCEPT !.scan = x]
    PROVE  /\ IsJob(m) /\ m.op = j.op /\ m.status = j.status /\ m.pc = j.pc /\ m.todo = j.todo
           /\ m.found = j.found /\ m.holds = j.holds /\ m.own = j.own /\ m.token = j.token
  BY DEF IsJob

\* The same job, about a certain voucher.
LEMMA WithVoucher ==
    ASSUME NEW j, IsJob(j), NEW x, NEW m, m = [j EXCEPT !.voucher = x]
    PROVE  /\ IsJob(m) /\ m.op = j.op /\ m.status = j.status /\ m.pc = j.pc /\ m.todo = j.todo
           /\ m.found = j.found /\ m.holds = j.holds /\ m.own = j.own /\ m.token = j.token
           /\ m.voucher = x
  BY DEF IsJob

\* A job that locks nothing, uploads nothing yet and deletes nothing.
LEMMA ApartFromNew ==
    ASSUME NEW i, NEW m, m.holds = {}, ~ Uploading(m),
           m.op = "delete" /\ Uploading(i) => i.voucher # m.voucher
    PROVE  Apart(i, m)
  BY DEF Apart

\* A handler loads its reservation and checks the status (booking/services.py).
LEMMA LoadStep ==
    ASSUME SettlementSafe, NEW k \in Worker, NEW op \in Op, Load(k, op)
    PROVE  SettlementSafe'
<1>0. job[k] = Idle /\ status \in From[op] /\ UNCHANGED tables /\ Jobs /\ TablesSafe
  BY DEF Load, SettlementSafe
<1>1. \E m : /\ job' = [job EXCEPT ![k] = m] /\ IsJob(m)
             /\ m.op = op /\ m.status = status /\ m.pc = Loaded(op).pc
             /\ m.todo = Loaded(op).todo /\ m.found = FALSE /\ m.holds = {} /\ m.own = {}
             /\ m.token = FALSE
             /\ op = "delete" => m.voucher \in DOMAIN vouchers
  <2>1. CASE op = "upload"
    <3>1. PICK x \in Scan : job' = [job EXCEPT ![k] = [Loaded(op) EXCEPT !.scan = x]]
      BY <2>1 DEF Load
    <3>2. PICK j, m : j = Loaded(op) /\ m = [j EXCEPT !.scan = x]
      OBVIOUS
    <3>3. /\ IsJob(j) /\ j.op = op /\ j.status = status /\ j.pc = Loaded(op).pc
          /\ j.todo = Loaded(op).todo /\ j.found = FALSE /\ j.holds = {} /\ j.own = {}
          /\ j.token = FALSE
      BY <3>2, LoadedIsJob
    <3>4. IsJob(m) /\ m.op = op /\ m.status = status /\ m.pc = Loaded(op).pc
          /\ m.todo = Loaded(op).todo /\ m.found = FALSE /\ m.holds = {} /\ m.own = {}
          /\ m.token = FALSE
      BY <3>2, <3>3, WithScan
    <3> QED
      BY <2>1, <3>1, <3>2, <3>4
  <2>2. CASE op = "delete"
    <3>1. PICK v \in DOMAIN vouchers :
              job' = [job EXCEPT ![k] = [Loaded(op) EXCEPT !.voucher = v]]
      BY <2>2 DEF Load
    <3>2. PICK j, m : j = Loaded(op) /\ m = [j EXCEPT !.voucher = v]
      OBVIOUS
    <3>3. /\ IsJob(j) /\ j.op = op /\ j.status = status /\ j.pc = Loaded(op).pc
          /\ j.todo = Loaded(op).todo /\ j.found = FALSE /\ j.holds = {} /\ j.own = {}
          /\ j.token = FALSE
      BY <3>2, LoadedIsJob
    <3>4. IsJob(m) /\ m.op = op /\ m.status = status /\ m.pc = Loaded(op).pc
          /\ m.todo = Loaded(op).todo /\ m.found = FALSE /\ m.holds = {} /\ m.own = {}
          /\ m.token = FALSE /\ m.voucher = v
      BY <3>2, <3>3, WithVoucher
    <3> QED
      BY <3>1, <3>2, <3>4
  <2>3. CASE op \notin {"upload", "delete"}
    <3>1. job' = [job EXCEPT ![k] = Loaded(op)]
      BY <2>3 DEF Load
    <3>2. PICK m : m = Loaded(op)
      OBVIOUS
    <3> QED
      BY <2>3, <3>1, <3>2, LoadedIsJob
  <2> QED
    BY <2>1, <2>2, <2>3
<1>2. PICK m : /\ job' = [job EXCEPT ![k] = m] /\ IsJob(m)
               /\ m.op = op /\ m.status = status /\ m.pc = Loaded(op).pc
               /\ m.todo = Loaded(op).todo /\ m.found = FALSE /\ m.holds = {} /\ m.own = {}
               /\ m.token = FALSE
               /\ op = "delete" => m.voucher \in DOMAIN vouchers
  BY <1>1
<1>3. /\ Placed(m) /\ Timely(m) /\ Tokened(m) /\ Linked(m) /\ Scanned(m)
      /\ ~ Uploading(m)
  BY <1>0, <1>2, LoadedSafe DEF TablesSafe
<1>4. ASSUME NEW i \in Worker PROVE Apart(job[i], m)
  <2>1. m.op = "delete" /\ Uploading(job[i]) => job[i].voucher # m.voucher
    BY <1>2 DEF SettlementSafe, OneByOne, Scanned, Uploading
  <2> QED
    BY <1>2, <1>3, <2>1, ApartFromNew
<1>5. Bounded'
  <2>1. CASE op = "upload"
    <3>1. made + Cardinality({i \in Worker : job[i].op = "upload"}) < MaxVouchers
      BY <2>1 DEF Load
    <3>2. Coming' \subseteq {i \in Worker : job[i].op = "upload"} \cup {k}
      BY <1>0, <1>2, JobsAfter DEF Coming
    <3> DEFINE S == {i \in Worker : job[i].op = "upload"}
    <3>3. IsFiniteSet(S) /\ IsFiniteSet(S \cup {k}) /\ Cardinality(S) \in Nat
          /\ Cardinality(S \cup {k}) \in Nat /\ Cardinality(Coming') \in Nat
      <4>1. S \in SUBSET Worker /\ S \cup {k} \in SUBSET Worker /\ Coming' \in SUBSET Worker
        BY <3>2
      <4> QED
        BY <4>1, ComingFinite
    <3>4. k \notin S
      BY <1>0 DEF Idle
    <3>5. Cardinality(S \cup {k}) = Cardinality(S) + 1
      BY <3>3, <3>4, FS_AddElement
    <3>6. Cardinality(Coming') <= Cardinality(S \cup {k})
      BY <3>2, <3>3, FS_Subset
    <3> HIDE DEF S
    <3>7. made + Cardinality(S) < MaxVouchers
      BY <3>1 DEF S
    <3>8. made \in Nat /\ made' = made /\ MaxVouchers \in Nat
      BY <1>0, SettlementAssumption DEF SettlementSafe, Bounded, tables
    <3> QED
      BY <3>3, <3>5, <3>6, <3>7, <3>8 DEF Bounded
  <2>2. CASE op # "upload"
    BY <1>0, <1>2, <2>2, BoundedStill DEF SettlementSafe, tables
  <2> QED
    BY <2>1, <2>2
<1>6. job[k].op # "delete"
  BY <1>0 DEF Idle
<1> QED
  BY <1>0, <1>2, <1>3, <1>4, <1>5, <1>6, JobMoves

\* The sweep selects the reservation.
LEMMA PickStep ==
    ASSUME SettlementSafe, NEW k \in Worker, Pick(k) PROVE SettlementSafe'
<1>1. PICK m : m = [Idle EXCEPT !.op = "sweep", !.pc = "picked"]
  OBVIOUS
<1>2. job' = [job EXCEPT ![k] = m] /\ UNCHANGED tables /\ job[k] = Idle
  BY <1>1 DEF Pick
<1>3. /\ IsJob(m) /\ m.op = "sweep" /\ m.pc = "picked" /\ m.status = "none" /\ m.own = {}
      /\ m.holds = {} /\ m.found = FALSE /\ m.todo = <<>> /\ m.token = FALSE
  BY <1>1 DEF Idle, IsJob
<1>4. /\ Placed(m) /\ Timely(m) /\ Tokened(m) /\ Linked(m) /\ Scanned(m)
      /\ ~ Uploading(m)
  BY <1>3 DEF Placed, Timely, Tokened, Linked, Scanned, Uploading, Todos
<1>5. \A i \in Worker : Apart(job[i], m)
  BY <1>3, <1>4, ApartFromNew
<1>6. Bounded'
  BY <1>2, <1>3, BoundedStill DEF SettlementSafe, tables
<1>7. job[k].op # "delete"
  BY <1>2 DEF Idle
<1> QED
  BY <1>2, <1>4, <1>5, <1>6, <1>7, JobMoves

\* A request gives up, or the database ends it, before it wrote a table.
LEMMA StopStep ==
    ASSUME SettlementSafe, NEW k \in Worker, job[k].op # "delete",
           job' = [job EXCEPT ![k] = Idle], UNCHANGED tables
    PROVE  SettlementSafe'
<1>1. PICK m : m = Idle
  OBVIOUS
<1>2. Bounded'
  BY BoundedStill DEF SettlementSafe, tables, Idle
<1> QED
  BY <1>1, <1>2, IdleSafe, JobMoves

\* It loads it, in a transaction of its own.
LEMMA PickedStep ==
    ASSUME SettlementSafe, NEW k \in Worker, LoadPicked(k) PROVE SettlementSafe'
<1>0. job[k].pc = "picked" /\ job[k].op = "sweep" /\ UNCHANGED tables /\ TablesSafe
  BY DEF LoadPicked, SettlementSafe, OneByOne, Placed
<1>1. CASE status \notin From["sweep"]
  BY <1>0, <1>1, StopStep DEF LoadPicked
<1>2. CASE status \in From["sweep"]
  <2>1. PICK m : m = Loaded("sweep")
    OBVIOUS
  <2>2. job' = [job EXCEPT ![k] = m]
    BY <1>2, <2>1 DEF LoadPicked
  <2>3. /\ IsJob(m) /\ m.op = "sweep" /\ m.status = status /\ m.pc = Loaded("sweep").pc
        /\ m.todo = Loaded("sweep").todo /\ m.found = FALSE /\ m.holds = {} /\ m.own = {}
        /\ m.token = FALSE
    BY <2>1, LoadedIsJob
  <2>4. /\ Placed(m) /\ Timely(m) /\ Tokened(m) /\ Linked(m) /\ Scanned(m) /\ ~ Uploading(m)
    BY <1>0, <1>2, <2>3, OpIs, LoadedSafe
  <2>5. \A i \in Worker : Apart(job[i], m)
    BY <2>3, <2>4, ApartFromNew
  <2>6. Bounded'
    BY <1>0, <2>2, <2>3, BoundedStill DEF SettlementSafe, tables
  <2> QED
    BY <1>0, <2>2, <2>4, <2>5, <2>6, JobMoves
<1> QED
  BY <1>1, <1>2

\* A job that waits in a cycle is rolled back.
LEMMA DeadlockStep ==
    ASSUME SettlementSafe, NEW k \in Worker, Deadlock(k) PROVE SettlementSafe'
<1>1. job[k].op # "delete"
  BY DEF Deadlock, SettlementSafe, OneByOne, Placed
<1> QED
  BY <1>1, StopStep DEF Deadlock

\* What the invariant says of one job.
LEMMA JobFacts ==
    ASSUME SettlementSafe, NEW k \in Worker, NEW j, j = job[k]
    PROVE  /\ Placed(j) /\ Timely(j) /\ Tokened(j) /\ Linked(j) /\ Scanned(j)
           /\ \A i \in Worker : i # k => Apart(job[i], j)
  BY DEF SettlementSafe, OneByOne, TwoByTwo

\* A handler looks for the slot of its reservation.
LEMMA FindStep ==
    ASSUME SettlementSafe, NEW k \in Worker, Find(k) PROVE SettlementSafe'
<1> DEFINE found == slot.holder = "this" /\ (job[k].op \in {"confirm", "cleanup"} =>
                                                slot.estado # "RESERVED")
           todo == CASE job[k].op = "cleanup" -> IF found THEN <<"slot">> ELSE <<>>
                     [] ~ found               -> <<"reservation">>
                     [] job[k].op = "confirm" -> <<"reservation", "slot">>
                     [] OTHER                 -> <<"slot", "reservation">>
<1>2. PICK j, m : j = job[k] /\ m = [j EXCEPT !.pc = IF todo = <<>> THEN "commit" ELSE "update",
                                              !.found = found, !.todo = todo]
  OBVIOUS
<1>3. job' = [job EXCEPT ![k] = m] /\ UNCHANGED tables /\ j.pc = "find"
  <2>1. /\ job' = [job EXCEPT ![k].pc = IF todo = <<>> THEN "commit" ELSE "update",
                               ![k].found = found, ![k].todo = todo]
        /\ UNCHANGED tables /\ j.pc = "find"
    BY <1>2 DEF Find
  <2> HIDE DEF found, todo
  <2>2. job' = [job EXCEPT ![k] = m]
    BY <1>2, <2>1 DEF SettlementSafe, Jobs
  <2> QED
    BY <2>1, <2>2
<1>4. /\ Placed(j) /\ Timely(j) /\ Tokened(j) /\ Linked(j) /\ Scanned(j)
      /\ \A i \in Worker : i # k => Apart(job[i], j)
  BY <1>2, JobFacts
<1>5. /\ IsJob(m) /\ m.pc = (IF todo = <<>> THEN "commit" ELSE "update")
      /\ m.found = found /\ m.todo = todo
      /\ m.op = j.op /\ m.status = j.status /\ m.holds = j.holds /\ m.own = j.own
      /\ m.token = j.token /\ m.voucher = j.voucher
  BY <1>2, <1>4 DEF Placed, IsJob
<1>6. /\ j.op \in Finding /\ j.op \in Op /\ j.status \in From[j.op] /\ j.own = {}
      /\ ~ j.token /\ j.holds \subseteq Rows
  BY <1>3, <1>4 DEF Placed
<1>7. /\ todo \in Todos /\ found \in BOOLEAN
      /\ j.op = "confirm" => todo \in {<<"reservation">>, <<"reservation", "slot">>}
      /\ j.op = "confirm" => todo # <<>>
  BY <1>2 DEF Todos
<1>8. Placed(m)
  <2>1. /\ m.pc \in {"commit", "update"} /\ m.pc = "update" => m.todo # <<>>
        /\ m.op = "confirm" => m.pc = "update"
        /\ m.op \notin {"delete", "upload"}
    BY <1>5, <1>6, <1>7 DEF Finding, Releases
  <2> QED
    BY <1>5, <1>6, <1>7, <2>1 DEF Placed
<1>9. Timely(m)
  <2> SUFFICES ASSUME ~ stale, j.status # "none"
               PROVE  /\ status \in Later[j.status]
                      /\ j.op = "cleanup" => ~ found
                      /\ j.op \in Finding \ {"cleanup"} /\ status = j.status => found
    BY <1>5 DEF Timely
  <2>1. status \in Later[j.status]
    BY <1>4 DEF Timely
  <2>2. /\ slot.holder = "this" <=> status \in Live
        /\ slot.estado = "RESERVED" <=> status = "CONFIRMED"
    BY DEF SettlementSafe, TablesSafe, SlotFollowsStatus
  <2>3. j.op = "cleanup" => ~ found
    BY <1>2, <1>6, <2>1, <2>2 DEF From, Later, Live
  <2>4. j.op \in Finding \ {"cleanup"} /\ status = j.status => found
    BY <1>2, <1>6, <2>2 DEF From, Live, Finding, Releases
  <2> QED
    BY <2>1, <2>3, <2>4
<1>10. Tokened(m) /\ Linked(m) /\ Scanned(m) /\ ~ Uploading(m) /\ m.op # "delete"
  BY <1>5, <1>6, <1>7 DEF Tokened, Linked, Scanned, Uploading, Finding, Releases
<1>11. \A i \in Worker : i # k => Apart(job[i], m)
  BY <1>4, <1>5, <1>10, ApartStill
<1>12. Bounded'
  BY <1>3, <1>5, <1>6, BoundedStill DEF SettlementSafe, tables, Finding, Releases
<1>13. job[k].op # "delete"
  BY <1>2, <1>5, <1>10
<1> QED
  BY <1>3, <1>8, <1>9, <1>10, <1>11, <1>12, <1>13, JobMoves

\* The rows that a job has yet to update: none, one or both.
LEMMA TodoCases ==
    ASSUME NEW t \in Todos, t # <<>>
    PROVE  /\ Head(t) \in Rows /\ Tail(t) \in Todos
           /\ Len(t) = 1 <=> Tail(t) = <<>>
           /\ t \in {<<"reservation">>, <<"reservation", "slot">>} => Head(t) = "reservation"
<1>1. CASE t = <<"reservation">>
  BY <1>1 DEF Todos, Rows
<1>2. CASE t = <<"slot">>
  BY <1>2 DEF Todos, Rows
<1>3. CASE t = <<"reservation", "slot">>
  <2>1. Tail(t) = <<"slot">>
    BY <1>3
  <2> QED
    BY <1>3, <2>1 DEF Todos, Rows
<1>4. CASE t = <<"slot", "reservation">>
  <2>1. Tail(t) = <<"reservation">>
    BY <1>4
  <2> QED
    BY <1>4, <2>1 DEF Todos, Rows
<1> QED
  BY <1>1, <1>2, <1>3, <1>4 DEF Todos

\* A handler updates a row, once nobody holds its lock.
LEMMA UpdateStep ==
    ASSUME SettlementSafe, NEW k \in Worker, Update(k) PROVE SettlementSafe'
<1> DEFINE pc == IF Len(job[k].todo) = 1 THEN Following(job[k].op) ELSE "update"
<1>1. PICK j : j = job[k]
  OBVIOUS
<1>2. PICK row, rest, m : /\ row = Head(j.todo) /\ rest = Tail(j.todo)
                          /\ m = [j EXCEPT !.todo = rest, !.holds = j.holds \cup {row}, !.pc = pc]
  OBVIOUS
<1>3. job' = [job EXCEPT ![k] = m] /\ UNCHANGED tables /\ j.pc = "update" /\ ~ Locked(row)
  <2>1. /\ job' = [job EXCEPT ![k].todo = rest, ![k].holds = j.holds \cup {row}, ![k].pc = pc]
        /\ UNCHANGED tables /\ j.pc = "update" /\ ~ Locked(row)
    BY <1>1, <1>2 DEF Update
  <2> HIDE DEF pc
  <2>2. job' = [job EXCEPT ![k] = m]
    BY <1>1, <1>2, <2>1 DEF SettlementSafe, Jobs
  <2> QED
    BY <2>1, <2>2
<1>4. /\ Placed(j) /\ Timely(j) /\ Tokened(j) /\ Linked(j) /\ Scanned(j)
      /\ \A i \in Worker : i # k => Apart(job[i], j)
  BY <1>1, JobFacts
<1>5. /\ IsJob(m) /\ m.pc = pc /\ m.todo = rest /\ m.holds = j.holds \cup {row}
      /\ m.op = j.op /\ m.status = j.status /\ m.found = j.found /\ m.own = j.own
      /\ m.token = j.token /\ m.voucher = j.voucher /\ m.scan = j.scan
  <2> HIDE DEF pc
  <2> QED
    BY <1>2, <1>4 DEF Placed, IsJob
<1>6. /\ j.op \in Op /\ j.op # "delete" /\ j.status \in From[j.op] /\ j.own = {}
      /\ ~ j.token /\ j.holds \subseteq Rows /\ (j.found => j.op \in Finding)
      /\ j.todo \in Todos /\ j.todo # <<>>
  BY <1>3, <1>4 DEF Placed
<1>7. /\ row \in Rows /\ rest \in Todos /\ (Len(j.todo) = 1 <=> rest = <<>>)
      /\ j.todo \in {<<"reservation">>, <<"reservation", "slot">>} => row = "reservation"
  BY <1>2, <1>6, TodoCases
<1>8. /\ pc \in {"update", "store", "sync", "commit"}
      /\ pc = "update" => rest # <<>>
      /\ pc = "store" => j.op = "upload"
      /\ pc = "sync" => j.op = "confirm"
      /\ j.op = "confirm" => pc \in {"update", "sync"}
      /\ j.op = "upload" => pc \in {"update", "store"}
  BY <1>1, <1>7 DEF Following
<1>9. j.op = "confirm" => "reservation" \in m.holds
  BY <1>3, <1>4, <1>5, <1>7 DEF Placed
<1>10. Placed(m)
  <2>1. /\ m.pc \in {"update", "store", "sync", "commit"}
        /\ m.pc = "update" => m.todo # <<>>
        /\ m.pc = "store" => m.op = "upload"
        /\ m.pc = "sync" => m.op = "confirm"
        /\ m.holds \subseteq Rows /\ m.todo \in Todos
    BY <1>5, <1>6, <1>7, <1>8
  <2> HIDE DEF pc
  <2> QED
    BY <1>5, <1>6, <1>9, <2>1 DEF Placed
<1>11. Timely(m)
  <2>1. j.pc # "find" /\ m.op = j.op /\ m.status = j.status /\ m.found = j.found
    BY <1>3, <1>5
  <2> QED
    BY <1>4, <2>1 DEF Timely
<1>12. Tokened(m) /\ Linked(m) /\ Scanned(m) /\ ~ Uploading(m)
  <2> HIDE DEF pc
  <2> QED
    BY <1>5, <1>6, <1>8 DEF Tokened, Linked, Scanned, Uploading
<1>13. ASSUME NEW i \in Worker, i # k PROVE Apart(job[i], m)
  <2>1. row \notin job[i].holds
    BY <1>3 DEF Locked
  <2> QED
    BY <1>4, <1>5, <1>6, <1>12, <1>13, <2>1 DEF Apart
<1>14. Bounded'
  <2>1. m.op = "upload" => k \in Coming
    BY <1>1, <1>3, <1>5 DEF Coming
  <2> QED
    BY <1>3, <2>1, BoundedStill DEF SettlementSafe, tables
<1>15. job[k].op # "delete"
  BY <1>1, <1>6
<1> QED
  BY <1>3, <1>10, <1>11, <1>12, <1>13, <1>14, <1>15, JobMoves

\* A confirmation copies one KYC document that the expediente lacks.
LEMMA SyncStep ==
    ASSUME SettlementSafe, NEW k \in Worker, Sync(k) PROVE SettlementSafe'
<1>1. PICK j : j = job[k]
  OBVIOUS
<1>2. PICK d \in Missing(k), prev \in LastOf(Visible(k)) :
          job' = [job EXCEPT ![k].own = LinkBy(k, d, prev)]
  BY DEF Sync
<1>3. PICK l, m : /\ l = [n |-> NextNumber, doc |-> d, at |-> j.at, prev |-> prev]
                  /\ m = [j EXCEPT !.own = j.own \cup {l}]
  OBVIOUS
<1>4. job' = [job EXCEPT ![k] = m] /\ UNCHANGED tables /\ j.pc = "sync"
  BY <1>1, <1>2, <1>3 DEF Sync, LinkBy, Appended
<1>5. /\ Placed(j) /\ Timely(j) /\ Tokened(j) /\ Linked(j) /\ Scanned(j)
      /\ \A i \in Worker : i # k => Apart(job[i], j)
  BY <1>1, JobFacts
<1>6. /\ IsJob(m) /\ m.own = j.own \cup {l} /\ m.pc = j.pc /\ m.todo = j.todo
      /\ m.holds = j.holds
      /\ m.op = j.op /\ m.status = j.status /\ m.found = j.found
      /\ m.token = j.token /\ m.voucher = j.voucher /\ m.scan = j.scan
  BY <1>3, <1>5 DEF Placed, IsJob
<1>7. j.op = "confirm"
  BY <1>4, <1>5 DEF Placed
<1>8. Placed(m)
  BY <1>4, <1>5, <1>6, <1>7 DEF Placed
<1>9. Timely(m)
  BY <1>5, <1>6 DEF Timely
<1>10. Linked(m)
  <2>1. l.doc = d /\ d # "voucher" /\ \A x \in links \cup j.own : x.doc # d
    BY <1>1, <1>3, SettlementAssumption DEF Missing, Visible
  <2> QED
    BY <1>5, <1>6, <1>7, <2>1 DEF Linked
<1>11. Tokened(m) /\ Scanned(m) /\ ~ Uploading(m)
  BY <1>5, <1>6, <1>7 DEF Tokened, Scanned, Uploading
<1>12. \A i \in Worker : i # k => Apart(job[i], m)
  BY <1>5, <1>6, <1>7, <1>11, ApartStill
<1>13. Bounded'
  BY <1>4, <1>6, <1>7, BoundedStill DEF SettlementSafe, tables
<1>14. job[k].op # "delete"
  BY <1>1, <1>7
<1> QED
  BY <1>4, <1>8, <1>9, <1>10, <1>11, <1>12, <1>13, <1>14, JobMoves

\* It then makes the service order and, if there is none, the token.
LEMMA PapersStep ==
    ASSUME SettlementSafe, NEW k \in Worker, Papers(k) PROVE SettlementSafe'
<1>1. PICK j : j = job[k]
  OBVIOUS
<1> DEFINE none == papers.tokens = 0
<1>2. PICK m : m = [j EXCEPT !.pc = "commit", !.token = none]
  OBVIOUS
<1>3. job' = [job EXCEPT ![k] = m] /\ UNCHANGED tables /\ j.pc = "sync"
  <2>1. job' = [job EXCEPT ![k].pc = "commit", ![k].token = none] /\ UNCHANGED tables
        /\ j.pc = "sync"
    BY <1>1 DEF Papers
  <2> HIDE DEF none
  <2>2. job' = [job EXCEPT ![k] = m]
    BY <1>1, <1>2, <2>1 DEF SettlementSafe, Jobs
  <2> QED
    BY <2>1, <2>2
<1>4. /\ Placed(j) /\ Timely(j) /\ Tokened(j) /\ Linked(j) /\ Scanned(j)
      /\ \A i \in Worker : i # k => Apart(job[i], j)
  BY <1>1, JobFacts
<1>5. /\ IsJob(m) /\ m.own = j.own /\ m.pc = "commit" /\ m.todo = j.todo
      /\ m.holds = j.holds /\ m.token = none
      /\ m.op = j.op /\ m.status = j.status /\ m.found = j.found
      /\ m.voucher = j.voucher /\ m.scan = j.scan
  <2> HIDE DEF none
  <2> QED
    BY <1>2, <1>4 DEF Placed, IsJob
<1>6. j.op = "confirm"
  BY <1>3, <1>4 DEF Placed
<1>7. Placed(m)
  BY <1>3, <1>4, <1>5, <1>6 DEF Placed
<1>8. Timely(m)
  BY <1>3, <1>4, <1>5 DEF Timely
<1>9. Linked(m) /\ Scanned(m) /\ ~ Uploading(m)
  BY <1>4, <1>5, <1>6 DEF Linked, Scanned, Uploading
<1>10. Tokened(m)
  <2>1. papers.tokens = 0 \/ papers.tokens = 1
    BY DEF SettlementSafe, TablesSafe
  <2> QED
    BY <1>5, <2>1 DEF Tokened
<1>11. \A i \in Worker : i # k => Apart(job[i], m)
  BY <1>4, <1>5, <1>6, <1>9, ApartStill
<1>12. Bounded'
  BY <1>3, <1>5, <1>6, BoundedStill DEF SettlementSafe, tables
<1>13. job[k].op # "delete"
  BY <1>1, <1>6
<1> QED
  BY <1>3, <1>7, <1>8, <1>9, <1>10, <1>11, <1>12, <1>13, JobMoves

-----------------------------------------------------------------------------
(* Steps that write a table.                                               *)

\* The invariant follows from its parts, when the tables change.
LEMMA Assembled ==
    ASSUME SettlementSafe, NEW k \in Worker, NEW m, job' = [job EXCEPT ![k] = m],
           TablesSafe', Bounded', VouchersHaveScans',
           Placed(m), Timely(m)', Tokened(m)', Linked(m)', Scanned(m)',
           \A i \in Worker : i # k => Apart(job[i], m),
           \A i \in Worker : \A n : i # k /\ n = job[i] =>
                Timely(n)' /\ Tokened(n)' /\ Linked(n)' /\ Scanned(n)'
    PROVE  SettlementSafe'
<1>1. Jobs' /\ job'[k] = m /\ \A i \in Worker : i # k => job'[i] = job[i]
  BY JobsAfter DEF SettlementSafe
<1>2. ASSUME NEW i \in Worker
      PROVE  Placed(job[i])' /\ Timely(job[i])' /\ Tokened(job[i])' /\ Linked(job[i])'
             /\ Scanned(job[i])'
  <2>1. PICK n : n = job'[i]
    OBVIOUS
  <2>2. Placed(n) /\ Timely(n)' /\ Tokened(n)' /\ Linked(n)' /\ Scanned(n)'
    <3>1. CASE i = k
      BY <1>1, <2>1, <3>1
    <3>2. CASE i # k
      BY <1>1, <2>1, <3>2 DEF SettlementSafe, OneByOne
    <3> QED
      BY <3>1, <3>2
  <2>3. Placed(job[i])'
    BY <2>1, <2>2 DEF Placed, IsJob
  <2> QED
    BY <2>1, <2>2, <2>3 DEF Timely, Tokened, Linked, Scanned
<1>3. ASSUME NEW i \in Worker, NEW j \in Worker, i # j PROVE Apart(job[i], job[j])'
  <2>1. Apart(job'[i], job'[j])
    BY <1>1, <1>3, ApartSymmetric DEF SettlementSafe, TwoByTwo
  <2> QED
    BY <2>1 DEF Apart, Uploading
<1> QED
  BY <1>1, <1>2, <1>3 DEF SettlementSafe, OneByOne, TwoByTwo

\* A job that is over is in nobody's way, whatever the tables have become.
LEMMA IdleSafeNext ==
    /\ Placed(Idle) /\ Timely(Idle)' /\ Tokened(Idle)' /\ Linked(Idle)' /\ Scanned(Idle)'
    /\ \A i : Apart(i, Idle)
  BY IdleSafe DEF Idle, Timely, Tokened, Linked, Scanned

\* An upload takes the next id.
LEMMA BoundedByOneMore ==
    ASSUME Bounded, Jobs, NEW k \in Coming, NEW m, job' = [job EXCEPT ![k] = m],
           made' = made + 1, m.pc = "commit"
    PROVE  Bounded'
<1>1. Coming' \subseteq Coming \ {k} /\ k \in Worker
  BY JobsAfter DEF Coming
<1>2. IsFiniteSet(Coming) /\ IsFiniteSet(Coming \ {k}) /\ Cardinality(Coming) \in Nat
      /\ Cardinality(Coming \ {k}) \in Nat /\ Cardinality(Coming') \in Nat
  <2>1. Coming \in SUBSET Worker /\ Coming \ {k} \in SUBSET Worker /\ Coming' \in SUBSET Worker
    BY <1>1 DEF Coming
  <2> QED
    BY <2>1, ComingFinite
<1>3. Cardinality(Coming \ {k}) = Cardinality(Coming) - 1
  BY <1>2, FS_RemoveElement
<1>4. Cardinality(Coming') <= Cardinality(Coming \ {k})
  BY <1>1, <1>2, FS_Subset
<1> QED
  BY <1>2, <1>3, <1>4, SettlementAssumption DEF Bounded

\* An upload writes its file, and links the voucher.
LEMMA StoreStep ==
    ASSUME SettlementSafe, NEW k \in Worker, Store(k) PROVE SettlementSafe'
<1>1. PICK j : j = job[k]
  OBVIOUS
<1>2. /\ Placed(j) /\ Timely(j) /\ Tokened(j) /\ Linked(j) /\ Scanned(j)
      /\ \A i \in Worker : i # k => Apart(job[i], j)
  BY <1>1, JobFacts
<1>3. j.pc = "store" /\ j.op = "upload" /\ j.own = {} /\ ~ j.token
  BY <1>1, <1>2 DEF Store, Placed
<1>4. CASE \E w \in DOMAIN vouchers : vouchers[w] = j.scan
  BY <1>1, <1>3, <1>4, StopStep DEF Store
<1>5. CASE ~ \E w \in DOMAIN vouchers : vouchers[w] = j.scan
  <2>1. PICK prev \in LastOf(Visible(k)) :
            job' = [job EXCEPT ![k].pc = "commit", ![k].voucher = made + 1,
                               ![k].own = LinkBy(k, "voucher", prev)]
    BY <1>1, <1>5 DEF Store
  <2>2. /\ made' = made + 1 /\ scans' = scans \cup {made + 1}
        /\ UNCHANGED <<status, clock, slot, vouchers, links, papers, cut, stale, tangled>>
        /\ \A i \in Worker : Uploading(job[i]) => job[i].scan # j.scan
    BY <1>1, <1>5 DEF Store, Uploading
  <2>3. PICK l, v, m : /\ l = [n |-> NextNumber, doc |-> "voucher", at |-> j.at, prev |-> prev]
                       /\ v = made + 1
                       /\ m = [j EXCEPT !.pc = "commit", !.voucher = v, !.own = j.own \cup {l}]
    OBVIOUS
  <2>4. job' = [job EXCEPT ![k] = m]
    <3>1. LinkBy(k, "voucher", prev) = j.own \cup {l}
      BY <1>1, <2>3 DEF LinkBy, Appended
    <3>2. job' = [job EXCEPT ![k].pc = "commit", ![k].voucher = v, ![k].own = j.own \cup {l}]
      BY <2>1, <2>3, <3>1
    <3> QED
      BY <1>1, <2>3, <3>2 DEF SettlementSafe, Jobs
  <2>5. /\ IsJob(m) /\ m.own = j.own \cup {l} /\ m.pc = "commit" /\ m.todo = j.todo
        /\ m.holds = j.holds /\ m.token = j.token /\ m.voucher = v
        /\ m.op = j.op /\ m.status = j.status /\ m.found = j.found /\ m.scan = j.scan
    BY <1>2, <2>3 DEF Placed, IsJob
  <2>6. made \in Nat /\ scans \subseteq 1..made /\ DOMAIN vouchers \subseteq 1..made
    BY DEF SettlementSafe, Bounded, TablesSafe
  <2>7. v \in 1..made' /\ v \notin 1..made /\ v \in scans' /\ 1..made \subseteq 1..made'
    BY <2>2, <2>3, <2>6
  <2>8. TablesSafe'
    <3>1. scans' \subseteq 1..made' /\ DOMAIN vouchers' \subseteq 1..made'
      BY <2>2, <2>3, <2>6, <2>7
    <3> QED
      BY <2>2, <3>1 DEF SettlementSafe, TablesSafe, SlotFollowsStatus, KycLinkedOnce
  <2>9. Bounded'
    <3>1. k \in Coming
      BY <1>1, <1>3 DEF Coming
    <3> QED
      BY <2>2, <2>4, <2>5, <3>1, BoundedByOneMore DEF SettlementSafe
  <2>10. VouchersHaveScans'
    <3>1. \A i \in Worker : job[i].op = "delete" =>
              job'[i].op = "delete" /\ job'[i].voucher = job[i].voucher
      BY <1>1, <1>3, <2>4, JobsAfter DEF SettlementSafe
    <3>2. {job[i].voucher : i \in {w \in Worker : job[w].op = "delete"}}
              \subseteq {job'[i].voucher : i \in {w \in Worker : job'[w].op = "delete"}}
      BY <3>1
    <3> QED
      BY <2>2, <3>2 DEF SettlementSafe, VouchersHaveScans
  <2>11. Placed(m)
    BY <1>2, <1>3, <2>5 DEF Placed
  <2>12. Timely(m)' /\ Tokened(m)' /\ Linked(m)'
    BY <1>2, <1>3, <2>2, <2>3, <2>5 DEF Timely, Tokened, Linked
  <2>13. Scanned(m)'
    BY <1>3, <1>5, <2>2, <2>5, <2>6, <2>7 DEF Scanned
  <2>14. ASSUME NEW i \in Worker, i # k PROVE Apart(job[i], m)
    <3>1. Scanned(job[i]) /\ Apart(job[i], j)
      BY <1>2, <2>14 DEF SettlementSafe, OneByOne
    <3> QED
      BY <1>3, <2>2, <2>5, <2>7, <3>1 DEF Apart, Uploading, Scanned
  <2>15. ASSUME NEW i \in Worker, NEW n, i # k, n = job[i]
         PROVE  Timely(n)' /\ Tokened(n)' /\ Linked(n)' /\ Scanned(n)'
    <3>1. Timely(n) /\ Tokened(n) /\ Linked(n) /\ Scanned(n)
      BY <2>15, JobFacts
    <3>2. Timely(n)' /\ Tokened(n)' /\ Linked(n)'
      BY <2>2, <3>1 DEF Timely, Tokened, Linked
    <3>3. Scanned(n)'
      BY <2>2, <2>7, <3>1 DEF Scanned
    <3> QED
      BY <3>2, <3>3
  <2> QED
    BY <2>4, <2>8, <2>9, <2>10, <2>11, <2>12, <2>13, <2>14, <2>15, Assembled
<1> QED
  BY <1>4, <1>5

\* A deletion removes the file before its row.
LEMMA UnlinkStep ==
    ASSUME SettlementSafe, NEW k \in Worker, Unlink(k) PROVE SettlementSafe'
<1>1. PICK j, m : j = job[k] /\ m = [j EXCEPT !.pc = "commit"]
  OBVIOUS
<1>2. /\ j.pc = "unlink" /\ (scans' = scans \/ scans' = scans \ {j.voucher})
      /\ job' = [job EXCEPT ![k] = m]
      /\ UNCHANGED <<status, clock, slot, vouchers, links, papers, made, cut, stale, tangled>>
  BY <1>1 DEF Unlink
<1>3. /\ Placed(j) /\ Timely(j) /\ Tokened(j) /\ Linked(j) /\ Scanned(j)
      /\ \A i \in Worker : i # k => Apart(job[i], j)
  BY <1>1, JobFacts
<1>4. /\ IsJob(m) /\ m.own = j.own /\ m.pc = "commit" /\ m.todo = j.todo
      /\ m.holds = j.holds /\ m.token = j.token /\ m.voucher = j.voucher
      /\ m.op = j.op /\ m.status = j.status /\ m.found = j.found /\ m.scan = j.scan
  BY <1>1, <1>3 DEF Placed, IsJob
<1>5. j.op = "delete"
  BY <1>2, <1>3 DEF Placed
<1>6. Placed(m)
  BY <1>2, <1>3, <1>4, <1>5 DEF Placed
<1>7. Timely(m)' /\ Tokened(m)' /\ Linked(m)' /\ Scanned(m)' /\ ~ Uploading(m)
  BY <1>2, <1>3, <1>4, <1>5 DEF Timely, Tokened, Linked, Scanned, Uploading, Finding, Releases
<1>8. \A i \in Worker : i # k => Apart(job[i], m)
  BY <1>3, <1>4, <1>5, <1>7, ApartStill
<1>9. TablesSafe'
  BY <1>2 DEF SettlementSafe, TablesSafe, SlotFollowsStatus, KycLinkedOnce
<1>10. Bounded'
  BY <1>2, <1>4, <1>5, BoundedStill DEF SettlementSafe
<1>11. VouchersHaveScans'
  <2>1. \A i \in Worker : job[i].op = "delete" =>
            job'[i].op = "delete" /\ job'[i].voucher = job[i].voucher
    BY <1>1, <1>2, <1>4, JobsAfter DEF SettlementSafe
  <2>2. {job[i].voucher : i \in {w \in Worker : job[w].op = "delete"}}
            \subseteq {job'[i].voucher : i \in {w \in Worker : job'[w].op = "delete"}}
    BY <2>1
  <2>3. j.voucher \in {job[i].voucher : i \in {w \in Worker : job[w].op = "delete"}}
    BY <1>1, <1>5
  <2> QED
    BY <1>2, <2>2, <2>3 DEF SettlementSafe, VouchersHaveScans
<1>12. ASSUME NEW i \in Worker, NEW n, i # k, n = job[i]
       PROVE  Timely(n)' /\ Tokened(n)' /\ Linked(n)' /\ Scanned(n)'
  <2>1. Timely(n) /\ Tokened(n) /\ Linked(n) /\ Scanned(n) /\ Apart(n, j)
    BY <1>3, <1>12, JobFacts
  <2>2. Timely(n)' /\ Tokened(n)' /\ Linked(n)'
    BY <1>2, <2>1 DEF Timely, Tokened, Linked
  <2>3. Scanned(n)'
    BY <1>2, <1>5, <2>1 DEF Scanned, Apart, Uploading
  <2> QED
    BY <2>2, <2>3
<1> QED
  BY <1>2, <1>6, <1>7, <1>8, <1>9, <1>10, <1>11, <1>12, Assembled

\* A worker dies, and what it had not committed is gone.
LEMMA KillStep ==
    ASSUME SettlementSafe, NEW k \in Worker, KillWorker(k) PROVE SettlementSafe'
<1>1. PICK m : m = Idle
  OBVIOUS
<1>2. /\ job' = [job EXCEPT ![k] = m]
      /\ UNCHANGED <<status, clock, slot, vouchers, scans, links, papers, made, stale, tangled>>
  BY <1>1 DEF KillWorker
<1>3. TablesSafe'
  BY <1>2 DEF SettlementSafe, TablesSafe, SlotFollowsStatus, KycLinkedOnce
<1>4. Bounded'
  BY <1>1, <1>2, BoundedStill DEF SettlementSafe, Idle
<1>5. VouchersHaveScans'
  <2>1. \A i \in Worker : i # k /\ job[i].op = "delete" =>
            job'[i].op = "delete" /\ job'[i].voucher = job[i].voucher
    BY <1>2, JobsAfter DEF SettlementSafe
  <2> SUFFICES ASSUME NEW v \in DOMAIN vouchers, v \notin scans \cup cut'
               PROVE  \E i \in Worker : job'[i].op = "delete" /\ job'[i].voucher = v
    BY <1>2 DEF VouchersHaveScans
  <2>2. PICK i \in Worker : job[i].op = "delete" /\ job[i].voucher = v
    BY DEF SettlementSafe, VouchersHaveScans, KillWorker
  <2>3. i # k
    BY <2>2 DEF KillWorker
  <2> QED
    BY <2>1, <2>2, <2>3
<1>6. ASSUME NEW i \in Worker, NEW n, i # k, n = job[i]
      PROVE  Timely(n)' /\ Tokened(n)' /\ Linked(n)' /\ Scanned(n)'
  <2>1. Timely(n) /\ Tokened(n) /\ Linked(n) /\ Scanned(n)
    BY <1>6, JobFacts
  <2> QED
    BY <1>2, <2>1 DEF Timely, Tokened, Linked, Scanned
<1>7. /\ Placed(m) /\ Timely(m)' /\ Tokened(m)' /\ Linked(m)' /\ Scanned(m)'
      /\ \A i \in Worker : i # k => Apart(job[i], m)
  BY <1>1, IdleSafeNext
<1> QED
  BY <1>2, <1>3, <1>4, <1>5, <1>6, <1>7, Assembled

-----------------------------------------------------------------------------
(* The commit.                                                             *)

\* The order of the statuses is one.
LEMMA LaterIsAnOrder ==
    ASSUME NEW a \in Live \cup Settled, NEW b \in Live \cup Settled, NEW c \in Live \cup Settled
    PROVE  /\ a \in Later[a]
           /\ b \in Later[a] /\ c \in Later[b] => c \in Later[a]
           /\ b \in Later[a] /\ a \in Later[b] => a = b
  BY DEF Later, Live, Settled

\* Every operation goes on in it.
LEMMA EachGoesOn ==
    ASSUME NEW op \in DOMAIN To
    PROVE  /\ To[op] \in Live \cup Settled
           /\ From[op] \cap Settled = {}
           /\ \A s \in From[op] : To[op] \in Later[s]
  BY DEF To, From, Later, Live, Settled

\* What a commit does, by the request.
LEMMA CommitFacts ==
    ASSUME SettlementSafe, NEW k \in Worker, Commit(k), NEW j, j = job[k]
    PROVE  /\ Placed(j) /\ Timely(j) /\ Tokened(j) /\ Linked(j) /\ Scanned(j)
           /\ \A i \in Worker : i # k => Apart(job[i], j)
           /\ j.pc = "commit" /\ j.op \in Op /\ j.status \in From[j.op]
           /\ j.op \in DOMAIN To \/ ~ WritesStatus(j)
           /\ stale' = (stale \/ (WritesStatus(j) /\ j.status # status))
           /\ ~ stale' => ~ stale
           /\ ~ stale' => \/ WritesStatus(j) /\ status = j.status /\ status' = To[j.op]
                          \/ ~ WritesStatus(j) /\ status' = status
           /\ WritesStatus(j) => status' = To[j.op]
           /\ ~ WritesStatus(j) => status' = status
           /\ j.op \in {"confirm", "reject", "cancel", "sweep"} => WritesStatus(j)
           /\ j.op # "confirm" => ~ j.token
<1>1. /\ Placed(j) /\ Timely(j) /\ Tokened(j) /\ Linked(j) /\ Scanned(j)
      /\ \A i \in Worker : i # k => Apart(job[i], j)
  BY JobFacts
<1>2. /\ j.pc = "commit"
      /\ status' = IF WritesStatus(j) THEN To[j.op] ELSE status
      /\ stale' = (stale \/ (WritesStatus(j) /\ j.status # status))
  BY DEF Commit
<1>3. /\ j.op \in Op /\ j.status \in From[j.op] /\ (j.op # "confirm" => ~ j.token)
  BY <1>1, <1>2 DEF Placed
<1>4. j.op \in {"confirm", "reject", "cancel", "sweep"} => WritesStatus(j)
  BY <1>3, OpIs DEF WritesStatus, From, To
<1>5. j.op \in DOMAIN To \/ ~ WritesStatus(j)
  BY DEF WritesStatus
<1>6. ~ stale' => ~ stale /\ (WritesStatus(j) => status = j.status)
  BY <1>2, Zenon
<1> QED
  BY <1>1, <1>2, <1>3, <1>4, <1>5, <1>6

\* A commit that overwrites nothing it has not read goes on in it.
LEMMA CommitGoesOn ==
    ASSUME SettlementSafe, NEW k \in Worker, Commit(k)
    PROVE  /\ status' \in Live \cup Settled
           /\ ~ stale' => status' \in Later[status]
<1>1. PICK j : j = job[k]
  OBVIOUS
<1>2. status \in Live \cup Settled
  BY DEF SettlementSafe, TablesSafe
<1>3. CASE WritesStatus(j)
  <2>1. j.op \in DOMAIN To /\ j.status \in From[j.op] /\ status' = To[j.op]
    BY <1>1, <1>3, CommitFacts
  <2>2. ~ stale' => status = j.status
    BY <1>1, <1>3, CommitFacts
  <2> QED
    BY <2>1, <2>2, EachGoesOn
<1>4. CASE ~ WritesStatus(j)
  <2>1. status' = status
    BY <1>1, <1>4, CommitFacts
  <2> QED
    BY <1>2, <2>1, LaterIsAnOrder
<1> QED
  BY <1>3, <1>4

\* Such a commit leaves another reservation's slot alone; and the slot follows
\* the status.
LEMMA CommitSlot ==
    ASSUME SettlementSafe, NEW k \in Worker, Commit(k)
    PROVE  /\ slot' \in [estado : {"AVAILABLE", "TTL_BLOCKED", "RESERVED"},
                         holder : {"this", "other", "nobody"}]
           /\ slot'.estado = "AVAILABLE" => slot'.holder = "nobody"
           /\ SlotFollowsStatus'
           /\ ~ stale' => slot.holder = "this" \/ slot' = slot
<1>1. PICK j : j = job[k]
  OBVIOUS
<1>2. slot' = SlotAfter(j)
  BY <1>1 DEF Commit
<1>3. /\ slot \in [estado : {"AVAILABLE", "TTL_BLOCKED", "RESERVED"},
                   holder : {"this", "other", "nobody"}]
      /\ slot.estado = "AVAILABLE" => slot.holder = "nobody"
      /\ SlotFollowsStatus
  BY DEF SettlementSafe, TablesSafe
<1>4. \/ j.found /\ j.op \in Releases /\ slot' = [estado |-> "AVAILABLE", holder |-> "nobody"]
      \/ j.found /\ j.op = "confirm" /\ slot' = [slot EXCEPT !.estado = "RESERVED"]
      \/ ~ (j.found /\ j.op \in Finding) /\ slot' = slot
  <2>1. CASE j.found /\ j.op \in Releases
    BY <1>2, <2>1 DEF SlotAfter
  <2>2. CASE j.found /\ j.op = "confirm" /\ j.op \notin Releases
    BY <1>2, <2>2 DEF SlotAfter
  <2>3. CASE ~ (j.found /\ j.op \in Finding)
    BY <1>2, <2>3 DEF SlotAfter, Finding
  <2> QED
    BY <2>1, <2>2, <2>3 DEF Finding
<1>5. /\ slot' \in [estado : {"AVAILABLE", "TTL_BLOCKED", "RESERVED"},
                    holder : {"this", "other", "nobody"}]
      /\ slot'.estado = "AVAILABLE" => slot'.holder = "nobody"
  BY <1>3, <1>4
<1>6. ASSUME ~ stale'
      PROVE  /\ slot'.holder = "this" <=> status' \in Live
             /\ slot'.estado = "RESERVED" <=> status' = "CONFIRMED"
             /\ slot.holder = "this" \/ slot' = slot
  <2>1. /\ slot.holder = "this" <=> status \in Live
        /\ slot.estado = "RESERVED" <=> status = "CONFIRMED"
    BY <1>1, <1>3, <1>6, CommitFacts DEF SlotFollowsStatus
  <2>2. /\ j.op \in Op /\ j.status \in From[j.op] /\ j.pc = "commit" /\ Timely(j) /\ ~ stale
        /\ (j.found => j.op \in Finding)
    BY <1>1, <1>6, CommitFacts DEF Placed
  <2>3. \/ WritesStatus(j) /\ status = j.status /\ status' = To[j.op]
        \/ ~ WritesStatus(j) /\ status' = status
    BY <1>1, <1>6, CommitFacts
  <2>4. CASE j.op \in {"slip", "upload"}
    <3>1. slot' = slot
      BY <1>4, <2>2, <2>4 DEF Finding, Releases
    <3>2. status' = status \/ (status \in Live \ {"CONFIRMED"} /\ status' \in Live \ {"CONFIRMED"})
      BY <2>2, <2>3, <2>4 DEF From, To, Live
    <3> QED
      BY <2>1, <3>1, <3>2
  <2>5. CASE j.op = "delete"
    <3>1. slot' = slot
      BY <1>4, <2>2, <2>5 DEF Finding, Releases
    <3>2. status' = status
      BY <2>3, <2>5, OpIs DEF WritesStatus
    <3> QED
      BY <2>1, <3>1, <3>2
  <2>6. CASE j.op = "cleanup"
    <3>1. j.status # "none"
      BY <2>2, <2>6 DEF From
    <3>2. ~ j.found
      BY <2>2, <2>6, <3>1 DEF Timely
    <3>3. slot' = slot
      BY <1>4, <3>2
    <3>4. status' = status
      BY <2>3, <2>6, OpIs DEF WritesStatus
    <3> QED
      BY <2>1, <3>3, <3>4
  <2>7. CASE j.op = "confirm"
    <3>1. status = "PAYMENT_UNDER_REVIEW" /\ status = j.status /\ status' = "CONFIRMED"
      BY <1>1, <2>2, <2>3, <2>7, CommitFacts DEF From, To
    <3>2. j.found
      BY <2>2, <2>7, <3>1 DEF Timely, Finding
    <3>3. slot' = [slot EXCEPT !.estado = "RESERVED"]
      BY <1>4, <2>7, <3>2 DEF Finding, Releases
    <3> QED
      BY <1>3, <2>1, <3>1, <3>3 DEF Live
  <2>8. CASE j.op \in {"reject", "cancel", "sweep"}
    <3>1. status \in Live /\ status = j.status /\ status' \in {"EXPIRED", "CANCELLED"}
          /\ j.status # "none"
      BY <1>1, <2>2, <2>3, <2>8, CommitFacts DEF From, To, Live
    <3>2. j.found
      BY <2>2, <2>8, <3>1 DEF Timely, Finding, Releases
    <3>3. slot' = [estado |-> "AVAILABLE", holder |-> "nobody"]
      BY <1>4, <2>8, <3>2 DEF Finding, Releases
    <3> QED
      BY <2>1, <3>1, <3>3 DEF Live
  <2> QED
    BY <2>2, <2>4, <2>5, <2>6, <2>7, <2>8, OpIs
<1> QED
  BY <1>5, <1>6 DEF SlotFollowsStatus

\* A commit makes no second token, and one order unless it is late.
LEMMA CommitPapers ==
    ASSUME SettlementSafe, NEW k \in Worker, Commit(k)
    PROVE  /\ papers' \in [orders : Nat, tokens : 0..1]
           /\ status' = "CONFIRMED" => papers'.orders >= 1 /\ papers'.tokens = 1
           /\ ~ stale' => papers'.orders <= 1 /\ (papers'.orders = 1 => status' = "CONFIRMED")
<1>1. PICK j : j = job[k]
  OBVIOUS
<1>2. papers' = [orders |-> papers.orders + IF j.op = "confirm" THEN 1 ELSE 0,
                 tokens |-> papers.tokens + IF j.token THEN 1 ELSE 0]
  BY <1>1 DEF Commit
<1>3. /\ papers.orders \in Nat /\ papers.tokens \in 0..1
      /\ status = "CONFIRMED" => papers.orders >= 1 /\ papers.tokens = 1
      /\ ~ stale => papers.orders <= 1 /\ (papers.orders = 1 => status = "CONFIRMED")
  BY DEF SettlementSafe, TablesSafe
<1>4. CASE j.op = "confirm"
  <2>1. /\ status' = "CONFIRMED" /\ (~ stale' => ~ stale /\ status = "PAYMENT_UNDER_REVIEW")
    BY <1>1, <1>4, CommitFacts DEF From, To
  <2>2. /\ j.token => papers.tokens = 0
        /\ j.token \/ papers.tokens = 1
    BY <1>1, <1>4, CommitFacts DEF Tokened
  <2>3. papers' = [orders |-> papers.orders + 1, tokens |-> 1]
    <3>1. CASE j.token
      BY <1>2, <1>4, <2>2, <3>1
    <3>2. CASE ~ j.token
      BY <1>2, <1>3, <1>4, <2>2, <3>2
    <3> QED
      BY <3>1, <3>2
  <2> QED
    BY <1>3, <2>1, <2>3
<1>5. CASE j.op # "confirm"
  <2>1. papers' = [orders |-> papers.orders, tokens |-> papers.tokens]
    <3>1. ~ j.token
      BY <1>1, <1>5, CommitFacts
    <3> QED
      BY <1>2, <1>3, <1>5, <3>1
  <2>2. status' = "CONFIRMED" => status = "CONFIRMED"
    <3>1. \A op \in DOMAIN To : To[op] = "CONFIRMED" => op = "confirm"
      BY DEF To
    <3> QED
      BY <1>1, <1>5, <3>1, CommitFacts
  <2>3. ~ stale' => ~ stale /\ (status = "CONFIRMED" => status' = "CONFIRMED")
    <3>1. \A op \in DOMAIN To : "CONFIRMED" \notin From[op]
      BY DEF To, From
    <3> QED
      BY <1>1, <3>1, CommitFacts
  <2> QED
    BY <1>3, <2>1, <2>2, <2>3
<1> QED
  BY <1>4, <1>5

\* What a commit does to the vouchers.
LEMMA CommitVouchers ==
    ASSUME SettlementSafe, NEW k \in Worker, Commit(k), NEW j, j = job[k]
    PROVE  /\ vouchers' = [v \in DOMAIN vouchers' |-> vouchers'[v]]
           /\ j.op = "upload" => /\ DOMAIN vouchers' = DOMAIN vouchers \cup {j.voucher}
                                 /\ vouchers'[j.voucher] = j.scan
                                 /\ \A v \in DOMAIN vouchers : vouchers'[v] = vouchers[v]
           /\ j.op = "delete" => /\ DOMAIN vouchers' = DOMAIN vouchers \ {j.voucher}
                                 /\ \A v \in DOMAIN vouchers' : vouchers'[v] = vouchers[v]
           /\ j.op \notin {"upload", "delete"} => vouchers' = vouchers
           /\ DOMAIN vouchers' \subseteq 1..made
           /\ \A v, w \in DOMAIN vouchers' : vouchers'[v] = vouchers'[w] => v = w
<1>1. vouchers' = VouchersAfter(j)
  BY DEF Commit
<1>2. /\ vouchers = [v \in DOMAIN vouchers |-> vouchers[v]] /\ DOMAIN vouchers \subseteq 1..made
      /\ \A v, w \in DOMAIN vouchers : vouchers[v] = vouchers[w] => v = w
  BY DEF SettlementSafe, TablesSafe
<1>3. CASE j.op = "upload"
  <2>1. vouchers' = [v \in DOMAIN vouchers \cup {j.voucher} |->
                        IF v = j.voucher THEN j.scan ELSE vouchers[v]]
    BY <1>1, <1>3 DEF VouchersAfter
  <2>2. /\ j.voucher \notin DOMAIN vouchers /\ j.voucher \in 1..made
        /\ \A w \in DOMAIN vouchers : vouchers[w] # j.scan
    BY <1>3, CommitFacts DEF Scanned
  <2> QED
    BY <1>2, <1>3, <2>1, <2>2
<1>4. CASE j.op = "delete"
  <2>1. vouchers' = [v \in DOMAIN vouchers \ {j.voucher} |-> vouchers[v]]
    BY <1>1, <1>4 DEF VouchersAfter
  <2> QED
    BY <1>2, <1>4, <2>1
<1>5. CASE j.op \notin {"upload", "delete"}
  BY <1>1, <1>2, <1>5 DEF VouchersAfter
<1> QED
  BY <1>3, <1>4, <1>5

\* What the other jobs rely on survives a commit.
LEMMA CommitOthers ==
    ASSUME SettlementSafe, NEW k \in Worker, Commit(k), NEW i \in Worker, i # k,
           NEW n, n = job[i]
    PROVE  Timely(n)' /\ Tokened(n)' /\ Linked(n)' /\ Scanned(n)'
<1>1. PICK j : j = job[k]
  OBVIOUS
<1>2. Placed(n) /\ Timely(n) /\ Tokened(n) /\ Linked(n) /\ Scanned(n) /\ Apart(n, j)
  BY <1>1, JobFacts
<1>3. /\ UNCHANGED <<scans, made>> /\ links' = links \cup j.own
      /\ papers'.tokens = papers.tokens + IF j.token THEN 1 ELSE 0
  BY <1>1 DEF Commit
<1>4. Placed(j) /\ Linked(j) /\ j.pc = "commit"
  BY <1>1, CommitFacts
<1>5. Timely(n)'
  <2> SUFFICES ASSUME ~ stale', n.status # "none"
               PROVE  /\ status' \in Later[n.status]
                      /\ n.op = "cleanup" => ~ n.found
                      /\ n.op \in Finding \ {"cleanup"} /\ n.pc # "find" /\ status' = n.status
                            => n.found
    BY DEF Timely
  <2>1. /\ status \in Later[n.status]
        /\ n.op = "cleanup" => ~ n.found
        /\ n.op \in Finding \ {"cleanup"} /\ n.pc # "find" /\ status = n.status => n.found
    BY <1>1, <1>2, CommitFacts DEF Timely
  <2>2. n.status \in Live \cup Settled
    <3>1. n.pc \notin {"idle", "picked"}
      BY <1>2 DEF Placed, Idle
    <3> QED
      BY <1>2, <3>1, OpIs DEF Placed
  <2>3. status \in Live \cup Settled /\ status' \in Live \cup Settled /\ status' \in Later[status]
    BY CommitGoesOn DEF SettlementSafe, TablesSafe
  <2>4. status' \in Later[n.status]
    BY <2>1, <2>2, <2>3, LaterIsAnOrder
  <2>5. status' = n.status => status = n.status
    BY <2>1, <2>2, <2>3, LaterIsAnOrder
  <2> QED
    BY <2>1, <2>4, <2>5
<1>6. n.op = "confirm" /\ n.pc \in {"sync", "commit"} => j.op # "confirm"
  BY <1>2, <1>4 DEF Placed, Apart
<1>7. Tokened(n)'
  <2>1. n.op = "confirm" /\ n.pc = "commit" => papers'.tokens = papers.tokens
    <3> SUFFICES ASSUME n.op = "confirm", n.pc = "commit" PROVE papers'.tokens = papers.tokens
      OBVIOUS
    <3>1. ~ j.token
      BY <1>4, <1>6 DEF Placed
    <3>2. papers.tokens \in 0..1
      BY DEF SettlementSafe, TablesSafe
    <3> QED
      BY <1>3, <3>1, <3>2
  <2>2. n.token => n.op = "confirm" /\ n.pc = "commit"
    BY <1>2 DEF Placed
  <2> QED
    BY <1>2, <2>1, <2>2 DEF Tokened
<1>8. Linked(n)'
  <2>1. ASSUME NEW l \in n.own, l.doc # "voucher", NEW x \in links' PROVE x.doc # l.doc
    <3>1. n.op = "confirm" /\ n.pc \in {"sync", "commit"}
      BY <1>2, <2>1 DEF Placed, Linked
    <3>2. \A y \in j.own : y.doc = "voucher"
      BY <1>4, <1>6, <3>1 DEF Placed, Linked
    <3> QED
      BY <1>2, <1>3, <2>1, <3>2 DEF Linked
  <2> QED
    BY <1>2, <2>1 DEF Linked
<1>9. Scanned(n)'
  <2> SUFFICES ASSUME n.op = "upload", n.pc = "commit"
               PROVE  /\ n.voucher \notin DOMAIN vouchers'
                      /\ \A w \in DOMAIN vouchers' : vouchers'[w] # n.scan
    BY <1>2, <1>3 DEF Scanned
  <2>1. n.voucher \notin DOMAIN vouchers /\ \A w \in DOMAIN vouchers : vouchers[w] # n.scan
    BY <1>2 DEF Scanned
  <2>2. CASE j.op = "upload"
    <3>1. j.voucher # n.voucher /\ j.scan # n.scan
      BY <1>2, <1>4, <2>2 DEF Apart, Uploading
    <3>2. /\ DOMAIN vouchers' = DOMAIN vouchers \cup {j.voucher}
          /\ vouchers'[j.voucher] = j.scan
          /\ \A v \in DOMAIN vouchers : vouchers'[v] = vouchers[v]
      BY <1>1, <2>2, CommitVouchers
    <3> QED
      BY <2>1, <3>1, <3>2
  <2>3. CASE j.op = "delete"
    <3>1. /\ DOMAIN vouchers' = DOMAIN vouchers \ {j.voucher}
          /\ \A v \in DOMAIN vouchers' : vouchers'[v] = vouchers[v]
      BY <1>1, <2>3, CommitVouchers
    <3> QED
      BY <2>1, <3>1
  <2>4. CASE j.op \notin {"upload", "delete"}
    BY <1>1, <2>1, <2>4, CommitVouchers
  <2> QED
    BY <2>2, <2>3, <2>4
<1> QED
  BY <1>5, <1>7, <1>8, <1>9

\* A commit keeps the invariant.
LEMMA CommitStep ==
    ASSUME SettlementSafe, NEW k \in Worker, Commit(k) PROVE SettlementSafe'
<1>1. PICK j, m : j = job[k] /\ m = Idle
  OBVIOUS
<1>2. /\ job' = [job EXCEPT ![k] = m] /\ UNCHANGED <<scans, made, cut>>
      /\ links' = links \cup j.own
  BY <1>1 DEF Commit
<1>3. TablesSafe'
  <2>1. clock' \in [frozen : BOOLEAN, due : BOOLEAN]
    <3>1. clock \in [frozen : BOOLEAN, due : BOOLEAN]
      BY DEF SettlementSafe, TablesSafe
    <3>2. clock' = [clock EXCEPT !.frozen = @ \/ (j.op = "upload" /\ WritesStatus(j))]
      BY <1>1 DEF Commit
    <3> QED
      BY <3>1, <3>2
  <2>2. stale' \in BOOLEAN /\ tangled' \in BOOLEAN
    BY DEF Commit
  <2>3. KycLinkedOnce'
    BY <1>1, <1>2, CommitFacts DEF SettlementSafe, TablesSafe, KycLinkedOnce, Linked
  <2>4. scans' \subseteq 1..made' /\ DOMAIN vouchers' \subseteq 1..made'
    BY <1>1, <1>2, CommitVouchers DEF SettlementSafe, TablesSafe
  <2>5. /\ vouchers' = [v \in DOMAIN vouchers' |-> vouchers'[v]]
        /\ \A v, w \in DOMAIN vouchers' : vouchers'[v] = vouchers'[w] => v = w
    BY <1>1, CommitVouchers
  <2> QED
    BY <2>1, <2>2, <2>3, <2>4, <2>5, CommitGoesOn, CommitSlot, CommitPapers DEF TablesSafe
<1>4. Bounded'
  BY <1>1, <1>2, BoundedStill DEF SettlementSafe, Idle
<1>5. VouchersHaveScans'
  <2> SUFFICES ASSUME NEW v \in DOMAIN vouchers', v \notin scans \cup cut
               PROVE  \E i \in Worker : job'[i].op = "delete" /\ job'[i].voucher = v
    BY <1>2 DEF VouchersHaveScans
  <2>1. v \in DOMAIN vouchers /\ ~ (j.op = "delete" /\ j.voucher = v)
    <3>1. CASE j.op = "upload"
      <4>1. j.voucher \in scans
        BY <1>1, <3>1, CommitFacts DEF Scanned
      <4>2. DOMAIN vouchers' = DOMAIN vouchers \cup {j.voucher}
        BY <1>1, <3>1, CommitVouchers
      <4> QED
        BY <3>1, <4>1, <4>2
    <3>2. CASE j.op = "delete"
      <4>1. DOMAIN vouchers' = DOMAIN vouchers \ {j.voucher}
        BY <1>1, <3>2, CommitVouchers
      <4> QED
        BY <4>1
    <3>3. CASE j.op \notin {"upload", "delete"}
      BY <1>1, <3>3, CommitVouchers
    <3> QED
      BY <3>1, <3>2, <3>3
  <2>2. PICK i \in Worker : job[i].op = "delete" /\ job[i].voucher = v
    BY <2>1 DEF SettlementSafe, VouchersHaveScans
  <2>3. i # k
    BY <1>1, <2>1, <2>2
  <2> QED
    BY <1>2, <2>2, <2>3, JobsAfter DEF SettlementSafe
<1>6. /\ Placed(m) /\ Timely(m)' /\ Tokened(m)' /\ Linked(m)' /\ Scanned(m)'
      /\ \A i \in Worker : i # k => Apart(job[i], m)
  BY <1>1, IdleSafeNext
<1>7. \A i \in Worker : \A n : i # k /\ n = job[i] =>
          Timely(n)' /\ Tokened(n)' /\ Linked(n)' /\ Scanned(n)'
  BY CommitOthers
<1> QED
  BY <1>2, <1>3, <1>4, <1>5, <1>6, <1>7, Assembled

-----------------------------------------------------------------------------
(* Every step.                                                             *)

\* The surroundings: no job takes part.
LEMMA AroundStep ==
    ASSUME SettlementSafe, TtlPasses \/ OtherClaims PROVE SettlementSafe'
<1>1. UNCHANGED <<status, vouchers, scans, links, papers, job, made, cut, stale, tangled>>
  BY DEF TtlPasses, OtherClaims
<1>2. /\ clock \in [frozen : BOOLEAN, due : BOOLEAN]
      /\ slot.estado = "AVAILABLE" => slot.holder = "nobody"
      /\ status \in Live \cup Settled
  BY DEF SettlementSafe, TablesSafe
<1>3. TablesSafe'
  <2>1. CASE TtlPasses
    <3>1. clock' = [clock EXCEPT !.due = TRUE] /\ slot' = slot
      BY <2>1 DEF TtlPasses
    <3>2. clock' \in [frozen : BOOLEAN, due : BOOLEAN]
      BY <1>2, <3>1
    <3> QED
      BY <1>1, <3>1, <3>2 DEF SettlementSafe, TablesSafe, SlotFollowsStatus, KycLinkedOnce
  <2>2. CASE OtherClaims
    <3>1. /\ slot' = [estado |-> "TTL_BLOCKED", holder |-> "other"] /\ clock' = clock
          /\ slot.holder = "nobody" /\ slot.estado = "AVAILABLE"
      BY <1>2, <2>2 DEF OtherClaims
    <3>2. SlotFollowsStatus'
      BY <1>1, <3>1 DEF SettlementSafe, TablesSafe, SlotFollowsStatus
    <3> QED
      BY <1>1, <3>1, <3>2 DEF SettlementSafe, TablesSafe, KycLinkedOnce
  <2> QED
    BY <2>1, <2>2
<1>4. Bounded' /\ Jobs' /\ VouchersHaveScans'
  BY <1>1 DEF SettlementSafe, Bounded, Coming, Jobs, VouchersHaveScans
<1>5. OneByOne'
  BY <1>1 DEF SettlementSafe, OneByOne, Placed, IsJob, Timely, Tokened, Linked, Scanned
<1>6. TwoByTwo'
  BY <1>1 DEF SettlementSafe, TwoByTwo, Apart, Uploading
<1> QED
  BY <1>3, <1>4, <1>5, <1>6 DEF SettlementSafe

\* No step of a request on the reservation breaks the invariant.
LEMMA StepIsSafe ==
    ASSUME SettlementSafe, [SettlementNext]_settlementVars PROVE SettlementSafe'
<1>1. CASE TtlPasses \/ OtherClaims
  BY <1>1, AroundStep
<1>2. ASSUME NEW k \in Worker, Advance(k) PROVE SettlementSafe'
  BY <1>2, PickedStep, FindStep, UpdateStep, DeadlockStep, StoreStep, UnlinkStep, SyncStep,
     PapersStep, CommitStep DEF Advance
<1>3. ASSUME NEW k \in Worker, KillWorker(k) \/ Pick(k) PROVE SettlementSafe'
  BY <1>3, KillStep, PickStep
<1>4. ASSUME NEW k \in Worker, NEW op \in Op, Load(k, op) PROVE SettlementSafe'
  BY <1>4, LoadStep
<1>5. CASE UNCHANGED settlementVars
  <2>1. UNCHANGED <<status, clock, slot, vouchers, scans, links, papers, job, made, cut,
                    stale, tangled>>
    BY <1>5 DEF settlementVars
  <2>2. TablesSafe' /\ Bounded' /\ Jobs' /\ VouchersHaveScans'
    BY <2>1 DEF SettlementSafe, TablesSafe, SlotFollowsStatus, KycLinkedOnce, Bounded, Coming,
                Jobs, VouchersHaveScans
  <2>3. OneByOne'
    BY <2>1 DEF SettlementSafe, OneByOne, Placed, IsJob, Timely, Tokened, Linked, Scanned
  <2>4. TwoByTwo'
    BY <2>1 DEF SettlementSafe, TwoByTwo, Apart, Uploading
  <2> QED
    BY <2>2, <2>3, <2>4 DEF SettlementSafe
<1> QED
  BY <1>1, <1>2, <1>3, <1>4, <1>5 DEF SettlementNext

\* The invariant holds of a reservation whose slot was just claimed.
LEMMA InitIsSafe == SettlementInit => SettlementSafe
<1> SUFFICES ASSUME SettlementInit PROVE SettlementSafe
  OBVIOUS
<1>1. \A k \in Worker : job[k] = Idle
  BY DEF SettlementInit
<1>2. OneByOne /\ TwoByTwo
  <2>1. ASSUME NEW k \in Worker
        PROVE  Placed(job[k]) /\ Timely(job[k]) /\ Tokened(job[k]) /\ Linked(job[k])
               /\ Scanned(job[k])
    BY <1>1, IdleSafe
  <2>2. ASSUME NEW i \in Worker, NEW k \in Worker PROVE Apart(job[i], job[k])
    BY <1>1, IdleSafe
  <2> QED
    BY <2>1, <2>2 DEF OneByOne, TwoByTwo
<1>3. Bounded
  <2>1. Coming = {}
    BY <1>1 DEF Coming, Idle
  <2>2. Cardinality(Coming) = 0
    BY <2>1, FS_EmptySet
  <2> QED
    BY <2>2, SettlementAssumption DEF SettlementInit, Bounded
<1>4. Jobs
  BY DEF SettlementInit, Jobs
<1>5. TablesSafe
  <2>1. DOMAIN vouchers = {} /\ vouchers = [v \in DOMAIN vouchers |-> vouchers[v]]
    BY DEF SettlementInit
  <2>2. SlotFollowsStatus /\ KycLinkedOnce
    BY DEF SettlementInit, SlotFollowsStatus, KycLinkedOnce, Live
  <2>3. /\ status = "PENDING_SLIP" /\ stale = FALSE /\ tangled = FALSE
        /\ clock = [frozen |-> FALSE, due |-> FALSE] /\ scans = {} /\ made = 0
        /\ slot = [estado |-> "TTL_BLOCKED", holder |-> "this"]
        /\ papers = [orders |-> 0, tokens |-> 0]
    BY DEF SettlementInit
  <2>4. /\ status \in Live \cup Settled /\ stale \in BOOLEAN /\ tangled \in BOOLEAN
        /\ clock \in [frozen : BOOLEAN, due : BOOLEAN]
    BY <2>3 DEF Live
  <2>5. /\ slot \in [estado : {"AVAILABLE", "TTL_BLOCKED", "RESERVED"},
                     holder : {"this", "other", "nobody"}]
        /\ slot.estado # "AVAILABLE" /\ status # "CONFIRMED"
        /\ papers \in [orders : Nat, tokens : 0..1] /\ papers.orders = 0
    BY <2>3
  <2>6. scans \subseteq 1..made /\ DOMAIN vouchers \subseteq 1..made
    BY <2>1, <2>3
  <2> QED
    BY <2>1, <2>2, <2>4, <2>5, <2>6 DEF TablesSafe
<1>6. VouchersHaveScans
  BY DEF SettlementInit, VouchersHaveScans
<1> QED
  BY <1>2, <1>3, <1>4, <1>5, <1>6 DEF SettlementSafe

\* The invariant implies what is promised of a reservation.
LEMMA SafeImpliesInv == SettlementSafe => SettlementInv
<1> SUFFICES ASSUME SettlementSafe PROVE SettlementInv
  OBVIOUS
<1>1. \A k \in Worker : /\ job[k].status = "none" \/ job[k].status \in From[job[k].op]
                        /\ job[k].holds \subseteq {"reservation", "slot"}
  <2> SUFFICES ASSUME NEW k \in Worker
               PROVE  /\ job[k].status = "none" \/ job[k].status \in From[job[k].op]
                      /\ job[k].holds \subseteq {"reservation", "slot"}
    OBVIOUS
  <2>1. PICK j : j = job[k]
    OBVIOUS
  <2>2. Placed(j)
    BY <2>1, JobFacts
  <2>3. j.pc \in {"idle", "picked"} => j.status = "none"
    BY <2>2 DEF Placed, Idle
  <2> QED
    BY <2>1, <2>2, <2>3 DEF Placed, Rows
<1>2. made <= MaxVouchers
  BY ComingFinite, SettlementAssumption DEF SettlementSafe, Bounded
<1>3. SettlementTypeOK
  BY <1>1, <1>2 DEF SettlementSafe, TablesSafe, SettlementTypeOK
<1>4. ConfirmedHasPapers /\ OneToken
  BY DEF SettlementSafe, TablesSafe, ConfirmedHasPapers, OneToken
<1> QED
  BY <1>3, <1>4 DEF SettlementInv, SettlementSafe, TablesSafe

-----------------------------------------------------------------------------
(* The theorems.                                                           *)

\* The inductive invariant holds in every behaviour.
LEMMA SafeAlways == SettlementSpec => []SettlementSafe
  BY InitIsSafe, StepIsSafe, PTL DEF SettlementSpec

\* However many requests overlap on a reservation (booking/services.py,
\* booking/router.py): its slot follows its status unless a late write is on
\* record, a confirmation has its papers and never a second token, no KYC
\* document is copied twice, and a listed voucher can be downloaded.
THEOREM SettlementAlways == SettlementSpec => []SettlementInv
  BY SafeAlways, SafeImpliesInv, PTL

\* Only a commit and another claim write the slot, and only a commit the status.
LEMMA WhatWrites ==
    ASSUME SettlementSafe, [SettlementNext]_settlementVars
    PROVE  \/ \E k \in Worker : Commit(k)
           \/ OtherClaims /\ status' = status
           \/ slot' = slot /\ status' = status
<1>1. ASSUME NEW k \in Worker, Advance(k), ~ Commit(k)
      PROVE  slot' = slot /\ status' = status
  BY <1>1 DEF Advance, LoadPicked, Find, Update, Deadlock, Store, Unlink, Sync, Papers, tables
<1>2. ASSUME NEW k \in Worker, KillWorker(k) \/ Pick(k)
      PROVE  slot' = slot /\ status' = status
  BY <1>2 DEF KillWorker, Pick, tables
<1>3. ASSUME NEW k \in Worker, NEW op \in Op, Load(k, op)
      PROVE  slot' = slot /\ status' = status
  BY <1>3 DEF Load, tables
<1>4. OtherClaims => status' = status
  BY DEF OtherClaims
<1>5. TtlPasses => slot' = slot /\ status' = status
  BY DEF TtlPasses
<1>6. UNCHANGED settlementVars => slot' = slot /\ status' = status
  BY DEF settlementVars
<1> QED
  BY <1>1, <1>2, <1>3, <1>4, <1>5, <1>6 DEF SettlementNext

\* Only a late write touches another reservation's slot or a final status.
LEMMA NothingWrittenLate ==
    ASSUME SettlementSafe, [SettlementNext]_settlementVars
    PROVE  /\ slot.holder = "other" => slot' = slot \/ stale'
           /\ status \in Settled => status' = status \/ stale'
<1>1. ASSUME NEW k \in Worker, Commit(k)
      PROVE  /\ slot.holder = "other" => slot' = slot \/ stale'
             /\ status \in Settled => status' = status \/ stale'
  <2>1. slot.holder = "other" => slot' = slot \/ stale'
    BY <1>1, CommitSlot
  <2>2. status \in Settled => status' = status \/ stale'
    <3> SUFFICES ASSUME status \in Settled, ~ stale' PROVE status' = status
      OBVIOUS
    <3>1. PICK j : j = job[k]
      OBVIOUS
    <3>2. ~ WritesStatus(j)
      <4> SUFFICES ASSUME WritesStatus(j) PROVE FALSE
        OBVIOUS
      <4>1. status = j.status /\ j.status \in From[j.op] /\ j.op \in DOMAIN To
        BY <1>1, <3>1, CommitFacts
      <4> QED
        BY <4>1, EachGoesOn
    <3> QED
      BY <1>1, <3>1, <3>2, CommitFacts
  <2> QED
    BY <2>1, <2>2
<1>2. OtherClaims => slot.holder # "other"
  BY DEF OtherClaims, SettlementSafe, TablesSafe
<1> QED
  BY <1>1, <1>2, WhatWrites

\* However many requests overlap, unless a late write is on record no request
\* touches a slot that went to another reservation, and what is confirmed,
\* expired or cancelled stays so (booking/services.py:165-262).
THEOREM NothingIsWrittenLate == SettlementSpec => NoLateWrites
<1>1. SettlementSafe /\ [SettlementNext]_settlementVars =>
        [slot.holder = "other" => slot' = slot \/ stale']_settlementVars
  BY NothingWrittenLate
<1>2. SettlementSafe /\ [SettlementNext]_settlementVars =>
        [(status \in Settled) => status' = status \/ stale']_settlementVars
  BY NothingWrittenLate
<1> QED
  BY SafeAlways, <1>1, <1>2, PTL
     DEF SettlementSpec, NoLateWrites, OthersKeepTheirSlot, SettledForGood

-----------------------------------------------------------------------------
(* The chain: what holds of the links and of what jobs have in store.      *)

\* A link of the expediente.
Link == [n : Nat \ {0}, doc : Draft \cup {"voucher"}, at : Nat, prev : Nat]

\* The links of a table or of a transaction.
LinkSet(L) == L \subseteq Link /\ IsFiniteSet(L) /\ \A l \in L : l.prev < l.n

Kept(j) ==
    /\ LinkSet(j.own)
    /\ j.at \in Nat /\ j.seen \subseteq Numbers(links)
    /\ \A l \in j.own : l.at = j.at
    /\ j.op = "confirm" => \A l \in j.own : l.doc \in Draft
    /\ \A l \in j.own : \A m \in links : l.n # m.n
    /\ \A l, m \in j.own : l.n = m.n => l = m

\* Numbers tell links apart.
LinksTyped ==
    /\ LinkSet(links)
    /\ \A l, m \in links : l.n = m.n => l = m
    /\ \A k \in Worker : Kept(job[k])
    /\ \A i, k \in Worker : i # k => Numbers(job[i].own) \cap Numbers(job[k].own) = {}

\* A transaction that appends and knows all links that are committed.
Current(j) == j.op \in Appends /\ j.seen = Numbers(links)

\* Link t is the last of some links.
LastIs(L, t) == t \in L /\ \A m \in L : (m # t => m.at < t.at) /\ m.prev # t.n

\* Three links.
Many(L) == \E l, m, n \in L : l # m /\ l # n /\ m # n

\* What such a transaction has in store continues the chain, or is too much.
Continues(j) ==
    /\ \A l \in links : l.at < j.at
    /\ \/ Many(j.own)
       \/ /\ Linear(links \cup j.own)
          /\ \/ j.own = {}
             \/ \E t \in j.own : j.own = {t} /\ LastIs(links \cup j.own, t)
             \/ j.op = "confirm" /\ \E s, t \in j.own : s.doc # t.doc

ChainSound ==
    /\ Linear(links)
    /\ Tied => status = "CONFIRMED" /\ \A k \in Worker : ~ Current(job[k])
    /\ ~ Tied => links = {} \/ \E t \in links : LastIs(links, t)
    /\ \A k \in Worker : Current(job[k]) => Continues(job[k])

ChainSafe == LinksTyped /\ (tangled \/ (stale /\ Tied) \/ ThreeTied \/ ChainSound)

-----------------------------------------------------------------------------
(* Numbers and times.                                                      *)

\* The numbers of some links are finitely many,
LEMMA NumbersFinite ==
    ASSUME NEW L, LinkSet(L)
    PROVE  /\ IsFiniteSet(Numbers(L)) /\ Numbers(L) \subseteq Nat
           /\ IsFiniteSet({l.at : l \in L}) /\ {l.at : l \in L} \subseteq Nat
<1>1. PICK f, g : f = [l \in L |-> l.n] /\ g = [l \in L |-> l.at]
  OBVIOUS
<1>2. Numbers(L) = {f[l] : l \in L} /\ {l.at : l \in L} = {g[l] : l \in L}
  BY <1>1 DEF Numbers
<1>3. \A l \in L : l.n \in Nat /\ l.at \in Nat
  BY DEF LinkSet, Link
<1>4. IsFiniteSet({f[l] : l \in L}) /\ IsFiniteSet({g[l] : l \in L})
  <2>1. IsFiniteSet(L)
    BY DEF LinkSet
  <2>2. IsFiniteSet({f[l] : l \in L})
    BY <2>1, ImageFinite
  <2>3. IsFiniteSet({g[l] : l \in L})
    BY <2>1, ImageFinite
  <2> QED
    BY <2>2, <2>3
<1> QED
  BY <1>2, <1>3, <1>4 DEF Numbers

\* and a new one is larger than any,
LEMMA NextIsNew ==
    ASSUME LinksTyped
    PROVE  /\ NextNumber \in Nat \ {0}
           /\ \A l \in links : l.n < NextNumber
           /\ \A k \in Worker : \A l \in job[k].own : l.n < NextNumber
<1> DEFINE owns == {job[k].own : k \in Worker}
           all == links \cup UNION owns
           S == {0} \cup Numbers(all)
<1>1. IsFiniteSet(owns) /\ \A L \in owns : LinkSet(L)
  <2>1. PICK f : f = [k \in Worker |-> job[k].own]
    OBVIOUS
  <2>2. owns = {f[k] : k \in Worker}
    BY <2>1
  <2>3. IsFiniteSet({f[k] : k \in Worker})
    BY ImageFinite, SettlementAssumption
  <2>4. \A L \in owns : LinkSet(L)
    BY DEF LinksTyped, Kept
  <2> QED
    BY <2>2, <2>3, <2>4
<1>2. IsFiniteSet(UNION owns)
  <2> HIDE DEF owns
  <2> QED
    BY <1>1, FS_UNION DEF LinkSet
<1>3. LinkSet(all)
  <2>1. IsFiniteSet(all)
    BY <1>2, FS_Union DEF LinksTyped, LinkSet
  <2> QED
    BY <1>1, <2>1 DEF LinksTyped, LinkSet
<1>4. IsFiniteSet(S) /\ S \in SUBSET Nat /\ S # {}
  <2> HIDE DEF all
  <2>1. IsFiniteSet(Numbers(all)) /\ Numbers(all) \subseteq Nat /\ IsFiniteSet({0})
    BY <1>3, NumbersFinite, FS_Singleton
  <2>2. IsFiniteSet({0} \cup Numbers(all))
    BY <2>1, FS_Union
  <2> QED
    BY <2>1, <2>2
<1>5. Max(S) \in Nat /\ \A y \in S : y <= Max(S)
  <2> HIDE DEF S
  <2> QED
    BY <1>4, MaxOf
<1>6. NextNumber = 1 + Max(S)
  BY DEF NextNumber
<1>7. \A l \in all : l.n \in S /\ l.n \in Nat
  BY <1>3 DEF Numbers, LinkSet, Link
<1> HIDE DEF S
<1>8. NextNumber \in Nat \ {0} /\ \A l \in all : l.n < NextNumber
  BY <1>5, <1>6, <1>7
<1> QED
  BY <1>8

\* and a transaction starts later than what there is.
LEMMA NowIsLate ==
    ASSUME LinksTyped
    PROVE  Now \in Nat /\ \A l \in links : l.at < Now
<1> DEFINE A == {l.at : l \in links}
           J == {job[k].at : k \in Worker}
           S == {0} \cup A \cup J
<1>1. IsFiniteSet(A) /\ A \subseteq Nat
  BY NumbersFinite DEF LinksTyped
<1>2. IsFiniteSet(J) /\ J \subseteq Nat
  <2>1. PICK f : f = [k \in Worker |-> job[k].at]
    OBVIOUS
  <2>2. J = {f[k] : k \in Worker}
    BY <2>1
  <2>3. IsFiniteSet({f[k] : k \in Worker})
    BY ImageFinite, SettlementAssumption
  <2>4. J \subseteq Nat
    BY DEF LinksTyped, Kept
  <2> QED
    BY <2>2, <2>3, <2>4
<1>3. IsFiniteSet(S) /\ S \in SUBSET Nat /\ S # {}
  <2> HIDE DEF A, J
  <2>1. IsFiniteSet({0} \cup A)
    BY <1>1, FS_Union, FS_Singleton
  <2>2. IsFiniteSet(S)
    BY <1>2, <2>1, FS_Union
  <2> QED
    BY <1>1, <1>2, <2>2
<1>4. Max(S) \in Nat /\ \A y \in S : y <= Max(S)
  <2> HIDE DEF S
  <2> QED
    BY <1>3, MaxOf
<1>5. Now = 1 + Max(S)
  BY DEF Now
<1>6. \A l \in links : l.at \in S /\ l.at \in Nat
  BY <1>1
<1> HIDE DEF S
<1> QED
  BY <1>4, <1>5, <1>6

-----------------------------------------------------------------------------
(* Steps that leave the chain alone.                                       *)

\* A job that has stored nothing and appends nothing.
LEMMA IdleKept ==
    ASSUME NEW m, m.op \notin Appends, m.own = {}, m.at \in Nat, m.seen = {}
    PROVE  Kept(m) /\ Kept(m)' /\ ~ Current(m) /\ ~ Current(m)'
  BY FS_EmptySet DEF Kept, LinkSet, Current, Appends

\* A job moves that has the links it had, or none and appends nothing.
LEMMA ChainFrame ==
    ASSUME SettlementSafe, ChainSafe, UNCHANGED <<links, tangled>>, stale => stale',
           status = "CONFIRMED" => status' = status \/ stale',
           NEW k \in Worker, NEW m, job' = [job EXCEPT ![k] = m],
           \/ m.op = job[k].op /\ m.own = job[k].own /\ m.at = job[k].at /\ m.seen = job[k].seen
           \/ m.op \notin Appends /\ m.own = {} /\ m.at \in Nat /\ m.seen = {}
    PROVE  ChainSafe'
<1>1. job'[k] = m /\ \A i \in Worker : i # k => job'[i] = job[i]
  BY JobsAfter DEF SettlementSafe
<1>2. Kept(m)' /\ Numbers(m.own) \subseteq Numbers(job[k].own)
      /\ (Current(m) => Current(job[k]) /\ (Continues(job[k]) => Continues(m)))
  <2>1. CASE m.op = job[k].op /\ m.own = job[k].own /\ m.at = job[k].at /\ m.seen = job[k].seen
    BY <2>1 DEF ChainSafe, LinksTyped, Kept, Current, Continues
  <2>2. CASE m.op \notin Appends /\ m.own = {} /\ m.at \in Nat /\ m.seen = {}
    BY <2>2, IdleKept DEF Numbers
  <2> QED
    BY <2>1, <2>2
<1>3. \A i \in Worker : Kept(job[i])'
  <2> SUFFICES ASSUME NEW i \in Worker PROVE Kept(job[i])'
    OBVIOUS
  <2>1. CASE i = k
    BY <1>1, <1>2, <2>1 DEF Kept
  <2>2. CASE i # k
    BY <1>1, <2>2 DEF ChainSafe, LinksTyped, Kept
  <2> QED
    BY <2>1, <2>2
<1>4. \A i, j \in Worker : i # j => Numbers(job'[i].own) \cap Numbers(job'[j].own) = {}
  BY <1>1, <1>2 DEF ChainSafe, LinksTyped
<1>5. LinksTyped'
  BY <1>3, <1>4 DEF ChainSafe, LinksTyped, Numbers
<1>6. ASSUME ~ tangled, ~ (stale' /\ Tied), ~ ThreeTied, ChainSound PROVE ChainSound'
  <2>1. Tied => status' = "CONFIRMED"
    BY <1>6 DEF ChainSound
  <2>2. \A i \in Worker :
            Current(job'[i]) => Current(job[i]) /\ (Continues(job[i]) => Continues(job'[i]))
    BY <1>1, <1>2
  <2>3. /\ Tied' = Tied /\ Linear(links)' = Linear(links)
        /\ \A t : LastIs(links, t)' = LastIs(links, t)
    BY DEF Tied, Linear, LastIs
  <2>4. \A i \in Worker : /\ Current(job[i])' = Current(job'[i])
                          /\ Continues(job[i])' = Continues(job'[i])
    BY DEF Current, Continues, Many, Linear, LastIs
  <2>5. Linear(links)'
    BY <1>6, <2>3 DEF ChainSound
  <2>6. Tied' => status' = "CONFIRMED" /\ \A i \in Worker : ~ Current(job[i])'
    BY <1>6, <2>1, <2>2, <2>3, <2>4 DEF ChainSound
  <2>7. ~ Tied' => links' = {} \/ \E t \in links' : LastIs(links, t)'
    BY <1>6, <2>3 DEF ChainSound
  <2>8. \A i \in Worker : Current(job[i])' => Continues(job[i])'
    BY <1>6, <2>2, <2>4 DEF ChainSound
  <2> QED
    BY <2>5, <2>6, <2>7, <2>8 DEF ChainSound
<1>7. Tied' = Tied
  BY DEF Tied
<1>8. ThreeTied' = ThreeTied
  BY DEF ThreeTied
<1> QED
  BY <1>5, <1>6, <1>7, <1>8 DEF ChainSafe

-----------------------------------------------------------------------------
(* Steps that append.                                                      *)

\* The last link is the one that get_last_chain_sha256 finds.
LEMMA LastIsFound ==
    ASSUME NEW L, \A l \in L : l.at \in Nat, NEW t, LastIs(L, t) PROVE LastOf(L) = {t.n}
<1>1. {l \in L : \A m \in L : m.at <= l.at} = {t}
  <2>1. \A m \in L : m.at <= t.at
    BY DEF LastIs
  <2>2. \A l \in L : (\A m \in L : m.at <= l.at) => l = t
    BY DEF LastIs
  <2> QED
    BY <2>1, <2>2 DEF LastIs
<1>2. L # {}
  BY DEF LastIs
<1> QED
  BY <1>1, <1>2 DEF LastOf, Numbers

\* What is found is less than a new number.
LEMMA FoundIsOld ==
    ASSUME NEW L, NEW n \in Nat \ {0}, \A l \in L : l.n \in Nat /\ l.n < n, NEW p \in LastOf(L)
    PROVE  p \in Nat /\ p < n
<1>1. CASE L = {}
  BY <1>1 DEF LastOf
<1>2. CASE L # {}
  BY <1>2 DEF LastOf, Numbers
<1> QED
  BY <1>1, <1>2

\* A link that follows the last one of a chain, or starts it, continues it.
LEMMA OneMore ==
    ASSUME NEW L, \A x \in L : /\ x.n \in Nat /\ x.prev \in Nat /\ x.at \in Nat
                               /\ x.prev < x.n,
           Linear(L), NEW p \in LastOf(L), L = {} \/ \E t \in L : LastIs(L, t),
           NEW l, l.n \in Nat \ {0}, l.prev = p, \A x \in L : x.n < l.n
    PROVE  /\ Linear(L \cup {l})
           /\ (\A x \in L : x.at < l.at) => LastIs(L \cup {l}, l)
<1>1. p \in Nat /\ p < l.n
  BY FoundIsOld
<1>2. \A x \in L : x.prev # l.n
  OBVIOUS
<1>3. \A x \in L : x.prev # p
  <2>1. CASE L = {}
    BY <2>1
  <2>2. ASSUME NEW t \in L, LastIs(L, t) PROVE \A x \in L : x.prev # p
    <3>1. p = t.n
      BY <2>2, LastIsFound
    <3> QED
      BY <2>2, <3>1 DEF LastIs
  <2> QED
    BY <2>1, <2>2
<1>4. Linear(L \cup {l})
  BY <1>3 DEF Linear
<1>5. (\A x \in L : x.at < l.at) => LastIs(L \cup {l}, l)
  BY <1>1, <1>2 DEF LastIs
<1> QED
  BY <1>4, <1>5

\* A transaction that knows the whole chain appends to it.
LEMMA ContinuesOn ==
    ASSUME LinksTyped, ChainSound, NEW k \in Worker, NEW j, j = job[k], Current(j),
           NEW d, NEW p \in LastOf(links \cup j.own), NEW l, NEW m,
           l = [n |-> NextNumber, doc |-> d, at |-> j.at, prev |-> p],
           m.op = j.op, m.at = j.at, m.seen = j.seen, m.own = j.own \cup {l},
           \/ j.own = {}
           \/ j.op = "confirm" /\ d \in Draft /\ \A x \in j.own : x.doc # d
    PROVE  Continues(m)
<1> DEFINE L == links \cup j.own
<1>1. /\ LinkSet(links) /\ Kept(j) /\ Continues(j) /\ ~ Tied
      /\ \A x \in links : x.at < j.at
  BY DEF LinksTyped, ChainSound, Continues
<1>0. CASE Many(j.own)
  <2>1. Many(m.own)
    BY <1>0 DEF Many
  <2> QED
    BY <1>1, <2>1 DEF Continues
<1> SUFFICES ASSUME ~ Many(j.own) PROVE Continues(m)
  BY <1>0
<1>a. Linear(L)
  BY <1>1 DEF Continues
<1>2. \A x \in L : /\ x.n \in Nat /\ x.prev \in Nat /\ x.at \in Nat /\ x.prev < x.n
                   /\ x.n < NextNumber
  BY <1>1, NextIsNew DEF Kept, LinkSet, Link
<1>3. NextNumber \in Nat \ {0} /\ l.n = NextNumber /\ l.prev = p /\ l.at = j.at /\ l.doc = d
  BY NextIsNew
<1>4. (L = {} \/ \E t \in L : LastIs(L, t)) =>
        /\ Linear(L \cup {l})
        /\ (\A x \in L : x.at < l.at) => LastIs(L \cup {l}, l)
  <2> HIDE DEF L
  <2>1. p \in LastOf(L)
    BY DEF L
  <2> QED
    BY <1>1, <1>a, <1>2, <1>3, <2>1, OneMore
<1>5. CASE j.own = {}
  <2>1. L = links /\ m.own = {l} /\ links \cup m.own = L \cup {l}
    BY <1>5
  <2>2. L = {} \/ \E t \in L : LastIs(L, t)
    BY <1>1, <2>1 DEF ChainSound
  <2>3. Linear(links \cup m.own) /\ LastIs(links \cup m.own, l)
    BY <1>1, <1>3, <1>4, <2>1, <2>2
  <2> QED
    BY <1>1, <2>1, <2>3 DEF Continues
<1>6. ASSUME NEW t, j.own = {t}, LastIs(L, t), j.own # {} PROVE Continues(m)
  <2>1. Linear(L \cup {l})
    BY <1>4, <1>6 DEF LastIs
  <2>2. links \cup m.own = L \cup {l} /\ t \in m.own /\ l \in m.own /\ t.doc # l.doc
        /\ m.op = "confirm"
    BY <1>3, <1>6
  <2> QED
    BY <1>1, <2>1, <2>2 DEF Continues
<1>7. ASSUME NEW s \in j.own, NEW t \in j.own, s.doc # t.doc PROVE Continues(m)
  <2>1. s.doc # l.doc /\ t.doc # l.doc /\ s \in m.own /\ t \in m.own /\ l \in m.own
    BY <1>3, <1>7
  <2>2. Many(m.own)
    BY <1>7, <2>1 DEF Many
  <2> QED
    BY <1>1, <2>2 DEF Continues
<1> QED
  BY <1>1, <1>5, <1>6, <1>7 DEF Continues

\* The chain holds after a step of one job that leaves the tables alone, if the
\* job has what it should.
LEMMA ChainMoves ==
    ASSUME SettlementSafe, ChainSafe, UNCHANGED <<links, status, stale, tangled>>,
           NEW k \in Worker, NEW m, job' = [job EXCEPT ![k] = m], Kept(m),
           \A i \in Worker : i # k => Numbers(job[i].own) \cap Numbers(m.own) = {},
           ChainSound => (Current(m) => Continues(m) /\ ~ Tied)
    PROVE  ChainSafe'
<1>1. job'[k] = m /\ \A i \in Worker : i # k => job'[i] = job[i]
  BY JobsAfter DEF SettlementSafe
<1>2. \A i \in Worker : Kept(job[i])'
  <2> SUFFICES ASSUME NEW i \in Worker PROVE Kept(job[i])'
    OBVIOUS
  <2>1. CASE i = k
    BY <1>1, <2>1 DEF Kept
  <2>2. CASE i # k
    BY <1>1, <2>2 DEF ChainSafe, LinksTyped, Kept
  <2> QED
    BY <2>1, <2>2
<1>3. \A i, j \in Worker : i # j => Numbers(job'[i].own) \cap Numbers(job'[j].own) = {}
  BY <1>1 DEF ChainSafe, LinksTyped
<1>4. LinksTyped'
  BY <1>2, <1>3 DEF ChainSafe, LinksTyped, Numbers
<1>5. ASSUME ChainSound PROVE ChainSound'
  <2>1. /\ Tied' = Tied /\ Linear(links)' = Linear(links)
        /\ \A t : LastIs(links, t)' = LastIs(links, t)
    BY DEF Tied, Linear, LastIs
  <2>2. \A i \in Worker : /\ Current(job[i])' = Current(job'[i])
                          /\ Continues(job[i])' = Continues(job'[i])
    BY DEF Current, Continues, Many, Linear, LastIs
  <2>3. \A i \in Worker : Current(job'[i]) => Continues(job'[i]) /\ ~ Tied
    BY <1>1, <1>5 DEF ChainSound
  <2>4. Linear(links)'
    BY <1>5, <2>1 DEF ChainSound
  <2>5. Tied' => status' = "CONFIRMED" /\ \A i \in Worker : ~ Current(job[i])'
    BY <1>5, <2>1, <2>2, <2>3 DEF ChainSound
  <2>6. ~ Tied' => links' = {} \/ \E t \in links' : LastIs(links, t)'
    BY <1>5, <2>1 DEF ChainSound
  <2>7. \A i \in Worker : Current(job[i])' => Continues(job[i])'
    BY <2>2, <2>3
  <2> QED
    BY <2>4, <2>5, <2>6, <2>7 DEF ChainSound
<1>6. Tied' = Tied
  BY DEF Tied
<1>7. ThreeTied' = ThreeTied
  BY DEF ThreeTied
<1> QED
  BY <1>4, <1>5, <1>6, <1>7 DEF ChainSafe

\* A link that a job has in store after a step, and had not before.
NewLink(k, m, l) ==
    /\ l = [n |-> NextNumber, doc |-> l.doc, at |-> job[k].at, prev |-> l.prev]
    /\ l.doc \in Draft \cup {"voucher"} /\ l.prev \in LastOf(links \cup job[k].own)
    /\ m.op = job[k].op /\ m.at = job[k].at /\ m.seen = job[k].seen
    /\ m.own = job[k].own \cup {l}
    /\ \/ job[k].own = {} /\ (m.op = "confirm" => l.doc \in Draft)
       \/ m.op = "confirm" /\ l.doc \in Draft /\ \A x \in job[k].own : x.doc # l.doc

\* An upload or a confirmation appends one link.
LEMMA AppendKeepsChain ==
    ASSUME SettlementSafe, ChainSafe, UNCHANGED <<links, status, stale, tangled>>,
           NEW k \in Worker, NEW m, job' = [job EXCEPT ![k] = m], NEW l, NewLink(k, m, l)
    PROVE  ChainSafe'
<1> DEFINE j == job[k]
           d == l.doc
           p == l.prev
<1>0. /\ l = [n |-> NextNumber, doc |-> d, at |-> j.at, prev |-> p]
      /\ d \in Draft \cup {"voucher"} /\ p \in LastOf(links \cup j.own)
      /\ m.op = j.op /\ m.at = j.at /\ m.seen = j.seen /\ m.own = j.own \cup {l}
      /\ \/ j.own = {} /\ (j.op = "confirm" => d \in Draft)
         \/ j.op = "confirm" /\ d \in Draft /\ \A x \in j.own : x.doc # d
  BY DEF NewLink
<1> HIDE DEF j, d, p
<1>j. j = job[k]
  BY DEF j
<1>1. LinksTyped /\ Kept(j) /\ LinkSet(links)
  BY <1>j DEF ChainSafe, LinksTyped
<1>2. /\ NextNumber \in Nat \ {0}
      /\ \A x \in links : x.n < NextNumber
      /\ \A i \in Worker : \A x \in job[i].own : x.n < NextNumber
  BY <1>1, NextIsNew
<1>3. p \in Nat /\ p < NextNumber
  <2>1. \A x \in links \cup j.own : x.n \in Nat /\ x.n < NextNumber
    BY <1>0, <1>j, <1>1, <1>2 DEF Kept, LinkSet, Link
  <2> QED
    BY <1>0, <1>2, <2>1, FoundIsOld
<1>4. l \in Link /\ l.prev < l.n /\ l.n = NextNumber /\ l.at = j.at /\ l.doc = d
  BY <1>0, <1>j, <1>1, <1>2, <1>3 DEF Kept, Link
<1>5. LinkSet(m.own)
  <2>1. IsFiniteSet(j.own \cup {l})
    BY <1>1, FS_AddElement DEF Kept, LinkSet
  <2> QED
    BY <1>0, <1>1, <1>4, <2>1 DEF Kept, LinkSet
<1>6. \A x \in links \cup j.own : x.n \in Nat /\ x.n # l.n
  BY <1>0, <1>j, <1>1, <1>2, <1>4 DEF Kept, LinkSet, Link
<1>7. Kept(m)
  BY <1>0, <1>1, <1>4, <1>5, <1>6 DEF Kept
<1>8. \A i \in Worker : i # k => Numbers(job[i].own) \cap Numbers(m.own) = {}
  <2> SUFFICES ASSUME NEW i \in Worker, i # k, NEW x \in job[i].own, NEW y \in m.own
               PROVE  x.n # y.n
    BY DEF Numbers
  <2>1. x.n \in Nat /\ x.n < NextNumber
    BY <1>0, <1>j, <1>1, <1>2 DEF LinksTyped, Kept, LinkSet, Link
  <2>2. y \in j.own => x.n # y.n
    BY <1>j, <1>1 DEF LinksTyped, Numbers
  <2> QED
    BY <1>0, <1>4, <2>1, <2>2
<1>9. ASSUME ChainSound, Current(m) PROVE Continues(m) /\ ~ Tied
  <2>1. Current(j)
    BY <1>0, <1>9 DEF Current
  <2>2. ~ Tied
    BY <1>j, <1>9, <2>1 DEF ChainSound
  <2>3. Continues(m)
    BY <1>0, <1>j, <1>1, <1>9, <2>1, ContinuesOn
  <2> QED
    BY <2>2, <2>3
<1> QED
  BY <1>7, <1>8, <1>9, ChainMoves

\* An upload appends its voucher, a confirmation one of the documents.
LEMMA StoreKeepsChain ==
    ASSUME SettlementSafe, ChainSafe, NEW k \in Worker, Store(k) PROVE ChainSafe'
<1>1. PICK j : j = job[k]
  OBVIOUS
<1>2. j.pc = "store" /\ j.op = "upload" /\ j.own = {} /\ Placed(j)
  <2>1. Placed(j) /\ j.pc = "store"
    BY <1>1, JobFacts DEF Store
  <2> QED
    BY <2>1 DEF Placed
<1>3. CASE \E w \in DOMAIN vouchers : vouchers[w] = j.scan
  <2>1. PICK m : m = Idle
    OBVIOUS
  <2>2. job' = [job EXCEPT ![k] = m] /\ UNCHANGED tables
    BY <1>1, <1>3, <2>1 DEF Store
  <2>3. m.op \notin Appends /\ m.own = {} /\ m.at \in Nat /\ m.seen = {}
    BY <2>1 DEF Idle, Appends
  <2> QED
    BY <2>2, <2>3, ChainFrame DEF tables
<1>4. CASE ~ \E w \in DOMAIN vouchers : vouchers[w] = j.scan
  <2>1. PICK prev \in LastOf(links \cup j.own) :
            job' = [job EXCEPT ![k].pc = "commit", ![k].voucher = made + 1,
                               ![k].own = LinkBy(k, "voucher", prev)]
    BY <1>1, <1>4 DEF Store, Visible
  <2>2. UNCHANGED <<links, status, stale, tangled>>
    BY <1>1, <1>4 DEF Store
  <2>3. PICK l, v, m : /\ l = [n |-> NextNumber, doc |-> "voucher", at |-> j.at, prev |-> prev]
                       /\ v = made + 1
                       /\ m = [j EXCEPT !.pc = "commit", !.voucher = v, !.own = j.own \cup {l}]
    OBVIOUS
  <2>4. job' = [job EXCEPT ![k] = m]
    <3>1. LinkBy(k, "voucher", prev) = j.own \cup {l}
      BY <1>1, <2>3 DEF LinkBy, Appended
    <3>2. job' = [job EXCEPT ![k].pc = "commit", ![k].voucher = v, ![k].own = j.own \cup {l}]
      BY <2>1, <2>3, <3>1
    <3> QED
      BY <1>1, <2>3, <3>2 DEF SettlementSafe, Jobs
  <2>5. m.op = j.op /\ m.at = j.at /\ m.seen = j.seen /\ m.own = j.own \cup {l}
    BY <1>2, <2>3 DEF Placed, IsJob
  <2>6. NewLink(k, m, l)
    BY <1>1, <1>2, <2>1, <2>3, <2>5 DEF NewLink
  <2> QED
    BY <2>2, <2>4, <2>6, AppendKeepsChain
<1> QED
  BY <1>3, <1>4

\* A confirmation copies the documents of the event.
LEMMA SyncKeepsChain ==
    ASSUME SettlementSafe, ChainSafe, NEW k \in Worker, Sync(k) PROVE ChainSafe'
<1>1. PICK j : j = job[k]
  OBVIOUS
<1>2. PICK d \in Missing(k), prev \in LastOf(links \cup j.own) :
          job' = [job EXCEPT ![k].own = LinkBy(k, d, prev)]
  BY <1>1 DEF Sync, Visible
<1>3. PICK l, m : /\ l = [n |-> NextNumber, doc |-> d, at |-> j.at, prev |-> prev]
                  /\ m = [j EXCEPT !.own = j.own \cup {l}]
  OBVIOUS
<1>4. job' = [job EXCEPT ![k] = m] /\ UNCHANGED tables /\ j.pc = "sync"
  BY <1>1, <1>2, <1>3 DEF Sync, LinkBy, Appended
<1>5. Placed(j)
  BY <1>1, JobFacts
<1>6. m.op = j.op /\ m.at = j.at /\ m.seen = j.seen /\ m.own = j.own \cup {l}
  BY <1>3, <1>5 DEF Placed, IsJob
<1>7. j.op = "confirm"
  BY <1>4, <1>5 DEF Placed
<1>8. d \in Draft /\ \A x \in j.own : x.doc # d
  BY <1>1 DEF Missing, Visible
<1>9. UNCHANGED <<links, status, stale, tangled>> /\ d \in Draft \cup {"voucher"}
  BY <1>4, <1>8 DEF tables
<1>10. NewLink(k, m, l)
  BY <1>1, <1>2, <1>3, <1>6, <1>7, <1>8 DEF NewLink
<1> QED
  BY <1>4, <1>9, <1>10, AppendKeepsChain

\* A request that appends remembers what it knows when it begins.
LEMMA LoadKeepsChain ==
    ASSUME SettlementSafe, ChainSafe, NEW k \in Worker, NEW op \in Op, Load(k, op)
    PROVE  ChainSafe'
<1>0. status \in From[op] /\ UNCHANGED <<links, status, stale, tangled>> /\ LinksTyped
  BY DEF Load, tables, ChainSafe
<1> DEFINE at == IF op \in Appends THEN Now ELSE 0
           seen == IF op \in Appends THEN Numbers(links) ELSE {}
<1>1. PICK a : a = Loaded(op)
  OBVIOUS
<1>2. PICK p, t : a = [Idle EXCEPT !.op = op, !.status = status, !.pc = p, !.todo = t,
                                   !.at = at, !.seen = seen]
  BY <1>1 DEF Loaded
<1> HIDE DEF at, seen
<1>a. a.op = op /\ a.own = {} /\ a.at = at /\ a.seen = seen /\ IsJob(a)
  BY <1>2 DEF Idle, IsJob
<1>b. PICK m : /\ job' = [job EXCEPT ![k] = m]
               /\ m.op = op /\ m.own = {} /\ m.at = at /\ m.seen = seen
  <2>1. CASE op = "upload"
    <3>1. PICK x \in Scan : job' = [job EXCEPT ![k] = [a EXCEPT !.scan = x]]
      BY <1>1, <2>1 DEF Load
    <3>2. PICK m : m = [a EXCEPT !.scan = x]
      OBVIOUS
    <3>3. m.op = op /\ m.own = {} /\ m.at = at /\ m.seen = seen
      BY <1>a, <3>2 DEF IsJob
    <3> QED
      BY <3>1, <3>2, <3>3
  <2>2. CASE op = "delete"
    <3>1. PICK y \in DOMAIN vouchers : job' = [job EXCEPT ![k] = [a EXCEPT !.voucher = y]]
      BY <1>1, <2>2 DEF Load
    <3>2. PICK m : m = [a EXCEPT !.voucher = y]
      OBVIOUS
    <3>3. m.op = op /\ m.own = {} /\ m.at = at /\ m.seen = seen
      BY <1>a, <3>2 DEF IsJob
    <3> QED
      BY <3>1, <3>2, <3>3
  <2>3. CASE op \notin {"upload", "delete"}
    <3>1. job' = [job EXCEPT ![k] = a]
      BY <1>1, <2>3 DEF Load
    <3> QED
      BY <1>a, <3>1
  <2> QED
    BY <2>1, <2>2, <2>3
<1>3. /\ m.op = op /\ m.own = {} /\ job' = [job EXCEPT ![k] = m]
      /\ op \in Appends => m.at = Now /\ m.seen = Numbers(links)
      /\ op \notin Appends => m.at = 0 /\ m.seen = {}
  BY <1>b DEF at, seen
<1>4. CASE op \notin Appends
  <2>1. m.at \in Nat
    BY <1>3, <1>4
  <2> QED
    BY <1>0, <1>3, <1>4, <2>1, ChainFrame
<1>5. CASE op \in Appends
  <2>1. Now \in Nat /\ \A l \in links : l.at < Now
    BY <1>0, NowIsLate
  <2>2. Kept(m)
    BY <1>3, <1>5, <2>1, FS_EmptySet DEF Kept, LinkSet
  <2>3. Numbers(m.own) = {}
    BY <1>3 DEF Numbers
  <2>4. ASSUME ChainSound PROVE Continues(m) /\ ~ Tied
    <3>1. status # "CONFIRMED"
      BY <1>0, <1>5 DEF Appends, From
    <3>2. links \cup m.own = links
      BY <1>3
    <3> QED
      BY <1>3, <1>5, <2>1, <2>4, <3>1, <3>2 DEF ChainSound, Continues
  <2> QED
    BY <1>0, <1>3, <2>2, <2>3, <2>4, ChainMoves
<1> QED
  BY <1>4, <1>5

-----------------------------------------------------------------------------
(* The commit, and every step.                                             *)

\* What is confirmed is not written over by anything but a late write.
LEMMA ConfirmedStays ==
    ASSUME SettlementSafe, [SettlementNext]_settlementVars
    PROVE  status = "CONFIRMED" => status' = status \/ stale'
  BY NothingWrittenLate DEF Settled

\* A job that has the expediente's links adds its own to it.
LEMMA CommitLinks ==
    ASSUME SettlementSafe, LinksTyped, NEW k \in Worker, Commit(k)
    PROVE  LinksTyped'
<1>1. PICK j, m : j = job[k] /\ m = Idle
  OBVIOUS
<1>2. job' = [job EXCEPT ![k] = m] /\ links' = links \cup j.own
  BY <1>1 DEF Commit
<1>3. job'[k] = m /\ \A i \in Worker : i # k => job'[i] = job[i]
  BY <1>2, JobsAfter DEF SettlementSafe
<1>4. Kept(j) /\ LinkSet(links)
  BY <1>1 DEF LinksTyped
<1>5. LinkSet(links')
  <2>1. IsFiniteSet(links \cup j.own)
    BY <1>4, FS_Union DEF Kept, LinkSet
  <2> QED
    BY <1>2, <1>4, <2>1 DEF Kept, LinkSet
<1>6. \A x, y \in links' : x.n = y.n => x = y
  BY <1>2, <1>4 DEF LinksTyped, Kept
<1>7. ASSUME NEW i \in Worker PROVE Kept(job[i])'
  <2>1. CASE i = k
    <3>1. m.op \notin Appends /\ m.own = {} /\ m.at \in Nat /\ m.seen = {}
      BY <1>1 DEF Idle, Appends
    <3> QED
      BY <1>3, <2>1, <3>1, IdleKept DEF Kept
  <2>2. CASE i # k
    <3>1. Kept(job[i]) /\ job'[i] = job[i]
      BY <1>3, <2>2 DEF LinksTyped
    <3>2. \A x \in job[i].own : \A y \in j.own : x.n # y.n
      BY <1>1, <2>2 DEF LinksTyped, Numbers
    <3>3. Numbers(links) \subseteq Numbers(links')
      BY <1>2 DEF Numbers
    <3> QED
      BY <1>2, <3>1, <3>2, <3>3 DEF Kept
  <2> QED
    BY <2>1, <2>2
<1>8. \A i, n \in Worker : i # n => Numbers(job'[i].own) \cap Numbers(job'[n].own) = {}
  <2>1. Numbers(m.own) = {}
    BY <1>1 DEF Numbers, Idle
  <2> QED
    BY <1>3, <2>1 DEF LinksTyped
<1> QED
  BY <1>5, <1>6, <1>7, <1>8 DEF LinksTyped, Numbers

\* A transaction that commits links and overlapped with no other that did.
LEMMA CommitKeepsChain ==
    ASSUME SettlementSafe, ChainSafe, NEW k \in Worker, Commit(k) PROVE ChainSafe'
<1>1. PICK j, m : j = job[k] /\ m = Idle
  OBVIOUS
<1>2. /\ job' = [job EXCEPT ![k] = m] /\ links' = links \cup j.own
      /\ tangled' = (tangled \/ (j.own # {} /\ Numbers(links) # j.seen))
  BY <1>1 DEF Commit
<1>3. Placed(j) /\ j.pc = "commit" /\ (stale => stale')
  BY <1>1, CommitFacts, Zenon DEF Commit
<1>4. status = "CONFIRMED" => status' = status \/ stale'
  <2>1. SettlementNext
    BY DEF SettlementNext, Advance
  <2> QED
    BY <2>1, ConfirmedStays
<1>5. CASE j.own = {}
  <2>1. UNCHANGED <<links, tangled>>
    BY <1>2, <1>5, Zenon DEF SettlementSafe, TablesSafe
  <2>2. m.op \notin Appends /\ m.own = {} /\ m.at \in Nat /\ m.seen = {}
    BY <1>1 DEF Idle, Appends
  <2> QED
    BY <1>2, <1>3, <1>4, <2>1, <2>2, ChainFrame
<1>6. CASE j.own # {}
  <2>1. LinksTyped /\ LinksTyped' /\ Kept(j)
    BY <1>1, CommitLinks DEF ChainSafe, LinksTyped
  <2>2. SUFFICES ASSUME ~ tangled', ~ (stale' /\ Tied'), ~ ThreeTied' PROVE ChainSound'
    BY <2>1 DEF ChainSafe
  <2>3. ~ tangled /\ j.seen = Numbers(links)
    BY <1>2, <1>6, <2>2, Zenon
  <2>4. (Tied => Tied') /\ (ThreeTied => ThreeTied') /\ (Many(j.own) => ThreeTied')
    <3>1. (Tied => Tied') /\ (ThreeTied => ThreeTied')
      BY <1>2 DEF Tied, ThreeTied
    <3>2. Many(j.own) => ThreeTied'
      BY <1>2, <2>1 DEF Many, ThreeTied, Kept
    <3> QED
      BY <3>1, <3>2
  <2>5. ChainSound
    BY <1>3, <2>2, <2>3, <2>4 DEF ChainSafe
  <2>6. Current(j) /\ Continues(j) /\ ~ Tied
    <3>1. j.op \in Appends
      BY <1>3, <1>6 DEF Placed, Appends
    <3>2. Current(j)
      BY <2>3, <3>1 DEF Current
    <3> QED
      BY <1>1, <2>5, <3>2 DEF ChainSound
  <2>7. Linear(links')
    BY <1>2, <2>2, <2>4, <2>6 DEF Continues
  <2>8. \A i \in Worker : ~ Current(job[i])'
    <3>1. Numbers(links') # Numbers(links)
      BY <1>2, <1>6, <2>1 DEF Kept, Numbers
    <3>2. Numbers(links) \subseteq Numbers(links')
      BY <1>2 DEF Numbers
    <3> SUFFICES ASSUME NEW i \in Worker
                 PROVE  ~ (job'[i].op \in Appends /\ job'[i].seen = Numbers(links'))
      BY DEF Current
    <3>3. CASE i = k
      <4>1. job'[k] = m /\ m.op \notin Appends
        BY <1>1, <1>2, JobsAfter DEF SettlementSafe, Idle, Appends
      <4> QED
        BY <3>3, <4>1
    <3>4. CASE i # k
      <4>1. job'[i] = job[i]
        BY <1>2, <3>4, JobsAfter DEF SettlementSafe
      <4>2. job[i].seen \subseteq Numbers(links)
        BY <2>1 DEF LinksTyped, Kept
      <4> QED
        BY <3>1, <3>2, <4>1, <4>2
    <3> QED
      BY <3>3, <3>4
  <2>9. ASSUME NEW t \in j.own, j.own = {t}, LastIs(links \cup j.own, t)
        PROVE  ~ Tied' /\ t \in links' /\ LastIs(links, t)'
    <3>1. t \in links' /\ LastIs(links, t)'
      BY <1>2, <2>9 DEF LastIs
    <3>2. \A x \in links' : x.at \in Nat
      BY <2>1 DEF LinksTyped, LinkSet, Link
    <3>3. ASSUME NEW x \in links', NEW y \in links', x # y, x.at = y.at PROVE FALSE
      <4>1. CASE x \in links /\ y \in links
        BY <2>6, <3>3, <4>1 DEF Tied
      <4>2. CASE x = t \/ y = t
        BY <1>2, <2>9, <3>2, <3>3, <4>2 DEF LastIs
      <4> QED
        BY <1>2, <2>9, <4>1, <4>2
    <3> QED
      BY <3>1, <3>3 DEF Tied
  <2>10. ASSUME NEW s \in j.own, NEW t \in j.own, s.doc # t.doc, j.op = "confirm"
         PROVE  Tied' /\ status' = "CONFIRMED"
    <3>1. s \in links' /\ t \in links' /\ s # t /\ s.at = t.at
      BY <1>2, <2>1, <2>10 DEF Kept
    <3>2. status' = "CONFIRMED"
      BY <1>1, <2>10, CommitFacts DEF To
    <3> QED
      BY <3>1, <3>2 DEF Tied
  <2>11. CASE \E t \in j.own : j.own = {t} /\ LastIs(links \cup j.own, t)
    BY <2>7, <2>8, <2>9, <2>11 DEF ChainSound
  <2>12. CASE j.op = "confirm" /\ \E s, t \in j.own : s.doc # t.doc
    BY <2>7, <2>8, <2>10, <2>12 DEF ChainSound
  <2> QED
    BY <1>6, <2>2, <2>4, <2>6, <2>11, <2>12 DEF Continues
<1> QED
  BY <1>5, <1>6

\* The other steps of a job leave the expediente and what it has in store for
\* it alone, or drop it.
LEMMA OthersKeepChain ==
    ASSUME SettlementSafe, ChainSafe, NEW k \in Worker,
           \/ LoadPicked(k) \/ Find(k) \/ Update(k) \/ Deadlock(k) \/ Unlink(k) \/ Papers(k)
           \/ KillWorker(k) \/ Pick(k)
    PROVE  ChainSafe'
<1>1. UNCHANGED <<links, tangled, status, stale>>
  BY DEF LoadPicked, Find, Update, Deadlock, Unlink, Papers, KillWorker, Pick, tables
<1>2. PICK j, r, s : j = job[k] /\ r = Loaded("sweep") /\ s = [Idle EXCEPT !.op = "sweep", !.pc = "picked"]
  OBVIOUS
<1>3. ASSUME NEW m, job' = [job EXCEPT ![k] = m], m \in {Idle, r, s} PROVE ChainSafe'
  <2>1. m.op \notin Appends /\ m.own = {} /\ m.at \in Nat /\ m.seen = {}
    <3>1. CASE m = r
      <4>1. PICK p, t : r = [Idle EXCEPT !.op = "sweep", !.status = status, !.pc = p, !.todo = t,
                                         !.at = 0, !.seen = {}]
        BY <1>2 DEF Loaded, Appends
      <4> QED
        BY <3>1, <4>1 DEF Idle, Appends
    <3>2. CASE m = s
      BY <1>2, <3>2 DEF Idle, Appends
    <3>3. CASE m = Idle
      BY <3>3 DEF Idle, Appends
    <3> QED
      BY <1>3, <3>1, <3>2, <3>3
  <2> QED
    BY <1>1, <1>3, <2>1, ChainFrame
<1>4. Placed(j) /\ IsJob(j) /\ Jobs
  BY <1>2, JobFacts DEF Placed, SettlementSafe
<1>6. CASE LoadPicked(k) \/ Deadlock(k) \/ KillWorker(k) \/ Pick(k)
  <2>1. \E m \in {Idle, r, s} : job' = [job EXCEPT ![k] = m]
    BY <1>2, <1>6 DEF LoadPicked, Deadlock, KillWorker, Pick
  <2> QED
    BY <1>3, <2>1
<1>7. ASSUME NEW m, job' = [job EXCEPT ![k] = m], m.op = j.op, m.own = j.own, m.at = j.at,
             m.seen = j.seen
      PROVE  ChainSafe'
  BY <1>1, <1>2, <1>7, ChainFrame
<1>8. CASE Find(k) \/ Update(k) \/ Unlink(k) \/ Papers(k)
  <2>1. /\ job'[k].op = j.op /\ job'[k].own = j.own /\ job'[k].at = j.at
        /\ job'[k].seen = j.seen
        /\ \E m : job' = [job EXCEPT ![k] = m]
    BY <1>2, <1>4, <1>8 DEF Find, Update, Unlink, Papers, Jobs, IsJob
  <2>2. PICK m : job' = [job EXCEPT ![k] = m]
    BY <2>1
  <2>3. job'[k] = m
    BY <1>4, <2>2, JobsAfter
  <2> QED
    BY <1>7, <2>1, <2>2, <2>3
<1> QED
  BY <1>6, <1>8

\* Nothing breaks the chain but what is on record.
LEMMA ChainStep ==
    ASSUME SettlementSafe, ChainSafe, [SettlementNext]_settlementVars
    PROVE  ChainSafe'
<1>1. ASSUME NEW k \in Worker, Advance(k) \/ KillWorker(k) \/ Pick(k) PROVE ChainSafe'
  BY <1>1, StoreKeepsChain, SyncKeepsChain, CommitKeepsChain, OthersKeepChain DEF Advance
<1>2. ASSUME NEW k \in Worker, NEW op \in Op, Load(k, op) PROVE ChainSafe'
  BY <1>2, LoadKeepsChain
<1>3. CASE TtlPasses \/ OtherClaims \/ UNCHANGED settlementVars
  <2>1. UNCHANGED <<links, job, status, stale, tangled>>
    BY <1>3 DEF TtlPasses, OtherClaims, settlementVars
  <2> QED
    BY <2>1 DEF ChainSafe, LinksTyped, Kept, ChainSound, Tied, ThreeTied, Linear, LastIs, Current,
                Continues, Many
<1> QED
  BY <1>1, <1>2, <1>3 DEF SettlementNext

\* A new reservation has no links.
LEMMA ChainStarts == SettlementInit => ChainSafe
<1> SUFFICES ASSUME SettlementInit PROVE ChainSafe
  OBVIOUS
<1>1. links = {} /\ \A k \in Worker : job[k] = Idle
  BY DEF SettlementInit
<1>2. LinksTyped
  BY <1>1, IdleKept, FS_EmptySet DEF LinksTyped, LinkSet, Idle, Numbers, Appends
<1>3. ChainSound
  BY <1>1 DEF ChainSound, Linear, Tied, Current, Idle, Appends
<1> QED
  BY <1>2, <1>3 DEF ChainSafe

\* Its documents are a chain as long as this is so.
LEMMA ChainImplied == ChainSafe => ChainForksOnlyInRaces
  BY DEF ChainSafe, ChainSound, ChainForksOnlyInRaces

\* However many requests overlap and whatever documents there are, the
\* expediente of a reservation is one chain, unless transactions that append to
\* it overlapped, one appended three links, or a late write took back a
\* confirmation that had appended two (expediente/services.py).
THEOREM ChainAlwaysSound == SettlementSpec => []ChainForksOnlyInRaces
  BY SafeAlways, ChainStarts, ChainStep, ChainImplied, PTL DEF SettlementSpec

=============================================================================
