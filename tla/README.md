# Bloque Hub: TLA+ models and proofs

Bloque Hub rents out the spaces of a venue: a customer or the staff books a
space for a time window, pays against a slip, is confirmed by the finance
staff, and enters with a QR code; or sales staff quote an event and have its
contract signed.  The backend (`src/backend/app`) is a FastAPI application over
PostgreSQL, with Celery tasks beside it.  What is hard about it is not any
single rule.  It is that many handlers and tasks, each one database
transaction, change the same few tables with hardly a lock, that files and
outside services sit beside the transactions, that availability is derived from
rows of *other* spaces, and that the ORM session does not read what the
database holds when the author expects it to.  This directory models that.

## 1. Inventory of the system

Paths are relative to `src/backend/app/`.

| Component | State | Operations | What makes it correct |
|---|---|---|---|
| **Inventory** `modules/inventory` | one row per (space, window): `estado`, `reservation_id`, `quote_id`; the graph of spaces; booking rules | claim, release, soft hold, block, month calendar, availability checks, occupancy monitor; spaces, relationships and rules | a slot goes to one request; a space and a part of it are never occupied together; what is offered can be booked; no cycles |
| **Booking** `modules/booking` | `reservations` (status, slot, group, TTL), `payment_vouchers`, discount usages | create (single, event, event with documents), slip, voucher upload and delete, confirm, reject, cancel, TTL sweep | reservations and rows agree; confirmed is final; an event is cancelled as a whole; a due reservation leaves |
| **Reservation documents** `modules/reservation_documents` | versions of KYC files per event | upload a version, copy to the expediente, purge, nightly clean-up | one ACTIVE version per type; quota; nothing lost under review |
| **Expediente** `modules/expediente` | chain of hashes per reservation or contract | `append_document` | a chain, never a tree |
| **CRM** `modules/crm` | leads, quotes, contracts | create and move quotes, send a contract, delegate signer task | one document per approved quote; ends are final |
| **Webhook** `api/webhooks.py` | contract, expediente, service order | events of the signature provider | duplicated or reordered events neither regress nor double anything |
| **Public wizard** `api/public.py`, `modules/crm/public_service.py` | quotes, documents, files | validate a folio, price, submit | a folio is quoted once; the quote has its slots and its files |
| **Portal gate** `modules/portal_gate` | none | folio check, signed, with two retry layers | bounded attempts; never a guessed verdict |
| **Rate limiter** `core/rate_limit.py` | a counter in Redis | count a request | fails open, and only then |
| **Pricing, discounts** `modules/pricing`, `modules/discounts` | rules; codes, counters, usages | edit; price a cart in four places; validate and use a code | all places name one price; limits hold |
| **Fulfillment, access** `modules/fulfillment`, `modules/access` | service orders, checklists, evidence files; QR tokens | complete items, upload, review, readiness; issue tokens | what is approved is what was reviewed; READY was earned |
| **Finance** `modules/finance` | credit balances; CFDI | apply a credit | no money made or lost |
| **Notifications** `modules/notifications` | log of reminders | the reminder task | once, and really sent |
| **Operations** `modules/operations` | none | dashboard: list and figures | they agree with each other and with the vouchers |
| **Identity** `modules/identity` | users, tenants | create, update, deactivate | unique e-mails; a last SUPERADMIN |
| **Audit** `modules/audit` | append-only log | inside the transactions | says what happened |
| **Auth, UMA rates, analytics, catalogue, payments, system, frontend** | sessions, tables, views | lookups, reports | no protocol of their own |

How they interact.  Booking and CRM call inventory inside their own
transactions, the first for claims and releases, the second for holds.  A
confirmed payment creates a service order and a QR token and copies the KYC
documents; a signed contract creates a service order.  Tasks (the TTL sweep,
the delegate signer, the reminders, the clean-up of drafts) select ids in one
transaction and act on each in another.  Portal, the signature provider and
Redis are reached over the network.  There are no events between the parts: all
coupling is through rows and files.

Where it is hard:

* *Sessions.*  `db/session.py:20` sets `autoflush=False`.  A query sees neither
  the attributes just assigned nor, for an object that is already loaded, the
  row that a `SELECT ... FOR UPDATE` has just locked.
* *Checks without locks.*  Most handlers read, decide, and write what they
  computed.  UPDATEs have no version check.
* *Derived availability.*  Parents and children are looked up under the very
  same window; windows that only overlap are compared within one space.
  Shadow rows (`BLOCKED_BY_PARENT`, `BLOCKED_BY_CHILD`) do the rest.
* *Stale ids.*  The tasks act on what an earlier transaction saw.
* *Groups.*  An event has several reservations that other actors may move.
* *Files.*  They are written and removed before the transaction that names
  them commits, and nothing undoes them.
* *The network.*  The provider loses, repeats and reorders events; Portal
  answers anything, or late, or never.

`PROJECT.json` lists every hazard with its line and the property that covers it.

## 2. Modules

| Module | Models |
|---|---|
| `Slots` | the inventory table and the algorithms on it, as operators: claim, release, hold, block |
| `Booking` | the reservation lifecycle: one action per handler or task transaction, over `Slots` |
| `Calendar`, `Dashboard` | what readers are told of the tables of `Booking` |
| `SlotLedger`, `BookingLedger` | the abstract promise: a set of compatible entries, some sealed; the mapping of `Booking` to it |
| `SlotClaim` | claims, holds and releases statement by statement, as concurrent transactions |
| `Settlement`, `Expediente` | the handlers of one reservation cut at their reads, flushes and commits, with the papers and the chain they write |
| `Dossier` | the KYC documents of one event, with their files |
| `Fulfillment` | one service order: checklist, evidence and files, readiness |
| `Contracts` | quotes, contracts, the webhook, the delegate task, an unreliable provider |
| `PortalGate`, `Wizard` | the folio check; the public wizard statement by statement behind a rate limiter |
| `Money`, `Pricing`, `Discounts`, `Quoted` | amounts; rules and four calculations of a price; codes; totals where the two meet |
| `Spaces`, `Accounts` | the catalogue of spaces; the users |
| `Credits`, `Reminders` | credit balances; the reminder task |
| `MCBooking`, `MCSlotClaim`, `MCSettle`, `MCOffice`, `MCSales`, `MCWizard`, `MCCatalogue` | instances for TLC |
| `BookingProofs` (with `Slots`, `Calendar`, `Dashboard`), `SlotClaimProofs`, `SettlementProofs`, `FulfillmentProofs` (with `Dossier`), `SalesProofs`, `WizardProofs`, `CatalogueProofs` | proofs |
| `FiniteData` | facts about finite sets, sums and iterated maps that several of the proofs use |

`Booking` is used in two grains.  It takes each handler as one step, so that
the inventory of a whole venue can be explored with it; `SlotClaim` and
`Settlement` cut the same handlers into statements, the first for what several
requests do to the slots, the second for what they do to one reservation.
Modules that share no state are checked together: the variable `about` of an MC
module says which of them a behaviour is about.

The same shape recurs.  A worker (`Staff`, `Clerk`, `Helper`, `Curator`,
`Finance`, `Registrar`, ...) stands for a request or a task iteration that runs
at the same time as others.  Its variable holds what it has read and is about to
write; an action `XLoad` reads and checks, `XCommit` writes, and steps between
them write files or call out.  Where one request must not have acted on what
another changed, a history variable (`raced`, `clashed`, `stale`, `tangled`,
`unseen`, `touched`) records that they met, and the property says that nothing
goes wrong *unless* they did: it states both what the code achieves and where
it stops.  Each such variable is set by the very overlap the code allows.

### Slots

A slot is `<<space, window>>`, the unique key of the table.  A row that was
never inserted reads like an `AVAILABLE` one, since `_get_or_create_slot`
inserts it so; the table is therefore a total function.  `Claimable` is the
conjunction of the checks of `claim_slot_for_reservation`, `Claim` what it
writes; `Release` is the row reset in `reject_payment`,
`expire_reservation_by_ttl` and `cancel_reservation` together with
`release_relationship_blocks_for_reservation_slot`.  The order matters: the
helper queries siblings *before* the reset row is flushed, and the model keeps
that.  A space with a parent shadows only its parent, a space without one only
its children, because the code's children are in an `else` branch.

### Booking, Calendar, Dashboard

| Code | Action |
|---|---|
| `POST /reservations` | `PostReservation` |
| `POST /reservation-events` (two items) | `PostEvent` |
| `generate-slip`, `bulk/generate-slip` | `GenerateSlip`, `BulkGenerateSlip` |
| `upload-slip`, `DELETE .../voucher` | `UploadSlip`, `DeleteVoucher` |
| `confirm`, `reject` | `ConfirmPayment`, `RejectPayment` |
| `cancel` outside and inside an event | `CancelSingle`, `CancelEvent` |
| `expire_reservations_ttl` | `SweepSelect`, then `SweepOne` per id; `SweepAbort` when it raises or the worker dies |
| `create_quote` | `CreateQuote` (its soft hold) |
| `POST /spaces/{id}/block` | `BlockSlot`, only in `SpecWithBlocks` |
| the clock | `TTLPasses` |

Variables are the columns the behaviour depends on: `rows`; `status`, `slot`,
`grp` (`group_event_id`, named by the first reservation of the event),
`frozen`, `due`; `vouchers` (keyed by file, the unique SHA-256); `expediente`
(the `PAYMENT_VOUCHER` documents, which are never removed); `sweep` (the ids a
running task holds); `trail` (the status in the last audit record, following
the writes of `append_audit` only).  A request that fails rolls back and is no
step.  `Calendar` adds the month calendar, the two availability checks and the
staff's occupancy monitor as functions of `rows`; `Dashboard` adds the groups,
their urgency and payment flag, and the figures of the day.

### SlotClaim

Each transaction runs the statements of the code one at a time:
`_get_or_create_slot` (`Load`, `Insert`), `SELECT ... FOR UPDATE` (`Lock`), the
checks, the flush, `Commit`.  `cache` holds the session's objects *as first
loaded*: a lock does not refresh them.  `written` holds flushed, uncommitted
row versions, visible to their own transaction only (READ COMMITTED).  An
insert of a missing row locks its key and waits for a rival's; if the rival
commits, the insert fails on the unique key and the request ends.  An UPDATE
writes only attributes that changed.  A cycle of waits is broken by failing a
member (`DeadlockAbort`).  Claims take several items in the order of the
request, holds lock in the order of the key, releases lock relatives first and
the released row at the flush.  `late` is history: the slots that a release
wrote although their rows were not, or no longer, booked for its reservation,
as when a cancellation overlaps the sweep (`IsLate`).

### Settlement and Expediente

| Code | Action |
|---|---|
| a handler loads its reservation and checks the status | `Load` |
| the sweep selects ids, and later loads one of them | `Pick`, `LoadPicked` |
| the slot query of a release | `Find` |
| the UPDATE of the reservation row, which takes its lock | `Update` |
| PostgreSQL breaks a cycle of waits | `Deadlock` |
| a voucher's file is written, or removed | `Store`, `Unlink` |
| the copies of the KYC documents; the service order and the token | `Sync`, `Papers` |
| the commit, at which all writes become visible | `Commit` |
| the worker dies; the time passes; another reservation takes the free slot | `KillWorker`, `TtlPasses`, `OtherClaims` |

The locks last to the commit, so a job keeps what it has written until then.
`stale` records that a commit wrote over a status it had not read; `tangled`
that transactions which append to the chain overlapped.  `Expediente` has the
look-up of the last link: the greatest `created_at`, which is the *start* of
the transaction that appended it, so that ties and inversions leave a choice.

### Dossier, Fulfillment

`Dossier`: an event is created with its documents (`CountActive`,
`CreateWrite`, `CreateCommit`) or without (`BookCommit`); versions are uploaded
(`UploadLoad`, `UploadWrite`, `UploadCommit`); reservations leave by
cancellation or expiry (`Leave`), which purges the drafts with the last one
(`Purge`, `PurgeCommit`), or are rejected (`Reject`), which does not; a
confirmation of the anchor copies the documents (`Confirm`); `CleanUp` is the
nightly task.  `Fulfillment`: every handler of the checklist, the customer's
uploads and the staff's review, cut between load, file and commit; the
readiness is recomputed in a transaction of its own, which reads the item or
document that the request has just changed (`Refresh`) before it queries the
others (`RecomputeLoad`) and writes the status (`RecomputeCommit`).  `SeenItems`
and `SeenRows` are what it sees: the value of the first read for its own row,
the later ones for the rest.  `mixed` records that the own row was written in
between, `touched` the rows at which two requests met.  The ORM writes only columns whose value changed, and the
models do the same: a review that sets the status it loaded writes nothing.

### Contracts, Credits, Reminders

`Contracts`: `CreateQuote`, `PatchLoad`/`PatchCommit`; sending a contract is
`SendCheck`, the call (`ProviderAccepts`, `ProviderFails`) and
`InsertContract`; the provider `Reports` outcomes in any order and repeats
them; the webhook is `Deliver`/`HookLoad`, `HookFile`, `HookCommit`, it may hang
in a download (`HookHangs`), and `Restart` loses it; the delegate task is `TaskSelect`, `TaskLoad`,
`TaskCommit`.  `Credits`: `ApplyLoad`, `ApplyCommit`.  `Reminders`: a run
(`Begin`) looks for a log row (`Look`), commits one (`Log`), queues the e-mail
(`Send`) and ends; `Mail` is the task that sends it; runs overlap and are
killed.

### PortalGate, Wizard

`PortalGate` has the state of the two retry loops and what was heard last; what
Portal answers is any member of `Reply`.  `Wizard` runs a submission statement
by statement: limiter, form, Portal, availability, insert of the quote (unique
folio), each slot row (loaded or inserted, locked, checked, written), each
document's file, commit, the refresh after it, the answer; with the
compensation that unlinks files when something raises (`CleansUp`; an unlink that
fails is passed over, and `stuck` has the file), a commit that raises although
PostgreSQL has done it (`CommitRaises`; `unsure` has the quote), a full disk, a
lost answer and a kill anywhere.  The rows are locked as in `SlotClaim`.

### Pricing, Discounts, Quoted, Spaces, Accounts

Money is in cents and time in half hours.  `Pricing` has the rules with their
two endpoints and the four calculations: the wizard's packages
(`PackagePrice`, shared out to the slots by `Allocate`), the printed detail table
(`DetailRows`), the price per slot of an event (`HybridPrice`), and the lines and
hours of its summary.  The code merges contiguous slots in several
loops, which sort them and extend the last block of a list; `AllBlocks` has the
sets that all of them find.
`Discounts` has codes, validation, preview, use and counters; `Quoted` the
totals where price and code meet.  `Spaces` has the cycle check (`Reached`: the
breadth-first search, round by round, until no round can add a space),
relationships, creation and deletion of spaces, and rules; `Accounts` creation, update and
deactivation of users.

## 3. Runs

All finish within five minutes on two workers.  An entry like `ClaimInv` is the
conjunction of a module's type invariant and its named safety invariants.

| Run | Instance | Shows |
|---|---|---|
| `rooms` | hall with two rooms, two meeting windows, two reservations | types; rows and reservations agree; no double booking; family exclusion; what calendar, availability check and monitor say; confirmed is final; the sweep spares reviewed payments; `Booking` implements `SlotLedger` |
| `events` | the same spaces, one window, a quote, fairness | events cancel as a whole; the audit errs only by the sweep; the dashboard agrees with itself; holds stand; due reservations leave |
| `blocks` | the same, a customer and a staff reservation, the block endpoint in use | no row keeps a dead owner |
| `claims` | four transactions: events in opposite orders with a quote, a release of the hall among bookings, a release that is done twice at a time, and any mix on new and existing rows | new slots have one winner; a hall and its room never both go, but by a late release; every request ends |
| `settle` | two requests of any kind on one reservation, one scan, two types of KYC document, two vouchers | the slot follows the status unless a late write is on record; papers, tokens, vouchers; the chain forks only in races |
| `office` | one order with three possible evidence rows, two requests; one event of two with two document types, two requests | `FulfillmentInv`, `DossierInv`; a complete order becomes READY; nothing is lost under review; drafts of an ended event go |
| `sales` | one quote with two lines, two requests, one restart; one credit, two requests; two reservations, three reminder runs, one failure | contracts are signed once, with file and order; ends are final; reports land unless a download hangs for good; credits are conserved; a logged reminder is sent |
| `wizard` | four requests in four combinations of what they send, each kind of trouble apart | Portal's verdicts; one quote per folio; quotes hold their slots; files match quotes, unless a commit raised after it was done or an unlink failed; every request settles |
| `catalogue` | carts of up to three of nine slots, two tariffs; three bookings with one code; three spaces; two users, tenants, e-mails; two overlapped requests | all prices agree; discounts honoured and limited; cycles only by overlap; e-mails and the last SUPERADMIN |
| `unlock` (violation) | one release of a room | the hall stays blocked |
| `recheck` (violation) | two claims of one existing free slot | both commit |
| `chain` (violation) | one confirmation, three documents | the chain forks without a race |

*Bounds.*  Exclusion is between pairs, so two reservations suffice for every
conflict, and a second one is what takes a slot that the first has left.  A
hall with two rooms is the smallest family in which a sibling matters; two
windows that meet the smallest set in which overlap differs from equality.  The
event size is two in `Booking` and `Dossier` (the loop of `CancelEvent` is
unrolled), files and quotes one.  `MaxActive = 1` makes the anti-hoarding limit
bite; the staff reservation of `blocks` is not limited.  In `SlotClaim` four
transactions are the most that finish in time, and they meet on the same rows
in opposite orders.  Where requests race through reads and commits (`settle`,
`office`, `sales`, `catalogue`), two at a time show every race of a pair, and
what is proved holds for any number.  `MaxVouchers`, `MaxUploads`,
`MaxChanges`, `MaxDrafts`, `MaxRuns`, `MaxFailures`, `MaxTrouble` bound
counters at the first value at which the second of a thing meets the first;
`MaxSpent` bounds uploads and changes of an order together (four are what it
takes to make READY of two states); three reminder runs make one start after two that overlapped.  Two KYC types in
`settle` are what lets two links tie; three are the run `chain`.  The carts
contain slots that touch, overlap midnight, are empty, exceed twelve hours and
lie on two days; amounts contain odd cents, a minimum just missed and a
discount that exceeds its line.  `MaxFields` is one changed field per update of
a user.  `SmallSpec` of `MCWizard` keeps Portal's trouble, the limiter's
trouble and the contention of rows in separate behaviours, since a request's
transaction starts the same whatever it went through before.  `Alike` permutes
rooms without a rule, users and clerks, which no formula of the run names, and
the run checks no liveness.

*Fairness.*
* `FairSpec` of `Booking`: Celery beat starts the sweep again whenever there is
  something to select, and `SweepOne(r)` is strongly fair: an id that keeps
  being selected is reached some day.  The code grants this as long as an id
  ahead of it does not fail at every run (an exception ends the task,
  `booking/tasks.py:66`).  No user is assumed to act.
* `FairSpec` of `SlotClaim`, `Progress(q)` in `Wizard`, `Finishes(k)` in
  `Fulfillment`, `Completes(k)` in `Dossier`, `Work(w)` and `Mail(r)` in
  `Reminders`: a request or task that runs goes on to its next statement, and
  queued e-mails are sent.  A kill remains possible at any step.
* `Dossier`: the nightly `CleanUp` is scheduled every night, and is not killed
  each time just before it commits (strong fairness).
* `Contracts`: a call of the webhook goes on (`HookFile`, `HookCommit`) unless its
  download hangs.  `urlopen` has no timeout and runs on the only event loop
  (`api/webhooks.py:77`), so a host that never answers stops the server for good:
  `HookHangs` has no way out but `Restart`, which nobody is assumed to do, and
  `ReportsLand` promises an end only unless that happens.  `Deliver(document)` is
  fair, which assumes that the provider repeats an event until it is answered;
  the number of restarts is bounded.
* `Settlement`, `Spaces`, `Accounts`, `Pricing`, `Discounts`, `Credits` state no
  liveness.

Deadlock checking is on in `SlotClaim`, where all requests being over is the
only place to stop.  It is off elsewhere: when every reservation has reached a
final status, or nobody asks for anything, the application rests.

### Disagreements with comments and tests

Shown by a run:

1. `unlock`: the sibling query of the release counts the row being released (it
   is not flushed), so a parent blocked by its only booked child stays
   `BLOCKED_BY_CHILD` for good (`inventory/services.py:281` says otherwise).
2. `recheck`: the re-verification "inside the lock" (`inventory/services.py:136`)
   reads the object loaded before the lock.
3. `chain`: links appended in one transaction tie in `created_at`, so
   "the last link" is any of them (`expediente/models.py:18` says a chain).
   Migration `e3f4a5b6c7d8` defines three required types, so three links in one
   transaction are the normal case.

Met while modelling, without a run of their own.

*Inventory and booking.*  The middle level of a three-level hierarchy does not
shadow its children (`inventory/services.py:242`).  The overlap part of the
re-verification is not covered by any lock (`:136-137`).  Two quotes that insert
the same new rows in opposite orders deadlock before the sorted lock of `:490`.
The occupancy monitor (`inventory/router.py:437`) names
`ReservationStatus.COMPLETED`, which is no member, and answers 500 whenever a
shadow row's relative has a reservation and is among the rows read.  A query
with `space_id` reads one space and always answers, but then shows a shadow row
as TENTATIVE whatever became of the booking that casts it.  `CalendarIsRight`
speaks of every query that answers.  A booking rule whose last start plus minimum duration reaches
24:00 makes the month calendar raise.  The availability checks do not look at
windows that only meet the one asked for.  A voucher that is deleted leaves its
payment under review, and its file is then accepted for another reservation
(`tests/test_payment_voucher_upload.py:210` tests the duplicate check).  The
sweep audits and counts ids that `expire_reservation_by_ttl` skipped
(`booking/tasks.py:25`), which is why `AuditErrsOnlyBySweep` has an exception.
The beat schedule names a task `booking.complete_past_events` that is not
defined.  The dashboard's payment flag stays true for rejected and expired
reservations whose vouchers remain, and its figures leave out the terminal
members that its list ranks first.

*Settlement.*  A confirm and a release lock reservation and slot in opposite
orders; PostgreSQL fails one of them with 500.  A release that was begun before another one of the same slot
committed frees the row again, and with it the slot of whoever has taken it since:
then a hall and its room both go (`FamilyOneWinner` names it, by `late`; without
that exception TLC finds it in the run `claims`).  A confirm that commits after a
release leaves a slot `RESERVED` for nobody, or marks the slot of somebody
else.  Two overlapped confirms create two service orders, but never two tokens.
Of several documents of type OTRO only one is copied, and when the anchor
reservation is rejected the documents of its event are never copied.
`reject_payment` does not purge drafts.  Failed uploads leave files.

*Sales.*  A download that hangs in the webhook stops the server.  Freezing a line's subtotal subtracts its discount again.  A PATCH
that read an old status can move an approved quote back.  A second send, or a
failure after the call, leaves a document at the provider that no row names.
Holds are never released when a quote is rejected or expires.  A reminder's row
is committed before the mail is queued; migration `da117d71a22d` drops the
unique index that would stop a second one; the mail task does not look at the
status again.

*Office.*  An order may become READY although it was never complete: the request
keeps the row that it refreshed (`fulfillment/router.py:218`, `:579`) while
`compute_readiness` queries the others later, so a document that is rejected
between the two reads still counts as approved when the last item is done.
`ReadyWasEarned` names it (`mixed`); without that exception TLC finds it.
`fulfillment/tasks.py` imports names that do not exist.
`check_ready_gate` is called by tests only; the gate recomputes readiness and
ignores both the order's status and the reservation's.  Any status of an order
may be set by hand, and READY never goes back.  A requirement of an unknown
type can never be removed.

*Wizard, prices, catalogue.*  A file that fails in the middle of `write_bytes`
stays on disk, and so does one whose unlink fails (`_cleanup_written_files` passes
over `OSError`), where the comment at `api/public.py:572` says that no failure mode
leaves orphaned files.  A commit that raises although PostgreSQL has done it
leaves `committed` False, and the files of a quote that exists are removed.  A
hold looks neither at relatives nor at rows as locked
(`crm/public_service.py:301` calls it the authoritative guard); a rival's row
gives 500 instead of 409.  The PDF of an event recomputes its discount from the
code of the moment and the table's subtotal.  Tiers and packages price a slot
differently unless it is a whole package, so `ReprintKeepsDiscount` speaks of
whole packages.  The detail table rounds unit prices to a peso and prices all days
by the first, so it is "aligned" (`crm/public_service.py:131`) with the stored total
only for whole pesos and one rule per space.  The wizard's preview cannot
know a customer and skips `single_use_per_user`.  Deleting a space takes its
reservations along, confirmed ones too; a space with relationships cannot be
deleted (500).  Several parents are allowed although a claim takes the first.
The e-mail index of users is not unique.

## 4. Proofs

The proof modules are checked by TLAPS for every value of the constants.  Their
assumptions are the named `ASSUME`s of the modules they are about: a space is
not its own parent and windows end after they start (`SlotsAssumption`); `None`
is no user (`BookingAssumption`, without which the dashboard would take a group
for a reservation); spaces, bookings, clerks, workers and helpers are finitely
many; what a PATCH sends are fields of the schema (`CodesAssumption`); and so
on.

| Theorem | States the checked property | Says |
|---|---|---|
| `TypeCorrect` | `TypeOK` | types of `Booking` |
| `OwnersAlwaysLive`, `LiveAlwaysHolds` | `OwnerConsistent`, `LiveHoldsSlot` | reservations and rows agree both ways |
| `NeverDoubleBooked` | `NoDoubleBooking` | in any hierarchy |
| `FamilyNeverShared`, `AlwaysSheltered` | `FamilyExclusion` | two levels: families are never shared, shadow rows stay |
| `HoldsAlwaysStand` | `HoldStands` | no step touches a row that a quote holds |
| `ConfirmedAlwaysFinal`, `SweepAlwaysSparesReviewed` | `ConfirmedIsFinal`, `SweepSparesReviewed` | confirmed and reviewed reservations are safe from later steps |
| `EventsAlwaysCancelTogether` | `EventCancelsTogether` | any number of events of two |
| `AuditAlwaysErrsOnlyBySweep` | `AuditErrsOnlyBySweep` | the audit is wrong only about what the sweep skipped |
| `LedgerImplemented` | `ImplementsLedger` | two levels: `Booking` implements `SlotLedger` |
| `CalendarAlwaysRight`, `DashboardAlwaysRight` | `CalendarIsRight`, `DashboardIsRight` | what readers are told (the first: two levels) |
| `ClaimsAlwaysRight` | `ClaimInv` | concurrent claims, holds and releases: `FreshSlotHasOneWinner`, `FamilyHasOneWinner` |
| `SettlementAlways`, `NothingIsWrittenLate` | `SettlementInv`, `NoLateWrites` | one reservation under any number of overlapping requests |
| `ChainAlwaysSound` | `ChainForksOnlyInRaces` | any number of documents |
| `FulfillmentAlways` | `FulfillmentInv` | one order under any number of requests |
| `DossierAlways`, `DossierAlwaysFrozen` | `DossierInv`, `DossierFrozen` | the KYC documents of an event of any size |
| `ContractsAlways`, `NothingEverGoesBack` | `ContractsInv`, `NothingGoesBack` | contracts and quotes under any number of requests, events and restarts |
| `CreditsAlways`, `RemindersAlways` | `CreditsInv`, `RemindersInv` | credits and reminders |
| `PortalAlways`, `WizardAlways`, `FilesAlwaysMatchQuotes` | `PortalInv`, `WizardInv`, `FilesMatchQuotes` | the wizard with any number of submissions |
| `EmailsAlwaysUnique`, `AdminAlwaysRemains` | `AccountsInv`, `AdminRemains` | users |
| `CatalogueAlwaysInOrder`, `RelatedAlwaysStay` | `SpacesInv` | the graph of spaces |
| `DiscountsAlwaysKept` | `DiscountsInv` | codes, counters and usages |
| `PricesAlwaysAgree`, `DiscountsAlwaysHonoured` | `PricesAgree`, `DiscountsHonoured` | every calculation of a price, for every cart and all rules |

*Booking.*  The invariant `IInv` is `TypeOK` and `Linked(rows, status, slot)`:
an owned row belongs to a live reservation of that slot, and a live reservation
owns its row in the state of its status; `Separate`: no two owned rows of a
space meet; `Families`: with two levels, the relatives of an owned row are not
available (`Shelters`) and no owned row of a space meets one of its part.  None
of the checked invariants is inductive alone.  That nothing is booked twice
needs owned rows to be in hard states; that a release does not free somebody
else's slot needs the correspondence of ids; family exclusion needs the shadow
rows, and the shadow rows need family exclusion.  `Linked` is stated about any
two tables, since `PostEvent` and `CancelEvent` take two steps in one action.
The action properties rest on `StepSpares`: from `IInv` every step spares the
held rows and the rows of confirmed reservations.  The hypothesis of two levels
is necessary, as the disagreements say; and the proof of `ReleaseShelters`
shows why the defect of `unlock` is safe: the parent stays shadowed too long,
never too short.

*What is built on it.*  The ledger: every disjunct of `Next` either leaves the
entries alone, seals one, removes unsealed ones, or adds an entry that `Separate`
and `Families` make compatible with the others; `PostEvent` adds two, `CancelEvent` removes
two.  The calendar: a shadow row lies on a relative of an owned row and a
`RESERVED` row has an owner, which together with `IInv` makes the answers
functions of what a claim would find.  The audit: the ids of a running sweep
that are not due any more are exactly those it will audit wrongly.

*SlotClaim.*  Three layers.  The control invariant says what a transaction has
loaded, inserted, locked and written by the statement it is at, and that a
written row is locked by its writer.  `Fresh`: a key that had no row has one
inserter, and whoever waits for it fails.  `Family`: if a transaction has passed
the checks of a claim (`Passed`) the relatives' rows are locked by it or
stand as it saw them (`Apart`), and what is won stays won until a release
(`WonStays`).  Releases may overlap in any number, of one slot too: `Guarded` says
that until a release of a booked slot commits nobody else can load the row as free,
and that afterwards the reservation is not in it again (`Gone`, `OwnerOnly`); so a
release that finds it there when it writes gives up nothing that was won
(`TimelyRelease`), and every other one is on record in `late`.  The theorem about
families has no hypothesis; that about fresh slots has one, which the instances
of the runs are checked to satisfy (`InstancesHaveTwoLevels`): with three levels a
claim of the middle inserts an `AVAILABLE` row for its child that two later
requests load and both take.

*Settlement.*  `SettlementSafe` says of the tables, of each job against the
tables, and of each two jobs what the handlers rely on.  The row lock of the
reservation, held to the commit, keeps two jobs that have updated it apart
(`Apart`), and with it the token and the copies of documents unique.  The
statuses are ordered by the handlers that write them: a job whose loaded status
still stands has found its slot as it is (`Timely`), so only a commit that sets
`stale` can touch a slot that went to another reservation.

*The chain.*  Numbers tell links apart, and a job that knows all links when it
appends (`Current`) continues the chain (`Continues`).  Links tie only where one
transaction appended two, a confirmation with two documents, so a tie implies
`CONFIRMED` until a late write changes the status.  That exception was found by
the proof: with one type of document no run met it, with two TLC shows it (a
`stale` cancellation of a confirmed reservation leaves the tie behind, and the
next upload follows either link).  `ChainForksOnlyInRaces` names it now
(`stale /\ Tied`), as it names three links of one transaction (`ThreeTied`, the
defect of the run `chain`).

*Fulfillment.*  `OrderSafe`: a row that is not in `touched` has at most one
request at it, and what that request loaded is still what the row says.
`ReadySafe`, proved on top of it: unless `mixed`, a recomputation between its
two reads holds of its own row what the row says now (`Current`), so what it
sees is one state of the order.

*Dossier.*  `TaskSafe`: for each request, what it has loaded, written and is about
to commit, by the step it is at; `TasksApart`: no two requests own one file or
one number; `FilesSafe`: which files are there.  The quota needs the sum of the
sizes: bytes of the drafts plus bytes in flight, as `SumWithout` splits them.

*Sales.*  `SalesInv`: the running webhook call is about a contract that is still
`SENT` and has its file before it signs; a request that is at a deal whose
requests never met (`crossed`) is alone at it and acts on what still is.  Calls
of the webhook run one after the other, since its handler is a coroutine that does not
await inside its transaction and one server process runs (`backend/Dockerfile:37`).

*Wizard.*  `WizardSafe`: what a request has written, locked and inserted is a
function of the statement it is at (`ControlSafe`, `RowSafe`, `FileSafe`);
folios differ among the submissions between their insert and their commit.
A committed quote has its files unless it is in `unsure`, since only a clean-up
removes files and a request whose commit returned has none to come.

*Spaces.*  `SearchEnds`: after as many rounds as there are spaces, what the search
has seen is closed under the relationships, because a round that adds nothing is the
last one and every other one adds a space.  `NoWayBack`: a request that is about to
relate `p` to `c` still has a set of spaces with `c` and without `p` that no
relationship it has seen leaves.  If the new row closes a cycle of which it has
seen every part, the rows of the cycle that start in that set lead on for ever
without it, so there was a cycle before (`CyclesWith`).

*Discounts.*  `DealSafe`: a request knows only usages registered before its own, and
if these followed one another then the counter it loaded counts them all.  When
all usages of a code followed one another, a request that commits must know every
other, since none of them can know it (`SerialKnown`); so the counter it writes
is right, and the limit it was checked against holds.

*Prices.*  The rules change, the cart does not, and all that is needed of both is
their types and that there are finitely many rules (`PricingInd`); the rest is
about four calculations.  All of them go over the blocks of the cart, which
`Pricing` defines as sets of slots: slots of a space and day are sorted, one
opens a block unless it starts where the one before it ends, and belongs to the
last opener up to it.  `OneBlockEach` makes the blocks a partition, so that a sum
over slots is a sum over blocks (`SumByBlocks`); `BlockTelescopes` makes the
length of a block the sum of the lengths of its slots.  On this rest the
parts of `PricesAgree`:
* *Quote and table.*  `SegmentsCost`: the packages that the table prints for a
  block cost what `PackagePrice` charges, if amounts are whole pesos and times
  whole hours (`WholePesos`, `WholeHours`: the table rounds each unit price to a
  peso, `UnitPrice`, and the wizard does not); `OneRulePerSpace` because the table
  prices all days by the first.
* *Shares.*  `AllocateAddsUp`: each share is within half a cent of its part except
  the last, which takes half a cent for each slot at most.
* *Order.*  A permutation of the slots permutes their shares (`ReorderedPrices`):
  ties are only between equal slots, of which an `IsInjective` cart has none.
* *Slicing.*  A slot that is cut in two makes the same blocks (`Spliced`).  This
  needs `Disjoint`, or another slot may stand between the pieces; and
  `NextStartsLater`, which is not obvious: a slot that ends before it starts could
  stand there too, but it would be the last of a block without hours, and a cart
  with such a block has no price.
* *Rows, event lines.*  A row adds up lines of one kind and unit price, so its
  rounded average is that price (`RowOfLines`); lines and slots are the same sum.

A discount depends on a code only through its kind, its value and the subtotal.
That the PDF of a quote prints the preview follows from the first part; that
the PDF of an event prints what was granted needs slots that are blocks of their own and
whole packages (`WholePackages`), for which tiers and packages cost the same.

*Data.*  The library's induction theorems take an operator as a parameter, which
no installed prover can instantiate.  `FiniteData` therefore proves induction
over the natural numbers as a fact about a *set* of numbers, from the
first-order theorem about least elements, and from it what is needed of the
recursive functions inside the library's folds (`SumWithout`, `SumSame`,
`SumOfPart`, `SumOfEqual`, and `SumOfUnion`, `SumByKey`, `SumRenamed`, `SumLinear`
by induction over the subsets of a finite set) and of a map that is applied again and again (`Iterated`).

*Only model-checked.*  Liveness under fairness, which is out of the prover's reach:
`DueLeaves`, `EveryRequestEnds`, `EveryRequestSettles`, `ReportsLand`,
`LoggedIsSent`, `ReadinessLands`, `DraftsGo`.  Every invariant and every action
property of the passing runs is a theorem.

## 5. Not modelled

* `portal_gate/prefill.py`: a mapping of field names.
* Layout of the PDFs; amounts on them are modelled.
* Leads and tenants, plain inserts; fields and pictures of spaces.
* `create_credit`, `generate_contract`, `generate_cfdi`,
  `check_quote_mutability`: no caller outside the tests.  (A signed contract's
  quote would have no frozen subtotal, hence a CFDI of 0.)
* The QR validation endpoint: it passes a string to `joinedload`, which
  SQLAlchemy 2 refuses before anything is read.
* Authentication, roles and row level security: the models let every permitted
  caller call.
* UMA rates, which no price uses; analytics, system status and the catalogue,
  which only report; payments, whose router is not mounted; the frontend.
* Mails other than reminders, which no other part reads.
* The dashboard's validation and documents flags.
* A form of the wizard that names one slot twice.

What could be added next: the composition of `Contracts` with `Booking`, in which a quote that ended keeps its slots.
