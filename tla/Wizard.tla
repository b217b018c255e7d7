------------------------------- MODULE Wizard -------------------------------
(***************************************************************************)
(* The public quote wizard (api/public.py, modules/crm/public_service.py): *)
(* requests that validate a folio or submit a quote for it.  A submission  *)
(* asks Portal, then runs one database transaction that also writes files, *)
(* then mails.  Submissions run at the same time, the worker may be killed *)
(* at any step, the disk may fill up or keep a file that is unlinked, and  *)
(* the connection may be lost in the commit or after it.  The rate limiter *)
(* in front fails open.                                                    *)
(*                                                                         *)
(* PostgreSQL is modelled as in SlotClaim: an insert of a unique key locks *)
(* it to the end of the transaction and then fails if the key exists.      *)
(***************************************************************************)
EXTENDS PortalGate, Sequences, FiniteSets

CONSTANTS
    WSlot,          \* slots (space and window)
    WParent,        \* the slot of the parent space, or NoSlot
    NoSlot,
    Forms,          \* assignments of what each request sends
    Folio,
    FirstRows,      \* slots whose inventory row exists from the start
    MaxWizardFiles,
    RateLimit,      \* requests per address and window
    Nobody

ASSUME WizardAssumption ==
    /\ Forms \subseteq [Request -> [purpose : {"validate", "submit"}, valid : BOOLEAN,
                                   priced : BOOLEAN, folio : Folio, slots : Seq(WSlot),
                                   files : Nat]]
    /\ \A f \in Forms, q \in Request : f[q].purpose = "submit" => f[q].slots # <<>>
    /\ FirstRows \subseteq WSlot
    /\ WParent \in [WSlot -> WSlot \cup {NoSlot}] /\ NoSlot \notin WSlot
    /\ RateLimit \in Nat /\ MaxWizardFiles \in Nat
    /\ Nobody \notin Request

VARIABLES
    form,       \* what each request sends
    pc,         \* the step of each request
    answer,     \* the status code it answered
    hits,       \* requests that the limiter counted in this window
    redis,      \* whether its storage is up
    passed,     \* requests that went by the limiter in this window
    outage,     \* whether the storage was down in this window
    saw,        \* the quotes that were committed when availability was checked
    loaded,     \* owners of its slots as a transaction loaded them
    item,       \* slots it has loaded
    rowLock,    \* the transaction that locked or is inserting a row
    holder,     \* committed quote_id of the rows
    present,    \* rows that exist
    quotes,     \* committed quotes, named by their submission
    disk,       \* files of documents
    written,    \* written_paths of a submission
    mailed,
    stuck,      \* files that a clean-up could not unlink
    unsure      \* submissions whose commit raised although it was done

requestVars == <<pc, answer>>
outerVars == <<form, hits, redis, passed, outage>>
rowVars == <<rowLock, holder, present>>
troubleVars == <<stuck, unsure>>
vars == <<portal, requestVars, outerVars, saw, loaded, item, rowVars, quotes, disk,
          written, mailed, troubleVars>>

Submission == {q \in Request : form[q].purpose = "submit"}

SlotsOf(q) == {form[q].slots[i] : i \in 1..Len(form[q].slots)}

Document(q) == {<<q, i>> : i \in 1..form[q].files}

Relatives(s) == {u \in WSlot : WParent[u] = s \/ (WParent[s] # NoSlot /\ u = WParent[s])}

InTransaction == {"begun", "checked", "inserted", "load", "insert", "lock", "held"}

Ends(q, code) ==
    /\ pc' = [pc EXCEPT ![q] = "ended"]
    /\ answer' = [answer EXCEPT ![q] = code]

Goes(q, step) == pc' = [pc EXCEPT ![q] = step] /\ UNCHANGED answer

-----------------------------------------------------------------------------
(* The limiter and what is validated before anything is touched.           *)

\* A storage error is swallowed and the request goes on, uncounted.
Arrive(q) ==
    /\ pc[q] = "new"
    /\ IF redis /\ hits >= RateLimit
       THEN Ends(q, 429) /\ UNCHANGED outerVars
       ELSE /\ hits' = IF redis THEN hits + 1 ELSE hits
            /\ passed' = passed + 1
            /\ UNCHANGED <<form, redis, outage>>
            /\ IF ~ form[q].valid \/ form[q].files > MaxWizardFiles
               THEN Ends(q, 422) ELSE Goes(q, "portal")
    /\ UNCHANGED <<portal, saw, loaded, item, rowVars, quotes, disk, written, mailed,
                   troubleVars>>

WindowPasses ==
    /\ passed > 0
    /\ hits' = 0 /\ passed' = 0 /\ outage' = ~ redis
    /\ UNCHANGED <<portal, requestVars, form, redis, saw, loaded, item, rowVars, quotes, disk,
                   written, mailed, troubleVars>>

RedisFails ==
    /\ redis
    /\ redis' = FALSE /\ outage' = TRUE
    /\ UNCHANGED <<portal, requestVars, form, hits, passed, saw, loaded, item, rowVars, quotes,
                   disk, written, mailed, troubleVars>>

\* Its counters may be lost.
RedisReturns ==
    /\ ~ redis
    /\ redis' = TRUE /\ hits' \in {0, hits}
    /\ UNCHANGED <<portal, requestVars, form, passed, outage, saw, loaded, item, rowVars, quotes,
                   disk, written, mailed, troubleVars>>

-----------------------------------------------------------------------------
(* Portal, and the status codes of portal_gate_http.                       *)

AskPortal(q) ==
    /\ pc[q] = "portal"
    /\ Exchange(q)
    /\ UNCHANGED <<requestVars, outerVars, saw, loaded, item, rowVars, quotes, disk,
                   written, mailed, troubleVars>>

PortalSettles(q) ==
    /\ pc[q] = "portal" /\ ~ Asking(q)
    /\ CASE portal[q].verdict = "eligible" ->
              IF q \in Submission THEN Goes(q, "begun") ELSE Ends(q, 200)
         [] portal[q].verdict = "not_eligible"             -> Ends(q, 403)
         [] portal[q].verdict = "unavailable"              -> Ends(q, 503)
         [] portal[q].verdict = "integration_auth_failure" -> Ends(q, 502)
         [] portal[q].verdict = "raised"                   -> Ends(q, 500)
    /\ portal' = [portal EXCEPT ![q].attempt = 1, ![q].refired = FALSE, ![q].sends = 0]
    /\ UNCHANGED <<outerVars, saw, loaded, item, rowVars, quotes, disk, written, mailed,
                   troubleVars>>

-----------------------------------------------------------------------------
(* The transaction.                                                        *)

Unlocked(q) == [s \in WSlot |-> IF rowLock[s] = q THEN Nobody ELSE rowLock[s]]

\* _cleanup_written_files passes over a file that it cannot unlink, and knows
\* nothing of the torn one.
CleansUp(q, torn) ==
    \E kept \in SUBSET written[q] :
        /\ disk' = (disk \ (written[q] \ kept)) \cup torn
        /\ stuck' = stuck \cup kept

\* db.rollback, then the clean-up in the finally block.
Rollback(q, code) ==
    /\ Ends(q, code)
    /\ rowLock' = Unlocked(q)
    /\ CleansUp(q, {})
    /\ UNCHANGED <<portal, outerVars, saw, loaded, item, holder, present, quotes, written,
                   mailed, unsure>>

\* Rows of the slot or of a relative that some committed quote holds.
Occupied(s) == \E u \in {s} \cup Relatives(s) : holder[u] # Nobody

\* check_group_availability
CheckAvailability(q) ==
    /\ pc[q] = "begun"
    /\ IF \E s \in SlotsOf(q) : Occupied(s) THEN Rollback(q, 409)
       ELSE /\ Goes(q, "checked")
            /\ saw' = [saw EXCEPT ![q] = quotes]
            /\ UNCHANGED <<portal, outerVars, loaded, item, rowVars, quotes, disk, written,
                           mailed, troubleVars>>

NextFile(q) == <<q, Cardinality(written[q]) + 1>>

WriteFile(q) ==
    /\ pc[q] = "checked"
    /\ NextFile(q) \in Document(q)
    /\ disk' = disk \cup {NextFile(q)}
    /\ written' = [written EXCEPT ![q] = @ \cup {NextFile(q)}]
    /\ UNCHANGED <<portal, requestVars, outerVars, saw, loaded, item, rowVars, quotes, mailed,
                   troubleVars>>

\* write_bytes creates the file, then raises: it is not in written_paths yet.
WriteFails(q) ==
    /\ pc[q] = "checked"
    /\ NextFile(q) \in Document(q)
    /\ Ends(q, 500)
    /\ rowLock' = Unlocked(q)
    /\ CleansUp(q, {NextFile(q)})
    /\ UNCHANGED <<portal, outerVars, saw, loaded, item, holder, present, quotes, written,
                   mailed, unsure>>

\* Submissions that have inserted a quote and neither committed nor rolled back.
Inserting == {q \in Submission : pc[q] \in {"inserted", "load", "insert", "lock", "held"}}

SameFolio(q) == {r \in Submission \ {q} : form[r].folio = form[q].folio}

\* Lead, prices, Quote with its unique portal_folio, items, details, documents.
InsertQuote(q) ==
    /\ pc[q] = "checked"
    /\ NextFile(q) \notin Document(q)
    /\ IF ~ form[q].priced THEN Rollback(q, 422)
       ELSE IF SameFolio(q) \cap quotes # {} THEN Rollback(q, 409)
       ELSE /\ SameFolio(q) \cap Inserting = {}
            /\ Goes(q, "load")
            /\ UNCHANGED <<portal, outerVars, saw, loaded, item, rowVars, quotes, disk,
                           written, mailed, troubleVars>>

\* apply_soft_hold_for_quote, _get_or_create_slot once per item ...
Turn(q) ==
    IF item[q] < Len(form[q].slots)
    THEN item' = [item EXCEPT ![q] = @ + 1] /\ Goes(q, "load")
    ELSE UNCHANGED item /\ Goes(q, "lock")

LoadSlot(q) ==
    LET s == form[q].slots[item[q]] IN
    /\ pc[q] = "load"
    /\ IF s \in present
       THEN loaded' = [loaded EXCEPT ![q][s] = holder[s]] /\ Turn(q)
       ELSE Goes(q, "insert") /\ UNCHANGED <<loaded, item>>
    /\ UNCHANGED <<portal, outerVars, saw, rowVars, quotes, disk, written, mailed, troubleVars>>

\* Mutant: ON CONFLICT DO NOTHING, and the request goes on with a free row.
InsertSlotIfAbsent(q) ==
    LET s == form[q].slots[item[q]] IN
    /\ pc[q] = "insert"
    /\ IF s \in present THEN Turn(q) /\ UNCHANGED rowLock
       ELSE /\ rowLock[s] = Nobody
            /\ rowLock' = [rowLock EXCEPT ![s] = q]
            /\ Turn(q)
    /\ UNCHANGED <<portal, outerVars, saw, loaded, holder, present, quotes, disk, written,
                   mailed, troubleVars>>

\* The unique key of a row is not the folio's: its violation is a 500.
InsertSlot(q) ==
    LET s == form[q].slots[item[q]] IN
    /\ pc[q] = "insert"
    /\ IF s \in present THEN Rollback(q, 500)
       ELSE /\ rowLock[s] = Nobody
            /\ rowLock' = [rowLock EXCEPT ![s] = q]
            /\ Turn(q)
            /\ UNCHANGED <<portal, outerVars, saw, loaded, holder, present, quotes, disk,
                           written, mailed, troubleVars>>

\* ... then the locks, and the check of the rows as they were loaded.
HoldSlots(q) ==
    /\ pc[q] = "lock"
    /\ \A s \in SlotsOf(q) : rowLock[s] \in {q, Nobody}
    /\ IF \E s \in SlotsOf(q) : loaded[q][s] # Nobody THEN Rollback(q, 409)
       ELSE /\ rowLock' = [s \in WSlot |-> IF s \in SlotsOf(q) THEN q ELSE rowLock[s]]
            /\ Goes(q, "held")
            /\ UNCHANGED <<portal, outerVars, saw, loaded, item, holder, present, quotes,
                           disk, written, mailed, troubleVars>>

\* PostgreSQL commits ...
Committing(q) ==
    /\ pc[q] = "held"
    /\ quotes' = quotes \cup {q}
    /\ holder' = [s \in WSlot |-> IF s \in SlotsOf(q) THEN q ELSE holder[s]]
    /\ present' = present \cup SlotsOf(q)
    /\ rowLock' = Unlocked(q)
    /\ UNCHANGED <<portal, outerVars, saw, loaded, item, written, mailed>>

\* ... and says so, which sets `committed` ...
Commit(q) == Committing(q) /\ Goes(q, "committed") /\ UNCHANGED <<disk, troubleVars>>

\* ... or the connection is lost before it does: db.commit raises, `committed`
\* stays False, and the files of a quote that exists are removed.
CommitRaises(q) ==
    /\ Committing(q)
    /\ Ends(q, 500)
    /\ CleansUp(q, {})
    /\ unsure' = unsure \cup {q}

-----------------------------------------------------------------------------
(* After the commit, and what may go wrong.                                *)

\* The mail is sent or not; the answer is 201 in either case.
Answer(q) ==
    /\ pc[q] = "committed"
    /\ Ends(q, 201)
    /\ mailed' \in {mailed, mailed \cup {q}}
    /\ UNCHANGED <<portal, outerVars, saw, loaded, item, rowVars, quotes, disk, written,
                   troubleVars>>

\* Mutant: the files are removed whenever the request fails.
RefreshFailsCleaning(q) ==
    /\ pc[q] = "committed"
    /\ Ends(q, 500)
    /\ disk' = disk \ written[q]
    /\ UNCHANGED <<portal, outerVars, saw, loaded, item, rowVars, quotes, written, mailed,
                   troubleVars>>

\* The quote is read again after the commit, and the connection is gone: the
\* client is told 500, and `committed` keeps the files.
RefreshFails(q) ==
    /\ pc[q] = "committed"
    /\ Ends(q, 500)
    /\ UNCHANGED <<portal, outerVars, saw, loaded, item, rowVars, quotes, disk, written,
                   mailed, troubleVars>>

\* Any other exception inside the transaction.
UnexpectedError(q) == pc[q] \in InTransaction /\ Rollback(q, 500)

\* A cycle of inserts that wait for each other: PostgreSQL fails one of them.
Awaits(q, r) ==
    /\ pc[q] = "insert" /\ pc[r] = "insert"
    /\ rowLock[form[q].slots[item[q]]] = r

DeadlockAbort(q) ==
    /\ \E r \in Submission : Awaits(q, r) /\ Awaits(r, q)
    /\ Rollback(q, 500)

\* The worker is killed: the database rolls back, nothing is cleaned up.
Kill(q) ==
    /\ pc[q] \in InTransaction \cup {"committed"}
    /\ pc' = [pc EXCEPT ![q] = "killed"]
    /\ rowLock' = Unlocked(q)
    /\ UNCHANGED <<portal, answer, outerVars, saw, loaded, item, holder, present, quotes,
                   disk, written, mailed, troubleVars>>

-----------------------------------------------------------------------------
WizardInit ==
    /\ PortalInit
    /\ form \in Forms
    /\ pc = [q \in Request |-> "new"]
    /\ answer = [q \in Request |-> 0]
    /\ hits = 0 /\ redis = TRUE /\ passed = 0 /\ outage = FALSE
    /\ saw = [q \in Request |-> {}]
    /\ loaded = [q \in Request |-> [s \in WSlot |-> Nobody]]
    /\ item = [q \in Request |-> 1]
    /\ rowLock = [s \in WSlot |-> Nobody]
    /\ holder = [s \in WSlot |-> Nobody]
    /\ present = FirstRows
    /\ quotes = {}
    /\ disk = {}
    /\ written = [q \in Request |-> {}]
    /\ mailed = {}
    /\ stuck = {} /\ unsure = {}

\* What the server does by itself with a request that has arrived.
Progress(q) ==
    \/ AskPortal(q) \/ PortalSettles(q)
    \/ CheckAvailability(q) \/ WriteFile(q) \/ WriteFails(q) \/ InsertQuote(q)
    \/ LoadSlot(q) \/ InsertSlot(q) \/ HoldSlots(q)
    \/ Commit(q) \/ CommitRaises(q) \/ Answer(q) \/ RefreshFails(q)
    \/ DeadlockAbort(q)

WizardNext ==
    \/ \E q \in Request : Arrive(q) \/ Progress(q) \/ UnexpectedError(q) \/ Kill(q)
    \/ WindowPasses \/ RedisFails \/ RedisReturns

WizardSpec == WizardInit /\ [][WizardNext]_vars

\* A request that has begun goes on: statements return or raise, the client
\* has timeouts, and the transactions that a request waits for go on, too.
WizardFairSpec == WizardSpec /\ \A q \in Request : WF_vars(Progress(q))

-----------------------------------------------------------------------------
(* Properties.                                                             *)

\* Types, and what a transaction holds while it is open.
WizardTypeOK ==
    /\ PortalTypeOK
    /\ form \in Forms
    /\ pc \in [Request -> InTransaction \cup {"new", "portal", "committed", "ended", "killed"}]
    /\ answer \in [Request -> {0, 200, 201, 403, 409, 422, 429, 500, 502, 503}]
    /\ hits \in Nat /\ passed \in Nat /\ redis \in BOOLEAN /\ outage \in BOOLEAN
    /\ saw \in [Request -> SUBSET Request]
    /\ loaded \in [Request -> [WSlot -> Request \cup {Nobody}]]
    /\ item \in [Request -> Nat \ {0}]
    /\ holder \in [WSlot -> Request \cup {Nobody}]
    /\ rowLock \in [WSlot -> Request \cup {Nobody}]
    /\ \A s \in WSlot : rowLock[s] # Nobody => pc[rowLock[s]] \in {"load", "insert", "lock", "held"}
    /\ present \subseteq WSlot /\ quotes \subseteq Submission /\ mailed \subseteq Request
    /\ disk \subseteq UNION {Document(q) : q \in Request}
    /\ \A q \in Request : written[q] \subseteq Document(q)
    /\ stuck \subseteq UNION {Document(q) : q \in Request} /\ unsure \subseteq quotes

\* A folio is quoted once, however often and however simultaneously it is
\* submitted (uq_quotes_portal_folio, public.py:458-475).
OneQuotePerFolio ==
    \A q, r \in quotes : q # r => form[q].folio # form[r].folio

\* A quote that was committed holds every slot of its request, if nobody had
\* touched those slots before.
QuoteHoldsItsSlots ==
    \A q \in quotes : \A s \in SlotsOf(q) \ FirstRows : holder[s] = q

\* Every document row of a committed quote has its file, also after a failure
\* that follows the commit (public.py:569-576), unless it was the commit itself
\* that raised after PostgreSQL had done it (public.py:621, 676).
DocumentsHaveFiles == \A q \in quotes \ unsure : Document(q) \subseteq disk

\* A submission that ended without a quote leaves no file that it had finished
\* writing but those that could not be unlinked (public.py:448-455), and at
\* most one more, which it failed to write; only a killed worker leaves others.
FilesFollowTheQuote ==
    \A q \in Submission \ quotes : pc[q] = "ended" =>
        /\ disk \cap written[q] \subseteq stuck
        /\ Cardinality((disk \cap Document(q)) \ stuck) <= 1

\* A quote for a space and one for a part of it both exist only if neither was
\* there when the other looked: the hold itself never looks at relatives.
FamiliesSplitOnlyByRace ==
    \A q, r \in quotes : \A s \in SlotsOf(q), u \in SlotsOf(r) :
        u \in Relatives(s) => q \notin saw[r] /\ r \notin saw[q]

\* Nobody is told of a quote, by the answer or by mail, that does not exist.
ToldOnlyOfQuotes ==
    /\ mailed \subseteq quotes
    /\ \A q \in Request : answer[q] = 201 => q \in quotes

\* More requests than the limit pass in one window only if the storage of the
\* limiter was down in it (rate_limit.py:24-28).
LimitHolds == passed <= RateLimit \/ outage

\* Every request that has passed the limiter is answered or killed: retries
\* end, and two submissions that wait for each other's rows do not wait forever.
EveryRequestSettles ==
    \A q \in Request : pc[q] = "portal" ~> pc[q] \in {"ended", "killed"}

\* What the wizard promises of quotes (api/public.py, crm/public_service.py).
WizardInv ==
    /\ WizardTypeOK
    /\ OneQuotePerFolio /\ QuoteHoldsItsSlots /\ FamiliesSplitOnlyByRace
    /\ ToldOnlyOfQuotes /\ LimitHolds

\* And of the files that belong to them.
FilesMatchQuotes == DocumentsHaveFiles /\ FilesFollowTheQuote

=============================================================================
