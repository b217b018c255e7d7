----------------------------- MODULE Contracts -----------------------------
(***************************************************************************)
(* Quotes of the sales staff and their contracts (modules/crm).  Staff     *)
(* create a quote, move its status and send its contract to the provider   *)
(* of electronic signatures; the provider calls the webhook, which signs   *)
(* the contract and opens its service order; a periodic task activates a   *)
(* delegate signer.                                                        *)
(*                                                                         *)
(* Handlers of the staff run in threads, each in a transaction that reads  *)
(* committed rows, so two of them may act on what both read before either  *)
(* wrote.  The webhook is a coroutine that does not await while its        *)
(* transaction is open: the one server process runs one at a time.  The    *)
(* task runs in the worker process.  The provider is external: it may      *)
(* report several outcomes of a document, again and in any order.          *)
(***************************************************************************)
EXTENDS Integers, FiniteSets

CONSTANTS
    Deal,           \* quotes that the staff may create
    Staff,          \* requests of the staff that run at the same time
    HasEmail,       \* deals whose lead has an e-mail address
    Line,           \* lines of a quote
    Asked,          \* per line: price and discount that were asked for
    NoDeal,
    MaxTrouble      \* bound on restarts and failed writes

Amount == [price : Nat, off : Nat]

ASSUME ContractsAssumption ==
    /\ HasEmail \subseteq Deal
    /\ Asked \in [Deal -> [Line -> Amount]]
    /\ NoDeal \notin Deal
    /\ IsFiniteSet(Line)
    /\ MaxTrouble \in Nat

VARIABLES
    quote,      \* status of the quotes, "none" before they exist
    lines,      \* precio, discount_amount and subtotal_frozen of their items
    contract,   \* the contract of a quote: status, document, delegate signer
    staff,      \* what each request has read and is about to write
    documents,  \* documents at the provider, by the request that sent them
    reported,   \* outcomes that the provider has reported, with their document
    hook,       \* the webhook call that is running
    file,       \* the signed document in the storage directory
    orders,     \* service orders of a contract
    task,       \* deals that the task still has to visit, and the one it read
    crossed,    \* deals on which two requests ran at once or one was killed
    trouble

vars == <<quote, lines, contract, staff, documents, reported, hook, file, orders, task,
          crossed, trouble>>

QuoteStatus == {"DRAFT", "DRAFT_PENDING_OPS", "SENT", "APPROVED", "DIGITAL_APPROVED"}

Terminal == {"SIGNED", "REJECTED", "EXPIRED"}

Outcome == {"signed", "rejected", "expired"}

Document == Staff \X Deal

NoContract == [status |-> "none", document |-> <<>>, delegate |-> FALSE]

Free == [at |-> "free", deal |-> NoDeal, new |-> "none"]

NoCall == [at |-> "idle", document |-> <<>>, event |-> "none"]

Resting == [left |-> {}, current |-> NoDeal]

DealOf(document) == document[2]

Lesser(a, b) == IF a < b THEN a ELSE b

-----------------------------------------------------------------------------
(* Quotes.                                                                 *)

\* ALLOWED_QUOTE_TRANSITIONS
Allowed ==
    [s \in QuoteStatus |->
        CASE s = "DRAFT"             -> {"DRAFT_PENDING_OPS", "SENT"}
          [] s = "DRAFT_PENDING_OPS" -> {"SENT"}
          [] s = "SENT"              -> {"APPROVED", "DIGITAL_APPROVED"}
          [] OTHER                   -> {}]

\* A line as create_quote prices it: a discount never exceeds the price.
Priced(a) ==
    [precio |-> a.price - Lesser(a.off, a.price), discount |-> Lesser(a.off, a.price),
     frozen |-> -1]

\* POST /quotes.  The hold on the slots is Booking's.
CreateQuote(d) ==
    /\ quote[d] = "none"
    /\ quote' = [quote EXCEPT ![d] = "DRAFT"]
    /\ lines' = [lines EXCEPT ![d] = [l \in Line |-> Priced(Asked[d][l])]]
    /\ UNCHANGED <<contract, staff, documents, reported, hook, file, orders, task, crossed,
                   trouble>>

\* A request takes up a deal; another one that is at work on it crosses it.
Takes(k, d, step, new) ==
    /\ staff[k] = Free
    /\ staff' = [staff EXCEPT ![k] = [at |-> step, deal |-> d, new |-> new]]
    /\ crossed' = IF \E j \in Staff : staff[j].deal = d THEN crossed \cup {d} ELSE crossed

\* PATCH /quotes/{id}/status reads the quote and checks the transition ...
PatchLoad(k, d) ==
    \E new \in QuoteStatus :
        /\ quote[d] \in QuoteStatus /\ new \in Allowed[quote[d]]
        /\ Takes(k, d, "patching", new)
        /\ UNCHANGED <<quote, lines, contract, documents, reported, hook, file, orders, task,
                       trouble>>

\* The subtotals are frozen whether or not there is a UMA rate.  (The price of
\* a line is net of its discount already; it is subtracted again.)
Freeze(d, new) ==
    IF new # "DIGITAL_APPROVED" THEN lines[d]
    ELSE [l \in Line |->
            [lines[d][l] EXCEPT !.frozen = lines[d][l].precio - lines[d][l].discount]]

\* ... and writes the new status, whatever the status is by now.
PatchCommit(k) ==
    LET d == staff[k].deal IN
    /\ staff[k].at = "patching"
    /\ quote' = [quote EXCEPT ![d] = staff[k].new]
    /\ lines' = [lines EXCEPT ![d] = Freeze(d, staff[k].new)]
    /\ staff' = [staff EXCEPT ![k] = Free]
    /\ UNCHANGED <<contract, documents, reported, hook, file, orders, task, crossed, trouble>>

-----------------------------------------------------------------------------
(* Sending a contract.                                                     *)

\* POST /quotes/{id}/send-contract, up to the call of the provider
SendCheck(k, d) ==
    /\ quote[d] = "APPROVED" /\ d \in HasEmail
    /\ contract[d] = NoContract
    /\ Takes(k, d, "asking", "none")
    /\ UNCHANGED <<quote, lines, contract, documents, reported, hook, file, orders, task,
                   trouble>>

\* send_for_signature; a request sends a deal at most once (a bound).
ProviderAccepts(k) ==
    LET document == <<k, staff[k].deal>> IN
    /\ staff[k].at = "asking"
    /\ document \notin documents
    /\ documents' = documents \cup {document}
    /\ staff' = [staff EXCEPT ![k].at = "inserting"]
    /\ UNCHANGED <<quote, lines, contract, reported, hook, file, orders, task, crossed,
                   trouble>>

\* The request ends without a contract: 500, and nothing is stored.
ProviderFails(k) ==
    /\ staff[k].at = "asking"
    /\ staff' = [staff EXCEPT ![k] = Free]
    /\ UNCHANGED <<quote, lines, contract, documents, reported, hook, file, orders, task,
                   crossed, trouble>>

\* The unique key on quote_id refuses a second contract: 500 (the error is no
\* ValueError), and its document stays at the provider.
InsertContract(k) ==
    LET d == staff[k].deal IN
    /\ staff[k].at = "inserting"
    /\ contract' = IF contract[d] # NoContract THEN contract
                   ELSE [contract EXCEPT ![d] = [status |-> "SENT", document |-> <<k, d>>,
                                                 delegate |-> FALSE]]
    /\ staff' = [staff EXCEPT ![k] = Free]
    /\ UNCHANGED <<quote, lines, documents, reported, hook, file, orders, task, crossed,
                   trouble>>

-----------------------------------------------------------------------------
(* The provider and the webhook.                                           *)

Reports(document, event) ==
    /\ document \in documents
    /\ <<document, event>> \notin reported
    /\ reported' = reported \cup {<<document, event>>}
    /\ UNCHANGED <<quote, lines, contract, staff, documents, hook, file, orders, task,
                   crossed, trouble>>

\* Mutant: the contract's status is not looked at.
HookLoadBlindly(document, event) ==
    LET d == DealOf(document) IN
    /\ hook = NoCall /\ <<document, event>> \in reported
    /\ contract[d].document = document
    /\ hook' = [at |-> IF event = "signed" THEN "writing" ELSE "filed",
                document |-> document, event |-> event]
    /\ UNCHANGED <<quote, lines, contract, staff, documents, reported, file, orders, task,
                   crossed, trouble>>

\* A call is delivered: 404 without a contract of the document, 204 and no
\* change when the contract is in a terminal status.
HookLoad(document, event) ==
    LET d == DealOf(document) IN
    /\ hook = NoCall /\ <<document, event>> \in reported
    /\ contract[d].document = document /\ contract[d].status \notin Terminal
    /\ hook' = [at |-> IF event = "signed" THEN "writing" ELSE "filed",
                document |-> document, event |-> event]
    /\ UNCHANGED <<quote, lines, contract, staff, documents, reported, file, orders, task,
                   crossed, trouble>>

Filed == hook' = [hook EXCEPT !.at = "filed"] /\ UNCHANGED trouble

Fails ==
    /\ trouble < MaxTrouble /\ trouble' = trouble + 1
    /\ hook' = NoCall

\* Mutant: an error of the download ends the call.
HookFileRaising ==
    LET d == DealOf(hook.document) IN
    /\ hook.at = "writing"
    /\ \/ file' = [file EXCEPT ![d] = "fetched"] /\ Filed
       \/ UNCHANGED <<file, trouble>> /\ hook' = NoCall
    /\ UNCHANGED <<quote, lines, contract, staff, documents, reported, orders, task, crossed>>

\* The document is fetched; or it is not, or only in part, and the error is
\* swallowed; then, if there is no file, one is made, and an error of that ends
\* the call.
HookFile ==
    LET d == DealOf(hook.document) IN
    /\ hook.at = "writing"
    /\ \/ file' = [file EXCEPT ![d] = "fetched"] /\ Filed
       \/ file' = [file EXCEPT ![d] = "torn"] /\ Filed
       \/ file[d] = "none" /\ file' = [file EXCEPT ![d] = "made"] /\ Filed
       \/ file[d] # "none" /\ UNCHANGED file /\ Filed
       \/ /\ file[d] = "none"
          /\ \E left \in {"none", "torn"} : file' = [file EXCEPT ![d] = left]
          /\ Fails
    /\ UNCHANGED <<quote, lines, contract, staff, documents, reported, orders, task, crossed>>

\* create_os_for_contract: one more service order, with its checklist.
OpenOrder(d) == [orders EXCEPT ![d] = @ + 1]

\* The host of the document neither answers nor closes: the download has no
\* timeout, so the call never goes on, and as it runs on the only event loop no
\* other call is taken up.  What staff requests have reached their threads go on.
HookHangs ==
    /\ hook.at = "writing"
    /\ hook' = [hook EXCEPT !.at = "hanging"]
    /\ UNCHANGED <<quote, lines, contract, staff, documents, reported, file, orders, task,
                   crossed, trouble>>

\* One transaction, which also opens the service order.
HookCommit ==
    LET d == DealOf(hook.document) IN
    /\ hook.at = "filed"
    /\ contract' = [contract EXCEPT ![d].status =
                        CASE hook.event = "signed"   -> "SIGNED"
                          [] hook.event = "rejected" -> "REJECTED"
                          [] hook.event = "expired"  -> "EXPIRED"]
    /\ orders' = IF hook.event = "signed" THEN OpenOrder(d) ELSE orders
    /\ hook' = NoCall
    /\ UNCHANGED <<quote, lines, staff, documents, reported, file, task, crossed, trouble>>

\* The server process restarts: what was not committed is rolled back, the
\* provider keeps its documents and the disk its files, torn or not.
Restart ==
    /\ trouble < MaxTrouble /\ trouble' = trouble + 1
    /\ crossed' = crossed \cup ({staff[k].deal : k \in Staff} \ {NoDeal})
    /\ staff' = [k \in Staff |-> Free]
    /\ hook' = NoCall
    /\ IF hook.at = "writing"
       THEN \E left \in {file[DealOf(hook.document)], "torn"} :
                file' = [file EXCEPT ![DealOf(hook.document)] = left]
       ELSE UNCHANGED file
    /\ UNCHANGED <<quote, lines, contract, documents, reported, orders, task>>

-----------------------------------------------------------------------------
(* crm.add_delegate_signer                                                 *)

Waiting(d) == contract[d].status = "SENT" /\ ~ contract[d].delegate

\* Those that were sent more than a day ago: any of the waiting ones.
TaskSelect ==
    /\ task = Resting
    /\ \E old \in SUBSET {d \in Deal : Waiting(d)} :
        old # {} /\ task' = [left |-> old, current |-> NoDeal]
    /\ UNCHANGED <<quote, lines, contract, staff, documents, reported, hook, file, orders,
                   crossed, trouble>>

\* Each one is read again in a transaction of its own ...
TaskLoad(d) ==
    /\ d \in task.left /\ task.current = NoDeal
    /\ task' = [left |-> task.left \ {d}, current |-> IF Waiting(d) THEN d ELSE NoDeal]
    /\ UNCHANGED <<quote, lines, contract, staff, documents, reported, hook, file, orders,
                   crossed, trouble>>

\* Mutant: the whole row is written back as it was read.
TaskCommitRow ==
    LET d == task.current IN
    /\ d # NoDeal
    /\ contract' = [contract EXCEPT ![d].delegate = TRUE, ![d].status = "SENT"]
    /\ task' = [task EXCEPT !.current = NoDeal]
    /\ UNCHANGED <<quote, lines, staff, documents, reported, hook, file, orders, crossed,
                   trouble>>

\* ... and one column of it is written.
TaskCommit ==
    LET d == task.current IN
    /\ d # NoDeal
    /\ contract' = [contract EXCEPT ![d].delegate = TRUE]
    /\ task' = [task EXCEPT !.current = NoDeal]
    /\ UNCHANGED <<quote, lines, staff, documents, reported, hook, file, orders, crossed,
                   trouble>>

-----------------------------------------------------------------------------
ContractsInit ==
    /\ quote = [d \in Deal |-> "none"]
    /\ lines = [d \in Deal |-> [l \in Line |-> [precio |-> 0, discount |-> 0, frozen |-> -1]]]
    /\ contract = [d \in Deal |-> NoContract]
    /\ staff = [k \in Staff |-> Free]
    /\ documents = {}
    /\ reported = {}
    /\ hook = NoCall
    /\ file = [d \in Deal |-> "none"]
    /\ orders = [d \in Deal |-> 0]
    /\ task = Resting
    /\ crossed = {}
    /\ trouble = 0

Deliver(document) == \E event \in Outcome : HookLoad(document, event)

ContractsNext ==
    \/ \E d \in Deal : CreateQuote(d) \/ TaskLoad(d)
    \/ \E k \in Staff, d \in Deal : PatchLoad(k, d) \/ SendCheck(k, d)
    \/ \E k \in Staff : PatchCommit(k) \/ ProviderAccepts(k) \/ ProviderFails(k)
                        \/ InsertContract(k)
    \/ \E document \in Document, event \in Outcome : Reports(document, event)
    \/ \E document \in Document : Deliver(document)
    \/ HookFile \/ HookHangs \/ HookCommit \/ Restart
    \/ TaskSelect \/ TaskCommit

\* A call goes on unless its download hangs, of which nothing frees it; nobody
\* is assumed to restart the server.  That the provider repeats a report until
\* a call succeeds is an assumption about the provider.
ContractsFairness ==
    /\ WF_vars(HookFile) /\ WF_vars(HookCommit)
    /\ \A document \in Document : WF_vars(Deliver(document))

ContractsSpec == ContractsInit /\ [][ContractsNext]_vars

-----------------------------------------------------------------------------
(* Properties.                                                             *)

\* Types, and which request is at which step with what.
ContractsTypeOK ==
    /\ quote \in [Deal -> QuoteStatus \cup {"none"}]
    /\ lines \in [Deal -> [Line -> [precio : Nat, discount : Nat, frozen : Int]]]
    /\ contract \in [Deal -> [status : {"none", "SENT"} \cup Terminal,
                              document : Document \cup {<<>>}, delegate : BOOLEAN]]
    /\ staff \in [Staff -> [at : {"free", "patching", "asking", "inserting"},
                            deal : Deal \cup {NoDeal}, new : QuoteStatus \cup {"none"}]]
    /\ documents \subseteq Document
    /\ reported \subseteq documents \X Outcome
    /\ hook \in [at : {"idle", "writing", "hanging", "filed"}, document : Document \cup {<<>>},
                 event : Outcome \cup {"none"}]
    /\ hook # NoCall => <<hook.document, hook.event>> \in reported
    /\ file \in [Deal -> {"none", "torn", "made", "fetched"}]
    /\ orders \in [Deal -> Nat]
    /\ task \in [left : SUBSET Deal, current : Deal \cup {NoDeal}]
    /\ crossed \subseteq Deal
    /\ trouble \in 0..MaxTrouble

\* A contract has one service order once it is signed and none before, however
\* often and in which order the provider reports (webhooks.py:65, no unique
\* key on contract_id).
OneOrderPerContract ==
    \A d \in Deal : orders[d] = IF contract[d].status = "SIGNED" THEN 1 ELSE 0

\* A contract that is signed, rejected or expired stays so, whatever a late
\* report or the delegate task does (webhooks.py:65, tasks.py:39).
TerminalIsFinal ==
    [][\A d \in Deal : contract[d].status \in Terminal =>
            contract'[d].status = contract[d].status]_vars

\* The download of a signed contract finds a file (router.py:226-245), also
\* when an earlier call was cut off.
SignedHasFile == \A d \in Deal : contract[d].status = "SIGNED" => file[d] # "none"

\* One document per quote is out for signature, unless requests for the quote
\* crossed or one was cut off after the provider had taken the document.
OneDocumentPerQuote ==
    \A d \in Deal \ crossed : Cardinality({doc \in documents : DealOf(doc) = d}) <= 1

Rank(s) ==
    CASE s = "none" -> 0 [] s = "DRAFT" -> 1 [] s = "DRAFT_PENDING_OPS" -> 2
      [] s = "SENT" -> 3 [] OTHER -> 4

\* A quote only goes forward, and an approval is final, unless two requests
\* that had read the same status were both let through.
QuotesGoForward ==
    [][\A d \in Deal \ crossed' : quote'[d] # quote[d] => Rank(quote'[d]) > Rank(quote[d])]_vars

\* A contract, and a document at the provider, is for an approved quote whose
\* subtotals are not frozen: frozen subtotals are a digital approval's.
ContractsAreOfApprovals ==
    \A d \in Deal \ crossed :
        /\ (\E doc \in documents : DealOf(doc) = d) => quote[d] = "APPROVED"
        /\ \A l \in Line : lines[d][l].frozen # -1 => quote[d] = "DIGITAL_APPROVED"

\* A report about a document that has a contract ends that contract, through
\* failed downloads, torn files, lost calls and restarts, or else the download
\* of some document hangs and the server is never restarted (webhooks.py:77).
ReportsLand ==
    \A document \in Document :
        (contract[DealOf(document)].document = document
            /\ \E event \in Outcome : <<document, event>> \in reported)
        ~> \/ contract[DealOf(document)].status \in Terminal
           \/ [](hook.at = "hanging")

\* The contracts (crm/services.py, api/webhooks.py, crm/tasks.py).
ContractsInv ==
    /\ ContractsTypeOK
    /\ OneOrderPerContract /\ SignedHasFile
    /\ OneDocumentPerQuote /\ ContractsAreOfApprovals

\* What no request, report or task may undo.
NothingGoesBack == TerminalIsFinal /\ QuotesGoForward

=============================================================================
