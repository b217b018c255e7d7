---------------------------- MODULE SalesProofs ----------------------------
(***************************************************************************)
(* Theorems about contracts, credit balances and reminders, for any number *)
(* of them, of requests, reports, runs and failures.                       *)
(***************************************************************************)
EXTENDS Contracts, Credits, Reminders, FiniteSetTheorems, TLAPS

-----------------------------------------------------------------------------
(* Contracts: the inductive invariant.                                     *)

\* A request that is at work has a deal; one that is about to store a contract
\* has a document at the provider.
StaffAtWork ==
    \A k \in Staff :
        \/ staff[k] = Free
        \/ /\ staff[k].at # "free" /\ staff[k].deal \in Deal
           /\ staff[k].at = "inserting" => <<k, staff[k].deal>> \in documents

\* A contract is for a document that the provider holds, of the same deal.
ContractHasDocument ==
    \A d \in Deal :
        \/ contract[d] = NoContract
        \/ /\ contract[d].status # "none"
           /\ contract[d].document \in documents /\ DealOf(contract[d].document) = d

\* The running call is about a contract that is still out for signature, and
\* has seen to its file before it signs.
HookHasContract ==
    \/ hook = NoCall
    \/ /\ hook.at # "idle"
       /\ hook.at = "writing" => hook.event = "signed"
       /\ contract[DealOf(hook.document)].document = hook.document
       /\ contract[DealOf(hook.document)].status = "SENT"
       /\ hook.at = "filed" /\ hook.event = "signed" => file[DealOf(hook.document)] # "none"

\* The deal that the task has read has a contract.
TaskHasContract == task.current # NoDeal => contract[task.current] # NoContract

\* Where no two requests met on a deal: one of them at most is at work on it,
\* it acts on what still is, every document was sent for the approved quote and
\* has its contract or is about to get it, and only an approval froze the lines.
Alone(d) == \A j, k \in Staff : staff[j].deal = d /\ staff[k].deal = d => j = k

UpToDate(d) ==
    \A k \in Staff : staff[k].deal = d =>
        /\ staff[k].at = "patching" => quote[d] \in QuoteStatus /\ staff[k].new \in Allowed[quote[d]]
        /\ staff[k].at \in {"asking", "inserting"} =>
             quote[d] = "APPROVED" /\ contract[d] = NoContract
        /\ staff[k].at = "asking" => \A doc \in documents : DealOf(doc) # d

DocumentsUsed(d) ==
    \A doc \in documents : DealOf(doc) = d =>
        /\ quote[d] = "APPROVED"
        /\ \/ contract[d].document = doc
           \/ \E k \in Staff : staff[k].deal = d /\ staff[k].at = "inserting" /\ doc = <<k, d>>

FrozenIfApproved(d) == \A l \in Line : lines[d][l].frozen # -1 => quote[d] = "DIGITAL_APPROVED"

Undisturbed(d) == Alone(d) /\ UpToDate(d) /\ DocumentsUsed(d) /\ FrozenIfApproved(d)

Links ==
    /\ StaffAtWork /\ ContractHasDocument /\ HookHasContract /\ TaskHasContract
    /\ OneOrderPerContract /\ SignedHasFile

SalesInv == ContractsTypeOK /\ Links /\ \A d \in Deal \ crossed : Undisturbed(d)

-----------------------------------------------------------------------------
(* Types.                                                                  *)

\* A discounted price is not negative (create_quote).
LEMMA PricedType ==
    ASSUME NEW a \in Amount
    PROVE  Priced(a) \in [precio : Nat, discount : Nat, frozen : Int]
<1>1. a.price \in Nat /\ a.off \in Nat
  BY DEF Amount
<1> QED
  BY <1>1 DEF Priced, Lesser

\* The rows and the requests, and what the steps make of them.
ContractRow == [status : {"none", "SENT"} \cup Terminal, document : Document \cup {<<>>},
                delegate : BOOLEAN]

Request == [at : {"free", "patching", "asking", "inserting"}, deal : Deal \cup {NoDeal},
            new : QuoteStatus \cup {"none"}]

Call == [at : {"idle", "writing", "hanging", "filed"}, document : Document \cup {<<>>},
         event : Outcome \cup {"none"}]

PricedLine == [precio : Nat, discount : Nat, frozen : Int]

\* The steps that change one field of a record keep its type.
LEMMA EditsKeepTypes ==
    /\ \A c \in ContractRow :
         /\ \A s \in Terminal : [c EXCEPT !.status = s] \in ContractRow
         /\ [c EXCEPT !.delegate = TRUE] \in ContractRow
    /\ \A w \in Request : [w EXCEPT !.at = "inserting"] \in Request
    /\ \A h \in Call : [h EXCEPT !.at = "filed"] \in Call
    /\ \A l \in PricedLine, n \in Int : [l EXCEPT !.frozen = n] \in PricedLine
  BY DEF ContractRow, Request, Call, PricedLine

\* The type invariant, in these terms.
LEMMA TypesOfRows ==
    ContractsTypeOK =>
        /\ contract \in [Deal -> ContractRow]
        /\ staff \in [Staff -> Request]
        /\ hook \in Call
        /\ lines \in [Deal -> [Line -> PricedLine]]
  BY DEF ContractsTypeOK, ContractRow, Request, Call, PricedLine

\* A request that is at work has a deal.
LEMMA RequestsHaveDeals ==
    Links => \A k \in Staff : staff[k].at # "free" => staff[k].deal \in Deal
<1>1. Free.at = "free"
  BY DEF Free
<1> QED
  BY <1>1 DEF Links, StaffAtWork

\* No step of the contracts breaks the types.
LEMMA TypeStep == ContractsTypeOK /\ Links /\ [ContractsNext]_vars => ContractsTypeOK'
<1> SUFFICES ASSUME ContractsTypeOK, Links, [ContractsNext]_vars PROVE ContractsTypeOK'
  OBVIOUS
<1> USE ContractsAssumption DEF ContractsTypeOK
<1>1. ASSUME NEW d \in Deal, CreateQuote(d) PROVE ContractsTypeOK'
  <2>1. [l \in Line |-> Priced(Asked[d][l])] \in [Line -> [precio : Nat, discount : Nat, frozen : Int]]
    BY PricedType
  <2> QED
    BY <1>1, <2>1 DEF CreateQuote, QuoteStatus
<1>2. ASSUME NEW d \in Deal, TaskLoad(d) PROVE ContractsTypeOK'
  BY <1>2 DEF TaskLoad
<1>3. ASSUME NEW k \in Staff, NEW d \in Deal, PatchLoad(k, d) PROVE ContractsTypeOK'
  BY <1>3 DEF PatchLoad, Takes
<1>4. ASSUME NEW k \in Staff, NEW d \in Deal, SendCheck(k, d) PROVE ContractsTypeOK'
  BY <1>4 DEF SendCheck, Takes
<1>5. ASSUME NEW k \in Staff, PatchCommit(k) PROVE ContractsTypeOK'
  <2>1. staff[k].deal \in Deal
    BY <1>5, RequestsHaveDeals DEF PatchCommit
  <2>2. Freeze(staff[k].deal, staff[k].new) \in [Line -> [precio : Nat, discount : Nat, frozen : Int]]
    <3> DEFINE old == lines[staff[k].deal]
    <3>1. old \in [Line -> PricedLine]
      BY <2>1, TypesOfRows
    <3>2. \A l \in Line : old[l].precio - old[l].discount \in Int
      BY <3>1 DEF PricedLine
    <3>3. \A l \in Line : [old[l] EXCEPT !.frozen = old[l].precio - old[l].discount] \in PricedLine
      BY <3>1, <3>2, EditsKeepTypes
    <3>4. Freeze(staff[k].deal, staff[k].new) \in [Line -> PricedLine]
      BY <3>1, <3>3 DEF Freeze
    <3> QED
      BY <3>4 DEF PricedLine
  <2>3. Free \in [at : {"free", "patching", "asking", "inserting"},
                  deal : Deal \cup {NoDeal}, new : QuoteStatus \cup {"none"}]
    BY DEF Free
  <2> QED
    BY <1>5, <2>1, <2>2, <2>3 DEF PatchCommit
<1>6. ASSUME NEW k \in Staff, ProviderAccepts(k) PROVE ContractsTypeOK'
  <2>1. staff[k].deal \in Deal
    BY <1>6, RequestsHaveDeals DEF ProviderAccepts
  <2>2. documents' \subseteq Document /\ reported' \subseteq documents' \X Outcome
    BY <1>6, <2>1 DEF ProviderAccepts, Document
  <2>3. staff' \in [Staff -> Request]
    BY <1>6, TypesOfRows, EditsKeepTypes DEF ProviderAccepts
  <2> QED
    BY <1>6, <2>2, <2>3 DEF ProviderAccepts, Request
<1>7. ASSUME NEW k \in Staff, ProviderFails(k) PROVE ContractsTypeOK'
  BY <1>7 DEF ProviderFails, Free
<1>8. ASSUME NEW k \in Staff, InsertContract(k) PROVE ContractsTypeOK'
  <2>1. staff[k].deal \in Deal
    BY <1>8, RequestsHaveDeals DEF InsertContract
  <2> QED
    BY <1>8, <2>1 DEF InsertContract, Document, Free
<1>9. ASSUME NEW document \in Document, NEW event \in Outcome, Reports(document, event)
      PROVE  ContractsTypeOK'
  BY <1>9 DEF Reports
<1>10. ASSUME NEW document \in Document, NEW event \in Outcome, HookLoad(document, event)
       PROVE  ContractsTypeOK'
  BY <1>10 DEF HookLoad
<1>11. CASE HookFile
  <2>1. hook # NoCall
    BY <1>11 DEF HookFile, NoCall
  <2>2. DealOf(hook.document) \in Deal
    BY <2>1 DEF DealOf, Document
  <2>3. file' \in [Deal -> {"none", "torn", "made", "fetched"}]
    BY <1>11, <2>2 DEF HookFile
  <2>4. hook' = NoCall \/ hook' = [hook EXCEPT !.at = "filed"]
    BY <1>11 DEF HookFile, Filed, Fails
  <2>5. hook' \in Call
    BY <2>4, TypesOfRows, EditsKeepTypes DEF NoCall, Call
  <2>6. hook' # NoCall => hook'.document = hook.document /\ hook'.event = hook.event
    BY <2>4, TypesOfRows DEF Call
  <2>7. trouble' \in 0..MaxTrouble
    BY <1>11 DEF HookFile, Filed, Fails
  <2> QED
    BY <1>11, <2>1, <2>3, <2>5, <2>6, <2>7 DEF HookFile, Call
<1>12. CASE HookCommit
  <2>1. hook # NoCall
    BY <1>12 DEF HookCommit, NoCall
  <2>2. DealOf(hook.document) \in Deal /\ hook.event \in Outcome
    BY <2>1 DEF DealOf, Document
  <2> DEFINE new == CASE hook.event = "signed"   -> "SIGNED"
                      [] hook.event = "rejected" -> "REJECTED"
                      [] hook.event = "expired"  -> "EXPIRED"
  <2>3. new \in Terminal
    BY <2>2 DEF Outcome, Terminal
  <2>4. contract' = [contract EXCEPT ![DealOf(hook.document)].status = new]
    BY <1>12 DEF HookCommit
  <2> HIDE DEF new
  <2>5. contract' \in [Deal -> ContractRow]
    BY <2>2, <2>3, <2>4, TypesOfRows, EditsKeepTypes
  <2>6. orders' \in [Deal -> Nat]
    BY <1>12, <2>2 DEF HookCommit, OpenOrder
  <2> QED
    BY <1>12, <2>5, <2>6 DEF HookCommit, NoCall, ContractRow
<1>17. CASE HookHangs
  <2>1. hook # NoCall /\ hook' \in Call
    <3>1. hook \in Call /\ hook.at = "writing" /\ hook' = [hook EXCEPT !.at = "hanging"]
      BY <1>17, TypesOfRows DEF HookHangs
    <3>2. hook # NoCall
      BY <3>1 DEF NoCall
    <3>3. hook' \in Call
      BY <3>1 DEF Call
    <3> QED
      BY <3>2, <3>3
  <2>2. hook'.document = hook.document /\ hook'.event = hook.event
    BY <1>17, TypesOfRows DEF HookHangs, Call
  <2> QED
    BY <1>17, <2>1, <2>2 DEF HookHangs, Call
<1>13. CASE Restart
  <2>1. file' \in [Deal -> {"none", "torn", "made", "fetched"}]
    BY <1>13 DEF Restart
  <2>2. crossed' \subseteq Deal
    BY <1>13 DEF Restart
  <2> QED
    BY <1>13, <2>1, <2>2 DEF Restart, NoCall, Free
<1>14. CASE TaskSelect
  BY <1>14 DEF TaskSelect
<1>15. CASE TaskCommit
  <2>1. contract' \in [Deal -> ContractRow]
    BY <1>15, TypesOfRows, EditsKeepTypes DEF TaskCommit
  <2> QED
    BY <1>15, <2>1 DEF TaskCommit, ContractRow
<1>16. CASE UNCHANGED vars
  BY <1>16 DEF vars
<1> QED
  BY <1>1, <1>2, <1>3, <1>4, <1>5, <1>6, <1>7, <1>8, <1>9, <1>10, <1>11, <1>12, <1>13, <1>14,
     <1>15, <1>16, <1>17 DEF ContractsNext, Deliver

-----------------------------------------------------------------------------
(* What requests, calls, contracts and orders know of each other.          *)

\* The placeholder for no document is no document.
LEMMA DocumentsAreReal == <<>> \notin Document
  BY DEF Document

\* No step separates a request, a webhook call, a contract or an order from what
\* it refers to (crm/services.py, api/webhooks.py, crm/tasks.py).
LEMMA LinksStep == ContractsTypeOK /\ Links /\ [ContractsNext]_vars => Links'
<1> SUFFICES ASSUME ContractsTypeOK, Links, [ContractsNext]_vars PROVE Links'
  OBVIOUS
<1> USE ContractsAssumption
    DEF ContractsTypeOK, Links, StaffAtWork, ContractHasDocument, HookHasContract,
        TaskHasContract, OneOrderPerContract, SignedHasFile
<1>0. \A d \in Deal : contract[d] = NoContract <=> contract[d].status = "none"
  BY DEF NoContract
<1>1. ASSUME NEW d \in Deal, CreateQuote(d) PROVE Links'
  BY <1>1 DEF CreateQuote
<1>2. ASSUME NEW d \in Deal, TaskLoad(d) PROVE Links'
  BY <1>2 DEF TaskLoad, Waiting, NoContract
<1>3. ASSUME NEW k \in Staff, NEW d \in Deal, PatchLoad(k, d) PROVE Links'
  BY <1>3 DEF PatchLoad, Takes
<1>4. ASSUME NEW k \in Staff, NEW d \in Deal, SendCheck(k, d) PROVE Links'
  BY <1>4 DEF SendCheck, Takes
<1>5. ASSUME NEW k \in Staff, PatchCommit(k) PROVE Links'
  BY <1>5 DEF PatchCommit
<1>6. ASSUME NEW k \in Staff, ProviderAccepts(k) PROVE Links'
  BY <1>6 DEF ProviderAccepts, Free
<1>7. ASSUME NEW k \in Staff, ProviderFails(k) PROVE Links'
  BY <1>7 DEF ProviderFails
<1>8. ASSUME NEW k \in Staff, InsertContract(k) PROVE Links'
  <2> DEFINE d == staff[k].deal
             new == [status |-> "SENT", document |-> <<k, d>>, delegate |-> FALSE]
  <2>1. d \in Deal /\ <<k, d>> \in documents
    BY <1>8 DEF InsertContract, Free
  <2>2. \/ contract' = contract
        \/ contract[d] = NoContract /\ contract' = [contract EXCEPT ![d] = new]
    BY <1>8 DEF InsertContract
  <2>3. \A e \in Deal : contract'[e] # contract[e] =>
                         contract[e] = NoContract /\ contract'[e] = new /\ e = d
    BY <2>1, <2>2
  <2>4. ContractHasDocument'
    BY <1>8, <2>1, <2>3 DEF InsertContract, DealOf
  <2>5. HookHasContract'
    BY <1>8, <2>3 DEF InsertContract, NoContract, DealOf, Document
  <2>6. TaskHasContract'
    BY <1>8, <2>3 DEF InsertContract, NoContract
  <2>7. OneOrderPerContract'
    BY <1>8, <1>0, <2>3 DEF InsertContract
  <2>8. SignedHasFile'
    BY <1>8, <2>3 DEF InsertContract
  <2> QED
    BY <1>8, <2>4, <2>5, <2>6, <2>7, <2>8 DEF InsertContract
<1>9. ASSUME NEW document \in Document, NEW event \in Outcome, Reports(document, event)
      PROVE  Links'
  BY <1>9 DEF Reports
<1>10. ASSUME NEW document \in Document, NEW event \in Outcome, HookLoad(document, event)
       PROVE  Links'
  <2> DEFINE d == DealOf(document)
  <2>1. d \in Deal
    BY DEF DealOf, Document
  <2>2. contract[d] # NoContract
    BY <1>10, DocumentsAreReal DEF HookLoad, NoContract
  <2>3. contract[d].status = "SENT"
    BY <1>0, <1>10, <2>1, <2>2 DEF HookLoad, Terminal
  <2>4. HookHasContract'
    BY <1>10, <2>1, <2>3 DEF HookLoad, NoCall
  <2> QED
    BY <1>10, <2>4 DEF HookLoad
<1>11. CASE HookFile
  <2> DEFINE d == DealOf(hook.document)
  <2>1. hook # NoCall /\ d \in Deal
    BY <1>11 DEF HookFile, NoCall, DealOf, Document
  <2>2. \A e \in Deal : file[e] # "none" => file'[e] # "none"
    BY <1>11, <2>1 DEF HookFile
  <2>3. SignedHasFile'
    BY <1>11, <2>2 DEF HookFile
  <2>4. CASE Fails
    BY <1>11, <2>3, <2>4 DEF HookFile, Fails
  <2>5. CASE Filed
    <3>1. hook' = [hook EXCEPT !.at = "filed"] /\ hook'.document = hook.document
      BY <2>5, TypesOfRows DEF Filed, Call
    <3>2. file'[d] # "none"
      BY <1>11, <2>1, <2>5 DEF HookFile, Filed, Fails, NoCall
    <3>3. HookHasContract'
      BY <1>11, <2>1, <3>1, <3>2, TypesOfRows DEF HookFile, Call
    <3> QED
      BY <1>11, <2>3, <3>3 DEF HookFile
  <2> QED
    BY <1>11, <2>4, <2>5 DEF HookFile
<1>12. CASE HookCommit
  <2> DEFINE d == DealOf(hook.document)
  <2>1. hook # NoCall /\ d \in Deal /\ hook.event \in Outcome
    BY <1>12 DEF HookCommit, NoCall, DealOf, Document
  <2>2. contract[d].status = "SENT" /\ (hook.event = "signed" => file[d] # "none")
    BY <1>12, <2>1 DEF HookCommit
  <2>3. /\ \A e \in Deal : e # d => contract'[e] = contract[e] /\ orders'[e] = orders[e]
        /\ contract'[d].document = contract[d].document
        /\ contract'[d].status \in Terminal
        /\ contract'[d].status = "SIGNED" <=> hook.event = "signed"
        /\ orders'[d] = IF hook.event = "signed" THEN orders[d] + 1 ELSE orders[d]
    BY <1>12, <2>1, TypesOfRows DEF HookCommit, ContractRow, OpenOrder, Outcome, Terminal
  <2>4. ContractHasDocument'
    <3>1. UNCHANGED documents /\ contract[d] # NoContract /\ contract'[d].status # "none"
      BY <1>0, <1>12, <2>1, <2>2, <2>3 DEF HookCommit, Terminal
    <3>2. ASSUME NEW e \in Deal, contract'[e] # NoContract
          PROVE  /\ contract'[e].status # "none"
                 /\ contract'[e].document \in documents /\ DealOf(contract'[e].document) = e
      <4>1. CASE e = d
        BY <2>1, <2>3, <3>1, <4>1
      <4>2. CASE e # d
        BY <2>3, <3>2, <4>2
      <4> QED
        BY <4>1, <4>2
    <3> QED
      BY <3>1, <3>2
  <2>5. HookHasContract'
    BY <1>12 DEF HookCommit
  <2>6. TaskHasContract'
    <3>1. contract'[d] # NoContract
      BY <2>1, <2>3 DEF NoContract, Terminal
    <3>2. \A e \in Deal : contract[e] # NoContract => contract'[e] # NoContract
      BY <2>3, <3>1
    <3> QED
      BY <1>12, <3>2 DEF HookCommit
  <2>7. OneOrderPerContract'
    <3>1. ASSUME NEW e \in Deal
          PROVE  orders'[e] = IF contract'[e].status = "SIGNED" THEN 1 ELSE 0
      <4>1. CASE e = d
        <5>1. orders[d] = 0
          BY <2>1, <2>2
        <5> QED
          BY <2>3, <4>1, <5>1
      <4>2. CASE e # d
        BY <2>3, <4>2
      <4> QED
        BY <4>1, <4>2
    <3> QED
      BY <3>1
  <2>8. SignedHasFile'
    BY <1>12, <2>2, <2>3 DEF HookCommit
  <2> QED
    BY <1>12, <2>4, <2>5, <2>6, <2>7, <2>8 DEF HookCommit
<1>17. CASE HookHangs
  <2>1. hook # NoCall /\ hook'.at = "hanging" /\ hook'.document = hook.document
    BY <1>17, TypesOfRows DEF HookHangs, NoCall, Call
  <2>2. HookHasContract'
    BY <1>17, <2>1 DEF HookHangs
  <2> QED
    BY <1>17, <2>2 DEF HookHangs
<1>13. CASE Restart
  BY <1>13 DEF Restart, NoCall, Free
<1>14. CASE TaskSelect
  BY <1>14 DEF TaskSelect
<1>15. CASE TaskCommit
  BY <1>15 DEF TaskCommit
<1>16. CASE UNCHANGED vars
  BY <1>16 DEF vars
<1> QED
  BY <1>1, <1>2, <1>3, <1>4, <1>5, <1>6, <1>7, <1>8, <1>9, <1>10, <1>11, <1>12, <1>13, <1>14,
     <1>15, <1>16, <1>17 DEF ContractsNext, Deliver

-----------------------------------------------------------------------------
(* Deals on which no two requests met.                                     *)

\* A step that leaves alone what is known of a deal.
LEMMA UndisturbedFrame ==
    ASSUME NEW d \in Deal, Undisturbed(d),
           \A k \in Staff : staff'[k] # staff[k] =>
                            staff'[k].deal # d /\ (staff[k].deal = d => staff[k].at # "inserting"),
           quote'[d] = quote[d], lines'[d] = lines[d],
           contract'[d].document = contract[d].document,
           contract[d] = NoContract => contract'[d] = NoContract,
           \A doc \in documents' : doc \in documents \/ DealOf(doc) # d
    PROVE  Undisturbed(d)'
<1>1. \A k \in Staff : staff'[k].deal = d => staff'[k] = staff[k] /\ staff[k].deal = d
  OBVIOUS
<1>2. Alone(d)'
  BY <1>1 DEF Undisturbed, Alone
<1>3. UpToDate(d)'
  BY <1>1 DEF Undisturbed, UpToDate
<1>4. DocumentsUsed(d)'
  BY DEF Undisturbed, DocumentsUsed
<1>5. FrozenIfApproved(d)'
  BY DEF Undisturbed, FrozenIfApproved
<1> QED
  BY <1>2, <1>3, <1>4, <1>5 DEF Undisturbed

\* A request takes up a deal that no other request is at work on.
LEMMA TakesAlone ==
    ASSUME ContractsTypeOK, Links, NEW k \in Staff, NEW e \in Deal, NEW step, NEW new,
           Takes(k, e, step, new), NEW d \in Deal \ crossed'
    PROVE  /\ \A j \in Staff \ {k} : staff'[j] = staff[j]
           /\ staff'[k] = [at |-> step, deal |-> e, new |-> new]
           /\ staff[k].deal # d
           /\ d = e => \A j \in Staff : staff[j].deal # d
<1>1. Free.deal = NoDeal /\ NoDeal # d
  BY ContractsAssumption DEF Free
<1> QED
  BY <1>1 DEF Takes, ContractsTypeOK

\* Where no two requests met on a deal, no step makes one act on what is past.
LEMMA UndisturbedStep ==
    SalesInv /\ [ContractsNext]_vars => \A d \in Deal \ crossed' : Undisturbed(d)'
<1> SUFFICES ASSUME ContractsTypeOK, Links, \A d \in Deal \ crossed : Undisturbed(d),
                    [ContractsNext]_vars,
                    NEW d \in Deal \ crossed'
             PROVE  Undisturbed(d)'
  BY DEF SalesInv
<1>a. Free.deal = NoDeal /\ NoDeal # d /\ Free.at = "free"
  BY ContractsAssumption DEF Free
<1>b. \A k \in Staff : staff[k].deal = d => staff[k].at # "free"
  BY <1>a DEF Links, StaffAtWork
<1>1. ASSUME NEW e \in Deal, CreateQuote(e) PROVE Undisturbed(d)'
  <2>0. Undisturbed(d) /\ staff' = staff /\ contract' = contract /\ documents' = documents
    BY <1>1 DEF CreateQuote
  <2>1. CASE e = d
    <3>1. quote[d] = "none" /\ \A l \in Line : lines'[d][l].frozen = -1
      BY <1>1, <2>1 DEF CreateQuote, ContractsTypeOK, Priced
    <3>2. \A k \in Staff : staff[k].deal # d
      BY <1>b, <2>0, <3>1, TypesOfRows DEF Undisturbed, UpToDate, Request, QuoteStatus
    <3>3. \A doc \in documents : DealOf(doc) # d
      BY <2>0, <3>1 DEF Undisturbed, DocumentsUsed
    <3> QED
      BY <2>0, <3>1, <3>2, <3>3
      DEF Undisturbed, Alone, UpToDate, DocumentsUsed, FrozenIfApproved
  <2>2. CASE e # d
    BY <1>1, <2>0, <2>2, UndisturbedFrame DEF CreateQuote, ContractsTypeOK
  <2> QED
    BY <2>1, <2>2
<1>2. ASSUME NEW e \in Deal, TaskLoad(e) PROVE Undisturbed(d)'
  BY <1>2, UndisturbedFrame DEF TaskLoad
<1>3. ASSUME NEW k \in Staff, NEW e \in Deal, PatchLoad(k, e) PROVE Undisturbed(d)'
  <2>1. PICK new \in QuoteStatus :
          /\ quote[e] \in QuoteStatus /\ new \in Allowed[quote[e]]
          /\ Takes(k, e, "patching", new)
    BY <1>3 DEF PatchLoad
  <2>2. Undisturbed(d) /\ crossed \subseteq crossed'
    BY <2>1 DEF Takes
  <2>3. /\ \A j \in Staff \ {k} : staff'[j] = staff[j]
        /\ staff'[k] = [at |-> "patching", deal |-> e, new |-> new]
        /\ staff[k].deal # d
        /\ d = e => \A j \in Staff : staff[j].deal # d
    BY <2>1, TakesAlone
  <2>4. CASE e = d
    <3>1. Alone(d)'
      BY <2>3, <2>4 DEF Alone
    <3>2. UpToDate(d)'
      BY <1>3, <2>1, <2>3, <2>4 DEF UpToDate, PatchLoad
    <3>3. DocumentsUsed(d)' /\ FrozenIfApproved(d)'
      BY <1>3, <2>2, <2>3, <2>4 DEF Undisturbed, DocumentsUsed, FrozenIfApproved, PatchLoad
    <3> QED
      BY <3>1, <3>2, <3>3 DEF Undisturbed
  <2>5. CASE e # d
    BY <1>3, <2>2, <2>3, <2>5, UndisturbedFrame DEF PatchLoad
  <2> QED
    BY <2>4, <2>5
<1>4. ASSUME NEW k \in Staff, NEW e \in Deal, SendCheck(k, e) PROVE Undisturbed(d)'
  <2>1. Takes(k, e, "asking", "none")
    BY <1>4 DEF SendCheck
  <2>2. Undisturbed(d) /\ crossed \subseteq crossed'
    BY <2>1 DEF Takes
  <2>3. /\ \A j \in Staff \ {k} : staff'[j] = staff[j]
        /\ staff'[k] = [at |-> "asking", deal |-> e, new |-> "none"]
        /\ staff[k].deal # d
        /\ d = e => \A j \in Staff : staff[j].deal # d
    BY <2>1, TakesAlone
  <2>4. CASE e = d
    <3>1. Alone(d)'
      BY <2>3, <2>4 DEF Alone
    <3>2. \A doc \in documents : DealOf(doc) # d
      <4>1. <<>> \notin documents /\ contract[d].document = <<>>
        BY <1>4, <2>4, DocumentsAreReal DEF SendCheck, NoContract, ContractsTypeOK
      <4> QED
        BY <2>2, <2>3, <2>4, <4>1 DEF Undisturbed, DocumentsUsed
    <3>3. UpToDate(d)'
      BY <1>4, <2>3, <2>4, <3>2 DEF UpToDate, SendCheck
    <3>4. DocumentsUsed(d)' /\ FrozenIfApproved(d)'
      BY <1>4, <2>2, <3>2 DEF Undisturbed, DocumentsUsed, FrozenIfApproved, SendCheck
    <3> QED
      BY <3>1, <3>3, <3>4 DEF Undisturbed
  <2>5. CASE e # d
    BY <1>4, <2>2, <2>3, <2>5, UndisturbedFrame DEF SendCheck
  <2> QED
    BY <2>4, <2>5
<1>5. ASSUME NEW k \in Staff, PatchCommit(k) PROVE Undisturbed(d)'
  <2>0. /\ Undisturbed(d) /\ contract' = contract /\ documents' = documents
        /\ staff' = [staff EXCEPT ![k] = Free] /\ staff[k].at = "patching"
    BY <1>5 DEF PatchCommit
  <2>00. staff \in [Staff -> Request] /\ quote \in [Deal -> QuoteStatus \cup {"none"}]
         /\ lines \in [Deal -> [Line -> PricedLine]]
    BY TypesOfRows DEF ContractsTypeOK
  <2>1. CASE staff[k].deal = d
    <3>1. /\ quote[d] \in QuoteStatus /\ staff[k].new \in Allowed[quote[d]]
          /\ \A j \in Staff : staff[j].deal = d => j = k
      BY <2>0, <2>1 DEF Undisturbed, Alone, UpToDate
    <3>2. quote[d] # "APPROVED" /\ quote[d] # "DIGITAL_APPROVED"
      BY <3>1 DEF Allowed, QuoteStatus
    <3>3. \A doc \in documents : DealOf(doc) # d
      BY <2>0, <3>2 DEF Undisturbed, DocumentsUsed
    <3>4. \A j \in Staff : staff'[j].deal # d
      BY <1>a, <2>0, <2>00, <3>1
    <3>5. FrozenIfApproved(d)'
      BY <1>5, <2>0, <2>00, <2>1, <3>2 DEF Undisturbed, FrozenIfApproved, PatchCommit, Freeze
    <3> QED
      BY <2>0, <3>3, <3>4, <3>5 DEF Undisturbed, Alone, UpToDate, DocumentsUsed
  <2>2. CASE staff[k].deal # d
    <3>1. staff[k].deal \in Deal
      BY <2>0, RequestsHaveDeals
    <3>2. quote'[d] = quote[d] /\ lines'[d] = lines[d]
      BY <1>5, <2>00, <2>2, <3>1 DEF PatchCommit
    <3> QED
      BY <1>a, <2>0, <2>00, <2>2, <3>2, UndisturbedFrame
  <2> QED
    BY <2>1, <2>2
<1>6. ASSUME NEW k \in Staff, ProviderAccepts(k) PROVE Undisturbed(d)'
  <2> DEFINE doc == <<k, staff[k].deal>>
  <2>0. /\ Undisturbed(d) /\ UNCHANGED <<contract, quote, lines>>
        /\ documents' = documents \cup {doc}
        /\ staff' = [staff EXCEPT ![k].at = "inserting"] /\ staff[k].at = "asking"
    BY <1>6 DEF ProviderAccepts
  <2>00. staff \in [Staff -> Request]
    BY TypesOfRows
  <2>1. CASE staff[k].deal = d
    <3>1. /\ quote[d] = "APPROVED" /\ contract[d] = NoContract
          /\ \A other \in documents : DealOf(other) # d
          /\ \A j \in Staff : staff[j].deal = d => j = k
      BY <2>0, <2>1 DEF Undisturbed, Alone, UpToDate
    <3>2. staff'[k].deal = d /\ staff'[k].at = "inserting" /\ \A j \in Staff \ {k} : staff'[j] = staff[j]
      BY <2>0, <2>00, <2>1 DEF Request
    <3>3. Alone(d)'
      BY <3>1, <3>2 DEF Alone
    <3>4. UpToDate(d)'
      BY <2>0, <3>1, <3>2 DEF UpToDate
    <3>5. DocumentsUsed(d)'
      BY <2>0, <2>1, <3>1, <3>2 DEF DocumentsUsed
    <3> QED
      BY <2>0, <3>3, <3>4, <3>5 DEF Undisturbed, FrozenIfApproved
  <2>2. CASE staff[k].deal # d
    <3>1. DealOf(doc) # d
      BY <2>2 DEF DealOf
    <3>2. staff'[k].deal # d /\ \A j \in Staff \ {k} : staff'[j] = staff[j]
      BY <2>0, <2>00, <2>2 DEF Request
    <3> QED
      BY <2>0, <2>2, <3>1, <3>2, UndisturbedFrame
  <2> QED
    BY <2>1, <2>2
<1>7. ASSUME NEW k \in Staff, ProviderFails(k) PROVE Undisturbed(d)'
  <2>1. staff[k].at # "inserting" /\ \A j \in Staff : staff'[j] = IF j = k THEN Free ELSE staff[j]
    BY <1>7 DEF ProviderFails, ContractsTypeOK
  <2> QED
    BY <1>7, <1>a, <2>1, UndisturbedFrame DEF ProviderFails
<1>8. ASSUME NEW k \in Staff, InsertContract(k) PROVE Undisturbed(d)'
  <2> DEFINE e == staff[k].deal
             new == [status |-> "SENT", document |-> <<k, e>>, delegate |-> FALSE]
  <2>0. /\ Undisturbed(d) /\ UNCHANGED <<documents, quote, lines>>
        /\ staff[k].at = "inserting" /\ e \in Deal
        /\ \A j \in Staff : staff'[j] = IF j = k THEN Free ELSE staff[j]
    BY <1>8, RequestsHaveDeals DEF InsertContract, ContractsTypeOK
  <2>1. CASE e = d
    <3>1. contract[d] = NoContract /\ \A j \in Staff : staff[j].deal = d => j = k
      BY <2>0, <2>1 DEF Undisturbed, Alone, UpToDate
    <3>2. \A j \in Staff : staff'[j].deal # d
      BY <1>a, <2>0, <2>1, <3>1
    <3>3. contract'[d].document = <<k, d>>
      BY <1>8, <2>1, <3>1 DEF InsertContract, ContractsTypeOK
    <3>4. \A doc \in documents : DealOf(doc) = d => doc = <<k, d>>
      BY <2>0, <3>1, DocumentsAreReal DEF Undisturbed, DocumentsUsed, NoContract, ContractsTypeOK
    <3>5. DocumentsUsed(d)'
      BY <2>0, <3>3, <3>4 DEF Undisturbed, DocumentsUsed
    <3> QED
      BY <2>0, <3>2, <3>5 DEF Undisturbed, Alone, UpToDate, FrozenIfApproved
  <2>2. CASE e # d
    <3>1. contract'[d] = contract[d]
      BY <1>8, <2>0, <2>2 DEF InsertContract, ContractsTypeOK
    <3> QED
      BY <1>8, <1>a, <2>0, <2>2, <3>1, UndisturbedFrame DEF InsertContract
  <2> QED
    BY <2>1, <2>2
<1>9. ASSUME NEW document \in Document, NEW event \in Outcome, Reports(document, event)
      PROVE  Undisturbed(d)'
  BY <1>9, UndisturbedFrame DEF Reports
<1>10. ASSUME NEW document \in Document, NEW event \in Outcome, HookLoad(document, event)
       PROVE  Undisturbed(d)'
  BY <1>10, UndisturbedFrame DEF HookLoad
<1>11. CASE HookFile
  BY <1>11, UndisturbedFrame DEF HookFile
<1>12. CASE HookCommit
  <2>1. hook # NoCall
    BY <1>12 DEF HookCommit, NoCall
  <2>2. contract[DealOf(hook.document)] # NoContract
    BY <2>1 DEF Links, HookHasContract, NoContract
  <2>3. contract'[d].document = contract[d].document
        /\ (contract[d] = NoContract => contract'[d] = NoContract)
    BY <1>12, <2>2, TypesOfRows DEF HookCommit, ContractRow
  <2> QED
    BY <1>12, <2>3, UndisturbedFrame DEF HookCommit
<1>17. CASE HookHangs
  BY <1>17, UndisturbedFrame DEF HookHangs
<1>13. CASE Restart
  <2>1. \A k \in Staff : staff[k].deal # d /\ staff'[k] = Free
    BY <1>13, <1>a DEF Restart
  <2> QED
    BY <1>13, <1>a, <2>1, UndisturbedFrame DEF Restart
<1>14. CASE TaskSelect
  BY <1>14, UndisturbedFrame DEF TaskSelect
<1>15. CASE TaskCommit
  <2>1. contract[task.current] # NoContract
    BY <1>15 DEF TaskCommit, Links, TaskHasContract
  <2>2. contract'[d].document = contract[d].document
        /\ (contract[d] = NoContract => contract'[d] = NoContract)
    BY <1>15, <2>1, TypesOfRows DEF TaskCommit, ContractRow
  <2> QED
    BY <1>15, <2>2, UndisturbedFrame DEF TaskCommit
<1>16. CASE UNCHANGED vars
  BY <1>16, UndisturbedFrame DEF vars
<1> QED
  BY <1>1, <1>2, <1>3, <1>4, <1>5, <1>6, <1>7, <1>8, <1>9, <1>10, <1>11, <1>12, <1>13, <1>14,
     <1>15, <1>16, <1>17 DEF ContractsNext, Deliver

-----------------------------------------------------------------------------
(* Contracts: the theorems.                                                *)

\* The invariant holds before anything is quoted.
LEMMA InitSales == ContractsInit => SalesInv
<1> SUFFICES ASSUME ContractsInit PROVE SalesInv
  OBVIOUS
<1> USE ContractsAssumption DEF ContractsInit
<1>1. ContractsTypeOK
  BY DEF ContractsTypeOK, NoContract, Free, NoCall, Resting
<1>2. Links
  BY DEF Links, StaffAtWork, ContractHasDocument, HookHasContract, TaskHasContract,
         OneOrderPerContract, SignedHasFile, NoContract, NoCall, Resting
<1>3. \A d \in Deal : Undisturbed(d)
  BY DEF Undisturbed, Alone, UpToDate, DocumentsUsed, FrozenIfApproved, Free
<1> QED
  BY <1>1, <1>2, <1>3 DEF SalesInv

\* The inductive invariant holds throughout.
THEOREM SalesAlways == ContractsSpec => []SalesInv
<1>1. SalesInv /\ [ContractsNext]_vars => SalesInv'
  BY TypeStep, LinksStep, UndisturbedStep DEF SalesInv
<1> QED
  BY InitSales, <1>1, PTL DEF ContractsSpec

\* Two documents of one undisturbed deal are the same document.
LEMMA OneDocument ==
    ASSUME SalesInv, NEW d \in Deal \ crossed
    PROVE  Cardinality({doc \in documents : DealOf(doc) = d}) <= 1
<1> DEFINE sent == {doc \in documents : DealOf(doc) = d}
<1>1. Undisturbed(d) /\ documents \subseteq Document
  BY DEF SalesInv, ContractsTypeOK
<1>2. ASSUME NEW a \in sent, NEW b \in sent PROVE a = b
  <2>1. a # <<>> /\ b # <<>>
    BY <1>1, DocumentsAreReal
  <2>2. CASE contract[d] = NoContract
    <3>1. contract[d].document = <<>>
      BY <2>2 DEF NoContract
    <3> QED
      BY <1>1, <2>1, <3>1 DEF Undisturbed, Alone, DocumentsUsed
  <2>3. CASE contract[d] # NoContract
    BY <1>1, <2>3 DEF Undisturbed, UpToDate, DocumentsUsed
  <2> QED
    BY <2>2, <2>3
<1>3. CASE sent = {}
  BY <1>3, FS_EmptySet
<1>4. CASE sent # {}
  <2>1. PICK a : sent = {a}
    BY <1>2, <1>4
  <2>2. Cardinality({a}) = 1
    BY FS_Singleton
  <2> QED
    BY <2>1, <2>2
<1> QED
  BY <1>3, <1>4

\* Whatever the provider reports, however often and in which order, and
\* whatever is restarted, a contract has one service order once it is signed
\* and none before, its file is there, one document per quote was sent, and for
\* an approved quote only.
THEOREM ContractsAlways == ContractsSpec => []ContractsInv
<1>1. SalesInv => ContractsAreOfApprovals
  BY DEF SalesInv, ContractsAreOfApprovals, Undisturbed, DocumentsUsed, FrozenIfApproved
<1>2. SalesInv => ContractsInv
  BY <1>1, OneDocument DEF SalesInv, Links, ContractsInv, OneDocumentPerQuote
<1> QED
  BY <1>2, SalesAlways, PTL

\* A step leaves a contract that is over as it is ...
LEMMA OverStaysOver ==
    ASSUME SalesInv, [ContractsNext]_vars, NEW d \in Deal, contract[d].status \in Terminal
    PROVE  contract'[d].status = contract[d].status
<1>0. contract[d] # NoContract /\ contract \in [Deal -> ContractRow]
  BY TypesOfRows DEF SalesInv, NoContract, Terminal
<1>1. CASE HookCommit
  <2>1. hook # NoCall
    BY <1>1 DEF HookCommit, NoCall
  <2>2. contract[DealOf(hook.document)].status = "SENT"
    BY <2>1 DEF SalesInv, Links, HookHasContract
  <2>3. d # DealOf(hook.document)
    BY <2>2 DEF Terminal
  <2> QED
    BY <1>0, <1>1, <2>3 DEF HookCommit
<1>2. CASE TaskCommit
  BY <1>0, <1>2 DEF TaskCommit, ContractRow
<1>3. ASSUME NEW k \in Staff, InsertContract(k)
      PROVE  contract'[d].status = contract[d].status
  BY <1>0, <1>3 DEF InsertContract
<1>4. CASE UNCHANGED contract
  BY <1>4
<1> QED
  BY <1>1, <1>2, <1>3, <1>4
  DEF ContractsNext, vars, Deliver, CreateQuote, TaskLoad, PatchLoad, SendCheck, PatchCommit,
      ProviderAccepts, ProviderFails, Reports, HookLoad, HookFile, HookHangs, Restart,
      TaskSelect

\* ... and moves a quote forward.
LEMMA ForwardStep ==
    ASSUME SalesInv, [ContractsNext]_vars, NEW d \in Deal \ crossed', quote'[d] # quote[d]
    PROVE  Rank(quote'[d]) > Rank(quote[d])
<1>0. staff \in [Staff -> Request] /\ quote \in [Deal -> QuoteStatus \cup {"none"}]
  BY TypesOfRows DEF SalesInv, ContractsTypeOK
<1>1. ASSUME NEW e \in Deal, CreateQuote(e)
      PROVE  Rank(quote'[d]) > Rank(quote[d])
  BY <1>0, <1>1 DEF CreateQuote, Rank
<1>2. ASSUME NEW k \in Staff, PatchCommit(k)
      PROVE  Rank(quote'[d]) > Rank(quote[d])
  <2>1. staff[k].deal = d /\ quote'[d] = staff[k].new /\ d \notin crossed
    BY <1>0, <1>2 DEF PatchCommit
  <2>2. quote[d] \in QuoteStatus /\ staff[k].new \in Allowed[quote[d]]
    BY <1>2, <2>1 DEF SalesInv, Undisturbed, UpToDate, PatchCommit
  <2> QED
    BY <2>1, <2>2 DEF Allowed, QuoteStatus, Rank
<1> QED
  BY <1>1, <1>2
  DEF ContractsNext, vars, Deliver, TaskLoad, PatchLoad, SendCheck, ProviderAccepts,
      ProviderFails, InsertContract, Reports, HookLoad, HookFile, HookHangs, HookCommit,
      Restart, TaskSelect, TaskCommit

\* No late report, task or request undoes the end of a contract, and a quote
\* only goes back where two requests crossed.
THEOREM NothingEverGoesBack == ContractsSpec => NothingGoesBack
<1>1. SalesInv /\ [ContractsNext]_vars =>
        [\A d \in Deal : contract[d].status \in Terminal =>
            contract'[d].status = contract[d].status]_vars
  BY OverStaysOver
<1>2. SalesInv /\ [ContractsNext]_vars =>
        [\A d \in Deal \ crossed' : quote'[d] # quote[d] =>
            Rank(quote'[d]) > Rank(quote[d])]_vars
  BY ForwardStep
<1> QED
  BY <1>1, <1>2, SalesAlways, PTL
  DEF ContractsSpec, NothingGoesBack, TerminalIsFinal, QuotesGoForward

-----------------------------------------------------------------------------
(* Credit balances.                                                        *)

\* A request applies no more than the balance it read; and where no two
\* requests read one credit, the balance it read is the balance there is.
AskIsBacked ==
    \A k \in Finance : asking[k].credit # NoCredit => asking[k].aplicar <= asking[k].saldo

Unraced(c) ==
    /\ used[c].times <= 1 /\ balance[c] + used[c].amount = Original[c]
    /\ \A j, k \in Finance : asking[j].credit = c /\ asking[k].credit = c => j = k
    /\ \A k \in Finance : asking[k].credit = c => asking[k].saldo = balance[c] /\ used[c].times = 0

CreditsSafe == CreditsTypeOK /\ AskIsBacked /\ \A c \in Credit \ raced : Unraced(c)

\* No request of the finance staff breaks the invariant of the credits.
LEMMA CreditsStep == CreditsSafe /\ [CreditsNext]_creditVars => CreditsSafe'
<1> SUFFICES ASSUME CreditsSafe, [CreditsNext]_creditVars PROVE CreditsSafe'
  OBVIOUS
<1> USE CreditsAssumption
<1>0. CreditsTypeOK /\ AskIsBacked /\ \A c \in Credit \ raced : Unraced(c)
  BY DEF CreditsSafe
<1>1. ASSUME NEW k \in Finance, NEW c \in Credit, ApplyLoad(k, c) PROVE CreditsSafe'
  <2>1. PICK m \in Montos :
          asking' = [asking EXCEPT ![k] =
                       [credit |-> c, saldo |-> balance[c], aplicar |-> Smaller(m, balance[c])]]
    BY <1>1 DEF ApplyLoad
  <2>2. /\ Smaller(m, balance[c]) \in Nat /\ Smaller(m, balance[c]) <= balance[c]
        /\ balance[c] \in Nat
    BY <1>0 DEF Smaller, CreditsTypeOK
  <2>3. CreditsTypeOK'
    BY <1>0, <1>1, <2>1, <2>2 DEF ApplyLoad, CreditsTypeOK
  <2>4. AskIsBacked'
    BY <1>0, <1>1, <2>1, <2>2 DEF ApplyLoad, AskIsBacked, CreditsTypeOK
  <2>5. ASSUME NEW e \in Credit \ raced' PROVE Unraced(e)'
    <3>1. Unraced(e) /\ UNCHANGED <<balance, used>> /\ asking[k].credit # e
      BY <1>0, <1>1 DEF ApplyLoad, NoAsk
    <3>2. e = c => used[c].times = 0 /\ \A j \in Finance : asking[j].credit # c
      BY <1>1 DEF ApplyLoad
    <3> QED
      BY <1>0, <2>1, <3>1, <3>2 DEF Unraced, CreditsTypeOK
  <2> QED
    BY <2>3, <2>4, <2>5 DEF CreditsSafe
<1>2. ASSUME NEW k \in Finance, ApplyCommit(k) PROVE CreditsSafe'
  <2> DEFINE c == asking[k].credit
  <2>1. /\ c \in Credit /\ raced' = raced
        /\ asking[k].saldo \in Nat /\ asking[k].aplicar \in Nat
        /\ asking[k].saldo - asking[k].aplicar \in Nat
    BY <1>0, <1>2 DEF ApplyCommit, CreditsTypeOK, AskIsBacked
  <2>2. /\ \A e \in Credit : balance'[e] = IF e = c THEN asking[k].saldo - asking[k].aplicar
                                          ELSE balance[e]
        /\ \A e \in Credit : used'[e] = IF e = c THEN [times |-> used[c].times + 1,
                                                     amount |-> used[c].amount + asking[k].aplicar]
                                       ELSE used[e]
        /\ \A j \in Finance : asking'[j] = IF j = k THEN NoAsk ELSE asking[j]
    BY <1>0, <1>2 DEF ApplyCommit, CreditsTypeOK
  <2>3. CreditsTypeOK'
    BY <1>0, <1>2, <2>1 DEF ApplyCommit, CreditsTypeOK, NoAsk
  <2>4. AskIsBacked'
    BY <1>0, <2>2 DEF AskIsBacked, NoAsk
  <2>5. ASSUME NEW e \in Credit \ raced' PROVE Unraced(e)'
    <3>1. Unraced(e) /\ NoAsk.credit # e
      BY <1>0, <2>1 DEF NoAsk
    <3>2. CASE e = c
      <4>1. /\ asking[k].saldo = balance[e] /\ used[e].times = 0
            /\ \A j \in Finance : asking'[j].credit # e
        BY <2>2, <3>1, <3>2 DEF Unraced
      <4>2. used'[e].times = 1 /\ balance'[e] + used'[e].amount = Original[e]
        <5>1. /\ used[e].amount \in Nat /\ balance[e] \in Nat
              /\ balance[e] + used[e].amount = Original[e]
          BY <1>0, <3>1 DEF Unraced, CreditsTypeOK
        <5> QED
          BY <2>1, <2>2, <3>2, <4>1, <5>1
      <4> QED
        BY <4>1, <4>2 DEF Unraced
    <3>3. CASE e # c
      BY <2>2, <3>1, <3>3 DEF Unraced
    <3> QED
      BY <3>2, <3>3
  <2> QED
    BY <2>3, <2>4, <2>5 DEF CreditsSafe
<1>3. CASE UNCHANGED creditVars
  BY <1>3 DEF creditVars, CreditsSafe, CreditsTypeOK, AskIsBacked, Unraced
<1> QED
  BY <1>1, <1>2, <1>3 DEF CreditsNext

\* A credit is applied once and no money is made or lost, for any number of
\* credits and requests, unless two of them read one credit at the same time.
THEOREM CreditsAlways == CreditsSpec => []CreditsInv
<1>1. CreditsInit => CreditsSafe
  <2> SUFFICES ASSUME CreditsInit PROVE CreditsSafe
    OBVIOUS
  <2> USE CreditsAssumption DEF CreditsInit, NoAsk
  <2>1. CreditsTypeOK
    BY DEF CreditsTypeOK
  <2>2. \A c \in Credit : Unraced(c)
    BY DEF Unraced
  <2> QED
    BY <2>1, <2>2 DEF CreditsSafe, AskIsBacked
<1>2. CreditsSafe => CreditsInv
  BY DEF CreditsSafe, CreditsInv, CreditConserved, Unraced
<1> QED
  BY <1>1, <1>2, CreditsStep, PTL DEF CreditsSpec

-----------------------------------------------------------------------------
(* Reminders.                                                              *)

Turns == [at : {"idle"}]
         \cup [at : {"loop"}, left : SUBSET Booked]
         \cup [at : {"log"}, left : SUBSET Booked, of : Booked, alone : BOOLEAN]
         \cup [at : {"send"}, left : SUBSET Booked, of : Booked]

\* Runs that have logged a reservation and not queued its e-mail yet.
Sending(r) == {w \in Worker : turn[w].at = "send" /\ turn[w].of = r}

RemindersTypes ==
    /\ near \subseteq Booked /\ doubled \subseteq Booked /\ lost \subseteq Booked
    /\ turn \in [Worker -> Turns]
    /\ logs \in [Booked -> Nat] /\ mails \in [Booked -> Nat] /\ received \in [Booked -> Nat]

\* Every e-mail, queued, sent or about to be queued, has its row.
Accounted(r) ==
    /\ IsFiniteSet(Sending(r))
    /\ Cardinality(Sending(r)) + mails[r] + received[r] <= logs[r]

\* The first of two runs that are about to log one reservation marks the other.
Marked(r) ==
    /\ r \notin doubled => logs[r] <= 1
    /\ \A w \in Worker : turn[w].at = "log" /\ turn[w].of = r /\ turn[w].alone => logs[r] = 0

RemindersSafe == RemindersTypes /\ \A r \in Booked : Accounted(r) /\ Marked(r)

\* No step of the reminder task breaks its types.
LEMMA RemindersTypesStep ==
    RemindersTypes /\ [RemindersNext]_reminderVars => RemindersTypes'
<1> SUFFICES ASSUME RemindersTypes, [RemindersNext]_reminderVars PROVE RemindersTypes'
  OBVIOUS
<1> USE DEF RemindersTypes
<1>1. ASSUME NEW w \in Worker, Begin(w) PROVE RemindersTypes'
  BY <1>1 DEF Begin, Turns
<1>2. ASSUME NEW w \in Worker, NEW r \in Booked, Look(w, r) PROVE RemindersTypes'
  <2>1. turn[w] \in [at : {"loop"}, left : SUBSET Booked]
    BY <1>2 DEF Look, Turns
  <2> DEFINE skip == [turn[w] EXCEPT !.left = turn[w].left \ {r}]
             take == [at |-> "log", left |-> turn[w].left \ {r}, of |-> r, alone |-> TRUE]
  <2>2. skip \in Turns /\ take \in Turns
    BY <2>1 DEF Turns
  <2>3. turn' = [turn EXCEPT ![w] = IF Reminded(r) THEN skip ELSE take]
    BY <1>2 DEF Look
  <2> HIDE DEF skip, take
  <2>4. turn' \in [Worker -> Turns]
    BY <2>2, <2>3
  <2> QED
    BY <1>2, <2>4 DEF Look
<1>3. ASSUME NEW w \in Worker, Log(w) PROVE RemindersTypes'
  <2>1. turn[w] \in [at : {"log"}, left : SUBSET Booked, of : Booked, alone : BOOLEAN]
    BY <1>3 DEF Log, Turns
  <2>2. [at |-> "send", left |-> turn[w].left, of |-> turn[w].of] \in Turns
    BY <2>1 DEF Turns
  <2>3. ASSUME NEW v \in Worker, turn[v].at = "log"
        PROVE  [turn[v] EXCEPT !.alone = FALSE] \in Turns
    <3>1. turn[v] \in [at : {"log"}, left : SUBSET Booked, of : Booked, alone : BOOLEAN]
      BY <2>3 DEF Turns
    <3> QED
      BY <3>1 DEF Turns
  <2>4. turn' \in [Worker -> Turns]
    BY <1>3, <2>2, <2>3 DEF Log
  <2> QED
    BY <1>3, <2>1, <2>4 DEF Log
<1>4. ASSUME NEW w \in Worker, Send(w) PROVE RemindersTypes'
  <2>1. turn[w] \in [at : {"send"}, left : SUBSET Booked, of : Booked]
    BY <1>4 DEF Send, Turns
  <2>2. [at |-> "loop", left |-> turn[w].left] \in Turns
    BY <2>1 DEF Turns
  <2> QED
    BY <1>4, <2>1, <2>2 DEF Send
<1>5. ASSUME NEW w \in Worker, End(w) PROVE RemindersTypes'
  BY <1>5 DEF End, NoTurn, Turns
<1>6. ASSUME NEW w \in Worker, Killed(w) PROVE RemindersTypes'
  <2>1. turn[w].at = "send" => turn[w].of \in Booked
    BY DEF Turns
  <2>2. NoTurn \in Turns
    BY DEF NoTurn, Turns
  <2>3. lost' \subseteq Booked
    BY <1>6, <2>1 DEF Killed
  <2> QED
    BY <1>6, <2>2, <2>3 DEF Killed
<1>7. ASSUME NEW r \in Booked, Pass(r) PROVE RemindersTypes'
  BY <1>7 DEF Pass
<1>8. ASSUME NEW r \in Booked, NEW fails \in BOOLEAN, Mail(r, fails) PROVE RemindersTypes'
  BY <1>8 DEF Mail
<1>9. CASE UNCHANGED reminderVars
  BY <1>9 DEF reminderVars
<1> QED
  BY <1>1, <1>2, <1>3, <1>4, <1>5, <1>6, <1>7, <1>8, <1>9 DEF RemindersNext, Work

\* A turn that ends, or a step of another sort, takes runs out of Sending.
LEMMA AccountedFrame ==
    ASSUME RemindersTypes, RemindersTypes', NEW r \in Booked, Accounted(r),
           NEW w, Sending(r)' = Sending(r) \/ Sending(r)' = Sending(r) \ {w},
           logs'[r] = logs[r],
           \/ mails'[r] + received'[r] <= mails[r] + received[r]
           \/ /\ w \in Sending(r) /\ Sending(r)' = Sending(r) \ {w}
              /\ mails'[r] + received'[r] = mails[r] + received[r] + 1
    PROVE  Accounted(r)'
<1>1. /\ IsFiniteSet(Sending(r)) /\ Cardinality(Sending(r)) \in Nat
      /\ Cardinality(Sending(r)) + mails[r] + received[r] <= logs[r]
  BY FS_CardinalityType DEF Accounted
<1>2. /\ IsFiniteSet(Sending(r) \ {w})
      /\ Cardinality(Sending(r) \ {w}) =
           IF w \in Sending(r) THEN Cardinality(Sending(r)) - 1 ELSE Cardinality(Sending(r))
  BY <1>1, FS_RemoveElement
<1>3. /\ mails[r] \in Nat /\ received[r] \in Nat /\ logs[r] \in Nat
      /\ mails'[r] \in Nat /\ received'[r] \in Nat
  BY DEF RemindersTypes
<1> DEFINE S == Sending(r)
           T == Sending(r)'
<1>4. IsFiniteSet(T) /\ Cardinality(T) \in Nat
  BY <1>1, <1>2, FS_CardinalityType
<1>5. Cardinality(T) = Cardinality(S) \/ (w \in S /\ Cardinality(T) = Cardinality(S) - 1)
  BY <1>2
<1>6. w \in S /\ T = S \ {w} => Cardinality(T) = Cardinality(S) - 1
  BY <1>2
<1>7. Cardinality(T) + mails'[r] + received'[r] <= logs'[r]
  <2> HIDE DEF S, T
  <2>1. Cardinality(S) \in Nat /\ Cardinality(S) + mails[r] + received[r] <= logs[r]
    BY <1>1 DEF S
  <2>2. \/ mails'[r] + received'[r] <= mails[r] + received[r]
        \/ Cardinality(T) = Cardinality(S) - 1 /\ mails'[r] + received'[r] = mails[r] + received[r] + 1
    BY <1>6 DEF S, T
  <2> QED
    BY <1>3, <1>4, <1>5, <2>1, <2>2
<1> QED
  BY <1>4, <1>7 DEF Accounted

\* Every e-mail, about to be queued, queued or sent, keeps a log row of its own.
LEMMA AccountedStep ==
    ASSUME RemindersSafe, RemindersTypes', [RemindersNext]_reminderVars, NEW r \in Booked
    PROVE  Accounted(r)'
<1>0. RemindersTypes /\ Accounted(r)
  BY DEF RemindersSafe
<1>1. ASSUME NEW w \in Worker, Begin(w) PROVE Accounted(r)'
  <2>1. Sending(r)' = Sending(r)
    BY <1>0, <1>1 DEF Begin, Sending, NoTurn, RemindersTypes
  <2> QED
    BY <1>0, <1>1, <2>1, AccountedFrame DEF Begin, RemindersTypes
<1>2. ASSUME NEW w \in Worker, NEW e \in Booked, Look(w, e) PROVE Accounted(r)'
  <2>0. turn[w] \in [at : {"loop"}, left : SUBSET Booked]
    BY <1>0, <1>2 DEF Look, Turns, RemindersTypes
  <2>1. turn'[w].at # "send" /\ turn[w].at # "send" /\ \A v \in Worker \ {w} : turn'[v] = turn[v]
    BY <1>0, <1>2, <2>0 DEF Look, RemindersTypes
  <2>2. Sending(r)' = Sending(r)
    BY <2>1 DEF Sending
  <2> QED
    BY <1>0, <1>2, <2>2, AccountedFrame DEF Look, RemindersTypes
<1>3. ASSUME NEW w \in Worker, Log(w) PROVE Accounted(r)'
  <2>0. \A v \in Worker \ {w} :
           \/ turn'[v] = turn[v]
           \/ turn[v].at = "log" /\ turn'[v].at = "log"
    <3>1. ASSUME NEW v \in Worker, turn[v].at = "log"
          PROVE  [turn[v] EXCEPT !.alone = FALSE].at = "log"
      <4>1. turn[v] \in [at : {"log"}, left : SUBSET Booked, of : Booked, alone : BOOLEAN]
        BY <1>0, <3>1 DEF Turns, RemindersTypes
      <4> QED
        BY <4>1
    <3> QED
      BY <1>3, <3>1 DEF Log
  <2>1. /\ turn[w].at = "log" /\ turn'[w].at = "send" /\ turn'[w].of = turn[w].of
        /\ turn[w].of \in Booked
    <3>1. turn[w] \in [at : {"log"}, left : SUBSET Booked, of : Booked, alone : BOOLEAN]
      BY <1>0, <1>3 DEF Log, Turns, RemindersTypes
    <3> QED
      BY <1>3, <3>1 DEF Log
  <2>2. CASE turn[w].of = r
    <3>1. Sending(r)' = Sending(r) \cup {w} /\ w \notin Sending(r)
      BY <2>0, <2>1, <2>2 DEF Sending
    <3>2. /\ IsFiniteSet(Sending(r)) /\ Cardinality(Sending(r)) \in Nat
          /\ Cardinality(Sending(r)) + mails[r] + received[r] <= logs[r]
      BY <1>0, FS_CardinalityType DEF Accounted
    <3>3. IsFiniteSet(Sending(r)') /\ Cardinality(Sending(r)') = Cardinality(Sending(r)) + 1
      BY <3>1, <3>2, FS_AddElement
    <3>4. /\ logs'[r] = logs[r] + 1 /\ mails'[r] = mails[r] /\ received'[r] = received[r]
          /\ mails[r] \in Nat /\ received[r] \in Nat /\ logs[r] \in Nat
      BY <1>0, <1>3, <2>2 DEF Log, RemindersTypes
    <3> QED
      BY <3>2, <3>3, <3>4 DEF Accounted
  <2>3. CASE turn[w].of # r
    <3>1. Sending(r)' = Sending(r)
      BY <2>0, <2>1, <2>3 DEF Sending
    <3>2. logs'[r] = logs[r] /\ mails' = mails /\ received' = received
      BY <1>0, <1>3, <2>1, <2>3 DEF Log, RemindersTypes
    <3> QED
      BY <1>0, <3>1, <3>2, AccountedFrame DEF RemindersTypes
  <2> QED
    BY <2>2, <2>3
<1>4. ASSUME NEW w \in Worker, Send(w) PROVE Accounted(r)'
  <2>0. turn[w] \in [at : {"send"}, left : SUBSET Booked, of : Booked]
    BY <1>0, <1>4 DEF Send, Turns, RemindersTypes
  <2>1. turn'[w].at = "loop" /\ \A v \in Worker \ {w} : turn'[v] = turn[v]
    BY <1>0, <1>4 DEF Send, RemindersTypes
  <2>2. Sending(r)' = Sending(r) \ {w} /\ (turn[w].of = r => w \in Sending(r))
    BY <2>0, <2>1 DEF Sending
  <2>3. /\ logs' = logs /\ received' = received
        /\ mails'[r] = IF turn[w].of = r THEN mails[r] + 1 ELSE mails[r]
        /\ mails[r] \in Nat /\ received[r] \in Nat
    BY <1>0, <1>4, <2>0 DEF Send, RemindersTypes
  <2>4. \/ mails'[r] + received'[r] <= mails[r] + received[r]
        \/ turn[w].of = r /\ mails'[r] + received'[r] = mails[r] + received[r] + 1
    BY <2>3
  <2> QED
    BY <1>0, <2>2, <2>3, <2>4, AccountedFrame
<1>5. ASSUME NEW w \in Worker, End(w) \/ Killed(w) PROVE Accounted(r)'
  <2>1. turn' = [turn EXCEPT ![w] = NoTurn] /\ logs' = logs /\ mails' = mails /\ received' = received
    BY <1>5 DEF End, Killed
  <2>2. Sending(r)' = Sending(r) \ {w}
    BY <1>0, <2>1 DEF Sending, NoTurn, RemindersTypes
  <2> QED
    BY <1>0, <2>1, <2>2, AccountedFrame DEF RemindersTypes
<1>6. ASSUME NEW e \in Booked, NEW fails \in BOOLEAN, Mail(e, fails) PROVE Accounted(r)'
  <2>1. Sending(r)' = Sending(r) /\ logs' = logs
    BY <1>6 DEF Mail, Sending
  <2>2. mails'[r] + received'[r] <= mails[r] + received[r]
    BY <1>0, <1>6 DEF Mail, RemindersTypes
  <2> QED
    BY <1>0, <2>1, <2>2, AccountedFrame
<1>7. CASE UNCHANGED <<logs, turn, mails, received>>
  BY <1>0, <1>7 DEF Accounted, Sending
<1> QED
  BY <1>1, <1>2, <1>3, <1>4, <1>5, <1>6, <1>7 DEF RemindersNext, Work, Pass, reminderVars

\* A reservation gets a second log row only from runs that met.
LEMMA MarkedStep ==
    ASSUME RemindersSafe, RemindersTypes', [RemindersNext]_reminderVars, NEW r \in Booked
    PROVE  Marked(r)'
<1>0. RemindersTypes /\ Marked(r) /\ logs[r] \in Nat
  BY DEF RemindersSafe, RemindersTypes
<1>1. ASSUME NEW w \in Worker, NEW e \in Booked, Look(w, e) PROVE Marked(r)'
  <2>0. turn[w] \in [at : {"loop"}, left : SUBSET Booked]
    BY <1>0, <1>1 DEF Look, Turns, RemindersTypes
  <2>1. \/ turn'[w].at = "loop"
        \/ turn'[w].of = e /\ logs[e] = 0
    BY <1>0, <1>1, <2>0 DEF Look, Reminded, RemindersTypes
  <2>2. UNCHANGED <<logs, doubled>> /\ \A v \in Worker \ {w} : turn'[v] = turn[v]
    BY <1>0, <1>1 DEF Look, RemindersTypes
  <2> QED
    BY <1>0, <2>1, <2>2 DEF Marked
<1>2. ASSUME NEW w \in Worker, Log(w) PROVE Marked(r)'
  <2>0. turn[w] \in [at : {"log"}, left : SUBSET Booked, of : Booked, alone : BOOLEAN]
    BY <1>0, <1>2 DEF Log, Turns, RemindersTypes
  <2>1. turn'[w].at = "send"
    BY <1>2 DEF Log
  <2>2. CASE turn[w].of = r
    <3>1. logs'[r] = logs[r] + 1 /\ (r \notin doubled' => turn[w].alone)
      BY <1>0, <1>2, <2>0, <2>2 DEF Log, RemindersTypes
    <3>2. r \notin doubled' => logs[r] = 0
      BY <1>0, <2>0, <2>2, <3>1 DEF Marked
    <3>3. ASSUME NEW v \in Worker, turn'[v].at = "log", turn'[v].of = r PROVE ~ turn'[v].alone
      <4>1. v # w
        BY <2>1, <3>3
      <4>2. CASE turn[v].at = "log" /\ turn[v].of = r
        <5>1. turn[v] \in [at : {"log"}, left : SUBSET Booked, of : Booked, alone : BOOLEAN]
          BY <1>0, <4>2 DEF Turns, RemindersTypes
        <5>2. turn'[v] = [turn[v] EXCEPT !.alone = FALSE]
          BY <1>2, <2>2, <4>1, <4>2 DEF Log
        <5> QED
          BY <5>1, <5>2
      <4>3. CASE ~ (turn[v].at = "log" /\ turn[v].of = r)
        BY <1>2, <2>2, <3>3, <4>1, <4>3 DEF Log
      <4> QED
        BY <4>2, <4>3
    <3> QED
      BY <1>0, <3>1, <3>2, <3>3 DEF Marked
  <2>3. CASE turn[w].of # r
    <3>1. logs'[r] = logs[r] /\ (r \in doubled => r \in doubled')
      BY <1>0, <1>2, <2>0, <2>3 DEF Log, RemindersTypes
    <3>2. ASSUME NEW v \in Worker, turn'[v].at = "log", turn'[v].of = r PROVE turn'[v] = turn[v]
      <4>1. v # w
        BY <2>1, <3>2
      <4>2. CASE turn[v].at = "log" /\ turn[v].of = turn[w].of
        <5>1. turn[v] \in [at : {"log"}, left : SUBSET Booked, of : Booked, alone : BOOLEAN]
          BY <1>0, <4>2 DEF Turns, RemindersTypes
        <5>2. turn'[v] = [turn[v] EXCEPT !.alone = FALSE]
          BY <1>2, <4>1, <4>2 DEF Log
        <5> QED
          BY <2>3, <3>2, <4>2, <5>1, <5>2
      <4>3. CASE ~ (turn[v].at = "log" /\ turn[v].of = turn[w].of)
        BY <1>2, <4>1, <4>3 DEF Log
      <4> QED
        BY <4>2, <4>3
    <3> QED
      BY <1>0, <3>1, <3>2 DEF Marked
  <2> QED
    BY <2>2, <2>3
<1>3. ASSUME NEW w \in Worker, Begin(w) \/ Send(w) \/ End(w) \/ Killed(w) PROVE Marked(r)'
  <2>1. UNCHANGED <<logs, doubled>>
    BY <1>3 DEF Begin, Send, End, Killed
  <2>2. turn'[w].at # "log" /\ \A v \in Worker \ {w} : turn'[v] = turn[v]
    BY <1>0, <1>3 DEF Begin, Send, End, Killed, NoTurn, RemindersTypes
  <2> QED
    BY <1>0, <2>1, <2>2 DEF Marked
<1>4. CASE UNCHANGED <<logs, turn, doubled>>
  BY <1>0, <1>4 DEF Marked
<1> QED
  BY <1>1, <1>2, <1>3, <1>4 DEF RemindersNext, Work, Pass, Mail, reminderVars

\* No customer is reminded twice but by runs that overlapped, and every e-mail
\* has its row, for any number of runs, kills and failures.
THEOREM RemindersAlways == RemindersSpec => []RemindersInv
<1>1. RemindersInit => RemindersSafe
  <2> SUFFICES ASSUME RemindersInit PROVE RemindersSafe
    OBVIOUS
  <2>1. RemindersTypes
    BY DEF RemindersInit, RemindersTypes, NoTurn, Turns
  <2>2. \A r \in Booked : Sending(r) = {}
    BY DEF RemindersInit, Sending, NoTurn
  <2>3. \A r \in Booked : Accounted(r)
    BY <2>2, FS_EmptySet DEF RemindersInit, Accounted
  <2>4. \A r \in Booked : Marked(r)
    BY DEF RemindersInit, Marked, NoTurn
  <2> QED
    BY <2>1, <2>3, <2>4 DEF RemindersSafe
<1>2. RemindersSafe /\ [RemindersNext]_reminderVars => RemindersSafe'
  <2> SUFFICES ASSUME RemindersSafe, [RemindersNext]_reminderVars PROVE RemindersSafe'
    OBVIOUS
  <2>1. RemindersTypes'
    BY RemindersTypesStep DEF RemindersSafe
  <2>2. \A r \in Booked : Accounted(r)' /\ Marked(r)'
    BY <2>1, AccountedStep, MarkedStep
  <2> QED
    BY <2>1, <2>2 DEF RemindersSafe
<1>3. RemindersSafe => RemindersInv
  <2> SUFFICES ASSUME RemindersSafe PROVE RemindersInv
    OBVIOUS
  <2>1. ASSUME NEW r \in Booked
        PROVE  /\ mails[r] >= 0 /\ mails[r] + received[r] <= logs[r]
               /\ received[r] > 1 => r \in doubled
    <3>1. /\ mails[r] \in Nat /\ received[r] \in Nat /\ logs[r] \in Nat
          /\ Accounted(r) /\ Marked(r)
      BY DEF RemindersSafe, RemindersTypes
    <3>2. Cardinality(Sending(r)) \in Nat
      BY <3>1, FS_CardinalityType DEF Accounted
    <3> QED
      BY <3>1, <3>2 DEF Accounted, Marked
  <2>2. \A w \in Worker : turn[w].at \in {"idle", "loop", "log", "send"}
    BY DEF RemindersSafe, RemindersTypes, Turns
  <2> QED
    BY <2>1, <2>2 DEF RemindersSafe, RemindersTypes, RemindersInv, RemindersTypeOK, RemindedOnce
<1> QED
  BY <1>1, <1>2, <1>3, PTL DEF RemindersSpec

=============================================================================
