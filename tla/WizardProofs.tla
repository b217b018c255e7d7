--------------------------- MODULE WizardProofs ----------------------------
(***************************************************************************)
(* Theorems about the quote wizard and the Portal gate, for any number of  *)
(* requests, slots, documents and retries.                                 *)
(***************************************************************************)
EXTENDS Wizard, FiniteSetTheorems, TLAPS

-----------------------------------------------------------------------------
(* The Portal gate.                                                        *)

\* Each attempt sends once, and once more after an expired timestamp; a
\* verdict is what was heard last.
CallSafe(p) ==
    /\ p.verdict = "asking" =>
         /\ p.sends <= 2 * (p.attempt - 1) + (IF p.refired THEN 1 ELSE 0)
         /\ p.heard \in Retried \cup {"expired", "nothing"}
    /\ p.verdict # "asking" =>
         /\ p.sends <= 2 * Attempts
         /\ p.heard \in Reply /\ p.verdict = Resolve(p.heard)

PortalSafe == PortalTypeOK /\ \A q \in Request : CallSafe(portal[q])

Call == [attempt : 1..Attempts, refired : BOOLEAN, sends : Nat,
         heard : Reply \cup {"nothing"}, verdict : Verdict \cup {"asking"}]

\* However it is configured, Portal is asked one to five times.
LEMMA AttemptsType == Attempts \in 1..5
  BY PortalGateAssumption DEF Attempts

\* Every reply of Portal is read as one of the documented verdicts.
LEMMA ResolveType == \A r \in Reply : Resolve(r) \in Verdict
  BY DEF Reply, Retried, Resolve, Verdict

\* A reply keeps the count of what was sent, and ends a call only with the
\* verdict that Portal gave (portal_gate/client.py).
LEMMA AfterSafe ==
    ASSUME NEW p \in Call, CallSafe(p), p.verdict = "asking", NEW r \in Reply
    PROVE  After(p, r) \in Call /\ CallSafe(After(p, r))
<1> DEFINE sent == [p EXCEPT !.sends = p.sends + 1, !.heard = r]
           again == [sent EXCEPT !.refired = TRUE]
           next == [sent EXCEPT !.attempt = p.attempt + 1, !.refired = FALSE]
           done == [sent EXCEPT !.verdict = Resolve(r)]
<1>0. /\ p.attempt \in 1..Attempts /\ p.refired \in BOOLEAN /\ p.sends \in Nat
      /\ p.sends <= 2 * (p.attempt - 1) + (IF p.refired THEN 1 ELSE 0)
      /\ Attempts \in 1..5
  BY AttemptsType DEF Call, CallSafe
<1>1. /\ sent \in Call /\ sent.sends = p.sends + 1 /\ sent.heard = r
      /\ sent.attempt = p.attempt /\ sent.refired = p.refired /\ sent.verdict = "asking"
  <2>1. p.sends + 1 \in Nat /\ r \in Reply \cup {"nothing"}
    BY <1>0
  <2> QED
    BY <2>1 DEF Call
<1> HIDE DEF sent
<1>2. CASE r = "expired" /\ ~ p.refired
  <2>1. After(p, r) = again
    BY <1>2 DEF After, sent
  <2>2. /\ again \in Call /\ again.sends = p.sends + 1 /\ again.heard = r
        /\ again.attempt = p.attempt /\ again.refired = TRUE /\ again.verdict = "asking"
    BY <1>1 DEF Call
  <2> HIDE DEF again
  <2>3. CallSafe(again)
    BY <1>0, <1>2, <2>2 DEF CallSafe
  <2> QED
    BY <2>1, <2>2, <2>3
<1>3. CASE r \in Retried /\ p.attempt < Attempts
  <2>1. After(p, r) = next
    BY <1>3 DEF After, sent, Retried
  <2>2. /\ next \in Call /\ next.sends = p.sends + 1 /\ next.heard = r
        /\ next.attempt = p.attempt + 1 /\ next.refired = FALSE /\ next.verdict = "asking"
    <3>1. p.attempt + 1 \in 1..Attempts
      BY <1>0, <1>3
    <3> QED
      BY <1>1, <3>1 DEF Call
  <2> HIDE DEF next
  <2>3. next.sends <= 2 * (next.attempt - 1) + (IF next.refired THEN 1 ELSE 0)
    <3>1. p.sends <= 2 * (p.attempt - 1) + 1 /\ p.attempt \in Nat /\ p.sends \in Nat
      BY <1>0
    <3>2. p.sends + 1 <= 2 * ((p.attempt + 1) - 1)
      BY <3>1
    <3>3. (IF next.refired THEN 1 ELSE 0) = 0
      BY <2>2
    <3> QED
      BY <2>2, <3>1, <3>2, <3>3
  <2>4. CallSafe(next)
    BY <1>3, <2>2, <2>3 DEF CallSafe
  <2> QED
    BY <2>1, <2>2, <2>4
<1>4. CASE ~ (r = "expired" /\ ~ p.refired) /\ ~ (r \in Retried /\ p.attempt < Attempts)
  <2>1. After(p, r) = done
    BY <1>4 DEF After, sent
  <2>2. /\ done \in Call /\ done.sends = p.sends + 1 /\ done.heard = r
        /\ done.verdict = Resolve(r) /\ done.verdict # "asking"
    BY <1>1, ResolveType DEF Call, Verdict
  <2> HIDE DEF done
  <2>3. CallSafe(done)
    BY <1>0, <2>2 DEF CallSafe
  <2> QED
    BY <2>1, <2>2, <2>3
<1> QED
  BY <1>2, <1>3, <1>4

\* No step gives a folio a verdict that Portal did not give.
LEMMA PortalStep == PortalSafe /\ [WizardNext]_vars => PortalSafe'
<1> SUFFICES ASSUME PortalSafe, [WizardNext]_vars PROVE PortalSafe'
  OBVIOUS
<1>0. portal \in [Request -> Call] /\ \A q \in Request : CallSafe(portal[q])
  BY DEF PortalSafe, PortalTypeOK, Call
<1>1. ASSUME NEW q \in Request, AskPortal(q) PROVE PortalSafe'
  <2>1. PICK r \in Reply : portal' = [portal EXCEPT ![q] = After(portal[q], r)]
    BY <1>1 DEF AskPortal, Exchange
  <2>2. After(portal[q], r) \in Call /\ CallSafe(After(portal[q], r))
    BY <1>0, <1>1, AfterSafe DEF AskPortal, Exchange, Asking
  <2> QED
    BY <1>0, <2>1, <2>2 DEF PortalSafe, PortalTypeOK, Call
<1>2. ASSUME NEW q \in Request, PortalSettles(q) PROVE PortalSafe'
  <2> DEFINE new == [portal[q] EXCEPT !.attempt = 1, !.refired = FALSE, !.sends = 0]
  <2>1. portal' = [portal EXCEPT ![q] = new] /\ portal[q].verdict # "asking"
    BY <1>2 DEF PortalSettles, Asking
  <2>2. /\ new \in Call /\ new.sends = 0
        /\ new.verdict = portal[q].verdict /\ new.heard = portal[q].heard
    <3>1. 1 \in 1..Attempts /\ portal[q] \in Call
      BY <1>0, AttemptsType
    <3> QED
      BY <3>1 DEF Call
  <2> HIDE DEF new
  <2>3. CallSafe(new)
    BY <1>0, <2>1, <2>2, AttemptsType DEF CallSafe
  <2> QED
    BY <1>0, <2>1, <2>2, <2>3 DEF PortalSafe, PortalTypeOK, Call
<1>3. CASE UNCHANGED portal
  BY <1>3 DEF PortalSafe, PortalTypeOK
<1>4. WindowPasses \/ RedisFails \/ RedisReturns \/ UNCHANGED vars => UNCHANGED portal
  BY DEF WindowPasses, RedisFails, RedisReturns, vars
<1>5. ASSUME NEW q \in Request, Arrive(q) \/ Progress(q) \/ UnexpectedError(q) \/ Kill(q)
      PROVE  AskPortal(q) \/ PortalSettles(q) \/ UNCHANGED portal
  <2>1. Arrive(q) \/ Answer(q) \/ RefreshFails(q) \/ DeadlockAbort(q) \/ UnexpectedError(q)
          \/ Kill(q) => UNCHANGED portal
    BY DEF Arrive, Answer, RefreshFails, DeadlockAbort, UnexpectedError, Kill, Rollback
  <2>2. CheckAvailability(q) \/ WriteFile(q) \/ WriteFails(q) \/ InsertQuote(q)
          => UNCHANGED portal
    BY DEF CheckAvailability, WriteFile, WriteFails, InsertQuote, Rollback
  <2>3. LoadSlot(q) \/ InsertSlot(q) \/ HoldSlots(q) => UNCHANGED portal
    BY DEF LoadSlot, InsertSlot, HoldSlots, Rollback
  <2>4. Commit(q) \/ CommitRaises(q) => UNCHANGED portal
    BY DEF Commit, CommitRaises, Committing
  <2> QED
    BY <1>5, <2>1, <2>2, <2>3, <2>4 DEF Progress
<1> QED
  BY <1>1, <1>2, <1>3, <1>4, <1>5 DEF WizardNext

\* Whatever fails and is retried, a folio is accepted or refused only on
\* Portal's word, and Portal is asked at most twice per attempt.
THEOREM PortalAlways == WizardSpec => []PortalInv
<1>1. WizardInit => PortalSafe
  BY AttemptsType DEF WizardInit, PortalInit, PortalSafe, PortalTypeOK, CallSafe
<1>2. PortalSafe => PortalInv
  <2> SUFFICES ASSUME PortalSafe PROVE PortalInv
    OBVIOUS
  <2>1. ASSUME NEW q \in Request PROVE portal[q].sends <= 2 * Attempts
    <3>1. portal[q] \in Call /\ CallSafe(portal[q])
      BY DEF PortalSafe, PortalTypeOK, Call
    <3> QED
      BY <3>1, AttemptsType DEF CallSafe, Call
  <2>2. SendsBounded
    BY <2>1 DEF PortalSafe, SendsBounded, CallSafe, Asking
  <2>3. VerdictIsPortals
    BY DEF PortalSafe, VerdictIsPortals, CallSafe, Resolve, Reply, Retried
  <2> QED
    BY <2>2, <2>3 DEF PortalSafe, PortalInv
<1> QED
  BY <1>1, <1>2, PortalStep, PTL DEF WizardSpec

-----------------------------------------------------------------------------
(* The limiter.                                                            *)

LimitSafe ==
    /\ hits \in Nat /\ passed \in Nat /\ redis \in BOOLEAN /\ outage \in BOOLEAN
    /\ ~ outage => redis /\ passed = hits /\ hits <= RateLimit

\* Only an arrival and the limiter's own steps touch the counters.
LEMMA OuterFrame ==
    ASSUME NEW q \in Request, Progress(q) \/ UnexpectedError(q) \/ Kill(q)
    PROVE  UNCHANGED outerVars
<1>1. CASE AskPortal(q) \/ PortalSettles(q)
  BY <1>1 DEF AskPortal, PortalSettles
<1>2. CASE CheckAvailability(q) \/ WriteFile(q) \/ WriteFails(q) \/ InsertQuote(q)
  BY <1>2 DEF CheckAvailability, WriteFile, WriteFails, InsertQuote, Rollback
<1>3. CASE LoadSlot(q) \/ InsertSlot(q) \/ HoldSlots(q)
  BY <1>3 DEF LoadSlot, InsertSlot, HoldSlots, Rollback
<1>5. CASE Commit(q) \/ CommitRaises(q)
  BY <1>5 DEF Commit, CommitRaises, Committing
<1>4. CASE Answer(q) \/ RefreshFails(q) \/ DeadlockAbort(q) \/ UnexpectedError(q) \/ Kill(q)
  BY <1>4 DEF Answer, RefreshFails, DeadlockAbort, UnexpectedError, Kill, Rollback
<1> QED
  BY <1>1, <1>2, <1>3, <1>4, <1>5 DEF Progress

\* No step lets a request by the limiter that it did not count, but in an outage.
LEMMA LimitStep == LimitSafe /\ [WizardNext]_vars => LimitSafe'
<1> SUFFICES ASSUME LimitSafe, [WizardNext]_vars PROVE LimitSafe'
  OBVIOUS
<1> USE WizardAssumption DEF LimitSafe
<1>1. ASSUME NEW q \in Request, Arrive(q) PROVE LimitSafe'
  <2>1. CASE redis /\ hits >= RateLimit
    BY <1>1, <2>1 DEF Arrive, outerVars
  <2>2. CASE ~ (redis /\ hits >= RateLimit)
    <3>1. /\ hits' = IF redis THEN hits + 1 ELSE hits
          /\ passed' = passed + 1 /\ UNCHANGED <<redis, outage>>
      BY <1>1, <2>2 DEF Arrive
    <3> QED
      BY <2>2, <3>1
  <2> QED
    BY <2>1, <2>2
<1>2. CASE WindowPasses
  BY <1>2 DEF WindowPasses
<1>3. CASE RedisFails
  BY <1>3 DEF RedisFails
<1>4. CASE RedisReturns
  BY <1>4 DEF RedisReturns
<1>5. CASE UNCHANGED outerVars
  BY <1>5 DEF outerVars
<1>6. CASE UNCHANGED vars
  BY <1>5, <1>6 DEF vars
<1> QED
  BY <1>1, <1>2, <1>3, <1>4, <1>5, <1>6, OuterFrame DEF WizardNext

-----------------------------------------------------------------------------
(* Where requests stand, and the folios they have quoted or are about to.  *)

Steps == InTransaction \cup {"new", "portal", "committed", "ended", "killed"}

HoldingSteps == {"inserted", "load", "insert", "lock", "held"}

Codes == {0, 200, 201, 403, 409, 422, 429, 500, 502, 503}

ControlTypes ==
    /\ form \in Forms
    /\ pc \in [Request -> Steps] /\ answer \in [Request -> Codes]
    /\ quotes \subseteq Submission /\ mailed \subseteq quotes

PlaceOf(q) ==
    /\ pc[q] \in InTransaction \cup {"committed"} => q \in Submission
    /\ pc[q] = "committed" => q \in quotes
    /\ q \in quotes => pc[q] \in {"committed", "ended", "killed"}
    /\ answer[q] = 201 => q \in quotes

\* The unique key of the folio, with the transactions that wait at it.
FoliosDiffer ==
    \A q, r \in quotes \cup Inserting : q # r => form[q].folio # form[r].folio

ControlSafe == ControlTypes /\ (\A q \in Request : PlaceOf(q)) /\ FoliosDiffer

\* What a request sends is a form; a submission has at least one slot.
LEMMA FormsTyped ==
    form \in Forms =>
        /\ \A q \in Request :
             /\ form[q].files \in Nat /\ form[q].folio \in Folio
             /\ form[q].slots \in Seq(WSlot) /\ Len(form[q].slots) \in Nat
             /\ \A i \in 1..Len(form[q].slots) : form[q].slots[i] \in WSlot
        /\ \A q \in Submission : q \in Request /\ Len(form[q].slots) >= 1
  BY WizardAssumption DEF Submission

\* A request that ends with a code other than 201, or has its quote.
LEMMA EndsControl ==
    ASSUME ControlSafe, NEW q \in Request, NEW code \in Codes, code = 201 => q \in quotes,
           Ends(q, code), UNCHANGED <<form, quotes>>, mailed' \subseteq quotes
    PROVE  ControlSafe'
<1>1. /\ \A r \in Request : pc'[r] = IF r = q THEN "ended" ELSE pc[r]
      /\ \A r \in Request : answer'[r] = IF r = q THEN code ELSE answer[r]
  BY DEF Ends, ControlSafe, ControlTypes
<1>2. ControlTypes'
  BY DEF Ends, ControlSafe, ControlTypes, Steps, Submission
<1>3. \A r \in Request : PlaceOf(r)'
  BY <1>1 DEF ControlSafe, PlaceOf, Submission, InTransaction
<1>4. FoliosDiffer'
  <2>1. Inserting' \subseteq Inserting
    BY <1>1 DEF Inserting, Submission
  <2> QED
    BY <2>1 DEF ControlSafe, FoliosDiffer
<1> QED
  BY <1>2, <1>3, <1>4 DEF ControlSafe

\* A submission that goes on within its transaction, or is killed.
LEMMA GoesControl ==
    ASSUME ControlSafe, NEW q \in Request, NEW step \in Steps,
           pc' = [pc EXCEPT ![q] = step], UNCHANGED <<answer, form, quotes, mailed>>,
           step \in InTransaction \cup {"committed"} => q \in Submission,
           step # "committed", q \in quotes => step = "killed",
           step \in HoldingSteps =>
               pc[q] \in HoldingSteps \/ SameFolio(q) \cap (quotes \cup Inserting) = {}
    PROVE  ControlSafe'
<1>1. \A r \in Request : pc'[r] = IF r = q THEN step ELSE pc[r]
  BY DEF ControlSafe, ControlTypes
<1>2. ControlTypes'
  BY DEF ControlSafe, ControlTypes, Submission
<1>3. \A r \in Request : PlaceOf(r)'
  BY <1>1 DEF ControlSafe, PlaceOf, Submission, InTransaction
<1>4. FoliosDiffer'
  <2>1. Inserting' \subseteq Inserting \cup {q} /\ (q \in Inserting' => step \in HoldingSteps)
    BY <1>1 DEF Inserting, Submission, HoldingSteps
  <2>2. CASE q \in Inserting \/ q \notin Inserting'
    BY <2>1, <2>2 DEF ControlSafe, FoliosDiffer
  <2>3. CASE q \notin Inserting /\ q \in Inserting'
    <3>1. q \in Submission /\ pc[q] \notin HoldingSteps
      BY <2>3 DEF Inserting, Submission, HoldingSteps
    <3>2. SameFolio(q) \cap (quotes \cup Inserting) = {}
      BY <2>1, <2>3, <3>1
    <3>3. \A r \in quotes \cup Inserting : r # q => form[r].folio # form[q].folio
      BY <3>2 DEF SameFolio, ControlSafe, ControlTypes, Inserting
    <3> QED
      BY <2>1, <3>3 DEF ControlSafe, FoliosDiffer
  <2> QED
    BY <2>2, <2>3
<1> QED
  BY <1>2, <1>3, <1>4 DEF ControlSafe

\* A rollback answers with an error.
LEMMA RollbackControl ==
    ASSUME ControlSafe, NEW q \in Request, NEW code \in Codes \ {201}, Rollback(q, code)
    PROVE  ControlSafe'
  BY EndsControl DEF Rollback, outerVars, ControlSafe, ControlTypes

\* No step takes a request to a place where it holds what it should not.
LEMMA ControlStep ==
    ControlSafe /\ PortalTypeOK /\ [WizardNext]_vars => ControlSafe'
<1> SUFFICES ASSUME ControlSafe, PortalTypeOK, [WizardNext]_vars PROVE ControlSafe'
  OBVIOUS
<1>0. ControlTypes /\ \A q \in Request : PlaceOf(q)
  BY DEF ControlSafe
<1>c. {0, 200, 403, 409, 422, 429, 500, 502, 503} \subseteq Codes \ {201}
  BY DEF Codes
<1>1. ASSUME NEW q \in Request, Arrive(q) PROVE ControlSafe'
  <2>1. UNCHANGED <<form, quotes, mailed>>
    BY <1>1 DEF Arrive, outerVars
  <2>2. CASE Ends(q, 429)
    BY <1>0, <1>c, <2>1, <2>2, EndsControl DEF ControlTypes
  <2>3. CASE Ends(q, 422)
    BY <1>0, <1>c, <2>1, <2>3, EndsControl DEF ControlTypes
  <2>4. CASE Goes(q, "portal")
    <3>1. q \notin quotes
      BY <1>0, <1>1 DEF Arrive, PlaceOf
    <3> QED
      BY <2>1, <2>4, <3>1, GoesControl DEF Goes, Steps, InTransaction, HoldingSteps
  <2> QED
    BY <1>1, <2>2, <2>3, <2>4 DEF Arrive
<1>2. ASSUME NEW q \in Request, AskPortal(q) PROVE ControlSafe'
  BY <1>0, <1>2
  DEF AskPortal, outerVars, requestVars, ControlSafe, ControlTypes, PlaceOf, FoliosDiffer,
      Submission, Inserting
<1>3. ASSUME NEW q \in Request, PortalSettles(q) PROVE ControlSafe'
  <2>1. UNCHANGED <<form, quotes, mailed>> /\ pc[q] = "portal"
    BY <1>3 DEF PortalSettles, outerVars
  <2>2. ASSUME NEW code \in {200, 403, 503, 502, 500}, Ends(q, code) PROVE ControlSafe'
    BY <1>0, <1>c, <2>1, <2>2, EndsControl DEF ControlTypes
  <2>3. CASE q \in Submission /\ Goes(q, "begun")
    <3>1. q \notin quotes
      BY <1>0, <2>1 DEF PlaceOf
    <3> QED
      BY <2>1, <2>3, <3>1, GoesControl DEF Goes, Steps, InTransaction, HoldingSteps
  <2>4. portal[q].verdict \in Verdict
    BY <1>3 DEF PortalSettles, Asking, PortalTypeOK
  <2>5. \/ \E code \in {200, 403, 503, 502, 500} : Ends(q, code)
        \/ q \in Submission /\ Goes(q, "begun")
    <3>1. CASE portal[q].verdict = "eligible"
      BY <1>3, <3>1 DEF PortalSettles
    <3>2. CASE portal[q].verdict = "not_eligible"
      BY <1>3, <3>2 DEF PortalSettles
    <3>3. CASE portal[q].verdict = "unavailable"
      BY <1>3, <3>3 DEF PortalSettles
    <3>4. CASE portal[q].verdict = "integration_auth_failure"
      BY <1>3, <3>4 DEF PortalSettles
    <3>5. CASE portal[q].verdict = "raised"
      BY <1>3, <3>5 DEF PortalSettles
    <3> QED
      BY <2>4, <3>1, <3>2, <3>3, <3>4, <3>5 DEF Verdict
  <2> QED
    BY <2>2, <2>3, <2>5
<1>4. ASSUME NEW q \in Request, CheckAvailability(q) PROVE ControlSafe'
  <2>1. CASE Rollback(q, 409)
    BY <1>c, <2>1, RollbackControl
  <2>2. CASE Goes(q, "checked") /\ UNCHANGED <<outerVars, quotes, mailed>>
    <3>1. q \notin quotes /\ q \in Submission
      BY <1>0, <1>4 DEF CheckAvailability, PlaceOf, InTransaction
    <3> QED
      BY <2>2, <3>1, GoesControl DEF Goes, Steps, InTransaction, HoldingSteps, outerVars
  <2> QED
    BY <1>4, <2>1, <2>2 DEF CheckAvailability
<1>5. ASSUME NEW q \in Request, WriteFile(q) PROVE ControlSafe'
  BY <1>0, <1>5
  DEF WriteFile, outerVars, requestVars, ControlSafe, ControlTypes, PlaceOf, FoliosDiffer,
      Submission, Inserting
<1>6. ASSUME NEW q \in Request, WriteFails(q) PROVE ControlSafe'
  <2>1. Ends(q, 500) /\ UNCHANGED <<form, quotes, mailed>>
    BY <1>6 DEF WriteFails, outerVars
  <2> QED
    BY <1>0, <1>c, <2>1, EndsControl DEF ControlTypes
<1>7. ASSUME NEW q \in Request, InsertQuote(q) PROVE ControlSafe'
  <2>1. CASE Rollback(q, 422) \/ Rollback(q, 409)
    BY <1>c, <2>1, RollbackControl
  <2>2. CASE /\ SameFolio(q) \cap quotes = {} /\ SameFolio(q) \cap Inserting = {}
             /\ Goes(q, "load") /\ UNCHANGED <<outerVars, quotes, mailed>>
    <3>1. q \notin quotes /\ q \in Submission
      BY <1>0, <1>7 DEF InsertQuote, PlaceOf, InTransaction
    <3>2. SameFolio(q) \cap (quotes \cup Inserting) = {}
      BY <2>2
    <3> QED
      BY <2>2, <3>1, <3>2, GoesControl DEF Goes, Steps, InTransaction, outerVars
  <2> QED
    BY <1>7, <2>1, <2>2 DEF InsertQuote
<1>8. ASSUME NEW q \in Request, LoadSlot(q) \/ InsertSlot(q) \/ HoldSlots(q)
      PROVE  ControlSafe'
  <2>1. pc[q] \in {"load", "insert", "lock"} /\ q \in Submission /\ q \notin quotes
    BY <1>0, <1>8 DEF LoadSlot, InsertSlot, HoldSlots, PlaceOf, InTransaction
  <2>2. CASE Rollback(q, 500) \/ Rollback(q, 409)
    BY <1>c, <2>2, RollbackControl
  <2>3. ASSUME NEW step \in {"load", "insert", "lock", "held"}, Goes(q, step),
               UNCHANGED <<outerVars, quotes, mailed>>
        PROVE  ControlSafe'
    BY <2>1, <2>3, GoesControl DEF Goes, Steps, InTransaction, HoldingSteps, outerVars
  <2>4. Turn(q) => Goes(q, "load") \/ Goes(q, "lock")
    BY DEF Turn
  <2> QED
    BY <1>8, <2>2, <2>3, <2>4 DEF LoadSlot, InsertSlot, HoldSlots
<1>9. ASSUME NEW q \in Request, Commit(q) \/ CommitRaises(q) PROVE ControlSafe'
  <2>1. /\ pc[q] = "held" /\ quotes' = quotes \cup {q} /\ UNCHANGED <<form, mailed>>
        /\ answer' \in [Request -> Codes] /\ \A r \in Request : answer'[r] = 201 => answer[r] = 201
    BY <1>0, <1>9, <1>c DEF Commit, CommitRaises, Committing, Goes, Ends, outerVars, ControlTypes
  <2>2. q \in Submission /\ q \in Inserting
    BY <1>0, <2>1 DEF PlaceOf, InTransaction, Inserting
  <2>3. PICK step \in {"committed", "ended"} : pc' = [pc EXCEPT ![q] = step]
    BY <1>9 DEF Commit, CommitRaises, Goes, Ends
  <2>4. ControlTypes' /\ \A r \in Request : pc'[r] = IF r = q THEN step ELSE pc[r]
    BY <1>0, <2>1, <2>2, <2>3 DEF ControlTypes, Steps, Submission
  <2>5. \A r \in Request : PlaceOf(r)'
    BY <1>0, <2>1, <2>2, <2>4 DEF PlaceOf, Submission, InTransaction
  <2>6. FoliosDiffer'
    <3>1. quotes' \cup Inserting' \subseteq quotes \cup Inserting
      BY <2>1, <2>2, <2>4 DEF Inserting, Submission
    <3> QED
      BY <2>1, <3>1 DEF ControlSafe, FoliosDiffer
  <2> QED
    BY <2>4, <2>5, <2>6 DEF ControlSafe
<1>10. ASSUME NEW q \in Request, Answer(q) \/ RefreshFails(q) PROVE ControlSafe'
  <2>1. /\ (Ends(q, 201) \/ Ends(q, 500)) /\ UNCHANGED <<form, quotes>>
        /\ mailed' \in {mailed, mailed \cup {q}} /\ q \in quotes
    BY <1>0, <1>10 DEF Answer, RefreshFails, outerVars, PlaceOf
  <2>2. mailed' \subseteq quotes /\ 201 \in Codes /\ 500 \in Codes
    BY <1>0, <2>1 DEF ControlTypes, Codes
  <2>3. UNCHANGED <<form, quotes>>
    BY <1>10 DEF Answer, RefreshFails, outerVars
  <2> QED
    BY <2>1, <2>2, <2>3, EndsControl
<1>11. ASSUME NEW q \in Request, DeadlockAbort(q) \/ UnexpectedError(q) PROVE ControlSafe'
  BY <1>c, <1>11, RollbackControl DEF DeadlockAbort, UnexpectedError
<1>12. ASSUME NEW q \in Request, Kill(q) PROVE ControlSafe'
  BY <1>12, GoesControl DEF Kill, Steps, InTransaction, HoldingSteps, outerVars
<1>13. CASE WindowPasses \/ RedisFails \/ RedisReturns \/ UNCHANGED vars
  <2>1. UNCHANGED <<form, pc, answer, quotes, mailed>>
    BY <1>13 DEF WindowPasses, RedisFails, RedisReturns, vars, outerVars, requestVars
  <2> QED
    BY <1>0, <2>1 DEF ControlSafe, ControlTypes, PlaceOf, FoliosDiffer, Submission, Inserting
<1> QED
  BY <1>1, <1>2, <1>3, <1>4, <1>5, <1>6, <1>7, <1>8, <1>9, <1>10, <1>11, <1>12, <1>13
  DEF WizardNext, Progress

-----------------------------------------------------------------------------
(* Rows: who locks them, what was loaded of them, and whom they belong to.  *)

Owner == Request \cup {Nobody}

Lockers == {"load", "insert", "lock", "held"}

RowTypes ==
    /\ saw \in [Request -> SUBSET Request]
    /\ loaded \in [Request -> [WSlot -> Owner]]
    /\ item \in [Request -> Nat \ {0}]
    /\ holder \in [WSlot -> Owner] /\ rowLock \in [WSlot -> Owner]
    /\ present \subseteq WSlot /\ FirstRows \subseteq present

ItemOf(r) ==
    /\ r \in Submission => item[r] <= Len(form[r].slots)
    /\ pc[r] \in {"new", "portal", "begun", "checked"} => item[r] = 1

\* The items of a submission whose slots it has loaded or inserted.
Handled(r) ==
    {i \in 1..Len(form[r].slots) :
        \/ pc[r] \in {"load", "insert"} /\ i < item[r]
        \/ pc[r] \in {"lock", "held"}}

\* A slot nobody had touched is either its own insert or was somebody's.
HandledOf(r) ==
    \A i \in Handled(r) : LET s == form[r].slots[i] IN
        s \in FirstRows \/ rowLock[s] = r \/ loaded[r][s] # Nobody

HeldBy(r) == pc[r] = "held" => \A s \in SlotsOf(r) : rowLock[s] = r

QuoteOf(r) ==
    r \in quotes => \A s \in SlotsOf(r) :
        /\ s \in present /\ holder[s] # Nobody
        /\ s \notin FirstRows => holder[s] = r

SawOf(r) ==
    \A q \in saw[r] : q \in quotes /\ \A s \in SlotsOf(q), u \in SlotsOf(r) : u \notin Relatives(s)

RowOf(s) ==
    /\ rowLock[s] # Nobody => pc[rowLock[s]] \in Lockers
    /\ s \notin FirstRows /\ rowLock[s] # Nobody => s \notin present
    /\ s \in present \ FirstRows => holder[s] # Nobody

RequestRows(r) == ItemOf(r) /\ HandledOf(r) /\ HeldBy(r) /\ QuoteOf(r) /\ SawOf(r)

RowSafe ==
    /\ RowTypes
    /\ \A r \in Request : RequestRows(r)
    /\ \A s \in WSlot : RowOf(s)

\* A slot is a relative of its relatives.
LEMMA RelativesSymmetric ==
    \A s, u \in WSlot : u \in Relatives(s) <=> s \in Relatives(u)
  BY WizardAssumption DEF Relatives

\* The slots of a form are slots.
LEMMA SlotsTyped ==
    form \in Forms => \A q \in Request :
        /\ SlotsOf(q) \subseteq WSlot
        /\ \A i \in 1..Len(form[q].slots) : form[q].slots[i] \in SlotsOf(q)
  BY FormsTyped DEF SlotsOf

\* They are those of the form, which nothing changes.
LEMMA SlotsKept == UNCHANGED form => \A r : SlotsOf(r)' = SlotsOf(r)
  BY DEF SlotsOf

\* A request whose rows, loads and place no step has touched.
LEMMA RowsFrame ==
    ASSUME NEW r \in Request, RequestRows(r), UNCHANGED form, quotes \subseteq quotes',
           (r \in quotes') => (r \in quotes),
           pc'[r] = pc[r], item'[r] = item[r], loaded'[r] = loaded[r], saw'[r] = saw[r],
           \A s \in SlotsOf(r) : rowLock[s] = r => rowLock'[s] = r,
           \A s \in SlotsOf(r) : s \in present => s \in present',
           \A s \in SlotsOf(r) : r \in quotes /\ holder'[s] # holder[s] =>
                                    s \in FirstRows /\ holder'[s] # Nobody,
           \A i \in 1..Len(form[r].slots) : form[r].slots[i] \in SlotsOf(r)
    PROVE  RequestRows(r)'
<1>1. SlotsOf(r)' = SlotsOf(r) /\ \A q : SlotsOf(q)' = SlotsOf(q)
  BY SlotsKept
<1>2. ItemOf(r)'
  BY DEF RequestRows, ItemOf, Submission
<1>3. HandledOf(r)'
  <2>1. Handled(r)' = Handled(r) /\ Handled(r) \subseteq 1..Len(form[r].slots)
    BY DEF Handled
  <2> QED
    BY <2>1 DEF RequestRows, HandledOf
<1>4. HeldBy(r)'
  BY <1>1 DEF RequestRows, HeldBy
<1>5. QuoteOf(r)'
  BY <1>1 DEF RequestRows, QuoteOf
<1>6. SawOf(r)'
  BY <1>1 DEF RequestRows, SawOf, Relatives
<1> QED
  BY <1>2, <1>3, <1>4, <1>5, <1>6 DEF RequestRows

\* A request that gives up, or dies, lets go of its rows.
LEMMA LeaveRows ==
    ASSUME RowSafe, form \in Forms, pc \in [Request -> Steps],
           NEW q \in Request, NEW step \in {"ended", "killed"},
           pc' = [pc EXCEPT ![q] = step], rowLock' = Unlocked(q),
           UNCHANGED <<form, saw, loaded, item, holder, present, quotes>>
    PROVE  RowSafe'
<1>1. /\ \A r \in Request : pc'[r] = IF r = q THEN step ELSE pc[r]
      /\ \A s \in WSlot : rowLock'[s] = IF rowLock[s] = q THEN Nobody ELSE rowLock[s]
  BY DEF Unlocked
<1>2. RowTypes'
  BY DEF RowSafe, RowTypes, Unlocked, Owner
<1>3. ASSUME NEW r \in Request PROVE RequestRows(r)'
  <2>1. RequestRows(r) /\ SlotsOf(r) \subseteq WSlot
        /\ \A i \in 1..Len(form[r].slots) : form[r].slots[i] \in SlotsOf(r)
    BY SlotsTyped DEF RowSafe
  <2>2. CASE r # q
    <3>1. \A s \in SlotsOf(r) : rowLock[s] = r => rowLock'[s] = r
      BY <1>1, <2>1, <2>2
    <3> QED
      BY <1>1, <2>1, <2>2, <3>1, RowsFrame
  <2>3. CASE r = q
    <3>1. pc'[r] = step
      BY <1>1, <2>3
    <3>2. ItemOf(r)' /\ HandledOf(r)' /\ HeldBy(r)'
      BY <2>1, <3>1 DEF RequestRows, ItemOf, Submission, HandledOf, Handled, HeldBy
    <3>3. QuoteOf(r)' /\ SawOf(r)'
      BY <2>1, SlotsKept DEF RequestRows, QuoteOf, SawOf, Relatives
    <3> QED
      BY <3>2, <3>3 DEF RequestRows
  <2> QED
    BY <2>2, <2>3
<1>4. ASSUME NEW s \in WSlot PROVE RowOf(s)'
  <2>1. RowOf(s) /\ rowLock[s] \in Owner
    BY DEF RowSafe, RowTypes
  <2> QED
    BY <1>1, <2>1, WizardAssumption DEF RowOf, Owner
<1> QED
  BY <1>2, <1>3, <1>4 DEF RowSafe

\* A request that goes on without touching a row.
LEMMA PassRows ==
    ASSUME RowSafe, form \in Forms, pc \in [Request -> Steps],
           NEW q \in Request,
           NEW step \in {"portal", "begun", "checked", "load", "ended"},
           pc' = [pc EXCEPT ![q] = step], pc[q] \notin Lockers,
           step # "ended" => pc[q] \in {"new", "portal", "begun", "checked"},
           UNCHANGED <<form, loaded, item, rowLock, holder, present, quotes>>,
           saw' \in [Request -> SUBSET Request], \A r \in Request : SawOf(r)'
    PROVE  RowSafe'
<1>1. \A r \in Request : pc'[r] = IF r = q THEN step ELSE pc[r]
  OBVIOUS
<1>2. RowTypes'
  BY DEF RowSafe, RowTypes
<1>3. ASSUME NEW r \in Request PROVE RequestRows(r)'
  <2>1. RequestRows(r) /\ item[r] \in Nat \ {0}
    BY DEF RowSafe, RowTypes
  <2>2. ItemOf(r)'
    BY <1>1, <2>1 DEF RequestRows, ItemOf, Submission
  <2>3. HandledOf(r)'
    <3>1. CASE r # q
      BY <1>1, <2>1, <3>1 DEF RequestRows, HandledOf, Handled
    <3>2. CASE r = q
      <4>1. step = "load" => item[r] = 1
        BY <2>1, <3>2 DEF RequestRows, ItemOf
      <4>2. Handled(r)' = {}
        BY <1>1, <2>1, <3>2, <4>1 DEF Handled
      <4> QED
        BY <4>2 DEF HandledOf
    <3> QED
      BY <3>1, <3>2
  <2>4. HeldBy(r)' /\ QuoteOf(r)'
    BY <1>1, <2>1, SlotsKept DEF RequestRows, HeldBy, QuoteOf
  <2> QED
    BY <2>2, <2>3, <2>4 DEF RequestRows
<1>4. ASSUME NEW s \in WSlot PROVE RowOf(s)'
  <2>1. RowOf(s) /\ rowLock[s] \in Owner
    BY DEF RowSafe, RowTypes
  <2> QED
    BY <1>1, <2>1 DEF RowOf, Owner, Lockers
<1> QED
  BY <1>2, <1>3, <1>4 DEF RowSafe

\* What a submission saw of the quotes stays a part of them.
LEMMA SawKept ==
    ASSUME RowSafe, UNCHANGED <<form, saw, quotes>> PROVE \A r \in Request : SawOf(r)'
  BY SlotsKept DEF RowSafe, RequestRows, SawOf, Relatives

\* The next item, or the locks: what was handled grows by the item at hand.
LEMMA TurnItem ==
    ASSUME form \in Forms, NEW q \in Submission, item \in [Request -> Nat \ {0}],
           pc \in [Request -> Steps], pc[q] \in {"load", "insert"},
           item[q] <= Len(form[q].slots), UNCHANGED form, Turn(q)
    PROVE  /\ item' \in [Request -> Nat \ {0}]
           /\ \A r \in Request : r # q => item'[r] = item[r] /\ pc'[r] = pc[r]
           /\ pc'[q] \in {"load", "lock"} /\ item'[q] <= Len(form[q].slots)
           /\ item[q] \in 1..Len(form[q].slots)
           /\ Handled(q)' = Handled(q) \cup {item[q]}
<1>1. Len(form[q].slots) \in Nat /\ q \in Request /\ item[q] \in Nat \ {0}
  BY FormsTyped DEF Submission
<1>2. CASE item[q] < Len(form[q].slots)
  <2>1. item' = [item EXCEPT ![q] = item[q] + 1] /\ pc' = [pc EXCEPT ![q] = "load"]
    BY <1>2 DEF Turn, Goes
  <2>2. item'[q] = item[q] + 1 /\ pc'[q] = "load"
    BY <1>1, <2>1
  <2>3. Handled(q)' = Handled(q) \cup {item[q]}
    BY <1>1, <1>2, <2>2 DEF Handled
  <2> QED
    BY <1>1, <1>2, <2>1, <2>2, <2>3
<1>3. CASE ~ (item[q] < Len(form[q].slots))
  <2>1. item' = item /\ pc' = [pc EXCEPT ![q] = "lock"]
    BY <1>3 DEF Turn, Goes
  <2>2. item[q] = Len(form[q].slots) /\ pc'[q] = "lock"
    BY <1>1, <1>3, <2>1
  <2>3. Handled(q)' = Handled(q) \cup {item[q]}
    BY <1>1, <2>1, <2>2 DEF Handled
  <2> QED
    BY <1>1, <2>1, <2>2, <2>3
<1> QED
  BY <1>2, <1>3

\* A submission loads the row of a slot, or finds none.
LEMMA LoadRows ==
    ASSUME RowSafe, form \in Forms, pc \in [Request -> Steps], NEW q \in Submission,
           q \notin quotes, LoadSlot(q)
    PROVE  RowSafe'
<1> DEFINE s == form[q].slots[item[q]]
<1>0. /\ q \in Request /\ RequestRows(q) /\ item[q] \in 1..Len(form[q].slots) /\ s \in WSlot
      /\ pc[q] = "load" /\ item \in [Request -> Nat \ {0}]
  BY FormsTyped DEF RowSafe, RowTypes, RequestRows, ItemOf, Submission, LoadSlot
<1> HIDE DEF s
<1>1. UNCHANGED <<form, saw, rowLock, holder, present, quotes>>
  BY DEF LoadSlot, outerVars, rowVars
<1>2. /\ \A r \in Request : r # q => pc'[r] = pc[r] /\ item'[r] = item[r] /\ loaded'[r] = loaded[r]
      /\ pc'[q] \in {"load", "insert", "lock"} /\ item' \in [Request -> Nat \ {0}]
      /\ item'[q] <= Len(form[q].slots)
      /\ loaded' \in [Request -> [WSlot -> Owner]]
      /\ HandledOf(q)'
  <2>1. CASE s \in present
    <3>1. loaded' = [loaded EXCEPT ![q] = [loaded[q] EXCEPT ![s] = holder[s]]] /\ Turn(q)
      BY <2>1 DEF LoadSlot, s
    <3>2. loaded[q] \in [WSlot -> Owner] /\ holder[s] \in Owner
          /\ loaded \in [Request -> [WSlot -> Owner]]
      BY <1>0 DEF RowSafe, RowTypes
    <3>3. /\ loaded' \in [Request -> [WSlot -> Owner]]
          /\ \A r \in Request : r # q => loaded'[r] = loaded[r]
          /\ \A t \in WSlot : loaded'[q][t] = IF t = s THEN holder[s] ELSE loaded[q][t]
      BY <1>0, <3>1, <3>2
    <3>4. Handled(q)' = Handled(q) \cup {item[q]}
      BY <1>0, <1>1, <3>1, TurnItem
    <3>5. s \in FirstRows \/ holder[s] # Nobody
      BY <1>0, <2>1 DEF RowSafe, RowOf
    <3>6. HandledOf(q)'
      <4> SUFFICES ASSUME NEW i \in Handled(q)', NEW t, t = form[q].slots[i]
                   PROVE  t \in FirstRows \/ rowLock[t] = q \/ loaded'[q][t] # Nobody
        BY <1>1 DEF HandledOf
      <4>1. t \in WSlot
        BY <1>1, FormsTyped, <1>0 DEF Handled
      <4>2. CASE t = s
        BY <3>3, <3>5, <4>1, <4>2
      <4>3. CASE t # s
        <5>1. i \in Handled(q)
          BY <3>4, <4>3 DEF s
        <5> QED
          BY <1>0, <3>3, <4>1, <4>3, <5>1 DEF RequestRows, HandledOf
      <4> QED
        BY <4>2, <4>3
    <3>7. /\ \A r \in Request : r # q => pc'[r] = pc[r] /\ item'[r] = item[r]
          /\ pc'[q] \in {"load", "lock"} /\ item' \in [Request -> Nat \ {0}]
          /\ item'[q] <= Len(form[q].slots)
      BY <1>0, <1>1, <3>1, TurnItem
    <3> QED
      BY <3>3, <3>6, <3>7
  <2>2. CASE s \notin present
    <3>1. pc' = [pc EXCEPT ![q] = "insert"] /\ UNCHANGED <<loaded, item>>
      BY <2>2 DEF LoadSlot, Goes, s
    <3>2. pc'[q] = "insert"
      BY <1>0, <3>1
    <3>3. Handled(q)' = Handled(q)
      BY <1>0, <1>1, <3>1, <3>2 DEF Handled
    <3>4. HandledOf(q)'
      BY <1>0, <1>1, <3>1, <3>3 DEF RequestRows, HandledOf
    <3>5. item[q] <= Len(form[q].slots) /\ loaded \in [Request -> [WSlot -> Owner]]
      BY <1>0 DEF RowSafe, RowTypes, RequestRows, ItemOf
    <3> QED
      BY <1>0, <3>1, <3>2, <3>4, <3>5
  <2> QED
    BY <2>1, <2>2
<1>3. RowTypes'
  BY <1>1, <1>2 DEF RowSafe, RowTypes
<1>4. ASSUME NEW r \in Request PROVE RequestRows(r)'
  <2>1. RequestRows(r) /\ \A i \in 1..Len(form[r].slots) : form[r].slots[i] \in SlotsOf(r)
    BY SlotsTyped DEF RowSafe
  <2>2. CASE r # q
    BY <1>1, <1>2, <2>1, <2>2, RowsFrame
  <2>3. CASE r = q
    <3>1. ItemOf(q)' /\ HeldBy(q)'
      BY <1>1, <1>2 DEF ItemOf, Submission, HeldBy
    <3>2. QuoteOf(q)' /\ SawOf(q)'
      BY <1>0, <1>1, SawKept DEF QuoteOf
    <3> QED
      BY <1>2, <2>3, <3>1, <3>2 DEF RequestRows
  <2> QED
    BY <2>2, <2>3
<1>5. ASSUME NEW t \in WSlot PROVE RowOf(t)'
  <2>1. RowOf(t) /\ rowLock[t] \in Owner
    BY DEF RowSafe, RowTypes
  <2> QED
    BY <1>1, <1>2, <2>1 DEF RowOf, Owner, Lockers
<1> QED
  BY <1>3, <1>4, <1>5 DEF RowSafe

\* It inserts the row that it did not find, or waits for a rival's.
LEMMA InsertRows ==
    ASSUME RowSafe, form \in Forms, pc \in [Request -> Steps], NEW q \in Submission,
           q \notin quotes, InsertSlot(q), form[q].slots[item[q]] \notin present
    PROVE  RowSafe'
<1> DEFINE s == form[q].slots[item[q]]
<1>0. /\ q \in Request /\ RequestRows(q) /\ item[q] \in 1..Len(form[q].slots) /\ s \in WSlot
      /\ pc[q] = "insert" /\ item \in [Request -> Nat \ {0}]
  BY FormsTyped DEF RowSafe, RowTypes, RequestRows, ItemOf, Submission, InsertSlot
<1>1. /\ UNCHANGED <<form, saw, loaded, holder, present, quotes>> /\ Turn(q)
      /\ rowLock[s] = Nobody /\ rowLock' = [rowLock EXCEPT ![s] = q] /\ s \notin present
  BY DEF InsertSlot, outerVars, rowVars
<1> HIDE DEF s
<1>2. /\ item' \in [Request -> Nat \ {0}]
      /\ \A r \in Request : r # q => item'[r] = item[r] /\ pc'[r] = pc[r]
      /\ pc'[q] \in {"load", "lock"} /\ item'[q] <= Len(form[q].slots)
      /\ Handled(q)' = Handled(q) \cup {item[q]}
  BY <1>0, <1>1, TurnItem
<1>3. /\ rowLock' \in [WSlot -> Owner]
      /\ \A t \in WSlot : rowLock'[t] = IF t = s THEN q ELSE rowLock[t]
  BY <1>0, <1>1 DEF RowSafe, RowTypes, Owner
<1>4. RowTypes'
  BY <1>1, <1>2, <1>3 DEF RowSafe, RowTypes
<1>5. ASSUME NEW r \in Request PROVE RequestRows(r)'
  <2>1. RequestRows(r) /\ SlotsOf(r) \subseteq WSlot /\ r # Nobody
        /\ \A i \in 1..Len(form[r].slots) : form[r].slots[i] \in SlotsOf(r)
    BY SlotsTyped, WizardAssumption DEF RowSafe
  <2>2. CASE r # q
    <3>1. \A t \in SlotsOf(r) : rowLock[t] = r => rowLock'[t] = r
      BY <1>1, <1>3, <2>1
    <3> QED
      BY <1>1, <1>2, <2>1, <2>2, <3>1, RowsFrame
  <2>3. CASE r = q
    <3>1. ItemOf(q)' /\ HeldBy(q)'
      BY <1>1, <1>2 DEF ItemOf, Submission, HeldBy
    <3>2. QuoteOf(q)' /\ SawOf(q)'
      BY <1>0, <1>1, SawKept DEF QuoteOf
    <3>3. HandledOf(q)'
      <4> SUFFICES ASSUME NEW i \in Handled(q)', NEW t, t = form[q].slots[i]
                   PROVE  t \in FirstRows \/ rowLock'[t] = q \/ loaded[q][t] # Nobody
        BY <1>1 DEF HandledOf
      <4>1. t \in WSlot
        BY <1>1, FormsTyped, <1>0 DEF Handled
      <4>2. CASE t = s
        BY <1>3, <4>1, <4>2
      <4>3. CASE t # s
        <5>1. i \in Handled(q)
          BY <1>2, <4>3 DEF s
        <5> QED
          BY <1>0, <1>3, <4>1, <4>3, <5>1 DEF RequestRows, HandledOf
      <4> QED
        BY <4>2, <4>3
    <3> QED
      BY <2>3, <3>1, <3>2, <3>3 DEF RequestRows
  <2> QED
    BY <2>2, <2>3
<1>6. ASSUME NEW t \in WSlot PROVE RowOf(t)'
  <2>1. RowOf(t) /\ rowLock[t] \in Owner
    BY DEF RowSafe, RowTypes
  <2> QED
    BY <1>0, <1>1, <1>2, <1>3, <2>1 DEF RowOf, Owner, Lockers
<1> QED
  BY <1>4, <1>5, <1>6 DEF RowSafe

\* It locks the row and holds it, unless it is taken.
LEMMA HoldRows ==
    ASSUME RowSafe, form \in Forms, pc \in [Request -> Steps], NEW q \in Submission,
           q \notin quotes, HoldSlots(q), \A s \in SlotsOf(q) : loaded[q][s] = Nobody
    PROVE  RowSafe'
<1>0. /\ q \in Request /\ RequestRows(q) /\ SlotsOf(q) \subseteq WSlot /\ q # Nobody
      /\ pc[q] = "lock" /\ \A s \in SlotsOf(q) : rowLock[s] \in {q, Nobody}
  BY SlotsTyped, WizardAssumption DEF RowSafe, Submission, HoldSlots
<1>1. /\ UNCHANGED <<form, saw, loaded, item, holder, present, quotes>>
      /\ pc' = [pc EXCEPT ![q] = "held"]
      /\ rowLock' = [s \in WSlot |-> IF s \in SlotsOf(q) THEN q ELSE rowLock[s]]
  BY DEF HoldSlots, Goes, outerVars
<1>2. /\ \A r \in Request : pc'[r] = IF r = q THEN "held" ELSE pc[r]
      /\ \A s \in WSlot : rowLock'[s] = IF s \in SlotsOf(q) THEN q ELSE rowLock[s]
  BY <1>0, <1>1
<1>3. \A s \in SlotsOf(q) : s \in FirstRows \/ rowLock[s] = q
  <2> SUFFICES ASSUME NEW s \in SlotsOf(q) PROVE s \in FirstRows \/ rowLock[s] = q
    OBVIOUS
  <2>1. PICK i \in 1..Len(form[q].slots) : s = form[q].slots[i]
    BY DEF SlotsOf
  <2>2. i \in Handled(q)
    BY <1>0 DEF Handled
  <2> QED
    BY <1>0, <2>1, <2>2 DEF RequestRows, HandledOf
<1>4. RowTypes'
  <2>1. rowLock' \in [WSlot -> Owner]
    BY <1>0, <1>1 DEF RowSafe, RowTypes, Owner
  <2> QED
    BY <1>1, <2>1 DEF RowSafe, RowTypes
<1>5. ASSUME NEW r \in Request PROVE RequestRows(r)'
  <2>1. RequestRows(r) /\ SlotsOf(r) \subseteq WSlot /\ r # Nobody
        /\ \A i \in 1..Len(form[r].slots) : form[r].slots[i] \in SlotsOf(r)
    BY SlotsTyped, WizardAssumption DEF RowSafe
  <2>2. CASE r # q
    <3>1. \A t \in SlotsOf(r) : rowLock[t] = r => rowLock'[t] = r
      BY <1>0, <1>2, <2>1, <2>2
    <3> QED
      BY <1>1, <1>2, <2>1, <2>2, <3>1, RowsFrame
  <2>3. CASE r = q
    <3>1. ItemOf(q)'
      BY <1>0, <1>1, <1>2 DEF RequestRows, ItemOf, Submission
    <3>2. HeldBy(q)'
      BY <1>0, <1>1, <1>2, SlotsKept DEF HeldBy
    <3>3. QuoteOf(q)' /\ SawOf(q)'
      BY <1>0, <1>1, SawKept DEF QuoteOf
    <3>4. HandledOf(q)'
      BY <1>1, <1>2, <2>1, <2>3 DEF HandledOf, Handled
    <3> QED
      BY <2>3, <3>1, <3>2, <3>3, <3>4 DEF RequestRows
  <2> QED
    BY <2>2, <2>3
<1>6. ASSUME NEW s \in WSlot PROVE RowOf(s)'
  <2>1. RowOf(s) /\ rowLock[s] \in Owner
    BY DEF RowSafe, RowTypes
  <2>2. CASE s \in SlotsOf(q)
    BY <1>0, <1>1, <1>2, <1>3, <2>1, <2>2 DEF RowOf, Lockers
  <2>3. CASE s \notin SlotsOf(q)
    BY <1>1, <1>2, <2>1, <2>3 DEF RowOf, Owner, Lockers
  <2> QED
    BY <2>2, <2>3
<1> QED
  BY <1>4, <1>5, <1>6 DEF RowSafe

\* It commits, and its holds become everybody's.
LEMMA CommitRows ==
    ASSUME RowSafe, form \in Forms, pc \in [Request -> Steps], quotes \subseteq Submission,
           NEW q \in Submission, q \notin quotes, Committing(q),
           NEW step \in {"committed", "ended"}, pc' = [pc EXCEPT ![q] = step]
    PROVE  RowSafe'
<1>0. /\ q \in Request /\ RequestRows(q) /\ SlotsOf(q) \subseteq WSlot /\ q # Nobody
      /\ pc[q] = "held" /\ \A s \in SlotsOf(q) : rowLock[s] = q
  BY SlotsTyped, WizardAssumption DEF RowSafe, Submission, Committing, RequestRows, HeldBy
<1>1. /\ UNCHANGED <<form, saw, loaded, item>>
      /\ quotes' = quotes \cup {q}
      /\ holder' = [s \in WSlot |-> IF s \in SlotsOf(q) THEN q ELSE holder[s]]
      /\ present' = present \cup SlotsOf(q) /\ rowLock' = Unlocked(q)
  BY DEF Committing, outerVars
<1>2. /\ \A r \in Request : pc'[r] = IF r = q THEN step ELSE pc[r]
      /\ \A s \in WSlot : holder'[s] = IF s \in SlotsOf(q) THEN q ELSE holder[s]
      /\ \A s \in WSlot : rowLock'[s] = IF rowLock[s] = q THEN Nobody ELSE rowLock[s]
  BY <1>0, <1>1 DEF Unlocked
<1>3. \A s \in SlotsOf(q) : s \in FirstRows \/ s \notin present
  BY <1>0 DEF RowSafe, RowOf
<1>4. RowTypes'
  <2>1. holder' \in [WSlot -> Owner] /\ rowLock' \in [WSlot -> Owner]
    BY <1>0, <1>1 DEF RowSafe, RowTypes, Owner, Unlocked
  <2> QED
    BY <1>0, <1>1, <2>1 DEF RowSafe, RowTypes
<1>5. ASSUME NEW r \in Request PROVE RequestRows(r)'
  <2>1. RequestRows(r) /\ SlotsOf(r) \subseteq WSlot /\ r # Nobody
        /\ \A i \in 1..Len(form[r].slots) : form[r].slots[i] \in SlotsOf(r)
    BY SlotsTyped, WizardAssumption DEF RowSafe
  <2>2. CASE r # q
    <3>1. \A t \in SlotsOf(r) : rowLock[t] = r => rowLock'[t] = r
      BY <1>2, <2>1, <2>2
    <3>2. \A t \in SlotsOf(r) : r \in quotes /\ holder'[t] # holder[t] =>
                                    t \in FirstRows /\ holder'[t] # Nobody
      BY <1>0, <1>2, <1>3, <2>1 DEF RequestRows, QuoteOf
    <3>3. /\ pc'[r] = pc[r] /\ item'[r] = item[r] /\ loaded'[r] = loaded[r] /\ saw'[r] = saw[r]
          /\ quotes \subseteq quotes' /\ ((r \in quotes') => (r \in quotes))
          /\ \A t \in SlotsOf(r) : t \in present => t \in present'
      BY <1>1, <1>2, <2>2
    <3> QED
      BY <1>1, <2>1, <3>1, <3>2, <3>3, RowsFrame
  <2>3. CASE r = q
    <3>1. SlotsOf(q)' = SlotsOf(q) /\ \A x : SlotsOf(x)' = SlotsOf(x)
      BY <1>1, SlotsKept
    <3>2. ItemOf(q)' /\ HeldBy(q)' /\ HandledOf(q)'
      BY <1>0, <1>1, <1>2
      DEF RequestRows, ItemOf, Submission, HeldBy, HandledOf, Handled
    <3>3. QuoteOf(q)'
      BY <1>0, <1>1, <1>2, <3>1 DEF QuoteOf
    <3>4. SawOf(q)'
      BY <1>0, <1>1, <3>1 DEF RequestRows, SawOf, Relatives
    <3> QED
      BY <2>3, <3>2, <3>3, <3>4 DEF RequestRows
  <2> QED
    BY <2>2, <2>3
<1>6. ASSUME NEW s \in WSlot PROVE RowOf(s)'
  <2>1. RowOf(s) /\ rowLock[s] \in Owner
    BY DEF RowSafe, RowTypes
  <2>2. CASE s \in SlotsOf(q)
    BY <1>0, <1>2, <2>1, <2>2 DEF RowOf
  <2>3. CASE s \notin SlotsOf(q)
    BY <1>1, <1>2, <2>1, <2>3 DEF RowOf, Owner
  <2> QED
    BY <2>2, <2>3
<1> QED
  BY <1>4, <1>5, <1>6 DEF RowSafe

\* Who looks and finds every slot and relative free sees no quote of theirs.
LEMMA LookSees ==
    ASSUME RowSafe, form \in Forms, quotes \subseteq Submission, NEW q \in Request,
           \A s \in SlotsOf(q) : ~ Occupied(s), saw' = [saw EXCEPT ![q] = quotes],
           UNCHANGED <<form, quotes>>
    PROVE  saw' \in [Request -> SUBSET Request] /\ \A r \in Request : SawOf(r)'
<1>1. saw \in [Request -> SUBSET Request] /\ quotes \in SUBSET Request
  BY DEF RowSafe, RowTypes, Submission
<1>2. saw' \in [Request -> SUBSET Request]
  BY <1>1
<1>3. ASSUME NEW r \in Request PROVE SawOf(r)'
  <2>1. SlotsOf(r)' = SlotsOf(r) /\ \A x : SlotsOf(x)' = SlotsOf(x)
    BY SlotsKept
  <2>2. CASE r # q
    BY <1>1, <2>1, <2>2 DEF RowSafe, RequestRows, SawOf, Relatives
  <2>3. CASE r = q
    <3>1. saw'[r] = quotes
      BY <1>1, <2>3
    <3>2. ASSUME NEW x \in quotes, NEW s \in SlotsOf(x), NEW u \in SlotsOf(q)
          PROVE  u \notin Relatives(s)
      <4>1. x \in Request /\ s \in WSlot /\ u \in WSlot /\ holder[s] # Nobody
        BY <1>1, SlotsTyped DEF RowSafe, RequestRows, QuoteOf
      <4>2. s \notin Relatives(u)
        BY <4>1 DEF Occupied
      <4> QED
        BY <4>1, <4>2, RelativesSymmetric
    <3> QED
      BY <2>1, <2>3, <3>1, <3>2 DEF SawOf, Relatives
  <2> QED
    BY <2>2, <2>3
<1> QED
  BY <1>2, <1>3

\* It rolls back, and leaves no hold.
LEMMA RollbackRows ==
    ASSUME RowSafe, ControlSafe, NEW q \in Request, NEW code, Rollback(q, code)
    PROVE  RowSafe'
  BY LeaveRows DEF Rollback, Ends, outerVars, ControlSafe, ControlTypes

\* No step breaks what the rows of the slots and the submissions say of each
\* other (crm/public_service.py).
LEMMA RowStep ==
    RowSafe /\ ControlSafe /\ PortalTypeOK /\ [WizardNext]_vars => RowSafe'
<1> SUFFICES ASSUME RowSafe, ControlSafe, PortalTypeOK, [WizardNext]_vars PROVE RowSafe'
  OBVIOUS
<1>0. /\ form \in Forms /\ pc \in [Request -> Steps] /\ quotes \subseteq Submission
      /\ \A q \in Request : PlaceOf(q)
  BY DEF ControlSafe, ControlTypes
<1>s. saw \in [Request -> SUBSET Request]
  BY DEF RowSafe, RowTypes
<1>1. ASSUME NEW q \in Request, Arrive(q) PROVE RowSafe'
  <2>1. /\ UNCHANGED <<form, saw, loaded, item, rowLock, holder, present, quotes>>
        /\ pc[q] = "new"
    BY <1>1 DEF Arrive, outerVars, rowVars
  <2>2. \A r \in Request : SawOf(r)'
    BY <2>1, SawKept
  <2>3. pc' = [pc EXCEPT ![q] = "ended"] \/ pc' = [pc EXCEPT ![q] = "portal"]
    BY <1>1 DEF Arrive, Ends, Goes
  <2>4. "new" \notin Lockers
    BY DEF Lockers
  <2> QED
    BY <1>0, <1>s, <2>1, <2>2, <2>3, <2>4, PassRows
<1>2. ASSUME NEW q \in Request, PortalSettles(q) PROVE RowSafe'
  <2>1. /\ UNCHANGED <<form, saw, loaded, item, rowLock, holder, present, quotes>>
        /\ pc[q] = "portal"
    BY <1>2 DEF PortalSettles, outerVars, rowVars
  <2>2. \A r \in Request : SawOf(r)'
    BY <2>1, SawKept
  <2>3. pc' = [pc EXCEPT ![q] = "ended"] \/ pc' = [pc EXCEPT ![q] = "begun"]
    <3>1. CASE portal[q].verdict = "eligible"
      BY <1>2, <3>1 DEF PortalSettles, Ends, Goes
    <3>2. CASE portal[q].verdict = "not_eligible"
      BY <1>2, <3>2 DEF PortalSettles, Ends
    <3>3. CASE portal[q].verdict = "unavailable"
      BY <1>2, <3>3 DEF PortalSettles, Ends
    <3>4. CASE portal[q].verdict = "integration_auth_failure"
      BY <1>2, <3>4 DEF PortalSettles, Ends
    <3>5. CASE portal[q].verdict = "raised"
      BY <1>2, <3>5 DEF PortalSettles, Ends
    <3>6. portal[q].verdict \in Verdict
      BY <1>2 DEF PortalSettles, Asking, PortalTypeOK
    <3> QED
      BY <3>1, <3>2, <3>3, <3>4, <3>5, <3>6 DEF Verdict
  <2>4. "portal" \notin Lockers
    BY DEF Lockers
  <2> QED
    BY <1>0, <1>s, <2>1, <2>2, <2>3, <2>4, PassRows
<1>3. ASSUME NEW q \in Request, CheckAvailability(q) PROVE RowSafe'
  <2>1. CASE Rollback(q, 409)
    BY <2>1, RollbackRows
  <2>2. CASE ~ \E s \in SlotsOf(q) : Occupied(s)
    <3>1. /\ UNCHANGED <<form, loaded, item, rowLock, holder, present, quotes>>
          /\ saw' = [saw EXCEPT ![q] = quotes] /\ pc' = [pc EXCEPT ![q] = "checked"]
          /\ pc[q] = "begun" /\ "begun" \notin Lockers
      BY <1>3, <2>2 DEF CheckAvailability, Goes, outerVars, rowVars, Lockers
    <3>2. saw' \in [Request -> SUBSET Request] /\ \A r \in Request : SawOf(r)'
      BY <1>0, <2>2, <3>1, LookSees
    <3> QED
      BY <1>0, <3>1, <3>2, PassRows
  <2> QED
    BY <1>3, <2>1, <2>2 DEF CheckAvailability
<1>4. ASSUME NEW q \in Request, InsertQuote(q) PROVE RowSafe'
  <2>1. CASE Rollback(q, 422) \/ Rollback(q, 409)
    BY <2>1, RollbackRows
  <2>2. CASE Goes(q, "load") /\ UNCHANGED <<outerVars, saw, loaded, item, rowVars, quotes>>
    <3>1. /\ UNCHANGED <<form, saw, loaded, item, rowLock, holder, present, quotes>>
          /\ pc[q] = "checked" /\ "checked" \notin Lockers
          /\ pc' = [pc EXCEPT ![q] = "load"]
      BY <1>4, <2>2 DEF InsertQuote, Goes, outerVars, rowVars, Lockers
    <3>2. \A r \in Request : SawOf(r)'
      BY <3>1, SawKept
    <3> QED
      BY <1>0, <1>s, <3>1, <3>2, PassRows
  <2> QED
    BY <1>4, <2>1, <2>2 DEF InsertQuote
<1>5. ASSUME NEW q \in Request, WriteFails(q) \/ Kill(q) PROVE RowSafe'
  <2>1. /\ UNCHANGED <<form, saw, loaded, item, holder, present, quotes>>
        /\ rowLock' = Unlocked(q)
        /\ pc' = [pc EXCEPT ![q] = "ended"] \/ pc' = [pc EXCEPT ![q] = "killed"]
    BY <1>5 DEF WriteFails, Kill, Ends, outerVars
  <2> QED
    BY <1>0, <2>1, LeaveRows
<1>6. ASSUME NEW q \in Request, LoadSlot(q) \/ InsertSlot(q) \/ HoldSlots(q) \/ Commit(q)
                                 \/ CommitRaises(q)
      PROVE  RowSafe'
  <2>1. q \in Submission /\ q \notin quotes
    BY <1>0, <1>6 DEF LoadSlot, InsertSlot, HoldSlots, Commit, CommitRaises, Committing, PlaceOf,
                      InTransaction
  <2>2. CASE Rollback(q, 500) \/ Rollback(q, 409)
    BY <2>2, RollbackRows
  <2>3. CASE LoadSlot(q)
    BY <1>0, <2>1, <2>3, LoadRows
  <2>4. CASE InsertSlot(q)
    BY <1>0, <2>1, <2>2, <2>4, InsertRows DEF InsertSlot
  <2>5. CASE HoldSlots(q)
    BY <1>0, <2>1, <2>2, <2>5, HoldRows DEF HoldSlots
  <2>6. CASE Commit(q) \/ CommitRaises(q)
    BY <1>0, <2>1, <2>6, CommitRows DEF Commit, CommitRaises, Goes, Ends
  <2> QED
    BY <1>6, <2>3, <2>4, <2>5, <2>6
<1>7. ASSUME NEW q \in Request, Answer(q) \/ RefreshFails(q) PROVE RowSafe'
  <2>1. /\ UNCHANGED <<form, saw, loaded, item, rowLock, holder, present, quotes>>
        /\ pc[q] = "committed" /\ "committed" \notin Lockers
        /\ pc' = [pc EXCEPT ![q] = "ended"]
    BY <1>7 DEF Answer, RefreshFails, Ends, outerVars, rowVars, Lockers
  <2>2. \A r \in Request : SawOf(r)'
    BY <2>1, SawKept
  <2> QED
    BY <1>0, <1>s, <2>1, <2>2, PassRows
<1>8. ASSUME NEW q \in Request, DeadlockAbort(q) \/ UnexpectedError(q) PROVE RowSafe'
  BY <1>8, RollbackRows DEF DeadlockAbort, UnexpectedError
<1>9. CASE UNCHANGED <<form, pc, saw, loaded, item, rowVars, quotes>>
  <2>1. UNCHANGED <<form, pc, saw, loaded, item, rowLock, holder, present, quotes>>
    BY <1>9 DEF rowVars
  <2>2. RowTypes'
    BY <2>1 DEF RowSafe, RowTypes
  <2>3. ASSUME NEW r \in Request PROVE RequestRows(r)'
    <3>1. RequestRows(r) /\ \A i \in 1..Len(form[r].slots) : form[r].slots[i] \in SlotsOf(r)
      BY <1>0, SlotsTyped DEF RowSafe
    <3> QED
      BY <2>1, <3>1, RowsFrame
  <2>4. ASSUME NEW s \in WSlot PROVE RowOf(s)'
    BY <2>1 DEF RowSafe, RowOf
  <2> QED
    BY <2>2, <2>3, <2>4 DEF RowSafe
<1>10. ASSUME NEW q \in Request, AskPortal(q) \/ WriteFile(q) PROVE RowSafe'
  BY <1>9, <1>10 DEF AskPortal, WriteFile, requestVars, outerVars
<1>11. CASE WindowPasses \/ RedisFails \/ RedisReturns \/ UNCHANGED vars
  BY <1>9, <1>11 DEF WindowPasses, RedisFails, RedisReturns, vars, requestVars, outerVars
<1> QED
  BY <1>1, <1>2, <1>3, <1>4, <1>5, <1>6, <1>7, <1>8, <1>10, <1>11 DEF WizardNext, Progress

-----------------------------------------------------------------------------
(* Files: how many of its documents each submission has written.           *)

FirstFiles(q, n) == {<<q, i>> : i \in 1..n}

\* Before the transaction ends, a submission's files are those it has written.
Open == {"new", "portal", "begun", "checked", "committed"} \cup HoldingSteps

FilesOf(q, n) ==
    /\ n \in 0..form[q].files
    /\ written[q] = FirstFiles(q, n)
    /\ pc[q] \in {"new", "portal", "begun"} => n = 0
    /\ pc[q] \in HoldingSteps \cup {"committed"} \/ q \in quotes => n = form[q].files
    /\ pc[q] \in Open \/ q \in quotes \ unsure => disk \cap Document(q) = written[q]
    /\ pc[q] = "ended" /\ q \notin quotes =>
         disk \cap Document(q) \subseteq stuck \cup {<<q, n + 1>>}

FileSafe ==
    /\ written = [q \in Request |-> written[q]]
    /\ disk \subseteq UNION {Document(q) : q \in Request}
    /\ stuck \subseteq UNION {Document(q) : q \in Request} /\ unsure \subseteq quotes
    /\ \A q \in Request : \E n \in Nat : FilesOf(q, n)

\* The first n documents of a form are n.
LEMMA FirstFilesCount ==
    ASSUME NEW q, NEW n \in Nat
    PROVE  IsFiniteSet(FirstFiles(q, n)) /\ Cardinality(FirstFiles(q, n)) = n
<1> DEFINE f == [i \in 1..n |-> <<q, i>>]
<1>1. IsFiniteSet(1..n) /\ Cardinality(1..n) = n
  BY FS_Interval
<1>2. f \in Bijection(1..n, FirstFiles(q, n))
  BY DEF Bijection, Injection, Surjection, IsInjective, FirstFiles
<1>3. ExistsBijection(1..n, FirstFiles(q, n))
  BY <1>2 DEF ExistsBijection
<1> QED
  BY <1>1, <1>3, FS_Bijection

\* The next file is the one after those that were written.
LEMMA NextFileIs ==
    ASSUME NEW q \in Request, form[q].files \in Nat, NEW n \in Nat, FilesOf(q, n)
    PROVE  /\ NextFile(q) = <<q, n + 1>>
           /\ NextFile(q) \in Document(q) <=> n < form[q].files
           /\ written[q] \cup {NextFile(q)} = FirstFiles(q, n + 1)
           /\ written[q] \subseteq Document(q)
           /\ NextFile(q) \notin written[q]
<1>1. NextFile(q) = <<q, n + 1>>
  BY FirstFilesCount DEF NextFile, FilesOf
<1>2. NextFile(q) \in Document(q) <=> n < form[q].files
  BY <1>1 DEF Document
<1>3. written[q] \cup {NextFile(q)} = FirstFiles(q, n + 1)
  BY <1>1 DEF FilesOf, FirstFiles
<1>4. written[q] \subseteq Document(q) /\ NextFile(q) \notin written[q]
  BY <1>1 DEF FilesOf, FirstFiles, Document
<1> QED
  BY <1>1, <1>2, <1>3, <1>4

\* Two requests share no document.
LEMMA DocumentsApart ==
    \A q, r \in Request : q # r => Document(q) \cap Document(r) = {}
  BY DEF Document

\* A request whose place, files and quote no step has touched.
LEMMA FilesFrame ==
    ASSUME NEW r \in Request, NEW n \in Nat, FilesOf(r, n), UNCHANGED form,
           pc'[r] = pc[r], written'[r] = written[r], (r \in quotes') <=> (r \in quotes),
           (r \in unsure') <=> (r \in unsure), stuck \subseteq stuck',
           disk' \cap Document(r) = disk \cap Document(r)
    PROVE  FilesOf(r, n)'
<1>1. Document(r)' = Document(r)
  BY DEF Document
<1> QED
  BY <1>1 DEF FilesOf

\* One request goes on, and at most its own files come and go.
LEMMA OneMoves ==
    ASSUME FileSafe, UNCHANGED form, NEW q \in Request, pc \in [Request -> Steps],
           NEW step, pc' = [pc EXCEPT ![q] = step],
           \A r \in Request \ {q} : /\ (r \in quotes') <=> (r \in quotes)
                                    /\ (r \in unsure') <=> (r \in unsure),
           written' = [written EXCEPT ![q] = written'[q]],
           disk \ Document(q) = disk' \ Document(q),
           stuck \subseteq stuck', stuck' \ Document(q) \subseteq stuck, unsure' \subseteq quotes',
           NEW m \in Nat, FilesOf(q, m)'
    PROVE  FileSafe'
<1>1. \A r \in Request : Document(r)' = Document(r)
  BY DEF Document
<1>2. written' = [r \in Request |-> written'[r]]
  BY DEF FileSafe
<1>3. /\ disk' \subseteq UNION {Document(r)' : r \in Request}
      /\ stuck' \subseteq UNION {Document(r)' : r \in Request}
  BY <1>1 DEF FileSafe
<1>4. ASSUME NEW r \in Request, r # q PROVE \E n \in Nat : FilesOf(r, n)'
  <2>1. PICK n \in Nat : FilesOf(r, n)
    BY DEF FileSafe
  <2>2. disk' \cap Document(r) = disk \cap Document(r)
    BY <1>4, DocumentsApart
  <2>3. pc'[r] = pc[r] /\ written'[r] = written[r]
    BY <1>4 DEF FileSafe
  <2>4. ((r \in quotes') <=> (r \in quotes)) /\ ((r \in unsure') <=> (r \in unsure))
    BY <1>4
  <2>5. FilesOf(r, n)'
    BY <2>1, <2>2, <2>3, <2>4, FilesFrame
  <2> QED
    BY <2>5
<1>5. \A r \in Request : \E n \in Nat : FilesOf(r, n)'
  BY <1>4
<1> QED
  BY <1>2, <1>3, <1>5 DEF FileSafe

\* A request goes on and leaves every file where it is.
LEMMA PassFiles ==
    ASSUME FileSafe, ControlSafe, NEW q \in Request, NEW step \in Steps,
           pc' = [pc EXCEPT ![q] = step], UNCHANGED <<form, disk, written, stuck, unsure>>,
           quotes \subseteq quotes',
           \A r \in Request : r # q => ((r \in quotes') <=> (r \in quotes)),
           step \in {"portal", "begun"} => pc[q] \in {"new", "portal"},
           step = "checked" => pc[q] = "begun", step # "new",
           step \in HoldingSteps =>
               pc[q] \in HoldingSteps \/ (pc[q] = "checked" /\ NextFile(q) \notin Document(q)),
           step = "committed" => pc[q] = "held" \/ pc[q] = "committed",
           q \in quotes' => pc[q] = "held" \/ q \in quotes,
           step = "ended" => pc[q] \in {"new", "portal"} \/ q \in quotes'
    PROVE  FileSafe'
<1>1. PICK n \in Nat : FilesOf(q, n)
  BY DEF FileSafe
<1>2. form \in Forms /\ form[q].files \in Nat /\ PlaceOf(q) /\ pc \in [Request -> Steps]
  BY FormsTyped DEF ControlSafe, ControlTypes
<1>3. pc'[q] = step /\ Document(q)' = Document(q)
  BY <1>2 DEF Document
<1>4. FilesOf(q, n)'
  <2>1. step \in {"new", "portal", "begun"} => n = 0
    BY <1>1 DEF FilesOf
  <2>2. step \in HoldingSteps \cup {"committed"} \/ q \in quotes' => n = form[q].files
    <3>1. NextFile(q) \notin Document(q) => n = form[q].files
      BY <1>1, <1>2, NextFileIs DEF FilesOf
    <3> QED
      BY <1>1, <3>1 DEF FilesOf, HoldingSteps
  <2>3. step \in Open \/ q \in quotes' \ unsure => disk \cap Document(q) = written[q]
    <3>1. step \in Open \/ q \in quotes' \ unsure => pc[q] \in Open \/ q \in quotes \ unsure
      BY DEF Open, HoldingSteps
    <3> QED
      BY <1>1, <3>1 DEF FilesOf
  <2>4. step = "ended" /\ q \notin quotes' =>
            disk \cap Document(q) \subseteq stuck \cup {<<q, n + 1>>}
    <3>1. pc[q] \in {"new", "portal"} => disk \cap Document(q) = {}
      BY <1>1 DEF FilesOf, FirstFiles, Open
    <3> QED
      BY <3>1
  <2> QED
    BY <1>1, <1>3, <2>1, <2>2, <2>3, <2>4 DEF FilesOf, FirstFiles
<1>5. /\ written' = [written EXCEPT ![q] = written'[q]]
      /\ disk \ Document(q) = disk' \ Document(q) /\ unsure' \subseteq quotes'
  BY DEF FileSafe
<1> QED
  BY <1>2, <1>4, <1>5, OneMoves

\* A transaction that fails, or whose commit raises, unlinks the files that were
\* written (api/public.py); torn is the one that was not.
LEMMA CleanedFiles ==
    ASSUME FileSafe, ControlSafe, NEW q \in Request, pc[q] \in InTransaction,
           NEW torn \in SUBSET {NextFile(q)}, torn \subseteq Document(q), CleansUp(q, torn),
           UNCHANGED <<form, written>>, pc' = [pc EXCEPT ![q] = "ended"],
           \/ UNCHANGED <<quotes, unsure>>
           \/ pc[q] = "held" /\ quotes' = quotes \cup {q} /\ unsure' = unsure \cup {q}
    PROVE  FileSafe'
<1>1. PICK n \in Nat : FilesOf(q, n)
  BY DEF FileSafe
<1>2. /\ form \in Forms /\ form[q].files \in Nat /\ pc \in [Request -> Steps]
      /\ q \notin quotes
  BY FormsTyped DEF ControlSafe, ControlTypes, PlaceOf, InTransaction
<1>3. PICK kept \in SUBSET written[q] :
          disk' = (disk \ (written[q] \ kept)) \cup torn /\ stuck' = stuck \cup kept
  BY DEF CleansUp
<1>4. /\ disk \cap Document(q) = written[q] /\ written[q] \subseteq Document(q)
      /\ NextFile(q) = <<q, n + 1>>
  BY <1>1, <1>2, NextFileIs DEF FilesOf, Open, InTransaction, HoldingSteps
<1>5. FilesOf(q, n)'
  <2>1. /\ pc'[q] = "ended" /\ Document(q)' = Document(q)
        /\ disk' \cap Document(q) \subseteq stuck' \cup {<<q, n + 1>>}
    BY <1>2, <1>3, <1>4 DEF Document
  <2>2. q \in quotes' => q \in unsure' /\ n = form[q].files
    BY <1>1, <1>2 DEF FilesOf, HoldingSteps
  <2> QED
    BY <1>1, <1>2, <2>1, <2>2 DEF FilesOf, Open, HoldingSteps, FirstFiles
<1>6. /\ written' = [written EXCEPT ![q] = written'[q]] /\ disk \ Document(q) = disk' \ Document(q)
      /\ stuck \subseteq stuck' /\ stuck' \ Document(q) \subseteq stuck /\ unsure' \subseteq quotes'
  BY <1>3, <1>4 DEF FileSafe
<1>7. \A r \in Request : r # q => /\ (r \in quotes') <=> (r \in quotes)
                                  /\ (r \in unsure') <=> (r \in unsure)
  OBVIOUS
<1> QED
  BY <1>2, <1>5, <1>6, <1>7, OneMoves

\* So does a rollback.
LEMMA RollbackFiles ==
    ASSUME FileSafe, ControlSafe, NEW q \in Request, pc[q] \in InTransaction, NEW code,
           Rollback(q, code)
    PROVE  FileSafe'
  BY CleanedFiles DEF Rollback, Ends, outerVars

\* A file is written, or fails and may leave a part of itself on disk.
LEMMA WriteFiles ==
    ASSUME FileSafe, ControlSafe, NEW q \in Request, WriteFile(q) \/ WriteFails(q)
    PROVE  FileSafe'
<1>1. PICK n \in Nat : FilesOf(q, n)
  BY DEF FileSafe
<1>2. /\ form \in Forms /\ form[q].files \in Nat /\ pc \in [Request -> Steps]
      /\ pc[q] = "checked" /\ NextFile(q) \in Document(q) /\ q \notin quotes
  BY FormsTyped DEF ControlSafe, ControlTypes, PlaceOf, InTransaction, WriteFile, WriteFails
<1>3. /\ NextFile(q) = <<q, n + 1>> /\ n < form[q].files
      /\ written[q] \cup {NextFile(q)} = FirstFiles(q, n + 1)
      /\ written[q] \subseteq Document(q)
  BY <1>1, <1>2, NextFileIs
<1>4. disk \cap Document(q) = written[q] /\ n \in Nat /\ n + 1 \in 0..form[q].files
  BY <1>1, <1>2, <1>3 DEF FilesOf, Open
<1>5. CASE WriteFile(q)
  <2>1. /\ UNCHANGED <<form, pc, quotes, stuck, unsure>> /\ disk' = disk \cup {NextFile(q)}
        /\ written' = [written EXCEPT ![q] = written[q] \cup {NextFile(q)}]
    BY <1>5 DEF WriteFile, outerVars, requestVars, troubleVars
  <2>2. FilesOf(q, n + 1)'
    <3>1. /\ Document(q)' = Document(q) /\ pc'[q] = "checked"
          /\ written'[q] = FirstFiles(q, n + 1)
      BY <1>2, <1>3, <2>1 DEF Document, FileSafe
    <3>2. disk' \cap Document(q) = written'[q]
      BY <1>2, <1>3, <1>4, <2>1, <3>1
    <3> QED
      BY <1>2, <1>4, <2>1, <3>1, <3>2 DEF FilesOf, HoldingSteps, FirstFiles
  <2>3. pc' = [pc EXCEPT ![q] = "checked"]
    BY <1>2, <2>1
  <2>4. /\ n + 1 \in Nat /\ disk \ Document(q) = disk' \ Document(q)
        /\ written' = [written EXCEPT ![q] = written'[q]] /\ unsure' \subseteq quotes'
    BY <1>2, <1>4, <2>1 DEF FileSafe
  <2> QED
    BY <1>2, <2>1, <2>2, <2>3, <2>4, OneMoves
<1>6. CASE WriteFails(q)
  <2>1. /\ UNCHANGED <<form, written, quotes, unsure>> /\ CleansUp(q, {NextFile(q)})
        /\ pc' = [pc EXCEPT ![q] = "ended"] /\ pc[q] \in InTransaction
    BY <1>6 DEF WriteFails, Ends, outerVars, InTransaction
  <2> QED
    BY <1>2, <2>1, CleanedFiles
<1> QED
  BY <1>5, <1>6

\* Between the insert of the quote and the commit no file comes or goes.
LEMMA HoldingFiles ==
    ASSUME FileSafe, ControlSafe, NEW q \in Request, pc[q] \in HoldingSteps, q \notin quotes,
           NEW step \in {"load", "insert", "lock", "held"}, pc' = [pc EXCEPT ![q] = step],
           UNCHANGED <<form, disk, written, quotes, stuck, unsure>>
    PROVE  FileSafe'
<1>1. step \in Steps /\ step \notin {"portal", "begun", "checked", "new", "committed", "ended"}
  BY DEF Steps, InTransaction
<1> QED
  BY <1>1, PassFiles

\* No step loses a committed document's file, or leaves more than one behind.
LEMMA FilesStep ==
    FileSafe /\ ControlSafe /\ PortalTypeOK /\ [WizardNext]_vars => FileSafe'
<1> SUFFICES ASSUME FileSafe, ControlSafe, PortalTypeOK, [WizardNext]_vars PROVE FileSafe'
  OBVIOUS
<1>0. /\ form \in Forms /\ pc \in [Request -> Steps] /\ quotes \subseteq Submission
      /\ \A q \in Request : PlaceOf(q)
  BY DEF ControlSafe, ControlTypes
<1>1. ASSUME NEW q \in Request, Arrive(q) PROVE FileSafe'
  <2>1. UNCHANGED <<form, disk, written, quotes, stuck, unsure>> /\ pc[q] = "new"
    BY <1>1 DEF Arrive, outerVars, troubleVars
  <2>2. PICK step \in {"ended", "portal"} : pc' = [pc EXCEPT ![q] = step]
    BY <1>1 DEF Arrive, Ends, Goes
  <2>3. q \notin quotes
    BY <1>0, <2>1 DEF PlaceOf
  <2> QED
    BY <2>1, <2>2, <2>3, PassFiles DEF Steps, HoldingSteps
<1>2. ASSUME NEW q \in Request, PortalSettles(q) PROVE FileSafe'
  <2>1. UNCHANGED <<form, disk, written, quotes, stuck, unsure>> /\ pc[q] = "portal"
    BY <1>2 DEF PortalSettles, outerVars, troubleVars
  <2>2. \E step \in {"ended", "begun"} : pc' = [pc EXCEPT ![q] = step]
    <3>1. CASE portal[q].verdict = "eligible"
      BY <1>2, <3>1 DEF PortalSettles, Ends, Goes
    <3>2. CASE portal[q].verdict = "not_eligible"
      BY <1>2, <3>2 DEF PortalSettles, Ends
    <3>3. CASE portal[q].verdict = "unavailable"
      BY <1>2, <3>3 DEF PortalSettles, Ends
    <3>4. CASE portal[q].verdict = "integration_auth_failure"
      BY <1>2, <3>4 DEF PortalSettles, Ends
    <3>5. CASE portal[q].verdict = "raised"
      BY <1>2, <3>5 DEF PortalSettles, Ends
    <3>6. portal[q].verdict \in Verdict
      BY <1>2 DEF PortalSettles, Asking, PortalTypeOK
    <3> QED
      BY <3>1, <3>2, <3>3, <3>4, <3>5, <3>6 DEF Verdict
  <2>3. q \notin quotes
    BY <1>0, <2>1 DEF PlaceOf
  <2> QED
    BY <2>1, <2>2, <2>3, PassFiles DEF Steps, InTransaction, HoldingSteps
<1>3. ASSUME NEW q \in Request, CheckAvailability(q) \/ InsertQuote(q) PROVE FileSafe'
  <2>1. pc[q] \in {"begun", "checked"} /\ "begun" \in InTransaction /\ "checked" \in InTransaction
    BY <1>3 DEF CheckAvailability, InsertQuote, InTransaction
  <2>2. CASE Rollback(q, 409) \/ Rollback(q, 422)
    BY <2>1, <2>2, RollbackFiles
  <2>3. q \notin quotes
    BY <1>0, <2>1 DEF PlaceOf
  <2>4. CASE /\ pc[q] = "begun" /\ Goes(q, "checked")
             /\ UNCHANGED <<outerVars, disk, written, quotes, troubleVars>>
    <3>1. pc' = [pc EXCEPT ![q] = "checked"] /\ UNCHANGED <<form, disk, written, quotes, stuck, unsure>>
      BY <2>4 DEF Goes, outerVars, troubleVars
    <3> QED
      BY <2>3, <2>4, <3>1, PassFiles DEF Steps, InTransaction, HoldingSteps
  <2>5. CASE /\ pc[q] = "checked" /\ NextFile(q) \notin Document(q) /\ Goes(q, "load")
             /\ UNCHANGED <<outerVars, disk, written, quotes, troubleVars>>
    <3>1. pc' = [pc EXCEPT ![q] = "load"] /\ UNCHANGED <<form, disk, written, quotes, stuck, unsure>>
      BY <2>5 DEF Goes, outerVars, troubleVars
    <3> QED
      BY <2>3, <2>5, <3>1, PassFiles DEF Steps, InTransaction
  <2> QED
    BY <1>3, <2>2, <2>4, <2>5 DEF CheckAvailability, InsertQuote
<1>4. ASSUME NEW q \in Request, LoadSlot(q) \/ InsertSlot(q) \/ HoldSlots(q) PROVE FileSafe'
  <2>1. pc[q] \in {"load", "insert", "lock"} /\ pc[q] \in InTransaction /\ pc[q] \in HoldingSteps
    BY <1>4 DEF LoadSlot, InsertSlot, HoldSlots, InTransaction, HoldingSteps
  <2>2. CASE Rollback(q, 500) \/ Rollback(q, 409)
    BY <2>1, <2>2, RollbackFiles
  <2>3. q \notin quotes
    BY <1>0, <2>1 DEF PlaceOf
  <2>4. ASSUME NEW step \in {"load", "insert", "lock", "held"}, Goes(q, step),
               UNCHANGED <<outerVars, disk, written, quotes, troubleVars>>
        PROVE  FileSafe'
    <3>1. pc' = [pc EXCEPT ![q] = step] /\ UNCHANGED <<form, disk, written, quotes, stuck, unsure>>
      BY <2>4 DEF Goes, outerVars, troubleVars
    <3> QED
      BY <2>1, <2>3, <3>1, HoldingFiles
  <2>5. Turn(q) => Goes(q, "load") \/ Goes(q, "lock")
    BY DEF Turn
  <2> QED
    BY <1>4, <2>2, <2>4, <2>5 DEF LoadSlot, InsertSlot, HoldSlots
<1>5. ASSUME NEW q \in Request, Commit(q) PROVE FileSafe'
  <2>1. /\ UNCHANGED <<form, disk, written, stuck, unsure>> /\ pc[q] = "held"
        /\ quotes' = quotes \cup {q} /\ pc' = [pc EXCEPT ![q] = "committed"]
    BY <1>5 DEF Commit, Committing, Goes, outerVars, troubleVars
  <2> QED
    BY <2>1, PassFiles DEF Steps, HoldingSteps
<1>6. ASSUME NEW q \in Request, Answer(q) \/ RefreshFails(q) PROVE FileSafe'
  <2>1. /\ UNCHANGED <<form, disk, written, quotes, stuck, unsure>> /\ q \in quotes
        /\ pc' = [pc EXCEPT ![q] = "ended"]
    BY <1>0, <1>6 DEF Answer, RefreshFails, Ends, outerVars, troubleVars, PlaceOf
  <2> QED
    BY <2>1, PassFiles DEF Steps, HoldingSteps
<1>7. ASSUME NEW q \in Request, DeadlockAbort(q) \/ UnexpectedError(q) PROVE FileSafe'
  <2>1. pc[q] \in InTransaction
    BY <1>7 DEF DeadlockAbort, UnexpectedError, Awaits, InTransaction
  <2> QED
    BY <1>7, <2>1, RollbackFiles DEF DeadlockAbort, UnexpectedError
<1>8. ASSUME NEW q \in Request, Kill(q) PROVE FileSafe'
  <2>1. UNCHANGED <<form, disk, written, quotes, stuck, unsure>> /\ pc' = [pc EXCEPT ![q] = "killed"]
    BY <1>8 DEF Kill, outerVars, troubleVars
  <2> QED
    BY <2>1, PassFiles DEF Steps, HoldingSteps
<1>12. ASSUME NEW q \in Request, CommitRaises(q) PROVE FileSafe'
  <2>1. /\ UNCHANGED <<form, written>> /\ pc[q] = "held" /\ pc[q] \in InTransaction
        /\ quotes' = quotes \cup {q} /\ unsure' = unsure \cup {q} /\ CleansUp(q, {})
        /\ pc' = [pc EXCEPT ![q] = "ended"]
    BY <1>12 DEF CommitRaises, Committing, Ends, outerVars, InTransaction
  <2> QED
    BY <2>1, CleanedFiles
<1>9. CASE UNCHANGED <<form, pc, quotes, disk, written, stuck, unsure>>
  <2>1. \A r \in Request : Document(r)' = Document(r)
    BY <1>9 DEF Document
  <2>2. \A r \in Request : \E n \in Nat : FilesOf(r, n)'
    BY <1>9, FilesFrame DEF FileSafe
  <2> QED
    BY <1>9, <2>1, <2>2 DEF FileSafe
<1>10. ASSUME NEW q \in Request, AskPortal(q) PROVE FileSafe'
  BY <1>9, <1>10 DEF AskPortal, requestVars, outerVars, troubleVars
<1>11. CASE WindowPasses \/ RedisFails \/ RedisReturns \/ UNCHANGED vars
  BY <1>9, <1>11 DEF WindowPasses, RedisFails, RedisReturns, vars, requestVars, outerVars,
                           troubleVars
<1> QED
  BY <1>1, <1>2, <1>3, <1>4, <1>5, <1>6, <1>7, <1>8, <1>10, <1>11, <1>12, WriteFiles
  DEF WizardNext, Progress

-----------------------------------------------------------------------------
(* The theorems.                                                           *)

WizardSafe == PortalSafe /\ LimitSafe /\ ControlSafe /\ RowSafe /\ FileSafe

\* The invariant holds before the first request.
LEMMA WizardStarts == WizardInit => WizardSafe
<1> SUFFICES ASSUME WizardInit PROVE WizardSafe
  OBVIOUS
<1>0. /\ form \in Forms /\ pc = [q \in Request |-> "new"] /\ quotes = {} /\ disk = {}
      /\ stuck = {} /\ unsure = {}
      /\ written = [q \in Request |-> {}] /\ mailed = {} /\ answer = [q \in Request |-> 0]
      /\ \A q \in Request : form[q].files \in Nat
  BY FormsTyped DEF WizardInit
<1>1. PortalSafe
  BY AttemptsType DEF WizardInit, PortalInit, PortalSafe, PortalTypeOK, CallSafe
<1>2. LimitSafe
  <2>1. hits = 0 /\ passed = 0 /\ redis = TRUE /\ outage = FALSE /\ RateLimit \in Nat
    BY WizardAssumption DEF WizardInit
  <2>2. hits \in Nat /\ passed \in Nat /\ passed = hits /\ hits <= RateLimit
    BY <2>1
  <2>3. redis /\ redis \in BOOLEAN /\ outage \in BOOLEAN
    BY <2>1
  <2> QED
    BY <2>2, <2>3, Zenon DEF LimitSafe
<1>3. ControlSafe
  <2>1. Inserting = {}
    BY <1>0 DEF Inserting, Submission
  <2> QED
    BY <1>0, <2>1
    DEF ControlSafe, ControlTypes, PlaceOf, FoliosDiffer, Steps, Codes, InTransaction
<1>4. RowSafe
  <2>1. RowTypes
    BY WizardAssumption DEF WizardInit, RowTypes, Owner
  <2>2. ASSUME NEW r \in Request PROVE RequestRows(r)
    <3>1. r \in Submission => Len(form[r].slots) >= 1 /\ Len(form[r].slots) \in Nat
      BY <1>0, FormsTyped DEF Submission
    <3>2. ItemOf(r)
      BY <3>1 DEF WizardInit, ItemOf
    <3>3. HandledOf(r) /\ HeldBy(r) /\ QuoteOf(r) /\ SawOf(r)
      BY DEF WizardInit, HandledOf, Handled, HeldBy, QuoteOf, SawOf
    <3> QED
      BY <3>2, <3>3 DEF RequestRows
  <2>3. \A s \in WSlot : RowOf(s)
    BY DEF WizardInit, RowOf
  <2> QED
    BY <2>1, <2>2, <2>3 DEF RowSafe
<1>5. FileSafe
  <2>1. ASSUME NEW q \in Request PROVE FilesOf(q, 0)
    <3>1. 0 \in 0..form[q].files /\ FirstFiles(q, 0) = {}
      BY <1>0 DEF FirstFiles
    <3> QED
      BY <1>0, <3>1 DEF FilesOf, HoldingSteps
  <2> QED
    BY <1>0, <2>1 DEF FileSafe
<1> QED
  BY <1>1, <1>2, <1>3, <1>4, <1>5 DEF WizardSafe

\* No step of the wizard breaks the invariant.
LEMMA WizardStep == WizardSafe /\ [WizardNext]_vars => WizardSafe'
  BY PortalStep, LimitStep, ControlStep, RowStep, FilesStep DEF WizardSafe, PortalSafe

\* The invariant implies what is promised of quotes.
LEMMA WizardHolds == WizardSafe => WizardInv
<1> SUFFICES ASSUME WizardSafe PROVE WizardInv
  OBVIOUS
<1>0. /\ form \in Forms /\ quotes \subseteq Submission /\ Submission \subseteq Request
      /\ \A q \in Request : form[q].files \in Nat
  BY FormsTyped DEF WizardSafe, ControlSafe, ControlTypes, Submission
<1>1. WizardTypeOK
  <2>1. /\ PortalTypeOK /\ form \in Forms
        /\ pc \in [Request -> InTransaction \cup {"new", "portal", "committed", "ended", "killed"}]
        /\ answer \in [Request -> {0, 200, 201, 403, 409, 422, 429, 500, 502, 503}]
        /\ quotes \subseteq Submission /\ mailed \subseteq Request
    BY <1>0 DEF WizardSafe, PortalSafe, ControlSafe, ControlTypes, Steps, Codes
  <2>2. hits \in Nat /\ passed \in Nat /\ redis \in BOOLEAN /\ outage \in BOOLEAN
    BY DEF WizardSafe, LimitSafe
  <2>3. /\ saw \in [Request -> SUBSET Request]
        /\ loaded \in [Request -> [WSlot -> Request \cup {Nobody}]]
        /\ item \in [Request -> Nat \ {0}]
        /\ holder \in [WSlot -> Request \cup {Nobody}]
        /\ rowLock \in [WSlot -> Request \cup {Nobody}]
        /\ present \subseteq WSlot
    BY DEF WizardSafe, RowSafe, RowTypes, Owner
  <2>4. \A s \in WSlot :
            rowLock[s] # Nobody => pc[rowLock[s]] \in {"load", "insert", "lock", "held"}
    BY DEF WizardSafe, RowSafe, RowOf, Lockers
  <2>5. /\ disk \subseteq UNION {Document(q) : q \in Request}
        /\ stuck \subseteq UNION {Document(q) : q \in Request} /\ unsure \subseteq quotes
    BY DEF WizardSafe, FileSafe
  <2>6. \A q \in Request : written[q] \subseteq Document(q)
    BY <1>0, NextFileIs DEF WizardSafe, FileSafe
  <2> QED
    BY <2>1, <2>2, <2>3, <2>4, <2>5, <2>6 DEF WizardTypeOK
<1>2. OneQuotePerFolio
  BY DEF WizardSafe, ControlSafe, FoliosDiffer, OneQuotePerFolio
<1>3. QuoteHoldsItsSlots
  BY <1>0 DEF WizardSafe, RowSafe, RequestRows, QuoteOf, QuoteHoldsItsSlots
<1>4. FamiliesSplitOnlyByRace
  <2> SUFFICES ASSUME NEW q \in quotes, NEW r \in quotes, NEW s \in SlotsOf(q),
                      NEW u \in SlotsOf(r), u \in Relatives(s)
               PROVE  q \notin saw[r] /\ r \notin saw[q]
    BY DEF FamiliesSplitOnlyByRace
  <2>1. SawOf(q) /\ SawOf(r) /\ s \in WSlot /\ u \in WSlot
    BY <1>0, SlotsTyped DEF WizardSafe, RowSafe, RequestRows
  <2>2. s \in Relatives(u)
    BY <2>1, RelativesSymmetric
  <2> QED
    BY <2>1, <2>2 DEF SawOf
<1>5. ToldOnlyOfQuotes
  BY DEF WizardSafe, ControlSafe, ControlTypes, PlaceOf, ToldOnlyOfQuotes
<1>6. LimitHolds
  BY WizardAssumption DEF WizardSafe, LimitSafe, LimitHolds
<1> QED
  BY <1>1, <1>2, <1>3, <1>4, <1>5, <1>6 DEF WizardInv

\* And what is promised of files.
LEMMA FilesHold == WizardSafe => FilesMatchQuotes
<1> SUFFICES ASSUME WizardSafe PROVE FilesMatchQuotes
  OBVIOUS
<1>0. quotes \subseteq Request /\ \A q \in Request : form[q].files \in Nat
  BY FormsTyped DEF WizardSafe, ControlSafe, ControlTypes, Submission
<1>1. DocumentsHaveFiles
  <2> SUFFICES ASSUME NEW q \in quotes \ unsure PROVE Document(q) \subseteq disk
    BY DEF DocumentsHaveFiles
  <2>1. PICK n \in Nat : FilesOf(q, n)
    BY <1>0 DEF WizardSafe, FileSafe
  <2>2. written[q] = Document(q)
    BY <2>1 DEF FilesOf, FirstFiles, Document
  <2> QED
    BY <2>1, <2>2 DEF FilesOf
<1>2. FilesFollowTheQuote
  <2> SUFFICES ASSUME NEW q \in Submission \ quotes, pc[q] = "ended"
               PROVE  /\ disk \cap written[q] \subseteq stuck
                      /\ Cardinality((disk \cap Document(q)) \ stuck) <= 1
    BY DEF FilesFollowTheQuote
  <2>1. q \in Request
    BY DEF Submission
  <2>2. PICK n \in Nat : FilesOf(q, n)
    BY <2>1 DEF WizardSafe, FileSafe
  <2>3. /\ (disk \cap Document(q)) \ stuck \subseteq {<<q, n + 1>>}
        /\ written[q] \subseteq Document(q)
    BY <1>0, <2>1, <2>2, NextFileIs DEF FilesOf
  <2>4. <<q, n + 1>> \notin written[q]
    BY <1>0, <2>1, <2>2, NextFileIs
  <2>5. Cardinality({<<q, n + 1>>}) = 1 /\ IsFiniteSet({<<q, n + 1>>})
    BY FS_Singleton
  <2>6. Cardinality((disk \cap Document(q)) \ stuck) <= 1
    BY <2>3, <2>5, FS_Subset
  <2> QED
    BY <2>3, <2>4, <2>6
<1> QED
  BY <1>1, <1>2 DEF FilesMatchQuotes

\* A folio is quoted once, a quote holds every slot that was fresh, families
\* are split only by a race, nobody is told of a quote that does not exist, and
\* the limiter lets more pass only in an outage.
THEOREM WizardAlways == WizardSpec => []WizardInv
<1> QED
  BY WizardStarts, WizardStep, WizardHolds, PTL DEF WizardSpec

\* Committed documents have their files unless the commit itself raised, and a
\* submission that ended without a quote leaves, beside what could not be
\* unlinked, at most the one file that it failed to write.
THEOREM FilesAlwaysMatchQuotes == WizardSpec => []FilesMatchQuotes
<1> QED
  BY WizardStarts, WizardStep, FilesHold, PTL DEF WizardSpec

=============================================================================
