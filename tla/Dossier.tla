------------------------------ MODULE Dossier ------------------------------
(***************************************************************************)
(* The KYC drafts of one event (modules/reservation_documents): versions   *)
(* of each type of document, their files, the quota, the creation of an    *)
(* event together with its documents, the copy into the expediente of the  *)
(* anchor reservation, and the purge once every reservation is over.       *)
(*                                                                         *)
(* Requests overlap: each reads the event and the drafts, writes or        *)
(* removes files, and commits.  The steps of a reservation's own status    *)
(* are atomic here; Settlement has them in detail.                         *)
(***************************************************************************)
EXTENDS Integers, FiniteSets, Functions

CONSTANTS
    Member,         \* the reservations of the event
    Anchor,         \* the one with the smallest id
    DocType,
    Required,       \* types without which the documentation is incomplete
    Otro,           \* the type of which any number may be active
    Size,           \* sizes of files
    MaxBytes,       \* MAX_KYC_GROUP_BYTES
    MaxActive,      \* MAX_ACTIVE_RESERVATIONS_PER_CUSTOMER
    Clerk,          \* requests and task iterations that run at the same time
    NoDraft,
    MaxDrafts       \* bound on drafts

ASSUME DossierAssumption ==
    /\ Anchor \in Member
    /\ Required \subseteq DocType /\ Otro \in DocType \ Required
    /\ Size \subseteq Nat \ {0} /\ MaxBytes \in Nat /\ MaxActive \in Nat
    /\ MaxDrafts \in Nat /\ NoDraft \notin 1..MaxDrafts
    /\ IsFiniteSet(Clerk) /\ Clerk # {}

VARIABLES
    event,      \* the status of each reservation, or "none" before it exists
    drafts,     \* type, size and status of the rows of reservation_documents
    files,      \* drafts whose file is on disk
    copied,     \* types that the expediente of the anchor has
    elsewhere,  \* other active reservations of the same customer
    clerk,      \* what each request is doing
    made,       \* drafts so far: they number the rows
    papered,    \* the event was created together with its documents
    cut,        \* a cancellation was cut off after it removed files
    crossed,    \* a request wrote after the event or the drafts it read changed
    rushed      \* two creations of the customer overlapped

dossierVars == <<event, drafts, files, copied, elsewhere, clerk, made, papered, cut, crossed,
                 rushed>>

\* PENDING_SLIP and AWAITING_PAYMENT; EXPIRED and CANCELLED.
Statuses == {"none", "open", "review", "confirmed", "over"}

Open == \A r \in Member : event[r] = "open"

Over == \A r \in Member : event[r] = "over"

Unbooked == \A r \in Member : event[r] = "none"

Resting == [op |-> "none", pc |-> "idle", docs |-> <<>>, old |-> NoDraft, seen |-> {},
            at |-> <<>>, leaving |-> {}, count |-> 0]

ActiveOf(rows) == {d \in DOMAIN rows : rows[d].status = "ACTIVE"}

TypesOf(rows) == {rows[d].type : d \in ActiveOf(rows)}

BytesOf(rows, ids) == SumFunctionOnSet([d \in DOMAIN rows |-> rows[d].size], ids)

\* Draft d of a type and a size, as it is inserted.
New(type, size) == [type |-> type, size |-> size, status |-> "ACTIVE"]

\* Rows with others added, or put in their place.
With(rows, more) ==
    [d \in DOMAIN rows \cup DOMAIN more |-> IF d \in DOMAIN more THEN more[d] ELSE rows[d]]

\* check_anti_hoarding counts the event as one.
ActiveCount ==
    elsewhere + IF \E r \in Member : event[r] \in {"open", "review"} THEN 1 ELSE 0

-----------------------------------------------------------------------------
(* Creation.                                                               *)

\* POST /reservation-events (no documents), POST /reservation-events/with-
\* documents, and POST /reservations for something else, begin by counting.
CountActive(k, op) ==
    /\ clerk[k] = Resting
    /\ op = "create" => Unbooked /\ \A j \in Clerk : clerk[j].op # "create"
    /\ ActiveCount < MaxActive
    /\ clerk' = [clerk EXCEPT ![k] = [Resting EXCEPT !.op = op, !.count = ActiveCount,
                                                    !.pc = IF op = "book" THEN "commit" ELSE "load"]]
    /\ UNCHANGED <<event, drafts, files, copied, elsewhere, made, papered, cut, crossed, rushed>>

\* The documents of a creation: one of each type, numbered on from made.
Bundles ==
    {b \in UNION {[made + 1 .. made + n -> [type : DocType, size : Size, status : {"ACTIVE"}]] :
                    n \in 1..(MaxDrafts - made)} :
        \A d, e \in DOMAIN b : b[d].type = b[e].type => d = e}

\* Each document is checked against the quota and written to disk; a rollback,
\* for the quota or because the documentation is incomplete, leaves the files.
CreateWrite(k) ==
    /\ clerk[k].op = "create" /\ clerk[k].pc = "load"
    /\ \/ /\ clerk' = [clerk EXCEPT ![k].pc = "commit"]
          /\ UNCHANGED <<files, made>>
       \/ \E b \in Bundles :
            /\ made' = made + Cardinality(DOMAIN b)
            /\ IF BytesOf(b, DOMAIN b) <= MaxBytes
               THEN /\ files' = files \cup DOMAIN b
                    /\ clerk' = [clerk EXCEPT ![k] = IF Required \subseteq TypesOf(b)
                                    THEN [@ EXCEPT !.pc = "commit", !.docs = b] ELSE Resting]
               ELSE /\ \E S \in SUBSET DOMAIN b, d \in DOMAIN b :
                          /\ BytesOf(b, S) <= MaxBytes /\ BytesOf(b, S \cup {d}) > MaxBytes
                          /\ files' = files \cup S
                    /\ clerk' = [clerk EXCEPT ![k] = Resting]
    /\ UNCHANGED <<event, drafts, copied, elsewhere, papered, cut, crossed, rushed>>

Rushed(k) == rushed' = (rushed \/ ActiveCount > clerk[k].count)

CreateCommit(k) ==
    /\ clerk[k].op = "create" /\ clerk[k].pc = "commit"
    /\ event' = [r \in Member |-> "open"]
    /\ drafts' = clerk[k].docs
    /\ papered' = (clerk[k].docs # <<>>)
    /\ clerk' = [clerk EXCEPT ![k] = Resting]
    /\ Rushed(k)
    /\ UNCHANGED <<files, copied, elsewhere, made, cut, crossed>>

BookCommit(k) ==
    /\ clerk[k].op = "book" /\ clerk[k].pc = "commit"
    /\ elsewhere' = elsewhere + 1
    /\ clerk' = [clerk EXCEPT ![k] = Resting]
    /\ Rushed(k)
    /\ UNCHANGED <<event, drafts, files, copied, made, papered, cut, crossed>>

\* Another reservation of the customer is confirmed or over.
ElsewhereEnds ==
    /\ elsewhere > 0 /\ elsewhere' = elsewhere - 1
    /\ UNCHANGED <<event, drafts, files, copied, clerk, made, papered, cut, crossed, rushed>>

-----------------------------------------------------------------------------
(* Uploads.                                                                *)

\* Mutants: nothing is superseded; the quota counts the new file only.
ReplaceableNone(type) == {NoDraft}

FitsAlone(size, old) == size <= MaxBytes

\* The ACTIVE version that a query finds first; OTRO has no versions.
Replaceable(type) ==
    LET found == {d \in ActiveOf(drafts) : drafts[d].type = type}
    IN  IF type = Otro \/ found = {} THEN {NoDraft} ELSE found

Fits(size, old) ==
    BytesOf(drafts, ActiveOf(drafts)) + size
        - (IF old = NoDraft THEN 0 ELSE drafts[old].size) <= MaxBytes

\* Mutant: the statuses of the reservations are not looked at.
UploadLoadAlways(k, type, size) ==
    /\ clerk[k] = Resting /\ ~ Unbooked /\ ~ Over
    /\ made + Cardinality({j \in Clerk : clerk[j].op = "upload"}) < MaxDrafts
    /\ \E old \in Replaceable(type) :
        /\ Fits(size, old)
        /\ clerk' = [clerk EXCEPT ![k] =
                        [Resting EXCEPT !.op = "upload", !.pc = "load", !.old = old,
                                        !.docs = [d \in {0} |-> New(type, size)],
                                        !.seen = ActiveOf(drafts), !.at = event]]
    /\ UNCHANGED <<event, drafts, files, copied, elsewhere, made, papered, cut, crossed, rushed>>

\* upload_document_version, while every reservation is still unpaid.
UploadLoad(k, type, size) ==
    /\ clerk[k] = Resting /\ Open
    /\ made + Cardinality({j \in Clerk : clerk[j].op = "upload"}) < MaxDrafts
    /\ \E old \in Replaceable(type) :
        /\ Fits(size, old)
        /\ clerk' = [clerk EXCEPT ![k] =
                        [Resting EXCEPT !.op = "upload", !.pc = "load", !.old = old,
                                        !.docs = [d \in {0} |-> New(type, size)],
                                        !.seen = ActiveOf(drafts), !.at = event]]
    /\ UNCHANGED <<event, drafts, files, copied, elsewhere, made, papered, cut, crossed, rushed>>

\* The file is written before the row.
UploadWrite(k) ==
    /\ clerk[k].op = "upload" /\ clerk[k].pc = "load"
    /\ made' = made + 1
    /\ files' = files \cup {made + 1}
    /\ clerk' = [clerk EXCEPT ![k].pc = "commit", ![k].docs = [d \in {made + 1} |-> @[0]]]
    /\ UNCHANGED <<event, drafts, copied, elsewhere, papered, cut, crossed, rushed>>

\* The UPDATE of a row that is gone fails, and the upload with it.
UploadCommit(k) ==
    LET old == clerk[k].old IN
    /\ clerk[k].op = "upload" /\ clerk[k].pc = "commit"
    /\ IF old = NoDraft
       THEN drafts' = With(drafts, clerk[k].docs)
       ELSE IF old \in DOMAIN drafts
       THEN drafts' = With([drafts EXCEPT ![old].status = "SUPERSEDED"], clerk[k].docs)
       ELSE UNCHANGED drafts
    /\ crossed' = (crossed \/ event # clerk[k].at \/ ActiveOf(drafts) # clerk[k].seen)
    /\ clerk' = [clerk EXCEPT ![k] = Resting]
    /\ UNCHANGED <<event, files, copied, elsewhere, made, papered, cut, rushed>>

-----------------------------------------------------------------------------
(* The end of the event.                                                   *)

Leaving == UNION {clerk[k].leaving : k \in Clerk}

\* upload_slip, confirm (which copies the active types once, if this is the
\* anchor) and reject, which purges nothing.
Slip(r) ==
    /\ event[r] = "open" /\ r \notin Leaving
    /\ event' = [event EXCEPT ![r] = "review"]
    /\ UNCHANGED <<drafts, files, copied, elsewhere, clerk, made, papered, cut, crossed, rushed>>

Confirm(r) ==
    /\ event[r] = "review"
    /\ event' = [event EXCEPT ![r] = "confirmed"]
    /\ copied' = IF r = Anchor THEN copied \cup TypesOf(drafts) ELSE copied
    /\ UNCHANGED <<drafts, files, elsewhere, clerk, made, papered, cut, crossed, rushed>>

Reject(r) ==
    /\ event[r] = "review"
    /\ event' = [event EXCEPT ![r] = "over"]
    /\ UNCHANGED <<drafts, files, copied, elsewhere, clerk, made, papered, cut, crossed, rushed>>

\* purge_kyc_drafts_for_group_if_all_terminal, by a transaction that has ended
\* S and sees what others committed.
Purges(S) == \A r \in Member \ S : event[r] = "over"

\* The sweep or a cancellation ends one reservation, a cancellation of the
\* event all that are left of it (and none is under review).
Leave(k, S) ==
    /\ clerk[k] = Resting
    /\ S # {} /\ S \cap Leaving = {} /\ \A r \in S : event[r] = "open"
    /\ \/ Cardinality(S) = 1
       \/ \A r \in Member : r \in S \/ event[r] = "over"
    /\ clerk' = [clerk EXCEPT ![k] = [Resting EXCEPT !.op = "leave", !.leaving = S,
                    !.seen = IF Purges(S) THEN DOMAIN drafts ELSE {},
                    !.pc = IF Purges(S) /\ drafts # <<>> THEN "purge" ELSE "commit"]]
    /\ UNCHANGED <<event, drafts, files, copied, elsewhere, made, papered, cut, crossed, rushed>>

\* Mutant: the task passes over drafts that have lost their files.
CleanUpWithFiles(k) ==
    /\ clerk[k] = Resting
    /\ Over /\ drafts # <<>> /\ DOMAIN drafts \subseteq files
    /\ clerk' = [clerk EXCEPT ![k] = [Resting EXCEPT !.op = "cleanup", !.pc = "purge",
                                                    !.seen = DOMAIN drafts]]
    /\ UNCHANGED <<event, drafts, files, copied, elsewhere, made, papered, cut, crossed, rushed>>

\* cleanup_orphan_kyc_drafts, every night.
CleanUp(k) ==
    /\ clerk[k] = Resting
    /\ Over /\ drafts # <<>>
    /\ clerk' = [clerk EXCEPT ![k] = [Resting EXCEPT !.op = "cleanup", !.pc = "purge",
                                                    !.seen = DOMAIN drafts]]
    /\ UNCHANGED <<event, drafts, files, copied, elsewhere, made, papered, cut, crossed, rushed>>

\* The files of the drafts that were listed go, as far as that succeeds; then
\* all rows of the event are deleted, also those that came in between.
Purge(k) ==
    /\ clerk[k].pc = "purge"
    /\ \E gone \in {{}, clerk[k].seen} : files' = files \ gone
    /\ clerk' = [clerk EXCEPT ![k].pc = "commit", ![k].seen = DOMAIN drafts]
    /\ UNCHANGED <<event, drafts, copied, elsewhere, made, papered, cut, crossed, rushed>>

PurgeCommit(k) ==
    /\ clerk[k].op \in {"leave", "cleanup"} /\ clerk[k].pc = "commit"
    /\ event' = [r \in Member |-> IF r \in clerk[k].leaving THEN "over" ELSE event[r]]
    /\ drafts' = Restrict(drafts, DOMAIN drafts \ clerk[k].seen)
    /\ clerk' = [clerk EXCEPT ![k] = Resting]
    /\ UNCHANGED <<files, copied, elsewhere, made, papered, cut, crossed, rushed>>

\* A worker is killed before its commit.
KillClerk(k) ==
    /\ clerk[k].pc = "commit"
    /\ clerk' = [clerk EXCEPT ![k] = Resting]
    /\ cut' = (cut \/ clerk[k].op = "leave")
    /\ UNCHANGED <<event, drafts, files, copied, elsewhere, made, papered, crossed, rushed>>

-----------------------------------------------------------------------------
DossierInit ==
    /\ event = [r \in Member |-> "none"]
    /\ drafts = <<>> /\ files = {} /\ copied = {}
    /\ elsewhere = 0
    /\ clerk = [k \in Clerk |-> Resting]
    /\ made = 0
    /\ papered = FALSE /\ cut = FALSE /\ crossed = FALSE /\ rushed = FALSE

Completes(k) ==
    CreateWrite(k) \/ CreateCommit(k) \/ BookCommit(k) \/ UploadWrite(k) \/ UploadCommit(k)
    \/ Purge(k)

DossierNext ==
    \/ ElsewhereEnds
    \/ \E r \in Member : Slip(r) \/ Confirm(r) \/ Reject(r)
    \/ \E k \in Clerk :
        \/ Completes(k) \/ PurgeCommit(k) \/ KillClerk(k) \/ CleanUp(k)
        \/ \E op \in {"create", "book"} : CountActive(k, op)
        \/ \E type \in DocType, size \in Size : UploadLoad(k, type, size)
        \/ \E S \in SUBSET Member : Leave(k, S)

\* Requests are carried on with; the nightly task runs again and again, and is
\* not killed every time just before it commits.
DossierFairness ==
    /\ SF_dossierVars(\E k \in Clerk : CleanUp(k))
    /\ \A k \in Clerk : WF_dossierVars(Completes(k)) /\ SF_dossierVars(PurgeCommit(k))

DossierSpec == DossierInit /\ [][DossierNext]_dossierVars

-----------------------------------------------------------------------------
(* Properties.                                                             *)

\* Types, and the bounds on drafts and reservations.
DossierTypeOK ==
    /\ event \in [Member -> Statuses]
    /\ Unbooked \/ \A r \in Member : event[r] # "none"
    /\ DOMAIN drafts \subseteq 1..made /\ files \subseteq 1..made /\ made <= MaxDrafts
    /\ \A d \in DOMAIN drafts : /\ drafts[d].type \in DocType /\ drafts[d].size \in Size
                                /\ drafts[d].status \in {"ACTIVE", "SUPERSEDED"}
    /\ copied \subseteq DocType
    /\ elsewhere \in 0..(MaxActive + Cardinality(Clerk) - 1)

\* A type has one active version and the drafts stay within the quota, unless
\* an upload committed after the drafts it had read changed
\* (reservation_documents/services.py:267-286).
OneActiveVersion ==
    ~ crossed => \A d, e \in ActiveOf(drafts) :
                    drafts[d].type = drafts[e].type /\ drafts[d].type # Otro => d = e

QuotaHolds == ~ crossed => BytesOf(drafts, ActiveOf(drafts)) <= MaxBytes

\* However uploads and purges overlap: a type that is provided stays provided
\* while a reservation of the event lives.
NoTypeLost ==
    [][TypesOf(drafts) \subseteq TypesOf(drafts') \/ Over']_dossierVars

\* And an event that was created with its documents stays complete.
StaysComplete ==
    papered /\ ~ Over => Required \subseteq TypesOf(drafts)

\* The drafts of a living event have their files, unless a cancellation is
\* about to end it or was cut off between the files and the rows.
LiveDraftsHaveFiles ==
    Over \/ cut \/ (\E k \in Clerk : clerk[k].op = "leave") \/ DOMAIN drafts \subseteq files

\* What finance reviews stays as it is (INVALID_STATE), unless an upload had
\* passed the check before.
FrozenUnderReview ==
    [][(\E r \in Member : event[r] \in {"review", "confirmed"})
        => (drafts' = drafts \/ crossed')]_dossierVars

\* With the same exception, the expediente of a confirmed anchor has the types
\* of the active drafts.
AnchorCopied ==
    event[Anchor] = "confirmed" /\ ~ crossed => copied = TypesOf(drafts)

\* The limit of active reservations holds, unless two creations overlapped
\* (anti_hoarding.py:44-63 counts without a lock).
LimitHeld == ~ rushed => ActiveCount <= MaxActive

\* The drafts of an event that is over go, even if two cancellations did not
\* see each other, an upload came late or a purge was killed.
DraftsGo == Over /\ drafts # <<>> ~> drafts = <<>>

\* The identity documents of an event (modules/reservation_documents).
DossierInv ==
    /\ DossierTypeOK
    /\ OneActiveVersion /\ QuotaHolds /\ StaysComplete
    /\ LiveDraftsHaveFiles /\ AnchorCopied /\ LimitHeld

\* What no step may do to them.
DossierFrozen == NoTypeLost /\ FrozenUnderReview

=============================================================================
