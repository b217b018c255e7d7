---------------------------- MODULE Fulfillment ----------------------------
(***************************************************************************)
(* A service order (modules/fulfillment): its checklist, the evidence that *)
(* the customer and the staff upload and the staff reviews, the files, and *)
(* the readiness that the gate asks for.                                   *)
(*                                                                         *)
(* A request loads a row, writes or removes a file, and commits.  Another  *)
(* request may run between those steps, and the worker may be killed there.*)
(* The ORM writes the columns whose value differs from the loaded one: a   *)
(* column set to the value it was loaded with is not written.              *)
(***************************************************************************)
EXTENDS Integers, FiniteSets

CONSTANTS
    Evidence,       \* rows of evidence_requirements that may come to exist
    TipoOf,         \* their tipo_documento
    FirstEvidence,  \* those that the order is created with
    CheckItem,      \* items of the checklists
    Critical,       \* those with is_critical
    Helper,         \* requests that run at the same time
    Extension,      \* extensions of uploaded files
    NoFile,
    NoEvidence,
    MaxUploads,     \* bound on uploads
    MaxChanges      \* bound on reviews, deletions, patches and kills

ASSUME FulfillmentAssumption ==
    /\ FirstEvidence \subseteq Evidence
    /\ DOMAIN TipoOf = Evidence
    /\ \A e, f \in FirstEvidence : TipoOf[e] = TipoOf[f] => e = f
    /\ Critical \subseteq CheckItem
    /\ NoFile \notin Extension /\ NoEvidence \notin Evidence \cup CheckItem
    /\ Evidence \cap CheckItem = {}
    /\ MaxUploads \in Nat /\ MaxChanges \in Nat /\ IsFiniteSet(Helper)

VARIABLES
    order,      \* status of the order
    checked,    \* completed items
    evidence,   \* estado, file_path (its extension) of the rows that exist
    disk,       \* version of the file of each row and extension, 0 if none
    helper,     \* what each request is doing, and what it loaded
    uploads,    \* uploads so far: they number the versions
    changes,
    approved,   \* the version that was on disk when the row was approved
    byHand,     \* the status was set by hand, or a recomputation was cut off
    earned,     \* the order has been ready at some time
    touched,    \* rows at which two requests met, or one was cut off
    mixed       \* a row was written between the two reads of a recomputation

fulfillmentVars == <<order, checked, evidence, disk, helper, uploads, changes, approved,
                     byHand, earned, touched, mixed>>

OrderStatus == {"PENDING", "IN_PROGRESS", "READY", "CANCELLED"}

Estado == {"PENDIENTE", "PENDIENTE_REVISION", "APROBADO", "RECHAZADO"}

Idle == [op |-> "none", row |-> NoEvidence, estado |-> "PENDIENTE", path |-> NoFile,
         new |-> "none", version |-> 0, own |-> NoEvidence, held |-> FALSE]

\* A request that has committed and is about to look at the order again, with
\* the item or evidence that it changed.
Rechecking(x) == [Idle EXCEPT !.op = "refresh", !.own = x]

Rows == DOMAIN evidence

RowsOf(tipo) == {e \in Rows : TipoOf[e] = tipo}

VersionOf(e) == IF evidence[e].path = NoFile THEN 0 ELSE disk[e][evidence[e].path]

\* The row that a query finds, with what it held.
Loaded(op, e, new) ==
    [op |-> op, row |-> e, estado |-> evidence[e].estado, path |-> evidence[e].path,
     new |-> new, version |-> IF op = "review" THEN VersionOf(e) ELSE 0,
     own |-> NoEvidence, held |-> FALSE]

\* Requests that work on a row meet there.
Meets(e) == IF \E j \in Helper : helper[j].row = e THEN touched \cup {e} ELSE touched

\* An item or evidence is written that a recomputation has read already.
Writes(x) ==
    mixed' = (mixed \/ \E j \in Helper : helper[j].op = "recompute" /\ helper[j].own = x)

-----------------------------------------------------------------------------
(* Readiness.                                                              *)

\* Mutant: a document that awaits its review is good enough.
IsReadyUnreviewed(done, rows) ==
    /\ Critical \subseteq done
    /\ \A e \in DOMAIN rows : rows[e].estado \in {"APROBADO", "PENDIENTE_REVISION"}

\* _readiness_result.  An order without critical items (the default ones are
\* not critical) or without evidence has nothing to wait for.
IsReady(done, rows) ==
    /\ Critical \subseteq done
    /\ \A e \in DOMAIN rows : rows[e].estado = "APROBADO"

\* The order has been ready if it is now.
Earns == earned' = (earned \/ (Critical \subseteq checked'
                               /\ \A e \in DOMAIN evidence' : evidence'[e].estado = "APROBADO"))

\* After its commit the request reads the row that it changed again
\* (db.refresh) ...
Refresh(k) ==
    LET x == helper[k].own IN
    /\ helper[k].op = "refresh"
    /\ helper' = [helper EXCEPT
                    ![k].op = "recompute", ![k].held = x \in checked,
                    ![k].estado = IF x \in Rows THEN evidence[x].estado ELSE "PENDIENTE"]
    /\ UNCHANGED <<order, checked, evidence, disk, uploads, changes, approved, byHand, earned,
                   touched, mixed>>

\* ... and compute_readiness queries the order with its items and rows.  The
\* one that the session holds already keeps the value of the first read.
SeenItems(job, done) ==
    IF job.own \in CheckItem
    THEN {i \in done \cup {job.own} : i = job.own => job.held}
    ELSE done

SeenRows(job, rows) ==
    IF job.own \in DOMAIN rows THEN [rows EXCEPT ![job.own].estado = job.estado] ELSE rows

RecomputeLoad(k) ==
    /\ helper[k].op = "recompute"
    /\ helper' = [helper EXCEPT ![k] =
                    IF /\ IsReady(SeenItems(helper[k], checked), SeenRows(helper[k], evidence))
                       /\ order \in {"PENDING", "IN_PROGRESS"}
                    THEN [Idle EXCEPT !.op = "marking"] ELSE Idle]
    /\ UNCHANGED <<order, checked, evidence, disk, uploads, changes, approved, byHand, earned,
                   touched, mixed>>

\* ... and moves the order to READY; nothing ever moves it back.
RecomputeCommit(k) ==
    /\ helper[k].op = "marking"
    /\ order' = "READY"
    /\ helper' = [helper EXCEPT ![k] = Idle]
    /\ UNCHANGED <<checked, evidence, disk, uploads, changes, approved, byHand, earned,
                   touched, mixed>>

\* PATCH /service-orders/{id}: any status, without a check.
PatchOrder ==
    /\ changes < MaxChanges /\ changes' = changes + 1
    /\ order' \in OrderStatus
    /\ byHand' = TRUE
    /\ UNCHANGED <<checked, evidence, disk, helper, uploads, approved, earned, touched, mixed>>

\* PATCH /service-order-items/{id} commits, then recomputes in a second
\* transaction.
PatchItem(k, i) ==
    /\ changes < MaxChanges /\ changes' = changes + 1
    /\ helper[k] = Idle
    /\ checked' \in {checked \cup {i}, checked \ {i}}
    /\ helper' = [helper EXCEPT ![k] = Rechecking(i)]
    /\ UNCHANGED <<order, evidence, disk, uploads, approved, byHand, touched>>
    /\ Writes(i) /\ Earns

-----------------------------------------------------------------------------
(* Evidence.                                                               *)

MayUpload ==
    uploads + Cardinality({k \in Helper : helper[k].op \in {"upload", "creating"}}) < MaxUploads

Unused(tipo) ==
    {e \in Evidence \ Rows : TipoOf[e] = tipo /\ \A j \in Helper : helper[j].row # e}

NewRow(tipo) == CHOOSE e \in Unused(tipo) : TRUE

\* Both uploads look up the row of the type; a new type gets a row of its own,
\* and a second request does not see it before the first commits.
EvidenceLoad(k, tipo) ==
    /\ MayUpload
    /\ helper[k] = Idle
    /\ \/ \E e \in RowsOf(tipo) :
            /\ helper' = [helper EXCEPT ![k] = Loaded("upload", e, "none")]
            /\ touched' = Meets(e)
       \/ /\ RowsOf(tipo) = {} /\ Unused(tipo) # {}
          /\ LET e == NewRow(tipo) IN
            /\ helper' = [helper EXCEPT ![k] = [Idle EXCEPT !.op = "creating", !.row = e]]
            /\ touched' = IF \E j \in Helper : helper[j].op \in {"creating", "created"}
                          THEN touched \cup {e} ELSE touched
    /\ UNCHANGED <<order, checked, evidence, disk, uploads, changes, approved, byHand, earned,
                   mixed>>

\* The file is overwritten before the commit: it is named after the row.
EvidenceWrite(k) ==
    /\ helper[k].op \in {"upload", "creating"}
    /\ \E x \in Extension :
        /\ disk' = [disk EXCEPT ![helper[k].row][x] = uploads + 1]
        /\ helper' = [helper EXCEPT ![k].op = IF @ = "upload" THEN "written" ELSE "created",
                                    ![k].new = x]
    /\ uploads' = uploads + 1
    /\ UNCHANGED <<order, checked, evidence, changes, approved, byHand, earned, touched, mixed>>

\* The row goes back to review from whatever it was loaded as; if it was
\* loaded as PENDIENTE_REVISION, estado is not written.
EvidenceCommit(k) ==
    LET job == helper[k]
        e == job.row IN
    /\ job.op \in {"written", "created"}
    /\ evidence' =
        [f \in Rows \cup {e} |->
            IF f # e THEN evidence[f]
            ELSE [estado |-> IF job.op = "written" /\ job.estado = "PENDIENTE_REVISION"
                             THEN evidence[e].estado ELSE "PENDIENTE_REVISION",
                  path |-> IF job.op = "written" /\ job.path = job.new
                           THEN evidence[e].path ELSE job.new]]
    /\ helper' = [helper EXCEPT ![k] = Idle]
    /\ Writes(e)
    /\ UNCHANGED <<order, checked, disk, uploads, changes, approved, byHand, earned, touched>>

\* DELETE of the document, which the customer may do unless it is approved ...
DeleteLoad(k, e) ==
    /\ helper[k] = Idle
    /\ changes < MaxChanges /\ changes' = changes + 1
    /\ evidence[e].estado # "APROBADO"
    /\ helper' = [helper EXCEPT ![k] = Loaded("delete", e, "none")]
    /\ touched' = Meets(e)
    /\ UNCHANGED <<order, checked, evidence, disk, uploads, approved, byHand, earned, mixed>>

\* ... removes the file, if that succeeds ...
DeleteUnlink(k) ==
    /\ helper[k].op = "delete"
    /\ IF helper[k].path = NoFile THEN UNCHANGED disk
       ELSE disk' \in {disk, [disk EXCEPT ![helper[k].row][helper[k].path] = 0]}
    /\ helper' = [helper EXCEPT ![k].op = "unlinked"]
    /\ UNCHANGED <<order, checked, evidence, uploads, changes, approved, byHand, earned,
                   touched, mixed>>

\* ... and clears the columns that were loaded with something in them.
DeleteCommit(k) ==
    LET job == helper[k]
        e == job.row IN
    /\ job.op = "unlinked"
    /\ evidence' = [evidence EXCEPT
                        ![e].estado = IF job.estado = "PENDIENTE" THEN @ ELSE "PENDIENTE",
                        ![e].path = IF job.path = NoFile THEN @ ELSE NoFile]
    /\ helper' = [helper EXCEPT ![k] = Idle]
    /\ Writes(e)
    /\ UNCHANGED <<order, checked, disk, uploads, changes, approved, byHand, earned, touched>>

\* PATCH /service-order-evidence/{id}: the reviewer has seen what is on disk,
\* and may decide without a document and more than once.
ReviewLoad(k, e, new) ==
    /\ helper[k] = Idle
    /\ changes < MaxChanges /\ changes' = changes + 1
    /\ helper' = [helper EXCEPT ![k] = Loaded("review", e, new)]
    /\ touched' = Meets(e)
    /\ UNCHANGED <<order, checked, evidence, disk, uploads, approved, byHand, earned, mixed>>

Approves(job) ==
    IF job.new = "APROBADO" THEN [approved EXCEPT ![job.row] = job.version] ELSE approved

\* Mutant: the readiness is computed in the transaction of the approval, which
\* sees no other open one.
ReviewCommitTogether(k) ==
    LET job == helper[k]
        e == job.row
        rows == [evidence EXCEPT ![e].estado = IF job.estado = job.new THEN @ ELSE job.new]
    IN
    /\ job.op \in {"review", "reviewed"}
    /\ IF job.op = "review"
       THEN /\ helper' = [helper EXCEPT ![k].op = "reviewed", ![k].path =
                            IF job.new = "APROBADO" /\ IsReady(checked, rows) THEN "ready"
                            ELSE NoFile]
            /\ UNCHANGED <<order, evidence, approved>>
       ELSE /\ helper' = [helper EXCEPT ![k] = Idle]
            /\ evidence' = rows /\ approved' = Approves(job)
            /\ order' = IF job.path = "ready" /\ order \in {"PENDING", "IN_PROGRESS"}
                        THEN "READY" ELSE order
    /\ UNCHANGED <<checked, disk, uploads, changes, byHand, touched, mixed>>
    /\ Earns

\* An approval is committed, then readiness is recomputed.
ReviewCommit(k) ==
    LET job == helper[k]
        e == job.row IN
    /\ job.op = "review"
    /\ evidence' = [evidence EXCEPT ![e].estado = IF job.estado = job.new THEN @ ELSE job.new]
    /\ helper' = [helper EXCEPT ![k] =
                    IF job.new = "APROBADO" THEN Rechecking(e) ELSE Idle]
    /\ approved' = Approves(job)
    /\ UNCHANGED <<order, checked, disk, uploads, changes, byHand, touched>>
    /\ Writes(e) /\ Earns

\* The worker is killed: what is on disk stays, the transaction is lost.
KillHelper(k) ==
    /\ helper[k] # Idle
    /\ changes < MaxChanges /\ changes' = changes + 1
    /\ touched' = touched \cup ({helper[k].row} \ {NoEvidence})
    /\ byHand' = (byHand \/ helper[k].op \in {"refresh", "recompute", "marking"})
    /\ helper' = [helper EXCEPT ![k] = Idle]
    /\ UNCHANGED <<order, checked, evidence, disk, uploads, approved, earned, mixed>>

-----------------------------------------------------------------------------
FulfillmentInit ==
    /\ order = "PENDING"
    /\ checked = {}
    /\ evidence = [e \in FirstEvidence |-> [estado |-> "PENDIENTE", path |-> NoFile]]
    /\ disk = [e \in Evidence |-> [x \in Extension |-> 0]]
    /\ helper = [k \in Helper |-> Idle]
    /\ uploads = 0 /\ changes = 0
    /\ approved = [e \in Evidence |-> 0]
    /\ byHand = FALSE
    /\ earned = (Critical = {} /\ FirstEvidence = {})
    /\ touched = {} /\ mixed = FALSE

Finishes(k) ==
    \/ EvidenceWrite(k) \/ EvidenceCommit(k)
    \/ DeleteUnlink(k) \/ DeleteCommit(k)
    \/ ReviewCommit(k) \/ Refresh(k) \/ RecomputeLoad(k) \/ RecomputeCommit(k)

FulfillmentNext ==
    \/ PatchOrder
    \/ \E k \in Helper :
        \/ Finishes(k) \/ KillHelper(k)
        \/ \E i \in CheckItem : PatchItem(k, i)
        \/ \E tipo \in {TipoOf[e] : e \in Evidence} : EvidenceLoad(k, tipo)
        \/ \E e \in Rows : DeleteLoad(k, e)
        \/ \E e \in Rows, new \in {"APROBADO", "RECHAZADO"} : ReviewLoad(k, e, new)

\* A request that was taken up is carried on with.
FulfillmentFairness == \A k \in Helper : WF_fulfillmentVars(Finishes(k))

FulfillmentSpec == FulfillmentInit /\ [][FulfillmentNext]_fulfillmentVars

-----------------------------------------------------------------------------
(* Properties.                                                             *)

\* Types of the rows, the files and the requests.
FulfillmentTypeOK ==
    /\ order \in OrderStatus
    /\ checked \subseteq CheckItem
    /\ FirstEvidence \subseteq Rows /\ Rows \subseteq Evidence
    /\ \A e \in Rows : /\ evidence[e].estado \in Estado
                       /\ evidence[e].path \in Extension \cup {NoFile}
    /\ disk \in [Evidence -> [Extension -> 0..MaxUploads]]
    /\ \A k \in Helper : helper[k].op \in {"upload", "written", "delete", "unlinked", "review"}
                            => helper[k].row \in Rows
    /\ uploads \in 0..MaxUploads /\ changes \in 0..MaxChanges
    /\ approved \in [Evidence -> 0..MaxUploads]
    /\ byHand \in BOOLEAN /\ earned \in BOOLEAN
    /\ touched \subseteq Evidence /\ mixed \in BOOLEAN

\* Rows at which no request is at work and no two requests ever met.
Settled == Rows \ (touched \cup {helper[k].row : k \in Helper})

\* An approved document is the one that was reviewed, unless another request
\* for it was open or was cut off (router.py:305-309 writes the file before
\* the status, and the status only if it differs from the loaded one).
ApprovedAsReviewed ==
    \A e \in Settled :
        evidence[e].estado = "APROBADO" => VersionOf(e) = approved[e]

\* A row that names a file has one, with the same exceptions (router.py:480-495).
RowsHaveFiles ==
    \A e \in Settled : evidence[e].path # NoFile => VersionOf(e) # 0

\* A type of document has one row, or two first uploads of it met.
OneRowPerTipo ==
    \A e, f \in Settled : TipoOf[e] = TipoOf[f] => e = f

\* The order is READY only if at some time every critical item was completed
\* and every document approved, or somebody set it by hand, or the item or
\* document that a recomputation had refreshed was written once more before it
\* queried the others (router.py:218-222, 579-584).
ReadyWasEarned == order = "READY" => earned \/ byHand \/ mixed

\* An order that has everything becomes READY, whoever contributed the last
\* piece (router.py:218-222, 579-584), unless it loses a piece again, or the
\* recomputation was cut off or somebody set the status by hand.
ReadinessLands ==
    IsReady(checked, evidence) ~> (order = "READY" \/ byHand \/ ~ IsReady(checked, evidence))

\* The checklist and the documents of an order (modules/fulfillment).
FulfillmentInv ==
    /\ FulfillmentTypeOK
    /\ ApprovedAsReviewed /\ RowsHaveFiles /\ OneRowPerTipo
    /\ ReadyWasEarned

=============================================================================
