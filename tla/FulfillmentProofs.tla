-------------------------- MODULE FulfillmentProofs --------------------------
(***************************************************************************)
(* Theorems about a service order, for any number of items, of documents   *)
(* and of requests at work on them, and about the identity documents of an *)
(* event, for any number of reservations, of types and of requests.        *)
(***************************************************************************)
EXTENDS Fulfillment, Dossier, FiniteData

-----------------------------------------------------------------------------
(* The inductive invariant.                                                *)

OnRow == {"upload", "written", "delete", "unlinked", "review"}

Making == {"creating", "created"}

Rowless == {"none", "refresh", "recompute", "marking"}

Job == [op : OnRow \cup Making \cup Rowless,
        row : Evidence \cup {NoEvidence}, estado : Estado, path : Extension \cup {NoFile},
        new : Extension \cup {"none", "APROBADO", "RECHAZADO"}, version : 0..MaxUploads,
        own : Evidence \cup CheckItem \cup {NoEvidence}, held : BOOLEAN]

Paper == [estado : Estado, path : Extension \cup {NoFile}]

\* Uploads that are still to write their file.
Pending == {k \in Helper : helper[k].op \in {"upload", "creating"}}

Typed ==
    /\ order \in OrderStatus
    /\ checked \subseteq CheckItem
    /\ FirstEvidence \subseteq Rows /\ Rows \subseteq Evidence
    /\ evidence \in [Rows -> Paper]
    /\ disk \in [Evidence -> [Extension -> 0..MaxUploads]]
    /\ helper \in [Helper -> Job]
    /\ changes \in 0..MaxChanges
    /\ approved \in [Evidence -> 0..MaxUploads]
    /\ byHand \in BOOLEAN /\ earned \in BOOLEAN
    /\ touched \subseteq Evidence

Counted == uploads \in Nat /\ uploads + Cardinality(Pending) <= MaxUploads

\* What a request holds of its row.
HelperSafe(j) ==
    /\ j.op \in OnRow => j.row \in Rows
    /\ j.op \in Making => j.row \in Evidence \ Rows
    /\ j.op \notin OnRow \cup Making => j.row = NoEvidence
    /\ j.op \in {"written", "created"} =>
         j.new \in Extension /\ (j.row \in touched \/ disk[j.row][j.new] # 0)
    /\ j.op = "review" => j.new \in {"APROBADO", "RECHAZADO"}
    /\ j.op \in OnRow /\ j.row \notin touched =>
         /\ j.estado = evidence[j.row].estado /\ j.path = evidence[j.row].path
         /\ j.op = "review" => j.version = VersionOf(j.row)
         /\ j.op \in {"delete", "unlinked"} => j.estado # "APROBADO"
    \* What is being created is of a type that no row has, or was met by another.
    /\ j.op \in Making /\ j.row \notin touched =>
         \A f \in Rows \ touched : TipoOf[f] # TipoOf[j.row]

HelpersSafe == \A k \in Helper : HelperSafe(helper[k])

\* Two requests.
Apart(i, j) ==
    /\ i.row = j.row /\ i.row # NoEvidence => i.row \in touched /\ {i.op, j.op} \subseteq OnRow
    /\ i.op \in Making /\ j.op \in Making => i.row \in touched \/ j.row \in touched

HelpersApart == \A i, k \in Helper : i # k => Apart(helper[i], helper[k])

\* A row that no request is about to change.
Clean(e) ==
    /\ evidence[e].estado = "APROBADO" => VersionOf(e) = approved[e]
    /\ evidence[e].path # NoFile => VersionOf(e) # 0

RowsSafe ==
    \A e \in Rows \ touched :
        \/ Clean(e)
        \/ \E k \in Helper : helper[k].row = e /\ helper[k].op \in OnRow \ {"review"}

TiposSafe == \A e, f \in Rows \ touched : TipoOf[e] = TipoOf[f] => e = f

OrderSafe ==
    Typed /\ Counted /\ HelpersSafe /\ HelpersApart /\ RowsSafe /\ TiposSafe

-----------------------------------------------------------------------------
(* Steps.                                                                  *)

\* What two requests are to each other they are both ways.
LEMMA ApartSymmetric == \A i, j : Apart(i, j) => Apart(j, i)
  BY DEF Apart

\* A request that takes a step leaves the other ones as they are.
LEMMA HelperAfter ==
    ASSUME Typed, NEW k \in Helper, NEW m, helper' = [helper EXCEPT ![k] = m]
    PROVE  helper'[k] = m /\ \A i \in Helper : i # k => helper'[i] = helper[i]
  BY DEF Typed

\* The requests are finitely many, and any set of them can be counted.
LEMMA PendingFinite ==
    \A S \in SUBSET Helper : IsFiniteSet(S) /\ Cardinality(S) \in Nat
  BY FulfillmentAssumption, FS_Subset, FS_CardinalityType

\* The bound on uploads holds when no new one is begun,
LEMMA CountedStill ==
    ASSUME Typed, Counted, NEW k \in Helper, NEW m, helper' = [helper EXCEPT ![k] = m],
           uploads' = uploads, m.op \in {"upload", "creating"} => k \in Pending
    PROVE  Counted'
<1>1. Pending' \subseteq Pending
  BY HelperAfter DEF Pending
<1>2. Pending \in SUBSET Helper /\ Pending' \in SUBSET Helper
  BY <1>1 DEF Pending
<1>3. Cardinality(Pending') <= Cardinality(Pending) /\ Cardinality(Pending') \in Nat
      /\ Cardinality(Pending) \in Nat
  BY <1>1, <1>2, PendingFinite, FS_Subset
<1> QED
  BY <1>3, FulfillmentAssumption DEF Counted

\* when one more is begun within the bound,
LEMMA CountedByOneMore ==
    ASSUME Typed, Counted, NEW k \in Helper, NEW m, helper' = [helper EXCEPT ![k] = m],
           uploads' = uploads, MayUpload
    PROVE  Counted'
<1>1. Pending' \subseteq Pending \cup {k}
  BY HelperAfter DEF Pending
<1>2. Pending \in SUBSET Helper /\ Pending' \in SUBSET Helper /\ Pending \cup {k} \in SUBSET Helper
  BY <1>1 DEF Pending
<1>3. /\ Cardinality(Pending') <= Cardinality(Pending \cup {k}) /\ Cardinality(Pending') \in Nat
      /\ Cardinality(Pending \cup {k}) \in Nat /\ Cardinality(Pending) \in Nat
  BY <1>1, <1>2, PendingFinite, FS_Subset
<1>4. Cardinality(Pending \cup {k}) <= Cardinality(Pending) + 1
  <2>1. IsFiniteSet(Pending)
    BY <1>2, PendingFinite
  <2>2. CASE k \in Pending
    <3>1. Pending \cup {k} = Pending
      BY <2>2
    <3> QED
      BY <1>3, <3>1
  <2>3. CASE k \notin Pending
    <3>1. Cardinality(Pending \cup {k}) = Cardinality(Pending) + 1
      BY <2>1, <2>3, FS_AddElement
    <3> QED
      BY <1>3, <3>1
  <2> QED
    BY <2>2, <2>3
<1>5. uploads + Cardinality(Pending) < MaxUploads
  BY DEF MayUpload, Pending
<1> QED
  BY <1>3, <1>4, <1>5, FulfillmentAssumption DEF Counted

\* and when one that was begun is written.
LEMMA CountedByOneLess ==
    ASSUME Typed, Counted, NEW k \in Pending, NEW m, helper' = [helper EXCEPT ![k] = m],
           uploads' = uploads + 1, m.op \notin {"upload", "creating"}
    PROVE  Counted' /\ uploads' \in 0..MaxUploads
<1>1. Pending' \subseteq Pending \ {k} /\ k \in Helper
  BY HelperAfter DEF Pending
<1>2. Pending \in SUBSET Helper /\ Pending' \in SUBSET Helper /\ Pending \ {k} \in SUBSET Helper
  BY <1>1 DEF Pending
<1>3. /\ Cardinality(Pending') <= Cardinality(Pending \ {k}) /\ Cardinality(Pending') \in Nat
      /\ Cardinality(Pending \ {k}) \in Nat /\ Cardinality(Pending) \in Nat
  BY <1>1, <1>2, PendingFinite, FS_Subset
<1>4. Cardinality(Pending \ {k}) = Cardinality(Pending) - 1
  <2>1. IsFiniteSet(Pending)
    BY <1>2, PendingFinite
  <2> QED
    BY <2>1, FS_RemoveElement
<1> QED
  BY <1>3, <1>4, FulfillmentAssumption DEF Counted

\* The invariant follows from its parts, shown for the request that moves and
\* for the ones that do not.
LEMMA Assembled ==
    ASSUME OrderSafe, NEW k \in Helper, NEW m, helper' = [helper EXCEPT ![k] = m],
           touched \subseteq touched',
           Typed', Counted', RowsSafe', TiposSafe', HelperSafe(m)',
           \A i \in Helper : \A n : i # k /\ n = helper[i] => HelperSafe(n)' /\ Apart(n, m)'
    PROVE  OrderSafe'
<1>1. helper'[k] = m /\ \A i \in Helper : i # k => helper'[i] = helper[i]
  BY HelperAfter DEF OrderSafe
<1>2. ASSUME NEW i \in Helper PROVE HelperSafe(helper[i])'
  <2>1. PICK n : n = helper'[i]
    OBVIOUS
  <2>2. HelperSafe(n)'
    <3>1. CASE i = k
      BY <1>1, <2>1, <3>1
    <3>2. CASE i # k
      BY <1>1, <2>1, <3>2
    <3> QED
      BY <3>1, <3>2
  <2> QED
    BY <2>1, <2>2 DEF HelperSafe
<1>3. ASSUME NEW i \in Helper, NEW j \in Helper, i # j PROVE Apart(helper[i], helper[j])'
  <2>1. PICK n, o : n = helper'[i] /\ o = helper'[j]
    OBVIOUS
  <2>2. Apart(n, o)'
    <3>1. CASE i = k
      <4>1. n = m /\ o = helper[j]
        BY <1>1, <1>3, <2>1, <3>1
      <4>2. Apart(o, m)'
        BY <1>3, <3>1, <4>1
      <4> QED
        BY <4>1, <4>2 DEF Apart
    <3>2. CASE j = k
      BY <1>1, <1>3, <2>1, <3>2
    <3>3. CASE i # k /\ j # k
      <4>1. Apart(n, o)
        BY <1>1, <1>3, <2>1, <3>3 DEF OrderSafe, HelpersApart
      <4> QED
        BY <4>1 DEF Apart
    <3> QED
      BY <3>1, <3>2, <3>3
  <2> QED
    BY <2>1, <2>2 DEF Apart
<1> QED
  BY <1>2, <1>3 DEF OrderSafe, HelpersSafe, HelpersApart

\* A request takes a row up, or lets go of the order: no row and no file changes.
LEMMA QuietStep ==
    ASSUME OrderSafe, NEW k \in Helper, NEW m, helper' = [helper EXCEPT ![k] = m],
           UNCHANGED <<evidence, disk, approved>>, touched \subseteq touched',
           Typed', Counted', HelperSafe(m)',
           \A i \in Helper : \A n : i # k /\ n = helper[i] => Apart(n, m)',
           helper[k].op \in OnRow \ {"review"} => helper[k].row \in touched'
    PROVE  OrderSafe'
<1>1. helper'[k] = m /\ \A i \in Helper : i # k => helper'[i] = helper[i]
  BY HelperAfter DEF OrderSafe
<1>2. Rows' = Rows /\ \A e : VersionOf(e)' = VersionOf(e)
  BY DEF Rows, VersionOf
<1>3. RowsSafe'
  <2> SUFFICES ASSUME NEW e \in Rows \ touched'
               PROVE  \/ Clean(e)'
                      \/ \E i \in Helper : helper'[i].row = e /\ helper'[i].op \in OnRow \ {"review"}
    BY <1>2 DEF RowsSafe
  <2>1. CASE Clean(e)
    BY <1>2, <2>1 DEF Clean
  <2>2. CASE \E i \in Helper : helper[i].row = e /\ helper[i].op \in OnRow \ {"review"}
    BY <1>1, <2>2
  <2> QED
    BY <2>1, <2>2 DEF OrderSafe, RowsSafe
<1>4. TiposSafe'
  BY <1>2 DEF OrderSafe, TiposSafe
<1>5. ASSUME NEW i \in Helper, NEW n, n = helper[i] PROVE HelperSafe(n)'
  <2>1. HelperSafe(n)
    BY <1>5 DEF OrderSafe, HelpersSafe
  <2> QED
    BY <1>2, <2>1 DEF HelperSafe
<1> QED
  BY <1>3, <1>4, <1>5, Assembled

\* A request works on its row e or on the file of it.
LEMMA RowStep ==
    ASSUME OrderSafe, NEW k \in Helper, NEW m, helper' = [helper EXCEPT ![k] = m],
           NEW e, e = helper[k].row, helper[k].op \in OnRow \cup Making,
           UNCHANGED touched, Typed', Counted', HelperSafe(m)',
           m.row # NoEvidence => m.row = e /\ (helper[k].op \in OnRow => m.op \in OnRow),
           m.op \in Making => helper[k].op \in Making,
           Rows' \in {Rows, Rows \cup {e}}, helper[k].op \in OnRow => Rows' = Rows,
           \A f \in Rows \ {e} : evidence'[f] = evidence[f] /\ approved'[f] = approved[f],
           \A f \in Evidence \ {e} : disk'[f] = disk[f],
           e \in Rows' \ touched =>
             \/ Clean(e)'
             \/ m.row = e /\ m.op \in OnRow \ {"review"}
    PROVE  OrderSafe'
<1>1. helper'[k] = m /\ \A i \in Helper : i # k => helper'[i] = helper[i]
  BY HelperAfter DEF OrderSafe
<1>2. Rows \subseteq Evidence /\ e \in Evidence /\ e # NoEvidence
  BY FulfillmentAssumption DEF OrderSafe, Typed, HelpersSafe, HelperSafe
<1>3. HelperSafe(helper[k])
  BY DEF OrderSafe, HelpersSafe
<1>4. \A f \in Rows \ {e} : VersionOf(f)' = VersionOf(f)
  BY <1>2 DEF VersionOf
<1>5. RowsSafe'
  <2> SUFFICES ASSUME NEW f \in Rows' \ touched
               PROVE  \/ Clean(f)'
                      \/ \E i \in Helper : helper'[i].row = f /\ helper'[i].op \in OnRow \ {"review"}
    BY DEF RowsSafe
  <2>1. CASE f = e
    BY <1>1, <2>1
  <2>2. CASE f # e
    <3>1. f \in Rows \ {e}
      BY <2>2
    <3>2. CASE Clean(f)
      BY <1>4, <3>1, <3>2 DEF Clean
    <3>3. CASE \E i \in Helper : helper[i].row = f /\ helper[i].op \in OnRow \ {"review"}
      BY <1>1, <2>2, <3>3
    <3> QED
      BY <3>1, <3>2, <3>3 DEF OrderSafe, RowsSafe
  <2> QED
    BY <2>1, <2>2
<1>6. TiposSafe'
  <2>1. \A f \in Rows \ touched : e \notin Rows \cup touched => TipoOf[f] # TipoOf[e]
    BY <1>3 DEF HelperSafe
  <2> QED
    BY <2>1 DEF OrderSafe, TiposSafe
<1>7. ASSUME NEW i \in Helper, NEW n, i # k, n = helper[i]
      PROVE  HelperSafe(n)' /\ Apart(n, m)'
  <2>1. HelperSafe(n) /\ Apart(n, helper[k])
    BY <1>7 DEF OrderSafe, HelpersSafe, HelpersApart
  <2>2. n.row = e => e \in touched /\ n.op \in OnRow /\ helper[k].op \in OnRow
    BY <1>2, <2>1 DEF Apart
  <2>3. HelperSafe(n)'
    <3>1. n.op \in OnRow => n.row \in Rows'
      BY <2>1 DEF HelperSafe
    <3>2. n.op \in Making => n.row \in Evidence \ Rows'
      BY <2>1, <2>2 DEF HelperSafe, OnRow, Making
    <3>3. n.op \in {"written", "created"} =>
              n.new \in Extension /\ (n.row \in touched' \/ disk'[n.row][n.new] # 0)
      BY <1>2, <2>1, <2>2 DEF HelperSafe, OnRow, Making
    <3>4. n.op \in OnRow /\ n.row \notin touched' =>
              /\ n.estado = evidence'[n.row].estado /\ n.path = evidence'[n.row].path
              /\ n.op = "review" => n.version = VersionOf(n.row)'
              /\ n.op \in {"delete", "unlinked"} => n.estado # "APROBADO"
      BY <1>4, <2>1, <2>2 DEF HelperSafe
    <3>5. n.op \in Making /\ n.row \notin touched' =>
              \A f \in Rows' \ touched' : TipoOf[f] # TipoOf[n.row]
      <4> SUFFICES ASSUME n.op \in Making, n.row \notin touched,
                          NEW f \in Rows' \ touched
                   PROVE  TipoOf[f] # TipoOf[n.row]
        OBVIOUS
      <4>1. CASE f \in Rows
        BY <2>1, <4>1 DEF HelperSafe
      <4>2. CASE f \notin Rows
        <5>1. f = e /\ helper[k].op \in Making
          BY <4>2
        <5> QED
          BY <2>1, <5>1 DEF Apart
      <4> QED
        BY <4>1, <4>2
    <3> QED
      BY <2>1, <3>1, <3>2, <3>3, <3>4, <3>5 DEF HelperSafe
  <2>4. Apart(n, m)'
    <3>1. n.row = m.row /\ n.row # NoEvidence => n.row \in touched /\ {n.op, m.op} \subseteq OnRow
      BY <2>2
    <3>2. n.op \in Making /\ m.op \in Making => n.row \in touched \/ m.row \in touched
      <4> SUFFICES ASSUME n.op \in Making, m.op \in Making
                   PROVE  n.row \in touched \/ m.row \in touched
        OBVIOUS
      <4>1. m.row = e
        <5>1. m.row \in Evidence
          BY DEF HelperSafe
        <5> QED
          BY <5>1, FulfillmentAssumption
      <4> QED
        BY <2>1, <4>1 DEF Apart
    <3> QED
      BY <3>1, <3>2 DEF Apart
  <2> QED
    BY <2>3, <2>4
<1> QED
  BY <1>5, <1>6, <1>7, Assembled

\* What the invariant says of one request.
LEMMA JobOf ==
    ASSUME OrderSafe, NEW k \in Helper, NEW j, j = helper[k]
    PROVE  j \in Job /\ HelperSafe(j) /\ \A i \in Helper : i # k => Apart(helper[i], j)
  BY DEF OrderSafe, Typed, HelpersSafe, HelpersApart

\* A request that is over is in nobody's way.
LEMMA IdleIsJob == Idle \in Job /\ HelperSafe(Idle) /\ HelperSafe(Idle)'
                   /\ \A n : Apart(n, Idle) /\ Apart(n, Idle)'
  BY FulfillmentAssumption DEF Idle, Job, Estado, HelperSafe, Apart, OnRow, Making, Rowless

\* A request without a row.
LEMMA RowlessIsSafe ==
    ASSUME NEW m, m.op \in Rowless, m.row = NoEvidence
    PROVE  HelperSafe(m)' /\ \A n : Apart(n, m)'
<1>1. m.op \notin OnRow /\ m.op \notin Making
  BY DEF Rowless, OnRow, Making
<1> QED
  BY <1>1 DEF HelperSafe, Apart, OnRow, Making

\* A request that changes nothing but itself, and has no row.
LEMMA RowlessStep ==
    ASSUME OrderSafe, NEW k \in Helper, NEW m \in Job, helper' = [helper EXCEPT ![k] = m],
           helper[k].op \in Rowless, m.op \in Rowless, m.row = NoEvidence,
           UNCHANGED <<order, checked, evidence, disk, uploads, changes, approved, byHand,
                       earned, touched>>
    PROVE  OrderSafe'
<1>1. HelperSafe(m)' /\ \A n : Apart(n, m)'
  BY RowlessIsSafe
<1>2. Typed'
  BY DEF OrderSafe, Typed, Rows
<1>3. Counted'
  BY CountedStill DEF OrderSafe, Rowless
<1>4. helper[k].op \notin OnRow
  BY DEF Rowless, OnRow
<1> QED
  BY <1>1, <1>2, <1>3, <1>4, QuietStep

\* The request reads its own row again,
LEMMA RefreshStep ==
    ASSUME OrderSafe, NEW k \in Helper, Refresh(k) PROVE OrderSafe'
<1>1. PICK j, x : j = helper[k] /\ x = j.own
  OBVIOUS
<1>2. PICK estado, held : /\ estado = IF x \in Rows THEN evidence[x].estado ELSE "PENDIENTE"
                          /\ held = (x \in checked)
  OBVIOUS
<1>3. PICK m : m = [j EXCEPT !.op = "recompute", !.held = held, !.estado = estado]
  OBVIOUS
<1>4. j \in Job /\ HelperSafe(j) /\ j.op = "refresh"
  BY <1>1, JobOf DEF Refresh
<1>5. estado \in Estado /\ held \in BOOLEAN
  BY <1>2 DEF OrderSafe, Typed, Paper, Estado
<1>6. /\ helper' = [helper EXCEPT ![k] = m]
      /\ UNCHANGED <<order, checked, evidence, disk, uploads, changes, approved, byHand,
                     earned, touched>>
  BY <1>1, <1>2, <1>3 DEF Refresh, OrderSafe, Typed
<1>7. m \in Job /\ m.op = "recompute" /\ m.row = j.row
  BY <1>3, <1>4, <1>5 DEF Job, Rowless
<1>8. m.row = NoEvidence
  BY <1>4, <1>7 DEF HelperSafe, OnRow, Making
<1> QED
  BY <1>1, <1>4, <1>6, <1>7, <1>8, RowlessStep DEF Rowless

\* and then whether the order is complete.
LEMMA RecomputeLoadStep ==
    ASSUME OrderSafe, NEW k \in Helper, RecomputeLoad(k) PROVE OrderSafe'
<1>1. PICK op \in {"none", "marking"} : helper' = [helper EXCEPT ![k] = [Idle EXCEPT !.op = op]]
  BY DEF RecomputeLoad, Idle
<1>2. PICK m : m = [Idle EXCEPT !.op = op]
  OBVIOUS
<1>3. m \in Job /\ m.op \in Rowless /\ m.row = NoEvidence
  BY <1>2, IdleIsJob DEF Job, Idle, Rowless
<1>4. /\ UNCHANGED <<order, checked, evidence, disk, uploads, changes, approved, byHand,
                     earned, touched>>
      /\ helper[k].op \in Rowless
  BY DEF RecomputeLoad, Rowless
<1> QED
  BY <1>1, <1>2, <1>3, <1>4, RowlessStep

\* It writes READY, or not.
LEMMA RecomputeCommitStep ==
    ASSUME OrderSafe, NEW k \in Helper, RecomputeCommit(k) PROVE OrderSafe'
<1>1. PICK m : m = Idle
  OBVIOUS
<1>2. /\ helper' = [helper EXCEPT ![k] = m] /\ order' = "READY" /\ helper[k].op = "marking"
      /\ UNCHANGED <<checked, evidence, disk, uploads, changes, approved, byHand, earned,
                     touched>>
  BY <1>1 DEF RecomputeCommit
<1>3. m \in Job /\ HelperSafe(m)' /\ \A n : Apart(n, m)'
  BY <1>1, IdleIsJob
<1>4. Typed'
  BY <1>2, <1>3 DEF OrderSafe, Typed, Rows, OrderStatus
<1>5. Counted'
  BY <1>1, <1>2, CountedStill DEF OrderSafe, Idle
<1> QED
  BY <1>2, <1>3, <1>4, <1>5, QuietStep DEF OnRow

\* The staff set the status of the order by hand.
LEMMA PatchOrderStep == ASSUME OrderSafe, PatchOrder PROVE OrderSafe'
<1>1. /\ UNCHANGED <<checked, evidence, disk, helper, uploads, approved, earned, touched>>
      /\ order' \in OrderStatus /\ byHand' = TRUE /\ changes' = changes + 1
      /\ changes < MaxChanges
  BY DEF PatchOrder
<1>2. Typed'
  <2>1. changes' \in 0..MaxChanges
    BY <1>1, FulfillmentAssumption DEF OrderSafe, Typed
  <2> QED
    BY <1>1, <2>1 DEF OrderSafe, Typed, Rows
<1>3. Counted' /\ TiposSafe'
  BY <1>1 DEF OrderSafe, Counted, Pending, TiposSafe, Rows
<1>4. HelpersSafe' /\ HelpersApart'
  BY <1>1 DEF OrderSafe, HelpersSafe, HelperSafe, HelpersApart, Apart, Rows, VersionOf
<1>5. RowsSafe'
  BY <1>1 DEF OrderSafe, RowsSafe, Clean, Rows, VersionOf
<1> QED
  BY <1>2, <1>3, <1>4, <1>5 DEF OrderSafe

\* A request that has changed something and will look at the order again.
LEMMA RecheckingIsJob ==
    ASSUME NEW x \in Evidence \cup CheckItem, NEW m, m = Rechecking(x)
    PROVE  /\ m \in Job /\ HelperSafe(m)' /\ \A n : Apart(n, m)'
           /\ m.op = "refresh" /\ m.row = NoEvidence
<1>1. m \in Job /\ m.op = "refresh" /\ m.row = NoEvidence
  BY IdleIsJob DEF Job, Idle, Rechecking, Rowless
<1> QED
  BY <1>1, RowlessIsSafe DEF Rowless

\* An item of the checklist is ticked or reopened.
LEMMA PatchItemStep ==
    ASSUME OrderSafe, NEW k \in Helper, NEW i \in CheckItem, PatchItem(k, i)
    PROVE  OrderSafe'
<1>1. PICK m : m = Rechecking(i)
  OBVIOUS
<1>2. /\ helper' = [helper EXCEPT ![k] = m] /\ helper[k] = Idle
      /\ checked' \in {checked \cup {i}, checked \ {i}}
      /\ changes < MaxChanges /\ changes' = changes + 1
      /\ UNCHANGED <<order, evidence, disk, uploads, approved, byHand, touched>>
  BY <1>1 DEF PatchItem
<1>3. m \in Job /\ HelperSafe(m)' /\ (\A n : Apart(n, m)') /\ m.op = "refresh"
  BY <1>1, RecheckingIsJob
<1>4. earned' \in BOOLEAN
  BY DEF PatchItem, Earns
<1>5. Typed'
  <2>1. changes' \in 0..MaxChanges /\ checked' \subseteq CheckItem
    BY <1>2, FulfillmentAssumption DEF OrderSafe, Typed
  <2> QED
    BY <1>2, <1>3, <1>4, <2>1 DEF OrderSafe, Typed, Rows
<1>6. Counted'
  BY <1>2, <1>3, CountedStill DEF OrderSafe
<1>7. helper[k].op = "none"
  BY <1>2 DEF Idle
<1> QED
  BY <1>2, <1>3, <1>5, <1>6, <1>7, QuietStep DEF OnRow

\* The worker of a request dies.
LEMMA KillStep ==
    ASSUME OrderSafe, NEW k \in Helper, KillHelper(k) PROVE OrderSafe'
<1>1. PICK m : m = Idle
  OBVIOUS
<1>2. /\ helper' = [helper EXCEPT ![k] = m]
      /\ touched' = touched \cup ({helper[k].row} \ {NoEvidence})
      /\ byHand' = (byHand \/ helper[k].op \in {"refresh", "recompute", "marking"})
      /\ changes < MaxChanges /\ changes' = changes + 1
      /\ UNCHANGED <<order, checked, evidence, disk, uploads, approved, earned>>
  BY <1>1 DEF KillHelper
<1>3. m \in Job /\ HelperSafe(m)' /\ (\A n : Apart(n, m)') /\ m.op = "none"
  BY <1>1, IdleIsJob DEF Idle
<1>4. helper[k] \in Job /\ HelperSafe(helper[k])
  BY JobOf
<1>5. Typed'
  <2>1. changes' \in 0..MaxChanges /\ touched' \subseteq Evidence /\ byHand' \in BOOLEAN
    BY <1>2, <1>4, FulfillmentAssumption DEF OrderSafe, Typed, Job
  <2> QED
    BY <1>2, <1>3, <2>1 DEF OrderSafe, Typed, Rows
<1>6. Counted'
  BY <1>2, <1>3, CountedStill DEF OrderSafe
<1>7. helper[k].op \in OnRow \ {"review"} => helper[k].row \in touched'
  BY <1>2, <1>4, FulfillmentAssumption DEF HelperSafe, OrderSafe, Typed
<1>8. touched \subseteq touched'
  BY <1>2
<1> QED
  BY <1>2, <1>3, <1>5, <1>6, <1>7, <1>8, QuietStep

\* The version a row's file has is one that was uploaded.
LEMMA VersionsTyped ==
    ASSUME OrderSafe, NEW e \in Rows
    PROVE  /\ e \in Evidence /\ e # NoEvidence /\ evidence[e] \in Paper
           /\ VersionOf(e) \in 0..MaxUploads
<1>1. e \in Evidence /\ e # NoEvidence /\ evidence[e] \in Paper
      /\ disk[e] \in [Extension -> 0..MaxUploads]
  BY FulfillmentAssumption DEF OrderSafe, Typed
<1>2. VersionOf(e) \in 0..MaxUploads
  BY <1>1, FulfillmentAssumption DEF VersionOf, Paper
<1> QED
  BY <1>1, <1>2

\* A request finds its row.
LEMMA FoundStep ==
    ASSUME OrderSafe, NEW k \in Helper, NEW e \in Rows, NEW op \in {"upload", "delete", "review"},
           NEW new \in {"none", "APROBADO", "RECHAZADO"}, op = "review" => new # "none",
           op = "delete" => evidence[e].estado # "APROBADO",
           helper[k] = Idle, helper' = [helper EXCEPT ![k] = Loaded(op, e, new)],
           touched' = Meets(e),
           op = "upload" => MayUpload, changes' \in 0..MaxChanges,
           UNCHANGED <<order, checked, evidence, disk, uploads, approved, byHand, earned>>
    PROVE  OrderSafe'
<1>1. PICK m : m = Loaded(op, e, new)
  OBVIOUS
<1>2. e \in Evidence /\ e # NoEvidence /\ evidence[e] \in Paper /\ VersionOf(e) \in 0..MaxUploads
  BY VersionsTyped
<1>3. /\ m = [op |-> op, row |-> e, estado |-> evidence[e].estado, path |-> evidence[e].path,
              new |-> new, version |-> IF op = "review" THEN VersionOf(e) ELSE 0,
              own |-> NoEvidence, held |-> FALSE]
  BY <1>1 DEF Loaded
<1>4. m \in Job
  <2>1. /\ op \in OnRow \cup Making \cup Rowless
        /\ new \in Extension \cup {"none", "APROBADO", "RECHAZADO"}
        /\ (IF op = "review" THEN VersionOf(e) ELSE 0) \in 0..MaxUploads
        /\ evidence[e].estado \in Estado /\ evidence[e].path \in Extension \cup {NoFile}
    BY <1>2, FulfillmentAssumption DEF OnRow, Paper
  <2> QED
    BY <1>2, <1>3, <2>1 DEF Job
<1>5. /\ touched \subseteq touched' /\ touched' \subseteq Evidence
      /\ \A i \in Helper : helper[i].row = e => e \in touched'
  BY <1>2 DEF Meets, OrderSafe, Typed
<1>6. Rows' = Rows /\ VersionOf(e)' = VersionOf(e) /\ m.op \in OnRow
  BY <1>3 DEF Rows, VersionOf, OnRow
<1>7. HelperSafe(m)'
  BY <1>3, <1>6 DEF HelperSafe, OnRow, Making
<1>8. ASSUME NEW i \in Helper, NEW n, i # k, n = helper[i] PROVE Apart(n, m)'
  <2>1. HelperSafe(n)
    BY <1>8, JobOf
  <2>2. n.row = e => n.op \in OnRow
    BY <1>2, <2>1 DEF HelperSafe
  <2>3. m.op \notin Making /\ m.row = e
    BY <1>3 DEF Making
  <2> QED
    BY <1>5, <1>6, <1>8, <2>2, <2>3 DEF Apart
<1>9. Typed'
  BY <1>1, <1>4, <1>5 DEF OrderSafe, Typed, Rows
<1>10. Counted'
  <2>1. CASE op = "upload"
    BY <1>1, <2>1, CountedByOneMore DEF OrderSafe
  <2>2. CASE op # "upload"
    BY <1>1, <1>3, <2>2, CountedStill DEF OrderSafe
  <2> QED
    BY <2>1, <2>2
<1>11. helper[k].op = "none"
  BY DEF Idle
<1> QED
  BY <1>1, <1>5, <1>7, <1>8, <1>9, <1>10, <1>11, QuietStep DEF OnRow

\* The deletion of a document finds its row.
LEMMA DeleteLoadStep ==
    ASSUME OrderSafe, NEW k \in Helper, NEW e \in Rows, DeleteLoad(k, e) PROVE OrderSafe'
<1>1. changes' \in 0..MaxChanges
  BY FulfillmentAssumption DEF DeleteLoad, OrderSafe, Typed
<1> QED
  BY <1>1, FoundStep DEF DeleteLoad

\* A review finds the row, and what it will say of it.
LEMMA ReviewLoadStep ==
    ASSUME OrderSafe, NEW k \in Helper, NEW e \in Rows, NEW new \in {"APROBADO", "RECHAZADO"},
           ReviewLoad(k, e, new)
    PROVE  OrderSafe'
<1>1. changes' \in 0..MaxChanges
  BY FulfillmentAssumption DEF ReviewLoad, OrderSafe, Typed
<1> QED
  BY <1>1, FoundStep DEF ReviewLoad

\* An upload of a new type is to make a row of its own.
LEMMA CreateStep ==
    ASSUME OrderSafe, NEW k \in Helper, NEW tipo, MayUpload, helper[k] = Idle,
           RowsOf(tipo) = {}, NEW e \in Unused(tipo),
           helper' = [helper EXCEPT ![k] = [Idle EXCEPT !.op = "creating", !.row = e]],
           touched' = IF \E j \in Helper : helper[j].op \in {"creating", "created"}
                      THEN touched \cup {e} ELSE touched,
           UNCHANGED <<order, checked, evidence, disk, uploads, changes, approved, byHand,
                       earned>>
    PROVE  OrderSafe'
<1>1. PICK m : m = [Idle EXCEPT !.op = "creating", !.row = e]
  OBVIOUS
<1>2. /\ e \in Evidence \ Rows /\ TipoOf[e] = tipo /\ e # NoEvidence
      /\ \A j \in Helper : helper[j].row # e
  BY FulfillmentAssumption DEF Unused
<1>3. m \in Job /\ m.op = "creating" /\ m.row = e /\ m.new = "none"
  BY <1>1, <1>2, IdleIsJob DEF Job, Idle, Making
<1>4. /\ touched \subseteq touched' /\ touched' \subseteq Evidence /\ Rows' = Rows
      /\ \A j \in Helper : helper[j].op \in Making => e \in touched'
  BY <1>2 DEF OrderSafe, Typed, Rows, Making
<1>5. HelperSafe(m)'
  <2>1. \A f \in Rows : TipoOf[f] # tipo
    BY DEF RowsOf
  <2> QED
    BY <1>2, <1>3, <1>4, <2>1 DEF HelperSafe, OnRow, Making
<1>6. ASSUME NEW i \in Helper, NEW n, i # k, n = helper[i] PROVE Apart(n, m)'
  BY <1>2, <1>3, <1>4, <1>6 DEF Apart
<1>7. Typed'
  BY <1>1, <1>3, <1>4 DEF OrderSafe, Typed, Rows
<1>8. Counted'
  BY <1>1, CountedByOneMore DEF OrderSafe
<1>9. helper[k].op = "none"
  BY DEF Idle
<1> QED
  BY <1>1, <1>4, <1>5, <1>6, <1>7, <1>8, <1>9, QuietStep DEF OnRow

\* An upload finds the row of its type, or none.
LEMMA EvidenceLoadStep ==
    ASSUME OrderSafe, NEW k \in Helper, NEW tipo, EvidenceLoad(k, tipo) PROVE OrderSafe'
<1>1. /\ MayUpload /\ helper[k] = Idle
      /\ UNCHANGED <<order, checked, evidence, disk, uploads, changes, approved, byHand, earned>>
      /\ changes' \in 0..MaxChanges
  BY DEF EvidenceLoad, OrderSafe, Typed
<1>2. CASE \E e \in RowsOf(tipo) : /\ helper' = [helper EXCEPT ![k] = Loaded("upload", e, "none")]
                                   /\ touched' = Meets(e)
  <2>1. PICK e \in Rows : /\ helper' = [helper EXCEPT ![k] = Loaded("upload", e, "none")]
                          /\ touched' = Meets(e)
    BY <1>2 DEF RowsOf
  <2> QED
    BY <1>1, <2>1, FoundStep
<1>3. CASE RowsOf(tipo) = {} /\ Unused(tipo) # {}
  <2>1. PICK e : e = NewRow(tipo)
    OBVIOUS
  <2>2. e \in Unused(tipo)
    BY <1>3, <2>1 DEF NewRow
  <2>3. CASE RowsOf(tipo) = {} /\ helper' = [helper EXCEPT ![k] = [Idle EXCEPT !.op = "creating", !.row = e]]
             /\ touched' = IF \E j \in Helper : helper[j].op \in {"creating", "created"}
                           THEN touched \cup {e} ELSE touched
    BY <1>1, <2>2, <2>3, CreateStep
  <2> QED
    BY <1>2, <1>3, <2>1, <2>3 DEF EvidenceLoad
<1> QED
  BY <1>2, <1>3 DEF EvidenceLoad

-----------------------------------------------------------------------------
(* The file and the row.                                                   *)

\* It writes its file over the one that was there.
LEMMA EvidenceWriteStep ==
    ASSUME OrderSafe, NEW k \in Helper, EvidenceWrite(k) PROVE OrderSafe'
<1>1. PICK j, e : j = helper[k] /\ e = j.row
  OBVIOUS
<1>2. PICK x \in Extension :
        /\ disk' = [disk EXCEPT ![e][x] = uploads + 1]
        /\ helper' = [helper EXCEPT ![k].op = IF @ = "upload" THEN "written" ELSE "created",
                                    ![k].new = x]
  BY <1>1 DEF EvidenceWrite
<1>3. PICK op : op = IF j.op = "upload" THEN "written" ELSE "created"
  OBVIOUS
<1>4. PICK m : m = [j EXCEPT !.op = op, !.new = x]
  OBVIOUS
<1>5. /\ helper' = [helper EXCEPT ![k] = m] /\ j.op \in {"upload", "creating"}
      /\ uploads' = uploads + 1
      /\ UNCHANGED <<order, checked, evidence, changes, approved, byHand, earned, touched>>
  <2>1. helper' = [helper EXCEPT ![k] = m]
    BY <1>1, <1>2, <1>3, <1>4 DEF OrderSafe, Typed
  <2> QED
    BY <1>1, <2>1 DEF EvidenceWrite
<1>6. j \in Job /\ HelperSafe(j)
  BY <1>1, JobOf
<1>7. /\ op \in {"written", "created"} /\ (j.op = "upload" => op = "written")
      /\ (j.op = "creating" => op = "created")
  BY <1>3, <1>5
<1>8. /\ m \in Job /\ m.op = op /\ m.new = x /\ m.row = e /\ m.estado = j.estado
      /\ m.path = j.path
  BY <1>1, <1>4, <1>6, <1>7 DEF Job, OnRow, Making
<1>9. e \in Evidence /\ e # NoEvidence
  BY <1>1, <1>5, <1>6, FulfillmentAssumption DEF HelperSafe, OnRow, Making, OrderSafe, Typed
<1>10. Counted' /\ uploads' \in 0..MaxUploads
  BY <1>1, <1>5, <1>7, <1>8, CountedByOneLess DEF OrderSafe, Pending
<1>11. /\ disk' \in [Evidence -> [Extension -> 0..MaxUploads]] /\ disk'[e][x] = uploads + 1
       /\ \A f \in Evidence \ {e} : disk'[f] = disk[f]
  <2>1. disk \in [Evidence -> [Extension -> 0..MaxUploads]]
    BY DEF OrderSafe, Typed
  <2> QED
    BY <1>2, <1>5, <1>9, <1>10, <2>1
<1>12. Typed' /\ Rows' = Rows
  BY <1>5, <1>8, <1>11 DEF OrderSafe, Typed, Rows
<1>13. HelperSafe(m)'
  <2>1. disk'[e][x] # 0
    BY <1>11 DEF OrderSafe, Counted
  <2> QED
    BY <1>1, <1>5, <1>6, <1>7, <1>8, <1>12, <2>1 DEF HelperSafe, OnRow, Making
<1>14. /\ m.row = e /\ (helper[k].op \in OnRow => m.op \in OnRow)
       /\ (m.op \in Making => helper[k].op \in Making) /\ helper[k].op \in OnRow \cup Making
  BY <1>1, <1>5, <1>7, <1>8 DEF OnRow, Making
<1>15. e \in Rows' \ touched => m.op \in OnRow \ {"review"}
  BY <1>1, <1>5, <1>6, <1>7, <1>8, <1>12 DEF HelperSafe, OnRow, Making
<1> QED
  BY <1>1, <1>5, <1>10, <1>11, <1>12, <1>13, <1>14, <1>15, RowStep

\* It names the file in the row, which waits for a review again.
LEMMA EvidenceCommitStep ==
    ASSUME OrderSafe, NEW k \in Helper, EvidenceCommit(k) PROVE OrderSafe'
<1>1. PICK j, e, m : j = helper[k] /\ e = j.row /\ m = Idle
  OBVIOUS
<1>2. PICK new : new = [estado |-> IF j.op = "written" /\ j.estado = "PENDIENTE_REVISION"
                                   THEN evidence[e].estado ELSE "PENDIENTE_REVISION",
                        path |-> IF j.op = "written" /\ j.path = j.new
                                 THEN evidence[e].path ELSE j.new]
  OBVIOUS
<1>3. /\ helper' = [helper EXCEPT ![k] = m] /\ j.op \in {"written", "created"}
      /\ evidence' = [f \in Rows \cup {e} |-> IF f # e THEN evidence[f] ELSE new]
      /\ UNCHANGED <<order, checked, disk, uploads, changes, approved, byHand, earned, touched>>
  BY <1>1, <1>2 DEF EvidenceCommit
<1>4. j \in Job /\ HelperSafe(j)
  BY <1>1, JobOf
<1>5. /\ j.new \in Extension /\ (e \in touched \/ disk[e][j.new] # 0)
      /\ (j.op = "written" => e \in Rows) /\ (j.op = "created" => e \in Evidence \ Rows)
      /\ j.new # NoFile
  BY <1>1, <1>3, <1>4, FulfillmentAssumption DEF HelperSafe, OnRow, Making
<1>6. m \in Job /\ HelperSafe(m)' /\ m.op = "none" /\ m.row = NoEvidence
  BY <1>1, IdleIsJob DEF Idle
<1>7. new \in Paper
  <2>1. j.op = "written" => evidence[e].estado \in Estado /\ evidence[e].path \in Extension \cup {NoFile}
    BY <1>5 DEF OrderSafe, Typed, Paper
  <2>2. new.estado \in Estado /\ new.path \in Extension \cup {NoFile}
    BY <1>2, <1>3, <1>5, <2>1 DEF Estado
  <2> QED
    BY <1>2, <2>2 DEF Paper
<1>8. /\ Rows' = Rows \cup {e} /\ evidence'[e] = new /\ Rows \subseteq Evidence /\ e \in Evidence
      /\ \A f \in Rows \ {e} : evidence'[f] = evidence[f]
  BY <1>3, <1>5 DEF Rows, OrderSafe, Typed
<1>9. Typed'
  <2>1. evidence' \in [Rows' -> Paper]
    BY <1>3, <1>7, <1>8 DEF OrderSafe, Typed
  <2> QED
    BY <1>3, <1>6, <1>8, <2>1 DEF OrderSafe, Typed
<1>11. Counted'
  BY <1>3, <1>6, CountedStill DEF OrderSafe
<1>12. e \notin touched => Clean(e)'
  <2> SUFFICES ASSUME e \notin touched PROVE Clean(e)'
    OBVIOUS
  <2>1. j.op = "written" => j.estado = evidence[e].estado /\ j.path = evidence[e].path
    BY <1>1, <1>4 DEF HelperSafe, OnRow
  <2>2. new = [estado |-> "PENDIENTE_REVISION", path |-> j.new]
    BY <1>2, <2>1
  <2>3. VersionOf(e)' = disk[e][j.new]
    BY <1>3, <1>5, <1>8, <2>2 DEF VersionOf
  <2> QED
    BY <1>5, <1>8, <2>2, <2>3 DEF Clean
<1>13. /\ helper[k].op \in OnRow \cup Making /\ (helper[k].op \in OnRow => Rows' = Rows)
       /\ m.op \notin Making /\ Rows' \in {Rows, Rows \cup {e}}
  BY <1>1, <1>3, <1>5, <1>6, <1>8 DEF OnRow, Making
<1> QED
  BY <1>1, <1>3, <1>6, <1>8, <1>9, <1>11, <1>12, <1>13, RowStep

\* A deletion removes the file before the row is reset.
LEMMA DeleteUnlinkStep ==
    ASSUME OrderSafe, NEW k \in Helper, DeleteUnlink(k) PROVE OrderSafe'
<1>1. PICK j, e, m : j = helper[k] /\ e = j.row /\ m = [j EXCEPT !.op = "unlinked"]
  OBVIOUS
<1>2. /\ helper' = [helper EXCEPT ![k] = m] /\ j.op = "delete"
      /\ \/ disk' = disk
         \/ j.path # NoFile /\ disk' = [disk EXCEPT ![e][j.path] = 0]
      /\ UNCHANGED <<order, checked, evidence, uploads, changes, approved, byHand, earned,
                     touched>>
  BY <1>1 DEF DeleteUnlink, OrderSafe, Typed
<1>3. j \in Job /\ HelperSafe(j)
  BY <1>1, JobOf
<1>4. e \in Rows /\ e \in Evidence
  BY <1>1, <1>2, <1>3, VersionsTyped DEF HelperSafe, OnRow
<1>5. m \in Job /\ m.op = "unlinked" /\ m.row = e /\ m.estado = j.estado /\ m.path = j.path
  BY <1>1, <1>3 DEF Job, OnRow
<1>6. /\ disk' \in [Evidence -> [Extension -> 0..MaxUploads]]
      /\ \A f \in Evidence \ {e} : disk'[f] = disk[f]
  <2>1. disk \in [Evidence -> [Extension -> 0..MaxUploads]] /\ j.path \in Extension \cup {NoFile}
    BY <1>3 DEF OrderSafe, Typed, Job
  <2>2. CASE disk' = disk
    BY <2>1, <2>2
  <2>3. CASE j.path # NoFile /\ disk' = [disk EXCEPT ![e][j.path] = 0]
    <3>1. 0 \in 0..MaxUploads
      BY FulfillmentAssumption
    <3> QED
      BY <1>4, <2>1, <2>3, <3>1
  <2> QED
    BY <1>2, <2>2, <2>3
<1>7. Typed' /\ Rows' = Rows
  BY <1>2, <1>5, <1>6 DEF OrderSafe, Typed, Rows
<1>8. HelperSafe(m)'
  BY <1>1, <1>2, <1>3, <1>4, <1>5, <1>7 DEF HelperSafe, OnRow, Making
<1>9. Counted'
  BY <1>2, <1>5, CountedStill DEF OrderSafe
<1>10. /\ helper[k].op \in OnRow /\ m.op \in OnRow \ {"review"} /\ m.op \notin Making
  BY <1>1, <1>2, <1>5 DEF OnRow, Making
<1> QED
  BY <1>1, <1>2, <1>5, <1>6, <1>7, <1>8, <1>9, <1>10, RowStep

\* A request writes its row and is done with it.
LEMMA RowWritten ==
    ASSUME OrderSafe, NEW k \in Helper, NEW j, j = helper[k], j.op \in OnRow,
           NEW e, e = j.row, NEW new \in Paper, evidence' = [evidence EXCEPT ![e] = new]
    PROVE  /\ e \in Rows /\ Rows' = Rows /\ evidence' \in [Rows' -> Paper]
           /\ evidence'[e] = new
           /\ \A f \in Rows \ {e} : evidence'[f] = evidence[f]
<1>1. e \in Rows
  BY JobOf DEF HelperSafe
<1> QED
  BY <1>1 DEF Rows, OrderSafe, Typed

\* It resets the row.
LEMMA DeleteCommitStep ==
    ASSUME OrderSafe, NEW k \in Helper, DeleteCommit(k) PROVE OrderSafe'
<1>1. PICK j, e, m : j = helper[k] /\ e = j.row /\ m = Idle
  OBVIOUS
<1>2. PICK new : new = [evidence[e] EXCEPT !.estado = IF j.estado = "PENDIENTE" THEN @ ELSE "PENDIENTE",
                                           !.path = IF j.path = NoFile THEN @ ELSE NoFile]
  OBVIOUS
<1>3. /\ helper' = [helper EXCEPT ![k] = m] /\ j.op = "unlinked"
      /\ evidence' = [evidence EXCEPT ![e] = new]
      /\ UNCHANGED <<order, checked, disk, uploads, changes, approved, byHand, earned, touched>>
  BY <1>1, <1>2 DEF DeleteCommit, OrderSafe, Typed
<1>4. j \in Job /\ HelperSafe(j)
  BY <1>1, JobOf
<1>5. e \in Rows /\ e \in Evidence /\ evidence[e] \in Paper
  BY <1>1, <1>3, <1>4, VersionsTyped DEF HelperSafe, OnRow
<1>6. /\ new \in Paper
      /\ new.estado = (IF j.estado = "PENDIENTE" THEN evidence[e].estado ELSE "PENDIENTE")
      /\ new.path = (IF j.path = NoFile THEN evidence[e].path ELSE NoFile)
  BY <1>2, <1>5 DEF Paper, Estado
<1>7. /\ Rows' = Rows /\ evidence' \in [Rows' -> Paper] /\ evidence'[e] = new
      /\ \A f \in Rows \ {e} : evidence'[f] = evidence[f]
  BY <1>1, <1>3, <1>6, RowWritten DEF OnRow
<1>8. m \in Job /\ HelperSafe(m)' /\ m.op = "none" /\ m.row = NoEvidence
  BY <1>1, IdleIsJob DEF Idle
<1>9. Typed'
  BY <1>3, <1>7, <1>8 DEF OrderSafe, Typed
<1>11. Counted'
  BY <1>3, <1>8, CountedStill DEF OrderSafe
<1>12. e \notin touched => Clean(e)'
  <2> SUFFICES ASSUME e \notin touched PROVE Clean(e)'
    OBVIOUS
  <2>1. j.estado = evidence[e].estado /\ j.path = evidence[e].path
    BY <1>1, <1>3, <1>4 DEF HelperSafe, OnRow
  <2>2. new.estado = "PENDIENTE" /\ new.path = NoFile
    BY <1>6, <2>1
  <2> QED
    BY <1>7, <2>2 DEF Clean
<1>13. helper[k].op \in OnRow /\ m.op \notin Making
  BY <1>1, <1>3, <1>8 DEF OnRow, Making
<1> QED
  BY <1>1, <1>3, <1>7, <1>8, <1>9, <1>11, <1>12, <1>13, RowStep

\* A review writes its verdict, on the version that it has seen if nothing came
\* between (fulfillment/router.py).
LEMMA ReviewCommitStep ==
    ASSUME OrderSafe, NEW k \in Helper, ReviewCommit(k) PROVE OrderSafe'
<1>1. PICK j, e : j = helper[k] /\ e = j.row
  OBVIOUS
<1>2. PICK m, new :
          /\ m = IF j.new = "APROBADO" THEN Rechecking(e) ELSE Idle
          /\ new = [evidence[e] EXCEPT !.estado = IF j.estado = j.new THEN @ ELSE j.new]
  OBVIOUS
<1>3. /\ helper' = [helper EXCEPT ![k] = m] /\ j.op = "review"
      /\ evidence' = [evidence EXCEPT ![e] = new]
      /\ approved' = IF j.new = "APROBADO" THEN [approved EXCEPT ![e] = j.version] ELSE approved
      /\ UNCHANGED <<order, checked, disk, uploads, changes, byHand, touched>>
  BY <1>1, <1>2 DEF ReviewCommit, OrderSafe, Typed, Approves
<1>4. j \in Job /\ HelperSafe(j)
  BY <1>1, JobOf
<1>5. e \in Rows /\ e \in Evidence /\ evidence[e] \in Paper /\ j.new \in {"APROBADO", "RECHAZADO"}
  BY <1>1, <1>3, <1>4, VersionsTyped DEF HelperSafe, OnRow
<1>6. /\ new \in Paper /\ new.path = evidence[e].path
      /\ new.estado = (IF j.estado = j.new THEN evidence[e].estado ELSE j.new)
  BY <1>2, <1>5 DEF Paper, Estado
<1>7. /\ Rows' = Rows /\ evidence' \in [Rows' -> Paper] /\ evidence'[e] = new
      /\ \A f \in Rows \ {e} : evidence'[f] = evidence[f]
  BY <1>1, <1>3, <1>6, RowWritten DEF OnRow
<1>8. m \in Job /\ HelperSafe(m)' /\ m.op \in {"refresh", "none"} /\ m.row = NoEvidence
  <2>1. CASE j.new = "APROBADO"
    BY <1>2, <1>5, <2>1, RecheckingIsJob
  <2>2. CASE j.new # "APROBADO"
    <3>1. m = Idle
      BY <1>2, <2>2
    <3> QED
      BY <3>1, IdleIsJob DEF Idle
  <2> QED
    BY <2>1, <2>2
<1>9. /\ approved' \in [Evidence -> 0..MaxUploads] /\ (j.new = "APROBADO" => approved'[e] = j.version)
      /\ \A f \in Rows \ {e} : approved'[f] = approved[f]
  <2>1. approved \in [Evidence -> 0..MaxUploads] /\ j.version \in 0..MaxUploads
    BY <1>4 DEF OrderSafe, Typed, Job
  <2> QED
    BY <1>3, <1>5, <2>1
<1>10. earned' \in BOOLEAN
  BY DEF ReviewCommit, Earns
<1>11. Typed'
  BY <1>3, <1>7, <1>8, <1>9, <1>10 DEF OrderSafe, Typed
<1>13. Counted'
  BY <1>3, <1>8, CountedStill DEF OrderSafe
<1>14. e \notin touched => Clean(e)'
  <2> SUFFICES ASSUME e \notin touched PROVE Clean(e)'
    OBVIOUS
  <2>1. /\ j.estado = evidence[e].estado /\ j.path = evidence[e].path
        /\ j.version = VersionOf(e)
    BY <1>1, <1>3, <1>4 DEF HelperSafe, OnRow
  <2>2. Clean(e)
    <3>1. ASSUME NEW i \in Helper, helper[i].row = e, helper[i].op \in OnRow \ {"review"} PROVE FALSE
      <4>1. i # k
        BY <1>1, <1>3, <3>1
      <4>2. Apart(helper[i], j)
        BY <1>1, <4>1, JobOf
      <4> QED
        BY <1>1, <1>5, <3>1, <4>2, VersionsTyped DEF Apart
    <3> QED
      BY <1>5, <3>1 DEF OrderSafe, RowsSafe
  <2>3. new.estado = j.new
    BY <1>6, <2>1
  <2>4. VersionOf(e)' = VersionOf(e)
    BY <1>3, <1>6, <1>7 DEF VersionOf
  <2>5. j.new = "APROBADO" => VersionOf(e)' = approved'[e]
    BY <1>9, <2>1, <2>4
  <2>6. evidence'[e].path # NoFile => VersionOf(e)' # 0
    BY <1>6, <1>7, <2>2, <2>4 DEF Clean
  <2> QED
    BY <1>7, <2>3, <2>5, <2>6 DEF Clean
<1>15. /\ e = helper[k].row /\ helper[k].op \in OnRow /\ m.op \notin Making
       /\ m.row = NoEvidence /\ HelperSafe(m)'
  BY <1>1, <1>3, <1>8 DEF OnRow, Making
<1>16. /\ helper' = [helper EXCEPT ![k] = m] /\ UNCHANGED touched /\ Rows' = Rows
       /\ \A f \in Rows \ {e} : evidence'[f] = evidence[f] /\ approved'[f] = approved[f]
       /\ \A f \in Evidence \ {e} : disk'[f] = disk[f]
  BY <1>3, <1>7, <1>9
<1> QED
  BY <1>11, <1>13, <1>14, <1>15, <1>16, RowStep

-----------------------------------------------------------------------------
(* Every step.                                                             *)

\* No step on an order breaks the invariant.
LEMMA StepIsSafe ==
    ASSUME OrderSafe, [FulfillmentNext]_fulfillmentVars PROVE OrderSafe'
<1>1. ASSUME NEW k \in Helper, Finishes(k) PROVE OrderSafe'
  BY <1>1, EvidenceWriteStep, EvidenceCommitStep, DeleteUnlinkStep, DeleteCommitStep,
     ReviewCommitStep, RefreshStep, RecomputeLoadStep, RecomputeCommitStep DEF Finishes
<1>2. ASSUME NEW k \in Helper, NEW i \in CheckItem, PatchItem(k, i) PROVE OrderSafe'
  BY <1>2, PatchItemStep
<1>3. ASSUME NEW k \in Helper, NEW tipo, EvidenceLoad(k, tipo) PROVE OrderSafe'
  BY <1>3, EvidenceLoadStep
<1>4. ASSUME NEW k \in Helper, NEW e \in Rows, DeleteLoad(k, e) PROVE OrderSafe'
  BY <1>4, DeleteLoadStep
<1>5. ASSUME NEW k \in Helper, NEW e \in Rows, NEW new \in {"APROBADO", "RECHAZADO"},
             ReviewLoad(k, e, new)
      PROVE  OrderSafe'
  BY <1>5, ReviewLoadStep
<1>6. CASE UNCHANGED fulfillmentVars
  <2>1. Typed' /\ Counted' /\ TiposSafe'
    BY <1>6 DEF fulfillmentVars, OrderSafe, Typed, Counted, Pending, TiposSafe, Rows
  <2>2. HelpersSafe' /\ HelpersApart'
    BY <1>6 DEF fulfillmentVars, OrderSafe, HelpersSafe, HelperSafe, HelpersApart, Apart, Rows,
                VersionOf
  <2>3. RowsSafe'
    BY <1>6 DEF fulfillmentVars, OrderSafe, RowsSafe, Clean, Rows, VersionOf
  <2> QED
    BY <2>1, <2>2, <2>3 DEF OrderSafe
<1> QED
  BY <1>1, <1>2, <1>3, <1>4, <1>5, <1>6, KillStep, PatchOrderStep, Zenon DEF FulfillmentNext

\* The invariant holds of a new order.
LEMMA InitIsSafe == FulfillmentInit => OrderSafe
<1> SUFFICES ASSUME FulfillmentInit PROVE OrderSafe
  OBVIOUS
<1>1. /\ Rows = FirstEvidence /\ \A k \in Helper : helper[k] = Idle
      /\ \A e \in Rows : evidence[e] = [estado |-> "PENDIENTE", path |-> NoFile]
  BY DEF FulfillmentInit, Rows
<1>2. Typed
  <2>1. evidence \in [Rows -> Paper]
    BY <1>1 DEF FulfillmentInit, Paper, Estado
  <2>2. helper \in [Helper -> Job]
    BY IdleIsJob DEF FulfillmentInit
  <2>3. /\ disk \in [Evidence -> [Extension -> 0..MaxUploads]]
        /\ approved \in [Evidence -> 0..MaxUploads] /\ changes \in 0..MaxChanges
    BY FulfillmentAssumption DEF FulfillmentInit
  <2> QED
    BY <1>1, <2>1, <2>2, <2>3, FulfillmentAssumption DEF FulfillmentInit, Typed, OrderStatus
<1>3. Counted
  <2>1. Pending = {}
    BY <1>1 DEF Pending, Idle
  <2>2. Cardinality(Pending) = 0
    BY <2>1, FS_EmptySet
  <2> QED
    BY <2>2, FulfillmentAssumption DEF FulfillmentInit, Counted
<1>4. HelpersSafe /\ HelpersApart
  <2>1. \A k \in Helper : HelperSafe(helper[k])
    BY <1>1, IdleIsJob
  <2>2. \A i, k \in Helper : Apart(helper[i], helper[k])
    BY <1>1, IdleIsJob
  <2> QED
    BY <2>1, <2>2 DEF HelpersSafe, HelpersApart
<1>5. RowsSafe
  BY <1>1 DEF RowsSafe, Clean
<1>6. TiposSafe
  BY <1>1, FulfillmentAssumption DEF TiposSafe
<1> QED
  BY <1>2, <1>3, <1>4, <1>5, <1>6 DEF OrderSafe

-----------------------------------------------------------------------------
(* The readiness of the order.                                             *)

\* A recomputation holds of its own row what the row holds now.
Current(j) ==
    j.op = "recompute" =>
      /\ j.own \in CheckItem => (j.held <=> j.own \in checked)
      /\ j.own \in Rows => j.estado = evidence[j.own].estado

ReadySafe ==
    /\ mixed \in BOOLEAN
    /\ IsReady(checked, evidence) => earned
    /\ ReadyWasEarned
    /\ \A k \in Helper : helper[k].op = "marking" => earned \/ mixed
    /\ ~ mixed => \A k \in Helper : Current(helper[k])

\* A step that writes no item and no row, and begins no recomputation.
LEMMA ReadyStill ==
    ASSUME ReadySafe, UNCHANGED <<checked, evidence, earned, mixed>>,
           UNCHANGED order \/ byHand', byHand => byHand',
           \A i \in Helper : \/ helper'[i] = helper[i]
                            \/ helper'[i].op \notin {"recompute", "marking"}
    PROVE  ReadySafe'
<1>1. (IsReady(checked, evidence) => earned)' /\ ReadyWasEarned' /\ mixed' \in BOOLEAN
  BY DEF ReadySafe, IsReady, ReadyWasEarned
<1>2. \A i \in Helper : helper'[i].op = "marking" => earned' \/ mixed'
  BY DEF ReadySafe
<1>3. ~ mixed' => \A i \in Helper : Current(helper[i])'
  <2> SUFFICES ASSUME ~ mixed', NEW i \in Helper PROVE Current(helper[i])'
    OBVIOUS
  <2>1. Current(helper[i])
    BY DEF ReadySafe
  <2> QED
    BY <2>1 DEF Current, Rows
<1> QED
  BY <1>1, <1>2, <1>3 DEF ReadySafe

\* A step that writes one item or one row, x.
LEMMA ReadyWritten ==
    ASSUME OrderSafe, ReadySafe, NEW k \in Helper, NEW m, helper' = [helper EXCEPT ![k] = m],
           m.op \notin {"recompute", "marking"}, NEW x, Writes(x),
           UNCHANGED <<order, byHand>>, earned => earned',
           IsReady(checked', evidence') => earned',
           \A i : i # x => (i \in checked' <=> i \in checked),
           \A f : f # x => (f \in Rows' <=> f \in Rows),
           \A f \in Rows \ {x} : evidence'[f] = evidence[f]
    PROVE  ReadySafe'
<1>1. helper'[k] = m /\ \A i \in Helper : i # k => helper'[i] = helper[i]
  BY HelperAfter DEF OrderSafe
<1>2. /\ mixed' \in BOOLEAN /\ (mixed => mixed')
      /\ \A i \in Helper : helper[i].op = "recompute" /\ helper[i].own = x => mixed'
  BY DEF Writes, ReadySafe
<1>3. (IsReady(checked, evidence) => earned)' /\ ReadyWasEarned'
  BY <1>2 DEF ReadySafe, ReadyWasEarned, IsReady
<1>4. \A i \in Helper : helper'[i].op = "marking" => earned' \/ mixed'
  BY <1>1, <1>2 DEF ReadySafe
<1>5. ~ mixed' => \A i \in Helper : Current(helper[i])'
  <2> SUFFICES ASSUME ~ mixed', NEW i \in Helper PROVE Current(helper[i])'
    OBVIOUS
  <2>1. CASE i = k
    BY <1>1, <2>1 DEF Current
  <2>2. CASE i # k
    <3>1. Current(helper[i]) /\ helper'[i] = helper[i]
      BY <1>1, <1>2, <2>2 DEF ReadySafe
    <3>2. helper[i].op = "recompute" => helper[i].own # x
      BY <1>2
    <3> QED
      BY <3>1, <3>2 DEF Current
  <2> QED
    BY <2>1, <2>2
<1> QED
  BY <1>2, <1>3, <1>4, <1>5 DEF ReadySafe

\* The request holds what it has just read.
LEMMA RefreshReady ==
    ASSUME OrderSafe, ReadySafe, NEW k \in Helper, Refresh(k) PROVE ReadySafe'
<1>1. /\ helper'[k].op = "recompute" /\ helper'[k].own = helper[k].own
      /\ helper'[k].held = (helper[k].own \in checked)
      /\ helper[k].own \in Rows => helper'[k].estado = evidence[helper[k].own].estado
      /\ \A i \in Helper : i # k => helper'[i] = helper[i]
      /\ UNCHANGED <<order, checked, evidence, byHand, earned, mixed>>
  <2>1. helper[k] \in Job /\ helper \in [Helper -> Job]
    BY DEF OrderSafe, Typed
  <2> QED
    BY <2>1 DEF Refresh, Job
<1>2. (IsReady(checked, evidence) => earned)' /\ ReadyWasEarned' /\ mixed' \in BOOLEAN
  BY <1>1 DEF ReadySafe, IsReady, ReadyWasEarned
<1>3. \A i \in Helper : helper'[i].op = "marking" => earned' \/ mixed'
  BY <1>1 DEF ReadySafe
<1>4. ~ mixed' => \A i \in Helper : Current(helper[i])'
  <2> SUFFICES ASSUME ~ mixed', NEW i \in Helper PROVE Current(helper[i])'
    OBVIOUS
  <2>1. CASE i = k
    BY <1>1, <2>1 DEF Current, Rows
  <2>2. CASE i # k
    <3>1. Current(helper[i]) /\ helper'[i] = helper[i]
      BY <1>1, <2>2 DEF ReadySafe
    <3> QED
      BY <1>1, <3>1 DEF Current, Rows
  <2> QED
    BY <2>1, <2>2
<1> QED
  BY <1>2, <1>3, <1>4 DEF ReadySafe

\* What it holds and what it queries are the order as it is, unless its row was
\* written in between.
LEMMA RecomputeLoadReady ==
    ASSUME OrderSafe, ReadySafe, NEW k \in Helper, RecomputeLoad(k) PROVE ReadySafe'
<1>1. PICK j : j = helper[k]
  OBVIOUS
<1>2. /\ j.op = "recompute" /\ \A i \in Helper : i # k => helper'[i] = helper[i]
      /\ helper'[k].op # "recompute"
      /\ helper'[k].op = "marking" => IsReady(SeenItems(j, checked), SeenRows(j, evidence))
      /\ UNCHANGED <<order, checked, evidence, byHand, earned, mixed>>
  BY <1>1 DEF RecomputeLoad, OrderSafe, Typed, Idle
<1>3. ASSUME ~ mixed, IsReady(SeenItems(j, checked), SeenRows(j, evidence))
      PROVE  earned
  <2>1. Current(j)
    BY <1>1, <1>3 DEF ReadySafe
  <2>2. Critical \subseteq SeenItems(j, checked)
    BY <1>3 DEF IsReady
  <2>3. Critical \subseteq checked
    BY <1>2, <2>1, <2>2 DEF Current, SeenItems
  <2>4. \A e \in DOMAIN SeenRows(j, evidence) : SeenRows(j, evidence)[e].estado = "APROBADO"
    BY <1>3 DEF IsReady
  <2>5. ASSUME NEW e \in Rows PROVE evidence[e].estado = "APROBADO"
    <3>1. evidence \in [Rows -> Paper]
      BY DEF OrderSafe, Typed
    <3>2. CASE j.own \notin Rows
      BY <2>4, <3>2 DEF SeenRows, Rows
    <3>3. CASE j.own \in Rows
      <4>1. SeenRows(j, evidence) = [evidence EXCEPT ![j.own].estado = j.estado]
        BY <3>3 DEF SeenRows, Rows
      <4>2. e \in DOMAIN SeenRows(j, evidence)
        BY <4>1 DEF Rows
      <4>3. SeenRows(j, evidence)[e].estado = evidence[e].estado
        <5>1. evidence[e] \in Paper
          BY <3>1
        <5>2. CASE e = j.own
          <6>1. SeenRows(j, evidence)[e] = [evidence[e] EXCEPT !.estado = j.estado]
            BY <3>1, <4>1, <5>2
          <6>2. SeenRows(j, evidence)[e].estado = j.estado
            BY <5>1, <6>1 DEF Paper
          <6> QED
            BY <1>2, <2>1, <3>3, <5>2, <6>2 DEF Current
        <5>3. CASE e # j.own
          BY <3>1, <4>1, <5>3
        <5> QED
          BY <5>2, <5>3
      <4> QED
        BY <2>4, <4>2, <4>3
    <3> QED
      BY <3>2, <3>3
  <2> QED
    BY <2>3, <2>5 DEF ReadySafe, IsReady, Rows
<1>4. (IsReady(checked, evidence) => earned)' /\ ReadyWasEarned' /\ mixed' \in BOOLEAN
  BY <1>2 DEF ReadySafe, IsReady, ReadyWasEarned
<1>5. \A i \in Helper : helper'[i].op = "marking" => earned' \/ mixed'
  BY <1>2, <1>3 DEF ReadySafe
<1>6. ~ mixed' => \A i \in Helper : Current(helper[i])'
  <2> SUFFICES ASSUME ~ mixed', NEW i \in Helper PROVE Current(helper[i])'
    OBVIOUS
  <2>1. CASE i = k
    BY <1>2, <2>1 DEF Current
  <2>2. CASE i # k
    <3>1. Current(helper[i]) /\ helper'[i] = helper[i]
      BY <1>2, <2>2 DEF ReadySafe
    <3> QED
      BY <1>2, <3>1 DEF Current, Rows
  <2> QED
    BY <2>1, <2>2
<1> QED
  BY <1>4, <1>5, <1>6 DEF ReadySafe

\* READY is written by a request that found the order complete.
LEMMA RecomputeCommitReady ==
    ASSUME OrderSafe, ReadySafe, NEW k \in Helper, RecomputeCommit(k) PROVE ReadySafe'
<1>1. /\ helper[k].op = "marking" /\ order' = "READY"
      /\ helper'[k] = Idle /\ \A i \in Helper : i # k => helper'[i] = helper[i]
      /\ UNCHANGED <<checked, evidence, byHand, earned, mixed>>
  BY DEF RecomputeCommit, OrderSafe, Typed
<1>2. earned \/ mixed
  BY <1>1 DEF ReadySafe
<1>3. (IsReady(checked, evidence) => earned)' /\ ReadyWasEarned' /\ mixed' \in BOOLEAN
  BY <1>1, <1>2 DEF ReadySafe, IsReady, ReadyWasEarned
<1>4. \A i \in Helper : helper'[i].op = "marking" => earned' \/ mixed'
  BY <1>1, <1>2
<1>5. ~ mixed' => \A i \in Helper : Current(helper[i])'
  <2> SUFFICES ASSUME ~ mixed', NEW i \in Helper PROVE Current(helper[i])'
    OBVIOUS
  <2>1. CASE i = k
    BY <1>1, <2>1 DEF Current, Idle
  <2>2. CASE i # k
    <3>1. Current(helper[i]) /\ helper'[i] = helper[i]
      BY <1>1, <2>2 DEF ReadySafe
    <3> QED
      BY <1>1, <3>1 DEF Current, Rows
  <2> QED
    BY <2>1, <2>2
<1> QED
  BY <1>3, <1>4, <1>5 DEF ReadySafe

\* A tick or an approval may complete the order,
LEMMA PatchItemReady ==
    ASSUME OrderSafe, ReadySafe, NEW k \in Helper, NEW i \in CheckItem, PatchItem(k, i)
    PROVE  ReadySafe'
<1>1. PICK m : m = Rechecking(i)
  OBVIOUS
<1>2. m.op = "refresh"
  BY <1>1, RecheckingIsJob
<1>3. /\ helper' = [helper EXCEPT ![k] = m] /\ Writes(i)
      /\ UNCHANGED <<order, byHand>> /\ evidence' = evidence
      /\ \A c : c # i => (c \in checked' <=> c \in checked)
  BY <1>1 DEF PatchItem
<1>4. (earned => earned') /\ (IsReady(checked', evidence') => earned')
  BY DEF PatchItem, Earns, IsReady
<1>5. Rows' = Rows
  BY <1>3 DEF Rows
<1> QED
  BY <1>2, <1>3, <1>4, <1>5, ReadyWritten

LEMMA ReviewCommitReady ==
    ASSUME OrderSafe, ReadySafe, NEW k \in Helper, ReviewCommit(k) PROVE ReadySafe'
<1>1. PICK j, e : j = helper[k] /\ e = j.row
  OBVIOUS
<1>2. PICK m : m = IF j.new = "APROBADO" THEN Rechecking(e) ELSE Idle
  OBVIOUS
<1>3. e \in Rows /\ e \in Evidence
  BY <1>1, JobOf, VersionsTyped DEF ReviewCommit, HelperSafe, OnRow
<1>4. m.op \notin {"recompute", "marking"}
  BY <1>2, <1>3, RecheckingIsJob DEF Idle
<1>5. /\ helper' = [helper EXCEPT ![k] = m] /\ Writes(e)
      /\ UNCHANGED <<order, byHand, checked>>
      /\ Rows' = Rows /\ \A f \in Rows \ {e} : evidence'[f] = evidence[f]
  BY <1>1, <1>2, <1>3 DEF ReviewCommit, Rows
<1>6. (earned => earned') /\ (IsReady(checked', evidence') => earned')
  BY DEF ReviewCommit, Earns, IsReady
<1> QED
  BY <1>4, <1>5, <1>6, ReadyWritten

\* an upload and a deletion never do.
LEMMA EvidenceCommitReady ==
    ASSUME OrderSafe, ReadySafe, NEW k \in Helper, EvidenceCommit(k) PROVE ReadySafe'
<1>1. PICK j, e, m : j = helper[k] /\ e = j.row /\ m = Idle
  OBVIOUS
<1>2. PICK new : new = [estado |-> IF j.op = "written" /\ j.estado = "PENDIENTE_REVISION"
                                   THEN evidence[e].estado ELSE "PENDIENTE_REVISION",
                        path |-> IF j.op = "written" /\ j.path = j.new
                                 THEN evidence[e].path ELSE j.new]
  OBVIOUS
<1>3. /\ helper' = [helper EXCEPT ![k] = m] /\ j.op \in {"written", "created"} /\ Writes(e)
      /\ evidence' = [f \in Rows \cup {e} |-> IF f # e THEN evidence[f] ELSE new]
      /\ UNCHANGED <<order, byHand, checked, earned>>
  BY <1>1, <1>2 DEF EvidenceCommit
<1>4. Rows' = Rows \cup {e} /\ \A f \in Rows \ {e} : evidence'[f] = evidence[f]
  BY <1>3 DEF Rows
<1>5. IsReady(checked', evidence') => IsReady(checked, evidence)
  <2>1. j.op = "written" => e \in Rows
    BY <1>1, JobOf DEF HelperSafe, OnRow
  <2>2. evidence'[e] = new
    BY <1>3
  <2>3. ASSUME NEW f \in Rows, evidence'[f].estado = "APROBADO"
        PROVE  evidence[f].estado = "APROBADO"
    <3>1. CASE f = e
      BY <1>2, <1>3, <2>2, <2>3, <3>1
    <3>2. CASE f # e
      BY <1>4, <2>3, <3>2
    <3> QED
      BY <3>1, <3>2
  <2> QED
    BY <1>3, <1>4, <2>3 DEF IsReady, Rows
<1>6. m.op \notin {"recompute", "marking"}
  BY <1>1 DEF Idle
<1>7. (earned => earned') /\ (IsReady(checked', evidence') => earned')
  BY <1>3, <1>5 DEF ReadySafe
<1>8. /\ \A f : f # e => (f \in Rows' <=> f \in Rows)
      /\ \A i : i # e => (i \in checked' <=> i \in checked)
  BY <1>3, <1>4
<1>9. UNCHANGED <<order, byHand>>
  BY <1>3
<1> QED
  BY <1>3, <1>4, <1>6, <1>7, <1>8, <1>9, ReadyWritten

LEMMA DeleteCommitReady ==
    ASSUME OrderSafe, ReadySafe, NEW k \in Helper, DeleteCommit(k) PROVE ReadySafe'
<1>1. PICK j, e, m : j = helper[k] /\ e = j.row /\ m = Idle
  OBVIOUS
<1>2. /\ helper' = [helper EXCEPT ![k] = m] /\ j.op = "unlinked" /\ Writes(e)
      /\ evidence' = [evidence EXCEPT ![e].estado = IF j.estado = "PENDIENTE" THEN @ ELSE "PENDIENTE",
                                      ![e].path = IF j.path = NoFile THEN @ ELSE NoFile]
      /\ UNCHANGED <<order, byHand, checked, earned>>
  BY <1>1 DEF DeleteCommit
<1>3. e \in Rows /\ evidence[e] \in Paper
  BY <1>1, <1>2, JobOf, VersionsTyped DEF HelperSafe, OnRow
<1>4. Rows' = Rows /\ \A f \in Rows \ {e} : evidence'[f] = evidence[f]
  BY <1>2 DEF Rows
<1>5. evidence'[e].estado \in {evidence[e].estado, "PENDIENTE"}
  BY <1>2, <1>3 DEF Rows, Paper
<1>6. IsReady(checked', evidence') => IsReady(checked, evidence)
  BY <1>2, <1>3, <1>4, <1>5 DEF IsReady, Rows
<1>7. m.op \notin {"recompute", "marking"}
  BY <1>1 DEF Idle
<1>8. (earned => earned') /\ (IsReady(checked', evidence') => earned')
  BY <1>2, <1>6 DEF ReadySafe
<1>9. UNCHANGED <<order, byHand>> /\ \A i : i # e => (i \in checked' <=> i \in checked)
  BY <1>2
<1> QED
  BY <1>2, <1>4, <1>7, <1>8, <1>9, ReadyWritten

\* No step breaks it.
LEMMA ReadyStep ==
    ASSUME OrderSafe, ReadySafe, [FulfillmentNext]_fulfillmentVars PROVE ReadySafe'
<1>1. ASSUME NEW k \in Helper, Finishes(k) PROVE ReadySafe'
  <2>1. CASE EvidenceWrite(k)
    <3>1. /\ UNCHANGED <<order, checked, evidence, byHand, earned, mixed>>
          /\ helper'[k].op \in {"written", "created"}
          /\ \A i \in Helper : i # k => helper'[i] = helper[i]
      <4>1. helper \in [Helper -> Job] /\ helper[k] \in Job
        BY DEF OrderSafe, Typed
      <4> QED
        BY <2>1, <4>1 DEF EvidenceWrite, Job
    <3> QED
      BY <3>1, ReadyStill
  <2>2. CASE DeleteUnlink(k)
    <3>1. /\ UNCHANGED <<order, checked, evidence, byHand, earned, mixed>>
          /\ helper'[k].op = "unlinked"
          /\ \A i \in Helper : i # k => helper'[i] = helper[i]
      <4>1. helper \in [Helper -> Job] /\ helper[k] \in Job
        BY DEF OrderSafe, Typed
      <4> QED
        BY <2>2, <4>1 DEF DeleteUnlink, Job
    <3> QED
      BY <3>1, ReadyStill
  <2> QED
    BY <1>1, <2>1, <2>2, EvidenceCommitReady, DeleteCommitReady, ReviewCommitReady,
       RefreshReady, RecomputeLoadReady, RecomputeCommitReady DEF Finishes
<1>2. ASSUME NEW k \in Helper, NEW m, helper' = [helper EXCEPT ![k] = m],
             m.op \notin {"recompute", "marking"},
             UNCHANGED <<order, checked, evidence, byHand, earned, mixed>>
      PROVE  ReadySafe'
  <2>1. helper'[k] = m /\ \A i \in Helper : i # k => helper'[i] = helper[i]
    BY <1>2, HelperAfter DEF OrderSafe
  <2> QED
    BY <1>2, <2>1, ReadyStill
<1>3. ASSUME NEW k \in Helper, NEW tipo, EvidenceLoad(k, tipo) PROVE ReadySafe'
  <2>1. PICK m : helper' = [helper EXCEPT ![k] = m] /\ m.op \in {"upload", "creating"}
    <3>1. \A e : Loaded("upload", e, "none").op = "upload"
      BY DEF Loaded
    <3>2. \A e : [Idle EXCEPT !.op = "creating", !.row = e].op = "creating"
      BY DEF Idle
    <3> QED
      BY <1>3, <3>1, <3>2 DEF EvidenceLoad
  <2>2. UNCHANGED <<order, checked, evidence, byHand, earned, mixed>>
    BY <1>3 DEF EvidenceLoad
  <2> QED
    BY <1>2, <2>1, <2>2
<1>4. ASSUME NEW k \in Helper, NEW e \in Rows, DeleteLoad(k, e) PROVE ReadySafe'
  <2>1. /\ helper' = [helper EXCEPT ![k] = Loaded("delete", e, "none")]
        /\ UNCHANGED <<order, checked, evidence, byHand, earned, mixed>>
    BY <1>4 DEF DeleteLoad
  <2>2. Loaded("delete", e, "none").op = "delete"
    BY DEF Loaded
  <2> QED
    BY <1>2, <2>1, <2>2
<1>5. ASSUME NEW k \in Helper, NEW e \in Rows, NEW new, ReviewLoad(k, e, new)
      PROVE  ReadySafe'
  <2>1. /\ helper' = [helper EXCEPT ![k] = Loaded("review", e, new)]
        /\ UNCHANGED <<order, checked, evidence, byHand, earned, mixed>>
    BY <1>5 DEF ReviewLoad
  <2>2. Loaded("review", e, new).op = "review"
    BY DEF Loaded
  <2> QED
    BY <1>2, <2>1, <2>2
<1>6. ASSUME NEW k \in Helper, KillHelper(k) PROVE ReadySafe'
  <2>1. /\ helper'[k] = Idle /\ (byHand => byHand')
        /\ \A i \in Helper : i # k => helper'[i] = helper[i]
        /\ UNCHANGED <<order, checked, evidence, earned, mixed>>
    BY <1>6 DEF KillHelper, OrderSafe, Typed
  <2> QED
    BY <2>1, ReadyStill DEF Idle
<1>7. CASE PatchOrder
  BY <1>7, ReadyStill DEF PatchOrder
<1>8. CASE UNCHANGED fulfillmentVars
  BY <1>8, ReadyStill DEF fulfillmentVars
<1> QED
  BY <1>1, <1>3, <1>4, <1>5, <1>6, <1>7, <1>8, PatchItemReady, Zenon DEF FulfillmentNext

\* A new order is complete only if it has nothing to wait for.
LEMMA InitIsReady == FulfillmentInit => ReadySafe
<1> SUFFICES ASSUME FulfillmentInit PROVE ReadySafe
  OBVIOUS
<1>1. \A k \in Helper : helper[k] = Idle
  BY DEF FulfillmentInit
<1>2. IsReady(checked, evidence) => earned
  BY DEF FulfillmentInit, IsReady
<1> QED
  BY <1>1, <1>2 DEF FulfillmentInit, ReadySafe, ReadyWasEarned, Current, Idle

\* The invariant implies what is promised of an order.
LEMMA SafeImpliesInv == OrderSafe /\ ReadySafe => FulfillmentInv
<1> SUFFICES ASSUME OrderSafe, ReadySafe PROVE FulfillmentInv
  OBVIOUS
<1>1. FulfillmentTypeOK
  <2>1. \A k \in Helper : helper[k].op \in {"upload", "written", "delete", "unlinked", "review"}
                            => helper[k].row \in Rows
    BY DEF OrderSafe, HelpersSafe, HelperSafe, OnRow
  <2>2. uploads \in 0..MaxUploads
    <3>1. Pending \in SUBSET Helper
      BY DEF Pending
    <3> QED
      BY <3>1, PendingFinite, FulfillmentAssumption DEF OrderSafe, Counted
  <2>3. \A e \in Rows : /\ evidence[e].estado \in Estado
                         /\ evidence[e].path \in Extension \cup {NoFile}
    BY DEF OrderSafe, Typed, Paper
  <2> QED
    BY <2>1, <2>2, <2>3 DEF OrderSafe, ReadySafe, Typed, FulfillmentTypeOK
<1>2. \A e \in Settled : e \in Rows \ touched /\ Clean(e)
  BY DEF OrderSafe, RowsSafe, Settled
<1>3. ApprovedAsReviewed /\ RowsHaveFiles
  BY <1>2 DEF ApprovedAsReviewed, RowsHaveFiles, Clean
<1>4. OneRowPerTipo
  BY <1>2 DEF OrderSafe, TiposSafe, OneRowPerTipo
<1> QED
  BY <1>1, <1>3, <1>4 DEF OrderSafe, ReadySafe, FulfillmentInv

-----------------------------------------------------------------------------
\* However many requests work on an order (fulfillment/router.py): an approved
\* document is the one that was reviewed, a row that names a file has one and a
\* type has one row, except where two requests met or one was cut off; and the
\* order is READY only if it was complete at some time, was set by hand, or the
\* row that a recomputation had read was written before it read the others.
THEOREM FulfillmentAlways == FulfillmentSpec => []FulfillmentInv
  BY InitIsSafe, StepIsSafe, InitIsReady, ReadyStep, SafeImpliesInv, PTL DEF FulfillmentSpec

-----------------------------------------------------------------------------
(* The identity documents of an event: the inductive invariant.            *)

Draft == [type : DocType, size : Size, status : {"ACTIVE", "SUPERSEDED"}]

Papers == UNION {[D -> Draft] : D \in SUBSET (0..MaxDrafts)}

Task == [op : {"none", "create", "book", "upload", "leave", "cleanup"},
         pc : {"idle", "load", "commit", "purge"},
         docs : Papers, old : 1..MaxDrafts \cup {NoDraft}, seen : SUBSET (1..MaxDrafts),
         at : [Member -> Statuses] \cup {<<>>}, leaving : SUBSET Member, count : Nat]

RowsTyped ==
    /\ event \in [Member -> Statuses]
    /\ Unbooked \/ \A r \in Member : event[r] # "none"
    /\ made \in 0..MaxDrafts
    /\ drafts \in [DOMAIN drafts -> Draft] /\ DOMAIN drafts \subseteq 1..made
    /\ files \subseteq 1..made
    /\ copied \subseteq DocType
    /\ elsewhere \in Nat
    /\ papered \in BOOLEAN /\ cut \in BOOLEAN /\ crossed \in BOOLEAN /\ rushed \in BOOLEAN

\* Uploads that are still to write their file, and bookings to be committed.
Uploading == {k \in Clerk : clerk[k].op = "upload" /\ clerk[k].pc = "load"}

Booking == {k \in Clerk : clerk[k].op = "book"}

DraftsCounted ==
    /\ made + Cardinality(Uploading) <= MaxDrafts
    /\ elsewhere + Cardinality(Booking) <= MaxActive + Cardinality(Clerk) - 1

\* Drafts whose file is written and whose row is not.
Written(j) == IF j.op \in {"create", "upload"} /\ j.pc = "commit" THEN DOMAIN j.docs ELSE {}

\* What an upload read of the drafts still holds of those that are left.
Suits(j, type, size) ==
    /\ j.old # NoDraft => /\ j.old \in j.seen /\ type # Otro
                          /\ j.old \in DOMAIN drafts => drafts[j.old].type = type
    /\ j.old = NoDraft /\ type # Otro =>
         \A d \in j.seen \cap DOMAIN drafts : drafts[d].type # type
    /\ j.seen \subseteq DOMAIN drafts =>
         BytesOf(drafts, j.seen) + size
             - (IF j.old = NoDraft THEN 0 ELSE drafts[j.old].size) <= MaxBytes

\* The documents with which an event is created.
Complete(docs) ==
    /\ docs \in Papers
    /\ \A d, e \in DOMAIN docs : docs[d].type = docs[e].type => d = e
    /\ \A d \in DOMAIN docs : docs[d].status = "ACTIVE"
    /\ BytesOf(docs, DOMAIN docs) <= MaxBytes
    /\ docs # <<>> => Required \subseteq TypesOf(docs)

\* What a request relies on.
TaskSafe(j) ==
    /\ j.op = "create" =>
         /\ Unbooked /\ j.pc \in {"load", "commit"} /\ j.count < MaxActive
         /\ Complete(j.docs) /\ (j.pc = "load" => j.docs = <<>>)
    /\ j.op = "book" => j.pc = "commit" /\ j.count < MaxActive
    /\ j.op = "upload" =>
         /\ ~ Unbooked /\ j.pc \in {"load", "commit"}
         /\ \A r \in Member : j.at[r] = "open"
         /\ \E x \in 0..made, type \in DocType, size \in Size :
              /\ j.docs = [d \in {x} |-> New(type, size)]
              /\ IF j.pc = "load" THEN x = 0 ELSE x # 0
              /\ Suits(j, type, size)
    /\ j.op = "leave" => (j.pc = "purge" \/ j.seen # {} => Purges(j.leaving))
    /\ j.op # "leave" => j.leaving = {}
    /\ j.op = "cleanup" => Over
    /\ j.op = "none" <=> j.pc = "idle"
    /\ j.pc = "purge" => j.op \in {"leave", "cleanup"}
    /\ \A r \in j.leaving : event[r] = "open"
    /\ Written(j) \subseteq files /\ Written(j) \cap DOMAIN drafts = {}
    /\ j.seen \subseteq 1..made

\* Two requests.
TasksApart(i, j) ==
    /\ i.op # "create" \/ j.op # "create"
    /\ Written(i) \cap Written(j) = {}
    /\ i.leaving \cap j.leaving = {}

TasksSafe ==
    /\ clerk \in [Clerk -> Task]
    /\ \A k \in Clerk : TaskSafe(clerk[k])
    /\ \A k, l \in Clerk : Written(clerk[k]) \cap clerk[l].seen = {}
    /\ \A k, l \in Clerk : k # l => TasksApart(clerk[k], clerk[l])

\* A file is missing only when the event is over, or is being ended by a
\* request that has removed it, or such a request was cut off.
FilesSafe ==
    \/ Over \/ cut \/ DOMAIN drafts \subseteq files
    \/ \E k \in Clerk : clerk[k].op = "leave" /\ Purges(clerk[k].leaving)

EventSafe ==
    /\ Unbooked => drafts = <<>>
    /\ event[Anchor] # "confirmed" => copied = {}
    /\ OneActiveVersion /\ QuotaHolds /\ StaysComplete /\ AnchorCopied /\ LimitHeld
    /\ FilesSafe

DossierSafe == RowsTyped /\ DraftsCounted /\ TasksSafe /\ EventSafe

-----------------------------------------------------------------------------
(* Bytes.                                                                  *)

\* Rows of the same sizes take the same space,
LEMMA BytesSame ==
    ASSUME NEW rows, NEW more, NEW S, IsFiniteSet(S), S \subseteq DOMAIN rows,
           S \subseteq DOMAIN more,
           \A d \in S : rows[d].size \in Nat /\ more[d].size = rows[d].size
    PROVE  BytesOf(rows, S) = BytesOf(more, S)
<1> DEFINE f == [d \in DOMAIN rows |-> rows[d].size]
           g == [d \in DOMAIN more |-> more[d].size]
<1>1. \A d \in S : f[d] \in Int /\ f[d] = g[d]
  OBVIOUS
<1>2. SumFunctionOnSet(f, S) = SumFunctionOnSet(g, S)
  <2> HIDE DEF f, g
  <2> QED
    BY <1>1, SumSame
<1> QED
  BY <1>2 DEF BytesOf

\* a part takes no more than the whole, and each row its own.
LEMMA BytesOfPart ==
    ASSUME NEW rows, NEW S, IsFiniteSet(S), S \subseteq DOMAIN rows,
           \A d \in S : rows[d].size \in Nat
    PROVE  /\ BytesOf(rows, S) \in Nat
           /\ \A R \in SUBSET S : BytesOf(rows, R) \in Nat /\ BytesOf(rows, R) <= BytesOf(rows, S)
           /\ \A d \in S : BytesOf(rows, S) = rows[d].size + BytesOf(rows, S \ {d})
           /\ BytesOf(rows, {}) = 0
<1> DEFINE f == [d \in DOMAIN rows |-> rows[d].size]
<1>1. \A d \in S : f[d] \in Nat /\ f[d] \in Int /\ f[d] = rows[d].size
  OBVIOUS
<1>2. \A R : BytesOf(rows, R) = SumFunctionOnSet(f, R)
  BY DEF BytesOf
<1> HIDE DEF f
<1>3. \A R \in SUBSET S : BytesOf(rows, R) \in Nat /\ BytesOf(rows, R) <= BytesOf(rows, S)
  BY <1>1, <1>2, SumOfPart
<1>4. \A d \in S : BytesOf(rows, S) = rows[d].size + BytesOf(rows, S \ {d})
  BY <1>1, <1>2, SumWithout
<1>5. BytesOf(rows, {}) = 0
  <2>1. IsFiniteSet({}) /\ \A d \in {} : f[d] \in Int
    BY FS_EmptySet
  <2>2. SumFunctionOnSet(f, {}) = 0
    BY <2>1, SumFirst
  <2> QED
    BY <1>2, <2>2
<1>6. S \in SUBSET S
  OBVIOUS
<1> QED
  BY <1>3, <1>4, <1>5, <1>6

\* The rows there are, and those a request means to insert, are finitely many.
LEMMA RowsFinite ==
    ASSUME RowsTyped
    PROVE  /\ \A S \in SUBSET (1..MaxDrafts) : IsFiniteSet(S)
           /\ DOMAIN drafts \subseteq 1..MaxDrafts
           /\ \A d \in DOMAIN drafts : drafts[d] \in Draft /\ drafts[d].size \in Nat
<1>1. IsFiniteSet(1..MaxDrafts)
  BY DossierAssumption, FS_Interval
<1>2. \A S \in SUBSET (1..MaxDrafts) : IsFiniteSet(S)
  BY <1>1, FS_Subset
<1> QED
  BY <1>2, DossierAssumption DEF RowsTyped, Draft

-----------------------------------------------------------------------------
(* Requests.                                                               *)

\* What a request relies on still holds after a step of another one.
LEMMA TaskKept ==
    ASSUME RowsTyped, RowsTyped', NEW j \in Task, TaskSafe(j),
           j.op = "create" => Unbooked', ~ Unbooked => ~ Unbooked',
           \A r \in Member : event[r] = "over" => event'[r] = "over",
           \A r \in j.leaving : event'[r] = "open",
           made <= made', Written(j) \subseteq files',
           \A d \in DOMAIN drafts' :
              IF d \in DOMAIN drafts
              THEN drafts'[d].type = drafts[d].type /\ drafts'[d].size = drafts[d].size
              ELSE d \notin j.seen /\ d \notin Written(j)
    PROVE  TaskSafe(j)'
<1>1. ASSUME NEW type, NEW size, Suits(j, type, size) PROVE Suits(j, type, size)'
  <2>1. j.old # NoDraft /\ j.old \in DOMAIN drafts' => drafts'[j.old].type = type
    BY <1>1 DEF Suits
  <2>2. j.old = NoDraft /\ type # Otro =>
            \A d \in j.seen \cap DOMAIN drafts' : drafts'[d].type # type
    BY <1>1 DEF Suits
  <2>3. ASSUME j.seen \subseteq DOMAIN drafts'
        PROVE  BytesOf(drafts', j.seen) + size
                 - (IF j.old = NoDraft THEN 0 ELSE drafts'[j.old].size) <= MaxBytes
    <3>1. j.seen \subseteq DOMAIN drafts /\ j.seen \in SUBSET (1..MaxDrafts)
      BY <2>3 DEF Task
    <3>2. BytesOf(drafts, j.seen) = BytesOf(drafts', j.seen)
      BY <2>3, <3>1, RowsFinite, BytesSame
    <3>3. j.old # NoDraft => drafts'[j.old].size = drafts[j.old].size
      BY <1>1, <2>3, <3>1 DEF Suits
    <3> QED
      BY <1>1, <3>1, <3>2, <3>3 DEF Suits
  <2> QED
    BY <1>1, <2>1, <2>2, <2>3 DEF Suits
<1>2. ASSUME j.op = "upload"
      PROVE  \E x \in 0..made', type \in DocType, size \in Size :
              /\ j.docs = [d \in {x} |-> New(type, size)]
              /\ IF j.pc = "load" THEN x = 0 ELSE x # 0
              /\ Suits(j, type, size)'
  <2>1. PICK x \in 0..made, type \in DocType, size \in Size :
              /\ j.docs = [d \in {x} |-> New(type, size)]
              /\ IF j.pc = "load" THEN x = 0 ELSE x # 0
              /\ Suits(j, type, size)
    BY <1>2 DEF TaskSafe
  <2>2. x \in 0..made'
    BY DEF RowsTyped
  <2> QED
    BY <1>1, <2>1, <2>2
<1>3. j.pc = "purge" \/ j.seen # {} => (j.op = "leave" => \A r \in Member \ j.leaving : event'[r] = "over")
  BY DEF TaskSafe, Purges
<1>4. Written(j) \cap DOMAIN drafts' = {}
  BY DEF TaskSafe
<1>5. j.seen \subseteq 1..made'
  BY DEF TaskSafe, RowsTyped
<1>6. j.op = "cleanup" => Over'
  BY DEF TaskSafe, Over
<1>7. Written(j)' = Written(j) /\ Complete(j.docs)' = Complete(j.docs)
  BY DEF Written, Complete, BytesOf, TypesOf, ActiveOf, Papers, Draft
<1> QED
  BY <1>2, <1>3, <1>4, <1>5, <1>6, <1>7 DEF TaskSafe, Purges

\* The invariant follows from what the step does to the request that takes it
\* and from what it leaves to the others.
LEMMA DossierAssembled ==
    ASSUME DossierSafe, NEW k \in Clerk, NEW m \in Task, clerk' = [clerk EXCEPT ![k] = m],
           RowsTyped', DraftsCounted', EventSafe', TaskSafe(m)',
           Unbooked /\ ~ Unbooked' => clerk[k].op = "create", ~ Unbooked => ~ Unbooked',
           \A r \in Member : event[r] = "over" => event'[r] = "over",
           \A l \in Clerk \ {k} : \A r \in clerk[l].leaving : event'[r] = "open",
           made <= made',
           \A l \in Clerk \ {k} : Written(clerk[l]) \subseteq files',
           \A d \in DOMAIN drafts' :
              IF d \in DOMAIN drafts
              THEN drafts'[d].type = drafts[d].type /\ drafts'[d].size = drafts[d].size
              ELSE d \in Written(clerk[k]),
           m.op = "create" => \A l \in Clerk \ {k} : clerk[l].op # "create",
           Written(m) \cap m.seen = {},
           \A l \in Clerk \ {k} : /\ Written(m) \cap Written(clerk[l]) = {}
                                  /\ Written(m) \cap clerk[l].seen = {}
                                  /\ m.seen \cap Written(clerk[l]) = {}
                                  /\ m.leaving \cap clerk[l].leaving = {}
    PROVE  DossierSafe'
<1>1. clerk'[k] = m /\ \A l \in Clerk \ {k} : clerk'[l] = clerk[l]
  BY DEF DossierSafe, TasksSafe
<1>2. clerk' \in [Clerk -> Task]
  BY DEF DossierSafe, TasksSafe
<1>3. ASSUME NEW l \in Clerk PROVE TaskSafe(clerk[l])'
  <2>1. PICK n : n = clerk'[l]
    OBVIOUS
  <2>2. TaskSafe(n)'
    <3>1. CASE l = k
      BY <1>1, <2>1, <3>1
    <3>2. CASE l # k
      <4>1. n = clerk[l] /\ n \in Task /\ TaskSafe(n)
        BY <1>1, <2>1, <3>2 DEF DossierSafe, TasksSafe
      <4>2. TasksApart(n, clerk[k]) /\ Written(clerk[k]) \cap n.seen = {}
        BY <3>2, <4>1 DEF DossierSafe, TasksSafe
      <4>3. n.op = "create" => Unbooked'
        BY <4>1, <4>2 DEF TasksApart, TaskSafe
      <4>4. \A d \in DOMAIN drafts' :
              IF d \in DOMAIN drafts
              THEN drafts'[d].type = drafts[d].type /\ drafts'[d].size = drafts[d].size
              ELSE d \notin n.seen /\ d \notin Written(n)
        BY <4>2 DEF TasksApart
      <4>5. (\A r \in n.leaving : event'[r] = "open") /\ Written(n) \subseteq files'
        BY <3>2, <4>1
      <4> QED
        BY <4>1, <4>3, <4>4, <4>5, TaskKept DEF DossierSafe
    <3> QED
      BY <3>1, <3>2
  <2> QED
    BY <2>1, <2>2 DEF TaskSafe
<1>4. \A l \in Clerk : Written(clerk[l])' = Written(clerk'[l])
  BY DEF Written
<1>5. ASSUME NEW i \in Clerk, NEW l \in Clerk
      PROVE  Written(clerk'[i]) \cap clerk'[l].seen = {}
  BY <1>1 DEF DossierSafe, TasksSafe
<1>6. ASSUME NEW i \in Clerk, NEW l \in Clerk, i # l PROVE TasksApart(clerk'[i], clerk'[l])
  <2>1. CASE i # k /\ l # k
    BY <1>1, <1>6, <2>1 DEF DossierSafe, TasksSafe
  <2>2. CASE i = k
    BY <1>1, <1>6, <2>2 DEF TasksApart
  <2>3. CASE l = k
    BY <1>1, <1>6, <2>3 DEF TasksApart
  <2> QED
    BY <2>1, <2>2, <2>3
<1>7. \A i, l \in Clerk : TasksApart(clerk[i], clerk[l])' = TasksApart(clerk'[i], clerk'[l])
  BY <1>4 DEF TasksApart
<1>8. TasksSafe'
  BY <1>2, <1>3, <1>4, <1>5, <1>6, <1>7 DEF TasksSafe
<1> QED
  BY <1>8 DEF DossierSafe

\* What the invariant says of one request.
LEMMA TaskOf ==
    ASSUME DossierSafe, NEW k \in Clerk, NEW j, j = clerk[k]
    PROVE  /\ j \in Task /\ TaskSafe(j) /\ clerk \in [Clerk -> Task]
           /\ \A l \in Clerk : /\ Written(clerk[l]) \cap j.seen = {}
                               /\ Written(j) \cap clerk[l].seen = {}
           /\ \A l \in Clerk \ {k} : TasksApart(clerk[l], j) /\ TasksApart(j, clerk[l])
           /\ \A l \in Clerk : Written(clerk[l]) \subseteq files
                               /\ \A r \in clerk[l].leaving : event[r] = "open"
  BY DEF DossierSafe, TasksSafe, TaskSafe

\* A request that is over asks for nothing.
LEMMA RestingIsTask ==
    ASSUME NEW m, m = Resting
    PROVE  /\ m \in Task /\ TaskSafe(m) /\ TaskSafe(m)'
           /\ m.op = "none" /\ m.pc = "idle" /\ m.seen = {} /\ m.leaving = {} /\ m.docs = <<>>
           /\ Written(m) = {}
<1>1. m = [op |-> "none", pc |-> "idle", docs |-> <<>>, old |-> NoDraft, seen |-> {},
           at |-> <<>>, leaving |-> {}, count |-> 0]
  BY DEF Resting
<1>2. <<>> \in Papers
  <2>1. <<>> \in [{} -> Draft] /\ {} \in SUBSET (0..MaxDrafts)
    OBVIOUS
  <2> QED
    BY <2>1 DEF Papers
<1>3. m \in Task
  BY <1>1, <1>2 DEF Task
<1>4. Written(m) = {} /\ Written(m)' = {}
  BY <1>1 DEF Written
<1>5. m.op = "none" /\ m.pc = "idle" /\ m.seen = {} /\ m.leaving = {} /\ m.docs = <<>>
  BY <1>1
<1>6. TaskSafe(m)
  BY <1>4, <1>5 DEF TaskSafe
<1>7. TaskSafe(m)'
  BY <1>4, <1>5 DEF TaskSafe
<1> QED
  BY <1>3, <1>4, <1>5, <1>6, <1>7

\* The event keeps its drafts, and nothing is asked of them anew.
LEMMA EventKept ==
    ASSUME RowsTyped, RowsTyped', EventSafe,
           UNCHANGED <<drafts, crossed, papered, copied>>,
           Unbooked' => Unbooked,
           \A r \in Member : event[r] = "over" => event'[r] = "over",
           event'[Anchor] = "confirmed" <=> event[Anchor] = "confirmed",
           ~ rushed' => ~ rushed /\ (ActiveCount <= MaxActive => ActiveCount' <= MaxActive),
           FilesSafe'
    PROVE  EventSafe'
<1>1. TypesOf(drafts)' = TypesOf(drafts) /\ ActiveOf(drafts)' = ActiveOf(drafts)
      /\ BytesOf(drafts, ActiveOf(drafts))' = BytesOf(drafts, ActiveOf(drafts))
  BY DEF TypesOf, ActiveOf, BytesOf
<1>2. OneActiveVersion' /\ QuotaHolds'
  BY <1>1 DEF EventSafe, OneActiveVersion, QuotaHolds
<1>3. StaysComplete'
  BY <1>1 DEF EventSafe, StaysComplete, Over
<1>4. AnchorCopied' /\ LimitHeld'
  BY <1>1 DEF EventSafe, AnchorCopied, LimitHeld
<1> QED
  BY <1>2, <1>3, <1>4 DEF EventSafe

-----------------------------------------------------------------------------
(* The counts.                                                             *)

\* Any set of requests can be counted, and a part of it is no larger.
LEMMA ClerksFinite ==
    /\ Cardinality(Clerk) \in Nat /\ Cardinality(Clerk) > 0
    /\ \A S \in SUBSET Clerk : IsFiniteSet(S) /\ Cardinality(S) \in Nat
                                /\ Cardinality(S) <= Cardinality(Clerk)
    /\ \A S \in SUBSET Clerk : \A R \in SUBSET S : Cardinality(R) <= Cardinality(S)
    /\ \A S \in SUBSET Clerk : \A k \in S : Cardinality(S \ {k}) = Cardinality(S) - 1
    /\ \A S \in SUBSET Clerk : \A k \in Clerk : Cardinality(S \cup {k}) <= Cardinality(S) + 1
<1>1. IsFiniteSet(Clerk) /\ Cardinality(Clerk) \in Nat /\ Cardinality(Clerk) > 0
  BY DossierAssumption, FS_CardinalityType, FS_EmptySet
<1>2. \A S \in SUBSET Clerk : IsFiniteSet(S) /\ Cardinality(S) \in Nat
                                /\ Cardinality(S) <= Cardinality(Clerk)
  BY <1>1, FS_Subset, FS_CardinalityType
<1>3. \A S \in SUBSET Clerk : \A R \in SUBSET S : Cardinality(R) <= Cardinality(S)
  BY <1>2, FS_Subset
<1>4. \A S \in SUBSET Clerk : \A k \in S : Cardinality(S \ {k}) = Cardinality(S) - 1
  BY <1>2, FS_RemoveElement
<1>5. ASSUME NEW S \in SUBSET Clerk, NEW k \in Clerk
      PROVE  Cardinality(S \cup {k}) <= Cardinality(S) + 1
  <2>1. CASE k \in S
    <3>1. S \cup {k} = S
      BY <2>1
    <3> QED
      BY <1>2, <3>1
  <2>2. CASE k \notin S
    <3>1. Cardinality(S \cup {k}) = Cardinality(S) + 1
      BY <1>2, <2>2, FS_AddElement
    <3> QED
      BY <1>2, <3>1
  <2> QED
    BY <2>1, <2>2
<1> QED
  BY <1>1, <1>2, <1>3, <1>4, <1>5

\* The bounds stand while nothing is written or booked and nothing is begun,
LEMMA DraftsCountedStill ==
    ASSUME DossierSafe, NEW k \in Clerk, NEW m \in Task, clerk' = [clerk EXCEPT ![k] = m],
           RowsTyped', made' = made, elsewhere' <= elsewhere,
           m.op = "upload" => m.pc # "load" \/ k \in Uploading,
           m.op = "book" => k \in Booking
    PROVE  DraftsCounted'
<1>1. Uploading' \subseteq Uploading /\ Booking' \subseteq Booking
  BY DEF Uploading, Booking, DossierSafe, TasksSafe
<1>2. Uploading \in SUBSET Clerk /\ Booking \in SUBSET Clerk
      /\ Uploading' \in SUBSET Clerk /\ Booking' \in SUBSET Clerk
  BY <1>1 DEF Uploading, Booking
<1>3. /\ Cardinality(Uploading') <= Cardinality(Uploading)
      /\ Cardinality(Booking') <= Cardinality(Booking)
      /\ Cardinality(Uploading') \in Nat /\ Cardinality(Uploading) \in Nat
      /\ Cardinality(Booking') \in Nat /\ Cardinality(Booking) \in Nat
  BY <1>1, <1>2, ClerksFinite
<1>4. /\ made \in Nat /\ MaxDrafts \in Nat /\ MaxActive \in Nat /\ Cardinality(Clerk) \in Nat
      /\ elsewhere \in Nat /\ elsewhere' \in Nat
      /\ made + Cardinality(Uploading) <= MaxDrafts
      /\ elsewhere + Cardinality(Booking) <= MaxActive + Cardinality(Clerk) - 1
  BY DossierAssumption, ClerksFinite DEF DossierSafe, RowsTyped, DraftsCounted
<1> QED
  BY <1>3, <1>4 DEF DraftsCounted

-----------------------------------------------------------------------------
(* Steps of the reservations.                                              *)

\* What no request does leaves all requests as they are.
LEMMA Undisturbed ==
    ASSUME DossierSafe, RowsTyped', EventSafe', elsewhere' <= elsewhere,
           UNCHANGED <<clerk, made, drafts, files>>, Unbooked' <=> Unbooked,
           \A r \in Member : event[r] = "over" => event'[r] = "over",
           \A l \in Clerk : \A r \in clerk[l].leaving : event'[r] = "open"
    PROVE  DossierSafe'
<1>1. PICK k \in Clerk : TRUE
  BY DossierAssumption
<1>2. PICK m : m = clerk[k]
  OBVIOUS
<1>3. /\ m \in Task /\ TaskSafe(m) /\ clerk' = [clerk EXCEPT ![k] = m]
      /\ Written(m) \cap m.seen = {} /\ Written(m) \subseteq files
      /\ \A l \in Clerk \ {k} : /\ TasksApart(m, clerk[l])
                                /\ Written(m) \cap clerk[l].seen = {}
                                /\ m.seen \cap Written(clerk[l]) = {}
  BY <1>2, TaskOf
<1>4. made <= made' /\ RowsTyped /\ \A l \in Clerk : Written(clerk[l]) \subseteq files'
  BY TaskOf DEF DossierSafe, RowsTyped
<1>5. TaskSafe(m)'
  <2>1. m.op = "create" => Unbooked'
    BY <1>3 DEF TaskSafe
  <2>2. \A r \in m.leaving : event'[r] = "open"
    BY <1>2
  <2> QED
    BY <1>3, <1>4, <2>1, <2>2, TaskKept
<1>6. DraftsCounted'
  <2>1. m.op = "upload" => m.pc # "load" \/ k \in Uploading
    BY <1>2 DEF Uploading
  <2>2. m.op = "book" => k \in Booking
    BY <1>2 DEF Booking
  <2> QED
    BY <1>3, <2>1, <2>2, DraftsCountedStill
<1> QED
  BY <1>3, <1>4, <1>5, <1>6, DossierAssembled DEF TasksApart

\* The event moves on: what was over stays over, and a file that is missing for
\* a good reason still is.
LEMMA FilesStill ==
    ASSUME DossierSafe, UNCHANGED <<clerk, drafts, files>>, cut => cut',
           \A r \in Member : event[r] = "over" => event'[r] = "over"
    PROVE  FilesSafe'
  BY DEF DossierSafe, EventSafe, FilesSafe, Over, Purges

\* The other reservations of the customer.
LEMMA ElsewhereStep == ASSUME DossierSafe, ElsewhereEnds PROVE DossierSafe'
<1>1. /\ elsewhere > 0 /\ elsewhere' = elsewhere - 1
      /\ UNCHANGED <<event, drafts, files, copied, clerk, made, papered, cut, crossed, rushed>>
  BY DEF ElsewhereEnds
<1>2. RowsTyped'
  BY <1>1 DEF DossierSafe, RowsTyped, Unbooked
<1>3. ActiveCount' = ActiveCount - 1 /\ ActiveCount \in Nat /\ MaxActive \in Nat
  BY <1>1, DossierAssumption DEF ActiveCount, DossierSafe, RowsTyped
<1>4. EventSafe'
  BY <1>1, <1>2, <1>3, FilesStill, EventKept DEF DossierSafe, Unbooked
<1>5. elsewhere' <= elsewhere /\ (Unbooked' <=> Unbooked)
  BY <1>1 DEF DossierSafe, RowsTyped, Unbooked
<1> QED
  BY <1>1, <1>2, <1>4, <1>5, Undisturbed, TaskOf

\* A reservation that no request is about to end changes its status.
LEMMA StatusStep ==
    ASSUME DossierSafe, NEW r \in Member, NEW s \in {"review", "confirmed", "over"},
           event[r] \in {"open", "review"}, event' = [event EXCEPT ![r] = s],
           event[r] = "review" \/ s = "review",
           r \notin Leaving,
           UNCHANGED <<drafts, files, elsewhere, clerk, made, papered, cut, crossed, rushed>>
    PROVE  /\ RowsTyped /\ (copied' \subseteq DocType => RowsTyped')
           /\ Unbooked' <=> Unbooked
           /\ ActiveCount <= MaxActive => ActiveCount' <= MaxActive
           /\ FilesSafe'
           /\ RowsTyped' /\ EventSafe' => DossierSafe'
<1>1. RowsTyped /\ ~ Unbooked /\ \A q \in Member : event[q] # "none" /\ event'[q] # "none"
  BY DEF DossierSafe, RowsTyped, Unbooked
<1>2. ~ Unbooked'
  BY <1>1 DEF Unbooked
<1>3. ASSUME copied' \subseteq DocType PROVE RowsTyped'
  <2>1. event' \in [Member -> Statuses]
    BY <1>1 DEF RowsTyped, Statuses
  <2> QED
    BY <1>1, <1>3, <2>1 DEF RowsTyped
<1>4. \A q \in Member : event[q] = "over" => event'[q] = "over"
  OBVIOUS
<1>5. ActiveCount <= MaxActive => ActiveCount' <= MaxActive
  <2>1. elsewhere \in Nat /\ MaxActive \in Nat
    BY <1>1, DossierAssumption DEF RowsTyped
  <2> QED
    BY <1>1, <2>1 DEF ActiveCount, RowsTyped
<1>6. \A l \in Clerk : \A q \in clerk[l].leaving : event'[q] = "open"
  BY TaskOf DEF Leaving, DossierSafe, RowsTyped
<1>7. FilesSafe'
  BY <1>4, FilesStill
<1>8. ASSUME RowsTyped', EventSafe' PROVE DossierSafe'
  <2>1. elsewhere' <= elsewhere
    BY <1>1 DEF RowsTyped
  <2> QED
    BY <1>1, <1>2, <1>4, <1>6, <1>8, <2>1, Undisturbed
<1> QED
  BY <1>1, <1>2, <1>3, <1>5, <1>7, <1>8

\* A slip is uploaded.
LEMMA SlipStep == ASSUME DossierSafe, NEW r \in Member, Slip(r) PROVE DossierSafe'
<1>1. /\ event[r] = "open" /\ r \notin Leaving /\ event' = [event EXCEPT ![r] = "review"]
      /\ UNCHANGED <<drafts, files, copied, elsewhere, clerk, made, papered, cut, crossed, rushed>>
  BY DEF Slip
<1>2. copied' \subseteq DocType
  BY <1>1 DEF DossierSafe, RowsTyped
<1>3. /\ RowsTyped /\ RowsTyped' /\ (Unbooked' <=> Unbooked) /\ FilesSafe'
      /\ ActiveCount <= MaxActive => ActiveCount' <= MaxActive
  BY <1>1, <1>2, StatusStep
<1>4. EventSafe'
  <2>1. event'[Anchor] = "confirmed" <=> event[Anchor] = "confirmed"
    BY <1>1, DossierAssumption DEF DossierSafe, RowsTyped
  <2>2. \A q \in Member : event[q] = "over" => event'[q] = "over"
    BY <1>1
  <2> QED
    BY <1>1, <1>3, <2>1, <2>2, EventKept DEF DossierSafe
<1> QED
  BY <1>1, <1>3, <1>4, StatusStep

\* What is under review is not being ended by a request.
LEMMA ReviewStays ==
    ASSUME DossierSafe, NEW r \in Member, event[r] = "review" PROVE r \notin Leaving
  BY TaskOf DEF Leaving

\* Finance rejects the payment,
LEMMA RejectStep == ASSUME DossierSafe, NEW r \in Member, Reject(r) PROVE DossierSafe'
<1>1. /\ event[r] = "review" /\ event' = [event EXCEPT ![r] = "over"]
      /\ UNCHANGED <<drafts, files, copied, elsewhere, clerk, made, papered, cut, crossed, rushed>>
  BY DEF Reject
<1>2. copied' \subseteq DocType /\ r \notin Leaving
  BY <1>1, ReviewStays DEF DossierSafe, RowsTyped
<1>3. /\ RowsTyped /\ RowsTyped' /\ (Unbooked' <=> Unbooked) /\ FilesSafe'
      /\ ActiveCount <= MaxActive => ActiveCount' <= MaxActive
  BY <1>1, <1>2, StatusStep
<1>4. EventSafe'
  <2>1. event'[Anchor] = "confirmed" <=> event[Anchor] = "confirmed"
    BY <1>1, DossierAssumption DEF DossierSafe, RowsTyped
  <2>2. \A q \in Member : event[q] = "over" => event'[q] = "over"
    BY <1>1
  <2> QED
    BY <1>1, <1>3, <2>1, <2>2, EventKept DEF DossierSafe
<1> QED
  BY <1>1, <1>2, <1>3, <1>4, StatusStep

\* or accepts it; with the first reservation it copies the documents.
LEMMA ConfirmStep == ASSUME DossierSafe, NEW r \in Member, Confirm(r) PROVE DossierSafe'
<1>1. /\ event[r] = "review" /\ event' = [event EXCEPT ![r] = "confirmed"]
      /\ copied' = IF r = Anchor THEN copied \cup TypesOf(drafts) ELSE copied
      /\ UNCHANGED <<drafts, files, elsewhere, clerk, made, papered, cut, crossed, rushed>>
  BY DEF Confirm
<1>2. copied' \subseteq DocType /\ r \notin Leaving
  BY <1>1, ReviewStays DEF DossierSafe, RowsTyped, TypesOf, ActiveOf, Draft
<1>3. /\ RowsTyped /\ RowsTyped' /\ (Unbooked' <=> Unbooked) /\ FilesSafe'
      /\ ActiveCount <= MaxActive => ActiveCount' <= MaxActive
  BY <1>1, <1>2, StatusStep
<1>4. EventSafe'
  <2>1. \A q \in Member : event[q] = "over" => event'[q] = "over"
    BY <1>1
  <2>2. CASE r # Anchor
    <3>1. event'[Anchor] = "confirmed" <=> event[Anchor] = "confirmed"
      BY <1>1, <2>2, DossierAssumption DEF DossierSafe, RowsTyped
    <3> QED
      BY <1>1, <1>3, <2>1, <2>2, <3>1, EventKept DEF DossierSafe
  <2>3. CASE r = Anchor
    <3>1. copied' = TypesOf(drafts) /\ event'[Anchor] = "confirmed"
      BY <1>1, <2>3, DossierAssumption DEF DossierSafe, EventSafe, RowsTyped
    <3>2. TypesOf(drafts)' = TypesOf(drafts) /\ ActiveOf(drafts)' = ActiveOf(drafts)
          /\ BytesOf(drafts, ActiveOf(drafts))' = BytesOf(drafts, ActiveOf(drafts))
      BY <1>1 DEF TypesOf, ActiveOf, BytesOf
    <3>3. OneActiveVersion' /\ QuotaHolds'
      BY <1>1, <3>2 DEF DossierSafe, EventSafe, OneActiveVersion, QuotaHolds
    <3>4. StaysComplete'
      BY <1>1, <2>1, <3>2 DEF DossierSafe, EventSafe, StaysComplete, Over
    <3>5. AnchorCopied' /\ LimitHeld'
      BY <1>1, <1>3, <3>1, <3>2 DEF DossierSafe, EventSafe, AnchorCopied, LimitHeld
    <3> QED
      BY <1>1, <1>3, <3>1, <3>3, <3>4, <3>5 DEF DossierSafe, EventSafe
  <2> QED
    BY <2>2, <2>3
<1> QED
  BY <1>1, <1>2, <1>3, <1>4, StatusStep

-----------------------------------------------------------------------------
(* Steps of a request before its commit.                                   *)

\* A request goes on without touching the event or its drafts.
LEMMA OwnStep ==
    ASSUME DossierSafe, NEW k \in Clerk, NEW m \in Task, clerk' = [clerk EXCEPT ![k] = m],
           UNCHANGED <<event, drafts, copied, papered, crossed>>,
           RowsTyped', DraftsCounted', TaskSafe(m)', FilesSafe', made <= made',
           \A l \in Clerk \ {k} : Written(clerk[l]) \subseteq files',
           ~ rushed' => ~ rushed /\ (ActiveCount <= MaxActive => ActiveCount' <= MaxActive),
           m.op = "create" => \A l \in Clerk \ {k} : clerk[l].op # "create",
           Written(m) \cap m.seen = {},
           \A l \in Clerk \ {k} : /\ Written(m) \cap Written(clerk[l]) = {}
                                  /\ Written(m) \cap clerk[l].seen = {}
                                  /\ m.seen \cap Written(clerk[l]) = {}
                                  /\ m.leaving \cap clerk[l].leaving = {}
    PROVE  DossierSafe'
<1>1. /\ (Unbooked' <=> Unbooked)
      /\ \A r \in Member : event[r] = "over" => event'[r] = "over"
      /\ event'[Anchor] = "confirmed" <=> event[Anchor] = "confirmed"
      /\ \A l \in Clerk \ {k} : \A r \in clerk[l].leaving : event'[r] = "open"
  BY TaskOf DEF Unbooked
<1>2. EventSafe'
  BY <1>1, EventKept DEF DossierSafe
<1> QED
  BY <1>1, <1>2, DossierAssembled

\* No file goes, and a request that ends the event goes on or is cut off.
LEMMA FilesOwn ==
    ASSUME DossierSafe, NEW k \in Clerk, NEW m \in Task, clerk' = [clerk EXCEPT ![k] = m],
           UNCHANGED <<event, drafts>>, files \subseteq files', cut => cut',
           clerk[k].op = "leave" => cut' \/ (m.op = "leave" /\ m.leaving = clerk[k].leaving)
    PROVE  FilesSafe'
<1>1. clerk'[k] = m /\ \A l \in Clerk \ {k} : clerk'[l] = clerk[l]
  BY TaskOf
<1>2. CASE Over \/ cut \/ DOMAIN drafts \subseteq files
  BY <1>2 DEF FilesSafe, Over
<1>3. CASE \E l \in Clerk : clerk[l].op = "leave" /\ Purges(clerk[l].leaving)
  <2>1. PICK l \in Clerk : clerk[l].op = "leave" /\ Purges(clerk[l].leaving)
    BY <1>3
  <2>2. cut' \/ (clerk'[l].op = "leave" /\ clerk'[l].leaving = clerk[l].leaving)
    BY <1>1, <2>1
  <2>3. Purges(clerk[l].leaving)' <=> \A r \in Member \ clerk'[l].leaving : event'[r] = "over"
    BY DEF Purges
  <2> QED
    BY <2>1, <2>2, <2>3 DEF FilesSafe, Purges
<1> QED
  BY <1>2, <1>3 DEF DossierSafe, EventSafe, FilesSafe

\* How many active reservations there are is a number.
LEMMA ActiveCountNat ==
    ASSUME RowsTyped PROVE ActiveCount \in Nat /\ elsewhere <= ActiveCount
  BY DEF RowsTyped, ActiveCount

\* Two creations count.
LEMMA CountActiveStep ==
    ASSUME DossierSafe, NEW k \in Clerk, NEW op \in {"create", "book"}, CountActive(k, op)
    PROVE  DossierSafe'
<1>1. PICK m : m = [Resting EXCEPT !.op = op, !.count = ActiveCount,
                                   !.pc = IF op = "book" THEN "commit" ELSE "load"]
  OBVIOUS
<1>2. /\ clerk[k] = Resting /\ ActiveCount < MaxActive
      /\ op = "create" => Unbooked /\ \A j \in Clerk : clerk[j].op # "create"
      /\ clerk' = [clerk EXCEPT ![k] = m]
      /\ UNCHANGED <<event, drafts, files, copied, elsewhere, made, papered, cut, crossed, rushed>>
  BY <1>1 DEF CountActive
<1>3. /\ m.op = op /\ m.count = ActiveCount /\ m.seen = {} /\ m.leaving = {} /\ m.docs = <<>>
      /\ m.old = NoDraft /\ m.at = <<>>
      /\ m.pc = IF op = "book" THEN "commit" ELSE "load"
      /\ m = [op |-> op, pc |-> m.pc, docs |-> <<>>, old |-> NoDraft, seen |-> {},
              at |-> <<>>, leaving |-> {}, count |-> ActiveCount]
  BY <1>1 DEF Resting
<1>4. <<>> \in Papers /\ RowsTyped /\ ActiveCount \in Nat
  BY RestingIsTask, ActiveCountNat DEF DossierSafe, Task
<1>5. m \in Task
  BY <1>3, <1>4 DEF Task
<1>6. RowsTyped'
  BY <1>2 DEF DossierSafe, RowsTyped, Unbooked
<1>7. Written(m) = {} /\ Written(m)' = {}
  BY <1>3 DEF Written
<1>8. TaskSafe(m)'
  <2>1. Complete(<<>>)
    <3>1. IsFiniteSet({}) /\ BytesOf(<<>>, {}) = 0
      BY FS_EmptySet, BytesOfPart
    <3>2. DOMAIN <<>> = {}
      OBVIOUS
    <3> QED
      BY <1>4, <3>1, <3>2, DossierAssumption DEF Complete
  <2>2. Complete(m.docs)' /\ m.count < MaxActive
    BY <1>2, <1>3, <2>1 DEF Complete
  <2>3. Unbooked' <=> Unbooked
    BY <1>2 DEF Unbooked
  <2> QED
    BY <1>2, <1>3, <1>7, <2>2, <2>3 DEF TaskSafe
<1>9. DraftsCounted'
  <2>1. Uploading' \subseteq Uploading /\ Uploading \in SUBSET Clerk /\ Booking' \in SUBSET Clerk
    BY <1>2, <1>3, TaskOf DEF Uploading, Booking
  <2>2. /\ Cardinality(Uploading') <= Cardinality(Uploading)
        /\ Cardinality(Uploading) \in Nat /\ Cardinality(Uploading') \in Nat
        /\ Cardinality(Booking') \in Nat /\ Cardinality(Booking') <= Cardinality(Clerk)
    BY <2>1, ClerksFinite
  <2>3. /\ made \in Nat /\ MaxDrafts \in Nat /\ MaxActive \in Nat /\ Cardinality(Clerk) \in Nat
        /\ elsewhere \in Nat /\ elsewhere <= MaxActive - 1
        /\ made + Cardinality(Uploading) <= MaxDrafts
    BY <1>2, <1>4, DossierAssumption, ClerksFinite, ActiveCountNat
       DEF DossierSafe, RowsTyped, DraftsCounted
  <2> QED
    BY <1>2, <2>2, <2>3 DEF DraftsCounted
<1>10. FilesSafe'
  <2>1. clerk[k].op # "leave"
    BY <1>2, RestingIsTask
  <2> QED
    BY <1>2, <1>5, <2>1, FilesOwn
<1>11. ActiveCount' = ActiveCount
  BY <1>2 DEF ActiveCount
<1>12. made <= made' /\ \A l \in Clerk \ {k} : Written(clerk[l]) \subseteq files'
  BY <1>2, <1>4, TaskOf DEF RowsTyped
<1>13. m.op = "create" => \A l \in Clerk \ {k} : clerk[l].op # "create"
  BY <1>2, <1>3
<1> QED
  BY <1>2, <1>3, <1>5, <1>6, <1>7, <1>8, <1>9, <1>10, <1>11, <1>12, <1>13, OwnStep

\* A cancellation, or the sweep, lists what is to go if it ends the event.
LEMMA LeaveStep ==
    ASSUME DossierSafe, NEW k \in Clerk, NEW S \in SUBSET Member, Leave(k, S)
    PROVE  DossierSafe'
<1>1. PICK m : m = [Resting EXCEPT !.op = "leave", !.leaving = S,
                    !.seen = IF Purges(S) THEN DOMAIN drafts ELSE {},
                    !.pc = IF Purges(S) /\ drafts # <<>> THEN "purge" ELSE "commit"]
  OBVIOUS
<1>2. /\ clerk[k] = Resting /\ clerk' = [clerk EXCEPT ![k] = m]
      /\ S \cap Leaving = {} /\ \A r \in S : event[r] = "open"
      /\ UNCHANGED <<event, drafts, files, copied, elsewhere, made, papered, cut, crossed, rushed>>
  BY <1>1 DEF Leave
<1>3. /\ m.op = "leave" /\ m.leaving = S /\ m.docs = <<>> /\ m.old = NoDraft /\ m.at = <<>>
      /\ m.seen = IF Purges(S) THEN DOMAIN drafts ELSE {}
      /\ m.pc = IF Purges(S) /\ drafts # <<>> THEN "purge" ELSE "commit"
      /\ m = [op |-> "leave", pc |-> m.pc, docs |-> <<>>, old |-> NoDraft, seen |-> m.seen,
              at |-> <<>>, leaving |-> S, count |-> 0]
  BY <1>1 DEF Resting
<1>4. <<>> \in Papers /\ RowsTyped /\ DOMAIN drafts \subseteq 1..made /\ made <= MaxDrafts
      /\ made \in Nat
  BY RestingIsTask, DossierAssumption DEF DossierSafe, RowsTyped, Task
<1>5. m \in Task
  <2>1. m.seen \in SUBSET (1..MaxDrafts)
    BY <1>3, <1>4, DossierAssumption
  <2> QED
    BY <1>3, <1>4, <2>1 DEF Task
<1>6. RowsTyped'
  BY <1>2 DEF DossierSafe, RowsTyped, Unbooked
<1>7. Written(m) = {} /\ Written(m)' = {}
  BY <1>3 DEF Written
<1>8. TaskSafe(m)'
  <2>1. m.pc = "purge" \/ m.seen # {} => Purges(m.leaving)'
    BY <1>2, <1>3 DEF Purges
  <2>2. m.seen \subseteq 1..made'
    BY <1>2, <1>3, <1>4
  <2>3. \A r \in m.leaving : event'[r] = "open"
    BY <1>2, <1>3
  <2>4. m.pc \in {"purge", "commit"}
    BY <1>3
  <2> QED
    BY <1>3, <1>7, <2>1, <2>2, <2>3, <2>4 DEF TaskSafe
<1>9. DraftsCounted'
  <2>1. elsewhere' <= elsewhere
    BY <1>2, <1>3, <1>4, <1>5, <1>6 DEF RowsTyped
  <2> QED
    BY <1>2, <1>3, <1>4, <1>5, <1>6, <2>1, DraftsCountedStill
<1>10. FilesSafe'
  <2>1. clerk[k].op # "leave"
    BY <1>2, RestingIsTask
  <2> QED
    BY <1>2, <1>5, <2>1, FilesOwn
<1>11. ActiveCount' = ActiveCount
  BY <1>2 DEF ActiveCount
<1>12. made <= made' /\ \A l \in Clerk \ {k} : Written(clerk[l]) \subseteq files'
  BY <1>2, <1>4, TaskOf
<1>13. \A l \in Clerk \ {k} : m.seen \cap Written(clerk[l]) = {} /\ m.leaving \cap clerk[l].leaving = {}
  <2>1. \A l \in Clerk : Written(clerk[l]) \cap DOMAIN drafts = {}
    BY DEF DossierSafe, TasksSafe, TaskSafe
  <2> QED
    BY <1>2, <1>3, <2>1 DEF Leaving
<1> QED
  BY <1>2, <1>3, <1>5, <1>6, <1>7, <1>8, <1>9, <1>10, <1>11, <1>12, <1>13, OwnStep

\* The nightly task lists all drafts of an event that is over.
LEMMA CleanUpStep ==
    ASSUME DossierSafe, NEW k \in Clerk, CleanUp(k)
    PROVE  DossierSafe'
<1>1. PICK m : m = [Resting EXCEPT !.op = "cleanup", !.pc = "purge", !.seen = DOMAIN drafts]
  OBVIOUS
<1>2. /\ clerk[k] = Resting /\ clerk' = [clerk EXCEPT ![k] = m] /\ Over
      /\ UNCHANGED <<event, drafts, files, copied, elsewhere, made, papered, cut, crossed, rushed>>
  BY <1>1 DEF CleanUp
<1>3. /\ m.op = "cleanup" /\ m.leaving = {} /\ m.docs = <<>> /\ m.old = NoDraft /\ m.at = <<>>
      /\ m.seen = DOMAIN drafts /\ m.pc = "purge"
      /\ m = [op |-> "cleanup", pc |-> "purge", docs |-> <<>>, old |-> NoDraft, seen |-> m.seen,
              at |-> <<>>, leaving |-> {}, count |-> 0]
  BY <1>1 DEF Resting
<1>4. <<>> \in Papers /\ RowsTyped /\ DOMAIN drafts \subseteq 1..made /\ made <= MaxDrafts
      /\ made \in Nat
  BY RestingIsTask, DossierAssumption DEF DossierSafe, RowsTyped, Task
<1>5. m \in Task
  <2>1. m.seen \in SUBSET (1..MaxDrafts)
    BY <1>3, <1>4, DossierAssumption
  <2> QED
    BY <1>3, <1>4, <2>1 DEF Task
<1>6. RowsTyped'
  BY <1>2 DEF DossierSafe, RowsTyped, Unbooked
<1>7. Written(m) = {} /\ Written(m)' = {}
  BY <1>3 DEF Written
<1>8. TaskSafe(m)'
  <2>1. m.seen \subseteq 1..made' /\ Over'
    BY <1>2, <1>3, <1>4 DEF Over
  <2> QED
    BY <1>3, <1>7, <2>1 DEF TaskSafe
<1>9. DraftsCounted'
  <2>1. elsewhere' <= elsewhere
    BY <1>2, <1>3, <1>4, <1>5, <1>6 DEF RowsTyped
  <2> QED
    BY <1>2, <1>3, <1>4, <1>5, <1>6, <2>1, DraftsCountedStill
<1>10. FilesSafe'
  BY <1>2 DEF FilesSafe, Over
<1>11. ActiveCount' = ActiveCount
  BY <1>2 DEF ActiveCount
<1>12. made <= made' /\ \A l \in Clerk \ {k} : Written(clerk[l]) \subseteq files'
  BY <1>2, <1>4, TaskOf
<1>13. \A l \in Clerk \ {k} : m.seen \cap Written(clerk[l]) = {}
  <2>1. \A l \in Clerk : Written(clerk[l]) \cap DOMAIN drafts = {}
    BY DEF DossierSafe, TasksSafe, TaskSafe
  <2> QED
    BY <1>3, <2>1
<1> QED
  BY <1>2, <1>3, <1>5, <1>6, <1>7, <1>8, <1>9, <1>10, <1>11, <1>12, <1>13, OwnStep

\* The files of what was listed are removed.
LEMMA PurgeStep ==
    ASSUME DossierSafe, NEW k \in Clerk, Purge(k)
    PROVE  DossierSafe'
<1> DEFINE j == clerk[k]
<1>1. PICK m : m = [j EXCEPT !.pc = "commit", !.seen = DOMAIN drafts]
  OBVIOUS
<1>2. /\ j.pc = "purge" /\ clerk' = [clerk EXCEPT ![k] = m]
      /\ files' \subseteq files /\ files \ j.seen \subseteq files'
      /\ UNCHANGED <<event, drafts, copied, elsewhere, made, papered, cut, crossed, rushed>>
  BY <1>1 DEF Purge
<1>3. j \in Task /\ TaskSafe(j) /\ j.op \in {"leave", "cleanup"}
  BY <1>2, TaskOf DEF TaskSafe
<1>4. /\ m.op = j.op /\ m.leaving = j.leaving /\ m.pc = "commit" /\ m.seen = DOMAIN drafts
  BY <1>1, <1>3 DEF Task
<1>5. RowsTyped /\ DOMAIN drafts \subseteq 1..made /\ made <= MaxDrafts /\ made \in Nat
  BY DossierAssumption DEF DossierSafe, RowsTyped
<1>6. m \in Task
  <2>1. DOMAIN drafts \in SUBSET (1..MaxDrafts)
    BY <1>5, DossierAssumption
  <2> QED
    BY <1>1, <1>3, <2>1 DEF Task
<1>7. RowsTyped'
  BY <1>2, <1>5 DEF DossierSafe, RowsTyped, Unbooked
<1>8. Written(m) = {} /\ Written(m)' = {}
  BY <1>3, <1>4 DEF Written
<1>9. Over \/ (j.op = "leave" /\ Purges(j.leaving))
  BY <1>2, <1>3 DEF TaskSafe
<1>10. TaskSafe(m)'
  <2>1. m.op = "leave" => Purges(m.leaving)'
    <3>1. j.op = "leave" => Purges(j.leaving)
      BY <1>2, <1>3 DEF TaskSafe
    <3> QED
      BY <1>2, <1>4, <3>1 DEF Purges
  <2>2. m.op = "cleanup" => Over'
    BY <1>2, <1>3, <1>4 DEF TaskSafe, Over
  <2>3. m.seen \subseteq 1..made' /\ (m.op # "leave" => m.leaving = {})
        /\ \A r \in m.leaving : event'[r] = "open"
    BY <1>2, <1>3, <1>4, <1>5 DEF TaskSafe
  <2>4. m.op \in {"leave", "cleanup"}
    BY <1>3, <1>4
  <2> QED
    BY <1>4, <1>8, <2>1, <2>2, <2>3, <2>4 DEF TaskSafe
<1>11. DraftsCounted'
  <2>1. elsewhere' <= elsewhere
    BY <1>2, <1>3, <1>4, <1>5, <1>6, <1>7 DEF RowsTyped
  <2> QED
    BY <1>2, <1>3, <1>4, <1>5, <1>6, <1>7, <2>1, DraftsCountedStill
<1>12. FilesSafe'
  <2>1. CASE Over
    BY <1>2, <2>1 DEF FilesSafe, Over
  <2>2. CASE j.op = "leave" /\ Purges(j.leaving)
    <3>1. clerk'[k].op = "leave" /\ clerk'[k].leaving = j.leaving
      BY <1>2, <1>4, <2>2, TaskOf
    <3> QED
      BY <1>2, <2>2, <3>1 DEF FilesSafe, Purges
  <2> QED
    BY <1>9, <2>1, <2>2
<1>13. ActiveCount' = ActiveCount
  BY <1>2 DEF ActiveCount
<1>14. made <= made' /\ \A l \in Clerk \ {k} : Written(clerk[l]) \subseteq files'
  BY <1>2, <1>5, TaskOf
<1>15. \A l \in Clerk \ {k} : m.seen \cap Written(clerk[l]) = {} /\ m.leaving \cap clerk[l].leaving = {}
  <2>1. \A l \in Clerk : Written(clerk[l]) \cap DOMAIN drafts = {}
    BY DEF DossierSafe, TasksSafe, TaskSafe
  <2> QED
    BY <1>4, <2>1, TaskOf DEF TasksApart
<1> QED
  BY <1>2, <1>3, <1>4, <1>6, <1>7, <1>8, <1>10, <1>11, <1>12, <1>13, <1>14, <1>15, OwnStep

\* A worker dies.
LEMMA KillClerkStep ==
    ASSUME DossierSafe, NEW k \in Clerk, KillClerk(k)
    PROVE  DossierSafe'
<1>1. PICK m : m = Resting
  OBVIOUS
<1>2. /\ clerk' = [clerk EXCEPT ![k] = m] /\ cut' = (cut \/ clerk[k].op = "leave")
      /\ UNCHANGED <<event, drafts, files, copied, elsewhere, made, papered, crossed, rushed>>
  BY <1>1 DEF KillClerk
<1>3. /\ m \in Task /\ TaskSafe(m)' /\ m.op = "none" /\ m.seen = {} /\ m.leaving = {}
      /\ Written(m) = {}
  BY <1>1, RestingIsTask
<1>4. RowsTyped /\ elsewhere' <= elsewhere /\ made <= made'
  BY <1>2 DEF DossierSafe, RowsTyped
<1>5. RowsTyped'
  BY <1>2, <1>4 DEF RowsTyped, Unbooked
<1>6. DraftsCounted'
  BY <1>2, <1>3, <1>4, <1>5, DraftsCountedStill
<1>7. FilesSafe'
  BY <1>2, <1>3, FilesOwn
<1>8. ActiveCount' = ActiveCount
  BY <1>2 DEF ActiveCount
<1>9. \A l \in Clerk \ {k} : Written(clerk[l]) \subseteq files'
  BY <1>2, TaskOf
<1> QED
  BY <1>2, <1>3, <1>4, <1>5, <1>6, <1>7, <1>8, <1>9, OwnStep

\* Another reservation of the customer is made.
LEMMA BookCommitStep ==
    ASSUME DossierSafe, NEW k \in Clerk, BookCommit(k)
    PROVE  DossierSafe'
<1>1. PICK m : m = Resting
  OBVIOUS
<1>2. /\ clerk[k].op = "book" /\ clerk' = [clerk EXCEPT ![k] = m] /\ elsewhere' = elsewhere + 1
      /\ rushed' = (rushed \/ ActiveCount > clerk[k].count)
      /\ UNCHANGED <<event, drafts, files, copied, made, papered, cut, crossed>>
  BY <1>1 DEF BookCommit, Rushed
<1>3. /\ m \in Task /\ TaskSafe(m)' /\ m.op = "none" /\ m.seen = {} /\ m.leaving = {}
      /\ Written(m) = {}
  BY <1>1, RestingIsTask
<1>4. RowsTyped /\ made <= made'
  BY <1>2 DEF DossierSafe, RowsTyped
<1>5. RowsTyped'
  BY <1>2, <1>4 DEF RowsTyped, Unbooked
<1>6. DraftsCounted'
  <2>1. Uploading' \subseteq Uploading /\ Booking' \subseteq Booking \ {k} /\ k \in Booking
    BY <1>2, <1>3, TaskOf DEF Uploading, Booking
  <2>2. Uploading \in SUBSET Clerk /\ Booking \in SUBSET Clerk /\ Booking \ {k} \in SUBSET Clerk
        /\ Uploading' \in SUBSET Clerk /\ Booking' \in SUBSET Clerk
    BY <2>1 DEF Uploading, Booking
  <2>3. /\ Cardinality(Uploading') <= Cardinality(Uploading)
        /\ Cardinality(Booking') <= Cardinality(Booking \ {k})
        /\ Cardinality(Booking \ {k}) = Cardinality(Booking) - 1
        /\ Cardinality(Uploading') \in Nat /\ Cardinality(Uploading) \in Nat
        /\ Cardinality(Booking') \in Nat /\ Cardinality(Booking) \in Nat
    BY <2>1, <2>2, ClerksFinite
  <2>4. /\ made \in Nat /\ MaxDrafts \in Nat /\ MaxActive \in Nat /\ Cardinality(Clerk) \in Nat
        /\ elsewhere \in Nat
        /\ made + Cardinality(Uploading) <= MaxDrafts
        /\ elsewhere + Cardinality(Booking) <= MaxActive + Cardinality(Clerk) - 1
    BY <1>4, DossierAssumption, ClerksFinite DEF DossierSafe, RowsTyped, DraftsCounted
  <2> QED
    BY <1>2, <2>3, <2>4 DEF DraftsCounted
<1>7. FilesSafe'
  BY <1>2, <1>3, FilesOwn
<1>8. ~ rushed' => ~ rushed /\ ActiveCount' <= MaxActive
  <2>1. clerk[k].count \in Nat /\ clerk[k].count < MaxActive /\ MaxActive \in Nat
    BY <1>2, TaskOf, DossierAssumption DEF Task, TaskSafe
  <2>2. ActiveCount \in Nat /\ ActiveCount' = ActiveCount + 1
    BY <1>2, <1>4 DEF ActiveCount, RowsTyped
  <2>3. ~ rushed' => ~ rushed /\ ~ (ActiveCount > clerk[k].count)
    BY <1>2, Zenon
  <2> QED
    BY <2>1, <2>2, <2>3
<1>9. \A l \in Clerk \ {k} : Written(clerk[l]) \subseteq files'
  BY <1>2, TaskOf
<1> QED
  BY <1>2, <1>3, <1>4, <1>5, <1>6, <1>7, <1>8, <1>9, OwnStep

\* A creation writes its documents, or fails and leaves some of the files.
LEMMA CreateWriteStep ==
    ASSUME DossierSafe, NEW k \in Clerk, CreateWrite(k)
    PROVE  DossierSafe'
<1> DEFINE j == clerk[k]
<1>1. /\ j.op = "create" /\ j.pc = "load"
      /\ UNCHANGED <<event, drafts, copied, elsewhere, papered, cut, crossed, rushed>>
  BY DEF CreateWrite
<1>2. j \in Task /\ TaskSafe(j) /\ Unbooked /\ RowsTyped /\ Written(j) = {}
      /\ \A l \in Clerk : j.seen \cap Written(clerk[l]) = {}
      /\ j.leaving = {}
  BY <1>1, TaskOf DEF TaskSafe, DossierSafe, Written
<1>3. made \in Nat /\ MaxDrafts \in Nat /\ made <= MaxDrafts /\ files \subseteq 1..made
  BY <1>2, DossierAssumption DEF RowsTyped
<1>4. PICK m : clerk' = [clerk EXCEPT ![k] = m] /\
        \/ /\ m = [j EXCEPT !.pc = "commit"]
           /\ UNCHANGED <<files, made>>
        \/ \E b \in Bundles :
             /\ made' = made + Cardinality(DOMAIN b)
             /\ files \subseteq files' /\ files' \subseteq files \cup DOMAIN b
             /\ \/ m = Resting
                \/ /\ m = [j EXCEPT !.pc = "commit", !.docs = b]
                   /\ BytesOf(b, DOMAIN b) <= MaxBytes /\ Required \subseteq TypesOf(b)
                   /\ files' = files \cup DOMAIN b
  <2>1. CASE clerk' = [clerk EXCEPT ![k].pc = "commit"] /\ UNCHANGED <<files, made>>
    BY <2>1
  <2>2. ASSUME NEW b \in Bundles,
               made' = made + Cardinality(DOMAIN b),
               BytesOf(b, DOMAIN b) <= MaxBytes, files' = files \cup DOMAIN b,
               clerk' = [clerk EXCEPT ![k] = IF Required \subseteq TypesOf(b)
                                    THEN [@ EXCEPT !.pc = "commit", !.docs = b] ELSE Resting]
        PROVE  \E m : clerk' = [clerk EXCEPT ![k] = m] /\
                 /\ made' = made + Cardinality(DOMAIN b)
                 /\ files \subseteq files' /\ files' \subseteq files \cup DOMAIN b
                 /\ \/ m = Resting
                    \/ /\ m = [j EXCEPT !.pc = "commit", !.docs = b]
                       /\ BytesOf(b, DOMAIN b) <= MaxBytes /\ Required \subseteq TypesOf(b)
                       /\ files' = files \cup DOMAIN b
    BY <2>2
  <2>3. ASSUME NEW b \in Bundles, NEW S \in SUBSET DOMAIN b,
               made' = made + Cardinality(DOMAIN b), files' = files \cup S,
               clerk' = [clerk EXCEPT ![k] = Resting]
        PROVE  \E m : clerk' = [clerk EXCEPT ![k] = m] /\
                 /\ made' = made + Cardinality(DOMAIN b)
                 /\ files \subseteq files' /\ files' \subseteq files \cup DOMAIN b
                 /\ m = Resting
    BY <2>3
  <2> QED
    BY <2>1, <2>2, <2>3 DEF CreateWrite

<1>5. ASSUME NEW b \in Bundles, made' = made + Cardinality(DOMAIN b)
      PROVE  /\ made' \in Nat /\ made < made' /\ made' <= MaxDrafts /\ DOMAIN b = made + 1 .. made'
             /\ b \in Papers /\ b \in [DOMAIN b -> Draft]
             /\ \A d, e \in DOMAIN b : b[d].type = b[e].type => d = e
             /\ \A d \in DOMAIN b : b[d].status = "ACTIVE"
  <2>1. PICK n \in 1..(MaxDrafts - made) :
            b \in [made + 1 .. made + n -> [type : DocType, size : Size, status : {"ACTIVE"}]]
    BY DEF Bundles
  <2>2. Cardinality(made + 1 .. made + n) = n
    <3>1. made + 1 \in Int /\ made + n \in Int /\ ~ (made + 1 > made + n) /\ n \in Int
      BY <1>3
    <3>2. Cardinality(made + 1 .. made + n) = (made + n) - (made + 1) + 1
      BY <3>1, FS_Interval
    <3> QED
      BY <1>3, <3>1, <3>2
  <2>3. made' = made + n /\ DOMAIN b = made + 1 .. made'
    BY <1>5, <2>1, <2>2
  <2>4. b \in [DOMAIN b -> Draft] /\ \A d \in DOMAIN b : b[d].status = "ACTIVE"
    BY <2>1 DEF Draft
  <2>5. made' \in Nat /\ made < made' /\ made' <= MaxDrafts
    BY <1>3, <2>3
  <2>6. b \in Papers
    <3>1. DOMAIN b \in SUBSET (0..MaxDrafts)
      BY <1>3, <2>3, <2>5
    <3> QED
      BY <2>4, <3>1 DEF Papers
  <2>7. \A d, e \in DOMAIN b : b[d].type = b[e].type => d = e
    BY DEF Bundles
  <2> QED
    BY <2>3, <2>4, <2>5, <2>6, <2>7
<1>6. /\ made' \in Nat /\ made <= made' /\ made' <= MaxDrafts
      /\ files \subseteq files' /\ files' \subseteq 1..made'
      /\ m \in Task /\ TaskSafe(m)' /\ m.op \in {"none", "create"} /\ m.leaving = {}
      /\ m.op = "create" => m.seen = j.seen
      /\ m.op = "none" => m.seen = {}
      /\ \A d \in Written(m) : d \in made + 1 .. made'
  <2>1. CASE m = [j EXCEPT !.pc = "commit"] /\ UNCHANGED <<files, made>>
    <3>1. /\ m \in Task /\ m.op = "create" /\ m.pc = "commit" /\ m.seen = j.seen
          /\ m.leaving = {} /\ m.docs = <<>> /\ m.count = j.count
      BY <1>1, <1>2, <2>1 DEF Task, TaskSafe
    <3>2. Written(m) = {} /\ Written(m)' = {}
      BY <3>1 DEF Written
    <3>3. Complete(m.docs)' /\ Unbooked' /\ m.count < MaxActive /\ m.seen \subseteq 1..made'
      BY <1>1, <1>2, <2>1, <3>1 DEF TaskSafe, Unbooked, Complete
    <3>4. TaskSafe(m)'
      BY <3>1, <3>2, <3>3 DEF TaskSafe
    <3> QED
      BY <1>3, <2>1, <3>1, <3>2, <3>4
  <2>2. ASSUME NEW b \in Bundles, made' = made + Cardinality(DOMAIN b), m = Resting,
               files \subseteq files', files' \subseteq files \cup DOMAIN b
        PROVE  /\ made' \in Nat /\ made <= made' /\ made' <= MaxDrafts
               /\ files \subseteq files' /\ files' \subseteq 1..made'
               /\ m \in Task /\ TaskSafe(m)' /\ m.op \in {"none", "create"} /\ m.leaving = {}
               /\ m.op = "create" => m.seen = j.seen
               /\ m.op = "none" => m.seen = {}
               /\ \A d \in Written(m) : d \in made + 1 .. made'
    <3>1. files' \subseteq 1..made'
      BY <1>3, <1>5, <2>2
    <3> QED
      BY <1>3, <1>5, <2>2, <3>1, RestingIsTask
  <2>3. ASSUME NEW b \in Bundles, made' = made + Cardinality(DOMAIN b),
               m = [j EXCEPT !.pc = "commit", !.docs = b], files' = files \cup DOMAIN b,
               BytesOf(b, DOMAIN b) <= MaxBytes, Required \subseteq TypesOf(b)
        PROVE  /\ made' \in Nat /\ made <= made' /\ made' <= MaxDrafts
               /\ files \subseteq files' /\ files' \subseteq 1..made'
               /\ m \in Task /\ TaskSafe(m)' /\ m.op \in {"none", "create"} /\ m.leaving = {}
               /\ m.op = "create" => m.seen = j.seen
               /\ m.op = "none" => m.seen = {}
               /\ \A d \in Written(m) : d \in made + 1 .. made'
    <3>1. /\ m \in Task /\ m.op = "create" /\ m.pc = "commit" /\ m.seen = j.seen
          /\ m.leaving = {} /\ m.docs = b /\ m.count = j.count
      BY <1>1, <1>2, <1>5, <2>3 DEF Task, TaskSafe
    <3>2. Written(m) = DOMAIN b /\ Written(m)' = DOMAIN b
      BY <3>1 DEF Written
    <3>3. files' \subseteq 1..made' /\ DOMAIN b \cap DOMAIN drafts' = {}
      BY <1>1, <1>2, <1>3, <1>5, <2>3 DEF RowsTyped
    <3>4. Complete(b)'
      BY <1>5, <2>3 DEF Complete, BytesOf, TypesOf, ActiveOf
    <3>5. Unbooked' /\ m.count < MaxActive /\ m.seen \subseteq 1..made'
      BY <1>1, <1>2, <1>3, <1>5, <2>3, <3>1 DEF TaskSafe, Unbooked
    <3>6. TaskSafe(m)'
      BY <2>3, <3>1, <3>2, <3>3, <3>4, <3>5 DEF TaskSafe
    <3> QED
      BY <1>3, <1>5, <2>3, <3>1, <3>2, <3>3, <3>6
  <2> QED
    BY <1>4, <2>1, <2>2, <2>3
<1>a. RowsTyped'
  BY <1>1, <1>2, <1>3, <1>6 DEF RowsTyped, Unbooked
<1>b. FilesSafe'
  BY <1>1, <1>4, <1>6, FilesOwn
<1>c. DraftsCounted'
  <2>1. Uploading' = {}
    <3>1. \A l \in Clerk : clerk[l].op # "upload"
      BY <1>2, TaskOf DEF TaskSafe
    <3> QED
      BY <1>4, <1>6, <3>1, TaskOf DEF Uploading
  <2>2. Booking' \subseteq Booking /\ Booking \in SUBSET Clerk /\ Booking' \in SUBSET Clerk
    BY <1>4, <1>6, TaskOf DEF Booking
  <2>3. /\ Cardinality(Booking') <= Cardinality(Booking) /\ Cardinality({}) = 0
        /\ Cardinality(Booking') \in Nat /\ Cardinality(Booking) \in Nat
    BY <2>2, ClerksFinite, FS_EmptySet
  <2>4. /\ MaxActive \in Nat /\ Cardinality(Clerk) \in Nat
        /\ elsewhere \in Nat
        /\ elsewhere + Cardinality(Booking) <= MaxActive + Cardinality(Clerk) - 1
    BY <1>2, DossierAssumption, ClerksFinite DEF DossierSafe, RowsTyped, DraftsCounted
  <2> QED
    BY <1>1, <1>6, <2>1, <2>3, <2>4 DEF DraftsCounted
<1>7. ActiveCount' = ActiveCount
  BY <1>1 DEF ActiveCount
<1>8. \A l \in Clerk \ {k} : Written(clerk[l]) \subseteq files'
  BY <1>6, TaskOf
<1>9. \A l \in Clerk : \A d \in Written(clerk[l]) \cup clerk[l].seen : d \in 1..made
  BY <1>3, TaskOf, DossierAssumption DEF TaskSafe, DossierSafe, TasksSafe
<1>10. \A l \in Clerk : Written(m) \cap Written(clerk[l]) = {} /\ Written(m) \cap clerk[l].seen = {}
  BY <1>3, <1>6, <1>9
<1>11. Written(m) \cap m.seen = {} /\ \A l \in Clerk : m.seen \cap Written(clerk[l]) = {}
  BY <1>2, <1>6, <1>10
<1>12. m.op = "create" => \A l \in Clerk \ {k} : clerk[l].op # "create"
  BY <1>1, TaskOf DEF TasksApart
<1> QED
  BY <1>1, <1>4, <1>6, <1>a, <1>b, <1>c, <1>7, <1>8, <1>10, <1>11, <1>12, OwnStep

\* An upload reads the drafts.
LEMMA UploadLoadStep ==
    ASSUME DossierSafe, NEW k \in Clerk, NEW type \in DocType, NEW size \in Size,
           UploadLoad(k, type, size)
    PROVE  DossierSafe'
<1>1. PICK old \in Replaceable(type) :
        /\ Fits(size, old)
        /\ clerk' = [clerk EXCEPT ![k] =
                        [Resting EXCEPT !.op = "upload", !.pc = "load", !.old = old,
                                        !.docs = [d \in {0} |-> New(type, size)],
                                        !.seen = ActiveOf(drafts), !.at = event]]
  BY DEF UploadLoad
<1>2. /\ clerk[k] = Resting /\ Open
      /\ made + Cardinality({j \in Clerk : clerk[j].op = "upload"}) < MaxDrafts
      /\ UNCHANGED <<event, drafts, files, copied, elsewhere, made, papered, cut, crossed, rushed>>
  BY DEF UploadLoad
<1>b. PICK m, docs :
        /\ docs = [d \in {0} |-> New(type, size)]
        /\ m = [Resting EXCEPT !.op = "upload", !.pc = "load", !.old = old, !.docs = docs,
                               !.seen = ActiveOf(drafts), !.at = event]
  OBVIOUS
<1>3. /\ m = [op |-> "upload", pc |-> "load", docs |-> docs, old |-> old,
              seen |-> ActiveOf(drafts), at |-> event, leaving |-> {}, count |-> 0]
      /\ docs = [d \in {0} |-> New(type, size)]
  BY <1>b DEF Resting
<1>4. clerk' = [clerk EXCEPT ![k] = m]
  BY <1>1, <1>b
<1>5. /\ RowsTyped /\ made \in Nat /\ MaxDrafts \in Nat /\ made <= MaxDrafts
      /\ DOMAIN drafts \subseteq 1..made /\ NoDraft \notin 1..MaxDrafts
      /\ ActiveOf(drafts) \subseteq DOMAIN drafts
  BY DossierAssumption DEF DossierSafe, RowsTyped, ActiveOf
<1>6. /\ old = NoDraft => type = Otro \/ \A d \in ActiveOf(drafts) : drafts[d].type # type
      /\ old # NoDraft => /\ type # Otro /\ old \in ActiveOf(drafts)
                          /\ drafts[old].type = type
  BY <1>5 DEF Replaceable
<1>7. m \in Task
  <2>1. New(type, size) \in Draft
    BY DEF New, Draft
  <2>2. [d \in {0} |-> New(type, size)] \in Papers
    <3>1. {0} \in SUBSET (0..MaxDrafts)
      BY <1>5
    <3>2. [d \in {0} |-> New(type, size)] \in [{0} -> Draft]
      BY <2>1
    <3> QED
      BY <3>1, <3>2 DEF Papers
  <2>3. old \in 1..MaxDrafts \cup {NoDraft} /\ ActiveOf(drafts) \in SUBSET (1..MaxDrafts)
    BY <1>5, <1>6
  <2> QED
    BY <1>3, <1>5, <2>2, <2>3 DEF Task, RowsTyped
<1>8. Written(m) = {} /\ Written(m)' = {}
  BY <1>3 DEF Written
<1>9. Suits(m, type, size)'
  BY <1>1, <1>2, <1>3, <1>5, <1>6 DEF Suits, Fits, BytesOf
<1>10. TaskSafe(m)'
  <2>1. ~ Unbooked' /\ \A r \in Member : m.at[r] = "open"
    BY <1>2, <1>3, DossierAssumption DEF Unbooked, Open
  <2>2. 0 \in 0..made' /\ m.seen \subseteq 1..made'
    BY <1>2, <1>3, <1>5
  <2>3. /\ m.op = "upload" /\ m.pc = "load" /\ m.leaving = {}
        /\ m.docs = [d \in {0} |-> New(type, size)]
    BY <1>3
  <2> QED
    BY <1>8, <1>9, <2>1, <2>2, <2>3 DEF TaskSafe
<1>11. RowsTyped'
  BY <1>2, <1>5 DEF RowsTyped, Unbooked
<1>12. DraftsCounted'
  <2> DEFINE Uploads == {j \in Clerk : clerk[j].op = "upload"}
  <2>1. /\ Uploading' \subseteq Uploads \cup {k} /\ Booking' \subseteq Booking
        /\ Uploads \in SUBSET Clerk /\ Uploads \cup {k} \in SUBSET Clerk
        /\ Booking \in SUBSET Clerk /\ Booking' \in SUBSET Clerk /\ Uploading' \in SUBSET Clerk
    BY <1>3, <1>4, TaskOf DEF Uploading, Booking
  <2>2. made + Cardinality(Uploads) < MaxDrafts
    BY <1>2
  <2> HIDE DEF Uploads
  <2>3. /\ Cardinality(Uploading') <= Cardinality(Uploads \cup {k})
        /\ Cardinality(Uploads \cup {k}) <= Cardinality(Uploads) + 1
        /\ Cardinality(Uploads \cup {k}) \in Nat /\ Cardinality(Uploads) \in Nat
        /\ Cardinality(Uploading') \in Nat
        /\ Cardinality(Booking') <= Cardinality(Booking)
        /\ Cardinality(Booking') \in Nat /\ Cardinality(Booking) \in Nat
    BY <2>1, ClerksFinite
  <2>4. /\ MaxActive \in Nat /\ Cardinality(Clerk) \in Nat /\ elsewhere \in Nat
        /\ elsewhere + Cardinality(Booking) <= MaxActive + Cardinality(Clerk) - 1
    BY <1>5, DossierAssumption, ClerksFinite DEF DossierSafe, RowsTyped, DraftsCounted
  <2> QED
    BY <1>2, <1>5, <2>2, <2>3, <2>4 DEF DraftsCounted
<1>13. FilesSafe'
  <2>1. clerk[k].op # "leave"
    BY <1>2, RestingIsTask
  <2> QED
    BY <1>2, <1>4, <1>7, <2>1, FilesOwn
<1>14. ActiveCount' = ActiveCount
  BY <1>2 DEF ActiveCount
<1>15. made <= made' /\ \A l \in Clerk \ {k} : Written(clerk[l]) \subseteq files'
  BY <1>2, <1>5, TaskOf
<1>16. \A l \in Clerk \ {k} : m.seen \cap Written(clerk[l]) = {} /\ m.leaving \cap clerk[l].leaving = {}
  <2>1. \A l \in Clerk : Written(clerk[l]) \cap DOMAIN drafts = {}
    BY DEF DossierSafe, TasksSafe, TaskSafe
  <2> QED
    BY <1>3, <1>5, <2>1
<1>17. m.op # "create"
  BY <1>3
<1> QED
  BY <1>2, <1>4, <1>7, <1>8, <1>10, <1>11, <1>12, <1>13, <1>14, <1>15, <1>16, <1>17, OwnStep

\* It writes the file.
LEMMA UploadWriteStep ==
    ASSUME DossierSafe, NEW k \in Clerk, UploadWrite(k)
    PROVE  DossierSafe'
<1> DEFINE j == clerk[k]
<1>1. /\ j.op = "upload" /\ j.pc = "load" /\ made' = made + 1 /\ files' = files \cup {made + 1}
      /\ UNCHANGED <<event, drafts, copied, elsewhere, papered, cut, crossed, rushed>>
      /\ clerk' = [clerk EXCEPT ![k].pc = "commit", ![k].docs = [d \in {made + 1} |-> @[0]]]
  BY DEF UploadWrite
<1>2. j \in Task /\ TaskSafe(j) /\ RowsTyped /\ ~ Unbooked /\ j.leaving = {}
      /\ j.seen \subseteq 1..made /\ \A r \in Member : j.at[r] = "open"
  BY <1>1, TaskOf DEF TaskSafe, DossierSafe
<1>3. PICK type \in DocType, size \in Size :
        j.docs = [d \in {0} |-> New(type, size)] /\ Suits(j, type, size)
  BY <1>1, <1>2 DEF TaskSafe
<1>4. PICK m : m = [j EXCEPT !.pc = "commit", !.docs = [d \in {made + 1} |-> New(type, size)]]
  OBVIOUS
<1>5. clerk' = [clerk EXCEPT ![k] = m]
  <2>1. j.docs[0] = New(type, size)
    BY <1>3
  <2> QED
    BY <1>1, <1>4, <2>1, TaskOf
<1>6. made \in Nat /\ MaxDrafts \in Nat /\ files \subseteq 1..made /\ DOMAIN drafts \subseteq 1..made
  BY <1>2, DossierAssumption DEF RowsTyped
<1>7. DraftsCounted' /\ made + 1 <= MaxDrafts
  <2>1. /\ Uploading' \subseteq Uploading \ {k} /\ k \in Uploading /\ Booking' \subseteq Booking
    BY <1>1, <1>2, <1>4, <1>5, TaskOf DEF Uploading, Booking, Task
  <2>2. /\ Uploading \in SUBSET Clerk /\ Uploading \ {k} \in SUBSET Clerk
        /\ Booking \in SUBSET Clerk /\ Booking' \in SUBSET Clerk /\ Uploading' \in SUBSET Clerk
    BY <2>1 DEF Uploading, Booking
  <2>3. /\ Cardinality(Uploading') <= Cardinality(Uploading \ {k})
        /\ Cardinality(Uploading \ {k}) = Cardinality(Uploading) - 1
        /\ Cardinality(Uploading \ {k}) \in Nat
        /\ Cardinality(Uploading') \in Nat /\ Cardinality(Uploading) \in Nat
        /\ Cardinality(Booking') <= Cardinality(Booking)
        /\ Cardinality(Booking') \in Nat /\ Cardinality(Booking) \in Nat
    BY <2>1, <2>2, ClerksFinite
  <2>4. /\ MaxActive \in Nat /\ Cardinality(Clerk) \in Nat /\ elsewhere \in Nat
        /\ elsewhere + Cardinality(Booking) <= MaxActive + Cardinality(Clerk) - 1
        /\ made + Cardinality(Uploading) <= MaxDrafts
    BY <1>2, DossierAssumption, ClerksFinite DEF DossierSafe, RowsTyped, DraftsCounted
  <2> QED
    BY <1>1, <1>6, <2>3, <2>4 DEF DraftsCounted
<1>8. m \in Task
  <2>1. New(type, size) \in Draft
    BY DEF New, Draft
  <2>2. [d \in {made + 1} |-> New(type, size)] \in Papers
    <3>1. {made + 1} \in SUBSET (0..MaxDrafts)
      BY <1>6, <1>7
    <3>2. [d \in {made + 1} |-> New(type, size)] \in [{made + 1} -> Draft]
      BY <2>1
    <3> QED
      BY <3>1, <3>2 DEF Papers
  <2> QED
    BY <1>2, <1>4, <2>2 DEF Task
<1>9. /\ m.op = "upload" /\ m.pc = "commit" /\ m.seen = j.seen /\ m.old = j.old /\ m.at = j.at
      /\ m.leaving = {} /\ m.docs = [d \in {made + 1} |-> New(type, size)]
  BY <1>1, <1>2, <1>4 DEF Task
<1>10. Written(m) = {made + 1} /\ Written(m)' = {made + 1}
  BY <1>9 DEF Written
<1>11. Suits(m, type, size)'
  BY <1>1, <1>3, <1>9 DEF Suits, BytesOf
<1>12. TaskSafe(m)'
  <2>1. ~ Unbooked' /\ \A r \in Member : m.at[r] = "open"
    BY <1>1, <1>2, <1>9 DEF Unbooked
  <2>2. made + 1 \in 0..made' /\ made + 1 # 0 /\ m.seen \subseteq 1..made'
        /\ made + 1 \notin DOMAIN drafts'
    BY <1>1, <1>2, <1>6, <1>9
  <2> QED
    BY <1>1, <1>9, <1>10, <1>11, <2>1, <2>2 DEF TaskSafe
<1>13. RowsTyped'
  BY <1>1, <1>2, <1>6, <1>7 DEF RowsTyped, Unbooked
<1>14. FilesSafe'
  BY <1>1, <1>5, <1>8, FilesOwn
<1>15. ActiveCount' = ActiveCount
  BY <1>1 DEF ActiveCount
<1>16. made <= made' /\ \A l \in Clerk \ {k} : Written(clerk[l]) \subseteq files'
  BY <1>1, <1>6, TaskOf
<1>17. \A l \in Clerk : made + 1 \notin Written(clerk[l]) /\ made + 1 \notin clerk[l].seen
  BY <1>6, TaskOf DEF DossierSafe, TasksSafe, TaskSafe
<1>18. \A l \in Clerk \ {k} : m.seen \cap Written(clerk[l]) = {} /\ m.leaving \cap clerk[l].leaving = {}
  BY <1>9, TaskOf
<1>19. Written(m) \cap m.seen = {} /\ m.op # "create"
  BY <1>9, <1>10, <1>17
<1>20. \A l \in Clerk \ {k} : /\ Written(m) \cap Written(clerk[l]) = {}
                              /\ Written(m) \cap clerk[l].seen = {}
  BY <1>10, <1>17
<1> QED
  BY <1>1, <1>5, <1>7, <1>8, <1>12, <1>13, <1>14, <1>15, <1>16, <1>18, <1>19, <1>20, OwnStep

-----------------------------------------------------------------------------
(* Commits.                                                                *)

\* The event is created, with or without its documents.
LEMMA CreateCommitStep ==
    ASSUME DossierSafe, NEW k \in Clerk, CreateCommit(k)
    PROVE  DossierSafe'
<1> DEFINE j == clerk[k]
<1>1. PICK m : m = Resting
  OBVIOUS
<1>2. /\ j.op = "create" /\ j.pc = "commit" /\ clerk' = [clerk EXCEPT ![k] = m]
      /\ event' = [r \in Member |-> "open"] /\ drafts' = j.docs /\ papered' = (j.docs # <<>>)
      /\ rushed' = (rushed \/ ActiveCount > j.count)
      /\ UNCHANGED <<files, copied, elsewhere, made, cut, crossed>>
  BY <1>1 DEF CreateCommit, Rushed
<1>3. /\ m \in Task /\ TaskSafe(m)' /\ m.op = "none" /\ m.seen = {} /\ m.leaving = {}
      /\ Written(m) = {}
  BY <1>1, RestingIsTask
<1>4. j \in Task /\ TaskSafe(j) /\ RowsTyped /\ Written(j) = DOMAIN j.docs /\ Unbooked
      /\ drafts = <<>> /\ DOMAIN drafts = {} /\ Complete(j.docs) /\ j.count < MaxActive
  <2>1. j \in Task /\ TaskSafe(j) /\ RowsTyped
    BY TaskOf DEF DossierSafe
  <2>2. Unbooked /\ Complete(j.docs) /\ j.count < MaxActive
    BY <1>2, <2>1 DEF TaskSafe
  <2>3. drafts = <<>>
    BY <2>2 DEF DossierSafe, EventSafe
  <2>4. Written(j) = DOMAIN j.docs
    BY <1>2 DEF Written
  <2> QED
    BY <2>1, <2>2, <2>3, <2>4
<1>5. /\ DOMAIN drafts' = Written(j) /\ Written(j) \subseteq files /\ files \subseteq 1..made
      /\ drafts' \in [DOMAIN drafts' -> Draft]
  BY <1>2, <1>4 DEF Complete, Papers, TaskSafe, RowsTyped
<1>6. RowsTyped' /\ ~ Unbooked' /\ elsewhere' <= elsewhere /\ made <= made'
  <2>1. event' \in [Member -> Statuses] /\ \A r \in Member : event'[r] # "none"
    BY <1>2 DEF Statuses
  <2>2. ~ Unbooked'
    BY <2>1, DossierAssumption DEF Unbooked
  <2>3. papered' \in BOOLEAN /\ rushed' \in BOOLEAN
    BY <1>2
  <2>4. elsewhere' <= elsewhere /\ made <= made'
    BY <1>2, <1>4 DEF RowsTyped
  <2> QED
    BY <1>2, <1>4, <1>5, <2>1, <2>2, <2>3, <2>4 DEF RowsTyped
<1>7. DraftsCounted'
  BY <1>2, <1>3, <1>6, DraftsCountedStill
<1>8. EventSafe'
  <2>1. ActiveOf(drafts') = DOMAIN drafts'
    BY <1>2, <1>4 DEF ActiveOf, Complete
  <2>2. OneActiveVersion' /\ QuotaHolds'
    <3>1. ActiveOf(drafts)' = ActiveOf(drafts') /\ BytesOf(drafts, ActiveOf(drafts))' = BytesOf(drafts', ActiveOf(drafts'))
      BY DEF ActiveOf, BytesOf
    <3> QED
      BY <1>2, <1>4, <2>1, <3>1 DEF OneActiveVersion, QuotaHolds, Complete
  <2>3. StaysComplete'
    <3>1. TypesOf(drafts)' = TypesOf(j.docs)
      BY <1>2 DEF TypesOf, ActiveOf
    <3> QED
      BY <1>2, <1>4, <3>1 DEF StaysComplete, Complete
  <2>4. copied = {} /\ event'[Anchor] = "open"
    BY <1>2, <1>4, DossierAssumption DEF DossierSafe, EventSafe, Unbooked
  <2>5. LimitHeld'
    <3>1. ActiveCount \in Nat /\ ActiveCount' <= ActiveCount + 1 /\ ActiveCount' \in Nat
      BY <1>2, <1>4, <1>6, DossierAssumption DEF ActiveCount, RowsTyped, Unbooked
    <3>2. j.count \in Nat /\ MaxActive \in Nat
      BY <1>4, DossierAssumption DEF Task
    <3>3. ~ rushed' => ~ (ActiveCount > j.count)
      BY <1>2, Zenon
    <3> QED
      BY <1>4, <3>1, <3>2, <3>3 DEF LimitHeld
  <2>6. FilesSafe'
    BY <1>2, <1>5 DEF FilesSafe
  <2> QED
    BY <1>2, <1>6, <2>2, <2>3, <2>4, <2>5, <2>6 DEF EventSafe, AnchorCopied
<1>9. /\ \A r \in Member : event[r] = "over" => event'[r] = "over"
      /\ \A l \in Clerk \ {k} : \A r \in clerk[l].leaving : event'[r] = "open"
  <2>1. \A l \in Clerk : clerk[l].leaving \subseteq Member
    BY TaskOf DEF Task
  <2> QED
    BY <1>2, <1>4, <2>1, TaskOf DEF Unbooked
<1>10. \A l \in Clerk \ {k} : Written(clerk[l]) \subseteq files'
  BY <1>2, TaskOf
<1> QED
  BY <1>2, <1>3, <1>4, <1>5, <1>6, <1>7, <1>8, <1>9, <1>10, DossierAssembled

\* An upload is committed: it takes the place of the version it read, if that
\* is still there.
LEMMA UploadCommitStep ==
    ASSUME DossierSafe, NEW k \in Clerk, UploadCommit(k)
    PROVE  DossierSafe' /\ TypesOf(drafts) \subseteq TypesOf(drafts')
<1> DEFINE j == clerk[k]
<1>1. PICK m : m = Resting
  OBVIOUS
<1>2. /\ j.op = "upload" /\ j.pc = "commit" /\ clerk' = [clerk EXCEPT ![k] = m]
      /\ crossed' = (crossed \/ event # j.at \/ ActiveOf(drafts) # j.seen)
      /\ UNCHANGED <<event, files, copied, elsewhere, made, papered, cut, rushed>>
      /\ IF j.old = NoDraft THEN drafts' = With(drafts, j.docs)
         ELSE IF j.old \in DOMAIN drafts
         THEN drafts' = With([drafts EXCEPT ![j.old].status = "SUPERSEDED"], j.docs)
         ELSE UNCHANGED drafts
  BY <1>1 DEF UploadCommit
<1>3. /\ m \in Task /\ TaskSafe(m)' /\ m.op = "none" /\ m.seen = {} /\ m.leaving = {}
      /\ Written(m) = {}
  BY <1>1, RestingIsTask
<1>4. j \in Task /\ TaskSafe(j) /\ RowsTyped /\ ~ Unbooked /\ EventSafe
  BY <1>2, TaskOf DEF TaskSafe, DossierSafe
<1>5. PICK x \in 0..made, type \in DocType, size \in Size :
        /\ j.docs = [d \in {x} |-> New(type, size)] /\ x # 0 /\ Suits(j, type, size)
        /\ \A r \in Member : j.at[r] = "open"
  BY <1>2, <1>4 DEF TaskSafe
<1>6. Written(j) = {x} /\ x \in files /\ x \notin DOMAIN drafts /\ x \in 1..made
  BY <1>2, <1>4, <1>5 DEF Written, TaskSafe, RowsTyped
<1>7. /\ New(type, size) \in Draft /\ New(type, size).type = type /\ New(type, size).size = size
      /\ New(type, size).status = "ACTIVE" /\ size \in Nat
  BY DossierAssumption DEF New, Draft
<1>8. /\ \A d \in DOMAIN drafts : drafts[d] \in Draft
      /\ ~ crossed' => ~ crossed /\ event = j.at /\ ActiveOf(drafts) = j.seen
  <2>1. ~ crossed' => ~ crossed /\ event = j.at /\ ActiveOf(drafts) = j.seen
    BY <1>2, Zenon
  <2> QED
    BY <1>4, <2>1 DEF RowsTyped
<1> DEFINE Gone == j.old # NoDraft /\ j.old \notin DOMAIN drafts
<1>9. ASSUME ~ Gone
      PROVE  /\ DOMAIN drafts' = DOMAIN drafts \cup {x} /\ drafts'[x] = New(type, size)
             /\ drafts' = [d \in DOMAIN drafts' |-> drafts'[d]]
             /\ \A d \in DOMAIN drafts : drafts'[d] =
                  IF d = j.old THEN [drafts[d] EXCEPT !.status = "SUPERSEDED"] ELSE drafts[d]
  <2>1. PICK base : /\ drafts' = With(base, j.docs)
                    /\ base = IF j.old = NoDraft THEN drafts
                              ELSE [drafts EXCEPT ![j.old].status = "SUPERSEDED"]
    BY <1>2, <1>9
  <2>2. j.old # x
    BY <1>4, <1>6, <1>9, DossierAssumption DEF RowsTyped
  <2>3. PICK docs : docs = j.docs /\ DOMAIN docs = {x} /\ docs[x] = New(type, size)
    BY <1>5
  <2>4. DOMAIN base = DOMAIN drafts
    BY <2>1
  <2>5. \A d \in DOMAIN drafts : base[d] =
            IF d = j.old THEN [drafts[d] EXCEPT !.status = "SUPERSEDED"] ELSE drafts[d]
    BY <1>4, <2>1, DossierAssumption DEF RowsTyped
  <2>6. /\ DOMAIN drafts' = DOMAIN drafts \cup {x} /\ drafts'[x] = docs[x]
        /\ drafts' = [d \in DOMAIN drafts' |-> drafts'[d]]
        /\ \A d \in DOMAIN drafts : drafts'[d] = base[d]
    BY <1>6, <2>1, <2>3, <2>4 DEF With
  <2> QED
    BY <2>3, <2>5, <2>6
<1>10. Gone => drafts' = drafts
  BY <1>2
<1>11. \A d \in DOMAIN drafts : d \in DOMAIN drafts' /\ drafts'[d].type = drafts[d].type
                                /\ drafts'[d].size = drafts[d].size
                                /\ drafts'[d] \in Draft
  <2>1. CASE Gone
    BY <1>8, <1>10, <2>1
  <2>2. CASE ~ Gone
    <3> HIDE DEF Gone
    <3> QED
      BY <1>8, <1>9, <2>2 DEF Draft
  <2> QED
    BY <2>1, <2>2
<1>12. DOMAIN drafts \subseteq DOMAIN drafts' /\ DOMAIN drafts' \subseteq DOMAIN drafts \cup {x}
  BY <1>9, <1>10, <1>11
<1>13. RowsTyped' /\ elsewhere' <= elsewhere /\ made <= made'
  <2>1. \A d \in DOMAIN drafts' : drafts'[d] \in Draft
    BY <1>7, <1>8, <1>9, <1>10, <1>11, <1>12
  <2>2. drafts' \in [DOMAIN drafts' -> Draft]
    BY <1>4, <1>9, <1>10, <2>1 DEF RowsTyped
  <2>3. DOMAIN drafts' \subseteq 1..made'
    BY <1>2, <1>4, <1>6, <1>12 DEF RowsTyped
  <2>4. crossed' \in BOOLEAN
    BY <1>2
  <2> QED
    BY <1>2, <1>4, <2>2, <2>3, <2>4 DEF RowsTyped, Unbooked
<1>14. DraftsCounted'
  BY <1>2, <1>3, <1>13, DraftsCountedStill
<1>15. ~ Gone => ActiveOf(drafts') = (ActiveOf(drafts) \ {j.old}) \cup {x}
  <2> SUFFICES ASSUME ~ Gone PROVE ActiveOf(drafts') = (ActiveOf(drafts) \ {j.old}) \cup {x}
    OBVIOUS
  <2>1. \A d \in DOMAIN drafts :
            drafts'[d].status = "ACTIVE" <=> drafts[d].status = "ACTIVE" /\ d # j.old
    BY <1>8, <1>9 DEF Draft
  <2> QED
    BY <1>6, <1>7, <1>9, <2>1 DEF ActiveOf
<1>16. TypesOf(drafts) \subseteq TypesOf(drafts')
  <2>1. CASE Gone
    BY <1>10, <2>1
  <2>2. CASE ~ Gone
    <3>1. ASSUME NEW d \in ActiveOf(drafts) PROVE drafts[d].type \in TypesOf(drafts')
      <4>1. d \in DOMAIN drafts
        BY DEF ActiveOf
      <4>2. CASE d # j.old
        BY <1>11, <1>15, <2>2, <4>1, <4>2 DEF TypesOf
      <4>3. CASE d = j.old
        <5>1. drafts[d].type = type
          BY <1>4, <1>5, <4>1, <4>3, DossierAssumption DEF Suits, RowsTyped
        <5> QED
          BY <1>7, <1>9, <1>15, <2>2, <5>1 DEF TypesOf
      <4> QED
        BY <4>2, <4>3
    <3> QED
      BY <3>1 DEF TypesOf
  <2> QED
    BY <2>1, <2>2
<1> DEFINE A == ActiveOf(drafts)
<1>17. ASSUME ~ crossed'
       PROVE  /\ ~ Gone /\ ~ crossed /\ A = j.seen /\ A \subseteq DOMAIN drafts
              /\ \A r \in Member : event[r] = "open"
              /\ j.old # NoDraft => j.old \in A /\ drafts[j.old].type = type /\ type # Otro
              /\ j.old = NoDraft => \A d \in A : type # Otro => drafts[d].type # type
              /\ BytesOf(drafts, A) + size
                   - (IF j.old = NoDraft THEN 0 ELSE drafts[j.old].size) <= MaxBytes
  <2>1. A \subseteq DOMAIN drafts
    BY DEF ActiveOf
  <2>2. ~ crossed /\ A = j.seen /\ event = j.at
    BY <1>8, <1>17
  <2> HIDE DEF A
  <2>3. j.old # NoDraft => j.old \in A
    BY <1>5, <2>2 DEF Suits
  <2> QED
    BY <1>5, <2>1, <2>2, <2>3 DEF Suits
<1>18. OneActiveVersion'
  <2> SUFFICES ASSUME ~ crossed', NEW d \in ActiveOf(drafts'), NEW e \in ActiveOf(drafts'),
                      drafts'[d].type = drafts'[e].type, drafts'[d].type # Otro
               PROVE  d = e
    BY DEF OneActiveVersion, ActiveOf
  <2>1. \A a, b \in A : drafts[a].type = drafts[b].type /\ drafts[a].type # Otro => a = b
    BY <1>4, <1>17 DEF EventSafe, OneActiveVersion
  <2>2. ActiveOf(drafts') = (A \ {j.old}) \cup {x} /\ drafts'[x].type = type
    BY <1>7, <1>9, <1>15, <1>17
  <2>3. \A a \in A : drafts'[a].type = drafts[a].type
    BY <1>11, <1>17
  <2> HIDE DEF A
  <2>4. \A a \in A \ {j.old} : type # Otro => drafts[a].type # type
    BY <1>17, <2>1
  <2> QED
    BY <2>1, <2>2, <2>3, <2>4
<1>19. QuotaHolds'
  <2> SUFFICES ASSUME ~ crossed' PROVE BytesOf(drafts', ActiveOf(drafts')) <= MaxBytes
    BY DEF QuotaHolds, ActiveOf, BytesOf
  <2>1. ActiveOf(drafts') = (A \ {j.old}) \cup {x} /\ drafts'[x].size = size
        /\ x \in DOMAIN drafts'
    BY <1>7, <1>9, <1>15, <1>17
  <2>2. A \subseteq DOMAIN drafts /\ A \in SUBSET (1..MaxDrafts) /\ x \notin A
    BY <1>4, <1>6, <1>17, RowsFinite
  <2>3. \A d \in A : drafts[d].size \in Nat /\ drafts'[d].size = drafts[d].size /\ d \in DOMAIN drafts'
    BY <1>4, <1>11, <2>2, RowsFinite
  <2>4. DOMAIN drafts' \subseteq 1..MaxDrafts
    BY <1>13, DossierAssumption DEF RowsTyped
  <2> DEFINE B == A \ {j.old}
             C == B \cup {x}
  <2>5. B \in SUBSET A /\ C \in SUBSET (1..MaxDrafts) /\ C \ {x} = B
    BY <2>1, <2>2, <2>4
  <2>6. IsFiniteSet(A) /\ IsFiniteSet(B) /\ IsFiniteSet(C)
    BY <1>4, <2>2, <2>5, RowsFinite, FS_Subset
  <2> HIDE DEF A
  <2>7. BytesOf(drafts', B) = BytesOf(drafts, B) /\ BytesOf(drafts, B) \in Nat
        /\ BytesOf(drafts, A) \in Nat
    BY <2>2, <2>3, <2>5, <2>6, BytesSame, BytesOfPart
  <2>8. BytesOf(drafts', C) = size + BytesOf(drafts', B)
    <3>1. C \subseteq DOMAIN drafts' /\ \A d \in C : drafts'[d].size \in Nat
      BY <1>7, <2>1, <2>3
    <3>2. x \in C
      OBVIOUS
    <3> HIDE DEF B, C
    <3>3. BytesOf(drafts', C) = drafts'[x].size + BytesOf(drafts', C \ {x})
      BY <2>6, <3>1, <3>2, BytesOfPart
    <3> QED
      BY <2>1, <2>5, <3>3
  <2>9. CASE j.old = NoDraft
    <3>1. B = A
      BY <2>2, <2>9, DossierAssumption
    <3>2. BytesOf(drafts, A) + size <= MaxBytes
      BY <1>7, <1>17, <2>7, <2>9
    <3>3. ActiveOf(drafts') = C
      BY <2>1
    <3> HIDE DEF B, C
    <3> QED
      BY <1>7, <2>7, <2>8, <3>1, <3>2, <3>3, DossierAssumption
  <2>10. CASE j.old # NoDraft
    <3>1. j.old \in A
      BY <1>17, <2>10
    <3>2. BytesOf(drafts, A) = drafts[j.old].size + BytesOf(drafts, B)
      BY <2>2, <2>3, <2>6, <3>1, BytesOfPart
    <3>3. BytesOf(drafts, A) + size - drafts[j.old].size <= MaxBytes
      BY <1>17, <2>10
    <3>4. drafts[j.old].size \in Nat /\ MaxBytes \in Nat
      BY <2>3, <3>1, DossierAssumption
    <3>5. size + BytesOf(drafts, B) <= MaxBytes
      BY <1>7, <2>7, <3>2, <3>3, <3>4
    <3> QED
      BY <2>1, <2>7, <2>8, <3>5
  <2> QED
    BY <2>9, <2>10
<1>20. StaysComplete' /\ AnchorCopied' /\ LimitHeld'
  <2>1. StaysComplete'
    BY <1>2, <1>4, <1>16 DEF EventSafe, StaysComplete, Over, TypesOf, ActiveOf
  <2>2. AnchorCopied'
    BY <1>2, <1>17, DossierAssumption DEF AnchorCopied
  <2>3. LimitHeld'
    BY <1>2, <1>4 DEF EventSafe, LimitHeld, ActiveCount
  <2> QED
    BY <2>1, <2>2, <2>3
<1>21. FilesSafe'
  <2>1. CASE DOMAIN drafts \subseteq files
    BY <1>2, <1>6, <1>12, <2>1 DEF FilesSafe
  <2>2. CASE Over \/ cut
    BY <1>2, <2>2 DEF FilesSafe, Over
  <2>3. CASE \E l \in Clerk : clerk[l].op = "leave" /\ Purges(clerk[l].leaving)
    <3>1. PICK l \in Clerk : clerk[l].op = "leave" /\ Purges(clerk[l].leaving)
      BY <2>3
    <3>2. clerk'[l] = clerk[l]
      BY <1>2, <3>1, TaskOf
    <3> QED
      BY <1>2, <3>1, <3>2 DEF FilesSafe, Purges
  <2> QED
    BY <1>4, <2>1, <2>2, <2>3 DEF EventSafe, FilesSafe
<1>22. EventSafe'
  BY <1>2, <1>4, <1>18, <1>19, <1>20, <1>21 DEF EventSafe, Unbooked
<1>23. /\ (Unbooked' <=> Unbooked)
       /\ \A l \in Clerk \ {k} : \A r \in clerk[l].leaving : event'[r] = "open"
       /\ \A l \in Clerk \ {k} : Written(clerk[l]) \subseteq files'
  BY <1>2, TaskOf DEF Unbooked
<1>24. \A d \in DOMAIN drafts' :
              IF d \in DOMAIN drafts
              THEN drafts'[d].type = drafts[d].type /\ drafts'[d].size = drafts[d].size
              ELSE d \in Written(clerk[k])
  BY <1>6, <1>11, <1>12
<1>25. \A r \in Member : event[r] = "over" => event'[r] = "over"
  BY <1>2
<1> HIDE DEF Gone, A
<1>26. DossierSafe'
  BY <1>2, <1>3, <1>13, <1>14, <1>22, <1>23, <1>24, <1>25, DossierAssembled
<1> QED
  BY <1>16, <1>26

\* A cancellation, the sweep or the nightly task commits: where rows go, every
\* reservation is over.
LEMMA PurgeCommitFacts ==
    ASSUME DossierSafe, NEW k \in Clerk, PurgeCommit(k)
    PROVE  /\ \A r \in Member : event'[r] = IF r \in clerk[k].leaving THEN "over" ELSE event[r]
           /\ \A r \in Member : event[r] \in {"over", "confirmed", "review", "none"} => event'[r] = event[r]
           /\ Over => Over'
           /\ clerk[k].op = "leave" /\ Purges(clerk[k].leaving) => Over'
           /\ drafts' = drafts \/ Over'
           /\ DOMAIN drafts' \subseteq DOMAIN drafts
           /\ drafts' = [d \in DOMAIN drafts' |-> drafts[d]]
           /\ event' \in [Member -> Statuses]
<1> DEFINE j == clerk[k]
<1>1. /\ j.op \in {"leave", "cleanup"}
      /\ event' = [r \in Member |-> IF r \in j.leaving THEN "over" ELSE event[r]]
      /\ drafts' = Restrict(drafts, DOMAIN drafts \ j.seen)
  BY DEF PurgeCommit
<1>2. /\ TaskSafe(j) /\ RowsTyped /\ j.leaving \subseteq Member
      /\ \A r \in j.leaving : event[r] = "open"
  BY TaskOf DEF DossierSafe, TaskSafe, Task
<1>3. /\ \A r \in Member : event'[r] = IF r \in j.leaving THEN "over" ELSE event[r]
      /\ event' \in [Member -> Statuses]
  BY <1>1, <1>2 DEF RowsTyped, Statuses
<1>4. \A r \in Member : event[r] \in {"over", "confirmed", "review", "none"} => event'[r] = event[r]
  BY <1>2, <1>3
<1>5. Over => Over'
  BY <1>4 DEF Over
<1>6. j.op = "leave" /\ Purges(j.leaving) => Over'
  BY <1>3 DEF Purges, Over
<1>7. DOMAIN drafts' = DOMAIN drafts \ j.seen /\ drafts' = [d \in DOMAIN drafts' |-> drafts[d]]
  BY <1>1 DEF Restrict
<1>8. drafts' = drafts \/ Over'
  <2>1. CASE j.seen = {}
    <3>1. drafts' = [d \in DOMAIN drafts |-> drafts[d]]
      BY <1>7, <2>1
    <3> QED
      BY <1>2, <3>1 DEF RowsTyped
  <2>2. CASE j.seen # {}
    BY <1>1, <1>2, <1>5, <1>6, <2>2 DEF TaskSafe
  <2> QED
    BY <2>1, <2>2
<1> QED
  BY <1>3, <1>4, <1>5, <1>6, <1>7, <1>8

\* What is left is as right as it was.
LEMMA PurgeCommitStep ==
    ASSUME DossierSafe, NEW k \in Clerk, PurgeCommit(k)
    PROVE  DossierSafe'
<1> DEFINE j == clerk[k]
<1>1. PICK m : m = Resting
  OBVIOUS
<1>2. /\ clerk' = [clerk EXCEPT ![k] = m]
      /\ UNCHANGED <<files, copied, elsewhere, made, papered, cut, crossed, rushed>>
  BY <1>1 DEF PurgeCommit
<1>3. /\ m \in Task /\ TaskSafe(m)' /\ m.op = "none" /\ m.seen = {} /\ m.leaving = {}
      /\ Written(m) = {}
  BY <1>1, RestingIsTask
<1>4. RowsTyped /\ EventSafe /\ j.leaving \subseteq Member /\ \A r \in j.leaving : event[r] = "open"
  BY TaskOf DEF DossierSafe, TaskSafe, Task
<1>5. /\ \A r \in Member : event'[r] = IF r \in j.leaving THEN "over" ELSE event[r]
      /\ \A r \in Member : event[r] \in {"over", "confirmed", "review", "none"} => event'[r] = event[r]
      /\ Over => Over'
      /\ j.op = "leave" /\ Purges(j.leaving) => Over'
      /\ drafts' = drafts \/ Over'
      /\ DOMAIN drafts' \subseteq DOMAIN drafts
      /\ drafts' = [d \in DOMAIN drafts' |-> drafts[d]]
      /\ event' \in [Member -> Statuses]
  BY PurgeCommitFacts
<1>6. Unbooked' <=> Unbooked
  <2>1. Unbooked => Unbooked'
    BY <1>5 DEF Unbooked
  <2>2. ASSUME Unbooked' PROVE Unbooked
    BY <1>5, <2>2 DEF Unbooked
  <2> QED
    BY <2>1, <2>2
<1>7. RowsTyped' /\ elsewhere' <= elsewhere /\ made <= made'
  <2>1. Unbooked' \/ \A r \in Member : event'[r] # "none"
    BY <1>4, <1>5, <1>6 DEF RowsTyped
  <2>2. drafts' \in [DOMAIN drafts' -> Draft] /\ DOMAIN drafts' \subseteq 1..made'
    BY <1>2, <1>4, <1>5 DEF RowsTyped
  <2> QED
    BY <1>2, <1>4, <1>5, <2>1, <2>2 DEF RowsTyped
<1>8. DraftsCounted'
  BY <1>2, <1>3, <1>7, DraftsCountedStill
<1>9. ActiveOf(drafts') \subseteq ActiveOf(drafts)
      /\ \A d \in DOMAIN drafts' : d \in DOMAIN drafts /\ drafts'[d] = drafts[d]
  BY <1>5 DEF ActiveOf
<1>10. OneActiveVersion'
  <2> SUFFICES ASSUME ~ crossed', NEW d \in ActiveOf(drafts'), NEW e \in ActiveOf(drafts'),
                      drafts'[d].type = drafts'[e].type, drafts'[d].type # Otro
               PROVE  d = e
    BY DEF OneActiveVersion, ActiveOf
  <2>1. d \in DOMAIN drafts' /\ e \in DOMAIN drafts'
    BY DEF ActiveOf
  <2> QED
    BY <1>2, <1>4, <1>9, <2>1 DEF EventSafe, OneActiveVersion
<1>11. QuotaHolds'
  <2> SUFFICES ASSUME ~ crossed' PROVE BytesOf(drafts', ActiveOf(drafts')) <= MaxBytes
    BY DEF QuotaHolds, ActiveOf, BytesOf
  <2> DEFINE A == ActiveOf(drafts)
             B == ActiveOf(drafts')
  <2>1. A \subseteq DOMAIN drafts /\ B \subseteq DOMAIN drafts' /\ B \in SUBSET A
        /\ A \in SUBSET (1..MaxDrafts) /\ B \in SUBSET (1..MaxDrafts)
    BY <1>4, <1>9, RowsFinite DEF ActiveOf
  <2>2. IsFiniteSet(A) /\ IsFiniteSet(B) /\ \A d \in DOMAIN drafts : drafts[d].size \in Nat
    BY <1>4, <2>1, RowsFinite
  <2>3. BytesOf(drafts, A) <= MaxBytes
    BY <1>2, <1>4 DEF EventSafe, QuotaHolds
  <2> HIDE DEF A, B
  <2>4. BytesOf(drafts, B) <= BytesOf(drafts, A) /\ BytesOf(drafts, B) \in Nat
        /\ BytesOf(drafts, A) \in Nat
    BY <2>1, <2>2, BytesOfPart
  <2>5. BytesOf(drafts, B) = BytesOf(drafts', B)
    <3>1. B \subseteq DOMAIN drafts /\ \A d \in B : drafts[d].size \in Nat /\ drafts'[d].size = drafts[d].size
      BY <1>9, <2>1, <2>2
    <3> QED
      BY <2>1, <2>2, <3>1, BytesSame
  <2>6. BytesOf(drafts', B) <= MaxBytes
    BY <2>3, <2>4, <2>5, DossierAssumption
  <2> QED
    BY <2>6 DEF B
<1>12. StaysComplete' /\ AnchorCopied'
  <2>1. ~ Over' => drafts' = drafts /\ ~ Over
    BY <1>5
  <2>2. event'[Anchor] = "confirmed" => ~ Over' /\ event[Anchor] = "confirmed"
    BY <1>5, DossierAssumption DEF Over
  <2>3. drafts' = drafts => TypesOf(drafts)' = TypesOf(drafts)
    BY DEF TypesOf, ActiveOf
  <2> QED
    BY <1>2, <1>4, <2>1, <2>2, <2>3 DEF EventSafe, StaysComplete, AnchorCopied
<1>13. LimitHeld'
  <2>1. ActiveCount' <= ActiveCount /\ ActiveCount \in Nat /\ ActiveCount' \in Nat
    <3>1. elsewhere \in Nat /\ elsewhere' = elsewhere
      BY <1>2, <1>4 DEF RowsTyped
    <3>2. (\E r \in Member : event'[r] \in {"open", "review"}) => \E r \in Member : event[r] \in {"open", "review"}
      BY <1>5
    <3> QED
      BY <3>1, <3>2 DEF ActiveCount
  <2>2. MaxActive \in Nat /\ (rushed' <=> rushed)
    BY <1>2, DossierAssumption
  <2> QED
    BY <1>4, <2>1, <2>2 DEF EventSafe, LimitHeld
<1>14. FilesSafe'
  <2>1. CASE Over'
    BY <2>1 DEF FilesSafe
  <2>2. CASE DOMAIN drafts \subseteq files
    BY <1>2, <1>5, <2>2 DEF FilesSafe
  <2>3. CASE cut
    BY <1>2, <2>3 DEF FilesSafe
  <2>4. CASE ~ Over' /\ \E l \in Clerk : clerk[l].op = "leave" /\ Purges(clerk[l].leaving)
    <3>1. PICK l \in Clerk : clerk[l].op = "leave" /\ Purges(clerk[l].leaving)
      BY <2>4
    <3>2. l # k
      BY <1>5, <2>4, <3>1
    <3>3. clerk'[l] = clerk[l]
      BY <1>2, <3>1, <3>2, TaskOf
    <3>4. \A r \in Member \ clerk'[l].leaving : event'[r] = "over"
      BY <1>5, <3>1, <3>3 DEF Purges
    <3> QED
      BY <3>1, <3>3, <3>4 DEF FilesSafe, Purges
  <2> QED
    BY <1>4, <1>5, <2>1, <2>2, <2>3, <2>4 DEF EventSafe, FilesSafe
<1>15. EventSafe'
  <2>1. Unbooked' => drafts' = <<>>
    <3>1. Unbooked' => ~ Over'
      BY DossierAssumption DEF Unbooked, Over
    <3> QED
      BY <1>4, <1>5, <1>6, <3>1 DEF EventSafe
  <2>2. event'[Anchor] # "confirmed" => copied' = {}
    BY <1>2, <1>4, <1>5, DossierAssumption DEF EventSafe
  <2> QED
    BY <1>10, <1>11, <1>12, <1>13, <1>14, <2>1, <2>2 DEF EventSafe
<1>16. \A l \in Clerk \ {k} : \A r \in clerk[l].leaving : event'[r] = "open"
  <2> SUFFICES ASSUME NEW l \in Clerk \ {k}, NEW r \in clerk[l].leaving PROVE event'[r] = "open"
    OBVIOUS
  <2>1. r \in Member /\ event[r] = "open" /\ clerk[l].leaving \cap j.leaving = {}
    BY TaskOf DEF Task, TasksApart
  <2> QED
    BY <1>5, <2>1
<1>17. \A l \in Clerk \ {k} : Written(clerk[l]) \subseteq files'
  BY <1>2, TaskOf
<1>18. \A d \in DOMAIN drafts' :
              IF d \in DOMAIN drafts
              THEN drafts'[d].type = drafts[d].type /\ drafts'[d].size = drafts[d].size
              ELSE d \in Written(clerk[k])
  BY <1>9
<1>19. \A r \in Member : event[r] = "over" => event'[r] = "over"
  BY <1>5
<1> HIDE DEF j
<1> QED
  BY <1>2, <1>3, <1>6, <1>7, <1>8, <1>15, <1>16, <1>17, <1>18, <1>19, DossierAssembled

-----------------------------------------------------------------------------
(* All steps.                                                              *)

\* At the start there is no event.
LEMMA DossierInitSafe == DossierInit => DossierSafe
<1> SUFFICES ASSUME DossierInit PROVE DossierSafe
  OBVIOUS
<1>1. /\ event = [r \in Member |-> "none"] /\ drafts = <<>> /\ files = {} /\ copied = {}
      /\ elsewhere = 0 /\ clerk = [k \in Clerk |-> Resting] /\ made = 0
      /\ papered = FALSE /\ cut = FALSE /\ crossed = FALSE /\ rushed = FALSE
  BY DEF DossierInit
<1>2. PICK m : m = Resting
  OBVIOUS
<1>3. /\ m \in Task /\ TaskSafe(m) /\ m.op = "none" /\ m.seen = {} /\ m.leaving = {}
      /\ Written(m) = {}
  BY <1>2, RestingIsTask
<1>4. \A k \in Clerk : clerk[k] = m
  BY <1>1, <1>2
<1>5. RowsTyped
  <2>1. drafts \in [DOMAIN drafts -> Draft] /\ DOMAIN drafts \subseteq 1..made
    BY <1>1
  <2>2. event \in [Member -> Statuses] /\ Unbooked
    BY <1>1 DEF Statuses, Unbooked
  <2>3. made \in 0..MaxDrafts /\ elsewhere \in Nat
    BY <1>1, DossierAssumption
  <2> QED
    BY <1>1, <2>1, <2>2, <2>3 DEF RowsTyped
<1>6. DraftsCounted
  <2>1. Uploading = {} /\ Booking = {}
    BY <1>3, <1>4 DEF Uploading, Booking
  <2>2. Cardinality({}) = 0 /\ Cardinality(Clerk) \in Nat /\ Cardinality(Clerk) > 0
    BY FS_EmptySet, ClerksFinite
  <2> QED
    BY <1>1, <2>1, <2>2, DossierAssumption DEF DraftsCounted
<1>7. TasksSafe
  <2>1. clerk \in [Clerk -> Task]
    BY <1>1, <1>2, <1>3
  <2>2. \A k \in Clerk : TaskSafe(clerk[k])
    BY <1>3, <1>4
  <2> QED
    BY <1>3, <1>4, <2>1, <2>2 DEF TasksSafe, TasksApart
<1>8. EventSafe
  <2>1. ActiveOf(drafts) = {} /\ TypesOf(drafts) = {}
    BY <1>1 DEF ActiveOf, TypesOf
  <2>2. BytesOf(drafts, {}) = 0
    <3>1. IsFiniteSet({}) /\ {} \subseteq DOMAIN drafts /\ \A d \in {} : drafts[d].size \in Nat
      BY FS_EmptySet
    <3> QED
      BY <3>1, BytesOfPart
  <2>3. OneActiveVersion /\ QuotaHolds /\ StaysComplete /\ AnchorCopied
    <3>1. QuotaHolds
      BY <2>1, <2>2, DossierAssumption DEF QuotaHolds
    <3>2. AnchorCopied
      BY <1>1, DossierAssumption DEF AnchorCopied
    <3> QED
      BY <1>1, <2>1, <3>1, <3>2 DEF OneActiveVersion, StaysComplete
  <2>4. LimitHeld
    BY <1>1, DossierAssumption DEF LimitHeld, ActiveCount
  <2>5. FilesSafe
    BY <1>1 DEF FilesSafe
  <2> QED
    BY <1>1, <2>3, <2>4, <2>5, DossierAssumption DEF EventSafe
<1> QED
  BY <1>5, <1>6, <1>7, <1>8 DEF DossierSafe

\* Every step keeps the event, its drafts and the requests together.
LEMMA DossierNextSafe == ASSUME DossierSafe, DossierNext PROVE DossierSafe'
<1>1. CASE ElsewhereEnds
  BY <1>1, ElsewhereStep
<1>2. CASE \E r \in Member : Slip(r) \/ Confirm(r) \/ Reject(r)
  BY <1>2, SlipStep, ConfirmStep, RejectStep
<1>3. ASSUME NEW k \in Clerk, Completes(k) PROVE DossierSafe'
  BY <1>3, CreateWriteStep, CreateCommitStep, BookCommitStep, UploadWriteStep, UploadCommitStep,
     PurgeStep DEF Completes
<1>4. ASSUME NEW k \in Clerk, PurgeCommit(k) \/ KillClerk(k) \/ CleanUp(k) PROVE DossierSafe'
  BY <1>4, PurgeCommitStep, KillClerkStep, CleanUpStep
<1>5. ASSUME NEW k \in Clerk, NEW op \in {"create", "book"}, CountActive(k, op) PROVE DossierSafe'
  BY <1>5, CountActiveStep
<1>6. ASSUME NEW k \in Clerk, NEW type \in DocType, NEW size \in Size, UploadLoad(k, type, size)
      PROVE  DossierSafe'
  BY <1>6, UploadLoadStep
<1>7. ASSUME NEW k \in Clerk, NEW S \in SUBSET Member, Leave(k, S) PROVE DossierSafe'
  BY <1>7, LeaveStep
<1> QED
  BY <1>1, <1>2, <1>3, <1>4, <1>5, <1>6, <1>7 DEF DossierNext

\* A step that changes nothing keeps it.
LEMMA DossierIdle == ASSUME DossierSafe, UNCHANGED dossierVars PROVE DossierSafe'
<1>1. UNCHANGED <<event, drafts, files, copied, elsewhere, clerk, made, papered, cut, crossed, rushed>>
  BY DEF dossierVars
<1>2. RowsTyped' /\ RowsTyped /\ elsewhere' <= elsewhere /\ ActiveCount' = ActiveCount
      /\ (Unbooked' <=> Unbooked)
  BY <1>1 DEF DossierSafe, RowsTyped, Unbooked, ActiveCount
<1>3. EventSafe'
  <2>1. FilesSafe'
    BY <1>1, FilesStill
  <2>2. ~ rushed' => ~ rushed /\ (ActiveCount <= MaxActive => ActiveCount' <= MaxActive)
    BY <1>1, <1>2
  <2> QED
    BY <1>1, <1>2, <2>1, <2>2, EventKept DEF DossierSafe
<1> QED
  BY <1>1, <1>2, <1>3, Undisturbed, TaskOf

\* The invariant says what the run checks.
LEMMA DossierSafeSays == DossierSafe => DossierInv
<1> SUFFICES ASSUME DossierSafe PROVE DossierInv
  OBVIOUS
<1>1. RowsTyped /\ EventSafe
  BY DEF DossierSafe
<1>2. elsewhere \in 0..(MaxActive + Cardinality(Clerk) - 1)
  <2>1. /\ elsewhere \in Nat /\ MaxActive \in Nat /\ Cardinality(Clerk) \in Nat
        /\ Cardinality(Booking) \in Nat
        /\ elsewhere + Cardinality(Booking) <= MaxActive + Cardinality(Clerk) - 1
    BY <1>1, DossierAssumption, ClerksFinite DEF RowsTyped, DossierSafe, DraftsCounted, Booking
  <2> QED
    BY <2>1
<1>3. DossierTypeOK
  BY <1>1, <1>2 DEF RowsTyped, DossierTypeOK, Draft
<1>4. LiveDraftsHaveFiles
  BY <1>1 DEF EventSafe, FilesSafe, LiveDraftsHaveFiles
<1> QED
  BY <1>1, <1>3, <1>4 DEF EventSafe, DossierInv

\* A step that changes the drafts loses no type that a living event needs, and
\* leaves alone what finance reviews, unless the upload came too late.
LEMMA DraftsMove ==
    ASSUME DossierSafe, DossierNext
    PROVE  /\ TypesOf(drafts) \subseteq TypesOf(drafts') \/ Over'
           /\ (\E r \in Member : event[r] \in {"review", "confirmed"})
                => (drafts' = drafts \/ crossed')
<1>1. CASE drafts' = drafts
  BY <1>1 DEF TypesOf, ActiveOf
<1>2. ASSUME NEW k \in Clerk, CreateCommit(k)
      PROVE  drafts = <<>> /\ \A r \in Member : event[r] = "none"
  <2>1. Unbooked
    BY <1>2, TaskOf DEF CreateCommit, TaskSafe
  <2> QED
    BY <2>1 DEF Unbooked, DossierSafe, EventSafe
<1>3. ASSUME NEW k \in Clerk, UploadCommit(k)
      PROVE  /\ TypesOf(drafts) \subseteq TypesOf(drafts')
             /\ ~ crossed' => \A r \in Member : event[r] = "open"
  <2>1. /\ clerk[k].op = "upload"
        /\ crossed' = (crossed \/ event # clerk[k].at \/ ActiveOf(drafts) # clerk[k].seen)
    BY <1>3 DEF UploadCommit
  <2>2. \A r \in Member : clerk[k].at[r] = "open"
    BY <2>1, TaskOf DEF TaskSafe
  <2>3. ~ crossed' => event = clerk[k].at
    BY <2>1, Zenon
  <2> QED
    BY <1>3, <2>2, <2>3, UploadCommitStep
<1>4. ASSUME NEW k \in Clerk, PurgeCommit(k)
      PROVE  /\ drafts' = drafts \/ Over'
             /\ \A r \in Member : event[r] \in {"review", "confirmed"} => ~ Over'
  <2>1. /\ drafts' = drafts \/ Over'
        /\ \A r \in Member : event[r] \in {"review", "confirmed"} => event'[r] = event[r]
    BY <1>4, PurgeCommitFacts
  <2> QED
    BY <2>1 DEF Over
<1>5. CASE \E k \in Clerk : CreateCommit(k)
  <2>1. drafts = <<>> /\ \A r \in Member : event[r] = "none"
    BY <1>2, <1>5
  <2>2. TypesOf(drafts) = {}
    BY <2>1 DEF TypesOf, ActiveOf
  <2> QED
    BY <2>1, <2>2
<1>6. CASE \E k \in Clerk : UploadCommit(k)
  BY <1>3, <1>6
<1>7. CASE \E k \in Clerk : PurgeCommit(k)
  BY <1>1, <1>4, <1>7
<1>8. CASE ~ \E k \in Clerk : CreateCommit(k) \/ UploadCommit(k) \/ PurgeCommit(k)
  <2>1. drafts' = drafts
    BY <1>8 DEF DossierNext, Completes, ElsewhereEnds, Slip, Confirm, Reject, CountActive,
                CreateWrite, BookCommit, UploadLoad, UploadWrite, Leave, CleanUp, Purge, KillClerk
  <2> QED
    BY <1>1, <2>1
<1> QED
  BY <1>5, <1>6, <1>7, <1>8

\* The invariant of the requests holds always.
THEOREM DossierAlwaysSafe == DossierSpec => []DossierSafe
<1>1. DossierInit => DossierSafe
  BY DossierInitSafe
<1>2. DossierSafe /\ [DossierNext]_dossierVars => DossierSafe'
  BY DossierNextSafe, DossierIdle
<1> QED
  BY <1>1, <1>2, PTL DEF DossierSpec

\* However requests overlap and workers are killed: one active version of each
\* type, within the quota, complete, with its files, and copied as it was.
THEOREM DossierAlways == DossierSpec => []DossierInv
  BY DossierAlwaysSafe, DossierSafeSays, PTL

\* No step loses a type of a living event or touches what finance reviews.
THEOREM DossierAlwaysFrozen == DossierSpec => DossierFrozen
<1>1. DossierSafe /\ [DossierNext]_dossierVars =>
        [TypesOf(drafts) \subseteq TypesOf(drafts') \/ Over']_dossierVars
  BY DraftsMove
<1>2. DossierSafe /\ [DossierNext]_dossierVars =>
        [(\E r \in Member : event[r] \in {"review", "confirmed"})
            => (drafts' = drafts \/ crossed')]_dossierVars
  BY DraftsMove
<1>3. DossierSpec => NoTypeLost
  BY <1>1, DossierAlwaysSafe, PTL DEF DossierSpec, NoTypeLost
<1>4. DossierSpec => FrozenUnderReview
  BY <1>2, DossierAlwaysSafe, PTL DEF DossierSpec, FrozenUnderReview
<1> QED
  BY <1>3, <1>4 DEF DossierFrozen

=============================================================================
