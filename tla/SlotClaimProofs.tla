-------------------------- MODULE SlotClaimProofs --------------------------
(***************************************************************************)
(* Theorems about SlotClaim for any number of transactions, any requests   *)
(* and any hierarchy of spaces.                                            *)
(***************************************************************************)
EXTENDS SlotClaim, TLAPS

-----------------------------------------------------------------------------
(* Rows, requests and relatives.                                           *)

Hard(row) == row # Absent /\ row.estado \in HardBlockStatuses

Free(row) == row # Absent /\ row.estado = "AVAILABLE"

\* A request that is known to the model has the parts it should have.
LEMMA RequestType ==
    ASSUME TypeOK
    PROVE  /\ Kind \in [Txn -> {"claim", "hold", "release"}]
           /\ Start \in [Slot -> Row \cup {Absent}]
           /\ \A t \in Txn : /\ Len(Items[t]) \in Nat /\ 1 <= Len(Items[t])
                             /\ \A i \in 1..Len(Items[t]) : Items[t][i] \in Slot
                             /\ item[t] \in 1..Len(Items[t])
                             /\ Own(t) \in Slot
                             /\ Requested(t) \subseteq Slot
                             /\ Own(t) \in Requested(t)
<1>1. request \in Requests
  BY DEF TypeOK
<1>2. /\ Kind \in [Txn -> {"claim", "hold", "release"}]
      /\ Start \in [Slot -> Row \cup {Absent}]
      /\ \A t \in Txn : Items[t] \in Seq(Slot) /\ Items[t] # <<>>
  BY <1>1, SlotClaimAssumption DEF Kind, Items, Start
<1>3. ASSUME NEW t \in Txn
      PROVE  /\ Len(Items[t]) \in Nat /\ 1 <= Len(Items[t])
             /\ \A i \in 1..Len(Items[t]) : Items[t][i] \in Slot
  <2>1. Items[t] \in Seq(Slot) /\ Items[t] # <<>>
    BY <1>2
  <2> QED
    BY <2>1
<1>4. \A t \in Txn : item[t] \in 1..Len(Items[t])
  BY DEF TypeOK
<1> QED
  BY <1>2, <1>3, <1>4 DEF Own, Requested

\* Relatives are other slots, and the relation goes both ways.
LEMMA RelativesType ==
    ASSUME NEW s \in Slot
    PROVE  /\ Relatives(s) \subseteq Slot
           /\ s \notin Relatives(s)
           /\ \A x \in Slot : x \in Relatives(s) => s \in Relatives(x)
           /\ HasParent(s) => ParentSlot(s) \in Relatives(s)
<1>1. s[1] \in Space /\ s[2] \in Window /\ s = <<s[1], s[2]>>
  BY DEF Slot
<1>2. HasParent(s) => ParentSlot(s) \in Slot /\ ParentSlot(s) # s
  BY <1>1, SlotsAssumption DEF Slot, HasParent, ParentSlot
<1>3. ChildSlots(s) \subseteq Slot /\ s \notin ChildSlots(s)
  BY <1>1, SlotsAssumption DEF Slot, ChildSlots
<1>4. ASSUME NEW x \in Slot
      PROVE  x \in ChildSlots(s) <=> HasParent(x) /\ ParentSlot(x) = s
  <2>1. x[1] \in Space /\ x[2] \in Window /\ x = <<x[1], x[2]>>
    BY DEF Slot
  <2> QED
    BY <1>1, <2>1, SlotsAssumption DEF ChildSlots, HasParent, ParentSlot
<1>5. ASSUME NEW x \in Slot
      PROVE  s \in ChildSlots(x) <=> HasParent(s) /\ ParentSlot(s) = x
  <2>1. x[1] \in Space /\ x[2] \in Window /\ x = <<x[1], x[2]>>
    BY DEF Slot
  <2> QED
    BY <1>1, <2>1, SlotsAssumption DEF ChildSlots, HasParent, ParentSlot
<1> QED
  BY <1>2, <1>3, <1>4, <1>5 DEF Relatives

\* An UPDATE leaves a row, with the new state if that was changed.
LEMMA UpdatedRow ==
    ASSUME NEW current \in Row, NEW loaded \in Row, NEW new \in Row
    PROVE  /\ Updated(current, loaded, new) \in Row
           /\ Updated(current, loaded, new).estado =
                IF new.estado # loaded.estado THEN new.estado ELSE current.estado
  BY DEF Updated, Row

-----------------------------------------------------------------------------
(* Where a transaction is.                                                 *)

InRelatives(t) ==
    pc[t] \in {"load", "insert", "lock", "check"} /\ target[t] # Own(t)

\* The check of its own slot is behind the claim t, and its writes are not.
OwnPassed(t) == Kind[t] = "claim" /\ (InRelatives(t) \/ pc[t] = "write")

\* The relatives whose check is behind it.
Checked(t) ==
    IF pc[t] = "write" THEN Relatives(Own(t))
    ELSE Relatives(Own(t)) \ (todo[t] \cup {target[t]})

\* How many items a claim has written.
DoneCount(t) ==
    IF Kind[t] # "claim" \/ pc[t] = "failed" THEN 0
    ELSE IF pc[t] \in {"commit", "committed"} THEN Len(Items[t])
    ELSE item[t] - 1

Done(t) == {Items[t][i] : i \in 1..DoneCount(t)}

ClaimControl(t) ==
    /\ pc[t] \notin {"find", "siblings"}
    /\ ~ Ended(t) => target[t] = Own(t) \/ target[t] \in Relatives(Own(t))
    /\ pc[t] \in {"lock", "check"} => cache[t][target[t]] # Absent
    /\ pc[t] = "check" => lock[target[t]] = t
    /\ pc[t] = "insert" => written[t][target[t]] = Absent
    /\ pc[t] \in {"load", "insert", "lock", "check"} /\ target[t] = Own(t) =>
          \A x \in Slot : x # Own(t) => cache[t][x] = Absent
    /\ InRelatives(t) => todo[t] \subseteq Relatives(Own(t))
    /\ OwnPassed(t) =>
          /\ lock[Own(t)] = t
          /\ Free(cache[t][Own(t)])
          /\ \A x \in Checked(t) : lock[x] = t /\ cache[t][x] # Absent /\ ~ Hard(cache[t][x])
    /\ pc[t] # "committed" => \A x \in Done(t) :
          /\ Hard(written[t][x])
          /\ cache[t][x] # Absent => Hard(cache[t][x])
          /\ \A y \in Relatives(x) : lock[y] = t

HoldControl(t) ==
    /\ pc[t] \notin {"find", "siblings", "write"}
    /\ pc[t] \in {"load", "insert"} =>
          /\ target[t] = Own(t)
          /\ \A i \in 1..(item[t] - 1) : cache[t][Items[t][i]] # Absent
    /\ pc[t] \in {"lock", "check"} => \A s \in Requested(t) : cache[t][s] # Absent
    /\ pc[t] = "lock" =>
          /\ target[t] \in Requested(t) /\ todo[t] \subseteq Requested(t)
          /\ \A s \in Requested(t) \ (todo[t] \cup {target[t]}) : lock[s] = t
    /\ pc[t] = "check" => \A s \in Requested(t) : lock[s] = t

ReleaseControl(t) ==
    /\ item[t] = 1
    /\ pc[t] \in {"siblings", "load", "insert", "lock", "check", "write"} =>
          cache[t][Own(t)] # Absent
    /\ pc[t] \in {"load", "insert", "lock", "check"} =>
          target[t] \in Relatives(Own(t)) /\ todo[t] \subseteq Relatives(Own(t))
    /\ pc[t] = "check" => lock[target[t]] = t
    /\ \A x \in Slot : cache[t][x] # Absent /\ x # Own(t) =>
          x \in Relatives(Own(t)) /\ (lock[x] = t \/ (x = target[t] /\ pc[t] = "lock"))
    /\ \A x \in Slot : written[t][x] # Absent => x = Own(t) \/ x \in Relatives(Own(t))

\* What a session has loaded is in the database or was written by itself.
Loaded(t) == \A s \in Slot : cache[t][s] # Absent => Visible(t, s) # Absent

ControlOf(t) ==
    /\ Kind[t] = "claim" => ClaimControl(t)
    /\ Kind[t] = "hold" => HoldControl(t)
    /\ Kind[t] = "release" => ReleaseControl(t)
    /\ Loaded(t)

CInv == TypeOK /\ \A t \in Txn : ControlOf(t)

-----------------------------------------------------------------------------
(* What one transaction can do to another.                                 *)

Others(t) ==
    /\ request' = request
    /\ \A u \in Txn : u # t =>
          /\ pc'[u] = pc[u] /\ item'[u] = item[u] /\ target'[u] = target[u]
          /\ todo'[u] = todo[u] /\ cache'[u] = cache[u] /\ written'[u] = written[u]
          /\ \A s \in Slot : (lock'[s] = u) <=> (lock[s] = u)

\* A step of t leaves the program of every other one alone, its session and its locks.
LEMMA StepFrame ==
    ASSUME TypeOK, NEW t \in Txn, Step(t)
    PROVE  /\ Others(t)
           /\ pc[t] # "commit" => table' = table
           /\ \A s \in Slot : table'[s] = table[s] \/ table'[s] = Visible(t, s)
<1>0. /\ request' = request
      /\ None \notin Txn
      /\ lock \in [Slot -> Txn \cup {None}]
      /\ pc \in [Txn -> {"find", "siblings", "load", "insert", "lock", "check", "write",
                         "commit", "committed", "failed"}]
      /\ item \in [Txn -> Nat]
      /\ target \in [Txn -> Slot]
      /\ todo \in [Txn -> SUBSET Slot]
      /\ cache \in [Txn -> [Slot -> Row \cup {Absent}]]
      /\ written \in [Txn -> [Slot -> Row \cup {Absent}]]
      /\ target[t] \in Slot
  BY SlotsAssumption, SlotClaimAssumption DEF TypeOK, Step
<1>1. Own(t) \in Slot
  BY RequestType
<1> HIDE DEF TypeOK
<1>2. ASSUME Rollback(t)
      PROVE  Others(t) /\ table' = table
  BY <1>0, <1>2 DEF Rollback, Others, Unlocked
<1>3. ASSUME NEW rest, NEW step, NEW done, Turn(t, rest, step, done), UNCHANGED <<lock, item, cache, written>>
      PROVE  Others(t)
  <2>1. \A u \in Txn : u # t => pc'[u] = pc[u] /\ target'[u] = target[u] /\ todo'[u] = todo[u]
    BY <1>0, <1>3 DEF Turn
  <2> QED
    BY <1>0, <1>3, <2>1 DEF Others
<1>4. ASSUME Got(t)
      PROVE  \A u \in Txn : u # t => pc'[u] = pc[u] /\ item'[u] = item[u]
                                     /\ target'[u] = target[u] /\ todo'[u] = todo[u]
  BY <1>0, <1>4 DEF Got, Turn
<1>5. ASSUME Load(t)
      PROVE  Others(t) /\ table' = table
  <2>1. \A u \in Txn : u # t => pc'[u] = pc[u] /\ item'[u] = item[u]
                                     /\ target'[u] = target[u] /\ todo'[u] = todo[u]
    BY <1>0, <1>4, <1>5 DEF Load
  <2> QED
    BY <1>0, <1>5, <2>1 DEF Load, Others
<1>6. ASSUME Insert(t)
      PROVE  Others(t) /\ table' = table
  <2>1. CASE table[target[t]] # Absent
    BY <1>2, <1>6, <2>1 DEF Insert
  <2>2. CASE table[target[t]] = Absent
    <3>1. \A u \in Txn : u # t => pc'[u] = pc[u] /\ item'[u] = item[u]
                                     /\ target'[u] = target[u] /\ todo'[u] = todo[u]
      BY <1>0, <1>4, <1>6, <2>2 DEF Insert
    <3> QED
      BY <1>0, <1>6, <2>2, <3>1 DEF Insert, Others
  <2> QED
    BY <2>1, <2>2
<1>7. ASSUME Lock(t)
      PROVE  Others(t) /\ table' = table
  <2>1. \A u \in Txn : u # t => pc'[u] = pc[u] /\ target'[u] = target[u] /\ todo'[u] = todo[u]
    BY <1>0, <1>7 DEF Lock, Turn
  <2> QED
    BY <1>0, <1>7, <2>1 DEF Lock, Others
<1>8. ASSUME ClaimChecksOwn(t) \/ ClaimChecksRelative(t)
      PROVE  Others(t) /\ table' = table
  BY <1>2, <1>3, <1>8 DEF ClaimChecksOwn, ClaimChecksRelative
<1>9. ASSUME ClaimWrites(t)
      PROVE  Others(t) /\ table' = table
  BY <1>0, <1>9 DEF ClaimWrites, Flush, Others
<1>10. ASSUME HoldChecksAndWrites(t)
       PROVE  Others(t) /\ table' = table
  BY <1>0, <1>2, <1>10 DEF HoldChecksAndWrites, Flush, Others
<1>11. ASSUME ReleaseFinds(t) 
       PROVE  Others(t) /\ table' = table
  BY <1>0, <1>11 DEF ReleaseFinds, Others
<1>12. ASSUME ReleaseFindsSiblings(t) \/ ReleaseTurns(t)
       PROVE  Others(t) /\ table' = table
  BY <1>3, <1>12 DEF ReleaseFindsSiblings, ReleaseTurns
<1>13. ASSUME ReleaseWrites(t)
       PROVE  Others(t) /\ table' = table
  BY <1>0, <1>1, <1>13 DEF ReleaseWrites, Flush, Others
<1>14. ASSUME Commit(t)
       PROVE  /\ Others(t) /\ pc[t] = "commit"
              /\ \A s \in Slot : table'[s] = Visible(t, s)
  BY <1>0, <1>14 DEF Commit, Others, Unlocked
<1>15. ASSUME DeadlockAbort(t)
       PROVE  Others(t) /\ table' = table
  BY <1>2, <1>15 DEF DeadlockAbort
<1> QED
  BY <1>5, <1>6, <1>7, <1>8, <1>9, <1>10, <1>11, <1>12, <1>13, <1>14, <1>15 DEF Step

\* Rows never disappear.
LEMMA RowsStay ==
    ASSUME TypeOK, NEW t \in Txn, Step(t), NEW s \in Slot, table[s] # Absent
    PROVE  table'[s] # Absent
  BY StepFrame DEF Visible

\* Only a release that writes can be late.
LEMMA LateNext ==
    ASSUME TypeOK, NEW t \in Txn, Step(t)
    PROVE  /\ late \subseteq late' /\ late' \subseteq late \cup {Own(t)} /\ late' \subseteq Slot
           /\ ReleaseWrites(t) /\ IsLate(t) => Own(t) \in late'
           /\ ~ ReleaseWrites(t) => late' = late
<1>1. late' = late \/ (ReleaseWrites(t) /\ late' = late \cup {x \in {Own(t)} : IsLate(t)})
  BY DEF Step, ReleaseWrites
<1>2. ReleaseWrites(t) => late' = late \cup {x \in {Own(t)} : IsLate(t)}
  BY DEF ReleaseWrites
<1>3. Own(t) \in Slot /\ late \subseteq Slot
  BY RequestType DEF TypeOK
<1> HIDE DEF IsLate, ReleaseWrites
<1> QED
  BY <1>1, <1>2, <1>3

\* What depends on the request alone.
LEMMA SameRequest ==
    ASSUME request' = request
    PROVE  /\ Kind' = Kind /\ Items' = Items /\ Start' = Start
           /\ \A u \in Txn : Requested(u)' = Requested(u)
  BY DEF Kind, Items, Start, Requested

\* Where a transaction is does not change while another one takes a step.
LEMMA SamePlace ==
    ASSUME NEW t \in Txn, Others(t), NEW u \in Txn, u # t
    PROVE  /\ Own(u)' = Own(u) /\ Ended(u)' = Ended(u)
           /\ InRelatives(u)' = InRelatives(u) /\ OwnPassed(u)' = OwnPassed(u)
           /\ Checked(u)' = Checked(u)
           /\ DoneCount(u)' = DoneCount(u) /\ Done(u)' = Done(u)
<1>1. /\ request' = request
      /\ pc'[u] = pc[u] /\ item'[u] = item[u] /\ target'[u] = target[u] /\ todo'[u] = todo[u]
  BY DEF Others
<1>2. Kind' = Kind /\ Items' = Items /\ Requested(u)' = Requested(u)
  BY <1>1, SameRequest
<1>3. Own(u)' = Own(u)
  BY <1>1, <1>2 DEF Own
<1>4. DoneCount(u)' = DoneCount(u)
  BY <1>1, <1>2 DEF DoneCount
<1>5. InRelatives(u)' = InRelatives(u)
  BY <1>1, <1>3 DEF InRelatives
<1>6. OwnPassed(u)' = OwnPassed(u) /\ Checked(u)' = Checked(u) /\ Ended(u)' = Ended(u)
  BY <1>1, <1>2, <1>3, <1>5 DEF OwnPassed, Checked, Ended
<1>7. Done(u)' = Done(u)
  BY <1>2, <1>4 DEF Done
<1> QED
  BY <1>3, <1>4, <1>5, <1>6, <1>7

\* So the other transactions stay under control.
LEMMA OthersKeepControl ==
    ASSUME CInv, NEW t \in Txn, Step(t), NEW u \in Txn, u # t
    PROVE  ControlOf(u)'
<1>1. TypeOK /\ ControlOf(u) /\ Others(t)
  BY StepFrame DEF CInv
<1>2. /\ request' = request
      /\ pc'[u] = pc[u] /\ item'[u] = item[u] /\ target'[u] = target[u] /\ todo'[u] = todo[u]
      /\ cache'[u] = cache[u] /\ written'[u] = written[u]
      /\ \A s \in Slot : (lock'[s] = u) <=> (lock[s] = u)
  BY <1>1 DEF Others
<1>3. /\ Kind' = Kind /\ Items' = Items /\ Requested(u)' = Requested(u)
      /\ Own(u)' = Own(u) /\ Ended(u)' = Ended(u)
      /\ InRelatives(u)' = InRelatives(u) /\ OwnPassed(u)' = OwnPassed(u)
      /\ Checked(u)' = Checked(u) /\ Done(u)' = Done(u)
  BY <1>1, <1>2, SameRequest, SamePlace
<1>4. /\ Own(u) \in Slot /\ Requested(u) \subseteq Slot /\ target[u] \in Slot
      /\ Done(u) \subseteq Slot
      /\ \A x \in Slot : Relatives(x) \subseteq Slot
  <2>1. Done(u) \subseteq Requested(u)
    BY <1>1, RequestType DEF Done, DoneCount, Requested
  <2> QED
    BY <1>1, <2>1, RequestType, RelativesType DEF TypeOK
<1>5. Loaded(u)'
  <2>1. \A s \in Slot : table[s] # Absent => table'[s] # Absent
    BY <1>1, RowsStay
  <2> QED
    BY <1>1, <1>2, <2>1 DEF ControlOf, Loaded, Visible
<1>6. ASSUME Kind[u] = "claim" PROVE ClaimControl(u)'
  <2>1. Checked(u) \subseteq Slot
    BY <1>4 DEF Checked
  <2>2. ClaimControl(u)
    BY <1>1, <1>6 DEF ControlOf
  <2> QED
    BY <1>2, <1>3, <1>4, <2>1, <2>2 DEF ClaimControl
<1>7. ASSUME Kind[u] = "hold" PROVE HoldControl(u)'
  BY <1>1, <1>2, <1>3, <1>4, <1>7 DEF ControlOf, HoldControl
<1>8. ASSUME Kind[u] = "release" PROVE ReleaseControl(u)'
  BY <1>1, <1>2, <1>3, <1>4, <1>8 DEF ControlOf, ReleaseControl
<1> QED
  BY <1>3, <1>5, <1>6, <1>7, <1>8 DEF ControlOf

\* A transaction that failed is under control.
LEMMA RollbackKeeps ==
    ASSUME CInv, NEW t \in Txn, Step(t), Rollback(t)
    PROVE  TypeOK' /\ ControlOf(t)'
<1>1. TypeOK /\ ControlOf(t) /\ request' = request /\ late' \subseteq Slot
  BY LateNext DEF CInv, Step
<1>2. TypeOK'
  BY <1>1, SameRequest, SlotClaimAssumption, SlotsAssumption
     DEF TypeOK, Rollback, Unlocked, Nothing
<1>3. /\ pc'[t] = "failed" /\ item' = item
      /\ \A s \in Slot : cache'[t][s] = Absent /\ written'[t][s] = Absent
  BY <1>1 DEF TypeOK, Rollback, Nothing
<1>4. Kind' = Kind /\ DoneCount(t)' = 0
  BY <1>1, <1>3, SameRequest DEF DoneCount
<1>5. Own(t)' = Own(t) /\ Own(t) \in Slot
  BY <1>1, <1>3, SameRequest, RequestType DEF Own
<1>6. ClaimControl(t)'
  BY <1>3, <1>4, <1>5 DEF ClaimControl, Ended, InRelatives, OwnPassed, Done
<1>7. HoldControl(t)'
  BY <1>3 DEF HoldControl
<1>8. ReleaseControl(t)' \/ Kind[t] # "release"
  BY <1>1, <1>3 DEF ControlOf, ReleaseControl
<1> QED
  BY <1>2, <1>3, <1>4, <1>6, <1>7, <1>8 DEF ControlOf, Loaded

\* What can be said of the state of t while its own step is looked at.
LEMMA Here ==
    ASSUME CInv, NEW t \in Txn
    PROVE  /\ TypeOK /\ ControlOf(t)
           /\ Kind[t] \in {"claim", "hold", "release"}
           /\ table \in [Slot -> Row \cup {Absent}]
           /\ lock \in [Slot -> Txn \cup {None}]
           /\ pc \in [Txn -> {"find", "siblings", "load", "insert", "lock", "check", "write",
                              "commit", "committed", "failed"}]
           /\ item \in [Txn -> Nat] /\ item[t] \in 1..Len(Items[t])
           /\ target \in [Txn -> Slot] /\ target[t] \in Slot
           /\ todo \in [Txn -> SUBSET Slot] /\ todo[t] \subseteq Slot
           /\ cache \in [Txn -> [Slot -> Row \cup {Absent}]]
           /\ written \in [Txn -> [Slot -> Row \cup {Absent}]]
           /\ \A s \in Slot : /\ cache[t][s] \in Row \cup {Absent}
                              /\ written[t][s] \in Row \cup {Absent}
                              /\ Visible(t, s) \in Row \cup {Absent}
           /\ Own(t) \in Slot /\ Requested(t) \subseteq Slot /\ Own(t) \in Requested(t)
           /\ Relatives(Own(t)) \subseteq Slot /\ Own(t) \notin Relatives(Own(t))
           /\ Done(t) \subseteq Requested(t)
           /\ None \notin Txn /\ t \in Reservation /\ t \in Quote
           /\ Absent \notin Row /\ FreeRow \in Row /\ FreeRow # Absent
<1>1. TypeOK /\ ControlOf(t)
  BY DEF CInv
<1>2. FreeRow \in Row
  BY DEF FreeRow, Row, SlotStatus
<1>3. Done(t) \subseteq Requested(t)
  BY <1>1, RequestType DEF Done, DoneCount, Requested
<1> QED
  BY <1>1, <1>2, <1>3, RequestType, RelativesType, SlotClaimAssumption, SlotsAssumption
     DEF TypeOK, Visible

\* A step of t that leaves the rest of the types alone keeps all of them.
LEMMA TypeKept ==
    ASSUME CInv, NEW t \in Txn, Step(t),
           table' \in [Slot -> Row \cup {Absent}],
           lock' \in [Slot -> Txn \cup {None}],
           pc' \in [Txn -> {"find", "siblings", "load", "insert", "lock", "check", "write",
                            "commit", "committed", "failed"}],
           item' \in [Txn -> Nat], item'[t] \in 1..Len(Items[t]),
           target' \in [Txn -> Slot], todo' \in [Txn -> SUBSET Slot],
           cache' \in [Txn -> [Slot -> Row \cup {Absent}]],
           written' \in [Txn -> [Slot -> Row \cup {Absent}]],
           \A s \in Slot : written'[t][s] # Absent => lock'[s] = t
    PROVE  TypeOK'
<1>1. TypeOK /\ Others(t) /\ request' = request /\ Items' = Items /\ late' \subseteq Slot
  BY StepFrame, SameRequest, LateNext DEF CInv, Others
<1>2. \A u \in Txn : item'[u] \in 1..Len(Items[u])
  BY <1>1 DEF TypeOK, Others
<1>3. \A u \in Txn, s \in Slot : written'[u][s] # Absent => lock'[s] = u
  BY <1>1 DEF TypeOK, Others
<1> QED
  BY <1>1, <1>2, <1>3 DEF TypeOK

\* A transaction that commits.
LEMMA CommitKeeps ==
    ASSUME CInv, NEW t \in Txn, Step(t), Commit(t)
    PROVE  TypeOK' /\ ControlOf(t)'
<1> USE Here
<1>1. request' = request /\ Kind' = Kind /\ Items' = Items
  BY SameRequest DEF Step
<1>2. /\ pc'[t] = "committed" /\ item' = item /\ target' = target /\ todo' = todo
      /\ \A s \in Slot : cache'[t][s] = Absent /\ written'[t][s] = Absent
  BY DEF Commit, Nothing
<1>3. TypeOK'
  <2>1. /\ table' \in [Slot -> Row \cup {Absent}] /\ lock' \in [Slot -> Txn \cup {None}]
        /\ cache' \in [Txn -> [Slot -> Row \cup {Absent}]]
        /\ written' \in [Txn -> [Slot -> Row \cup {Absent}]]
    BY DEF Commit, Unlocked, Nothing
  <2>2. pc' = [pc EXCEPT ![t] = "committed"]
    BY DEF Commit
  <2> QED
    BY <1>2, <2>1, <2>2, TypeKept
<1>4. Own(t)' = Own(t)
  BY <1>1, <1>2 DEF Own
<1>5. ClaimControl(t)'
  BY <1>2, <1>4 DEF ClaimControl, Ended, InRelatives, OwnPassed
<1>6. HoldControl(t)'
  BY <1>2 DEF HoldControl
<1>7. Kind[t] = "release" => ReleaseControl(t)'
  BY <1>2 DEF ControlOf, ReleaseControl
<1> QED
  BY <1>1, <1>2, <1>3, <1>5, <1>6, <1>7 DEF ControlOf, Loaded

\* Where a claim or a release turns next.
LEMMA TurnNext ==
    ASSUME CInv, NEW t \in Txn, NEW rest \in SUBSET Slot,
           NEW step, NEW done, Turn(t, rest, step, done)
    PROVE  /\ rest = {} => /\ pc' = [pc EXCEPT ![t] = done]
                           /\ target' = target /\ todo' = todo
           /\ rest # {} => /\ pc' = [pc EXCEPT ![t] = step]
                           /\ target'[t] \in rest /\ target' = [target EXCEPT ![t] = target'[t]]
                           /\ todo' = [todo EXCEPT ![t] = rest \ {target'[t]}]
           /\ target' \in [Txn -> Slot] /\ todo' \in [Txn -> SUBSET Slot]
           /\ pc'[t] = IF rest = {} THEN done ELSE step
<1> USE Here
<1>1. CASE rest = {}
  BY <1>1 DEF Turn
<1>2. CASE rest # {}
  <2>1. PICK s \in rest : /\ pc' = [pc EXCEPT ![t] = step]
                          /\ target' = [target EXCEPT ![t] = s]
                          /\ todo' = [todo EXCEPT ![t] = rest \ {s}]
    BY <1>2 DEF Turn
  <2> QED
    BY <1>2, <2>1
<1> QED
  BY <1>1, <1>2

\* What a transaction does after it got a row.
LEMMA GotNext ==
    ASSUME CInv, NEW t \in Txn, Got(t)
    PROVE  /\ Kind[t] # "hold" => /\ pc' = [pc EXCEPT ![t] = "lock"]
                                  /\ UNCHANGED <<item, target, todo>>
           /\ Kind[t] = "hold" /\ item[t] < Len(Items[t]) =>
                /\ pc' = [pc EXCEPT ![t] = "load"]
                /\ item' = [item EXCEPT ![t] = item[t] + 1]
                /\ target' = [target EXCEPT ![t] = Items[t][item[t] + 1]]
                /\ todo' = todo
           /\ Kind[t] = "hold" /\ item[t] = Len(Items[t]) =>
                /\ pc' = [pc EXCEPT ![t] = "lock"]
                /\ target'[t] \in Requested(t) /\ target' = [target EXCEPT ![t] = target'[t]]
                /\ todo' = [todo EXCEPT ![t] = Requested(t) \ {target'[t]}]
                /\ item' = item
<1> USE Here
<1>1. Len(Items[t]) \in Nat
  BY RequestType
<1>2. CASE Kind[t] # "hold"
  BY <1>2 DEF Got
<1>3. CASE Kind[t] = "hold" /\ item[t] < Len(Items[t])
  BY <1>1, <1>3 DEF Got
<1>4. CASE Kind[t] = "hold" /\ item[t] = Len(Items[t])
  <2>1. Turn(t, Requested(t), "lock", "check") /\ item' = item
    BY <1>1, <1>4 DEF Got
  <2>2. Own(t) \in Requested(t)
    BY Here
  <2>3. Requested(t) \in SUBSET Slot
    BY Here
  <2>4. Requested(t) # {}
    BY <2>2, Zenon
  <2> QED
    <3>1. /\ pc' = [pc EXCEPT ![t] = "lock"]
          /\ target'[t] \in Requested(t) /\ target' = [target EXCEPT ![t] = target'[t]]
          /\ todo' = [todo EXCEPT ![t] = Requested(t) \ {target'[t]}]
      BY <2>1, <2>3, <2>4, TurnNext
    <3> QED
      BY <1>1, <1>4, <2>1, <3>1
<1> QED
  BY <1>1, <1>2, <1>3, <1>4

\* The statement it sends next.
LEMMA GotStatement ==
    ASSUME CInv, NEW t \in Txn, Got(t)
    PROVE  /\ pc'[t] \in {"lock", "load"}
           /\ Kind[t] # "hold" => item' = item /\ pc'[t] = "lock" /\ target' = target
<1>1. /\ pc \in [Txn -> {"find", "siblings", "load", "insert", "lock", "check", "write",
                         "commit", "committed", "failed"}]
      /\ item[t] \in 1..Len(Items[t]) /\ Len(Items[t]) \in Nat
  BY Here, RequestType
<1>2. item[t] < Len(Items[t]) \/ item[t] = Len(Items[t])
  BY <1>1
<1>3. Kind[t] # "hold" => pc' = [pc EXCEPT ![t] = "lock"] /\ item' = item /\ target' = target
  BY GotNext
<1>4. Kind[t] = "hold" => pc' = [pc EXCEPT ![t] = "load"] \/ pc' = [pc EXCEPT ![t] = "lock"]
  BY <1>2, GotNext
<1> QED
  BY <1>1, <1>3, <1>4

\* A request stays what it was, and so does the place in it that depends on item.
LEMMA HereNext ==
    ASSUME CInv, NEW t \in Txn, Step(t)
    PROVE  /\ request' = request /\ Kind' = Kind /\ Items' = Items
           /\ Requested(t)' = Requested(t)
           /\ item'[t] = item[t] => Own(t)' = Own(t)
           /\ \A u \in Txn : u # t => ControlOf(u)'
<1>1. request' = request
  BY DEF Step
<1> QED
  BY <1>1, SameRequest, OthersKeepControl DEF Own

\* A transaction that has got the row it asked for, found or inserted.
LEMMA GotKeeps ==
    ASSUME CInv, NEW t \in Txn, Step(t), NEW s \in Slot, s = target[t], Got(t), pc[t] \in {"load", "insert"},
           Kind[t] # "hold" => item' = item,
           table' = table,
           \A x \in Slot : lock'[x] = lock[x] \/ lock'[x] = t,
           \A x \in Slot : x # s => /\ cache'[t][x] = cache[t][x]
                                            /\ written'[t][x] = written[t][x],
           cache[t][s] # Absent => cache'[t][s] = cache[t][s],
           cache[t][s] = Absent => cache'[t][s] = Visible(t, s)',
           Visible(t, s)' # Absent,
           \/ written'[t][s] = written[t][s]
           \/ written[t][s] = Absent
    PROVE  ControlOf(t)'
<1> USE Here
<1>1. /\ Kind' = Kind /\ Items' = Items /\ Requested(t)' = Requested(t)
      /\ item'[t] = item[t] => Own(t)' = Own(t)
  BY HereNext
<1>2. cache'[t][s] # Absent
  BY DEF Visible
<1>3. Loaded(t)'
  BY <1>2 DEF ControlOf, Loaded, Visible
<1>4. ASSUME Kind[t] = "claim" PROVE ClaimControl(t)'
  <2>1. ClaimControl(t) /\ pc'[t] = "lock" /\ item' = item /\ target' = target /\ todo' = todo
    BY <1>4, GotNext DEF ControlOf
  <2>2. Own(t)' = Own(t)
    BY <1>1, <2>1
  <2>3. InRelatives(t)' = InRelatives(t) /\ OwnPassed(t)' = OwnPassed(t) /\ Checked(t)' = Checked(t)
    BY <1>1, <2>1, <2>2 DEF InRelatives, OwnPassed, Checked
  <2>4. DoneCount(t)' = DoneCount(t)
    BY <1>1, <1>4, <2>1 DEF DoneCount
  <2>5. Done(t)' = Done(t)
    BY <1>1, <2>4 DEF Done
  <2>6. Checked(t) \subseteq Slot /\ Done(t) \subseteq Slot /\ \A x \in Done(t) : Relatives(x) \subseteq Slot
    BY RelativesType DEF Checked
  <2>7. ~ Ended(t)' /\ ~ Ended(t)
    BY <2>1 DEF Ended
  <2>8. ASSUME OwnPassed(t)
        PROVE  /\ lock'[Own(t)] = t
               /\ Free(cache'[t][Own(t)])
               /\ \A x \in Checked(t) : lock'[x] = t /\ cache'[t][x] # Absent /\ ~ Hard(cache'[t][x])
    <3>1. InRelatives(t) /\ target[t] \notin Checked(t) /\ target[t] # Own(t)
      BY <2>8 DEF OwnPassed, InRelatives, Checked
    <3> QED
      BY <2>1, <2>6, <2>8, <3>1 DEF ClaimControl
  <2>9. ASSUME NEW x \in Done(t)
        PROVE  /\ Hard(written'[t][x])
               /\ cache'[t][x] # Absent => Hard(cache'[t][x])
               /\ \A y \in Relatives(x) : lock'[y] = t
    <3>1. /\ Hard(written[t][x])
          /\ cache[t][x] # Absent => Hard(cache[t][x])
          /\ \A y \in Relatives(x) : lock[y] = t
      BY <2>1 DEF ClaimControl
    <3>2. written'[t][x] = written[t][x]
      BY <2>6, <3>1 DEF Hard
    <3>3. cache'[t][x] = cache[t][x] \/ cache'[t][x] = written'[t][x]
      BY <2>6, <3>1, <3>2 DEF Visible, Hard
    <3> QED
      BY <2>6, <3>1, <3>2, <3>3
  <2> QED
    BY <1>2, <2>1, <2>2, <2>3, <2>5, <2>6, <2>7, <2>8, <2>9 DEF ClaimControl
<1>5. ASSUME Kind[t] = "hold" PROVE HoldControl(t)'
  <2>1. HoldControl(t) /\ target[t] = Own(t)
    BY <1>5 DEF ControlOf, HoldControl
  <2>2. Len(Items[t]) \in Nat /\ \A i \in 1..Len(Items[t]) : Items[t][i] \in Slot
    BY RequestType
  <2>3. ASSUME NEW i \in 1..item[t]
        PROVE  cache'[t][Items[t][i]] # Absent
    <3>1. i \in 1..Len(Items[t]) /\ Items[t][i] \in Slot /\ (i = item[t] \/ i \in 1..(item[t] - 1))
      BY <2>2
    <3>2. i = item[t] => Items[t][i] = s
      BY <2>1 DEF Own
    <3>3. i \in 1..(item[t] - 1) => cache[t][Items[t][i]] # Absent
      BY <2>1 DEF HoldControl
    <3> QED
      BY <1>2, <3>1, <3>2, <3>3
  <2>4. CASE item[t] < Len(Items[t])
    <3>1. pc'[t] = "load" /\ item'[t] = item[t] + 1 /\ target'[t] = Items[t][item[t] + 1]
      BY <1>5, <2>4, GotNext
    <3> QED
      BY <1>1, <2>3, <3>1 DEF HoldControl, Own
  <2>5. CASE item[t] = Len(Items[t])
    <3>1. /\ pc'[t] = "lock" /\ target'[t] \in Requested(t)
          /\ todo'[t] = Requested(t) \ {target'[t]}
      BY <1>5, <2>5, GotNext
    <3>2. \A x \in Requested(t) : cache'[t][x] # Absent
      BY <2>3, <2>5 DEF Requested
    <3> QED
      BY <1>1, <3>1, <3>2 DEF HoldControl
  <2> QED
    BY <2>2, <2>4, <2>5
<1>6. ASSUME Kind[t] = "release" PROVE ReleaseControl(t)'
  <2>1. ReleaseControl(t) /\ pc'[t] = "lock" /\ item' = item /\ target' = target /\ todo' = todo
    BY <1>6, GotNext DEF ControlOf
  <2>2. Own(t)' = Own(t) /\ Relatives(Own(t))' = Relatives(Own(t))
    BY <1>1, <2>1
  <2>3. /\ item[t] = 1 /\ cache[t][Own(t)] # Absent /\ s \in Relatives(Own(t))
        /\ todo[t] \subseteq Relatives(Own(t))
    BY <2>1 DEF ReleaseControl
  <2>4. cache'[t][Own(t)] # Absent
    BY <1>2, <2>3
  <2>5. ASSUME NEW x \in Slot, cache'[t][x] # Absent, x # Own(t)
        PROVE  x \in Relatives(Own(t)) /\ (lock'[x] = t \/ x = s)
    BY <2>1, <2>3, <2>5 DEF ReleaseControl
  <2>6. ASSUME NEW x \in Slot, written'[t][x] # Absent
        PROVE  x = Own(t) \/ x \in Relatives(Own(t))
    BY <2>1, <2>3, <2>6 DEF ReleaseControl
  <2> QED
    BY <2>1, <2>2, <2>3, <2>4, <2>5, <2>6 DEF ReleaseControl
<1> QED
  BY <1>1, <1>3, <1>4, <1>5, <1>6 DEF ControlOf

\* The types survive Got.
LEMMA GotType ==
    ASSUME CInv, NEW t \in Txn, Step(t), Got(t),
           Kind[t] # "hold" => item' = item,
           table' = table,
           lock' \in [Slot -> Txn \cup {None}],
           cache' \in [Txn -> [Slot -> Row \cup {Absent}]],
           written' \in [Txn -> [Slot -> Row \cup {Absent}]],
           \A s \in Slot : written'[t][s] # Absent => lock'[s] = t
    PROVE  TypeOK'
<1> USE Here
<1>1. Len(Items[t]) \in Nat /\ \A i \in 1..Len(Items[t]) : Items[t][i] \in Slot
  BY RequestType
<1>2. /\ pc' \in [Txn -> {"find", "siblings", "load", "insert", "lock", "check", "write",
                          "commit", "committed", "failed"}]
      /\ item' \in [Txn -> Nat] /\ item'[t] \in 1..Len(Items[t])
      /\ target' \in [Txn -> Slot] /\ todo' \in [Txn -> SUBSET Slot]
  <2>1. CASE Kind[t] # "hold"
    BY <2>1, GotNext
  <2>2. CASE Kind[t] = "hold" /\ item[t] < Len(Items[t])
    <3>1. item[t] + 1 \in 1..Len(Items[t])
      BY <1>1, <2>2
    <3>2. Items[t][item[t] + 1] \in Slot
      BY <1>1, <3>1
    <3>3. /\ pc' = [pc EXCEPT ![t] = "load"] /\ item' = [item EXCEPT ![t] = item[t] + 1]
          /\ target' = [target EXCEPT ![t] = Items[t][item[t] + 1]] /\ todo' = todo
      BY <2>2, GotNext
    <3> QED
      BY <3>1, <3>2, <3>3
  <2>3. CASE Kind[t] = "hold" /\ item[t] = Len(Items[t])
    <3>1. /\ pc' = [pc EXCEPT ![t] = "lock"]
          /\ target'[t] \in Requested(t) /\ target' = [target EXCEPT ![t] = target'[t]]
          /\ todo' = [todo EXCEPT ![t] = Requested(t) \ {target'[t]}]
          /\ item' = item
      BY <2>3, GotNext
    <3> QED
      BY <3>1
  <2> QED
    BY <1>1, <2>1, <2>2, <2>3
<1> QED
  BY <1>2, TypeKept

\* A claim that goes on with the row it is about.
LEMMA ClaimGoesOn ==
    ASSUME CInv, NEW t \in Txn, Step(t), Kind[t] = "claim",
           pc[t] \in {"load", "insert", "lock", "check"},
           pc'[t] \in {"load", "insert", "lock", "check"},
           item' = item, target' = target, todo' = todo, cache' = cache, written' = written,
           \A x \in Slot : lock'[x] = lock[x] \/ lock'[x] = t,
           pc'[t] = "insert" => written[t][target[t]] = Absent,
           pc'[t] \in {"lock", "check"} => cache[t][target[t]] # Absent,
           pc'[t] = "check" => lock'[target[t]] = t
    PROVE  ClaimControl(t)'
<1>1. /\ ClaimControl(t) /\ target[t] \in Slot /\ Own(t) \in Slot
      /\ Relatives(Own(t)) \subseteq Slot /\ Done(t) \subseteq Requested(t)
      /\ Requested(t) \subseteq Slot
  BY Here DEF ControlOf
<1>2. Kind' = Kind /\ Items' = Items /\ Own(t)' = Own(t)
  BY HereNext
<1>3. /\ InRelatives(t)' = InRelatives(t) /\ OwnPassed(t)' = OwnPassed(t)
      /\ Checked(t)' = Checked(t)
  BY <1>2 DEF InRelatives, OwnPassed, Checked
<1>4. DoneCount(t)' = DoneCount(t)
  BY <1>2 DEF DoneCount
<1>5. Done(t)' = Done(t)
  BY <1>2, <1>4 DEF Done
<1>6. ~ Ended(t)' /\ ~ Ended(t)
  BY DEF Ended
<1>7. Checked(t) \subseteq Slot /\ Done(t) \subseteq Slot /\ \A x \in Done(t) : Relatives(x) \subseteq Slot
  BY <1>1, RelativesType DEF Checked
<1>8. ASSUME OwnPassed(t)
      PROVE  /\ lock'[Own(t)] = t
             /\ Free(cache[t][Own(t)])
             /\ \A x \in Checked(t) : lock'[x] = t /\ cache[t][x] # Absent /\ ~ Hard(cache[t][x])
  BY <1>1, <1>7, <1>8 DEF ClaimControl
<1>9. ASSUME NEW x \in Done(t)
      PROVE  /\ Hard(written[t][x])
             /\ cache[t][x] # Absent => Hard(cache[t][x])
             /\ \A y \in Relatives(x) : lock'[y] = t
  BY <1>1, <1>7 DEF ClaimControl
<1>10. /\ target[t] = Own(t) \/ target[t] \in Relatives(Own(t))
       /\ target[t] = Own(t) => \A x \in Slot : x # Own(t) => cache[t][x] = Absent
       /\ InRelatives(t) => todo[t] \subseteq Relatives(Own(t))
  BY <1>1, <1>6 DEF ClaimControl
<1> QED
  BY <1>2, <1>3, <1>5, <1>6, <1>8, <1>9, <1>10 DEF ClaimControl

\* Loading a row.
LEMMA LoadKeeps ==
    ASSUME CInv, NEW t \in Txn, Step(t), Load(t)
    PROVE  TypeOK' /\ ControlOf(t)'
<1> USE Here
<1>0. PICK s \in Slot : s = target[t]
  OBVIOUS
<1> USE <1>0
<1>1. /\ Kind' = Kind /\ Items' = Items /\ Requested(t)' = Requested(t)
      /\ item'[t] = item[t] => Own(t)' = Own(t)
  BY HereNext
<1>2. /\ pc[t] = "load" /\ table' = table /\ lock' = lock /\ written' = written
      /\ \A x \in Slot : written[t][x] # Absent => lock[x] = t
  BY DEF Load, TypeOK
<1>3. \A x \in Slot : Visible(t, x)' = Visible(t, x)
  BY <1>2 DEF Visible
<1>4. CASE Visible(t, s) = Absent
  <2>1. /\ pc' = [pc EXCEPT ![t] = "insert"] /\ item' = item /\ target' = target
        /\ todo' = todo /\ cache' = cache
    BY <1>4 DEF Load
  <2>2. TypeOK'
    BY <1>2, <2>1, TypeKept
  <2>3. Own(t)' = Own(t)
    BY <1>1, <2>1
  <2>8. written[t][target[t]] = Absent
    BY <1>4 DEF Visible
  <2>9. Kind[t] = "claim" => ClaimControl(t)'
    BY <1>2, <2>1, <2>8, ClaimGoesOn
  <2>10. Kind[t] = "hold" => HoldControl(t)'
    BY <1>1, <1>2, <2>1, <2>3 DEF ControlOf, HoldControl
  <2>11. Kind[t] = "release" => ReleaseControl(t)'
    BY <1>2, <2>1, <2>3 DEF ControlOf, ReleaseControl
  <2>12. Loaded(t)'
    BY <1>3, <2>1 DEF ControlOf, Loaded
  <2> QED
    BY <1>1, <2>2, <2>9, <2>10, <2>11, <2>12 DEF ControlOf
<1>5. CASE Visible(t, s) # Absent
  <2>1. /\ cache' = [cache EXCEPT ![t][s] = IF cache[t][s] = Absent THEN Visible(t, s)
                                                                    ELSE cache[t][s]]
        /\ Got(t)
    BY <1>5 DEF Load
  <2>2. cache' \in [Txn -> [Slot -> Row \cup {Absent}]]
    BY <2>1
  <2>3. /\ \A x \in Slot : x # s => cache'[t][x] = cache[t][x]
        /\ cache'[t][s] = IF cache[t][s] = Absent THEN Visible(t, s) ELSE cache[t][s]
    BY <2>1
  <2>4. Kind[t] # "hold" => item' = item
    BY <2>1, GotNext
  <2>5. TypeOK'
    BY <1>2, <2>1, <2>2, <2>4, GotType
  <2>6. ControlOf(t)'
    BY <1>2, <1>3, <1>5, <2>1, <2>3, <2>4, GotKeeps
  <2> QED
    BY <2>5, <2>6
<1> QED
  BY <1>4, <1>5

\* Inserting a row.
LEMMA InsertKeeps ==
    ASSUME CInv, NEW t \in Txn, Step(t), Insert(t)
    PROVE  TypeOK' /\ ControlOf(t)'
<1> USE Here
<1>0. PICK s \in Slot : s = target[t]
  OBVIOUS
<1> USE <1>0
<1>1. request' = request /\ \A x \in Slot : written[t][x] # Absent => lock[x] = t
  BY HereNext DEF TypeOK
<1>2. CASE table[s] # Absent
  BY <1>1, <1>2, RollbackKeeps DEF Insert
<1>3. CASE table[s] = Absent
  <2>1. /\ pc[t] = "insert" /\ lock[s] = None
        /\ lock' = [lock EXCEPT ![s] = t]
        /\ written' = [written EXCEPT ![t][s] = FreeRow]
        /\ cache' = [cache EXCEPT ![t][s] = FreeRow]
        /\ Got(t)
        /\ table' = table
    BY <1>3 DEF Insert
  <2>2. written[t][s] = Absent
    BY <1>1, <2>1
  <2>3. cache[t][s] = Absent
    BY <1>3, <2>2 DEF ControlOf, Loaded, Visible
  <2>4. /\ lock' \in [Slot -> Txn \cup {None}]
        /\ cache' \in [Txn -> [Slot -> Row \cup {Absent}]]
        /\ written' \in [Txn -> [Slot -> Row \cup {Absent}]]
        /\ written'[t][s] = FreeRow /\ cache'[t][s] = FreeRow /\ lock'[s] = t
        /\ \A x \in Slot : x # s => /\ cache'[t][x] = cache[t][x]
                                    /\ written'[t][x] = written[t][x]
                                    /\ lock'[x] = lock[x]
    BY <2>1
  <2>5. Visible(t, s)' = FreeRow
    BY <2>4 DEF Visible
  <2>6. Kind[t] # "hold" => item' = item
    BY <2>1, GotNext
  <2>7. TypeOK'
    <3>1. \A x \in Slot : written'[t][x] # Absent => lock'[x] = t
      BY <1>1, <2>4
    <3> QED
      BY <2>1, <2>4, <2>6, <3>1, GotType
  <2>8. ControlOf(t)'
    <3>1. \A x \in Slot : lock'[x] = lock[x] \/ lock'[x] = t
      BY <2>4
    <3>2. /\ cache[t][s] # Absent => cache'[t][s] = cache[t][s]
          /\ cache[t][s] = Absent => cache'[t][s] = Visible(t, s)'
          /\ Visible(t, s)' # Absent
      BY <2>3, <2>4, <2>5
    <3> QED
      <4> HIDE Here
      <4> QED
        BY <2>1, <2>2, <2>4, <2>6, <3>1, <3>2, GotKeeps
  <2> QED
    BY <2>7, <2>8
<1> QED
  BY <1>2, <1>3

\* Locking a row.
LEMMA LockKeeps ==
    ASSUME CInv, NEW t \in Txn, Step(t), Lock(t)
    PROVE  TypeOK' /\ ControlOf(t)'
<1> USE Here
<1>1. /\ Kind' = Kind /\ Items' = Items /\ Requested(t)' = Requested(t)
      /\ Own(t)' = Own(t)
  BY HereNext DEF Lock
<1>2. /\ pc[t] = "lock" /\ table' = table /\ item' = item /\ cache' = cache /\ written' = written
      /\ lock' \in [Slot -> Txn \cup {None}] /\ lock'[target[t]] = t
      /\ \A x \in Slot : lock'[x] = lock[x] \/ lock'[x] = t
      /\ \A x \in Slot : written[t][x] # Absent => lock[x] = t
  BY DEF Lock, TypeOK
<1>3. Loaded(t)'
  BY <1>2 DEF ControlOf, Loaded, Visible
<1>4. CASE Kind[t] # "hold"
  <2>1. pc' = [pc EXCEPT ![t] = "check"] /\ target' = target /\ todo' = todo
    BY <1>4 DEF Lock
  <2>2. TypeOK'
    BY <1>2, <2>1, TypeKept
  <2>8. Kind[t] = "claim" => ClaimControl(t)'
    <3>1. cache[t][target[t]] # Absent \/ Kind[t] # "claim"
      BY <1>2 DEF ControlOf, ClaimControl
    <3> QED
      BY <1>2, <2>1, <3>1, ClaimGoesOn
  <2>9. Kind[t] = "release" => ReleaseControl(t)'
    BY <1>1, <1>2, <2>1 DEF ControlOf, ReleaseControl
  <2> QED
    BY <1>1, <1>3, <1>4, <2>2, <2>8, <2>9 DEF ControlOf
<1>5. CASE Kind[t] = "hold"
  <2>1. Turn(t, todo[t], "lock", "check") /\ HoldControl(t)
    BY <1>5 DEF Lock, ControlOf
  <2>2. /\ todo[t] = {} => /\ pc' = [pc EXCEPT ![t] = "check"]
                           /\ target' = target /\ todo' = todo
        /\ todo[t] # {} => /\ pc' = [pc EXCEPT ![t] = "lock"]
                           /\ target'[t] \in todo[t] /\ target' = [target EXCEPT ![t] = target'[t]]
                           /\ todo' = [todo EXCEPT ![t] = todo[t] \ {target'[t]}]
    BY <2>1, TurnNext
  <2>3. /\ pc' \in [Txn -> {"find", "siblings", "load", "insert", "lock", "check", "write",
                            "commit", "committed", "failed"}]
        /\ target' \in [Txn -> Slot] /\ todo' \in [Txn -> SUBSET Slot]
    <3>1. todo[t] \in SUBSET Slot
      OBVIOUS
    <3>2. /\ target' \in [Txn -> Slot] /\ todo' \in [Txn -> SUBSET Slot]
          /\ pc' = [pc EXCEPT ![t] = "check"] \/ pc' = [pc EXCEPT ![t] = "lock"]
      BY <2>1, <2>2, <3>1, TurnNext
    <3> QED
      BY <3>2
  <2>4. TypeOK'
    BY <1>2, <2>3, TypeKept
  <2>5. \A x \in Requested(t) \ todo[t] : lock'[x] = t
    BY <1>2, <2>1 DEF HoldControl
  <2>6. HoldControl(t)'
    BY <1>1, <1>2, <2>1, <2>2, <2>5 DEF HoldControl
  <2> QED
    BY <1>1, <1>3, <1>5, <2>4, <2>6 DEF ControlOf
<1> QED
  BY <1>4, <1>5

\* Turning to another relative leaves the types alone.
LEMMA TurnType ==
    ASSUME CInv, NEW t \in Txn, Step(t), NEW rest \in SUBSET Slot, Turn(t, rest, "load", "write"),
           table' = table, lock' = lock, item' = item, cache' = cache, written' = written
    PROVE  TypeOK'
<1>1. /\ target' \in [Txn -> Slot] /\ todo' \in [Txn -> SUBSET Slot]
      /\ pc' = [pc EXCEPT ![t] = "write"] \/ pc' = [pc EXCEPT ![t] = "load"]
  <2>1. target' \in [Txn -> Slot] /\ todo' \in [Txn -> SUBSET Slot]
    BY TurnNext
  <2>2. /\ rest = {} => pc' = [pc EXCEPT ![t] = "write"]
        /\ rest # {} => pc' = [pc EXCEPT ![t] = "load"]
    BY TurnNext
  <2> QED
    BY <2>1, <2>2
<1> USE Here
<1>2. pc' \in [Txn -> {"find", "siblings", "load", "insert", "lock", "check", "write",
                       "commit", "committed", "failed"}]
  BY <1>1
<1>3. \A x \in Slot : written'[t][x] # Absent => lock'[x] = t
  BY DEF TypeOK
<1> QED
  BY <1>1, <1>2, <1>3, TypeKept

\* A claim that is content with a row turns to the relatives in rest.
LEMMA ClaimTurns ==
    ASSUME CInv, NEW t \in Txn, Step(t), Kind[t] = "claim", pc[t] = "check",
           NEW rest, rest \subseteq Relatives(Own(t)), Turn(t, rest, "load", "write"),
           UNCHANGED <<table, lock, item, cache, written>>,
           lock[Own(t)] = t, Free(cache[t][Own(t)]),
           \A x \in Relatives(Own(t)) \ rest :
                lock[x] = t /\ cache[t][x] # Absent /\ ~ Hard(cache[t][x])
    PROVE  TypeOK' /\ ControlOf(t)'
<1>1. /\ ClaimControl(t) /\ Loaded(t) /\ target[t] \in Slot /\ Own(t) \in Slot
      /\ Relatives(Own(t)) \subseteq Slot /\ Own(t) \notin Relatives(Own(t))
      /\ rest \in SUBSET Slot
  BY Here DEF ControlOf
<1>2. Kind' = Kind /\ Items' = Items /\ Own(t)' = Own(t)
  BY HereNext
<1>3. TypeOK'
  BY <1>1, TurnType
<1>4. /\ rest = {} => pc'[t] = "write" /\ target'[t] = target[t]
      /\ rest # {} => /\ pc'[t] = "load" /\ target'[t] \in rest
                      /\ todo'[t] = rest \ {target'[t]}
  <2>1. /\ rest = {} => target' = target
        /\ rest # {} => /\ target'[t] \in rest
                        /\ todo' = [todo EXCEPT ![t] = rest \ {target'[t]}]
        /\ pc'[t] = IF rest = {} THEN "write" ELSE "load"
    BY <1>1, TurnNext
  <2>2. todo \in [Txn -> SUBSET Slot]
    BY Here
  <2> QED
    BY <2>1, <2>2
<1>5. Loaded(t)'
  BY <1>1 DEF Loaded, Visible
<1>6. target'[t] # Own(t) \/ pc'[t] = "write"
  BY <1>1, <1>4
<1>7. Checked(t)' = Relatives(Own(t)) \ rest
  BY <1>1, <1>2, <1>4 DEF Checked
<1>8. DoneCount(t)' = DoneCount(t)
  BY <1>2, <1>4 DEF DoneCount
<1>9. Done(t)' = Done(t)
  BY <1>2, <1>8 DEF Done
<1>10. ~ Ended(t) /\ ~ Ended(t)'
  BY <1>4 DEF Ended
<1>11. target'[t] = Own(t) \/ target'[t] \in Relatives(Own(t))
  BY <1>1, <1>4, <1>10 DEF ClaimControl
<1>12. InRelatives(t)' => todo'[t] \subseteq Relatives(Own(t))
  BY <1>4 DEF InRelatives
<1>13. \A x \in Done(t) : /\ Hard(written[t][x])
                          /\ cache[t][x] # Absent => Hard(cache[t][x])
                          /\ \A y \in Relatives(x) : lock[y] = t
  BY <1>1 DEF ClaimControl
<1>14. ClaimControl(t)'
  BY <1>2, <1>4, <1>6, <1>7, <1>9, <1>10, <1>11, <1>12, <1>13 DEF ClaimControl
<1> QED
  BY <1>2, <1>3, <1>5, <1>14 DEF ControlOf

\* The check of the claimed slot.
LEMMA ClaimChecksOwnKeeps ==
    ASSUME CInv, NEW t \in Txn, Step(t), ClaimChecksOwn(t)
    PROVE  TypeOK' /\ ControlOf(t)'
<1>1. request' = request
  BY HereNext
<1>2. CASE Rollback(t)
  BY <1>1, <1>2, RollbackKeeps
<1>3. CASE ~ Rollback(t)
  <2>1. /\ Kind[t] = "claim" /\ pc[t] = "check" /\ target[t] = Own(t)
        /\ cache[t][Own(t)].estado = "AVAILABLE"
        /\ Turn(t, Relatives(Own(t)), "load", "write")
        /\ UNCHANGED <<table, lock, item, cache, written>>
    BY <1>3 DEF ClaimChecksOwn
  <2>2. ClaimControl(t)
    BY <2>1, Here DEF ControlOf
  <2>3. lock[Own(t)] = t /\ Free(cache[t][Own(t)])
    BY <2>1, <2>2 DEF ClaimControl, Free
  <2> QED
    <3>1. \A x \in Relatives(Own(t)) \ Relatives(Own(t)) :
                lock[x] = t /\ cache[t][x] # Absent /\ ~ Hard(cache[t][x])
      OBVIOUS
    <3>2. Relatives(Own(t)) \subseteq Relatives(Own(t))
      OBVIOUS
    <3> QED
      BY <2>1, <2>3, <3>1, <3>2, ClaimTurns
<1> QED
  BY <1>2, <1>3

\* The check of a relative.
LEMMA ClaimChecksRelativeKeeps ==
    ASSUME CInv, NEW t \in Txn, Step(t), ClaimChecksRelative(t)
    PROVE  TypeOK' /\ ControlOf(t)'
<1>1. request' = request
  BY HereNext
<1>2. CASE Rollback(t)
  BY <1>1, <1>2, RollbackKeeps
<1>3. CASE ~ Rollback(t)
  <2>1. /\ Kind[t] = "claim" /\ pc[t] = "check" /\ target[t] # Own(t)
        /\ cache[t][target[t]].estado \notin HardBlockStatuses
        /\ Turn(t, todo[t], "load", "write")
        /\ UNCHANGED <<table, lock, item, cache, written>>
    BY <1>3 DEF ClaimChecksRelative, Forbidden
  <2>2. ClaimControl(t) /\ target[t] \in Slot
    BY <2>1, Here DEF ControlOf
  <2>3. OwnPassed(t) /\ InRelatives(t) /\ Checked(t) = Relatives(Own(t)) \ (todo[t] \cup {target[t]})
    BY <2>1 DEF OwnPassed, InRelatives, Checked
  <2>4. /\ lock[Own(t)] = t /\ Free(cache[t][Own(t)]) /\ todo[t] \subseteq Relatives(Own(t))
        /\ \A x \in Checked(t) : lock[x] = t /\ cache[t][x] # Absent /\ ~ Hard(cache[t][x])
        /\ lock[target[t]] = t
    BY <2>1, <2>2, <2>3 DEF ClaimControl
  <2>5. ~ Hard(cache[t][target[t]]) /\ cache[t][target[t]] # Absent
    BY <2>1, <2>2 DEF Hard, ClaimControl
  <2>6. \A x \in Relatives(Own(t)) \ todo[t] :
            lock[x] = t /\ cache[t][x] # Absent /\ ~ Hard(cache[t][x])
    BY <2>3, <2>4, <2>5
  <2> QED
    BY <2>1, <2>4, <2>6, ClaimTurns
<1> QED
  BY <1>2, <1>3

-----------------------------------------------------------------------------
(* What a flush writes.                                                    *)

\* A flush that changes rows it has loaded.
LEMMA FlushOf ==
    ASSUME CInv, NEW t \in Txn, NEW new, Flush(t, new),
           \A x \in Slot : new[x] # cache[t][x] => cache[t][x] # Absent /\ new[x] \in Row
    PROVE  /\ written' = [written EXCEPT ![t] = written'[t]]
           /\ written' \in [Txn -> [Slot -> Row \cup {Absent}]]
           /\ \A x \in Slot :
                /\ new[x] = cache[t][x] => written'[t][x] = written[t][x]
                /\ new[x] # cache[t][x] =>
                     /\ written'[t][x] \in Row /\ written'[t][x] # Absent
                     /\ written'[t][x].estado =
                          IF new[x].estado # cache[t][x].estado THEN new[x].estado
                          ELSE Visible(t, x).estado
<1> DEFINE W == [s \in Slot |-> IF new[s] # cache[t][s]
                                THEN Updated(Visible(t, s), cache[t][s], new[s])
                                ELSE written[t][s]]
<1>1. /\ \A x \in Slot : /\ cache[t][x] \in Row \cup {Absent} /\ Visible(t, x) \in Row \cup {Absent}
                         /\ written[t][x] \in Row \cup {Absent}
      /\ written \in [Txn -> [Slot -> Row \cup {Absent}]]
      /\ Loaded(t) /\ Absent \notin Row
  BY Here DEF ControlOf
<1>2. ASSUME NEW x \in Slot, new[x] # cache[t][x]
      PROVE  /\ W[x] \in Row /\ W[x] # Absent
             /\ W[x].estado = IF new[x].estado # cache[t][x].estado THEN new[x].estado
                              ELSE Visible(t, x).estado
  <2>1. cache[t][x] \in Row /\ new[x] \in Row /\ Visible(t, x) \in Row
    BY <1>1, <1>2 DEF Loaded
  <2>2. W[x] = Updated(Visible(t, x), cache[t][x], new[x])
    BY <1>2
  <2> QED
    BY <1>1, <2>1, <2>2, UpdatedRow
<1>3. ASSUME NEW x \in Slot, new[x] = cache[t][x]
      PROVE  W[x] = written[t][x]
  BY <1>3
<1>4. W \in [Slot -> Row \cup {Absent}]
  <2>1. \A x \in Slot : W[x] \in Row \cup {Absent}
    BY <1>1, <1>2, <1>3
  <2> QED
    BY <2>1
<1>5. written' = [written EXCEPT ![t] = W]
  BY DEF Flush
<1> HIDE DEF W
<1>6. written'[t] = W
  BY <1>1, <1>5
<1> QED
  BY <1>1, <1>2, <1>3, <1>4, <1>5, <1>6

\* What claiming, shadowing, holding and releasing make of a row.
TakenRow(row, t) == [row EXCEPT !.estado = "TTL_BLOCKED", !.reservation_id = t]
ShadowedRow(row, st) == [row EXCEPT !.estado = st, !.reservation_id = None]
HeldRow(row, t) == [row EXCEPT !.estado = "SOFT_HOLD", !.quote_id = t]
ReleasedRow(row) == [row EXCEPT !.estado = "AVAILABLE", !.reservation_id = None]
ClearedRow(row) == [row EXCEPT !.estado = "AVAILABLE"]

\* These are rows in the state they should have.
LEMMA ChangedRow ==
    ASSUME NEW row \in Row, NEW t \in Txn
    PROVE  /\ TakenRow(row, t) \in Row /\ TakenRow(row, t).estado = "TTL_BLOCKED"
           /\ HeldRow(row, t) \in Row /\ HeldRow(row, t).estado = "SOFT_HOLD"
           /\ ReleasedRow(row) \in Row /\ ClearedRow(row) \in Row
           /\ \A st \in SlotStatus :
                ShadowedRow(row, st) \in Row /\ ShadowedRow(row, st).estado = st
  BY SlotClaimAssumption
     DEF Row, SlotStatus, TakenRow, HeldRow, ReleasedRow, ClearedRow, ShadowedRow

\* The rows that a claim writes: its own, and those of relatives.
LEMMA ClaimWritten ==
    ASSUME CInv, NEW t \in Txn, ClaimWrites(t)
    PROVE  /\ written' = [written EXCEPT ![t] = written'[t]]
           /\ written' \in [Txn -> [Slot -> Row \cup {Absent}]]
           /\ Hard(written'[t][Own(t)])
           /\ ShadowedBy(cache[t], Own(t)) \subseteq Relatives(Own(t))
           /\ \A x \in Slot : x # Own(t) /\ x \notin ShadowedBy(cache[t], Own(t)) =>
                 written'[t][x] = written[t][x]
           /\ \A x \in ShadowedBy(cache[t], Own(t)) :
                 IF cache[t][x].estado = ShadowStatus(Own(t))
                 THEN \/ written'[t][x] = written[t][x]
                      \/ written'[t][x] # Absent /\ written'[t][x].estado = Visible(t, x).estado
                 ELSE written'[t][x] # Absent /\ written'[t][x].estado = ShadowStatus(Own(t))
<1> DEFINE s == Own(t)
           new == Claim(cache[t], s, t)
           sh == ShadowedBy(cache[t], s)
<1>1. /\ ClaimControl(t) /\ s \in Slot /\ Relatives(s) \subseteq Slot /\ s \notin Relatives(s)
      /\ \A x \in Slot : cache[t][x] \in Row \cup {Absent}
      /\ Absent \notin Row
      /\ Kind[t] = "claim" /\ pc[t] = "write" /\ Flush(t, new)
  BY Here DEF ControlOf, ClaimWrites
<1>2. sh \subseteq Relatives(s)
  BY DEF ShadowedBy, Relatives
<1>3. /\ Free(cache[t][s])
      /\ \A x \in Relatives(s) : cache[t][x] # Absent /\ ~ Hard(cache[t][x])
  BY <1>1 DEF ClaimControl, OwnPassed, Checked
<1>4. ShadowStatus(s) \in SlotStatus
  BY DEF ShadowStatus, SlotStatus
<1>5. /\ new[s] = TakenRow(cache[t][s], t)
      /\ \A x \in sh : new[x] = ShadowedRow(cache[t][x], ShadowStatus(s))
      /\ \A x \in Slot : x # s /\ x \notin sh => new[x] = cache[t][x]
  <2> HIDE DEF sh, s
  <2>1. new = [x \in Slot |->
                 IF x = s
                 THEN TakenRow(cache[t][x], t)
                 ELSE IF x \in sh
                 THEN ShadowedRow(cache[t][x], ShadowStatus(s))
                 ELSE cache[t][x]]
    BY Zenon DEF Claim, sh, TakenRow, ShadowedRow
  <2> HIDE DEF new
  <2> QED
    BY <1>1, <1>2, <2>1
<1> HIDE DEF new, sh, s
<1>6. /\ new[s] \in Row /\ new[s].estado = "TTL_BLOCKED"
      /\ cache[t][s] # Absent /\ cache[t][s].estado = "AVAILABLE"
  BY <1>1, <1>3, <1>5, ChangedRow DEF Free
<1>7. \A x \in sh : new[x] \in Row /\ new[x].estado = ShadowStatus(s) /\ cache[t][x] # Absent
  <2>1. ASSUME NEW x \in sh
        PROVE  new[x] \in Row /\ new[x].estado = ShadowStatus(s) /\ cache[t][x] # Absent
    <3>1. x \in Relatives(s) /\ x \in Slot
      BY <1>1, <1>2 DEF sh, s
    <3>2. cache[t][x] \in Row
      BY <1>1, <1>3, <3>1 DEF s
    <3>3. new[x] = ShadowedRow(cache[t][x], ShadowStatus(s))
      BY <1>5
    <3>4. /\ ShadowedRow(cache[t][x], ShadowStatus(s)) \in Row
          /\ ShadowedRow(cache[t][x], ShadowStatus(s)).estado = ShadowStatus(s)
      BY <1>4, <3>2, ChangedRow
    <3> QED
      BY <1>1, <3>2, <3>3, <3>4
  <2> QED
    BY <2>1
<1>8. \A x \in Slot : new[x] # cache[t][x] => cache[t][x] # Absent /\ new[x] \in Row
  BY <1>5, <1>6, <1>7
<1>9. /\ written' = [written EXCEPT ![t] = written'[t]]
      /\ written' \in [Txn -> [Slot -> Row \cup {Absent}]]
      /\ \A x \in Slot :
           /\ new[x] = cache[t][x] => written'[t][x] = written[t][x]
           /\ new[x] # cache[t][x] =>
                /\ written'[t][x] \in Row /\ written'[t][x] # Absent
                /\ written'[t][x].estado =
                     IF new[x].estado # cache[t][x].estado THEN new[x].estado
                     ELSE Visible(t, x).estado
  BY <1>1, <1>8, FlushOf
<1>10. Hard(written'[t][s])
  <2>1. new[s] # cache[t][s]
    BY <1>6
  <2> QED
    BY <1>1, <1>6, <1>9, <2>1 DEF Hard, HardBlockStatuses
<1>11. ASSUME NEW x \in sh
       PROVE  IF cache[t][x].estado = ShadowStatus(s)
              THEN \/ written'[t][x] = written[t][x]
                   \/ written'[t][x] # Absent /\ written'[t][x].estado = Visible(t, x).estado
              ELSE written'[t][x] # Absent /\ written'[t][x].estado = ShadowStatus(s)
  <2>1. x \in Slot /\ new[x].estado = ShadowStatus(s)
    BY <1>1, <1>2, <1>7
  <2>2. CASE new[x] = cache[t][x]
    <3>1. cache[t][x].estado = ShadowStatus(s)
      BY <2>1, <2>2
    <3>2. written'[t][x] = written[t][x]
      BY <1>9, <2>1, <2>2
    <3> QED
      BY <3>1, <3>2
  <2>3. CASE new[x] # cache[t][x]
    BY <1>9, <2>1, <2>3
  <2> QED
    BY <2>2, <2>3
<1> QED
  BY <1>1, <1>2, <1>5, <1>9, <1>10, <1>11 DEF sh, s

\* A claim that has written one more item.
LEMMA ClaimWritesKeeps ==
    ASSUME CInv, NEW t \in Txn, Step(t), ClaimWrites(t)
    PROVE  TypeOK' /\ ControlOf(t)'
<1>1. /\ TypeOK /\ ClaimControl(t) /\ Own(t) \in Slot
      /\ Relatives(Own(t)) \subseteq Slot /\ Own(t) \notin Relatives(Own(t))
      /\ target \in [Txn -> Slot] /\ item \in [Txn -> Nat] /\ item[t] \in 1..Len(Items[t])
      /\ Len(Items[t]) \in Nat /\ \A i \in 1..Len(Items[t]) : Items[t][i] \in Slot
      /\ cache \in [Txn -> [Slot -> Row \cup {Absent}]]
      /\ Kind[t] = "claim" /\ pc[t] = "write"
      /\ table \in [Slot -> Row \cup {Absent}]
      /\ lock \in [Slot -> Txn \cup {None}]
      /\ pc \in [Txn -> {"find", "siblings", "load", "insert", "lock", "check", "write",
                         "commit", "committed", "failed"}]
      /\ todo \in [Txn -> SUBSET Slot] /\ Done(t) \subseteq Slot
  BY Here, RequestType DEF ControlOf, ClaimWrites
<1>2. Kind' = Kind /\ Items' = Items /\ (item'[t] = item[t] => Own(t)' = Own(t))
  BY HereNext
<1>3. /\ table' = table /\ lock' = lock /\ todo' = todo
      /\ cache' = [cache EXCEPT ![t] = Nothing]
  BY DEF ClaimWrites
<1>4. \A x \in Slot : cache'[t][x] = Absent
  BY <1>1, <1>3 DEF Nothing
<1>5. /\ item[t] < Len(Items[t]) =>
           /\ item' = [item EXCEPT ![t] = item[t] + 1]
           /\ target' = [target EXCEPT ![t] = Items[t][item[t] + 1]]
           /\ pc' = [pc EXCEPT ![t] = "load"]
      /\ item[t] = Len(Items[t]) =>
           pc' = [pc EXCEPT ![t] = "commit"] /\ item' = item /\ target' = target
  BY <1>1 DEF ClaimWrites
<1>6. item[t] < Len(Items[t]) \/ item[t] = Len(Items[t])
  BY <1>1
<1>7. /\ written' = [written EXCEPT ![t] = written'[t]]
      /\ written' \in [Txn -> [Slot -> Row \cup {Absent}]]
      /\ Hard(written'[t][Own(t)])
      /\ \A x \in Slot : x # Own(t) /\ x \notin Relatives(Own(t)) => written'[t][x] = written[t][x]
  BY ClaimWritten
<1>8. /\ lock[Own(t)] = t
      /\ Free(cache[t][Own(t)])
      /\ \A x \in Relatives(Own(t)) : lock[x] = t /\ cache[t][x] # Absent /\ ~ Hard(cache[t][x])
  BY <1>1 DEF ClaimControl, OwnPassed, Checked
<1>9. TypeOK'
  <2>1. \A x \in Slot : written'[t][x] # Absent => lock'[x] = t
    BY <1>1, <1>3, <1>7, <1>8 DEF TypeOK
  <2>2. cache' \in [Txn -> [Slot -> Row \cup {Absent}]]
    BY <1>1, <1>3 DEF Nothing
  <2>a. /\ table' \in [Slot -> Row \cup {Absent}]
        /\ lock' \in [Slot -> Txn \cup {None}]
        /\ todo' \in [Txn -> SUBSET Slot]
    BY <1>1, <1>3
  <2>3. CASE item[t] < Len(Items[t])
    <3>1. item[t] + 1 \in 1..Len(Items[t]) /\ item[t] + 1 \in Nat
      BY <1>1, <2>3
    <3>2. /\ item' \in [Txn -> Nat] /\ item'[t] \in 1..Len(Items[t])
          /\ target' \in [Txn -> Slot]
          /\ pc' \in [Txn -> {"find", "siblings", "load", "insert", "lock", "check", "write",
                              "commit", "committed", "failed"}]
      BY <1>1, <1>5, <2>3, <3>1
    <3> QED
      BY <1>7, <2>1, <2>2, <2>a, <3>2, TypeKept
  <2>4. CASE item[t] = Len(Items[t])
    <3>1. pc' \in [Txn -> {"find", "siblings", "load", "insert", "lock", "check", "write",
                           "commit", "committed", "failed"}]
      BY <1>1, <1>5, <2>4
    <3>2. /\ item' \in [Txn -> Nat] /\ item'[t] \in 1..Len(Items[t])
          /\ target' \in [Txn -> Slot]
      BY <1>1, <1>5, <2>4
    <3> QED
      BY <1>7, <2>1, <2>2, <2>a, <3>1, <3>2, TypeKept
  <2> QED
    BY <1>6, <2>3, <2>4
<1>10. Done(t)' = Done(t) \cup {Own(t)}
  <2>1. DoneCount(t) = item[t] - 1 /\ DoneCount(t)' = item[t]
    BY <1>1, <1>2, <1>5, <1>6 DEF DoneCount
  <2>2. 1..item[t] = 1..(item[t] - 1) \cup {item[t]}
    BY <1>1
  <2> QED
    BY <1>2, <2>1, <2>2 DEF Done, Own
<1>11. ASSUME NEW x \in Done(t) \cup {Own(t)}
       PROVE  Hard(written'[t][x]) /\ \A y \in Relatives(x) : lock[y] = t
  <2>1. CASE x = Own(t)
    BY <1>7, <1>8, <2>1
  <2>2. CASE x # Own(t)
    <3>1. /\ Hard(written[t][x])
          /\ cache[t][x] # Absent => Hard(cache[t][x])
          /\ \A y \in Relatives(x) : lock[y] = t
      BY <1>1, <2>2 DEF ClaimControl
    <3>2. x \notin Relatives(Own(t))
      BY <1>8, <3>1
    <3> QED
      BY <1>1, <1>7, <2>2, <3>1, <3>2
  <2> QED
    BY <2>1, <2>2
<1>12. \/ pc'[t] = "load" /\ target'[t] = Own(t)'
       \/ pc'[t] = "commit" /\ target'[t] = target[t] /\ Own(t)' = Own(t)
  BY <1>1, <1>2, <1>5, <1>6 DEF Own
<1>13. target'[t] = Own(t)' \/ target'[t] \in Relatives(Own(t)')
  BY <1>1, <1>12 DEF ClaimControl, Ended
<1>14. ~ InRelatives(t)' /\ ~ OwnPassed(t)'
  BY <1>12 DEF InRelatives, OwnPassed
<1>15. ClaimControl(t)'
  <2>1. \A x \in Done(t)' : /\ Hard(written'[t][x])
                            /\ cache'[t][x] # Absent => Hard(cache'[t][x])
                            /\ \A y \in Relatives(x) : lock'[y] = t
    BY <1>1, <1>3, <1>4, <1>10, <1>11
  <2>2. pc'[t] \in {"load", "commit"}
    BY <1>12
  <2> QED
    BY <1>4, <1>13, <1>14, <2>1, <2>2 DEF ClaimControl
<1> QED
  BY <1>1, <1>2, <1>4, <1>9, <1>15 DEF ControlOf, Loaded

\* The rows that a hold writes.
LEMMA HoldWritten ==
    ASSUME CInv, NEW t \in Txn, Kind[t] = "hold", pc[t] = "check",
           Holdable(cache[t], Requested(t)), Flush(t, Hold(cache[t], Requested(t), t))
    PROVE  /\ written' = [written EXCEPT ![t] = written'[t]]
           /\ written' \in [Txn -> [Slot -> Row \cup {Absent}]]
           /\ \A x \in Slot : x \notin Requested(t) => written'[t][x] = written[t][x]
           /\ \A x \in Requested(t) : /\ cache[t][x] = FreeRow
                                      /\ Hard(written'[t][x])
                                      /\ lock[x] = t
<1> DEFINE S == Requested(t)
           new == Hold(cache[t], S, t)
<1>1. /\ HoldControl(t) /\ S \subseteq Slot
      /\ \A x \in Slot : cache[t][x] \in Row \cup {Absent}
      /\ Absent \notin Row /\ FreeRow \in Row /\ Flush(t, new)
  BY Here DEF ControlOf
<1>2. \A x \in S : cache[t][x] = FreeRow /\ lock[x] = t
  BY <1>1 DEF Holdable, HoldControl
<1>3. /\ \A x \in S : new[x] = HeldRow(FreeRow, t)
      /\ \A x \in Slot : x \notin S => new[x] = cache[t][x]
  <2> HIDE DEF S
  <2>1. new = [x \in Slot |-> IF x \in S THEN HeldRow(cache[t][x], t) ELSE cache[t][x]]
    BY Zenon DEF Hold, HeldRow
  <2> HIDE DEF new
  <2> QED
    BY <1>1, <1>2, <2>1
<1> HIDE DEF new, S
<1>4. /\ HeldRow(FreeRow, t) \in Row /\ HeldRow(FreeRow, t).estado = "SOFT_HOLD"
      /\ FreeRow.estado = "AVAILABLE"
  BY <1>1, ChangedRow DEF FreeRow
<1>5. \A x \in Slot : new[x] # cache[t][x] => cache[t][x] # Absent /\ new[x] \in Row
  BY <1>1, <1>2, <1>3, <1>4
<1>6. /\ written' = [written EXCEPT ![t] = written'[t]]
      /\ written' \in [Txn -> [Slot -> Row \cup {Absent}]]
      /\ \A x \in Slot :
           /\ new[x] = cache[t][x] => written'[t][x] = written[t][x]
           /\ new[x] # cache[t][x] =>
                /\ written'[t][x] \in Row /\ written'[t][x] # Absent
                /\ written'[t][x].estado =
                     IF new[x].estado # cache[t][x].estado THEN new[x].estado
                     ELSE Visible(t, x).estado
  BY <1>1, <1>5, FlushOf
<1>7. ASSUME NEW x \in S
      PROVE  Hard(written'[t][x])
  <2>1. x \in Slot /\ new[x].estado = "SOFT_HOLD" /\ cache[t][x].estado = "AVAILABLE"
    BY <1>1, <1>2, <1>3, <1>4
  <2>2. new[x] # cache[t][x]
    BY <2>1
  <2>3. written'[t][x] # Absent /\ written'[t][x].estado = "SOFT_HOLD"
    BY <1>6, <2>1, <2>2
  <2> QED
    BY <2>3 DEF Hard, HardBlockStatuses
<1> QED
  BY <1>1, <1>2, <1>3, <1>6, <1>7 DEF S

\* A hold that has written.
LEMMA HoldWritesKeeps ==
    ASSUME CInv, NEW t \in Txn, Step(t), HoldChecksAndWrites(t)
    PROVE  TypeOK' /\ ControlOf(t)'
<1>1. request' = request /\ Kind' = Kind
  BY HereNext
<1>2. CASE Rollback(t)
  BY <1>1, <1>2, RollbackKeeps
<1>3. CASE ~ Rollback(t)
  <2> USE Here
  <2>1. /\ Kind[t] = "hold" /\ pc[t] = "check"
        /\ Holdable(cache[t], Requested(t)) /\ Flush(t, Hold(cache[t], Requested(t), t))
        /\ pc' = [pc EXCEPT ![t] = "commit"]
        /\ UNCHANGED <<table, lock, item, target, todo, cache>>
    BY <1>3 DEF HoldChecksAndWrites
  <2>2. /\ written' \in [Txn -> [Slot -> Row \cup {Absent}]]
        /\ \A x \in Slot : x \notin Requested(t) => written'[t][x] = written[t][x]
        /\ \A x \in Requested(t) : Hard(written'[t][x]) /\ lock[x] = t
    BY <2>1, HoldWritten
  <2>3. TypeOK'
    <3>1. \A x \in Slot : written'[t][x] # Absent => lock'[x] = t
      BY <2>1, <2>2 DEF TypeOK
    <3>2. pc' \in [Txn -> {"find", "siblings", "load", "insert", "lock", "check", "write",
                           "commit", "committed", "failed"}]
      BY <2>1
    <3> QED
      BY <2>1, <2>2, <3>1, <3>2, TypeKept
  <2>4. HoldControl(t)'
    BY <2>1 DEF HoldControl
  <2>5. Loaded(t)'
    BY <2>1, <2>2 DEF ControlOf, Loaded, Visible, Hard
  <2> QED
    BY <1>1, <2>1, <2>3, <2>4, <2>5 DEF ControlOf
<1> QED
  BY <1>2, <1>3

-----------------------------------------------------------------------------
(* Releases.                                                               *)

\* The row of a release.
LEMMA ReleaseFindsKeeps ==
    ASSUME CInv, NEW t \in Txn, Step(t), ReleaseFinds(t)
    PROVE  TypeOK' /\ ControlOf(t)'
<1> USE Here
<1>1. Kind' = Kind /\ Own(t)' = Own(t)
  BY HereNext DEF ReleaseFinds
<1>2. /\ pc[t] = "find" /\ UNCHANGED <<table, lock, item, target, todo, written>>
      /\ \/ /\ table[Own(t)] # Absent
            /\ cache' = [cache EXCEPT ![t][Own(t)] = table[Own(t)]]
            /\ pc' = [pc EXCEPT ![t] = "siblings"]
         \/ pc' = [pc EXCEPT ![t] = "commit"] /\ cache' = cache
  BY DEF ReleaseFinds
<1>3. Kind[t] = "release"
  BY <1>2 DEF ControlOf, ClaimControl, HoldControl
<1>4. ReleaseControl(t) /\ Loaded(t)
  BY <1>3 DEF ControlOf
<1>5. TypeOK'
  <2>1. \A x \in Slot : written'[t][x] # Absent => lock'[x] = t
    BY <1>2 DEF TypeOK
  <2>2. pc' \in [Txn -> {"find", "siblings", "load", "insert", "lock", "check", "write",
                         "commit", "committed", "failed"}]
    BY <1>2
  <2>3. cache' \in [Txn -> [Slot -> Row \cup {Absent}]]
    <3>1. PICK row \in Row \cup {Absent}, o \in Slot : row = table[Own(t)] /\ o = Own(t)
      OBVIOUS
    <3>2. cache' = [cache EXCEPT ![t][o] = row] \/ cache' = cache
      BY <1>2, <3>1
    <3>3. /\ cache \in [Txn -> [Slot -> Row \cup {Absent}]]
          /\ [cache[t] EXCEPT ![o] = row] \in [Slot -> Row \cup {Absent}]
      OBVIOUS
    <3> HIDE Here
    <3> QED
      BY <3>2, <3>3
  <2> QED
    BY <1>2, <2>1, <2>2, <2>3, TypeKept
<1>6. /\ \/ pc'[t] = "commit" /\ cache' = cache
         \/ pc'[t] = "siblings" /\ cache'[t][Own(t)] # Absent
      /\ \A x \in Slot : x # Own(t) => cache'[t][x] = cache[t][x]
      /\ cache'[t][Own(t)] # Absent => cache[t][Own(t)] # Absent \/ table[Own(t)] # Absent
  BY <1>2
<1>7. ReleaseControl(t)'
  BY <1>1, <1>2, <1>4, <1>6 DEF ReleaseControl
<1>8. Loaded(t)'
  BY <1>2, <1>4, <1>6 DEF Loaded, Visible
<1> QED
  BY <1>1, <1>3, <1>5, <1>7, <1>8 DEF ControlOf

\* A release that turns to one of the relatives in rest.
LEMMA ReleaseTurnsKeeps ==
    ASSUME CInv, NEW t \in Txn, Step(t), Kind[t] = "release",
           pc[t] \in {"siblings", "check"},
           NEW rest, rest \subseteq Relatives(Own(t)), Turn(t, rest, "load", "write"),
           UNCHANGED <<table, lock, item, cache, written>>
    PROVE  TypeOK' /\ ControlOf(t)'
<1>1. /\ ReleaseControl(t) /\ Loaded(t) /\ target[t] \in Slot
      /\ Relatives(Own(t)) \subseteq Slot /\ rest \in SUBSET Slot
  BY Here DEF ControlOf
<1>2. Kind' = Kind /\ Own(t)' = Own(t)
  BY HereNext
<1>3. TypeOK'
  BY <1>1, TurnType
<1>4. /\ rest = {} => pc'[t] = "write"
      /\ rest # {} => /\ pc'[t] = "load" /\ target'[t] \in rest
                      /\ todo'[t] = rest \ {target'[t]}
  <2>1. /\ rest # {} => /\ target'[t] \in rest
                        /\ todo' = [todo EXCEPT ![t] = rest \ {target'[t]}]
        /\ pc'[t] = IF rest = {} THEN "write" ELSE "load"
    BY <1>1, TurnNext
  <2>2. todo \in [Txn -> SUBSET Slot]
    BY Here
  <2> QED
    BY <2>1, <2>2
<1>5. Loaded(t)'
  BY <1>1 DEF Loaded, Visible
<1>6. ReleaseControl(t)'
  BY <1>1, <1>2, <1>4 DEF ReleaseControl
<1> QED
  BY <1>2, <1>3, <1>5, <1>6 DEF ControlOf

\* The rows that a release writes.
LEMMA ReleaseWritten ==
    ASSUME CInv, NEW t \in Txn, ReleaseWrites(t)
    PROVE  /\ written' = [written EXCEPT ![t] = written'[t]]
           /\ written' \in [Txn -> [Slot -> Row \cup {Absent}]]
           /\ \A x \in Slot : \/ written'[t][x] = written[t][x]
                              \/ x = Own(t)
                              \/ /\ x \in Relatives(Own(t)) /\ lock[x] = t
                                 /\ cache[t][x] # Absent
                                 /\ cache[t][x].estado \in {"BLOCKED_BY_CHILD", "BLOCKED_BY_PARENT"}
           /\ \A x \in Slot : written[t][x] # Absent => written'[t][x] # Absent
<1> DEFINE s == Own(t)
           shadow == IF HasParent(s) THEN "BLOCKED_BY_CHILD" ELSE "BLOCKED_BY_PARENT"
           new == [u \in Slot |->
              IF u = s
              THEN [cache[t][s] EXCEPT !.estado = "AVAILABLE", !.reservation_id = None]
              ELSE IF /\ cache[t][u] # Absent
                      /\ cache[t][u].estado = shadow
                      /\ cache[t][u].reservation_id = None
              THEN [cache[t][u] EXCEPT !.estado = "AVAILABLE"]
              ELSE cache[t][u]]
<1>1. /\ ReleaseControl(t) /\ s \in Slot
      /\ \A x \in Slot : cache[t][x] \in Row \cup {Absent}
      /\ Kind[t] = "release" /\ pc[t] = "write" /\ Flush(t, new)
  BY Here DEF ControlOf, ReleaseWrites
<1>2. cache[t][s] # Absent
  BY <1>1 DEF ReleaseControl
<1>3. /\ new[s] = ReleasedRow(cache[t][s])
      /\ \A x \in Slot : x # s =>
            \/ new[x] = cache[t][x]
            \/ /\ cache[t][x] # Absent /\ cache[t][x].estado = shadow
               /\ new[x] = ClearedRow(cache[t][x])
  BY <1>1 DEF ReleasedRow, ClearedRow
<1> HIDE DEF new
<1>4. \A x \in Slot : new[x] # cache[t][x] => cache[t][x] # Absent /\ new[x] \in Row
  BY <1>1, <1>2, <1>3, ChangedRow
<1>5. /\ written' = [written EXCEPT ![t] = written'[t]]
      /\ written' \in [Txn -> [Slot -> Row \cup {Absent}]]
      /\ \A x \in Slot :
           /\ new[x] = cache[t][x] => written'[t][x] = written[t][x]
           /\ new[x] # cache[t][x] => written'[t][x] # Absent
  BY <1>1, <1>4, FlushOf
<1>6. ASSUME NEW x \in Slot, written'[t][x] # written[t][x], x # s
      PROVE  /\ x \in Relatives(s) /\ lock[x] = t
             /\ cache[t][x] # Absent
             /\ cache[t][x].estado \in {"BLOCKED_BY_CHILD", "BLOCKED_BY_PARENT"}
  <2>1. cache[t][x] # Absent /\ cache[t][x].estado = shadow
    BY <1>3, <1>5, <1>6
  <2>2. x \in Relatives(s) /\ lock[x] = t
    BY <1>1, <1>6, <2>1 DEF ReleaseControl
  <2> QED
    BY <2>1, <2>2
<1> QED
  BY <1>5, <1>6

\* A release that has written.
LEMMA ReleaseWritesKeeps ==
    ASSUME CInv, NEW t \in Txn, Step(t), ReleaseWrites(t)
    PROVE  TypeOK' /\ ControlOf(t)'
<1> USE Here
<1>1. Kind' = Kind /\ Own(t)' = Own(t)
  BY HereNext DEF ReleaseWrites
<1>2. /\ Kind[t] = "release" /\ pc[t] = "write" /\ lock' = [lock EXCEPT ![Own(t)] = t]
      /\ pc' = [pc EXCEPT ![t] = "commit"]
      /\ UNCHANGED <<table, item, target, todo, cache>>
  BY DEF ReleaseWrites
<1>3. /\ written' \in [Txn -> [Slot -> Row \cup {Absent}]]
      /\ \A x \in Slot : \/ written'[t][x] = written[t][x]
                         \/ x = Own(t)
                         \/ x \in Relatives(Own(t)) /\ lock[x] = t
      /\ \A x \in Slot : written[t][x] # Absent => written'[t][x] # Absent
  BY ReleaseWritten
<1>4. ReleaseControl(t) /\ Loaded(t)
  BY <1>2 DEF ControlOf
<1>5. TypeOK'
  <2>1. \A x \in Slot : written'[t][x] # Absent => lock'[x] = t
    BY <1>2, <1>3 DEF TypeOK
  <2>2. /\ pc' \in [Txn -> {"find", "siblings", "load", "insert", "lock", "check", "write",
                            "commit", "committed", "failed"}]
        /\ lock' \in [Slot -> Txn \cup {None}]
    BY <1>2
  <2> QED
    BY <1>2, <1>3, <2>1, <2>2, TypeKept
<1>6. pc'[t] = "commit" /\ \A x \in Slot : lock[x] = t => lock'[x] = t
  BY <1>2
<1>7. ReleaseControl(t)'
  BY <1>1, <1>2, <1>3, <1>4, <1>6 DEF ReleaseControl
<1>8. Loaded(t)'
  BY <1>2, <1>3, <1>4 DEF Loaded, Visible
<1> QED
  BY <1>1, <1>2, <1>5, <1>7, <1>8 DEF ControlOf

-----------------------------------------------------------------------------
(* Types, and where each transaction is, in every reachable state.         *)

\* Each step keeps what is known of every transaction.
LEMMA StepKeepsControl ==
    ASSUME CInv, NEW t \in Txn, Step(t)
    PROVE  CInv'
<1>1. TypeOK' /\ ControlOf(t)'
  <2>1. ASSUME ReleaseFindsSiblings(t) PROVE TypeOK' /\ ControlOf(t)'
    <3>1. pc[t] = "siblings" /\ UNCHANGED <<table, lock, item, cache, written>>
      BY <2>1 DEF ReleaseFindsSiblings
    <3>2. Kind[t] = "release"
      BY <3>1, Here DEF ControlOf, ClaimControl, HoldControl
    <3>3. PICK rest : rest \subseteq Relatives(Own(t)) /\ Turn(t, rest, "load", "write")
      BY <2>1 DEF ReleaseFindsSiblings, Relatives
    <3> QED
      BY <3>1, <3>2, <3>3, ReleaseTurnsKeeps
  <2>2. ASSUME ReleaseTurns(t) PROVE TypeOK' /\ ControlOf(t)'
    <3>1. /\ Kind[t] = "release" /\ pc[t] = "check" /\ Turn(t, todo[t], "load", "write")
          /\ UNCHANGED <<table, lock, item, cache, written>>
      BY <2>2 DEF ReleaseTurns
    <3>2. todo[t] \subseteq Relatives(Own(t))
      BY <3>1, Here DEF ControlOf, ReleaseControl
    <3> QED
      BY <3>1, <3>2, ReleaseTurnsKeeps
  <2>3. ASSUME DeadlockAbort(t) PROVE TypeOK' /\ ControlOf(t)'
    BY <2>3, RollbackKeeps, HereNext DEF DeadlockAbort
  <2> QED
    BY <2>1, <2>2, <2>3, LoadKeeps, InsertKeeps, LockKeeps, ClaimChecksOwnKeeps,
       ClaimChecksRelativeKeeps, ClaimWritesKeeps, HoldWritesKeeps, ReleaseFindsKeeps,
       ReleaseWritesKeeps, CommitKeeps DEF Step
<1> QED
  BY <1>1, HereNext DEF CInv

\* It holds at the start.
LEMMA InitControl ==
    ASSUME Init
    PROVE  CInv
<1>1. /\ request \in Requests
      /\ Kind \in [Txn -> {"claim", "hold", "release"}]
      /\ Start \in [Slot -> Row \cup {Absent}]
      /\ \A t \in Txn : Items[t] \in Seq(Slot) /\ Items[t] # <<>>
  BY SlotClaimAssumption DEF Init, Kind, Items, Start
<1>2. \A t \in Txn : /\ Len(Items[t]) \in Nat /\ 1 \in 1..Len(Items[t]) /\ Items[t][1] \in Slot
  <2>1. ASSUME NEW t \in Txn
        PROVE  Len(Items[t]) \in Nat /\ 1 \in 1..Len(Items[t]) /\ Items[t][1] \in Slot
    <3>1. Items[t] \in Seq(Slot) /\ Items[t] # <<>>
      BY <1>1
    <3> QED
      BY <3>1
  <2> QED
    BY <2>1
<1>3. Nothing \in [Slot -> Row \cup {Absent}]
  BY DEF Nothing
<1>4. TypeOK
  BY <1>1, <1>2, <1>3 DEF Init, TypeOK, Nothing
<1>5. ASSUME NEW t \in Txn
      PROVE  ControlOf(t)
  <2>1. /\ pc[t] = IF Kind[t] = "release" THEN "find" ELSE "load"
        /\ item[t] = 1 /\ target[t] = Own(t)
        /\ \A x \in Slot : cache[t][x] = Absent /\ written[t][x] = Absent
    BY <1>2 DEF Init, Own, Nothing
  <2>2. Own(t) \in Slot
    BY <1>2, <2>1 DEF Own
  <2>3. Done(t) = {}
    BY <2>1 DEF Done, DoneCount
  <2>4. Kind[t] = "claim" => ClaimControl(t)
    BY <2>1, <2>2, <2>3 DEF ClaimControl, InRelatives, OwnPassed
  <2>5. Kind[t] = "hold" => HoldControl(t)
    BY <2>1 DEF HoldControl
  <2>6. Kind[t] = "release" => ReleaseControl(t)
    BY <2>1 DEF ReleaseControl
  <2> QED
    BY <2>1, <2>4, <2>5, <2>6 DEF ControlOf, Loaded
<1> QED
  BY <1>4, <1>5 DEF CInv

\* A transaction that does nothing changes nothing.
LEMMA StutterKeepsControl ==
    ASSUME CInv, UNCHANGED vars
    PROVE  CInv'
<1>1. \A t \in Txn : /\ Own(t)' = Own(t) /\ Ended(t)' = Ended(t) /\ Requested(t)' = Requested(t)
                     /\ InRelatives(t)' = InRelatives(t) /\ OwnPassed(t)' = OwnPassed(t)
                     /\ Checked(t)' = Checked(t) /\ Done(t)' = Done(t)
  BY DEF vars, Own, Ended, Requested, InRelatives, OwnPassed, Checked, Done, DoneCount, Kind, Items
<1>2. \A t \in Txn : ControlOf(t)'
  BY <1>1 DEF CInv, vars, ControlOf, ClaimControl, HoldControl, ReleaseControl, Loaded, Visible,
              Kind, Items
<1> QED
  BY <1>2 DEF CInv, TypeOK, vars, Items

\* The session, the locks and the program counters fit together.
THEOREM ControlAlways == Spec => []CInv
<1>1. ASSUME CInv, [Next]_vars PROVE CInv'
  BY <1>1, StepKeepsControl, StutterKeepsControl DEF Next, Terminating
<1> QED
  BY <1>1, InitControl, PTL DEF Spec

\* Every reachable state of the table, the locks and the sessions is well
\* typed, and a row that was written and not committed is locked by its writer.
THEOREM TypeCorrect == Spec => []TypeOK
<1>1. CInv => TypeOK
  BY DEF CInv
<1> QED
  BY <1>1, ControlAlways, PTL

-----------------------------------------------------------------------------
(* What a step does to rows, whatever statement it is.                     *)

\* A step that locks, checks or turns.
Quiet(t) ==
    /\ pc[t] \in {"lock", "check", "siblings"}
    /\ pc'[t] \in {"load", "lock", "check", "write"}
    /\ UNCHANGED <<table, item, cache, written>>

Loads(t, s) ==
    /\ s = target[t] /\ pc[t] = "load" /\ pc'[t] \notin {"commit", "committed", "failed"}
    /\ table' = table /\ written' = written
    /\ Kind[t] # "hold" => item' = item /\ pc'[t] \in {"insert", "lock"} /\ target' = target
    /\ cache'[t][s] = IF cache[t][s] = Absent THEN Visible(t, s) ELSE cache[t][s]
    /\ \A x \in Slot : x # s => cache'[t][x] = cache[t][x]

Inserts(t, s) ==
    /\ s = target[t] /\ pc[t] = "insert" /\ pc'[t] \notin {"commit", "committed", "failed"}
    /\ table' = table /\ table[s] = Absent
    /\ Kind[t] # "hold" => item' = item /\ pc'[t] = "lock" /\ target' = target
    /\ cache[t][s] = Absent /\ cache'[t][s] = FreeRow
    /\ written[t][s] = Absent /\ written'[t][s] = FreeRow
    /\ \A x \in Slot : x # s => cache'[t][x] = cache[t][x] /\ written'[t][x] = written[t][x]

HoldWrites(t) ==
    /\ Kind[t] = "hold" /\ pc[t] = "check" /\ pc'[t] = "commit"
    /\ Holdable(cache[t], Requested(t)) /\ Flush(t, Hold(cache[t], Requested(t), t))
    /\ UNCHANGED <<table, item, cache>>

\* A committed or failed transaction takes no step.
LEMMA StepsAreLive ==
    ASSUME NEW t \in Txn, Step(t)
    PROVE  ~ Ended(t)
<1>1. ASSUME DeadlockAbort(t), Ended(t)
      PROVE  FALSE
  <2>1. PICK C \in SUBSET Txn : t \in C /\ WaitCycle(C)
    BY <1>1 DEF DeadlockAbort
  <2>2. Awaited(t) = None
    <3>1. pc[t] # "insert" /\ pc[t] # "lock" /\ pc[t] # "write"
      BY <1>1 DEF Ended
    <3> QED
      BY <3>1, Zenon DEF Awaited
  <2>3. Awaited(t) \in C
    BY <2>1 DEF WaitCycle
  <2> QED
    BY <2>2, <2>3, SlotsAssumption, SlotClaimAssumption
<1>2. ASSUME ~ DeadlockAbort(t)
      PROVE  pc[t] \in {"find", "siblings", "load", "insert", "lock", "check", "write", "commit"}
  BY <1>2 DEF Step, Load, Insert, Lock, ClaimChecksOwn, ClaimChecksRelative, ClaimWrites,
     HoldChecksAndWrites, ReleaseFinds, ReleaseFindsSiblings, ReleaseTurns, ReleaseWrites, Commit
<1> QED
  BY <1>1, <1>2 DEF Ended

\* The kinds of steps.
LEMMA StepKinds ==
    ASSUME CInv, NEW t \in Txn, Step(t)
    PROVE  \/ Quiet(t) \/ Rollback(t)
           \/ \E s \in Slot : Loads(t, s) \/ Inserts(t, s)
           \/ ClaimWrites(t) \/ HoldWrites(t)
           \/ ReleaseFinds(t) \/ ReleaseWrites(t) \/ Commit(t)
<1> USE Here
<1>1. ASSUME Load(t)
      PROVE  Loads(t, target[t])
  <2>1. PICK s \in Slot : s = target[t]
    OBVIOUS
  <2>2. pc[t] = "load" /\ table' = table /\ written' = written
    BY <1>1 DEF Load
  <2>3. CASE Visible(t, s) = Absent
    <3>1. pc' = [pc EXCEPT ![t] = "insert"] /\ item' = item /\ target' = target /\ cache' = cache
      BY <1>1, <2>1, <2>3 DEF Load
    <3>2. cache[t][s] = Absent
      BY <2>3 DEF ControlOf, Loaded
    <3> QED
      BY <2>1, <2>2, <2>3, <3>1, <3>2 DEF Loads
  <2>4. CASE Visible(t, s) # Absent
    <3>1. /\ cache' = [cache EXCEPT ![t][s] = IF cache[t][s] = Absent THEN Visible(t, s)
                                                                      ELSE cache[t][s]]
          /\ Got(t)
      BY <1>1, <2>1, <2>4 DEF Load
    <3>2. /\ Kind[t] # "hold" => item' = item /\ pc'[t] = "lock" /\ target' = target
          /\ pc'[t] \in {"lock", "load"}
      BY <3>1, GotStatement
    <3>3. /\ cache'[t][s] = IF cache[t][s] = Absent THEN Visible(t, s) ELSE cache[t][s]
          /\ \A x \in Slot : x # s => cache'[t][x] = cache[t][x]
      BY <3>1
    <3> QED
      BY <2>1, <2>2, <3>2, <3>3 DEF Loads
  <2> QED
    BY <2>3, <2>4
<1>2. ASSUME Insert(t), ~ Rollback(t)
      PROVE  Inserts(t, target[t])
  <2>1. PICK s \in Slot : s = target[t]
    OBVIOUS
  <2>2. /\ pc[t] = "insert" /\ lock[s] = None /\ table[s] = Absent
        /\ written' = [written EXCEPT ![t][s] = FreeRow]
        /\ cache' = [cache EXCEPT ![t][s] = FreeRow]
        /\ Got(t)
        /\ table' = table
    BY <1>2, <2>1 DEF Insert
  <2>3. written[t][s] = Absent
    BY <2>2 DEF TypeOK
  <2>4. cache[t][s] = Absent
    BY <2>2, <2>3 DEF ControlOf, Loaded, Visible
  <2>5. /\ Kind[t] # "hold" => item' = item /\ pc'[t] = "lock" /\ target' = target
        /\ pc'[t] \in {"lock", "load"}
    BY <2>2, GotStatement
  <2>6. /\ written'[t][s] = FreeRow /\ cache'[t][s] = FreeRow
        /\ \A x \in Slot : x # s => cache'[t][x] = cache[t][x] /\ written'[t][x] = written[t][x]
    BY <2>2
  <2> QED
    BY <2>1, <2>2, <2>3, <2>4, <2>5, <2>6 DEF Inserts
<1>3. ASSUME Lock(t)
      PROVE  Quiet(t)
  <2>1. pc[t] = "lock" /\ UNCHANGED <<table, item, cache, written>>
    BY <1>3 DEF Lock
  <2>2. pc'[t] \in {"lock", "check"}
    <3>1. CASE Kind[t] = "hold"
      <4>1. Turn(t, todo[t], "lock", "check") /\ todo[t] \in SUBSET Slot
        BY <1>3, <3>1 DEF Lock
      <4>2. pc'[t] = IF todo[t] = {} THEN "check" ELSE "lock"
        <5> HIDE Here
        <5> QED
          BY <4>1, TurnNext
      <4> QED
        BY <4>2
    <3>2. CASE Kind[t] # "hold"
      BY <1>3, <3>2 DEF Lock
    <3> QED
      BY <3>1, <3>2
  <2> QED
    BY <2>1, <2>2 DEF Quiet
<1>4. ASSUME NEW rest \in SUBSET Slot, Turn(t, rest, "load", "write"),
             pc[t] \in {"check", "siblings"}, UNCHANGED <<table, item, cache, written>>
      PROVE  Quiet(t)
  <2>1. pc'[t] = IF rest = {} THEN "write" ELSE "load"
    <3> HIDE Here
    <3> QED
      BY <1>4, TurnNext
  <2> QED
    BY <1>4, <2>1 DEF Quiet
<1>5. ASSUME ClaimChecksOwn(t) \/ ClaimChecksRelative(t) \/ ReleaseTurns(t), ~ Rollback(t)
      PROVE  Quiet(t)
  <2>1. PICK rest \in {Relatives(Own(t)), todo[t]} :
            /\ Turn(t, rest, "load", "write")
            /\ pc[t] = "check" /\ UNCHANGED <<table, item, cache, written>>
    BY <1>5 DEF ClaimChecksOwn, ClaimChecksRelative, ReleaseTurns
  <2>2. rest \in SUBSET Slot
    BY <2>1
  <2> QED
    BY <1>4, <2>1, <2>2
<1>6. ASSUME ReleaseFindsSiblings(t)
      PROVE  Quiet(t)
  <2>1. PICK rest : rest \subseteq Relatives(Own(t)) /\ Turn(t, rest, "load", "write")
    BY <1>6 DEF ReleaseFindsSiblings, Relatives
  <2>2. /\ rest \in SUBSET Slot
        /\ pc[t] = "siblings" /\ UNCHANGED <<table, item, cache, written>>
    BY <1>6, <2>1 DEF ReleaseFindsSiblings
  <2> QED
    BY <1>4, <2>1, <2>2
<1>7. ASSUME HoldChecksAndWrites(t), ~ Rollback(t)
      PROVE  HoldWrites(t)
  BY <1>7 DEF HoldChecksAndWrites, HoldWrites
<1> HIDE Here
<1> QED
  BY <1>1, <1>2, <1>3, <1>5, <1>6, <1>7, Here DEF Step, DeadlockAbort

\* The items that claims have written.
LEMMA StepDone ==
    ASSUME CInv, NEW t \in Txn, Step(t)
    PROVE  /\ \A u \in Txn : u # t => Done(u)' = Done(u) /\ pc'[u] = pc[u]
           /\ pc[t] # "committed" /\ pc[t] # "failed"
           /\ (pc'[t] = "committed") <=> Commit(t)
           /\ Rollback(t) => Done(t)' = {} /\ pc'[t] = "failed"
           /\ ClaimWrites(t) => Done(t)' = Done(t) \cup {Own(t)}
           /\ ~ Rollback(t) /\ ~ ClaimWrites(t) => Done(t)' = Done(t)
<1>1. ~ Ended(t) /\ Others(t) /\ Kind' = Kind /\ Items' = Items
  BY StepsAreLive, StepFrame, HereNext DEF CInv
<1>2. \A u \in Txn : u # t => Done(u)' = Done(u) /\ pc'[u] = pc[u]
  BY <1>1, SamePlace DEF Others
<1>3. /\ pc \in [Txn -> {"find", "siblings", "load", "insert", "lock", "check", "write",
                         "commit", "committed", "failed"}]
      /\ item \in [Txn -> Nat] /\ item[t] \in 1..Len(Items[t]) /\ Len(Items[t]) \in Nat
      /\ ControlOf(t)
  BY Here, RequestType
<1>4. Rollback(t) => pc'[t] = "failed"
  BY <1>3 DEF Rollback
<1>5. Rollback(t) => Done(t)' = {}
  BY <1>4 DEF Done, DoneCount
<1>6. Commit(t) => pc[t] = "commit" /\ pc'[t] = "committed" /\ item' = item
  BY <1>3 DEF Commit
<1>7. ClaimWrites(t) =>
        /\ Kind[t] = "claim" /\ pc[t] = "write"
        /\ \/ pc'[t] = "load" /\ item'[t] = item[t] + 1
           \/ pc'[t] = "commit" /\ item[t] = Len(Items[t])
  BY <1>3 DEF ClaimWrites
<1>8. ClaimWrites(t) => Done(t)' = Done(t) \cup {Own(t)}
  <2> SUFFICES ASSUME ClaimWrites(t) PROVE Done(t)' = Done(t) \cup {Own(t)}
    OBVIOUS
  <2>1. DoneCount(t) = item[t] - 1 /\ DoneCount(t)' = item[t]
    BY <1>1, <1>3, <1>7 DEF DoneCount
  <2>2. 1..item[t] = 1..(item[t] - 1) \cup {item[t]}
    BY <1>3
  <2> QED
    BY <1>1, <2>1, <2>2 DEF Done, Own
<1>9. ASSUME ReleaseFinds(t) \/ ReleaseWrites(t)
      PROVE  Kind[t] = "release" /\ pc'[t] \notin {"committed", "failed"}
  <2>1. CASE ReleaseFinds(t)
    <3>1. pc[t] = "find" /\ pc'[t] \notin {"committed", "failed"}
      BY <1>3, <2>1 DEF ReleaseFinds
    <3>2. Kind[t] \in {"claim", "hold", "release"}
      BY Here
    <3> QED
      BY <1>3, <3>1, <3>2 DEF ControlOf, ClaimControl, HoldControl
  <2>2. CASE ReleaseWrites(t)
    BY <1>3, <2>2 DEF ReleaseWrites
  <2> QED
    BY <1>9, <2>1, <2>2
<1>10. HoldWrites(t) => Kind[t] = "hold" /\ pc'[t] \notin {"committed", "failed"}
  BY DEF HoldWrites
<1>11. ASSUME NEW s \in Slot, Loads(t, s) \/ Inserts(t, s)
       PROVE  /\ Kind[t] = "hold" \/ item' = item
              /\ pc[t] \notin {"commit", "committed", "failed"}
              /\ pc'[t] \notin {"commit", "committed", "failed"}
  BY <1>11 DEF Loads, Inserts
<1>12. Quiet(t) => /\ item' = item
                   /\ pc[t] \notin {"commit", "committed", "failed"}
                   /\ pc'[t] \notin {"commit", "committed", "failed"}
  BY DEF Quiet
<1>13. ASSUME \/ Kind[t] # "claim"
              \/ Commit(t)
              \/ /\ item' = item
                 /\ pc[t] \notin {"commit", "committed", "failed"}
                 /\ pc'[t] \notin {"commit", "committed", "failed"}
       PROVE  Done(t)' = Done(t)
  <2>1. DoneCount(t)' = DoneCount(t)
    BY <1>1, <1>6, <1>13 DEF DoneCount
  <2> QED
    BY <1>1, <2>1 DEF Done
<1>14. ~ Rollback(t) /\ ~ ClaimWrites(t) => Done(t)' = Done(t)
  BY <1>6, <1>9, <1>10, <1>11, <1>12, <1>13, StepKinds
<1>15. (pc'[t] = "committed") <=> Commit(t)
  BY <1>4, <1>6, <1>7, <1>9, <1>10, <1>11, <1>12, StepKinds
<1> QED
  BY <1>1, <1>2, <1>4, <1>5, <1>8, <1>14, <1>15 DEF Ended

\* After a commit or a roll-back a session is empty.
LEMMA SessionEnds ==
    ASSUME CInv, NEW t \in Txn, Commit(t) \/ Rollback(t)
    PROVE  \A x \in Slot : cache'[t][x] = Absent /\ written'[t][x] = Absent
<1>1. /\ cache' = [cache EXCEPT ![t] = Nothing]
      /\ written' = [written EXCEPT ![t] = Nothing]
  BY DEF Commit, Rollback
<1>2. /\ cache \in [Txn -> [Slot -> Row \cup {Absent}]]
      /\ written \in [Txn -> [Slot -> Row \cup {Absent}]]
  BY Here
<1> QED
  BY <1>1, <1>2 DEF Nothing

-----------------------------------------------------------------------------
(* Whose a row is.                                                         *)

\* The reservation of a row that was flushed.
LEMMA FlushedReservation ==
    ASSUME CInv, NEW t \in Txn, NEW new, Flush(t, new), NEW x \in Slot,
           new[x] # cache[t][x], new[x] \in Row
    PROVE  written'[t][x].reservation_id =
             IF new[x].reservation_id # cache[t][x].reservation_id THEN new[x].reservation_id
             ELSE Visible(t, x).reservation_id
<1>1. written'[t][x] = Updated(Visible(t, x), cache[t][x], new[x])
  BY Here DEF Flush
<1> QED
  BY <1>1 DEF Updated, Row

\* A step writes no reservation into a row but its own and NULL.
LEMMA ReservationWritten ==
    ASSUME CInv, NEW t \in Txn, NEW x \in Slot,
           ClaimWrites(t) \/ HoldWrites(t) \/ ReleaseWrites(t),
           written'[t][x] # written[t][x]
    PROVE  written'[t][x].reservation_id \in {None, t, Visible(t, x).reservation_id}
<1>1. ASSUME NEW new, Flush(t, new), new[x] \in Row \/ new[x] = cache[t][x],
             new[x] # cache[t][x] =>
                new[x].reservation_id \in {None, t, cache[t][x].reservation_id}
      PROVE  written'[t][x].reservation_id \in {None, t, Visible(t, x).reservation_id}
  <2>1. new[x] # cache[t][x]
    BY <1>1, Here DEF Flush
  <2> QED
    BY <1>1, <2>1, FlushedReservation
<1>2. /\ cache[t][x] \in Row \cup {Absent} /\ Absent \notin Row
      /\ Own(t) \in Slot /\ Relatives(Own(t)) \subseteq Slot /\ ControlOf(t)
  BY Here
<1>3. CASE ClaimWrites(t)
  <2>1. Flush(t, Claim(cache[t], Own(t), t)) /\ ClaimControl(t) /\ OwnPassed(t) /\ pc[t] = "write"
    BY <1>2, <1>3 DEF ClaimWrites, ControlOf, OwnPassed
  <2>2. /\ cache[t][Own(t)] # Absent
        /\ \A y \in Relatives(Own(t)) : cache[t][y] # Absent
    BY <2>1 DEF ClaimControl, Checked, Free
  <2>3. ShadowedBy(cache[t], Own(t)) \subseteq Relatives(Own(t))
    BY DEF ShadowedBy, Relatives
  <2>4. Claim(cache[t], Own(t), t)[x] =
          IF x = Own(t) THEN TakenRow(cache[t][x], t)
          ELSE IF x \in ShadowedBy(cache[t], Own(t))
          THEN ShadowedRow(cache[t][x], ShadowStatus(Own(t)))
          ELSE cache[t][x]
    BY DEF Claim, TakenRow, ShadowedRow
  <2>5. ShadowStatus(Own(t)) \in SlotStatus
    BY DEF ShadowStatus, SlotStatus
  <2>6. ASSUME Claim(cache[t], Own(t), t)[x] # cache[t][x]
        PROVE  /\ Claim(cache[t], Own(t), t)[x] \in Row
               /\ Claim(cache[t], Own(t), t)[x].reservation_id \in {None, t}
    <3>1. cache[t][x] \in Row
      BY <1>2, <2>2, <2>3, <2>4, <2>6
    <3>2. /\ TakenRow(cache[t][x], t) \in Row
          /\ TakenRow(cache[t][x], t).reservation_id = t
          /\ ShadowedRow(cache[t][x], ShadowStatus(Own(t))) \in Row
          /\ ShadowedRow(cache[t][x], ShadowStatus(Own(t))).reservation_id = None
      BY <2>5, <3>1, ChangedRow DEF TakenRow, ShadowedRow, Row
    <3> QED
      BY <2>4, <2>6, <3>2
  <2> QED
    BY <1>1, <2>1, <2>6
<1>4. CASE HoldWrites(t)
  <2>1. Flush(t, Hold(cache[t], Requested(t), t)) /\ Holdable(cache[t], Requested(t))
    BY <1>4 DEF HoldWrites
  <2>2. Hold(cache[t], Requested(t), t)[x] =
          IF x \in Requested(t) THEN HeldRow(cache[t][x], t) ELSE cache[t][x]
    BY DEF Hold, HeldRow
  <2>3. x \in Requested(t) => cache[t][x] \in Row
    BY <2>1, Here DEF Holdable
  <2>4. x \in Requested(t) => /\ HeldRow(cache[t][x], t) \in Row
                              /\ HeldRow(cache[t][x], t).reservation_id = cache[t][x].reservation_id
    BY <2>3, ChangedRow DEF HeldRow, Row
  <2> QED
    BY <1>1, <2>1, <2>2, <2>4
<1>5. CASE ReleaseWrites(t)
  <2> DEFINE s == Own(t)
             shadow == IF HasParent(s) THEN "BLOCKED_BY_CHILD" ELSE "BLOCKED_BY_PARENT"
             new == [u \in Slot |->
              IF u = s
              THEN [cache[t][s] EXCEPT !.estado = "AVAILABLE", !.reservation_id = None]
              ELSE IF /\ cache[t][u] # Absent
                      /\ cache[t][u].estado = shadow
                      /\ cache[t][u].reservation_id = None
              THEN [cache[t][u] EXCEPT !.estado = "AVAILABLE"]
              ELSE cache[t][u]]
  <2>1. Flush(t, new) /\ ReleaseControl(t) /\ pc[t] = "write"
    BY <1>2, <1>5 DEF ReleaseWrites, ControlOf
  <2>2. cache[t][s] # Absent
    BY <2>1 DEF ReleaseControl
  <2>3. \/ new[x] = cache[t][x]
        \/ x = s /\ new[x] = ReleasedRow(cache[t][x])
        \/ cache[t][x] # Absent /\ new[x] = ClearedRow(cache[t][x])
    BY DEF ReleasedRow, ClearedRow
  <2> HIDE DEF new
  <2>4. cache[t][x] # Absent =>
          /\ ReleasedRow(cache[t][x]) \in Row /\ ReleasedRow(cache[t][x]).reservation_id = None
          /\ ClearedRow(cache[t][x]) \in Row
          /\ ClearedRow(cache[t][x]).reservation_id = cache[t][x].reservation_id
    BY <1>2, ChangedRow DEF ReleasedRow, ClearedRow, Row
  <2> QED
    BY <1>1, <2>1, <2>2, <2>3, <2>4
<1> QED
  BY <1>3, <1>4, <1>5

\* A release takes the reservation out of the row it has found.
LEMMA ReleasedReservation ==
    ASSUME CInv, NEW t \in Txn, ReleaseWrites(t), cache[t][Own(t)].reservation_id # None
    PROVE  written'[t][Own(t)].reservation_id = None
<1> DEFINE s == Own(t)
           shadow == IF HasParent(s) THEN "BLOCKED_BY_CHILD" ELSE "BLOCKED_BY_PARENT"
           new == [u \in Slot |->
              IF u = s
              THEN [cache[t][s] EXCEPT !.estado = "AVAILABLE", !.reservation_id = None]
              ELSE IF /\ cache[t][u] # Absent
                      /\ cache[t][u].estado = shadow
                      /\ cache[t][u].reservation_id = None
              THEN [cache[t][u] EXCEPT !.estado = "AVAILABLE"]
              ELSE cache[t][u]]
<1>1. /\ Flush(t, new) /\ ReleaseControl(t) /\ pc[t] = "write" /\ s \in Slot
      /\ cache[t][s] \in Row \cup {Absent}
  BY Here DEF ReleaseWrites, ControlOf
<1>2. cache[t][s] \in Row
  BY <1>1 DEF ReleaseControl
<1>3. new[s] = ReleasedRow(cache[t][s])
  BY <1>1 DEF ReleasedRow
<1> HIDE DEF new
<1>4. new[s] \in Row /\ new[s].reservation_id = None
  BY <1>2, <1>3, ChangedRow DEF ReleasedRow, Row
<1> QED
  BY <1>1, <1>4, FlushedReservation

-----------------------------------------------------------------------------
(* A slot that is given up is out of reach until a release of it commits.  *)

\* The transactions that give up the slot s.
Releasing(s) == {v \in Txn : Kind[v] = "release" /\ Own(v) = s}

\* The release w gives up a slot that was booked.
GivesUp(w) == Kind[w] = "release" /\ Start[Own(w)].estado \in {"TTL_BLOCKED", "RESERVED"}

\* No request writes the reservation into the row, and releases have found it there.
OwnerOnly(w) ==
    \A v \in Txn :
        /\ written[v][Own(w)] # Absent => written[v][Own(w)].reservation_id # Owner(w)
        /\ v \in Releasing(Own(w)) /\ cache[v][Own(w)] # Absent =>
              cache[v][Own(w)].reservation_id = Owner(w)

\* No release of the slot has committed, and nobody else can get at it.
GuardedBy(w) ==
    /\ table[Own(w)] = Start[Own(w)]
    /\ \A v \in Txn \ Releasing(Own(w)) :
          written[v][Own(w)] = Absent /\ cache[v][Own(w)] \in {Absent, Start[Own(w)]}
    /\ \A v \in Txn : \A x \in Done(v) : x # Own(w) /\ x \notin Relatives(Own(w))

Gone(w) == table[Own(w)].reservation_id # Owner(w)

Guarded == \A w \in Txn : GivesUp(w) => OwnerOnly(w) /\ (GuardedBy(w) \/ Gone(w))

\* What is known of the slot of a release.
LEMMA ReleasedSlot ==
    ASSUME CInv, NEW w \in Txn, Kind[w] = "release"
    PROVE  /\ Own(w) \in Slot /\ Relatives(Own(w)) \subseteq Slot
           /\ item[w] = 1 /\ Own(w) = Items[w][1]
           /\ Start[Own(w)] # Absent
           /\ Owner(w) # None /\ Owner(w) \notin Txn
<1>1. item[w] = 1 /\ Own(w) = Items[w][1]
  BY DEF CInv, ControlOf, ReleaseControl, Own
<1>2. request \in Requests
  BY DEF CInv, TypeOK
<1>3. LET row == Start[Items[w][1]]
      IN  row # Absent /\ row.reservation_id \in Reservation \ Txn
  BY <1>2, SlotClaimAssumption DEF Kind, Items, Start
<1>4. Own(w) \in Slot /\ Relatives(Own(w)) \subseteq Slot
  BY Here
<1> QED
  BY <1>1, <1>3, <1>4, SlotsAssumption DEF Owner

\* The slot of a release, and who releases it, do not change.
LEMMA SameReleases ==
    ASSUME CInv, NEW t \in Txn, Step(t)
    PROVE  /\ Kind' = Kind /\ Start' = Start /\ Others(t)
           /\ \A w \in Txn : Kind[w] = "release" =>
                 /\ Own(w)' = Own(w) /\ Owner(w)' = Owner(w)
                 /\ (GivesUp(w)' <=> GivesUp(w))
           /\ \A s \in Slot : Releasing(s)' = Releasing(s)
<1>1. Others(t) /\ Start' = Start /\ Items' = Items /\ Kind' = Kind /\ CInv'
  BY StepFrame, HereNext, SameRequest, StepKeepsControl DEF CInv
<1>2. ASSUME NEW w \in Txn, Kind[w] = "release"
      PROVE  Own(w)' = Own(w)
  <2>1. item[w] = 1 /\ item'[w] = 1
    BY <1>1, <1>2 DEF CInv, ControlOf, ReleaseControl
  <2> QED
    BY <1>1, <2>1 DEF Own
<1>3. \A w \in Txn : Kind[w] = "release" => Owner(w)' = Owner(w) /\ (GivesUp(w)' <=> GivesUp(w))
  BY <1>1, <1>2 DEF Owner, GivesUp
<1>4. \A s \in Slot : Releasing(s)' = Releasing(s)
  BY <1>1, <1>2 DEF Releasing
<1> QED
  BY <1>1, <1>2, <1>3, <1>4

\* A request that does not release it cannot book it, nor one of its relatives.
LEMMA GuardHolds ==
    ASSUME CInv, NEW t \in Txn, Step(t), NEW w \in Txn, GivesUp(w), GuardedBy(w),
           t \notin Releasing(Own(w))
    PROVE  GuardedBy(w)'
<1>1. /\ Others(t) /\ Start' = Start /\ Own(w)' = Own(w)
      /\ Releasing(Own(w))' = Releasing(Own(w))
  BY SameReleases, ReleasedSlot DEF GivesUp
<1> DEFINE o == Own(w)
<1>2. /\ o \in Slot /\ Start[o] # Absent
      /\ Start[o].estado \in {"TTL_BLOCKED", "RESERVED"}
      /\ Hard(Start[o]) /\ ~ Free(Start[o])
      /\ Kind[t] = "release" => Own(t) # o
  BY ReleasedSlot DEF GivesUp, Releasing, Hard, Free, HardBlockStatuses
<1>3. /\ table[o] = Start[o]
      /\ \A v \in Txn \ Releasing(o) : written[v][o] = Absent /\ cache[v][o] \in {Absent, Start[o]}
      /\ \A v \in Txn : \A x \in Done(v) : x # o /\ x \notin Relatives(o)
      /\ t \in Txn \ Releasing(o)
  BY DEF GuardedBy
<1> HIDE DEF o
<1>4. written[t][o] = Absent /\ (cache[t][o] = Absent \/ cache[t][o] = Start[o])
  BY <1>3
<1>5. table'[o] = table[o]
  <2>1. table'[o] = table[o] \/ table'[o] = Visible(t, o)
    BY <1>2, StepFrame DEF CInv
  <2> QED
    BY <1>4, <2>1 DEF Visible
<1>6. ASSUME ClaimWrites(t)
      PROVE  Own(t) # o /\ o \notin Relatives(Own(t))
  <2>1. ClaimControl(t) /\ Kind[t] = "claim" /\ pc[t] = "write"
    BY <1>6 DEF ClaimWrites, CInv, ControlOf
  <2>2. Free(cache[t][Own(t)])
    BY <2>1 DEF ClaimControl, OwnPassed
  <2>3. \A x \in Relatives(Own(t)) : cache[t][x] # Absent /\ ~ Hard(cache[t][x])
    BY <2>1 DEF ClaimControl, OwnPassed, Checked
  <2> QED
    BY <1>2, <1>4, <2>2, <2>3 DEF Free
<1>7. ASSUME HoldWrites(t)
      PROVE  o \notin Requested(t)
  <2>1. \A x \in Requested(t) : cache[t][x] = FreeRow
    BY <1>7 DEF HoldWrites, Holdable
  <2>2. FreeRow # Absent /\ FreeRow.estado = "AVAILABLE"
    BY Here DEF FreeRow
  <2> QED
    BY <1>2, <1>4, <2>1, <2>2
<1>8. written'[t][o] = Absent
  <2>1. CASE Rollback(t) \/ Commit(t)
    BY <1>2, <2>1, SessionEnds
  <2>2. CASE ClaimWrites(t)
    BY <1>2, <1>4, <1>6, <2>2, ClaimWritten
  <2>3. CASE HoldWrites(t)
    <3>1. written'[t][o] = written[t][o]
      BY <1>2, <1>7, <2>3, HoldWritten DEF HoldWrites
    <3> QED
      BY <1>4, <3>1
  <2>4. CASE ReleaseWrites(t)
    <3>1. Kind[t] = "release"
      BY <2>4 DEF ReleaseWrites
    <3> QED
      BY <1>2, <1>4, <2>4, <3>1, ReleaseWritten
  <2>5. CASE Quiet(t) \/ ReleaseFinds(t)
    BY <1>4, <2>5 DEF Quiet, ReleaseFinds
  <2>6. CASE \E s \in Slot : Loads(t, s) \/ Inserts(t, s)
    BY <1>2, <1>3, <1>4, <2>6 DEF Loads, Inserts
  <2> QED
    BY <2>1, <2>2, <2>3, <2>4, <2>5, <2>6, StepKinds
<1>9. cache'[t][o] = Absent \/ cache'[t][o] = Start[o]
  <2>1. CASE Rollback(t) \/ Commit(t)
    BY <1>2, <2>1, SessionEnds
  <2>2. CASE ClaimWrites(t)
    <3>1. cache' = [cache EXCEPT ![t] = Nothing] /\ cache \in [Txn -> [Slot -> Row \cup {Absent}]]
      BY <2>2, Here DEF ClaimWrites
    <3> QED
      BY <1>2, <3>1 DEF Nothing
  <2>3. CASE Quiet(t) \/ HoldWrites(t) \/ ReleaseWrites(t)
    BY <1>4, <2>3 DEF Quiet, HoldWrites, ReleaseWrites
  <2>4. CASE ReleaseFinds(t)
    <3>1. Kind[t] = "release"
      BY <2>4, Here DEF ReleaseFinds, ControlOf, ClaimControl, HoldControl
    <3>2. cache' = cache \/ cache' = [cache EXCEPT ![t][Own(t)] = table[Own(t)]]
      BY <2>4 DEF ReleaseFinds
    <3>3. cache \in [Txn -> [Slot -> Row \cup {Absent}]] /\ Own(t) # o
      BY <1>2, <3>1, Here
    <3>4. cache'[t][o] = cache[t][o]
      BY <1>2, <3>2, <3>3
    <3> QED
      BY <1>4, <3>4
  <2>5. CASE \E s \in Slot : Loads(t, s) \/ Inserts(t, s)
    BY <1>2, <1>3, <1>4, <2>5 DEF Loads, Inserts, Visible
  <2> QED
    BY <2>1, <2>2, <2>3, <2>4, <2>5, StepKinds
<1>10. \A v \in Txn \ Releasing(o) : written'[v][o] = Absent /\ cache'[v][o] \in {Absent, Start[o]}
  BY <1>1, <1>3, <1>8, <1>9 DEF Others
<1>11. ASSUME ClaimWrites(t)
       PROVE  Own(t) \notin Relatives(o)
  BY <1>2, <1>6, <1>11, RelativesType, Here
<1>12. \A v \in Txn : \A x \in Done(v)' : x # o /\ x \notin Relatives(o)
  BY <1>3, <1>6, <1>11, StepDone
<1> QED
  BY <1>1, <1>3, <1>5, <1>10, <1>12 DEF GuardedBy, o

\* A release of the slot leaves it alone until its commit, which takes the
\* reservation away.
LEMMA ReleaseLeaves ==
    ASSUME CInv, NEW t \in Txn, Step(t), NEW w \in Txn, GivesUp(w), GuardedBy(w), OwnerOnly(w),
           t \in Releasing(Own(w))
    PROVE  GuardedBy(w)' \/ Gone(w)'
<1>1. /\ Others(t) /\ Start' = Start /\ Own(w)' = Own(w) /\ Owner(w)' = Owner(w)
      /\ Releasing(Own(w))' = Releasing(Own(w)) /\ Own(w) \in Slot
      /\ Kind[t] = "release"
  BY SameReleases, ReleasedSlot DEF GivesUp, Releasing
<1>2. table'[Own(w)] = table[Own(w)] \/ table'[Own(w)] = Visible(t, Own(w))
  BY <1>1, StepFrame DEF CInv
<1>3. CASE table'[Own(w)] # table[Own(w)]
  <2>1. written[t][Own(w)] # Absent /\ table'[Own(w)] = written[t][Own(w)]
    BY <1>2, <1>3 DEF Visible
  <2>2. written[t][Own(w)].reservation_id # Owner(w)
    BY <2>1 DEF OwnerOnly
  <2> QED
    BY <1>1, <2>1, <2>2 DEF Gone
<1>4. CASE table'[Own(w)] = table[Own(w)]
  <2>1. \A v \in Txn : Done(v)' \subseteq Done(v)
    <3>1. ~ ClaimWrites(t)
      BY <1>1 DEF ClaimWrites
    <3> QED
      BY <3>1, StepDone
  <2>2. \A v \in Txn \ Releasing(Own(w)) : written'[v] = written[v] /\ cache'[v] = cache[v]
    BY <1>1 DEF Others
  <2>3. \A v \in Txn \ Releasing(Own(w)) :
          written'[v][Own(w)] = Absent /\ cache'[v][Own(w)] \in {Absent, Start[Own(w)]}
    BY <2>2 DEF GuardedBy
  <2>4. \A v \in Txn : \A x \in Done(v)' : x # Own(w) /\ x \notin Relatives(Own(w))
    BY <2>1 DEF GuardedBy
  <2>5. table'[Own(w)] = Start[Own(w)]
    BY <1>4 DEF GuardedBy
  <2> QED
    BY <1>1, <2>3, <2>4, <2>5 DEF GuardedBy
<1> QED
  BY <1>3, <1>4

\* Once it is given up it is not that reservation's again.
LEMMA GoneForGood ==
    ASSUME CInv, NEW t \in Txn, Step(t), NEW w \in Txn, GivesUp(w), OwnerOnly(w), Gone(w)
    PROVE  Gone(w)'
<1>1. /\ Own(w)' = Own(w) /\ Owner(w)' = Owner(w) /\ Own(w) \in Slot
  BY SameReleases, ReleasedSlot DEF GivesUp
<1>2. table'[Own(w)] = table[Own(w)] \/ table'[Own(w)] = Visible(t, Own(w))
  BY <1>1, StepFrame DEF CInv
<1>3. Visible(t, Own(w)).reservation_id # Owner(w)
  BY DEF Visible, Gone, OwnerOnly
<1> QED
  BY <1>1, <1>2, <1>3 DEF Gone

\* Nor does anybody write that reservation.
LEMMA OwnerOnlyNext ==
    ASSUME CInv, NEW t \in Txn, Step(t), NEW w \in Txn, GivesUp(w), OwnerOnly(w),
           GuardedBy(w) \/ Gone(w)
    PROVE  OwnerOnly(w)'
<1>1. /\ Others(t) /\ Own(w)' = Own(w) /\ Owner(w)' = Owner(w) /\ Kind' = Kind
      /\ Releasing(Own(w))' = Releasing(Own(w))
      /\ Own(w) \in Slot /\ Owner(w) # None /\ Owner(w) \notin Txn
      /\ Start[Own(w)].reservation_id = Owner(w)
  BY SameReleases, ReleasedSlot DEF GivesUp, Owner
<1>2. /\ written[t][Own(w)] # Absent => written[t][Own(w)].reservation_id # Owner(w)
      /\ t \in Releasing(Own(w)) /\ cache[t][Own(w)] # Absent =>
            cache[t][Own(w)].reservation_id = Owner(w)
  BY DEF OwnerOnly
<1>3. t \in Releasing(Own(w)) =>
        /\ Kind[t] = "release" /\ Own(t) = Own(w) /\ Owner(t) = Owner(w)
        /\ ReleaseControl(t) /\ Own(t) \notin Relatives(Own(t))
  BY Here DEF Releasing, Owner, ControlOf
<1>4. ASSUME t \notin Releasing(Own(w)), GuardedBy(w)
      PROVE  written'[t][Own(w)] = Absent
  <2>1. GuardedBy(w)'
    BY <1>4, GuardHolds
  <2> QED
    BY <1>1, <1>4, <2>1 DEF GuardedBy
<1>5. ASSUME t \in Releasing(Own(w)) \/ Gone(w), written'[t][Own(w)] # Absent
      PROVE  written'[t][Own(w)].reservation_id # Owner(w)
  <2>1. CASE Rollback(t) \/ Commit(t)
    BY <1>1, <1>5, <2>1, SessionEnds
  <2>2. CASE written'[t][Own(w)] = written[t][Own(w)]
    BY <1>2, <1>5, <2>2
  <2>3. ASSUME NEW s \in Slot, Inserts(t, s), s = Own(w)
        PROVE  written'[t][Own(w)].reservation_id # Owner(w)
    BY <1>1, <2>3 DEF Inserts, FreeRow
  <2>4. CASE ReleaseWrites(t) /\ t \in Releasing(Own(w))
    <3>1. cache[t][Own(t)] # Absent
      BY <1>3, <2>4 DEF ReleaseControl, ReleaseWrites
    <3>2. cache[t][Own(t)].reservation_id # None
      BY <1>1, <1>2, <1>3, <2>4, <3>1
    <3> QED
      BY <1>1, <1>3, <2>4, <3>2, ReleasedReservation
  <2>5. ASSUME ClaimWrites(t) \/ HoldWrites(t) \/ ReleaseWrites(t),
               t \notin Releasing(Own(w)), written'[t][Own(w)] # written[t][Own(w)]
        PROVE  written'[t][Own(w)].reservation_id # Owner(w)
    <3>1. Visible(t, Own(w)).reservation_id # Owner(w)
      BY <1>2, <1>5, <2>5 DEF Visible, Gone
    <3>2. written'[t][Own(w)].reservation_id \in {None, t, Visible(t, Own(w)).reservation_id}
      BY <1>1, <2>5, ReservationWritten
    <3> QED
      BY <1>1, <3>1, <3>2
  <2>6. t \in Releasing(Own(w)) => ~ ClaimWrites(t) /\ ~ HoldWrites(t)
    BY <1>3 DEF ClaimWrites, HoldWrites
  <2>7. Quiet(t) \/ ReleaseFinds(t) => written' = written
    BY DEF Quiet, ReleaseFinds
  <2>8. ASSUME NEW s \in Slot, Loads(t, s) \/ (Inserts(t, s) /\ s # Own(w))
        PROVE  written'[t][Own(w)] = written[t][Own(w)]
    BY <1>1, <2>8 DEF Loads, Inserts
  <2> QED
    BY <2>1, <2>2, <2>3, <2>4, <2>5, <2>6, <2>7, <2>8, StepKinds
<1>6. ASSUME t \in Releasing(Own(w)), cache'[t][Own(w)] # Absent
      PROVE  cache'[t][Own(w)].reservation_id = Owner(w)
  <2>1. CASE Rollback(t) \/ Commit(t)
    BY <1>1, <1>6, <2>1, SessionEnds
  <2>2. CASE cache'[t][Own(w)] = cache[t][Own(w)]
    BY <1>2, <1>6, <2>2
  <2>3. CASE ReleaseFinds(t) /\ cache' # cache
    <3>1. /\ table[Own(t)].reservation_id = Owner(t)
          /\ cache' = [cache EXCEPT ![t][Own(t)] = table[Own(t)]]
      BY <2>3 DEF ReleaseFinds
    <3>2. cache'[t][Own(t)] = table[Own(t)]
      BY <1>1, <1>3, <1>6, <3>1, Here
    <3> QED
      BY <1>3, <1>6, <3>1, <3>2
  <2>4. Quiet(t) \/ ReleaseWrites(t) => cache' = cache
    BY DEF Quiet, ReleaseWrites
  <2>5. ASSUME NEW s \in Slot, Loads(t, s) \/ Inserts(t, s)
        PROVE  cache'[t][Own(w)] = cache[t][Own(w)]
    <3>1. s \in Relatives(Own(t))
      BY <1>3, <1>6, <2>5 DEF Loads, Inserts, ReleaseControl
    <3> QED
      BY <1>1, <1>3, <1>6, <2>5, <3>1 DEF Loads, Inserts
  <2>6. ~ ClaimWrites(t) /\ ~ HoldWrites(t)
    BY <1>3, <1>6 DEF ClaimWrites, HoldWrites
  <2> QED
    BY <2>1, <2>2, <2>3, <2>4, <2>5, <2>6, StepKinds
<1>7. \A v \in Txn : v # t => written'[v] = written[v] /\ cache'[v] = cache[v]
  BY <1>1 DEF Others
<1>8. ASSUME NEW v \in Txn
      PROVE  /\ written'[v][Own(w)] # Absent => written'[v][Own(w)].reservation_id # Owner(w)
             /\ v \in Releasing(Own(w)) /\ cache'[v][Own(w)] # Absent =>
                   cache'[v][Own(w)].reservation_id = Owner(w)
  <2>1. CASE v = t
    BY <1>4, <1>5, <1>6, <2>1
  <2>2. CASE v # t
    BY <1>7, <2>2 DEF OwnerOnly
  <2> QED
    BY <2>1, <2>2
<1> QED
  BY <1>1, <1>8 DEF OwnerOnly

\* In every reachable state.
LEMMA GuardedNext ==
    ASSUME CInv, Guarded, NEW t \in Txn, Step(t)
    PROVE  Guarded'
<1>1. ASSUME NEW w \in Txn, GivesUp(w)'
      PROVE  OwnerOnly(w)' /\ (GuardedBy(w)' \/ Gone(w)')
  <2>1. GivesUp(w)
    BY <1>1, SameReleases DEF GivesUp
  <2>2. OwnerOnly(w) /\ (GuardedBy(w) \/ Gone(w))
    BY <2>1 DEF Guarded
  <2> QED
    BY <2>1, <2>2, OwnerOnlyNext, GuardHolds, ReleaseLeaves, GoneForGood
<1> QED
  BY <1>1 DEF Guarded

\* A release that is not late gives up a slot that nobody has won, nor a relative.
LEMMA TimelyRelease ==
    ASSUME CInv, Guarded, NEW t \in Txn, ReleaseWrites(t), ~ IsLate(t)
    PROVE  \A v \in Txn : \A x \in Done(v) : x # Own(t) /\ x \notin Relatives(Own(t))
<1>1. GivesUp(t) /\ ~ Gone(t)
  BY DEF ReleaseWrites, IsLate, GivesUp, Gone
<1> QED
  BY <1>1 DEF Guarded, GuardedBy

-----------------------------------------------------------------------------
(* A space and a part of it.                                               *)

\* The slots of the claims that have committed.
Won == UNION {Done(u) : u \in {v \in Txn : pc[v] = "committed"}}

\* A slot that was won is not given away again, but by a late release.
WonStays ==
    \A x \in Won \ Exposed :
        /\ Hard(table[x])
        /\ \A w \in Txn : written[w][x] = Absent \/ Hard(written[w][x])

\* No relative of a slot that a claim has written is won, by it or another one,
Apart ==
    \A w \in Txn : \A y \in Done(w) : \A x \in Relatives(y) :
        x \notin Exposed /\ y \notin Exposed => x \notin Won /\ x \notin Done(w)

\* nor one of a slot that it is about to write.
Passed ==
    \A w \in Txn : OwnPassed(w) =>
        \A x \in Relatives(Own(w)) \ Exposed :
            cache[w][x] # Absent /\ ~ Hard(cache[w][x]) => x \notin Won /\ x \notin Done(w)

Family == WonStays /\ Apart /\ Passed

\* Only a commit wins slots.
LEMMA WonNext ==
    ASSUME CInv, NEW t \in Txn, Step(t)
    PROVE  /\ Won \subseteq Slot
           /\ Commit(t) => Won' = Won \cup Done(t)
           /\ ~ Commit(t) => Won' = Won
           /\ Won = UNION {Done(u) : u \in {v \in Txn \ {t} : pc[v] = "committed"}}
<1>1. /\ \A u \in Txn : u # t => Done(u)' = Done(u) /\ pc'[u] = pc[u]
      /\ pc[t] # "committed" /\ ((pc'[t] = "committed") <=> Commit(t))
      /\ Commit(t) => Done(t)' = Done(t)
  <2>1. Commit(t) => ~ Rollback(t) /\ ~ ClaimWrites(t)
    BY Here DEF Commit, Rollback, ClaimWrites
  <2> QED
    BY <2>1, StepDone
<1>2. Won \subseteq Slot
  BY Here DEF Won
<1>3. Won = UNION {Done(u) : u \in {v \in Txn \ {t} : pc[v] = "committed"}}
  BY <1>1 DEF Won
<1>4. Commit(t) => Won' = Won \cup Done(t)
  BY <1>1, <1>3 DEF Won
<1>5. ~ Commit(t) => Won' = Won
  BY <1>1, <1>3 DEF Won
<1> QED
  BY <1>2, <1>3, <1>4, <1>5

\* What late releases have written is not forgotten.
LEMMA ExposedNext ==
    ASSUME CInv, NEW t \in Txn, Step(t)
    PROVE  /\ Exposed \subseteq Exposed'
           /\ ReleaseWrites(t) /\ IsLate(t) =>
                Own(t) \in Exposed' /\ Relatives(Own(t)) \subseteq Exposed'
<1>1. late \subseteq late' /\ (ReleaseWrites(t) /\ IsLate(t) => Own(t) \in late')
  BY LateNext DEF CInv
<1>2. \A x \in late' : Relatives(x)' = Relatives(x)
  BY DEF Relatives, ChildSlots, HasParent, ParentSlot
<1> QED
  BY <1>1, <1>2 DEF Exposed

\* Without a commit the table is what it was.
LEMMA TableKept ==
    ASSUME CInv, NEW t \in Txn, Step(t), ~ Commit(t)
    PROVE  table' = table
  BY StepKinds DEF Quiet, Rollback, Loads, Inserts, ClaimWrites, HoldWrites, ReleaseFinds,
     ReleaseWrites

\* What a claim has written is locked by it, and so are the relatives.
LEMMA DoneIsLocked ==
    ASSUME CInv, NEW t \in Txn, pc[t] # "committed", NEW x \in Done(t)
    PROVE  /\ Kind[t] = "claim" /\ x \in Slot /\ Relatives(x) \subseteq Slot
           /\ Hard(written[t][x]) /\ lock[x] = t
           /\ cache[t][x] # Absent => Hard(cache[t][x])
           /\ \A y \in Relatives(x) : lock[y] = t
<1>1. Kind[t] = "claim"
  <2>1. DoneCount(t) # 0
    BY DEF Done
  <2> QED
    BY <2>1 DEF DoneCount
<1>2. x \in Slot /\ TypeOK /\ ControlOf(t)
  BY Here
<1>3. /\ Hard(written[t][x])
      /\ cache[t][x] # Absent => Hard(cache[t][x])
      /\ \A y \in Relatives(x) : lock[y] = t
  BY <1>1, <1>2 DEF ControlOf, ClaimControl
<1> QED
  BY <1>1, <1>2, <1>3, RelativesType DEF Hard, TypeOK

\* A claim writes no relative that is won, a hold and a release nothing that is.
LEMMA WonStaysNext ==
    ASSUME CInv, Guarded, Family, NEW t \in Txn, Step(t)
    PROVE  WonStays'
<1>1. Others(t) /\ Won \subseteq Slot /\ Exposed \subseteq Exposed'
  BY StepFrame, WonNext, ExposedNext DEF CInv
<1>2. ASSUME NEW x \in Won \ Exposed
      PROVE  /\ Hard(table[x]) /\ x \in Slot
             /\ \A w \in Txn : written[w][x] = Absent \/ Hard(written[w][x])
  BY <1>1 DEF Family, WonStays
<1>3. CASE Commit(t)
  <2>1. /\ Won' = Won \cup Done(t) /\ Done(t) \subseteq Slot
        /\ \A x \in Slot : table'[x] = Visible(t, x)
        /\ \A x \in Slot : written'[t][x] = Absent
        /\ pc[t] = "commit"
    BY <1>3, WonNext, SessionEnds, Here DEF Commit
  <2>2. ASSUME NEW x \in Won' \ Exposed'
        PROVE  /\ Hard(table'[x])
               /\ \A w \in Txn : written'[w][x] = Absent \/ Hard(written'[w][x])
    <3>1. CASE x \in Done(t)
      <4>1. x \in Slot /\ Hard(written[t][x]) /\ lock[x] = t
        BY <2>1, <3>1, DoneIsLocked
      <4>2. Hard(table'[x])
        BY <2>1, <4>1 DEF Visible, Hard
      <4>3. \A w \in Txn : w # t => written[w][x] = Absent
        BY <4>1 DEF CInv, TypeOK
      <4> QED
        BY <1>1, <2>1, <4>1, <4>2, <4>3 DEF Others
    <3>2. CASE x \in Won \ Exposed
      BY <1>1, <1>2, <2>1, <3>2 DEF Visible, Others
    <3> QED
      BY <1>1, <2>1, <2>2, <3>1, <3>2
  <2> QED
    BY <2>2 DEF WonStays
<1>4. CASE ~ Commit(t)
  <2>1. Won' = Won /\ table' = table
    BY <1>4, WonNext, TableKept
  <2>2. ASSUME NEW x \in Won \ Exposed, x \notin Exposed'
        PROVE  written'[t][x] = Absent \/ Hard(written'[t][x])
    <3>1. x \in Slot /\ Hard(table[x]) /\ (written[t][x] = Absent \/ Hard(written[t][x]))
      BY <1>2
    <3>2. CASE Rollback(t)
      BY <3>1, <3>2, SessionEnds
    <3>3. CASE ClaimWrites(t)
      <4>1. /\ \A y \in Relatives(Own(t)) : cache[t][y] # Absent /\ ~ Hard(cache[t][y])
            /\ OwnPassed(t)
        BY <3>3 DEF CInv, ControlOf, ClaimControl, ClaimWrites, OwnPassed, Checked
      <4>2. x \notin Relatives(Own(t))
        BY <4>1 DEF Family, Passed
      <4> QED
        BY <3>1, <3>3, <4>2, ClaimWritten
    <3>4. CASE HoldWrites(t)
      BY <3>1, <3>4, HoldWritten DEF HoldWrites
    <3>5. CASE ReleaseWrites(t)
      <4>1. IsLate(t) => x # Own(t) /\ x \notin Relatives(Own(t))
        BY <2>2, <3>5, ExposedNext
      <4>2. x # Own(t) /\ x \notin Relatives(Own(t))
        BY <3>5, <4>1, TimelyRelease DEF Won
      <4> QED
        BY <3>1, <3>5, <4>2, ReleaseWritten
    <3>6. CASE Quiet(t) \/ ReleaseFinds(t)
      BY <3>1, <3>6 DEF Quiet, ReleaseFinds
    <3>7. CASE \E s \in Slot : Loads(t, s) \/ Inserts(t, s)
      BY <3>1, <3>7 DEF Loads, Inserts, Hard
    <3> QED
      BY <1>4, <3>2, <3>3, <3>4, <3>5, <3>6, <3>7, StepKinds
  <2>3. \A x \in Won \ Exposed', w \in Txn : written'[w][x] = Absent \/ Hard(written'[w][x])
    BY <1>1, <1>2, <2>2 DEF Others
  <2> QED
    BY <1>1, <1>2, <2>1, <2>3 DEF WonStays
<1> QED
  BY <1>3, <1>4

\* A claim locks the relatives of what it writes, so two claims of relatives
\* cannot both get that far.
LEMMA ApartNext ==
    ASSUME CInv, Family, NEW t \in Txn, Step(t)
    PROVE  Apart'
<1>1. /\ \A u \in Txn : u # t => Done(u)' = Done(u) /\ pc'[u] = pc[u]
      /\ pc[t] # "committed"
      /\ Rollback(t) => Done(t)' = {}
      /\ ClaimWrites(t) => Done(t)' = Done(t) \cup {Own(t)}
      /\ ~ Rollback(t) /\ ~ ClaimWrites(t) => Done(t)' = Done(t)
  BY StepDone
<1>2. /\ \A w \in Txn : \A y \in Done(w) : \A x \in Relatives(y) :
            x \notin Exposed /\ y \notin Exposed => x \notin Won /\ x \notin Done(w)
      /\ Exposed \subseteq Exposed'
  BY ExposedNext DEF Family, Apart
<1>3. CASE Commit(t)
  <2>1. Won' = Won \cup Done(t) /\ \A u \in Txn : Done(u)' = Done(u)
    <3>1. ~ Rollback(t) /\ ~ ClaimWrites(t)
      BY <1>3, Here DEF Commit, Rollback, ClaimWrites
    <3> QED
      BY <1>1, <1>3, <3>1, WonNext
  <2>2. ASSUME NEW w \in Txn, NEW y \in Done(w), NEW x \in Relatives(y), x \in Done(t),
               x \notin Exposed, y \notin Exposed
        PROVE  FALSE
    <3>1. w # t
      BY <1>2, <2>2
    <3>2. /\ x \in Slot /\ Hard(written[t][x]) /\ lock[x] = t
          /\ y \in Slot
      BY <1>1, <2>2, DoneIsLocked, Here
    <3>3. y \in Relatives(x)
      BY <2>2, <3>2, RelativesType
    <3>4. CASE pc[w] = "committed"
      <4>1. y \in Won
        BY <3>4 DEF Won
      <4> QED
        BY <1>2, <2>2, <3>3, <4>1
    <3>5. CASE pc[w] # "committed"
      <4>1. lock[x] = w
        BY <2>2, <3>5, DoneIsLocked
      <4> QED
        BY <3>1, <3>2, <4>1
    <3> QED
      BY <3>4, <3>5
  <2> QED
    BY <1>2, <2>1, <2>2 DEF Apart
<1>4. CASE ClaimWrites(t)
  <2>1. Won' = Won
    <3>1. ~ Commit(t)
      BY <1>4 DEF ClaimWrites, Commit
    <3> QED
      BY <3>1, WonNext
  <2>2. /\ \A y \in Relatives(Own(t)) : cache[t][y] # Absent /\ ~ Hard(cache[t][y])
        /\ OwnPassed(t)
    BY <1>4 DEF CInv, ControlOf, ClaimControl, ClaimWrites, OwnPassed, Checked
  <2>3. \A x \in Relatives(Own(t)) \ Exposed : x \notin Won /\ x \notin Done(t)
    BY <2>2 DEF Family, Passed
  <2>4. Own(t) \in Slot /\ Own(t) \notin Relatives(Own(t)) /\ Done(t) \subseteq Slot
    BY Here
  <2>5. \A y \in Done(t) \ Exposed : Own(t) \notin Relatives(y)
    BY <2>3, <2>4, RelativesType
  <2>6. ASSUME NEW y \in Done(t)', NEW x \in Relatives(y), x \notin Exposed, y \notin Exposed
        PROVE  x \notin Won /\ x \notin Done(t)'
    <3>1. y \in Done(t) \/ y = Own(t)
      BY <1>1, <1>4, <2>6
    <3>2. x \notin Won /\ x \notin Done(t) /\ x # Own(t)
      BY <1>2, <2>3, <2>4, <2>5, <2>6, <3>1
    <3> QED
      BY <1>1, <1>4, <3>2
  <2> QED
    BY <1>1, <1>2, <2>1, <2>6 DEF Apart
<1>5. CASE ~ Commit(t) /\ ~ ClaimWrites(t)
  <2>1. Won' = Won
    BY <1>5, WonNext
  <2>2. \A u \in Txn : Done(u)' \subseteq Done(u)
    BY <1>1, <1>5
  <2> QED
    BY <1>2, <2>1, <2>2 DEF Apart
<1> QED
  BY <1>3, <1>4, <1>5

\* The check of a relative may be stale, but not since another claim has won
\* it: that claim would have had to lock the slot that is locked by this one.
LEMMA PassedNext ==
    ASSUME CInv, Family, NEW t \in Txn, Step(t)
    PROVE  Passed'
<1>1. /\ Others(t) /\ Kind' = Kind
      /\ item'[t] = item[t] => Own(t)' = Own(t)
      /\ Rollback(t) \/ ClaimWrites(t) \/ Done(t)' = Done(t)
  BY StepFrame, HereNext, StepDone DEF CInv
<1>2. \A w \in Txn : OwnPassed(w) =>
        /\ Kind[w] = "claim" /\ lock[Own(w)] = w
        /\ \A x \in Relatives(Own(w)) \ Exposed :
            cache[w][x] # Absent /\ ~ Hard(cache[w][x]) => x \notin Won /\ x \notin Done(w)
  BY DEF Family, Passed, OwnPassed, CInv, ControlOf, ClaimControl
<1>3. ASSUME NEW w \in Txn, w # t, OwnPassed(w)', NEW x \in Relatives(Own(w)) \ Exposed,
             cache[w][x] # Absent, ~ Hard(cache[w][x])
      PROVE  x \notin Won' /\ x \notin Done(w)'
  <2>1. OwnPassed(w) /\ Done(w)' = Done(w)
    BY <1>1, <1>3, SamePlace
  <2>2. lock[Own(w)] = w /\ x \notin Won /\ x \notin Done(w) /\ Own(w) \in Slot /\ x \in Slot
    BY <1>2, <1>3, <2>1, Here
  <2>3. ASSUME Commit(t), x \in Done(t)
        PROVE  FALSE
    <3>1. Own(w) \in Relatives(x) /\ pc[t] = "commit"
      BY <1>3, <2>2, <2>3, RelativesType DEF Commit
    <3>2. lock[Own(w)] = t
      BY <2>3, <3>1, DoneIsLocked
    <3> QED
      BY <1>3, <2>2, <3>2
  <2> QED
    BY <2>1, <2>2, <2>3, WonNext
<1>4. ASSUME OwnPassed(t)', NEW x \in Relatives(Own(t)') \ Exposed,
             cache'[t][x] # Absent, ~ Hard(cache'[t][x])
      PROVE  x \notin Won' /\ x \notin Done(t)'
  <2>1. Kind[t] = "claim" /\ ClaimControl(t)
    BY <1>1, <1>4 DEF OwnPassed, CInv, ControlOf
  <2>2. Own(t)' \in Slot /\ x \in Slot
    <3>1. CInv'
      BY StepKeepsControl
    <3>2. TypeOK'
      BY <3>1 DEF CInv
    <3>3. Own(t)' \in Slot
      <4>1. Items' = Items /\ item'[t] \in 1..Len(Items[t])
        BY <3>2, HereNext DEF TypeOK
      <4> QED
        BY <4>1, RequestType DEF Own, CInv
    <3> QED
      BY <1>4, <3>3, RelativesType
  <2>3. ~ Commit(t) /\ ~ Rollback(t)
    BY <1>4, <2>2, SessionEnds
  <2>4. ~ ClaimWrites(t)
    <3>1. cache \in [Txn -> [Slot -> Row \cup {Absent}]]
      BY Here
    <3> QED
      BY <1>4, <2>2, <3>1 DEF ClaimWrites, Nothing
  <2>5. Won' = Won /\ Done(t)' = Done(t)
    BY <1>1, <2>3, <2>4, WonNext
  <2>6. CASE Quiet(t)
    <3>1. Own(t)' = Own(t) /\ cache' = cache /\ pc[t] \in {"lock", "check"}
      BY <1>1, <2>1, <2>6 DEF Quiet, ClaimControl
    <3>2. OwnPassed(t)
      <4>1. ASSUME target[t] = Own(t) PROVE FALSE
        <5>1. \A y \in Slot : y # Own(t) => cache[t][y] = Absent
          BY <2>1, <3>1, <4>1 DEF ClaimControl
        <5>2. x # Own(t)
          BY <1>4, <3>1, Here
        <5> QED
          BY <1>4, <2>2, <3>1, <5>1, <5>2
      <4> QED
        BY <2>1, <3>1, <4>1 DEF OwnPassed, InRelatives
    <3> QED
      BY <1>2, <1>4, <2>5, <3>1, <3>2
  <2>7. ASSUME NEW s \in Slot, Loads(t, s) \/ Inserts(t, s)
        PROVE  x \notin Won /\ x \notin Done(t)
    <3>1. Own(t)' = Own(t) /\ target' = target /\ pc[t] \in {"load", "insert"}
          /\ pc'[t] \in {"insert", "lock"} /\ s = target[t]
      BY <1>1, <2>1, <2>7 DEF Loads, Inserts
    <3>2. OwnPassed(t)
      BY <1>1, <1>4, <3>1 DEF OwnPassed, InRelatives
    <3>3. CASE x # s \/ cache[t][s] # Absent
      BY <1>2, <1>4, <2>2, <2>7, <3>1, <3>2, <3>3 DEF Loads, Inserts
    <3>4. CASE x = s /\ cache[t][s] = Absent
      <4>1. \/ Visible(t, s) # Absent /\ ~ Hard(Visible(t, s))
            \/ Visible(t, s) = Absent
        BY <1>4, <2>7, <3>4 DEF Loads, Inserts, Visible
      <4>2. x \notin Won
        <5>1. x \in Won => Hard(table[x]) /\ (written[t][x] = Absent \/ Hard(written[t][x]))
          BY DEF Family, WonStays
        <5> QED
          BY <3>4, <4>1, <5>1 DEF Visible, Hard
      <4>3. x \notin Done(t)
        <5>1. x \in Done(t) => Hard(written[t][x])
          BY <3>1, DoneIsLocked
        <5> QED
          BY <3>4, <4>1, <5>1 DEF Visible, Hard
      <4> QED
        BY <4>2, <4>3
    <3> QED
      BY <3>3, <3>4
  <2>8. ~ HoldWrites(t) /\ ~ ReleaseWrites(t) /\ ~ ReleaseFinds(t)
    BY <2>1 DEF HoldWrites, ReleaseWrites, ReleaseFinds, ClaimControl
  <2> QED
    BY <2>3, <2>4, <2>5, <2>6, <2>7, <2>8, StepKinds
<1>5. ASSUME NEW w \in Txn, OwnPassed(w)', NEW x \in Relatives(Own(w)') \ Exposed,
             cache'[w][x] # Absent, ~ Hard(cache'[w][x])
      PROVE  x \notin Won' /\ x \notin Done(w)'
  <2>1. CASE w = t
    BY <1>4, <1>5, <2>1
  <2>2. CASE w # t
    <3>1. Own(w)' = Own(w) /\ cache'[w] = cache[w]
      BY <1>1, <2>2, SamePlace DEF Others
    <3> QED
      BY <1>3, <1>5, <2>2, <3>1
  <2> QED
    BY <2>1, <2>2
<1>6. Exposed \subseteq Exposed'
  BY ExposedNext
<1> QED
  BY <1>5, <1>6 DEF Passed

\* What is known about families, with what it rests on.
FamilyInv == CInv /\ Guarded /\ Family

\* It is inductive.
LEMMA FamilyNext ==
    ASSUME FamilyInv, [Next]_vars
    PROVE  FamilyInv'
<1>1. ASSUME NEW t \in Txn, Step(t)
      PROVE  FamilyInv'
  BY <1>1, StepKeepsControl, GuardedNext, WonStaysNext, ApartNext, PassedNext DEF FamilyInv, Family
<1>2. ASSUME UNCHANGED vars
      PROVE  FamilyInv'
  <2>1. CInv'
    BY <1>2, StutterKeepsControl DEF FamilyInv
  <2>2. /\ Kind' = Kind /\ Start' = Start /\ Items' = Items
        /\ \A t \in Txn : Own(t)' = Own(t) /\ OwnPassed(t)' = OwnPassed(t) /\ Done(t)' = Done(t)
    BY <1>2 DEF vars, Own, OwnPassed, InRelatives, Done, DoneCount, Kind, Start, Items
  <2>3. Won' = Won
    BY <1>2, <2>2 DEF Won, vars
  <2>4. Guarded'
    BY <1>2, <2>2 DEF FamilyInv, Guarded, GivesUp, Owner, OwnerOnly, Releasing, GuardedBy, Gone, vars
  <2>5. Family'
    BY <1>2, <2>2, <2>3 DEF FamilyInv, Family, WonStays, Apart, Passed, Exposed, vars
  <2> QED
    BY <2>1, <2>4, <2>5 DEF FamilyInv
<1> QED
  BY <1>1, <1>2 DEF Next, Terminating

\* At the start nothing is written and nothing is loaded.
LEMMA InitNothing ==
    ASSUME Init
    PROVE  /\ CInv /\ Won = {} /\ table = Start
           /\ \A t \in Txn : /\ Done(t) = {} /\ ~ OwnPassed(t)
                             /\ pc[t] \in {"find", "load"}
                             /\ \A x \in Slot : cache[t][x] = Absent /\ written[t][x] = Absent
<1>1. CInv
  BY InitControl
<1>2. ASSUME NEW t \in Txn
      PROVE  /\ pc[t] \in {"find", "load"} /\ item[t] = 1
             /\ pc[t] = "find" <=> Kind[t] = "release"
             /\ \A x \in Slot : cache[t][x] = Absent /\ written[t][x] = Absent
             /\ target[t] = Own(t)
  BY DEF Init, Nothing, Own
<1>3. \A t \in Txn : Done(t) = {}
  BY <1>2 DEF Done, DoneCount
<1>4. \A t \in Txn : ~ OwnPassed(t)
  BY <1>2 DEF OwnPassed, InRelatives
<1>5. Won = {}
  BY <1>2 DEF Won
<1> QED
  BY <1>1, <1>2, <1>3, <1>4, <1>5 DEF Init

\* It holds in every reachable state, however transactions interleave.
LEMMA FamilyAlways == Spec => []FamilyInv
<1>1. ASSUME Init PROVE FamilyInv
  <2>1. \A w \in Txn : GivesUp(w) => GuardedBy(w) /\ OwnerOnly(w)
    BY <1>1, InitNothing, ReleasedSlot DEF GivesUp, GuardedBy, OwnerOnly
  <2> QED
    BY <1>1, <2>1, InitNothing DEF FamilyInv, Guarded, Family, WonStays, Apart, Passed
<1> QED
  BY <1>1, FamilyNext, PTL DEF Spec

\* A space and a part of it are never both reserved for one window by requests
\* that overlap in time, although their checks read rows that they loaded
\* before they locked them; unless a release wrote one of the rows that was not
\* booked for its reservation any more.
THEOREM FamilyHasOneWinner == Spec => []FamilyOneWinner
<1>1. ASSUME FamilyInv PROVE FamilyOneWinner
  <2>1. ASSUME NEW t \in Txn, NEW u \in Txn, Kind[t] = "claim", Kind[u] = "claim",
               NEW s \in Got201(t), NEW v \in Got201(u), HasParent(s), v = ParentSlot(s),
               {s, v} \cap Exposed = {}
        PROVE  FALSE
    <3>1. pc[t] = "committed" /\ s \in Requested(t) /\ pc[u] = "committed" /\ v \in Requested(u)
      BY <2>1 DEF Got201
    <3>2. s \in Done(t) /\ v \in Done(u)
      BY <2>1, <3>1 DEF Done, DoneCount, Requested
    <3>3. v \in Won /\ s \in Slot
      BY <1>1, <3>1, <3>2, Here DEF Won, FamilyInv
    <3>4. v \in Relatives(s) /\ s \notin Exposed /\ v \notin Exposed
      BY <2>1, <3>3, RelativesType
    <3> QED
      BY <1>1, <3>2, <3>3, <3>4 DEF FamilyInv, Family, Apart
  <2> QED
    BY <2>1 DEF FamilyOneWinner
<1> QED
  BY <1>1, FamilyAlways, PTL

-----------------------------------------------------------------------------
(* A slot whose row was never inserted.                                    *)

\* A slot that a transaction will be told it has, once it commits.
Promised(t, s) ==
    \/ s \in Done(t) /\ pc[t] # "committed"
    \/ s \in Requested(t) /\ Kind[t] = "hold" /\ pc[t] = "commit"

\* A session that sees such a row AVAILABLE has inserted it, and turns it into
\* another state before it commits; a promise is about a row of its own.
FreshSession(t, s) ==
    /\ Free(cache[t][s]) => written[t][s] # Absent /\ table[s] = Absent
    /\ Free(written[t][s]) =>
          /\ Free(cache[t][s]) /\ pc[t] # "commit" /\ Kind[t] # "release"
          /\ Kind[t] = "claim" => s = Own(t) \/ s \in Relatives(Own(t))
          /\ Kind[t] = "hold" => s \in Requested(t)
    /\ Promised(t, s) => written[t][s] # Absent /\ table[s] = Absent
    /\ s \in Got201(t) => table[s] # Absent

\* Its row was not there, and no release inserts it.
Unborn(s) ==
    /\ Start[s] = Absent
    /\ ~ \E r \in Txn : Kind[r] = "release" /\ s \in Relatives(Items[r][1])

Fresh ==
    \A s \in Slot : Unborn(s) =>
        ~ Free(table[s]) /\ \A t \in Txn : FreshSession(t, s)

\* In a hierarchy of two levels a claim shadows all the relatives it finds
\* AVAILABLE.
LEMMA AllShadowed ==
    ASSUME TwoLevelHierarchy, NEW rows, NEW s \in Slot, NEW x \in Relatives(s),
           rows[x].estado = "AVAILABLE"
    PROVE  x \in ShadowedBy(rows, s)
<1>1. CASE HasParent(s)
  <2>1. ChildSlots(s) = {}
    BY <1>1, SlotsAssumption DEF TwoLevelHierarchy, ChildSlots, HasParent, Slot
  <2> QED
    BY <1>1, <2>1 DEF Relatives, ShadowedBy
<1>2. CASE ~ HasParent(s)
  BY <1>2 DEF Relatives, ShadowedBy
<1> QED
  BY <1>1, <1>2

\* The steps of other transactions leave the row of a session alone.
LEMMA FreshOther ==
    ASSUME CInv, NEW t \in Txn, Step(t), NEW u \in Txn, u # t, NEW s \in Slot, FreshSession(u, s)
    PROVE  FreshSession(u, s)'
<1>1. /\ Kind' = Kind /\ Requested(u)' = Requested(u) /\ Own(u)' = Own(u) /\ Done(u)' = Done(u)
      /\ pc'[u] = pc[u] /\ cache'[u] = cache[u] /\ written'[u] = written[u]
  BY StepFrame, HereNext, SameRequest, SamePlace DEF CInv, Others
<1>2. Got201(u)' = Got201(u) /\ (Promised(u, s)' <=> Promised(u, s))
  BY <1>1 DEF Got201, Promised
<1>3. written[u][s] # Absent => table'[s] = table[s]
  <2>1. written[u][s] # Absent => written[t][s] = Absent
    BY DEF CInv, TypeOK
  <2> QED
    BY <2>1, StepFrame DEF CInv, Visible
<1>4. table[s] # Absent => table'[s] # Absent
  BY RowsStay DEF CInv
<1> QED
  BY <1>1, <1>2, <1>3, <1>4 DEF FreshSession

\* A claim that writes turns every row it has inserted into another state.
LEMMA FreshClaim ==
    ASSUME TwoLevelHierarchy, CInv, NEW t \in Txn, Step(t), ClaimWrites(t),
           NEW s \in Slot, FreshSession(t, s), ~ Free(table[s])
    PROVE  FreshSession(t, s)'
<1>1. /\ Kind[t] = "claim" /\ pc[t] = "write" /\ table' = table
      /\ cache' = [cache EXCEPT ![t] = Nothing]
      /\ ClaimControl(t) /\ Loaded(t) /\ Own(t) \in Slot
      /\ cache \in [Txn -> [Slot -> Row \cup {Absent}]]
  BY Here DEF ClaimWrites, ControlOf
<1>2. ~ Free(cache'[t][s])
  BY <1>1 DEF Nothing, Free
<1>3. /\ Hard(written'[t][Own(t)])
      /\ ShadowedBy(cache[t], Own(t)) \subseteq Relatives(Own(t))
      /\ s # Own(t) /\ s \notin ShadowedBy(cache[t], Own(t)) => written'[t][s] = written[t][s]
      /\ s \in ShadowedBy(cache[t], Own(t)) =>
            IF cache[t][s].estado = ShadowStatus(Own(t))
            THEN \/ written'[t][s] = written[t][s]
                 \/ written'[t][s] # Absent /\ written'[t][s].estado = Visible(t, s).estado
            ELSE written'[t][s] # Absent /\ written'[t][s].estado = ShadowStatus(Own(t))
  BY ClaimWritten
<1>4. ShadowStatus(Own(t)) # "AVAILABLE"
  BY DEF ShadowStatus
<1>5. written[t][s] # Absent => written'[t][s] # Absent
  BY <1>3 DEF Hard
<1>6. /\ Free(cache[t][Own(t)])
      /\ \A x \in Relatives(Own(t)) : cache[t][x] # Absent
  BY <1>1 DEF ClaimControl, OwnPassed, Checked
<1>7. ASSUME Free(written'[t][s])
      PROVE  FALSE
  <2>1. CASE s = Own(t)
    BY <1>3, <1>7, <2>1 DEF Free, Hard, HardBlockStatuses
  <2>2. CASE s \in ShadowedBy(cache[t], Own(t))
    <3>1. cache[t][s] # Absent /\ Visible(t, s) # Absent
      BY <1>1, <1>3, <1>6, <2>2 DEF Loaded
    <3>2. cache[t][s].estado = ShadowStatus(Own(t))
      BY <1>3, <1>4, <1>7, <2>2 DEF Free
    <3>3. ~ Free(cache[t][s]) /\ ~ Free(written[t][s])
      BY <1>4, <3>2 DEF Free, FreshSession
    <3>4. ~ Free(Visible(t, s))
      BY <3>3 DEF Visible
    <3> QED
      BY <1>3, <1>7, <2>2, <3>1, <3>2, <3>3, <3>4 DEF Free
  <2>3. CASE s # Own(t) /\ s \notin ShadowedBy(cache[t], Own(t))
    <3>1. Free(written[t][s])
      BY <1>3, <1>7, <2>3
    <3>2. Free(cache[t][s]) /\ s \in Relatives(Own(t))
      BY <1>1, <2>3, <3>1 DEF FreshSession
    <3> QED
      BY <1>1, <2>3, <3>2, AllShadowed DEF Free
  <2> QED
    BY <2>1, <2>2, <2>3
<1>8. /\ Kind' = Kind /\ Done(t)' = Done(t) \cup {Own(t)} /\ pc'[t] # "committed"
  <2>1. ~ Commit(t)
    BY <1>1 DEF Commit
  <2> QED
    BY <2>1, HereNext, StepDone
<1>9. Promised(t, s)' => written'[t][s] # Absent /\ table'[s] = Absent
  <2>1. CASE s = Own(t)
    BY <1>1, <1>3, <1>6, <2>1 DEF Hard, FreshSession
  <2>2. CASE s # Own(t)
    BY <1>1, <1>5, <1>8, <2>2 DEF FreshSession, Promised
  <2> QED
    BY <2>1, <2>2
<1>10. Got201(t)' = {}
  BY <1>8 DEF Got201
<1> QED
  BY <1>2, <1>7, <1>9, <1>10 DEF FreshSession

\* The other steps of a transaction.
LEMMA FreshSteps ==
    ASSUME CInv, NEW t \in Txn, Step(t), ~ ClaimWrites(t),
           NEW s \in Slot, Unborn(s), FreshSession(t, s), ~ Free(table[s])
    PROVE  FreshSession(t, s)' /\ ~ Free(table'[s])
<1>1. /\ Kind' = Kind /\ Requested(t)' = Requested(t)
      /\ item'[t] = item[t] => Own(t)' = Own(t)
      /\ ~ Rollback(t) => Done(t)' = Done(t)
      /\ pc[t] # "committed" /\ ((pc'[t] = "committed") <=> Commit(t))
      /\ ~ Commit(t) => table' = table
  BY HereNext, StepDone, TableKept
<1>2. Kind[t] = "release" => s # Own(t) /\ s \notin Relatives(Own(t))
  BY ReleasedSlot DEF Unborn
<1>3. CASE Rollback(t)
  <2>1. cache'[t][s] = Absent /\ written'[t][s] = Absent /\ Done(t)' = {} /\ pc'[t] = "failed"
    BY <1>3, SessionEnds, StepDone
  <2>2. table' = table
    BY <1>3 DEF Rollback
  <2> QED
    BY <2>1, <2>2 DEF FreshSession, Promised, Got201, Free
<1>4. CASE Commit(t)
  <2>1. /\ cache'[t][s] = Absent /\ written'[t][s] = Absent /\ pc'[t] = "committed"
        /\ pc[t] = "commit" /\ table'[s] = Visible(t, s)
    BY <1>1, <1>4, SessionEnds DEF Commit
  <2>2. ~ Free(table'[s])
    BY <2>1 DEF FreshSession, Visible
  <2>3. s \in Got201(t)' => table'[s] # Absent
    <3>1. ASSUME s \in Got201(t)'
          PROVE  Promised(t, s)
      <4>1. s \in Requested(t) /\ Kind[t] # "release"
        BY <1>1, <3>1 DEF Got201
      <4>2. Kind[t] = "claim" => s \in Done(t)
        BY <2>1, <4>1 DEF Done, DoneCount, Requested
      <4>3. Kind[t] \in {"claim", "hold", "release"}
        BY Here
      <4> QED
        BY <1>1, <2>1, <4>1, <4>2, <4>3 DEF Promised
    <3> QED
      BY <2>1, <3>1 DEF FreshSession, Visible
  <2> QED
    BY <2>1, <2>2, <2>3 DEF FreshSession, Promised, Free
<1>5. ASSUME ~ Rollback(t), ~ Commit(t),
             Free(cache'[t][s]) => written'[t][s] # Absent /\ table[s] = Absent,
             written[t][s] # Absent => written'[t][s] # Absent,
             Free(written'[t][s]) =>
                /\ Free(cache'[t][s]) /\ pc'[t] # "commit" /\ Kind[t] # "release"
                /\ Kind[t] = "claim" => s = Own(t)' \/ s \in Relatives(Own(t)')
                /\ Kind[t] = "hold" => s \in Requested(t),
             Kind[t] = "hold" /\ pc'[t] = "commit" /\ s \in Requested(t) =>
                written'[t][s] # Absent /\ table[s] = Absent
      PROVE  FreshSession(t, s)' /\ ~ Free(table'[s])
  <2>1. /\ Done(t)' = Done(t) /\ pc'[t] # "committed" /\ table' = table
    BY <1>1, <1>5
  <2>2. Promised(t, s)' => written'[t][s] # Absent /\ table[s] = Absent
    BY <1>1, <1>5, <2>1 DEF Promised, FreshSession
  <2>3. Got201(t)' = {}
    BY <2>1 DEF Got201
  <2> QED
    BY <1>1, <1>5, <2>1, <2>2, <2>3 DEF FreshSession
<1>6. CASE ~ Rollback(t) /\ ~ Commit(t) /\ Quiet(t)
  <2>1. /\ cache' = cache /\ written' = written /\ pc'[t] # "commit" /\ Own(t)' = Own(t)
    BY <1>1, <1>6 DEF Quiet
  <2> QED
    BY <1>5, <1>6, <2>1 DEF FreshSession
<1>7. ASSUME ~ Rollback(t), ~ Commit(t), NEW x \in Slot, Loads(t, x) \/ Inserts(t, x)
      PROVE  FreshSession(t, s)' /\ ~ Free(table'[s])
  <2>1. pc'[t] # "commit" /\ (Kind[t] = "claim" => Own(t)' = Own(t))
    BY <1>1, <1>7 DEF Loads, Inserts
  <2>2. CASE x # s \/ (Loads(t, x) /\ cache[t][s] # Absent)
    <3>1. cache'[t][s] = cache[t][s] /\ written'[t][s] = written[t][s]
      BY <1>7, <2>2 DEF Loads, Inserts
    <3> QED
      BY <1>5, <1>7, <2>1, <3>1 DEF FreshSession
  <2>3. CASE x = s /\ Loads(t, s) /\ cache[t][s] = Absent
    <3>1. cache'[t][s] = Visible(t, s) /\ written'[t][s] = written[t][s]
      BY <2>3 DEF Loads
    <3>2. ~ Free(written[t][s])
      BY <2>3 DEF FreshSession, Free
    <3>3. ~ Free(cache'[t][s])
      BY <3>1, <3>2 DEF Visible
    <3> QED
      BY <1>5, <1>7, <2>1, <3>1, <3>2, <3>3
  <2>4. CASE x = s /\ Inserts(t, s)
    <3>1. /\ written'[t][s] = FreeRow /\ cache'[t][s] = FreeRow /\ table[s] = Absent
          /\ s = target[t] /\ pc[t] = "insert"
      BY <2>4 DEF Inserts
    <3>2. FreeRow # Absent /\ Free(FreeRow)
      BY Here DEF Free, FreeRow
    <3>3. ControlOf(t) /\ Own(t) \in Requested(t)
      BY Here
    <3>4. Kind[t] # "release"
      BY <1>2, <3>1, <3>3 DEF ControlOf, ReleaseControl
    <3>5. Kind[t] = "hold" => s \in Requested(t)
      BY <3>1, <3>3 DEF ControlOf, HoldControl
    <3>6. Kind[t] = "claim" => s = Own(t) \/ s \in Relatives(Own(t))
      BY <3>1, <3>3 DEF ControlOf, ClaimControl, Ended
    <3> QED
      BY <1>5, <1>7, <2>1, <3>1, <3>2, <3>4, <3>5, <3>6
  <2> QED
    BY <1>7, <2>2, <2>3, <2>4
<1>8. CASE ~ Rollback(t) /\ ~ Commit(t) /\ HoldWrites(t)
  <2>1. /\ Kind[t] = "hold" /\ cache' = cache
        /\ s \notin Requested(t) => written'[t][s] = written[t][s]
        /\ s \in Requested(t) => cache[t][s] = FreeRow /\ Hard(written'[t][s])
    BY <1>8, HoldWritten DEF HoldWrites
  <2>2. Free(FreeRow)
    BY Here DEF Free, FreeRow
  <2>3. ~ Free(written'[t][s])
    BY <2>1 DEF FreshSession, Free, Hard, HardBlockStatuses
  <2>4. written[t][s] # Absent => written'[t][s] # Absent
    BY <2>1 DEF Hard
  <2>5. Free(cache'[t][s]) => written'[t][s] # Absent /\ table[s] = Absent
    BY <2>1, <2>4 DEF FreshSession
  <2>6. s \in Requested(t) => written'[t][s] # Absent /\ table[s] = Absent
    BY <2>1, <2>2, <2>5
  <2> QED
    BY <1>5, <1>8, <2>1, <2>3, <2>4, <2>5, <2>6
<1>9. CASE ~ Rollback(t) /\ ~ Commit(t) /\ (ReleaseFinds(t) \/ ReleaseWrites(t))
  <2>1. Kind[t] = "release"
    BY <1>9, Here DEF ReleaseFinds, ReleaseWrites, ControlOf, ClaimControl, HoldControl
  <2>2. written'[t][s] = written[t][s]
    BY <1>2, <1>9, <2>1, ReleaseWritten DEF ReleaseFinds
  <2>3. cache'[t][s] = cache[t][s]
    <3>1. cache' = cache \/ cache' = [cache EXCEPT ![t][Own(t)] = table[Own(t)]]
      BY <1>9 DEF ReleaseFinds, ReleaseWrites
    <3>2. cache \in [Txn -> [Slot -> Row \cup {Absent}]]
      BY Here
    <3> QED
      BY <1>2, <2>1, <3>1, <3>2
  <2> QED
    BY <1>5, <1>9, <2>1, <2>2, <2>3 DEF FreshSession
<1> QED
  BY <1>3, <1>4, <1>6, <1>7, <1>8, <1>9, StepKinds

\* What is known about fresh slots, with what it rests on.
FreshInv == CInv /\ Fresh /\ FreshSlotOneWinner

\* It is inductive.
LEMMA FreshNext ==
    ASSUME TwoLevelHierarchy, FreshInv, [Next]_vars
    PROVE  FreshInv'
<1>1. ASSUME NEW t \in Txn, Step(t)
      PROVE  FreshInv'
  <2>1. /\ CInv /\ Start' = Start /\ CInv' /\ Kind' = Kind /\ Items' = Items
        /\ \A s \in Slot : Unborn(s)' <=> Unborn(s)
    BY <1>1, StepKeepsControl, HereNext, SameRequest DEF FreshInv, Unborn
  <2>2. ASSUME NEW s \in Slot, Unborn(s)
        PROVE  ~ Free(table'[s]) /\ \A u \in Txn : FreshSession(u, s)'
    <3>1. ~ Free(table[s]) /\ \A u \in Txn : FreshSession(u, s)
      BY <2>2 DEF FreshInv, Fresh
    <3>2. FreshSession(t, s)' /\ ~ Free(table'[s])
      <4>1. CASE ClaimWrites(t)
        BY <1>1, <2>1, <3>1, <4>1, FreshClaim DEF ClaimWrites
      <4>2. CASE ~ ClaimWrites(t)
        BY <1>1, <2>1, <2>2, <3>1, <4>2, FreshSteps
      <4> QED
        BY <4>1, <4>2
    <3> QED
      BY <1>1, <2>1, <3>1, <3>2, FreshOther
  <2>3. Fresh'
    BY <2>1, <2>2 DEF Fresh
  <2>4. \A u \in Txn : u # t => Got201(u)' = Got201(u)
    BY <1>1, <2>1, StepDone, HereNext, SameRequest DEF Got201
  <2>5. ASSUME NEW u \in Txn, u # t, NEW s \in Got201(t)', s \in Got201(u)
        PROVE  ~ Unborn(s)
    <3>1. pc'[t] = "committed" /\ s \in Requested(t) /\ Kind[t] # "release"
      BY <1>1, <2>1, <2>5, HereNext DEF Got201
    <3>2. Commit(t) /\ pc[t] = "commit" /\ s \in Slot
      BY <1>1, <2>1, <3>1, StepDone, Here DEF Commit
    <3>3. Promised(t, s)
      <4>1. Kind[t] = "claim" => s \in Done(t)
        BY <3>1, <3>2 DEF Done, DoneCount, Requested
      <4>2. Kind[t] \in {"claim", "hold", "release"}
        BY <2>1, Here
      <4> QED
        BY <3>1, <3>2, <4>1, <4>2 DEF Promised
    <3> QED
      BY <2>5, <3>2, <3>3 DEF FreshInv, Fresh, FreshSession
  <2>6. FreshSlotOneWinner'
    BY <2>1, <2>4, <2>5 DEF FreshInv, FreshSlotOneWinner, Unborn
  <2> QED
    BY <2>1, <2>3, <2>6 DEF FreshInv
<1>2. ASSUME UNCHANGED vars
      PROVE  FreshInv'
  <2>1. CInv'
    BY <1>2, StutterKeepsControl DEF FreshInv
  <2>2. /\ Kind' = Kind /\ Start' = Start /\ Items' = Items
        /\ \A t \in Txn : /\ Own(t)' = Own(t) /\ Done(t)' = Done(t)
                          /\ Requested(t)' = Requested(t) /\ Got201(t)' = Got201(t)
    BY <1>2 DEF vars, Own, Requested, Got201, Done, DoneCount, Kind, Start, Items
  <2>3. Fresh' /\ FreshSlotOneWinner'
    BY <1>2, <2>2 DEF FreshInv, Fresh, Unborn, FreshSession, Promised, FreshSlotOneWinner, vars
  <2> QED
    BY <2>1, <2>3 DEF FreshInv
<1> QED
  BY <1>1, <1>2 DEF Next, Terminating

\* A slot whose row was never inserted, and which no release inserts, goes to
\* one request, however the requests interleave.
THEOREM FreshSlotHasOneWinner ==
    ASSUME TwoLevelHierarchy
    PROVE  Spec => []FreshSlotOneWinner
<1>1. ASSUME Init PROVE FreshInv
  <2>1. \A t \in Txn : Got201(t) = {}
    BY <1>1, InitNothing DEF Got201
  <2>2. \A s \in Slot, t \in Txn : Start[s] = Absent => FreshSession(t, s)
    BY <1>1, <2>1, InitNothing DEF FreshSession, Promised, Free
  <2> QED
    BY <1>1, <2>1, <2>2, InitNothing DEF FreshInv, Fresh, Unborn, FreshSlotOneWinner, Free
<1>2. FreshInv => FreshSlotOneWinner
  BY DEF FreshInv
<1> QED
  BY <1>1, <1>2, FreshNext, PTL DEF Spec

\* What a run checks of the claims, for any number of transactions.
THEOREM ClaimsAlwaysRight ==
    ASSUME TwoLevelHierarchy
    PROVE  Spec => []ClaimInv
<1>1. TypeOK /\ FreshSlotOneWinner /\ FamilyOneWinner => ClaimInv
  BY DEF ClaimInv
<1> QED
  BY <1>1, TypeCorrect, FreshSlotHasOneWinner, FamilyHasOneWinner, PTL

=============================================================================
