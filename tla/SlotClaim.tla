----------------------------- MODULE SlotClaim -----------------------------
(***************************************************************************)
(* Database transactions on the inventory table that overlap in time:      *)
(* claim_slot_for_reservation once per item of a request, apply_soft_hold_ *)
(* for_quote, and the release of a reservation (modules/inventory), split  *)
(* at every statement they send.                                           *)
(*                                                                         *)
(* PostgreSQL and the ORM are external and modelled from how the code uses *)
(* them: READ COMMITTED statements see committed rows and their own        *)
(* writes; SELECT ... FOR UPDATE and INSERT lock a row to the end of the   *)
(* transaction; a second INSERT of one key waits and then fails on the     *)
(* unique constraint; a cycle of waits costs one transaction; a flush      *)
(* writes the attributes that differ from the object as loaded; and a row  *)
(* that the session has loaded keeps its attributes when it is selected    *)
(* again, FOR UPDATE or not, because populate_existing is not asked for.   *)
(***************************************************************************)
EXTENDS Slots, Sequences, FiniteSets

CONSTANTS
    Txn,        \* transactions; each is also its reservation and quote id
    Requests,   \* what they may be asked for together: see request
    Rank,       \* the order of the rows by space_id, fecha and hours
    Absent

ASSUME SlotClaimAssumption ==
    /\ Txn \subseteq Reservation \cap Quote
    /\ \A q \in Requests :
        /\ q.kind \in [Txn -> {"claim", "hold", "release"}]
        /\ \A t \in Txn : q.items[t] \in Seq(Slot) /\ q.items[t] # <<>>
        /\ q.start \in [Slot -> Row \cup {Absent}]
        /\ \A t \in Txn : q.kind[t] = "release" =>
              LET row == q.start[q.items[t][1]]
              IN  row # Absent /\ row.reservation_id \in Reservation \ Txn
    /\ \A s, u \in Slot : Rank[s] \in Nat /\ (s # u => Rank[s] # Rank[u])
    /\ Absent \notin Row

VARIABLES
    request,    \* kind and items of each transaction, and the table at the start
    table,      \* committed rows
    lock,       \* the transaction that has locked a row, or is inserting it
    pc,         \* the statement each transaction sends next
    item,       \* position in Items
    target,     \* the row that statement is about
    todo,       \* rows it turns to after target
    cache,      \* the session's objects: rows as they were when first loaded
    written,    \* flushed and not committed
    late        \* history: slots that a release wrote when they were not, or
                \* no longer, booked for its reservation

vars == <<request, table, lock, pc, item, target, todo, cache, written, late>>

Kind == request.kind

\* The slots of a request, in the order of the request.
Items == request.items

\* The table before the transactions; Absent was never inserted.
Start == request.start

Nothing == [s \in Slot |-> Absent]

Requested(t) == {Items[t][i] : i \in 1..Len(Items[t])}

Own(t) == Items[t][item[t]]

\* The reservation that a release gives up.
Owner(t) == Start[Own(t)].reservation_id

Init ==
    /\ request \in Requests
    /\ table = Start
    /\ lock = [s \in Slot |-> None]
    /\ pc = [t \in Txn |-> IF Kind[t] = "release" THEN "find" ELSE "load"]
    /\ item = [t \in Txn |-> 1]
    /\ target = [t \in Txn |-> Items[t][1]]
    /\ todo = [t \in Txn |-> {}]
    /\ cache = [t \in Txn |-> Nothing]
    /\ written = [t \in Txn |-> Nothing]
    /\ late = {}

-----------------------------------------------------------------------------
(* The database and the session.                                           *)

Visible(t, s) == IF written[t][s] # Absent THEN written[t][s] ELSE table[s]

VisibleTable(t) ==
    [s \in Slot |-> IF Visible(t, s) = Absent THEN FreeRow ELSE Visible(t, s)]

Unlocked(t) == [s \in Slot |-> IF lock[s] = t THEN None ELSE lock[s]]

\* Mutants: a request that failed starts over; the locks go, the writes stay.
RollbackRetries(t) ==
    /\ pc' = [pc EXCEPT ![t] = IF Kind[t] = "release" THEN "find" ELSE "load"]
    /\ item' = [item EXCEPT ![t] = 1]
    /\ target' = [target EXCEPT ![t] = Items[t][1]]
    /\ todo' = [todo EXCEPT ![t] = {}]
    /\ lock' = Unlocked(t)
    /\ written' = [written EXCEPT ![t] = Nothing]
    /\ cache' = [cache EXCEPT ![t] = Nothing]
    /\ UNCHANGED table

RollbackKeepsWrites(t) ==
    /\ pc' = [pc EXCEPT ![t] = "failed"]
    /\ lock' = Unlocked(t)
    /\ cache' = [cache EXCEPT ![t] = Nothing]
    /\ UNCHANGED <<table, item, target, todo, written>>

Rollback(t) ==
    /\ pc' = [pc EXCEPT ![t] = "failed"]
    /\ lock' = Unlocked(t)
    /\ written' = [written EXCEPT ![t] = Nothing]
    /\ cache' = [cache EXCEPT ![t] = Nothing]
    /\ UNCHANGED <<table, item, target, todo>>

Commit(t) ==
    /\ pc[t] = "commit"
    /\ table' = [s \in Slot |-> Visible(t, s)]
    /\ pc' = [pc EXCEPT ![t] = "committed"]
    /\ lock' = Unlocked(t)
    /\ written' = [written EXCEPT ![t] = Nothing]
    /\ cache' = [cache EXCEPT ![t] = Nothing]
    /\ UNCHANGED <<item, target, todo>>

\* The row version an UPDATE leaves: only changed attributes are in its SET.
Updated(current, loaded, new) ==
    [a \in DOMAIN new |-> IF new[a] # loaded[a] THEN new[a] ELSE current[a]]

\* Flush the objects of t, which now have the values new.
Flush(t, new) ==
    written' = [written EXCEPT ![t] =
        [s \in Slot |-> IF new[s] # cache[t][s]
                        THEN Updated(Visible(t, s), cache[t][s], new[s])
                        ELSE written[t][s]]]

\* Turn to one of the rows in rest; to the step done when none is left.
\* Relatives come parent first and the children in any order; the rows of a
\* hold are locked by rank.
Turn(t, rest, step, done) ==
    IF rest = {}
    THEN /\ pc' = [pc EXCEPT ![t] = done]
         /\ UNCHANGED <<target, todo>>
    ELSE \E s \in rest :
            /\ IF Kind[t] = "hold" THEN \A u \in rest : Rank[s] <= Rank[u]
               ELSE ParentSlot(Own(t)) \in rest => s = ParentSlot(Own(t))
            /\ pc' = [pc EXCEPT ![t] = step]
            /\ target' = [target EXCEPT ![t] = s]
            /\ todo' = [todo EXCEPT ![t] = rest \ {s}]

-----------------------------------------------------------------------------
(* _get_or_create_slot, and the SELECT ... FOR UPDATE that follows it.     *)

\* A hold gets all its rows, in the order of the request, before it locks any.
Got(t) ==
    IF Kind[t] # "hold"
    THEN pc' = [pc EXCEPT ![t] = "lock"] /\ UNCHANGED <<item, target, todo>>
    ELSE IF item[t] < Len(Items[t])
    THEN /\ pc' = [pc EXCEPT ![t] = "load"]
         /\ item' = [item EXCEPT ![t] = @ + 1]
         /\ target' = [target EXCEPT ![t] = Items[t][item[t] + 1]]
         /\ UNCHANGED todo
    ELSE Turn(t, Requested(t), "lock", "check") /\ UNCHANGED item

Load(t) ==
    LET s == target[t]
    IN  /\ pc[t] = "load"
        /\ IF Visible(t, s) = Absent
           THEN /\ pc' = [pc EXCEPT ![t] = "insert"]
                /\ UNCHANGED <<item, target, todo, cache>>
           ELSE /\ cache' = [cache EXCEPT ![t][s] = IF @ = Absent THEN Visible(t, s) ELSE @]
                /\ Got(t)
        /\ UNCHANGED <<table, lock, written>>

Insert(t) ==
    LET s == target[t]
    IN  /\ pc[t] = "insert"
        /\ \/ /\ table[s] # Absent
              /\ Rollback(t)
           \/ /\ table[s] = Absent
              /\ lock[s] = None
              /\ lock' = [lock EXCEPT ![s] = t]
              /\ written' = [written EXCEPT ![t][s] = FreeRow]
              /\ cache' = [cache EXCEPT ![t][s] = FreeRow]
              /\ Got(t)
              /\ UNCHANGED table

\* Mutant: FOR UPDATE only for the requested slot, not for its relatives.
LockOwnOnly(t) ==
    /\ pc[t] = "lock"
    /\ lock[target[t]] \in {None, t} \/ target[t] # Own(t)
    /\ lock' = IF target[t] = Own(t) THEN [lock EXCEPT ![target[t]] = t] ELSE lock
    /\ pc' = [pc EXCEPT ![t] = "check"]
    /\ UNCHANGED <<table, item, target, todo, cache, written>>

\* The object of the row stays as it was loaded: cache does not change.
Lock(t) ==
    /\ pc[t] = "lock"
    /\ lock[target[t]] \in {None, t}
    /\ lock' = [lock EXCEPT ![target[t]] = t]
    /\ IF Kind[t] = "hold"
       THEN Turn(t, todo[t], "lock", "check")
       ELSE pc' = [pc EXCEPT ![t] = "check"] /\ UNCHANGED <<target, todo>>
    /\ UNCHANGED <<table, item, cache, written>>

-----------------------------------------------------------------------------
(* claim_slot_for_reservation, for one item after the other.               *)

Relatives(s) == ChildSlots(s) \cup {p \in {ParentSlot(s)} : HasParent(s)}

\* The checks on the object are stale, the overlap query is not.
ClaimChecksOwn(t) ==
    LET s == Own(t)
    IN  /\ Kind[t] = "claim" /\ pc[t] = "check" /\ target[t] = s
        /\ IF /\ s \in Bookable
              /\ cache[t][s].estado = "AVAILABLE"
              /\ cache[t][s].reservation_id = None
              /\ \A o \in Overlapping(s) : VisibleTable(t)[o].estado = "AVAILABLE"
           THEN /\ Turn(t, Relatives(s), "load", "write")
                /\ UNCHANGED <<table, lock, item, cache, written>>
           ELSE Rollback(t)

\* What the row of a relative must not be.
Forbidden(t, s) ==
    HardBlockStatuses \cup
        {IF s = ParentSlot(Own(t)) THEN "BLOCKED_BY_PARENT" ELSE "BLOCKED_BY_CHILD"}

ClaimChecksRelative(t) ==
    /\ Kind[t] = "claim" /\ pc[t] = "check" /\ target[t] # Own(t)
    /\ IF cache[t][target[t]].estado \notin Forbidden(t, target[t])
       THEN /\ Turn(t, todo[t], "load", "write")
            /\ UNCHANGED <<table, lock, item, cache, written>>
       ELSE Rollback(t)

\* The objects of an item are garbage once its call has returned.
ClaimWrites(t) ==
    /\ Kind[t] = "claim" /\ pc[t] = "write"
    /\ Flush(t, Claim(cache[t], Own(t), t))
    /\ IF item[t] < Len(Items[t])
       THEN /\ item' = [item EXCEPT ![t] = @ + 1]
            /\ target' = [target EXCEPT ![t] = Items[t][item[t] + 1]]
            /\ pc' = [pc EXCEPT ![t] = "load"]
       ELSE pc' = [pc EXCEPT ![t] = "commit"] /\ UNCHANGED <<item, target>>
    /\ cache' = [cache EXCEPT ![t] = Nothing]
    /\ UNCHANGED <<table, lock, todo>>

-----------------------------------------------------------------------------
(* apply_soft_hold_for_quote.                                              *)

HoldChecksAndWrites(t) ==
    /\ Kind[t] = "hold" /\ pc[t] = "check"
    /\ IF Holdable(cache[t], Requested(t))
       THEN /\ Flush(t, Hold(cache[t], Requested(t), t))
            /\ pc' = [pc EXCEPT ![t] = "commit"]
            /\ UNCHANGED <<table, lock, item, target, todo, cache>>
       ELSE Rollback(t)

-----------------------------------------------------------------------------
(* The release of one reservation by a cancel request or by the sweep.     *)

ReleaseFinds(t) ==
    /\ pc[t] = "find"
    /\ IF table[Own(t)] # Absent /\ table[Own(t)].reservation_id = Owner(t)
       THEN /\ cache' = [cache EXCEPT ![t][Own(t)] = table[Own(t)]]
            /\ pc' = [pc EXCEPT ![t] = "siblings"]
       ELSE pc' = [pc EXCEPT ![t] = "commit"] /\ UNCHANGED cache
    /\ UNCHANGED <<table, lock, item, target, todo, written>>

\* The sibling query counts the released row too: it is not flushed yet.
ReleaseFindsSiblings(t) ==
    LET s == Own(t)
    IN  /\ pc[t] = "siblings"
        /\ Turn(t, IF HasParent(s)
                   THEN {p \in {ParentSlot(s)} : ~ ActiveChild(VisibleTable(t), p)}
                   ELSE ChildSlots(s), "load", "write")
        /\ UNCHANGED <<table, lock, item, cache, written>>

ReleaseTurns(t) ==
    /\ Kind[t] = "release" /\ pc[t] = "check"
    /\ Turn(t, todo[t], "load", "write")
    /\ UNCHANGED <<table, lock, item, cache, written>>

\* A release is late when another one of the same slot has committed since it
\* found the row: a cancel that overlaps the sweep.  So is one of a row that the
\* block endpoint had overwritten, which did not keep the slot for it.
IsLate(t) ==
    \/ table[Own(t)].reservation_id # Owner(t)
    \/ Start[Own(t)].estado \notin {"TTL_BLOCKED", "RESERVED"}

\* The flush locks the released row last, after its relatives.  It compares the
\* row with nothing, whatever has become of it.
ReleaseWrites(t) ==
    LET s == Own(t)
        shadow == IF HasParent(s) THEN "BLOCKED_BY_CHILD" ELSE "BLOCKED_BY_PARENT"
    IN  /\ Kind[t] = "release" /\ pc[t] = "write"
        /\ lock[s] \in {None, t}
        /\ lock' = [lock EXCEPT ![s] = t]
        /\ Flush(t, [u \in Slot |->
              IF u = s
              THEN [cache[t][s] EXCEPT !.estado = "AVAILABLE", !.reservation_id = None]
              ELSE IF /\ cache[t][u] # Absent
                      /\ cache[t][u].estado = shadow
                      /\ cache[t][u].reservation_id = None
              THEN [cache[t][u] EXCEPT !.estado = "AVAILABLE"]
              ELSE cache[t][u]])
        /\ late' = late \cup {x \in {s} : IsLate(t)}
        /\ pc' = [pc EXCEPT ![t] = "commit"]
        /\ UNCHANGED <<table, item, target, todo, cache>>

-----------------------------------------------------------------------------
(* Deadlocks, which PostgreSQL resolves by failing one transaction.        *)

Awaited(t) ==
    CASE pc[t] = "insert" /\ table[target[t]] = Absent -> lock[target[t]]
      [] pc[t] = "lock"                                -> lock[target[t]]
      [] Kind[t] = "release" /\ pc[t] = "write"        -> lock[Own(t)]
      [] OTHER                                         -> None

\* Every member of C waits for another one, and is waited for.
WaitCycle(C) == C # {} /\ {Awaited(t) : t \in C} = C /\ \A t \in C : Awaited(t) # t

DeadlockAbort(t) ==
    /\ \E C \in SUBSET Txn : t \in C /\ WaitCycle(C)
    /\ Rollback(t)

-----------------------------------------------------------------------------

Step(t) ==
    /\ \/ /\ \/ Load(t) \/ Insert(t) \/ Lock(t)
             \/ ClaimChecksOwn(t) \/ ClaimChecksRelative(t) \/ ClaimWrites(t)
             \/ HoldChecksAndWrites(t)
             \/ ReleaseFinds(t) \/ ReleaseFindsSiblings(t) \/ ReleaseTurns(t)
             \/ Commit(t)
             \/ DeadlockAbort(t)
          /\ UNCHANGED late
       \/ ReleaseWrites(t)
    /\ UNCHANGED request

Ended(t) == pc[t] \in {"committed", "failed"}

Terminating == (\A t \in Txn : Ended(t)) /\ UNCHANGED vars

Next == (\E t \in Txn : Step(t)) \/ Terminating

Spec == Init /\ [][Next]_vars

\* The server goes on with every request it has begun.
FairSpec == Spec /\ \A t \in Txn : WF_vars(Step(t))

-----------------------------------------------------------------------------
(* Properties.                                                             *)

\* The columns, the locks and the sessions have their types.
TypeOK ==
    /\ request \in Requests
    /\ table \in [Slot -> Row \cup {Absent}]
    /\ lock \in [Slot -> Txn \cup {None}]
    /\ pc \in [Txn -> {"find", "siblings", "load", "insert", "lock", "check", "write",
                       "commit", "committed", "failed"}]
    /\ item \in [Txn -> Nat]
    /\ \A t \in Txn : item[t] \in 1..Len(Items[t])
    /\ target \in [Txn -> Slot]
    /\ todo \in [Txn -> SUBSET Slot]
    /\ cache \in [Txn -> [Slot -> Row \cup {Absent}]]
    /\ written \in [Txn -> [Slot -> Row \cup {Absent}]]
    /\ \A t \in Txn, s \in Slot : written[t][s] # Absent => lock[s] = t
    /\ late \subseteq Slot

\* The slots a request was told, by its commit, that it has.
Got201(t) == IF pc[t] = "committed" /\ Kind[t] # "release" THEN Requested(t) ELSE {}

\* A slot whose row was never inserted goes to one request, however the
\* requests interleave: the losers fail on the unique key.  (A release inserts
\* the missing rows of relatives, of a space related after the booking, and
\* leaves them AVAILABLE: they are then as any other free row.)
FreshSlotOneWinner ==
    \A t, u \in Txn : t # u => \A s \in Got201(t) \cap Got201(u) :
        \/ Start[s] # Absent
        \/ \E r \in Txn : Kind[r] = "release" /\ s \in Relatives(Items[r][1])

\* The rows that late releases may have written.
Exposed == UNION {{s} \cup Relatives(s) : s \in late}

\* A space and a part of it are never both reserved for one window, although
\* both reservations check rows they loaded before they locked them: each
\* locks the other's row before it commits.  Only a late release, which makes
\* a row AVAILABLE that a claim has taken since, lets another claim in.
FamilyOneWinner ==
    \A t, u \in Txn : Kind[t] = "claim" /\ Kind[u] = "claim" =>
        \A s \in Got201(t), v \in Got201(u) :
            HasParent(s) /\ v = ParentSlot(s) => {s, v} \cap Exposed # {}

\* The slots and what the requests were told about them.
ClaimInv == TypeOK /\ FreshSlotOneWinner /\ FamilyOneWinner

\* Every request ends, although claims of a parent and of its child lock rows
\* in opposite orders, and inserts of missing rows come in any order.
EveryRequestEnds == \A t \in Txn : <>Ended(t)

(* What a comment of the repository says, and the code does not do.         *)

\* inventory/services.py:136 says that a claim verifies the slot again,
\* atomically, under its lock.  So no slot goes to two requests.
OneWinner == \A t, u \in Txn : t # u => Got201(t) \cap Got201(u) = {}

=============================================================================
