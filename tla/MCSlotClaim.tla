---------------------------- MODULE MCSlotClaim ----------------------------
(***************************************************************************)
(* Instances of SlotClaim for TLC: a hall with two rooms, and requests     *)
(* that arrive at the same time.                                           *)
(***************************************************************************)
EXTENDS SlotClaim, TLC

CONSTANTS hall, room1, room2, a, b, c, d, old

Hall == [s \in Space |-> IF s = hall THEN NoSpace ELSE hall]

Morning == <<9, 11>>
OneWindow == {Morning}

AllBookable == Space \X Window

\* Reservations that are requested, and one that is there already.
Ids == Txn \cup {old}

RankOf == hall :> 1 @@ room1 :> 2 @@ room2 :> 3

BySpaceThenStart == [s \in Slot |-> 100 * RankOf[s[1]] + s[2][1]]

At(space) == <<space, Morning>>

\* No row was ever inserted; all are there and free; old has the hall.
NoRows == [s \in Slot |-> Absent]

FreeRows == [s \in Slot |-> FreeRow]

HallTaken ==
    [s \in Slot |->
        IF s[1] = hall
        THEN [estado |-> "TTL_BLOCKED", reservation_id |-> old, quote_id |-> None]
        ELSE [FreeRow EXCEPT !.estado = "BLOCKED_BY_PARENT"]]

\* The requests are reservations; d is a quote, or the release of old.
Last(kind) == [t \in Txn |-> IF t = d THEN kind ELSE "claim"]

\* Two events that name the rooms in opposite orders, one room, and a quote.
Events ==
    [kind |-> Last("hold"), start |-> NoRows,
     items |-> a :> <<At(room1), At(room2)>> @@ b :> <<At(room2), At(room1)>>
               @@ c :> <<At(room1)>> @@ d :> <<At(room2), At(hall)>>]

\* A room, both rooms, the hall, and the release of the hall.
HallReleased ==
    [kind |-> Last("release"), start |-> HallTaken,
     items |-> a :> <<At(room1)>> @@ b :> <<At(room2), At(room1)>>
               @@ c :> <<At(hall)>> @@ d :> <<At(hall)>>]

\* A room and the hall, while a cancel overlaps the sweep: the hall, or the other
\* room, is released twice at a time.
ReleasedTwice ==
    {[kind |-> [t \in Txn |-> IF t \in {c, d} THEN "release" ELSE "claim"],
      start |-> [s \in Slot |->
          IF s = At(x) THEN [FreeRow EXCEPT !.estado = "RESERVED", !.reservation_id = old]
          ELSE IF x = hall THEN [FreeRow EXCEPT !.estado = "BLOCKED_BY_PARENT"]
          ELSE IF s[1] = hall THEN [FreeRow EXCEPT !.estado = "BLOCKED_BY_CHILD"]
          ELSE FreeRow],
      items |-> a :> <<At(room1)>> @@ b :> <<At(hall)>> @@ c :> <<At(x)>> @@ d :> <<At(x)>>] :
        x \in {hall, room2}}

\* A room, another one or the hall, and an event or a quote of both rooms or
\* of the hall, on rows that are there or not.
Anything ==
    {[kind |-> Last(kind), start |-> start,
      items |-> a :> <<At(room1)>> @@ b :> <<At(s)>> @@ c :> <<At(room2), At(room1)>>
                @@ d :> <<At(hall)>>] :
        kind \in {"claim", "hold"}, start \in {NoRows, FreeRows}, s \in {room2, hall}}

Together == {Events, HallReleased} \cup ReleasedTwice \cup Anything

\* One room twice.
SameWindow ==
    {[kind |-> Last("claim"), start |-> FreeRows,
      items |-> a :> <<At(room1)>> @@ b :> <<At(room1)>>]}

\* The hypothesis of the theorems about claims holds of both instances.
ASSUME InstancesHaveTwoLevels == TwoLevelHierarchy

=============================================================================
