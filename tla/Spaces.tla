------------------------------- MODULE Spaces -------------------------------
(***************************************************************************)
(* The catalogue of spaces (modules/inventory/router.py and                *)
(* would_create_cycle of its services.py): spaces, the parent-child rows   *)
(* between them, and one booking rule for each.  A request reads, decides, *)
(* and commits later; nothing it reads is locked.                          *)
(***************************************************************************)
EXTENDS Naturals, FiniteSets

CONSTANTS
    Space,      \* ids that spaces get
    Curator,    \* requests of the staff that edit the catalogue
    Rule,       \* contents of space_booking_rules
    Ruled       \* bound: the spaces whose rule is edited

ASSUME SpacesAssumption ==
    /\ IsFiniteSet(Space)
    /\ "none" \notin Rule /\ Ruled \subseteq Space

VARIABLES
    spaces,     \* the rows of spaces
    edges,      \* the rows of space_relationships: <<parent, child>>
    rule,       \* the booking rule of each space
    curator,    \* what each request decided, and the edges it has not seen
    missed      \* pairs of edges of which one's check did not see the other

spacesVars == <<spaces, edges, rule, curator, missed>>

Edge == Space \X Space

Unoccupied == [op |-> "none", unseen |-> {}]

\* The edges that touch a space.
At(s) == {e \in edges : s \in {e[1], e[2]}}

-----------------------------------------------------------------------------
(* POST /space-relationships.                                              *)

\* Mutant: only an edge back from the child to the parent is a cycle.
WouldCycleDirect(p, c) == p = c \/ <<c, p>> \in edges

\* The children of some spaces.
Children(S) == {e[2] : e \in {f \in edges : f[1] \in S}}

\* What the search from a space has seen when its queue is empty: each round
\* adds the children of what was seen before.
Reached(c) ==
    LET seen[n \in Nat] == IF n = 0 THEN {c} ELSE seen[n - 1] \cup Children(seen[n - 1])
    IN  seen[Cardinality(Space)]

\* would_create_cycle: the parent is reached from the child.
WouldCycle(p, c) == p \in Reached(c)

\* The search reads every edge of the tenant in one query.
RelateCheck(k, p, c) ==
    /\ curator[k] = Unoccupied
    /\ ~ WouldCycle(p, c)
    /\ curator' = [curator EXCEPT ![k] = [op |-> "relate", edge |-> <<p, c>>, unseen |-> {}]]
    /\ UNCHANGED <<spaces, edges, rule, missed>>

\* The requests once k has ended, with new edges they have not seen and
\* without the edges that are gone.
After(k, new, gone) ==
    [j \in Curator |->
        IF j = k \/ curator[j] = Unoccupied THEN Unoccupied
        ELSE [curator[j] EXCEPT !.unseen = (@ \cup new) \ gone]]

\* The keys of the table refuse a second row and a space that is gone.
RelateCommit(k) ==
    /\ curator[k].op = "relate"
    /\ LET e == curator[k].edge
       IN  \/ /\ e \notin edges /\ {e[1], e[2]} \subseteq spaces
              /\ edges' = edges \cup {e}
              /\ missed' = missed \cup {{e, f} : f \in curator[k].unseen}
              /\ curator' = After(k, {e}, {})
           \/ /\ e \in edges \/ ~ {e[1], e[2]} \subseteq spaces
              /\ curator' = After(k, {}, {})
              /\ UNCHANGED <<edges, missed>>
    /\ UNCHANGED <<spaces, rule>>

\* What is known of the edges that stay.
MissedWithout(gone) == {pair \in missed : pair \cap gone = {}}

\* DELETE /space-relationships/{id}.
Unrelate(e) ==
    /\ e \in edges
    /\ edges' = edges \ {e}
    /\ missed' = MissedWithout({e})
    /\ curator' = [k \in Curator |-> [curator[k] EXCEPT !.unseen = @ \ {e}]]
    /\ UNCHANGED <<spaces, rule>>

-----------------------------------------------------------------------------
(* POST and DELETE /spaces, PUT /space-booking-rules.                      *)

CreateSpace(s) ==
    /\ s \notin spaces
    /\ spaces' = spaces \cup {s}
    /\ UNCHANGED <<edges, rule, curator, missed>>

\* Before the DELETE the session loads the relationships of the space and sets
\* their column to NULL, which the table refuses: one that has any stays.
DeleteSpaceLoad(k, s) ==
    /\ curator[k] = Unoccupied
    /\ s \in spaces /\ At(s) = {}
    /\ curator' = [curator EXCEPT ![k] = [op |-> "remove", space |-> s, unseen |-> {}]]
    /\ UNCHANGED <<spaces, edges, rule, missed>>

\* The cascade takes what was related to it since, and its rule.  (It takes
\* its reservations too, confirmed ones included.)
DeleteSpaceCommit(k) ==
    /\ curator[k].op = "remove"
    /\ LET s == curator[k].space
       IN  /\ spaces' = spaces \ {s}
           /\ rule' = [rule EXCEPT ![s] = "none"]
           /\ edges' = edges \ At(s)
           /\ missed' = MissedWithout(At(s))
           /\ curator' = After(k, {}, At(s))

RuleLoad(k, s, r) ==
    /\ curator[k] = Unoccupied
    /\ curator' = [curator EXCEPT ![k] =
                     [op |-> "rule", space |-> s, new |-> r, found |-> rule[s] # "none",
                      unseen |-> {}]]
    /\ UNCHANGED <<spaces, edges, rule, missed>>

\* An INSERT needs the space and no rule, an UPDATE the row that was found;
\* otherwise the request fails.
RuleCommit(k) ==
    /\ curator[k].op = "rule"
    /\ LET s == curator[k].space
           lands == s \in spaces /\ (curator[k].found <=> rule[s] # "none")
       IN  rule' = IF lands THEN [rule EXCEPT ![s] = curator[k].new] ELSE rule
    /\ curator' = After(k, {}, {})
    /\ UNCHANGED <<spaces, edges, missed>>

-----------------------------------------------------------------------------
SpacesInit ==
    /\ spaces = Space /\ edges = {}
    /\ rule = [s \in Space |-> "none"]
    /\ curator = [k \in Curator |-> Unoccupied]
    /\ missed = {}

SpacesNext ==
    \/ \E k \in Curator, p, c \in Space : RelateCheck(k, p, c)
    \/ \E k \in Curator : RelateCommit(k) \/ DeleteSpaceCommit(k) \/ RuleCommit(k)
    \/ \E e \in edges : Unrelate(e)
    \/ \E s \in Space : CreateSpace(s)
    \/ \E k \in Curator, s \in Space : DeleteSpaceLoad(k, s)
    \/ \E k \in Curator, s \in Ruled, r \in Rule : RuleLoad(k, s, r)

SpacesSpec == SpacesInit /\ [][SpacesNext]_spacesVars

-----------------------------------------------------------------------------
(* Properties.                                                             *)

\* Types; and a rule belongs to a space that is there.
SpacesTypeOK ==
    /\ spaces \subseteq Space /\ edges \subseteq Edge
    /\ rule \in [Space -> Rule \cup {"none"}]
    /\ \A s \in Space : rule[s] # "none" => s \in spaces
    /\ \A k \in Curator : curator[k].op \in {"none", "relate", "remove", "rule"}
    /\ \A pair \in missed : pair \subseteq edges /\ Cardinality(pair) = 2

\* The hierarchy has a cycle only where requests overlapped: in every set of
\* edges that leads on without end, two edges were checked without seeing each
\* other (create_relationship, would_create_cycle).
CyclesOnlyByOverlap ==
    \A C \in (SUBSET edges) \ {{}} :
        (\A e \in C : \E f \in C : f[1] = e[2]) =>
            \E e, f \in C : {e, f} \in missed

\* However edits and deletions meet, an edge joins two spaces that are there.
EdgesJoinSpaces == \A e \in edges : {e[1], e[2]} \subseteq spaces

\* A relationship never disappears with its space unless it came while the
\* space was being deleted: one that has relationships cannot be deleted.
RelatedStay ==
    [][\A k \in Curator : curator[k].op = "remove" /\ curator'[k] = Unoccupied =>
          At(curator[k].space) \subseteq curator[k].unseen]_spacesVars

\* The catalogue of spaces (inventory/router.py).
SpacesInv == SpacesTypeOK /\ CyclesOnlyByOverlap /\ EdgesJoinSpaces

=============================================================================
