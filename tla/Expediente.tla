----------------------------- MODULE Expediente -----------------------------
(***************************************************************************)
(* The chain of hashes of one reservation (modules/expediente).  A link    *)
(* carries chain_prev_sha256, here the number of the link it was computed  *)
(* from (0 for none), and created_at, which the database fills in with     *)
(* now(): the START of the transaction that appends the link.              *)
(***************************************************************************)
EXTENDS Integers

Numbers(links) == {l.n : l \in links}

\* Mutant: the oldest link is taken.
LastOfOldest(links) ==
    IF links = {} THEN {0}
    ELSE Numbers({l \in links : \A m \in links : l.at <= m.at})

\* What get_last_chain_sha256 may return: ORDER BY created_at DESC LIMIT 1
\* takes any one of the links of the transaction that started last.
LastOf(links) ==
    IF links = {} THEN {0}
    ELSE Numbers({l \in links : \A m \in links : m.at <= l.at})

\* append_document by a transaction that sees these links and started at at.
Appended(links, doc, at, n, prev) ==
    links \cup {[n |-> n, doc |-> doc, at |-> at, prev |-> prev]}

\* Nothing is computed twice from the same link.
Linear(links) == \A l, m \in links : l.prev = m.prev => l = m

=============================================================================
