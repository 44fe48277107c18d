------------------------------ MODULE ExprTrie ------------------------------
(***************************************************************************)
(* ExprTrie (src/expr_trie.h), the index by which State::mkExprInternal    *)
(* finds the expression with given children.                               *)
(*                                                                         *)
(* A trie is a function: its domain is the set of the trie's nodes, each   *)
(* the path that leads to it, and it maps a node to d_data, Null where     *)
(* that is nullptr.                                                        *)
(***************************************************************************)
EXTENDS Naturals, Sequences, FiniteSets

EmptyTrie(null) == [p \in {<<>>} |-> null]

Prefix(p, i) == SubSeq(p, 1, i)

PrefixesOf(p) == {Prefix(p, i) : i \in 0 .. Len(p)}

Extends(q, p) == Len(p) <= Len(q) /\ Prefix(q, Len(p)) = p

(* d_children of the node at p                                             *)
ChildrenOf(t, p) == {q \in DOMAIN t : Len(q) = Len(p) + 1 /\ Extends(q, p)}

(* get makes the nodes on the way that are missing.                        *)
TrieGet(t, p, null) ==
    [q \in DOMAIN t \cup PrefixesOf(p) |-> IF q \in DOMAIN t THEN t[q] ELSE null]

(* Every node on the way to p exists: the assert in the loop of remove.    *)
OnPath(t, p) == PrefixesOf(p) \subseteq DOMAIN t

(* The lengths at which the way to p passes a node with other children.    *)
Branches(t, p) == {i \in 0 .. Len(p) - 1 : Cardinality(ChildrenOf(t, Prefix(p, i))) > 1}

(* Faulty: a node that branches further down does not reset the candidate. *)
SingleFromStart(t, p) ==
    CHOOSE i \in 0 .. Len(p) : /\ \A j \in 0 .. i - 1 : j \in Branches(t, p)
                               /\ i \notin Branches(t, p)

(* etd, after the loop of remove: the length at which the way to p starts  *)
(* to be a single path, Len(p) if that is at its end (etd is nullptr).     *)
SingleFrom(t, p) ==
    CHOOSE i \in 0 .. Len(p) : /\ \A j \in Branches(t, p) : j < i
                               /\ i = 0 \/ i - 1 \in Branches(t, p)

(* What remove erases: the subtree that etd's edge leads to.               *)
Erased(t, p) ==
    {q \in DOMAIN t : SingleFrom(t, p) < Len(p) /\ Extends(q, Prefix(p, SingleFrom(t, p) + 1))}

(* The assignment to d_data after the loop is lost with the node if the    *)
(* node was just erased: it writes to freed memory then, and the outcome   *)
(* modelled is that of an allocator to which the end of a freed block is   *)
(* of no interest.                                                         *)
TrieRemove(t, p, null) ==
    [q \in DOMAIN t \ Erased(t, p) |-> IF q = p THEN null ELSE t[q]]

=============================================================================
