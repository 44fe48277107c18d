---------------------------- MODULE MCExprStore -----------------------------
(***************************************************************************)
(* Small instances of the store of expressions.                            *)
(***************************************************************************)
EXTENDS ExprStoreProps, TLC

CONSTANTS MaxHeld,   \* bound on the handles of an expression
          MaxCount,  \* bound on a reference count
          MaxNodes   \* bound on the nodes of the trie

(* Bounds the runs: addresses are the only thing the code runs out of.     *)
Bounds == /\ \A e \in Ids : held[e] <= MaxHeld /\ rc[e] <= MaxCount
          /\ Cardinality(DOMAIN trie) <= MaxNodes

Symmetry == Permutations(Ids)

=============================================================================
