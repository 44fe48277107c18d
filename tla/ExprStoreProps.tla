--------------------------- MODULE ExprStoreProps ---------------------------
(***************************************************************************)
(* What the store of expressions must satisfy.                             *)
(***************************************************************************)
EXTENDS ExprStore

Composite == {e \in live : ~IsSymbol(e)}

(* The expressions that mkExprInternal can return again.                   *)
Terms == {<<p, trie[p]>> : p \in {q \in DOMAIN trie : trie[q] # Null}}

Map == INSTANCE TermMap WITH terms <- Terms, Calls <- UNION {[1 .. n -> Ids] : n \in Arities}

(* Deleting an expression takes that expression out of the trie and leaves *)
(* every other to be found.                                                *)
ImplementsTermMap == Map!TermSpec

(* Expressions with the same children are the same: equality of terms is   *)
(* equality of addresses everywhere in the checker.                        *)
Shared == \A d, e \in Composite : kids[d] = kids[e] => d = e

(* What the trie finds is alive, has the children it is found under, and   *)
(* is each live composite expression.                                      *)
TrieExact == Terms = {<<kids[e], e>> : e \in Composite}

(* The places in the heap that refer to e.                                 *)
ChildOf(e) == {c \in UNION {{d} \X DOMAIN kids[d] : d \in live} : kids[c[1]][c[2]] = e}

TypeOf(e) == {d \in Ids : typeCache[d] = e}

(* A reference count is never too small: it covers the handles, the        *)
(* parents, each as often as it has the child, and the cached types.       *)
CountsCover ==
    \A e \in Ids : rc[e] >= held[e] + Cardinality(ChildOf(e)) + Cardinality(TypeOf(e))

(* Nothing refers to a freed expression, be it a handle, a parent, a type  *)
(* or the trie, nor is there an entry of the type cache for it; and each   *)
(* expression waiting to be deleted is alive, unreferenced and waits once. *)
NoDangling ==
    /\ \A e \in Ids : held[e] > 0 => e \in live
    /\ \A e \in live : \A i \in DOMAIN kids[e] : kids[e][i] \in live
    /\ \A e \in Ids : typeCache[e] # Null => e \in live /\ typeCache[e] \in live
    /\ \A term \in Terms : term[2] \in live
    /\ LET waiting == IF deleting = Null THEN toDelete ELSE Append(toDelete, deleting)
       IN  /\ \A i \in DOMAIN waiting : waiting[i] \in live /\ rc[waiting[i]] = 0
           /\ \A i, j \in DOMAIN waiting : waiting[i] = waiting[j] => i = j

=============================================================================
