----------------------------- MODULE ExprStore ------------------------------
(***************************************************************************)
(* The expressions of Ethos, their sharing and their deletion:             *)
(* State::mkExprInternal, mkSymbolInternal and markDeleted (src/state.cpp),*)
(* ExprValue and Expr (src/expr.cpp) and the tables of State that have     *)
(* expressions as keys.                                                    *)
(*                                                                         *)
(* An expression is its address, and an address is used again once it is   *)
(* freed.  One kind of composite expressions stands for all of them, which *)
(* have a trie each, and symbols for the expressions without children.     *)
(***************************************************************************)
EXTENDS ExprTrie

CONSTANTS Ids,      \* addresses of expressions
          Arities,  \* the numbers of children of the composite kind
          Null      \* nullptr

ASSUME ExprStoreAssumption == /\ Null \notin Ids
                              /\ Arities \subseteq Nat \ {0}

VARIABLES
    live,       \* the expressions that are allocated
    kids,       \* d_children
    rc,         \* d_rc
    held,       \* how many Expr handles the rest of the program has
    typeCache,  \* d_typeCache; Null where the map has no entry
    trie,       \* d_trie, of the composite kind
    deleting,   \* the e of markDeleted; Null outside of it
    toDelete    \* d_toDelete

vars == <<live, kids, rc, held, typeCache, trie, deleting, toDelete>>

TypeOK ==
    /\ live \subseteq Ids
    /\ kids \in [Ids -> Seq(Ids)]
    /\ rc \in [Ids -> Nat]
    /\ held \in [Ids -> Nat]
    /\ typeCache \in [Ids -> Ids \cup {Null}]
    /\ DOMAIN trie \subseteq Seq(Ids)
    /\ \A p \in DOMAIN trie : trie[p] \in Ids \cup {Null}
    /\ deleting \in Ids \cup {Null}
    /\ toDelete \in Seq(Ids)

Init ==
    /\ live = {}
    /\ kids = [e \in Ids |-> <<>>]
    /\ rc = [e \in Ids |-> 0]
    /\ held = [e \in Ids |-> 0]
    /\ typeCache = [e \in Ids |-> Null]
    /\ trie = EmptyTrie(Null)
    /\ deleting = Null
    /\ toDelete = <<>>

(* markDeleted runs to its end before the program goes on.                 *)
Ready == deleting = Null

Held == {e \in Ids : held[e] > 0}

Children == UNION {[1 .. n -> Held] : n \in Arities}

IsSymbol(e) == kids[e] = <<>>

-----------------------------------------------------------------------------
(* Making expressions *)

(* Faulty: a child that occurs twice is counted once.                      *)
OccursOnce(cs, e) == IF \E i \in DOMAIN cs : cs[i] = e THEN 1 ELSE 0

Occurrences(cs, e) == Cardinality({i \in DOMAIN cs : cs[i] = e})

(* The handle the caller gets.                                             *)
Handle(e) == held' = [held EXCEPT ![e] = @ + 1]

(* A symbol of type t, or one whose type is not set (Type, the kinds of    *)
(* the type checker).                                                      *)
MkSymbol(e, t) ==
    /\ Ready
    /\ e \notin live
    /\ t \in Held \cup {Null}
    /\ live' = live \cup {e}
    /\ kids' = [kids EXCEPT ![e] = <<>>]
    /\ typeCache' = [typeCache EXCEPT ![e] = t]
    /\ rc' = [d \in Ids |-> IF d = e THEN 1 ELSE IF d = t THEN rc[d] + 1 ELSE rc[d]]
    /\ Handle(e)
    /\ UNCHANGED <<trie, deleting, toDelete>>

Found(cs) == TrieGet(trie, cs, Null)[cs]

(* mkExprInternal finds the expression.                                    *)
MkExprFinds(cs) ==
    /\ Ready
    /\ Found(cs) # Null
    /\ rc' = [rc EXCEPT ![Found(cs)] = @ + 1]
    /\ Handle(Found(cs))
    /\ UNCHANGED <<live, kids, typeCache, trie, deleting, toDelete>>

(* Faulty: the trie is not asked first.                                    *)
MkExprAlwaysMakes(cs, e) ==
    /\ Ready
    /\ e \notin live
    /\ live' = live \cup {e}
    /\ kids' = [kids EXCEPT ![e] = cs]
    /\ trie' = [TrieGet(trie, cs, Null) EXCEPT ![cs] = e]
    /\ rc' = [d \in Ids |-> IF d = e THEN 1 ELSE rc[d] + Occurrences(cs, d)]
    /\ Handle(e)
    /\ UNCHANGED <<typeCache, deleting, toDelete>>

(* mkExprInternal makes it, at any address that is free.                   *)
MkExprMakes(cs, e) ==
    /\ Ready
    /\ Found(cs) = Null
    /\ e \notin live
    /\ live' = live \cup {e}
    /\ kids' = [kids EXCEPT ![e] = cs]
    /\ trie' = [TrieGet(trie, cs, Null) EXCEPT ![cs] = e]
    /\ rc' = [d \in Ids |-> IF d = e THEN 1 ELSE rc[d] + Occurrences(cs, d)]
    /\ Handle(e)
    /\ UNCHANGED <<typeCache, deleting, toDelete>>

-----------------------------------------------------------------------------
(* Tables *)

(* Faulty: the cache has the address of the type and not a handle.         *)
CacheTypeAddress(e, t) ==
    /\ Ready
    /\ e \in live /\ t \in Held
    /\ typeCache[e] = Null
    /\ typeCache' = [typeCache EXCEPT ![e] = t]
    /\ UNCHANGED <<live, kids, rc, held, trie, deleting, toDelete>>

(* getType caches the type t of e.                                         *)
CacheType(e, t) ==
    /\ Ready
    /\ e \in live /\ t \in Held
    /\ typeCache[e] = Null
    /\ typeCache' = [typeCache EXCEPT ![e] = t]
    /\ rc' = [rc EXCEPT ![t] = @ + 1]
    /\ UNCHANGED <<live, kids, held, trie, deleting, toDelete>>

-----------------------------------------------------------------------------
(* Deleting expressions *)

(* Faulty: a handle is dropped that has been dropped before.               *)
DropAgain(e) ==
    /\ Ready
    /\ e \in live
    /\ held' = [held EXCEPT ![e] = @ - 1]
    /\ rc' = [rc EXCEPT ![e] = @ - 1]
    /\ deleting' = IF rc[e] = 1 THEN e ELSE Null
    /\ UNCHANGED <<live, kids, typeCache, trie, toDelete>>

(* A handle goes out of scope; the last one starts markDeleted.            *)
Drop(e) ==
    /\ Ready
    /\ held[e] > 0
    /\ held' = [held EXCEPT ![e] = @ - 1]
    /\ rc' = [rc EXCEPT ![e] = @ - 1]
    /\ deleting' = IF rc[e] = 1 THEN e ELSE Null
    /\ UNCHANGED <<live, kids, typeCache, trie, toDelete>>

(* An iteration of the loop erases the entry of d_typeCache, and with it   *)
(* the reference to the type, which may be the next to be deleted.         *)
TypeReleased(e) == typeCache[e] # Null /\ rc[typeCache[e]] = 1

Pending(e) == IF TypeReleased(e) THEN Append(toDelete, typeCache[e]) ELSE toDelete

(* Then it removes e from its trie and frees it.  free does not run the    *)
(* destructor, so the children of e keep the references that e had.  If    *)
(* the way to e is not in the trie, an Assert of remove ends the program,  *)
(* which is the absence of a step.                                         *)
DeleteStep ==
    LET e == deleting
        rest == Pending(e)
    IN  /\ e # Null
        /\ OnPath(trie, kids[e])
        /\ typeCache' = [typeCache EXCEPT ![e] = Null]
        /\ rc' = [d \in Ids |-> IF d = typeCache[e] THEN rc[d] - 1 ELSE rc[d]]
        /\ trie' = IF IsSymbol(e) THEN trie ELSE TrieRemove(trie, kids[e], Null)
        /\ live' = live \ {e}
        /\ kids' = [kids EXCEPT ![e] = <<>>]
        /\ deleting' = IF rest = <<>> THEN Null ELSE rest[Len(rest)]
        /\ toDelete' = IF rest = <<>> THEN <<>> ELSE SubSeq(rest, 1, Len(rest) - 1)
        /\ UNCHANGED held

-----------------------------------------------------------------------------

Next ==
    \/ \E e \in Ids, t \in Ids \cup {Null} : MkSymbol(e, t)
    \/ \E cs \in Children : MkExprFinds(cs) \/ \E e \in Ids : MkExprMakes(cs, e)
    \/ \E e, t \in Ids : CacheType(e, t)
    \/ \E e \in Ids : Drop(e)
    \/ DeleteStep

Spec == Init /\ [][Next]_vars

=============================================================================
