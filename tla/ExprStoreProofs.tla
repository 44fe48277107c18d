-------------------------- MODULE ExprStoreProofs --------------------------
(***************************************************************************)
(* Proofs about the store of expressions, for every set of addresses: that *)
(* nothing refers to what was freed, whatever the numbers of children, and *)
(* that the trie finds every term if they are all the same.                *)
(***************************************************************************)
EXTENDS ExprStoreProps, TLAPS, FiniteSetTheorems, SequenceTheorems

-----------------------------------------------------------------------------
(* Sets and sequences *)

(* The places of an element in a sequence, paired with one parent.         *)
Places(e, cs, d) == {<<e, i>> : i \in {j \in DOMAIN cs : cs[j] = d}}

LEMMA PlacesCounted ==
    ASSUME NEW cs, NEW n \in Nat, DOMAIN cs = 1 .. n, NEW d, NEW e, NEW P, P = Places(e, cs, d)
    PROVE  IsFiniteSet(P) /\ Cardinality(P) = Occurrences(cs, d) /\ Occurrences(cs, d) \in Nat
<1> DEFINE O == {j \in DOMAIN cs : cs[j] = d}
           f == [i \in O |-> <<e, i>>]
<1>0. P = {<<e, i>> : i \in O}
  BY DEF Places
<1>1. IsFiniteSet(O) /\ Cardinality(O) \in Nat
  <2>1. O \in SUBSET (1 .. n) /\ IsFiniteSet(1 .. n)
    BY FS_Interval
  <2>2. IsFiniteSet(O)
    BY <2>1, FS_Subset
  <2>3. QED
    BY <2>2, FS_CardinalityType
<1>2. f \in Bijection(O, P)
  <2>1. f \in [O -> P]
    BY <1>0
  <2>2. \A i, j \in O : f[i] = f[j] => i = j
    OBVIOUS
  <2>3. \A c \in P : \E i \in O : f[i] = c
    BY <1>0
  <2> HIDE DEF f, O
  <2>4. QED
    BY <2>1, <2>2, <2>3 DEF Bijection, Injection, IsInjective, Surjection
<1>3. ExistsBijection(O, P)
  BY <1>2 DEF ExistsBijection
<1> HIDE DEF O, f
<1>4. IsFiniteSet(P) /\ Cardinality(P) = Cardinality(O)
  BY <1>1, <1>3, FS_Bijection
<1>5. QED
  BY <1>1, <1>4 DEF Occurrences, O

(* A prefix of a sequence.                                                 *)
LEMMA PrefixFacts ==
    ASSUME NEW S, NEW s \in Seq(S), NEW i \in 0 .. Len(s)
    PROVE  /\ Prefix(s, i) \in Seq(S)
           /\ Len(Prefix(s, i)) = i
           /\ \A j \in 1 .. i : Prefix(s, i)[j] = s[j]
<1>1. i \in Nat /\ i <= Len(s) /\ Len(s) \in Nat /\ i \in Int /\ 1 \in Int
  OBVIOUS
<1>2. \A j \in 1 .. i : s[j] \in S
  BY <1>1
<1>3. /\ SubSeq(s, 1, i) \in Seq(S)
      /\ Len(SubSeq(s, 1, i)) = IF 1 <= i THEN i - 1 + 1 ELSE 0
      /\ \A j \in 1 .. i - 1 + 1 : SubSeq(s, 1, i)[j] = s[1 + j - 1]
  BY <1>1, <1>2, SubSeqProperties
<1>4. (IF 1 <= i THEN i - 1 + 1 ELSE 0) = i
  BY <1>1
<1>5. ASSUME NEW j \in 1 .. i
      PROVE  SubSeq(s, 1, i)[j] = s[j]
  <2>1. j \in 1 .. i - 1 + 1 /\ 1 + j - 1 = j
    BY <1>1
  <2>2. QED
    BY <1>3, <2>1
<1>6. QED
  BY <1>3, <1>4, <1>5 DEF Prefix

(* A sequence is its own last prefix.                                      *)
LEMMA PrefixWhole ==
    ASSUME NEW S, NEW s \in Seq(S)
    PROVE  Prefix(s, Len(s)) = s
BY SubSeqFull DEF Prefix

(* The last element and the rest of a sequence make the sequence.          *)
LEMMA LastApart ==
    ASSUME NEW S, NEW s \in Seq(S), s # <<>>
    PROVE  /\ Len(s) \in Nat \ {0} /\ s[Len(s)] \in S
           /\ SubSeq(s, 1, Len(s) - 1) \in Seq(S)
           /\ Append(SubSeq(s, 1, Len(s) - 1), s[Len(s)]) = s
<1>1. Len(s) \in Nat \ {0} /\ s[Len(s)] \in S
  OBVIOUS
<1> DEFINE m == Len(s) - 1
<1>2. m \in 0 .. Len(s) /\ m + 1 = Len(s)
  BY <1>1
<1> HIDE DEF m
<1>3. /\ Prefix(s, m) \in Seq(S) /\ Len(Prefix(s, m)) = m
      /\ \A j \in 1 .. m : Prefix(s, m)[j] = s[j]
  BY <1>2, PrefixFacts
<1> DEFINE f == Prefix(s, m)
           a == Append(f, s[Len(s)])
<1> HIDE DEF f
<1>4. f \in Seq(S) /\ Len(f) = m /\ \A j \in 1 .. m : f[j] = s[j]
  BY <1>3 DEF f
<1>5. /\ a \in Seq(S) /\ Len(a) = m + 1 /\ a[m + 1] = s[Len(s)]
      /\ \A j \in 1 .. m : a[j] = f[j]
  BY <1>1, <1>2, <1>4
<1>6. \A j \in 1 .. Len(s) : a[j] = s[j]
  BY <1>1, <1>2, <1>4, <1>5
<1>7. a = s
  <2> HIDE DEF a
  <2>1. a \in Seq(S) /\ Len(a) = Len(s)
    BY <1>2, <1>5
  <2>2. QED
    BY <1>6, <2>1, SeqEqual
<1>8. QED
  BY <1>1, <1>4, <1>7 DEF f, m, Prefix

-----------------------------------------------------------------------------
(* The invariant *)

HandlesAlive == \A e \in Ids : held[e] > 0 => e \in live

KidsAlive == \A e \in live : \A i \in DOMAIN kids[e] : kids[e][i] \in live

TypesAlive == \A e \in Ids : typeCache[e] # Null => e \in live /\ typeCache[e] \in live

Waiting == IF deleting = Null THEN toDelete ELSE Append(toDelete, deleting)

(* The expressions that wait are alive, have no references and wait once.  *)
WaitingOnce(w, alive, count) ==
    /\ \A i \in DOMAIN w : w[i] \in alive /\ count[w[i]] = 0
    /\ \A i, j \in DOMAIN w : w[i] = w[j] => i = j

QueueInv == /\ deleting = Null => toDelete = <<>>
            /\ WaitingOnce(Waiting, live, rc)

(* What refers to an expression can be counted.                            *)
FiniteRefs == \A e \in Ids : IsFiniteSet(ChildOf(e)) /\ IsFiniteSet(TypeOf(e))

(* What the trie finds is alive and has the children it is found under,    *)
(* of which there are some.                                                *)
TrieSound == \A p \in DOMAIN trie :
                trie[p] # Null => p # <<>> /\ trie[p] \in live /\ kids[trie[p]] = p

StoreInv == /\ TypeOK /\ HandlesAlive /\ KidsAlive /\ TypesAlive
            /\ QueueInv /\ FiniteRefs /\ CountsCover /\ TrieSound

(* An entry of the places that refer to e.                                 *)
LEMMA ChildPlaces ==
    ASSUME NEW e
    PROVE  \A c : c \in ChildOf(e) <=>
                  \E d \in live : \E i \in DOMAIN kids[d] : c = <<d, i>> /\ kids[d][i] = e
<1>1. ASSUME NEW c \in ChildOf(e)
      PROVE  \E d \in live : \E i \in DOMAIN kids[d] : c = <<d, i>> /\ kids[d][i] = e
  <2>1. /\ c \in UNION {{d} \X DOMAIN kids[d] : d \in live} /\ kids[c[1]][c[2]] = e
    BY <1>1 DEF ChildOf
  <2>2. PICK d \in live : c \in {d} \X DOMAIN kids[d]
    BY <2>1
  <2>3. c = <<d, c[2]>> /\ c[1] = d /\ c[2] \in DOMAIN kids[d]
    BY <2>2
  <2>4. QED
    BY <2>1, <2>3
<1>2. ASSUME NEW d \in live, NEW i \in DOMAIN kids[d], kids[d][i] = e
      PROVE  <<d, i>> \in ChildOf(e)
  <2>1. <<d, i>> \in UNION {{x} \X DOMAIN kids[x] : x \in live}
    OBVIOUS
  <2>2. <<d, i>>[1] = d /\ <<d, i>>[2] = i
    OBVIOUS
  <2>3. QED
    BY <1>2, <2>1, <2>2 DEF ChildOf
<1>3. QED
  BY <1>1, <1>2

(* The same in the state after a step.                                     *)
LEMMA ChildPlacesNext ==
    ASSUME NEW e
    PROVE  \A c : c \in ChildOf(e)' <=>
                  \E d \in live' : \E i \in DOMAIN kids'[d] : c = <<d, i>> /\ kids'[d][i] = e
<1>1. ASSUME NEW c \in ChildOf(e)'
      PROVE  \E d \in live' : \E i \in DOMAIN kids'[d] : c = <<d, i>> /\ kids'[d][i] = e
  <2>1. /\ c \in UNION {{d} \X DOMAIN kids'[d] : d \in live'} /\ kids'[c[1]][c[2]] = e
    BY <1>1 DEF ChildOf
  <2>2. PICK d \in live' : c \in {d} \X DOMAIN kids'[d]
    BY <2>1
  <2>3. c = <<d, c[2]>> /\ c[1] = d /\ c[2] \in DOMAIN kids'[d]
    BY <2>2
  <2>4. QED
    BY <2>1, <2>3
<1>2. ASSUME NEW d \in live', NEW i \in DOMAIN kids'[d], kids'[d][i] = e
      PROVE  <<d, i>> \in ChildOf(e)'
  <2>1. <<d, i>> \in UNION {{x} \X DOMAIN kids'[x] : x \in live'}
    OBVIOUS
  <2>2. <<d, i>>[1] = d /\ <<d, i>>[2] = i
    OBVIOUS
  <2>3. QED
    BY <1>2, <2>1, <2>2 DEF ChildOf
<1>3. QED
  BY <1>1, <1>2

(* An expression that is not alive is referred to by nothing.              *)
LEMMA Unreferenced ==
    ASSUME StoreInv, NEW e \in Ids, e \notin live
    PROVE  /\ held[e] = 0 /\ ChildOf(e) = {} /\ TypeOf(e) = {} /\ typeCache[e] = Null
<1>1. held[e] = 0
  BY DEF StoreInv, HandlesAlive, TypeOK
<1>2. ChildOf(e) = {}
  BY ChildPlaces DEF StoreInv, KidsAlive
<1>3. TypeOf(e) = {} /\ typeCache[e] = Null
  <2>1. \A d \in Ids : typeCache[d] = e => FALSE
    BY ExprStoreAssumption DEF StoreInv, TypesAlive
  <2>2. QED
    BY <2>1 DEF TypeOf, StoreInv, TypesAlive
<1>4. QED
  BY <1>1, <1>2, <1>3

-----------------------------------------------------------------------------
(* Steps *)

(* No expression waits while the program is at work.                       *)
LEMMA QueueReady ==
    ASSUME QueueInv, Ready, UNCHANGED <<deleting, toDelete>>
    PROVE  QueueInv'
<1>1. deleting' = Null /\ toDelete' = <<>>
  BY DEF QueueInv, Ready
<1>2. Waiting' = <<>>
  BY <1>1 DEF Waiting
<1>3. QED
  BY <1>1, <1>2 DEF QueueInv, WaitingOnce

(* The same parents, the same places.                                      *)
LEMMA SamePlaces ==
    ASSUME live' \subseteq live, \A d \in live' : kids'[d] = kids[d], NEW e
    PROVE  ChildOf(e)' \subseteq ChildOf(e)
BY ChildPlaces, ChildPlacesNext

(* A symbol has no places.                                                 *)
LEMMA SymbolPlaces ==
    ASSUME NEW s, live' = live \cup {s}, kids'[s] = <<>>,
           \A d \in live : d # s => kids'[d] = kids[d], s \notin live, NEW e
    PROVE  ChildOf(e)' = ChildOf(e)
<1>1. DOMAIN kids'[s] = {}
  OBVIOUS
<1>2. ASSUME NEW c \in ChildOf(e)'
      PROVE  c \in ChildOf(e)
  BY <1>1, ChildPlaces, ChildPlacesNext
<1>3. ASSUME NEW c \in ChildOf(e)
      PROVE  c \in ChildOf(e)'
  BY ChildPlaces, ChildPlacesNext
<1>4. QED
  BY <1>2, <1>3

(* A handle more and a type more, for a symbol.                            *)
LEMMA MkSymbolInv ==
    ASSUME StoreInv, NEW e \in Ids, NEW t \in Ids \cup {Null}, MkSymbol(e, t)
    PROVE  StoreInv'
<1>1. /\ Ready /\ e \notin live /\ t \in Held \cup {Null} /\ live' = live \cup {e}
      /\ kids' = [kids EXCEPT ![e] = <<>>] /\ typeCache' = [typeCache EXCEPT ![e] = t]
      /\ rc' = [d \in Ids |-> IF d = e THEN 1 ELSE IF d = t THEN rc[d] + 1 ELSE rc[d]]
      /\ held' = [held EXCEPT ![e] = held[e] + 1]
      /\ trie' = trie /\ deleting' = deleting /\ toDelete' = toDelete
  BY DEF MkSymbol, Handle
<1>2. TypeOK
  BY DEF StoreInv
<1>3. t = Null \/ t \in live
  BY <1>1, <1>2 DEF Held, StoreInv, HandlesAlive
<1>4. Null \notin Ids
  BY ExprStoreAssumption
<1>5. TypeOK'
  BY <1>1, <1>2 DEF TypeOK
<1>6. HandlesAlive'
  BY <1>1, <1>2 DEF HandlesAlive, StoreInv, TypeOK
<1>7. \A d \in live : d # e /\ kids'[d] = kids[d]
  BY <1>1, <1>2 DEF TypeOK
<1>8. kids'[e] = <<>>
  BY <1>1, <1>2 DEF TypeOK
<1>9. KidsAlive'
  <2>1. ASSUME NEW d \in live', NEW i \in DOMAIN kids'[d]
        PROVE  kids'[d][i] \in live'
    <3>1. d # e
      BY <1>8, <2>1
    <3>2. QED
      BY <1>1, <1>7, <2>1, <3>1 DEF StoreInv, KidsAlive
  <2>2. QED
    BY <2>1 DEF KidsAlive
<1>10. TypesAlive'
  BY <1>1, <1>2, <1>3 DEF TypesAlive, StoreInv, TypeOK
<1>11. QueueInv'
  BY <1>1, QueueReady DEF StoreInv
<1>12. \A d : ChildOf(d)' = ChildOf(d)
  BY <1>1, <1>7, <1>8, SymbolPlaces
<1>13. \A d \in Ids : TypeOf(d)' = IF d = t THEN TypeOf(d) \cup {e} ELSE TypeOf(d)
  <2>1. typeCache[e] = Null
    BY <1>1, Unreferenced
  <2>2. ASSUME NEW d \in Ids
        PROVE  TypeOf(d)' = IF d = t THEN TypeOf(d) \cup {e} ELSE TypeOf(d)
    <3>1. \A x \in Ids : typeCache'[x] = IF x = e THEN t ELSE typeCache[x]
      BY <1>1, <1>2 DEF TypeOK
    <3>2. QED
      BY <1>4, <2>1, <3>1 DEF TypeOf
  <2>3. QED
    BY <2>2
<1>14. FiniteRefs'
  <2>1. ASSUME NEW d \in Ids
        PROVE  IsFiniteSet(ChildOf(d)') /\ IsFiniteSet(TypeOf(d)')
    <3>1. IsFiniteSet(ChildOf(d)) /\ IsFiniteSet(TypeOf(d))
      BY DEF StoreInv, FiniteRefs
    <3>2. IsFiniteSet(TypeOf(d) \cup {e})
      BY <3>1, FS_AddElement
    <3>3. QED
      BY <1>12, <1>13, <3>1, <3>2
  <2>2. QED
    BY <2>1 DEF FiniteRefs
<1>15. CountsCover'
  <2>1. ASSUME NEW d \in Ids
        PROVE  rc'[d] >= held'[d] + Cardinality(ChildOf(d)') + Cardinality(TypeOf(d)')
    <3>1. /\ IsFiniteSet(TypeOf(d)) /\ Cardinality(TypeOf(d)) \in Nat
          /\ IsFiniteSet(ChildOf(d)) /\ Cardinality(ChildOf(d)) \in Nat
      BY FS_CardinalityType DEF StoreInv, FiniteRefs
    <3>2. rc[d] >= held[d] + Cardinality(ChildOf(d)) + Cardinality(TypeOf(d))
      BY DEF StoreInv, CountsCover
    <3>3. rc[d] \in Nat /\ held[d] \in Nat
      BY <1>2 DEF TypeOK
    <3>4. CASE d = e
      <4>1. held[e] = 0 /\ ChildOf(e) = {} /\ TypeOf(e) = {}
        BY <1>1, Unreferenced
      <4>2. e # t
        BY <1>1, <1>3, <1>4
      <4>3. rc'[d] = 1 /\ held'[d] = 1
        BY <1>1, <1>2, <3>4, <4>1 DEF TypeOK
      <4>4. ChildOf(d)' = {} /\ TypeOf(d)' = {}
        BY <1>12, <1>13, <3>4, <4>1, <4>2
      <4>5. QED
        BY <4>3, <4>4, FS_EmptySet
    <3>5. CASE d # e /\ d = t
      <4>1. rc'[d] = rc[d] + 1 /\ held'[d] = held[d]
        BY <1>1, <1>2, <3>5 DEF TypeOK
      <4>2. Cardinality(TypeOf(d)') <= Cardinality(TypeOf(d)) + 1 /\ Cardinality(TypeOf(d)') \in Nat
        <5>1. TypeOf(d)' = TypeOf(d) \cup {e}
          BY <1>13, <3>5
        <5>2. Cardinality(TypeOf(d) \cup {e})
                  = IF e \in TypeOf(d) THEN Cardinality(TypeOf(d)) ELSE Cardinality(TypeOf(d)) + 1
          BY <3>1, FS_AddElement
        <5>3. QED
          BY <3>1, <5>1, <5>2
      <4>3. QED
        BY <1>12, <3>1, <3>2, <3>3, <4>1, <4>2
    <3>6. CASE d # e /\ d # t
      <4>1. rc'[d] = rc[d] /\ held'[d] = held[d]
        BY <1>1, <1>2, <3>6 DEF TypeOK
      <4>2. QED
        BY <1>12, <1>13, <3>2, <3>6, <4>1
    <3>7. QED
      BY <3>4, <3>5, <3>6
  <2>2. QED
    BY <2>1 DEF CountsCover
<1>16. TrieSound'
  BY <1>1, <1>7 DEF TrieSound, StoreInv
<1>17. QED
  BY <1>5, <1>6, <1>9, <1>10, <1>11, <1>14, <1>15, <1>16 DEF StoreInv

(* The calls of mkExprInternal have sequences of expressions in use.       *)
LEMMA ChildrenFacts ==
    ASSUME NEW cs \in Children
    PROVE  /\ cs \in Seq(Ids) /\ Len(cs) \in Arities /\ Len(cs) \in Nat \ {0}
           /\ DOMAIN cs = 1 .. Len(cs) /\ cs # <<>>
           /\ \A i \in DOMAIN cs : cs[i] \in Held
<1>1. PICK n \in Arities : cs \in [1 .. n -> Held]
  BY DEF Children
<1>2. n \in Nat \ {0}
  BY ExprStoreAssumption
<1>3. cs \in [1 .. n -> Ids]
  BY <1>1 DEF Held
<1>4. cs \in Seq(Ids)
  BY <1>2, <1>3, SeqDef
<1>5. Len(cs) = n /\ DOMAIN cs = 1 .. n
  BY <1>2, <1>3, <1>4
<1>6. QED
  BY <1>1, <1>2, <1>4, <1>5

(* The nodes on the way to a sequence are sequences, and it is one of them.*)
LEMMA WayFacts ==
    ASSUME NEW S, NEW s \in Seq(S)
    PROVE  PrefixesOf(s) \subseteq Seq(S) /\ s \in PrefixesOf(s)
<1>1. PrefixesOf(s) \subseteq Seq(S)
  BY PrefixFacts DEF PrefixesOf
<1>2. Len(s) \in 0 .. Len(s)
  OBVIOUS
<1>3. s \in PrefixesOf(s)
  BY <1>2, PrefixWhole DEF PrefixesOf
<1>4. QED
  BY <1>1, <1>3

(* What get finds is in the trie.                                          *)
LEMMA FoundInTrie ==
    ASSUME NEW cs \in Children
    PROVE  /\ Found(cs) # Null => cs \in DOMAIN trie
           /\ cs \in DOMAIN trie => Found(cs) = trie[cs]
<1> DEFINE D == DOMAIN trie \cup PrefixesOf(cs)
<1>1. TrieGet(trie, cs, Null) = [q \in D |-> IF q \in DOMAIN trie THEN trie[q] ELSE Null]
  BY DEF TrieGet
<1>2. cs \in D
  BY ChildrenFacts, WayFacts
<1>3. QED
  BY <1>1, <1>2 DEF Found

(* A handle more for an expression that is alive changes its count only.   *)
LEMMA MkExprFindsInv ==
    ASSUME StoreInv, NEW cs \in Children, MkExprFinds(cs)
    PROVE  StoreInv'
<1> DEFINE e == Found(cs)
<1>1. cs \in DOMAIN trie /\ e = trie[cs] /\ e # Null
  BY FoundInTrie DEF MkExprFinds
<1>2. /\ Ready /\ rc' = [rc EXCEPT ![e] = rc[e] + 1] /\ held' = [held EXCEPT ![e] = held[e] + 1]
      /\ live' = live /\ kids' = kids /\ typeCache' = typeCache /\ trie' = trie
      /\ deleting' = deleting /\ toDelete' = toDelete
  BY DEF MkExprFinds, Handle
<1>3. e \in live /\ TypeOK
  BY <1>1 DEF StoreInv, TrieSound
<1> HIDE DEF e
<1>4. e \in Ids
  BY <1>3 DEF TypeOK
<1>5. /\ rc' \in [Ids -> Nat] /\ held' \in [Ids -> Nat]
      /\ \A d \in Ids : /\ rc'[d] = IF d = e THEN rc[d] + 1 ELSE rc[d]
                        /\ held'[d] = IF d = e THEN held[d] + 1 ELSE held[d]
  BY <1>2, <1>3, <1>4 DEF TypeOK
<1>6. TypeOK'
  BY <1>2, <1>3, <1>5 DEF TypeOK
<1>7. HandlesAlive'
  BY <1>2, <1>3, <1>5 DEF HandlesAlive, StoreInv
<1>8. KidsAlive' /\ TypesAlive' /\ TrieSound'
  BY <1>2 DEF StoreInv, KidsAlive, TypesAlive, TrieSound
<1>9. QueueInv'
  BY <1>2, QueueReady DEF StoreInv
<1>10. \A d : ChildOf(d)' = ChildOf(d) /\ TypeOf(d)' = TypeOf(d)
  BY <1>2 DEF ChildOf, TypeOf
<1>11. FiniteRefs'
  BY <1>10 DEF StoreInv, FiniteRefs
<1>12. CountsCover'
  <2>1. ASSUME NEW d \in Ids
        PROVE  rc'[d] >= held'[d] + Cardinality(ChildOf(d)') + Cardinality(TypeOf(d)')
    <3>1. Cardinality(TypeOf(d)) \in Nat /\ Cardinality(ChildOf(d)) \in Nat
      BY FS_CardinalityType DEF StoreInv, FiniteRefs
    <3>2. rc[d] >= held[d] + Cardinality(ChildOf(d)) + Cardinality(TypeOf(d))
      BY DEF StoreInv, CountsCover
    <3>3. rc[d] \in Nat /\ held[d] \in Nat
      BY <1>3 DEF TypeOK
    <3>4. QED
      BY <1>5, <1>10, <3>1, <3>2, <3>3
  <2>2. QED
    BY <2>1 DEF CountsCover
<1>13. QED
  BY <1>6, <1>7, <1>8, <1>9, <1>11, <1>12 DEF StoreInv

(* A type in the cache is one reference more.                              *)
LEMMA CacheTypeInv ==
    ASSUME StoreInv, NEW e \in Ids, NEW t \in Ids, CacheType(e, t)
    PROVE  StoreInv'
<1>1. /\ Ready /\ e \in live /\ t \in Held /\ typeCache[e] = Null
      /\ typeCache' = [typeCache EXCEPT ![e] = t] /\ rc' = [rc EXCEPT ![t] = rc[t] + 1]
      /\ live' = live /\ kids' = kids /\ held' = held /\ trie' = trie
      /\ deleting' = deleting /\ toDelete' = toDelete
  BY DEF CacheType
<1>2. TypeOK /\ t \in live /\ t # Null
  BY <1>1, ExprStoreAssumption DEF Held, StoreInv, HandlesAlive
<1>3. /\ rc' \in [Ids -> Nat] /\ typeCache' \in [Ids -> Ids \cup {Null}]
      /\ \A d \in Ids : /\ rc'[d] = IF d = t THEN rc[d] + 1 ELSE rc[d]
                        /\ typeCache'[d] = IF d = e THEN t ELSE typeCache[d]
  BY <1>1, <1>2 DEF TypeOK
<1>4. TypeOK'
  BY <1>1, <1>2, <1>3 DEF TypeOK
<1>5. HandlesAlive' /\ KidsAlive' /\ TrieSound'
  BY <1>1 DEF StoreInv, HandlesAlive, KidsAlive, TrieSound
<1>6. TypesAlive'
  BY <1>1, <1>2, <1>3 DEF StoreInv, TypesAlive
<1>7. QueueInv'
  BY <1>1, QueueReady DEF StoreInv
<1>8. \A d : ChildOf(d)' = ChildOf(d)
  BY <1>1 DEF ChildOf
<1>9. \A d \in Ids : TypeOf(d)' = IF d = t THEN TypeOf(d) \cup {e} ELSE TypeOf(d)
  <2>1. ASSUME NEW d \in Ids
        PROVE  TypeOf(d)' = IF d = t THEN TypeOf(d) \cup {e} ELSE TypeOf(d)
    BY <1>1, <1>3, ExprStoreAssumption DEF TypeOf
  <2>2. QED
    BY <2>1
<1>10. ASSUME NEW d \in Ids
       PROVE  /\ IsFiniteSet(TypeOf(d)) /\ Cardinality(TypeOf(d)) \in Nat
              /\ IsFiniteSet(ChildOf(d)) /\ Cardinality(ChildOf(d)) \in Nat
              /\ IsFiniteSet(TypeOf(d) \cup {e})
              /\ Cardinality(TypeOf(d) \cup {e})
                    = IF e \in TypeOf(d) THEN Cardinality(TypeOf(d)) ELSE Cardinality(TypeOf(d)) + 1
  <2>1. IsFiniteSet(TypeOf(d)) /\ IsFiniteSet(ChildOf(d))
    BY DEF StoreInv, FiniteRefs
  <2>2. Cardinality(TypeOf(d)) \in Nat /\ Cardinality(ChildOf(d)) \in Nat
    BY <2>1, FS_CardinalityType
  <2>3. QED
    BY <2>1, <2>2, FS_AddElement
<1>11. FiniteRefs'
  <2>1. ASSUME NEW d \in Ids
        PROVE  IsFiniteSet(ChildOf(d)') /\ IsFiniteSet(TypeOf(d)')
    BY <1>8, <1>9, <1>10
  <2>2. QED
    BY <2>1 DEF FiniteRefs
<1>12. CountsCover'
  <2>1. ASSUME NEW d \in Ids
        PROVE  rc'[d] >= held'[d] + Cardinality(ChildOf(d)') + Cardinality(TypeOf(d)')
    <3>1. rc[d] >= held[d] + Cardinality(ChildOf(d)) + Cardinality(TypeOf(d))
      BY DEF StoreInv, CountsCover
    <3>2. rc[d] \in Nat /\ held[d] \in Nat
      BY <1>2 DEF TypeOK
    <3>3. CASE d = t
      <4>1. TypeOf(d)' = TypeOf(d) \cup {e} /\ rc'[d] = rc[d] + 1 /\ held'[d] = held[d]
        BY <1>1, <1>3, <1>9, <3>3
      <4>2. /\ Cardinality(TypeOf(d)') \in Nat
            /\ Cardinality(TypeOf(d)') <= Cardinality(TypeOf(d)) + 1
        BY <1>10, <4>1
      <4>3. QED
        BY <1>8, <1>10, <3>1, <3>2, <4>1, <4>2
    <3>4. CASE d # t
      BY <1>1, <1>3, <1>8, <1>9, <3>1, <3>4
    <3>5. QED
      BY <3>3, <3>4
  <2>2. QED
    BY <2>1 DEF CountsCover
<1>13. QED
  BY <1>4, <1>5, <1>6, <1>7, <1>11, <1>12 DEF StoreInv

(* A handle that is dropped is one reference less; the last one leaves an  *)
(* expression that is alive and unreferenced.                              *)
LEMMA DropInv ==
    ASSUME StoreInv, NEW e \in Ids, Drop(e)
    PROVE  StoreInv'
<1>1. /\ Ready /\ held[e] > 0 /\ held' = [held EXCEPT ![e] = held[e] - 1]
      /\ rc' = [rc EXCEPT ![e] = rc[e] - 1] /\ deleting' = (IF rc[e] = 1 THEN e ELSE Null)
      /\ live' = live /\ kids' = kids /\ typeCache' = typeCache /\ trie' = trie
      /\ toDelete' = toDelete
  BY DEF Drop
<1>2. TypeOK /\ e \in live /\ e # Null
  BY <1>1, ExprStoreAssumption DEF StoreInv, HandlesAlive
<1>3. ASSUME NEW d \in Ids
      PROVE  /\ Cardinality(TypeOf(d)) \in Nat /\ Cardinality(ChildOf(d)) \in Nat
             /\ rc[d] \in Nat /\ held[d] \in Nat
             /\ rc[d] >= held[d] + Cardinality(ChildOf(d)) + Cardinality(TypeOf(d))
  BY <1>2, FS_CardinalityType DEF StoreInv, FiniteRefs, CountsCover, TypeOK
<1>4. rc[e] \in Nat /\ rc[e] >= 1 /\ held[e] \in Nat
  BY <1>1, <1>3
<1>5. /\ rc' \in [Ids -> Nat] /\ held' \in [Ids -> Nat]
      /\ \A d \in Ids : /\ rc'[d] = IF d = e THEN rc[d] - 1 ELSE rc[d]
                        /\ held'[d] = IF d = e THEN held[d] - 1 ELSE held[d]
  BY <1>1, <1>2, <1>4 DEF TypeOK
<1>6. TypeOK'
  BY <1>1, <1>2, <1>5 DEF TypeOK
<1>7. HandlesAlive'
  BY <1>1, <1>2, <1>5 DEF StoreInv, HandlesAlive
<1>8. KidsAlive' /\ TypesAlive' /\ TrieSound'
  BY <1>1 DEF StoreInv, KidsAlive, TypesAlive, TrieSound
<1>9. \A d : ChildOf(d)' = ChildOf(d) /\ TypeOf(d)' = TypeOf(d)
  BY <1>1 DEF ChildOf, TypeOf
<1>10. FiniteRefs'
  BY <1>9 DEF StoreInv, FiniteRefs
<1>11. CountsCover'
  <2>1. ASSUME NEW d \in Ids
        PROVE  rc'[d] >= held'[d] + Cardinality(ChildOf(d)') + Cardinality(TypeOf(d)')
    BY <1>3, <1>5, <1>9
  <2>2. QED
    BY <2>1 DEF CountsCover
<1>12. QueueInv'
  <2>1. toDelete' = <<>>
    BY <1>1 DEF Ready, StoreInv, QueueInv
  <2>2. CASE rc[e] = 1
    <3>1. deleting' = e
      BY <1>1, <2>2
    <3>2. Waiting' = <<e>>
      BY <1>2, <2>1, <3>1 DEF Waiting
    <3>3. rc'[e] = 0
      BY <1>5, <2>2
    <3>4. WaitingOnce(<<e>>, live', rc')
      BY <1>1, <1>2, <3>3 DEF WaitingOnce
    <3>5. QED
      BY <1>2, <3>1, <3>2, <3>4 DEF QueueInv, WaitingOnce
  <2>3. CASE rc[e] # 1
    <3>1. Waiting' = <<>>
      BY <1>1, <2>1, <2>3 DEF Waiting
    <3>2. QED
      BY <2>1, <3>1 DEF QueueInv, WaitingOnce
  <2>4. QED
    BY <2>2, <2>3
<1>13. QED
  BY <1>6, <1>7, <1>8, <1>10, <1>11, <1>12 DEF StoreInv

(* What making an expression does to the trie.                             *)
LEMMA TrieAdds ==
    ASSUME NEW cs \in Children, NEW e, trie' = [TrieGet(trie, cs, Null) EXCEPT ![cs] = e]
    PROVE  /\ DOMAIN trie' = DOMAIN trie \cup PrefixesOf(cs)
           /\ cs \in DOMAIN trie' /\ trie'[cs] = e
           /\ \A q \in DOMAIN trie' :
                 q # cs => trie'[q] = IF q \in DOMAIN trie THEN trie[q] ELSE Null
<1> DEFINE D == DOMAIN trie \cup PrefixesOf(cs)
           t == [q \in D |-> IF q \in DOMAIN trie THEN trie[q] ELSE Null]
<1>1. TrieGet(trie, cs, Null) = t
  BY DEF TrieGet
<1>2. cs \in D
  BY ChildrenFacts, WayFacts
<1>3. trie' = [t EXCEPT ![cs] = e]
  BY <1>1
<1>4. QED
  BY <1>2, <1>3

(* The places in an expression that is made.                               *)
LEMMA ParentPlaces ==
    ASSUME NEW s, s \notin live, live' = live \cup {s}, NEW cs, kids'[s] = cs,
           \A d \in live : d # s => kids'[d] = kids[d], NEW e
    PROVE  ChildOf(e)' = ChildOf(e) \cup Places(s, cs, e)
<1> DEFINE P == Places(s, cs, e)
<1>1. \A c : c \in P <=> \E i \in DOMAIN cs : c = <<s, i>> /\ cs[i] = e
  BY DEF Places
<1> HIDE DEF P
<1>2. ASSUME NEW c \in ChildOf(e)'
      PROVE  c \in ChildOf(e) \cup P
  <2>1. PICK d \in live' : \E i \in DOMAIN kids'[d] : c = <<d, i>> /\ kids'[d][i] = e
    BY ChildPlacesNext
  <2>2. CASE d = s
    BY <1>1, <2>1, <2>2
  <2>3. CASE d # s
    <3>1. d \in live /\ kids'[d] = kids[d]
      BY <2>3
    <3>2. c \in ChildOf(e)
      BY <2>1, <3>1, ChildPlaces
    <3>3. QED
      BY <3>2
  <2>4. QED
    BY <2>2, <2>3
<1>3. ASSUME NEW c \in ChildOf(e)
      PROVE  c \in ChildOf(e)'
  <2>1. PICK d \in live : \E i \in DOMAIN kids[d] : c = <<d, i>> /\ kids[d][i] = e
    BY ChildPlaces
  <2>2. d \in live' /\ kids'[d] = kids[d]
    OBVIOUS
  <2>3. QED
    BY <2>1, <2>2, ChildPlacesNext
<1>4. ASSUME NEW c \in P
      PROVE  c \in ChildOf(e)'
  <2>1. PICK i \in DOMAIN cs : c = <<s, i>> /\ cs[i] = e
    BY <1>1
  <2>2. s \in live' /\ i \in DOMAIN kids'[s] /\ kids'[s][i] = e
    BY <2>1
  <2>3. QED
    BY <2>1, <2>2, ChildPlacesNext
<1>5. QED
  BY <1>2, <1>3, <1>4 DEF P

(* An expression that is made has one reference, and its children one more *)
(* for each of their places in it.                                         *)
LEMMA MkExprMakesInv ==
    ASSUME StoreInv, NEW cs \in Children, NEW e \in Ids, MkExprMakes(cs, e)
    PROVE  StoreInv'
<1>1. /\ Ready /\ Found(cs) = Null /\ e \notin live /\ live' = live \cup {e}
      /\ kids' = [kids EXCEPT ![e] = cs]
      /\ trie' = [TrieGet(trie, cs, Null) EXCEPT ![cs] = e]
      /\ rc' = [d \in Ids |-> IF d = e THEN 1 ELSE rc[d] + Occurrences(cs, d)]
      /\ held' = [held EXCEPT ![e] = held[e] + 1]
      /\ typeCache' = typeCache /\ deleting' = deleting /\ toDelete' = toDelete
  BY DEF MkExprMakes, Handle
<1>2. TypeOK
  BY DEF StoreInv
<1>3. /\ cs \in Seq(Ids) /\ Len(cs) \in Nat /\ DOMAIN cs = 1 .. Len(cs) /\ cs # <<>>
      /\ \A i \in DOMAIN cs : cs[i] \in live
  BY ChildrenFacts DEF Held, StoreInv, HandlesAlive
<1>4. e # Null
  BY ExprStoreAssumption
<1>5. /\ kids' \in [Ids -> Seq(Ids)] /\ kids'[e] = cs
      /\ \A d \in live : d # e /\ kids'[d] = kids[d]
  BY <1>1, <1>2, <1>3 DEF TypeOK
<1> DEFINE P(d) == Places(e, cs, d)
<1>6. ASSUME NEW d \in Ids
      PROVE  /\ IsFiniteSet(P(d)) /\ Cardinality(P(d)) = Occurrences(cs, d)
             /\ Occurrences(cs, d) \in Nat
  <2>1. PICK n \in Nat : DOMAIN cs = 1 .. n
    BY <1>3
  <2>2. QED
    BY <2>1, PlacesCounted
<1>7. \A d \in Ids : ChildOf(d)' = ChildOf(d) \cup P(d)
  BY <1>1, <1>5, ParentPlaces
<1>8. \A d : TypeOf(d)' = TypeOf(d)
  BY <1>1 DEF TypeOf
<1> HIDE DEF P
<1>9. /\ rc' \in [Ids -> Nat] /\ held' \in [Ids -> Nat]
      /\ \A d \in Ids : /\ rc'[d] = IF d = e THEN 1 ELSE rc[d] + Occurrences(cs, d)
                        /\ held'[d] = IF d = e THEN held[d] + 1 ELSE held[d]
  BY <1>1, <1>2, <1>6 DEF TypeOK
<1>10. /\ DOMAIN trie' = DOMAIN trie \cup PrefixesOf(cs)
       /\ cs \in DOMAIN trie' /\ trie'[cs] = e
       /\ \A q \in DOMAIN trie' :
             q # cs => trie'[q] = IF q \in DOMAIN trie THEN trie[q] ELSE Null
  BY <1>1, TrieAdds
<1>11. TypeOK'
  <2>1. DOMAIN trie' \subseteq Seq(Ids)
    BY <1>2, <1>3, <1>10, WayFacts DEF TypeOK
  <2>2. \A q \in DOMAIN trie' : trie'[q] \in Ids \cup {Null}
    BY <1>2, <1>10 DEF TypeOK
  <2>3. QED
    BY <1>1, <1>2, <1>5, <1>9, <2>1, <2>2 DEF TypeOK
<1>12. HandlesAlive'
  BY <1>1, <1>9 DEF HandlesAlive, StoreInv
<1>13. KidsAlive'
  BY <1>1, <1>3, <1>5 DEF KidsAlive, StoreInv
<1>14. TypesAlive'
  BY <1>1 DEF TypesAlive, StoreInv
<1>15. QueueInv'
  BY <1>1, QueueReady DEF StoreInv
<1>16. ASSUME NEW d \in Ids
       PROVE  /\ IsFiniteSet(TypeOf(d)) /\ Cardinality(TypeOf(d)) \in Nat
              /\ IsFiniteSet(ChildOf(d)) /\ Cardinality(ChildOf(d)) \in Nat
              /\ IsFiniteSet(ChildOf(d) \cup P(d))
              /\ Cardinality(ChildOf(d) \cup P(d)) \in Nat
              /\ Cardinality(ChildOf(d) \cup P(d)) <= Cardinality(ChildOf(d)) + Occurrences(cs, d)
  <2>1. /\ IsFiniteSet(TypeOf(d)) /\ Cardinality(TypeOf(d)) \in Nat
        /\ IsFiniteSet(ChildOf(d)) /\ Cardinality(ChildOf(d)) \in Nat
    BY FS_CardinalityType DEF StoreInv, FiniteRefs
  <2>2. IsFiniteSet(P(d)) /\ Cardinality(P(d)) = Occurrences(cs, d) /\ Occurrences(cs, d) \in Nat
    BY <1>6 DEF P
  <2>3. IsFiniteSet(ChildOf(d) \cap P(d)) /\ Cardinality(ChildOf(d) \cap P(d)) \in Nat
    <3>1. ChildOf(d) \cap P(d) \in SUBSET ChildOf(d)
      OBVIOUS
    <3>2. IsFiniteSet(ChildOf(d) \cap P(d))
      BY <2>1, <3>1, FS_Subset
    <3>3. QED
      BY <3>2, FS_CardinalityType
  <2>4. /\ IsFiniteSet(ChildOf(d) \cup P(d))
        /\ Cardinality(ChildOf(d) \cup P(d))
              = Cardinality(ChildOf(d)) + Cardinality(P(d)) - Cardinality(ChildOf(d) \cap P(d))
    BY <2>1, <2>2, FS_Union
  <2>5. Cardinality(ChildOf(d) \cup P(d)) \in Nat
    BY <2>4, FS_CardinalityType
  <2>6. QED
    BY <2>1, <2>2, <2>3, <2>4, <2>5
<1>17. FiniteRefs'
  <2>1. ASSUME NEW d \in Ids
        PROVE  IsFiniteSet(ChildOf(d)') /\ IsFiniteSet(TypeOf(d)')
    BY <1>7, <1>8, <1>16
  <2>2. QED
    BY <2>1 DEF FiniteRefs
<1>18. CountsCover'
  <2>1. ASSUME NEW d \in Ids
        PROVE  rc'[d] >= held'[d] + Cardinality(ChildOf(d)') + Cardinality(TypeOf(d)')
    <3>1. /\ rc[d] >= held[d] + Cardinality(ChildOf(d)) + Cardinality(TypeOf(d))
          /\ rc[d] \in Nat /\ held[d] \in Nat
      BY <1>2 DEF StoreInv, CountsCover, TypeOK
    <3>2. CASE d = e
      <4>1. held[e] = 0 /\ ChildOf(e) = {} /\ TypeOf(e) = {}
        BY <1>1, Unreferenced
      <4>2. P(e) = {}
        BY <1>1, <1>3 DEF P, Places
      <4>3. ChildOf(d)' = {} /\ TypeOf(d)' = {}
        BY <1>7, <1>8, <3>2, <4>1, <4>2
      <4>4. rc'[d] = 1 /\ held'[d] = 1
        BY <1>9, <3>2, <4>1
      <4>5. QED
        BY <4>3, <4>4, FS_EmptySet
    <3>3. CASE d # e
      <4>1. rc'[d] = rc[d] + Occurrences(cs, d) /\ held'[d] = held[d]
        BY <1>9, <3>3
      <4>2. QED
        BY <1>6, <1>7, <1>8, <1>16, <3>1, <4>1
    <3>4. QED
      BY <3>2, <3>3
  <2>2. QED
    BY <2>1 DEF CountsCover
<1>19. TrieSound'
  <2>1. ASSUME NEW q \in DOMAIN trie', trie'[q] # Null
        PROVE  q # <<>> /\ trie'[q] \in live' /\ kids'[trie'[q]] = q
    <3>1. CASE q = cs
      BY <1>1, <1>3, <1>5, <1>10, <3>1
    <3>2. CASE q # cs
      <4>1. q \in DOMAIN trie /\ trie'[q] = trie[q] /\ trie[q] # Null
        BY <1>10, <2>1, <3>2
      <4>2. q # <<>> /\ trie[q] \in live /\ kids[trie[q]] = q
        BY <4>1 DEF StoreInv, TrieSound
      <4>3. QED
        BY <1>1, <1>5, <4>1, <4>2
    <3>3. QED
      BY <3>1, <3>2
  <2>2. QED
    BY <2>1 DEF TrieSound
<1>20. QED
  BY <1>11, <1>12, <1>13, <1>14, <1>15, <1>17, <1>18, <1>19 DEF StoreInv

(* The expression that is deleted is referred to by nothing.               *)
LEMMA DeletedUnreferenced ==
    ASSUME StoreInv, NEW e, e = deleting, e # Null
    PROVE  /\ e \in Ids /\ e \in live /\ rc[e] = 0 /\ held[e] = 0
           /\ ChildOf(e) = {} /\ TypeOf(e) = {}
           /\ \A i \in DOMAIN toDelete : toDelete[i] # e
<1>1. e \in Ids /\ toDelete \in Seq(Ids)
  BY DEF StoreInv, TypeOK
<1>2. Waiting = Append(toDelete, e)
  BY DEF Waiting
<1> DEFINE w == Append(toDelete, e)
           n == Len(toDelete)
<1>3. /\ n \in Nat /\ w \in Seq(Ids) /\ Len(w) = n + 1 /\ w[n + 1] = e
      /\ DOMAIN w = 1 .. n + 1 /\ DOMAIN toDelete = 1 .. n
      /\ \A i \in 1 .. n : w[i] = toDelete[i]
  BY <1>1
<1>4. WaitingOnce(w, live, rc)
  BY <1>2 DEF StoreInv, QueueInv
<1> HIDE DEF w, n
<1>5. n + 1 \in DOMAIN w /\ \A i \in 1 .. n : i \in DOMAIN w /\ i # n + 1
  BY <1>3
<1>6. e \in live /\ rc[e] = 0
  BY <1>3, <1>4, <1>5 DEF WaitingOnce
<1>7. \A i \in DOMAIN toDelete : toDelete[i] # e
  BY <1>3, <1>4, <1>5 DEF WaitingOnce
<1>8. /\ IsFiniteSet(ChildOf(e)) /\ IsFiniteSet(TypeOf(e))
      /\ Cardinality(ChildOf(e)) \in Nat /\ Cardinality(TypeOf(e)) \in Nat
  BY <1>1, FS_CardinalityType DEF StoreInv, FiniteRefs
<1>9. rc[e] >= held[e] + Cardinality(ChildOf(e)) + Cardinality(TypeOf(e)) /\ held[e] \in Nat
  BY <1>1 DEF StoreInv, CountsCover, TypeOK
<1>10. held[e] = 0 /\ Cardinality(ChildOf(e)) = 0 /\ Cardinality(TypeOf(e)) = 0
  BY <1>6, <1>8, <1>9
<1>11. ChildOf(e) = {} /\ TypeOf(e) = {}
  BY <1>8, <1>10, FS_EmptySet
<1>12. QED
  BY <1>1, <1>6, <1>7, <1>10, <1>11

(* The type of an expression has a reference.                              *)
LEMMA TypeReferenced ==
    ASSUME StoreInv, NEW e \in Ids, typeCache[e] # Null
    PROVE  /\ typeCache[e] \in Ids /\ typeCache[e] \in live /\ rc[typeCache[e]] >= 1
           /\ e \in TypeOf(typeCache[e])
<1> DEFINE t == typeCache[e]
<1>1. t \in Ids /\ t \in live /\ e \in TypeOf(t)
  BY DEF StoreInv, TypeOK, TypesAlive, TypeOf
<1> HIDE DEF t
<1>2. /\ IsFiniteSet(TypeOf(t)) /\ Cardinality(TypeOf(t)) \in Nat
      /\ Cardinality(ChildOf(t)) \in Nat
  BY <1>1, FS_CardinalityType DEF StoreInv, FiniteRefs
<1>3. Cardinality(TypeOf(t)) # 0
  BY <1>1, <1>2, FS_EmptySet
<1>4. /\ rc[t] >= held[t] + Cardinality(ChildOf(t)) + Cardinality(TypeOf(t))
      /\ held[t] \in Nat /\ rc[t] \in Nat
  BY <1>1 DEF StoreInv, CountsCover, TypeOK
<1>5. rc[t] >= 1
  BY <1>2, <1>3, <1>4
<1>6. QED
  BY <1>1, <1>5 DEF t

(* What waits after an iteration: the same, but for the one deleted, and   *)
(* its type if that was its last reference.                                *)
LEMMA WaitingNext ==
    ASSUME StoreInv, DeleteStep
    PROVE  /\ Pending(deleting) \in Seq(Ids)
           /\ toDelete' \in Seq(Ids) /\ deleting' \in Ids \cup {Null}
           /\ deleting' = Null => toDelete' = <<>>
           /\ Waiting' = Pending(deleting)
<1> DEFINE rest == Pending(deleting)
<1>1. deleting # Null /\ deleting \in Ids /\ toDelete \in Seq(Ids)
  BY DEF DeleteStep, StoreInv, TypeOK
<1>2. rest \in Seq(Ids)
  <2>1. CASE TypeReleased(deleting)
    <3>1. typeCache[deleting] \in Ids
      BY <1>1, <2>1, TypeReferenced DEF TypeReleased
    <3>2. QED
      BY <1>1, <2>1, <3>1 DEF Pending
  <2>2. CASE ~TypeReleased(deleting)
    BY <1>1, <2>2 DEF Pending
  <2>3. QED
    BY <2>1, <2>2
<1>3. /\ deleting' = IF rest = <<>> THEN Null ELSE rest[Len(rest)]
      /\ toDelete' = IF rest = <<>> THEN <<>> ELSE SubSeq(rest, 1, Len(rest) - 1)
  BY DEF DeleteStep
<1> HIDE DEF rest
<1>4. CASE rest = <<>>
  <2>1. deleting' = Null /\ toDelete' = <<>>
    BY <1>3, <1>4
  <2>2. Waiting' = <<>>
    BY <2>1 DEF Waiting
  <2>3. QED
    BY <1>2, <1>4, <2>1, <2>2 DEF rest
<1>5. CASE rest # <<>>
  <2>1. deleting' = rest[Len(rest)] /\ toDelete' = SubSeq(rest, 1, Len(rest) - 1)
    BY <1>3, <1>5
  <2>2. /\ rest[Len(rest)] \in Ids /\ SubSeq(rest, 1, Len(rest) - 1) \in Seq(Ids)
        /\ Append(SubSeq(rest, 1, Len(rest) - 1), rest[Len(rest)]) = rest
    BY <1>2, <1>5, LastApart
  <2>3. deleting' # Null
    BY <2>1, <2>2, ExprStoreAssumption
  <2>4. Waiting' = rest
    BY <2>1, <2>2, <2>3 DEF Waiting
  <2>5. QED
    BY <1>2, <2>1, <2>2, <2>3, <2>4 DEF rest
<1>6. QED
  BY <1>4, <1>5

(* Deleting an expression leaves nothing that refers to it.                *)
LEMMA DeleteStepInv ==
    ASSUME StoreInv, DeleteStep, NEW e, e = deleting, NEW t, t = typeCache[e]
    PROVE  StoreInv'
<1>1. /\ e # Null
      /\ typeCache' = [typeCache EXCEPT ![e] = Null]
      /\ rc' = [d \in Ids |-> IF d = t THEN rc[d] - 1 ELSE rc[d]]
      /\ trie' = IF IsSymbol(e) THEN trie ELSE TrieRemove(trie, kids[e], Null)
      /\ live' = live \ {e} /\ kids' = [kids EXCEPT ![e] = <<>>] /\ held' = held
  BY DEF DeleteStep
<1>2. /\ e \in Ids /\ e \in live /\ rc[e] = 0 /\ held[e] = 0
      /\ ChildOf(e) = {} /\ TypeOf(e) = {} /\ \A i \in DOMAIN toDelete : toDelete[i] # e
  BY <1>1, DeletedUnreferenced
<1>3. t # Null => t \in Ids /\ t \in live /\ rc[t] >= 1 /\ e \in TypeOf(t)
  BY <1>2, TypeReferenced
<1>4. TypeOK /\ Null \notin Ids
  BY ExprStoreAssumption DEF StoreInv
<1>5. t # e
  BY <1>1, <1>2, <1>3
<1>6. /\ rc' \in [Ids -> Nat]
      /\ \A d \in Ids : rc'[d] = IF d = t THEN rc[d] - 1 ELSE rc[d]
  <2>1. ASSUME NEW d \in Ids
        PROVE  (IF d = t THEN rc[d] - 1 ELSE rc[d]) \in Nat
    BY <1>3, <1>4 DEF TypeOK
  <2>2. QED
    BY <1>1, <2>1
<1>7. /\ typeCache' \in [Ids -> Ids \cup {Null}]
      /\ \A d \in Ids : typeCache'[d] = IF d = e THEN Null ELSE typeCache[d]
  BY <1>1, <1>2, <1>4 DEF TypeOK
<1>8. kids' \in [Ids -> Seq(Ids)] /\ \A d \in live' : d \in live /\ d # e /\ kids'[d] = kids[d]
  BY <1>1, <1>2, <1>4 DEF TypeOK
<1>9. /\ DOMAIN trie' \subseteq DOMAIN trie
      /\ \A q \in DOMAIN trie' :
            trie'[q] # Null => trie'[q] = trie[q] /\ (q = <<>> \/ q # kids[e])
      /\ \A q \in DOMAIN trie' : trie'[q] \in Ids \cup {Null}
  <2>1. CASE IsSymbol(e)
    <3>1. trie' = trie /\ kids[e] = <<>>
      BY <1>1, <2>1 DEF IsSymbol
    <3>2. QED
      BY <1>4, <3>1 DEF TypeOK
  <2>2. CASE ~IsSymbol(e)
    <3>1. /\ DOMAIN trie' = DOMAIN trie \ Erased(trie, kids[e])
          /\ \A q \in DOMAIN trie' : trie'[q] = IF q = kids[e] THEN Null ELSE trie[q]
      <4>1. trie' = TrieRemove(trie, kids[e], Null)
        BY <1>1, <2>2
      <4>2. QED
        BY <4>1 DEF TrieRemove
    <3>2. QED
      BY <1>4, <3>1 DEF TypeOK
  <2>3. QED
    BY <2>1, <2>2
<1>10. /\ Pending(e) \in Seq(Ids) /\ toDelete' \in Seq(Ids) /\ deleting' \in Ids \cup {Null}
       /\ deleting' = Null => toDelete' = <<>>
       /\ Waiting' = Pending(e)
  BY WaitingNext
<1>11. TypeOK'
  BY <1>1, <1>4, <1>6, <1>7, <1>8, <1>9, <1>10 DEF TypeOK
<1>12. HandlesAlive'
  BY <1>1, <1>2 DEF StoreInv, HandlesAlive
<1>13. KidsAlive'
  <2>1. ASSUME NEW d \in live', NEW i \in DOMAIN kids'[d]
        PROVE  kids'[d][i] \in live'
    <3>1. d \in live /\ kids'[d] = kids[d] /\ kids[d][i] \in live
      BY <1>8, <2>1 DEF StoreInv, KidsAlive
    <3>2. kids[d][i] # e
      BY <1>2, <2>1, <3>1, ChildPlaces
    <3>3. QED
      BY <1>1, <3>1, <3>2
  <2>2. QED
    BY <2>1 DEF KidsAlive
<1>14. TypesAlive'
  <2>1. ASSUME NEW d \in Ids, typeCache'[d] # Null
        PROVE  d \in live' /\ typeCache'[d] \in live'
    <3>1. d # e /\ typeCache'[d] = typeCache[d]
      BY <1>7, <2>1
    <3>2. d \in live /\ typeCache[d] \in live
      BY <2>1, <3>1 DEF StoreInv, TypesAlive
    <3>3. typeCache[d] # e
      BY <1>2 DEF TypeOf
    <3>4. QED
      BY <1>1, <3>1, <3>2, <3>3
  <2>2. QED
    BY <2>1 DEF TypesAlive
<1>15. QueueInv'
  <2>1. ASSUME NEW i \in DOMAIN toDelete
        PROVE  /\ toDelete[i] \in live /\ rc[toDelete[i]] = 0 /\ toDelete[i] \in Ids
               /\ \A j \in DOMAIN toDelete : toDelete[i] = toDelete[j] => i = j
    <3>1. toDelete \in Seq(Ids) /\ e \in Ids
      BY <1>2, <1>4 DEF TypeOK
    <3>2. /\ DOMAIN toDelete \subseteq DOMAIN Append(toDelete, e)
          /\ \A j \in DOMAIN toDelete : Append(toDelete, e)[j] = toDelete[j]
      BY <3>1
    <3>3. WaitingOnce(Append(toDelete, e), live, rc)
      BY <1>1 DEF StoreInv, QueueInv, Waiting
    <3>4. QED
      BY <3>1, <3>2, <3>3 DEF WaitingOnce
  <2>2. ASSUME NEW i \in DOMAIN toDelete
        PROVE  toDelete[i] \in live' /\ rc'[toDelete[i]] = 0 /\ toDelete[i] # t
    <3>1. toDelete[i] # t
      BY <1>3, <1>4, <2>1
    <3>2. QED
      BY <1>1, <1>2, <1>6, <2>1, <3>1
  <2>3. WaitingOnce(Pending(e), live', rc')
    <3>1. CASE ~TypeReleased(e)
      <4>1. Pending(e) = toDelete
        BY <3>1 DEF Pending
      <4>2. QED
        BY <2>1, <2>2, <4>1 DEF WaitingOnce
    <3>2. CASE TypeReleased(e)
      <4>1. Pending(e) = Append(toDelete, t) /\ t # Null /\ rc[t] = 1
        BY <3>2 DEF Pending, TypeReleased
      <4>2. t \in Ids /\ t \in live' /\ rc'[t] = 0
        BY <1>1, <1>3, <1>5, <1>6, <4>1
      <4> DEFINE w == Append(toDelete, t)
                 n == Len(toDelete)
      <4>3. /\ n \in Nat /\ DOMAIN toDelete = 1 .. n /\ DOMAIN w = 1 .. n + 1
            /\ w[n + 1] = t /\ \A i \in 1 .. n : w[i] = toDelete[i]
        BY <1>4, <4>2 DEF TypeOK
      <4> HIDE DEF w, n
      <4>4. \A i \in DOMAIN w : i \in DOMAIN toDelete \/ i = n + 1
        BY <4>3
      <4>5. \A i \in DOMAIN w : w[i] \in live' /\ rc'[w[i]] = 0
        BY <2>2, <4>2, <4>3, <4>4
      <4>6. \A i, j \in DOMAIN w : w[i] = w[j] => i = j
        BY <2>1, <2>2, <4>3, <4>4
      <4>7. WaitingOnce(w, live', rc')
        BY <4>1, <4>5, <4>6 DEF WaitingOnce, w
      <4>8. QED
        BY <4>1, <4>7 DEF w
    <3>3. QED
      BY <3>1, <3>2
  <2>4. QED
    BY <1>10, <2>3 DEF QueueInv
<1>16. \A d : ChildOf(d)' \subseteq ChildOf(d)
  <2>1. live' \subseteq live /\ \A d \in live' : kids'[d] = kids[d]
    BY <1>1, <1>8
  <2>2. QED
    BY <2>1, SamePlaces
<1>17. \A d \in Ids : TypeOf(d)' = IF d = t THEN TypeOf(d) \ {e} ELSE TypeOf(d)
  <2>1. ASSUME NEW d \in Ids
        PROVE  TypeOf(d)' = IF d = t THEN TypeOf(d) \ {e} ELSE TypeOf(d)
    BY <1>4, <1>7 DEF TypeOf
  <2>2. QED
    BY <2>1
<1>18. ASSUME NEW d \in Ids
       PROVE  /\ IsFiniteSet(ChildOf(d)') /\ Cardinality(ChildOf(d)') \in Nat
              /\ Cardinality(ChildOf(d)') <= Cardinality(ChildOf(d))
              /\ Cardinality(ChildOf(d)) \in Nat
              /\ IsFiniteSet(TypeOf(d)) /\ Cardinality(TypeOf(d)) \in Nat
              /\ IsFiniteSet(TypeOf(d) \ {e})
              /\ Cardinality(TypeOf(d) \ {e})
                    = IF e \in TypeOf(d) THEN Cardinality(TypeOf(d)) - 1 ELSE Cardinality(TypeOf(d))
  <2>1. IsFiniteSet(ChildOf(d)) /\ IsFiniteSet(TypeOf(d))
    BY DEF StoreInv, FiniteRefs
  <2>2. /\ IsFiniteSet(ChildOf(d)') /\ Cardinality(ChildOf(d)') <= Cardinality(ChildOf(d))
    <3>1. ChildOf(d)' \in SUBSET ChildOf(d)
      BY <1>16
    <3>2. QED
      BY <2>1, <3>1, FS_Subset
  <2>3. /\ Cardinality(ChildOf(d)') \in Nat /\ Cardinality(ChildOf(d)) \in Nat
        /\ Cardinality(TypeOf(d)) \in Nat
    BY <2>1, <2>2, FS_CardinalityType
  <2>4. QED
    BY <2>1, <2>2, <2>3, FS_RemoveElement
<1>19. FiniteRefs'
  <2>1. ASSUME NEW d \in Ids
        PROVE  IsFiniteSet(ChildOf(d)') /\ IsFiniteSet(TypeOf(d)')
    BY <1>17, <1>18
  <2>2. QED
    BY <2>1 DEF FiniteRefs
<1>20. CountsCover'
  <2>1. ASSUME NEW d \in Ids
        PROVE  rc'[d] >= held'[d] + Cardinality(ChildOf(d)') + Cardinality(TypeOf(d)')
    <3>1. /\ rc[d] >= held[d] + Cardinality(ChildOf(d)) + Cardinality(TypeOf(d))
          /\ rc[d] \in Nat /\ held[d] \in Nat /\ held'[d] = held[d]
      BY <1>1, <1>4 DEF StoreInv, CountsCover, TypeOK
    <3>0. /\ Cardinality(ChildOf(d)') \in Nat /\ Cardinality(ChildOf(d)) \in Nat
          /\ Cardinality(ChildOf(d)') <= Cardinality(ChildOf(d))
          /\ Cardinality(TypeOf(d)) \in Nat
      BY <1>18
    <3>2. CASE d = t
      <4>1. rc'[d] = rc[d] - 1 /\ e \in TypeOf(d)
        BY <1>3, <1>4, <1>6, <3>2
      <4>2. Cardinality(TypeOf(d)') = Cardinality(TypeOf(d)) - 1
        BY <1>17, <1>18, <3>2, <4>1
      <4>3. QED
        BY <3>0, <3>1, <4>1, <4>2
    <3>3. CASE d # t
      <4>1. rc'[d] = rc[d] /\ TypeOf(d)' = TypeOf(d)
        BY <1>6, <1>17, <3>3
      <4>2. QED
        BY <3>0, <3>1, <4>1
    <3>4. QED
      BY <3>2, <3>3
  <2>2. QED
    BY <2>1 DEF CountsCover
<1>21. TrieSound'
  <2>1. ASSUME NEW q \in DOMAIN trie', trie'[q] # Null
        PROVE  q # <<>> /\ trie'[q] \in live' /\ kids'[trie'[q]] = q
    <3>1. q \in DOMAIN trie /\ trie'[q] = trie[q] /\ (q = <<>> \/ q # kids[e])
      BY <1>9, <2>1
    <3>2. q # <<>> /\ trie[q] \in live /\ kids[trie[q]] = q
      BY <2>1, <3>1 DEF StoreInv, TrieSound
    <3>3. trie[q] \in live'
      BY <1>1, <3>1, <3>2
    <3>4. QED
      BY <1>8, <3>1, <3>2, <3>3
  <2>2. QED
    BY <2>1 DEF TrieSound
<1>22. QED
  BY <1>11, <1>12, <1>13, <1>14, <1>15, <1>19, <1>20, <1>21 DEF StoreInv

(* A step that changes nothing keeps the invariant.                        *)
LEMMA StutterInv ==
    ASSUME StoreInv, UNCHANGED vars
    PROVE  StoreInv'
<1>1. /\ live' = live /\ kids' = kids /\ rc' = rc /\ held' = held /\ typeCache' = typeCache
      /\ trie' = trie /\ deleting' = deleting /\ toDelete' = toDelete
  BY DEF vars
<1>2. \A d : ChildOf(d)' = ChildOf(d) /\ TypeOf(d)' = TypeOf(d)
  BY <1>1 DEF ChildOf, TypeOf
<1>3. TypeOK' /\ HandlesAlive' /\ KidsAlive' /\ TypesAlive' /\ TrieSound' /\ QueueInv'
  BY <1>1 DEF StoreInv, TypeOK, HandlesAlive, KidsAlive, TypesAlive, TrieSound, QueueInv, Waiting
<1>4. FiniteRefs' /\ CountsCover'
  BY <1>1, <1>2 DEF StoreInv, FiniteRefs, CountsCover
<1>5. QED
  BY <1>3, <1>4 DEF StoreInv

(* At first there are no expressions.                                      *)
LEMMA StoreInvInit == Init => StoreInv
<1> SUFFICES ASSUME Init
             PROVE  StoreInv
  OBVIOUS
<1>1. /\ live = {} /\ kids = [e \in Ids |-> <<>>] /\ rc = [e \in Ids |-> 0]
      /\ held = [e \in Ids |-> 0] /\ typeCache = [e \in Ids |-> Null]
      /\ trie = [p \in {<<>>} |-> Null] /\ deleting = Null /\ toDelete = <<>>
  BY DEF Init, EmptyTrie
<1>2. TypeOK
  BY <1>1 DEF TypeOK
<1>3. HandlesAlive /\ KidsAlive /\ TypesAlive /\ TrieSound
  BY <1>1 DEF HandlesAlive, KidsAlive, TypesAlive, TrieSound
<1>4. QueueInv
  <2>1. Waiting = <<>>
    BY <1>1 DEF Waiting
  <2>2. QED
    BY <1>1, <2>1 DEF QueueInv, WaitingOnce
<1>5. ASSUME NEW e \in Ids
      PROVE  ChildOf(e) = {} /\ TypeOf(e) = {}
  <2>1. ChildOf(e) = {}
    BY <1>1, ChildPlaces
  <2>2. TypeOf(e) = {}
    BY <1>1, ExprStoreAssumption DEF TypeOf
  <2>3. QED
    BY <2>1, <2>2
<1>6. FiniteRefs
  BY <1>5, FS_EmptySet DEF FiniteRefs
<1>7. CountsCover
  <2>1. ASSUME NEW e \in Ids
        PROVE  rc[e] >= held[e] + Cardinality(ChildOf(e)) + Cardinality(TypeOf(e))
    BY <1>1, <1>5, FS_EmptySet
  <2>2. QED
    BY <2>1 DEF CountsCover
<1>8. QED
  BY <1>2, <1>3, <1>4, <1>6, <1>7 DEF StoreInv

(* Every operation keeps the invariant.                                    *)
LEMMA StoreInvNext == StoreInv /\ [Next]_vars => StoreInv'
<1> SUFFICES ASSUME StoreInv, [Next]_vars
             PROVE  StoreInv'
  OBVIOUS
<1>1. CASE \E e \in Ids, t \in Ids \cup {Null} : MkSymbol(e, t)
  BY <1>1, MkSymbolInv
<1>2. CASE \E cs \in Children : MkExprFinds(cs)
  BY <1>2, MkExprFindsInv
<1>3. CASE \E cs \in Children, e \in Ids : MkExprMakes(cs, e)
  BY <1>3, MkExprMakesInv
<1>4. CASE \E e, t \in Ids : CacheType(e, t)
  BY <1>4, CacheTypeInv
<1>5. CASE \E e \in Ids : Drop(e)
  BY <1>5, DropInv
<1>6. CASE DeleteStep
  <2>1. PICK e, t : e = deleting /\ t = typeCache[e]
    OBVIOUS
  <2>2. QED
    BY <1>6, <2>1, DeleteStepInv
<1>7. CASE UNCHANGED vars
  BY <1>7, StutterInv
<1>8. QED
  BY <1>1, <1>2, <1>3, <1>4, <1>5, <1>6, <1>7 DEF Next

(* So it always holds.                                                    *)
LEMMA StoreInvAlways == Spec => []StoreInv
<1>1. QED
  BY StoreInvInit, StoreInvNext, PTL DEF Spec

(* The variables keep their types: a reference count never goes below zero,*)
(* although two places decrement it.                                       *)
THEOREM StoreTypes == Spec => []TypeOK
<1>1. StoreInv => TypeOK
  BY DEF StoreInv
<1>2. QED
  BY <1>1, StoreInvAlways, PTL

(* Reference counts (Expr, ExprValue::inc and dec) are never too small, for*)
(* any numbers of children and any order of operations.                    *)
THEOREM CountsNeverTooSmall == Spec => []CountsCover
<1>1. StoreInv => CountsCover
  BY DEF StoreInv
<1>2. QED
  BY <1>1, StoreInvAlways, PTL

(* Nothing refers to an expression that markDeleted has freed, and nothing *)
(* is freed twice.                                                         *)
THEOREM NothingDangles == Spec => []NoDangling
<1>1. StoreInv => NoDangling
  <2> SUFFICES ASSUME StoreInv
               PROVE  NoDangling
    OBVIOUS
  <2>1. /\ HandlesAlive /\ KidsAlive /\ TypesAlive
    BY DEF StoreInv
  <2>2. \A term \in Terms : term[2] \in live
    BY DEF StoreInv, TrieSound, Terms
  <2>3. WaitingOnce(Waiting, live, rc)
    BY DEF StoreInv, QueueInv
  <2>4. QED
    BY <2>1, <2>2, <2>3
       DEF NoDangling, HandlesAlive, KidsAlive, TypesAlive, WaitingOnce, Waiting
<1>2. QED
  BY <1>1, StoreInvAlways, PTL

-----------------------------------------------------------------------------
(* The trie finds each expression under its children, and the store keeps *)
(* the promise of mkExprInternal, if all expressions of a kind have the    *)
(* same number of children.                                                *)

(* The expressions of a kind have the same number of children.             *)
OneArity == \A m, n \in Arities : m = n

-----------------------------------------------------------------------------
(* Numbers *)

(* A set of numbers has a least one.                                       *)
LEMMA Least ==
    ASSUME NEW T, T \subseteq Nat, T # {}
    PROVE  \E m \in T : \A k \in T : m <= k
<1>1. IsWellFoundedOn(OpToRel(<, Nat), Nat)
  BY NatLessThanWellFounded
<1>2. PICK m \in T : \A k \in T : ~(<<k, m>> \in OpToRel(<, Nat))
  BY <1>1, WFMin
<1>3. \A k \in T : ~(k < m)
  BY <1>2 DEF OpToRel
<1>4. QED
  BY <1>3

(* A set of numbers below a bound ends somewhere.                          *)
LEMMA EndOfSet ==
    ASSUME NEW n \in Nat, NEW B, B \subseteq 0 .. n - 1
    PROVE  \E i \in 0 .. n : /\ \A j \in B : j < i
                             /\ i = 0 \/ i - 1 \in B
<1> DEFINE T == {i \in 0 .. n : \A j \in B : j < i}
<1>1. n \in T
  OBVIOUS
<1>2. T \subseteq Nat /\ T # {}
  BY <1>1
<1> HIDE DEF T
<1>3. PICK i \in T : \A k \in T : i <= k
  BY <1>2, Least
<1> USE DEF T
<1>4. i \in 0 .. n /\ \A j \in B : j < i
  BY <1>3
<1>5. CASE i # 0 /\ i - 1 \notin B
  <2>1. \A j \in B : j \in Int /\ j < i /\ j # i - 1
    BY <1>4, <1>5
  <2>2. i - 1 \in 0 .. n /\ \A j \in B : j < i - 1
    BY <1>4, <1>5, <2>1
  <2>3. i - 1 \in T
    BY <2>2
  <2>4. i <= i - 1
    BY <1>3, <2>3
  <2>5. QED
    BY <1>4, <2>4
<1>6. QED
  BY <1>4, <1>5

(* A set with two elements has more than one.                              *)
LEMMA TwoElements ==
    ASSUME NEW T, IsFiniteSet(T), NEW a \in T, NEW b \in T, a # b
    PROVE  Cardinality(T) > 1
<1>1. Cardinality(T) \in Nat
  BY FS_CardinalityType
<1>2. Cardinality(T) # 0
  BY FS_EmptySet
<1>3. Cardinality(T) # 1
  <2>1. ~ \E x : T = {x}
    OBVIOUS
  <2>2. QED
    BY <2>1, FS_Singleton
<1>4. QED
  BY <1>1, <1>2, <1>3

-----------------------------------------------------------------------------
(* The trie *)

(* The way to a sequence has finitely many nodes.                          *)
LEMMA WayFinite ==
    ASSUME NEW S, NEW s \in Seq(S)
    PROVE  IsFiniteSet(PrefixesOf(s))
<1> DEFINE n == Len(s)
           f == [i \in 0 .. n |-> Prefix(s, i)]
<1>1. n \in Nat
  OBVIOUS
<1> HIDE DEF n
<1>2. PrefixesOf(s) = {Prefix(s, i) : i \in 0 .. n}
  BY DEF PrefixesOf, n
<1>3. f \in Surjection(0 .. n, PrefixesOf(s))
  <2>1. f \in [0 .. n -> PrefixesOf(s)]
    BY <1>2
  <2>2. \A p \in PrefixesOf(s) : \E i \in 0 .. n : f[i] = p
    BY <1>2
  <2> HIDE DEF f
  <2>3. QED
    BY <2>1, <2>2 DEF Surjection
<1> HIDE DEF f
<1>4. IsFiniteSet(0 .. n)
  BY <1>1, FS_Interval
<1>5. QED
  BY <1>3, <1>4, FS_Surjection

(* Two sequences of the same length agree up to a place where they differ. *)
LEMMA FirstDifference ==
    ASSUME NEW S, NEW p \in Seq(S), NEW q \in Seq(S), Len(p) = Len(q), p # q
    PROVE  \E j \in 1 .. Len(p) : p[j] # q[j] /\ \A k \in 1 .. j - 1 : p[k] = q[k]
<1> DEFINE T == {j \in 1 .. Len(p) : p[j] # q[j]}
<1>1. T # {}
  <2>1. ASSUME T = {}
        PROVE  FALSE
    <3>1. \A j \in 1 .. Len(p) : p[j] = q[j]
      BY <2>1
    <3>2. p = q
      BY <3>1, SeqEqual
    <3>3. QED
      BY <3>2
  <2>2. QED
    BY <2>1
<1>2. T \subseteq Nat
  OBVIOUS
<1> HIDE DEF T
<1>3. PICK j \in T : \A k \in T : j <= k
  BY <1>1, <1>2, Least
<1>4. j \in 1 .. Len(p) /\ p[j] # q[j] /\ Len(p) \in Nat
  BY <1>3 DEF T
<1>5. ASSUME NEW k \in 1 .. j - 1
      PROVE  p[k] = q[k]
  <2>1. k \in 1 .. Len(p) /\ ~(j <= k)
    BY <1>4
  <2>2. QED
    BY <1>3, <2>1 DEF T
<1>6. QED
  BY <1>4, <1>5

(* Prefixes that agree are equal.                                          *)
LEMMA PrefixEqual ==
    ASSUME NEW S, NEW p \in Seq(S), NEW q \in Seq(S), NEW i \in Nat,
           i <= Len(p), i <= Len(q), \A k \in 1 .. i : p[k] = q[k]
    PROVE  Prefix(p, i) = Prefix(q, i)
<1>1. i \in 0 .. Len(p) /\ i \in 0 .. Len(q)
  OBVIOUS
<1> DEFINE a == Prefix(p, i)
           b == Prefix(q, i)
<1>2. /\ a \in Seq(S) /\ Len(a) = i /\ \A j \in 1 .. i : a[j] = p[j]
      /\ b \in Seq(S) /\ Len(b) = i /\ \A j \in 1 .. i : b[j] = q[j]
  BY <1>1, PrefixFacts
<1> HIDE DEF a, b
<1>3. Len(a) = Len(b) /\ \A j \in 1 .. Len(a) : a[j] = b[j]
  BY <1>2
<1>4. a = b
  BY <1>2, <1>3, SeqEqual
<1>5. QED
  BY <1>4 DEF a, b

(* The prefix of a prefix.                                                 *)
LEMMA PrefixOfPrefix ==
    ASSUME NEW S, NEW p \in Seq(S), NEW m \in 0 .. Len(p), NEW i \in 0 .. m
    PROVE  Prefix(Prefix(p, m), i) = Prefix(p, i)
<1> DEFINE a == Prefix(p, m)
<1>1. a \in Seq(S) /\ Len(a) = m /\ \A j \in 1 .. m : a[j] = p[j]
  BY PrefixFacts
<1> HIDE DEF a
<1>2. i \in Nat /\ i <= Len(a) /\ i <= Len(p) /\ \A j \in 1 .. i : a[j] = p[j]
  BY <1>1
<1>3. Prefix(a, i) = Prefix(p, i)
  BY <1>1, <1>2, PrefixEqual
<1>4. QED
  BY <1>3 DEF a

(* The nodes that remove erases have no other child above: removing a path *)
(* leaves every other path of the same length.                             *)
LEMMA RemoveKeeps ==
    ASSUME NEW S, NEW t, DOMAIN t \subseteq Seq(S), IsFiniteSet(DOMAIN t),
           NEW p \in Seq(S), NEW q \in Seq(S), Len(p) = Len(q), p # q,
           PrefixesOf(p) \subseteq DOMAIN t, PrefixesOf(q) \subseteq DOMAIN t
    PROVE  PrefixesOf(q) \cap Erased(t, p) = {}
<1> DEFINE n == Len(p)
           i == SingleFrom(t, p)
<1>1. n \in Nat /\ Len(q) = n
  OBVIOUS
<1>2. i \in 0 .. n /\ \A j \in Branches(t, p) : j < i
  <2>1. Branches(t, p) \subseteq 0 .. n - 1
    BY DEF Branches
  <2>2. \E k \in 0 .. n : /\ \A j \in Branches(t, p) : j < k
                          /\ k = 0 \/ k - 1 \in Branches(t, p)
    BY <1>1, <2>1, EndOfSet
  <2>3. QED
    BY <2>2 DEF SingleFrom
<1> HIDE DEF n, i
<1>3. ASSUME NEW r \in PrefixesOf(q), r \in Erased(t, p)
      PROVE  FALSE
  <2>1. i < n /\ Extends(r, Prefix(p, i + 1))
    BY <1>3 DEF Erased, i, n
  <2>2. PICK m \in 0 .. n : r = Prefix(q, m)
    BY <1>1, <1>3 DEF PrefixesOf
  <2>3. i + 1 \in 0 .. n /\ i + 1 \in Nat
    BY <1>1, <1>2, <2>1
  <2>4. /\ Len(Prefix(p, i + 1)) = i + 1
        /\ \A k \in 1 .. i + 1 : Prefix(p, i + 1)[k] = p[k]
    BY <1>1, <2>3, PrefixFacts DEF n
  <2>5. Len(r) = m
    BY <1>1, <2>2, PrefixFacts
  <2>6. i + 1 <= m /\ Prefix(r, i + 1) = Prefix(p, i + 1)
    BY <2>1, <2>4, <2>5 DEF Extends
  <2>7. i + 1 \in 0 .. m
    BY <2>3, <2>6
  <2>8. Prefix(r, i + 1) = Prefix(q, i + 1)
    BY <1>1, <2>2, <2>7, PrefixOfPrefix
  <2>9. \A k \in 1 .. i + 1 : Prefix(q, i + 1)[k] = q[k]
    BY <1>1, <2>3, PrefixFacts
  <2>10. \A k \in 1 .. i + 1 : p[k] = q[k]
    BY <2>4, <2>6, <2>8, <2>9
  <2>11. PICK j \in 1 .. n : p[j] # q[j] /\ \A k \in 1 .. j - 1 : p[k] = q[k]
    BY FirstDifference DEF n
  <2>12. ~(j <= i + 1)
    BY <2>10, <2>11, <2>3
  <2>13. /\ j \in 0 .. n /\ j - 1 \in 0 .. n /\ j - 1 \in 0 .. n - 1 /\ j - 1 \in Nat
         /\ j - 1 \in 0 .. j /\ ~(j - 1 < i) /\ j \in 1 .. j
    BY <1>1, <1>2, <2>12
  <2> DEFINE x == Prefix(p, j - 1)
             a == Prefix(p, j)
             b == Prefix(q, j)
  <2>14. x = Prefix(q, j - 1)
    BY <1>1, <2>11, <2>13, PrefixEqual DEF n
  <2>15. /\ Len(x) = j - 1 /\ Len(a) = j /\ a[j] = p[j]
         /\ Len(b) = j /\ b[j] = q[j]
    BY <1>1, <2>13, PrefixFacts DEF n
  <2>16. a # b
    BY <2>11, <2>15
  <2>17. Prefix(a, j - 1) = x /\ Prefix(b, j - 1) = x
    BY <1>1, <2>13, <2>14, PrefixOfPrefix DEF n
  <2>18. a \in DOMAIN t /\ b \in DOMAIN t
    BY <1>1, <2>13 DEF n, PrefixesOf
  <2> HIDE DEF x, a, b
  <2>19. a \in ChildrenOf(t, x) /\ b \in ChildrenOf(t, x)
    <3>1. Extends(a, x) /\ Extends(b, x)
      BY <2>13, <2>15, <2>17 DEF Extends
    <3>2. Len(a) = Len(x) + 1 /\ Len(b) = Len(x) + 1
      BY <2>13, <2>15
    <3>3. QED
      BY <2>18, <3>1, <3>2 DEF ChildrenOf
  <2>20. Cardinality(ChildrenOf(t, x)) > 1
    <3>1. ChildrenOf(t, x) \in SUBSET DOMAIN t
      BY DEF ChildrenOf
    <3>2. IsFiniteSet(ChildrenOf(t, x))
      BY <3>1, FS_Subset
    <3>3. QED
      BY <2>16, <2>19, <3>2, TwoElements
  <2>21. j - 1 \in Branches(t, p)
    BY <2>13, <2>20 DEF Branches, x, n
  <2>22. QED
    BY <1>2, <2>13, <2>21
<1>4. QED
  BY <1>3

-----------------------------------------------------------------------------
(* The store *)

(* Each expression with children is found under them, on a way that is     *)
(* whole.                                                                  *)
Indexed(e) == /\ Len(kids[e]) \in Arities
              /\ PrefixesOf(kids[e]) \subseteq DOMAIN trie
              /\ trie[kids[e]] = e

AllIndexed == \A e \in Composite : Indexed(e)

TrieInv == StoreInv /\ IsFiniteSet(DOMAIN trie) /\ AllIndexed

(* Expressions that a step leaves as they are, with the trie, are found.   *)
LEMMA IndexKept ==
    ASSUME TrieInv, StoreInv', trie' = trie, Composite' = Composite,
           \A d \in Composite : kids'[d] = kids[d]
    PROVE  TrieInv'
<1>1. ASSUME NEW d \in Composite'
      PROVE  Indexed(d)'
  <2>1. d \in Composite /\ kids'[d] = kids[d] /\ Indexed(d)
    BY DEF TrieInv, AllIndexed
  <2>2. QED
    BY <2>1 DEF Indexed
<1>2. QED
  BY <1>1 DEF TrieInv, AllIndexed

(* A symbol has no children.                                               *)
LEMMA MkSymbolComposite ==
    ASSUME StoreInv, NEW e \in Ids, NEW t, MkSymbol(e, t)
    PROVE  Composite' = Composite /\ \A d \in Composite : kids'[d] = kids[d]
<1>1. e \notin live /\ live' = live \cup {e} /\ kids' = [kids EXCEPT ![e] = <<>>]
  BY DEF MkSymbol
<1>2. kids'[e] = <<>> /\ \A d \in live : kids'[d] = kids[d]
  BY <1>1 DEF StoreInv, TypeOK
<1>3. QED
  BY <1>1, <1>2 DEF Composite, IsSymbol

(* An expression that is made is one more.                                 *)
LEMMA MkExprMakesComposite ==
    ASSUME StoreInv, NEW cs \in Children, NEW e \in Ids, MkExprMakes(cs, e)
    PROVE  /\ Composite' = Composite \cup {e} /\ e \notin Composite /\ kids'[e] = cs
           /\ \A d \in Composite : kids'[d] = kids[d]
<1>1. e \notin live /\ live' = live \cup {e} /\ kids' = [kids EXCEPT ![e] = cs] /\ cs # <<>>
  BY ChildrenFacts DEF MkExprMakes
<1>2. kids'[e] = cs /\ \A d \in live : kids'[d] = kids[d]
  BY <1>1 DEF StoreInv, TypeOK
<1>3. QED
  BY <1>1, <1>2 DEF Composite, IsSymbol

(* An expression that is deleted is one less.                              *)
LEMMA DeleteStepComposite ==
    ASSUME StoreInv, DeleteStep
    PROVE  /\ Composite' = Composite \ {deleting} /\ deleting \in live
           /\ \A d \in Composite' : kids'[d] = kids[d]
<1> DEFINE e == deleting
<1>1. e # Null /\ live' = live \ {e} /\ kids' = [kids EXCEPT ![e] = <<>>]
  BY DEF DeleteStep
<1>2. e \in live
  BY <1>1, DeletedUnreferenced
<1>3. \A d \in live' : kids'[d] = kids[d]
  BY <1>1 DEF StoreInv, TypeOK
<1>4. QED
  BY <1>1, <1>2, <1>3 DEF Composite, IsSymbol

(* What is made is found, and what was found still is.                     *)
LEMMA MkExprMakesTrie ==
    ASSUME TrieInv, StoreInv', NEW cs \in Children, NEW e \in Ids, MkExprMakes(cs, e)
    PROVE  TrieInv'
<1>1. /\ Composite' = Composite \cup {e} /\ kids'[e] = cs
      /\ \A d \in Composite : kids'[d] = kids[d]
  BY MkExprMakesComposite DEF TrieInv
<1>2. Found(cs) = Null /\ trie' = [TrieGet(trie, cs, Null) EXCEPT ![cs] = e]
  BY DEF MkExprMakes
<1>3. /\ DOMAIN trie' = DOMAIN trie \cup PrefixesOf(cs)
      /\ trie'[cs] = e
      /\ \A q \in DOMAIN trie' : q # cs => trie'[q] = IF q \in DOMAIN trie THEN trie[q] ELSE Null
  BY <1>2, TrieAdds
<1>4. cs \in Seq(Ids) /\ Len(cs) \in Arities
  BY ChildrenFacts
<1>5. IsFiniteSet(DOMAIN trie')
  <2>1. IsFiniteSet(PrefixesOf(cs)) /\ IsFiniteSet(DOMAIN trie)
    BY <1>4, WayFinite DEF TrieInv
  <2>2. QED
    BY <1>3, <2>1, FS_Union
<1>6. Indexed(e)'
  BY <1>1, <1>3, <1>4 DEF Indexed
<1>7. ASSUME NEW d \in Composite
      PROVE  Indexed(d)'
  <2>1. kids'[d] = kids[d] /\ Indexed(d)
    BY <1>1 DEF TrieInv, AllIndexed
  <2>2. d \in Ids /\ kids[d] \in Seq(Ids) /\ d # Null
    BY ExprStoreAssumption DEF TrieInv, StoreInv, TypeOK, Composite
  <2>3. kids[d] \in DOMAIN trie /\ trie[kids[d]] = d
    BY <2>1, <2>2, WayFacts DEF Indexed
  <2>4. kids[d] # cs
    BY <1>2, <2>2, <2>3, FoundInTrie
  <2>5. trie'[kids[d]] = d
    BY <1>3, <2>3, <2>4
  <2>6. QED
    BY <1>3, <2>1, <2>5 DEF Indexed
<1>8. QED
  BY <1>1, <1>5, <1>6, <1>7 DEF TrieInv, AllIndexed

(* What is deleted is found no more, and everything else still is.         *)
LEMMA DeleteStepTrie ==
    ASSUME OneArity, TrieInv, StoreInv', DeleteStep
    PROVE  TrieInv'
<1>1. PICK e : e = deleting
  OBVIOUS
<1>2. /\ Composite' = Composite \ {e} /\ e \in live
      /\ \A d \in Composite' : kids'[d] = kids[d]
  BY <1>1, DeleteStepComposite DEF TrieInv
<1>3. trie' = IF IsSymbol(e) THEN trie ELSE TrieRemove(trie, kids[e], Null)
  BY <1>1 DEF DeleteStep
<1>4. CASE IsSymbol(e)
  <2>1. trie' = trie /\ Composite' = Composite
    BY <1>2, <1>3, <1>4 DEF Composite
  <2>2. QED
    BY <1>2, <2>1, IndexKept
<1>5. CASE ~IsSymbol(e)
  <2> DEFINE p == kids[e]
  <2>1. trie' = TrieRemove(trie, p, Null)
    BY <1>3, <1>5
  <2>2. /\ DOMAIN trie' = DOMAIN trie \ Erased(trie, p)
        /\ \A q \in DOMAIN trie' : trie'[q] = IF q = p THEN Null ELSE trie[q]
    BY <2>1 DEF TrieRemove
  <2>3. IsFiniteSet(DOMAIN trie')
    <3>1. DOMAIN trie' \in SUBSET DOMAIN trie
      BY <2>2
    <3>2. QED
      BY <3>1, FS_Subset DEF TrieInv
  <2>4. e \in Composite /\ Indexed(e)
    BY <1>2, <1>5 DEF TrieInv, AllIndexed, Composite
  <2>5. ASSUME NEW d \in Composite'
        PROVE  Indexed(d)'
    <3> DEFINE q == kids[d]
    <3>1. d \in Composite /\ d # e /\ kids'[d] = q /\ Indexed(d)
      BY <1>2 DEF TrieInv, AllIndexed
    <3>2. p \in Seq(Ids) /\ q \in Seq(Ids) /\ DOMAIN trie \subseteq Seq(Ids)
      BY <2>4, <3>1 DEF TrieInv, StoreInv, TypeOK, Composite
    <3>3. /\ PrefixesOf(p) \subseteq DOMAIN trie /\ trie[p] = e /\ Len(p) \in Arities
          /\ PrefixesOf(q) \subseteq DOMAIN trie /\ trie[q] = d /\ Len(q) \in Arities
      BY <2>4, <3>1 DEF Indexed
    <3>4. p # q /\ Len(p) = Len(q)
      BY <3>1, <3>3 DEF OneArity
    <3>5. IsFiniteSet(DOMAIN trie)
      BY DEF TrieInv
    <3> HIDE DEF p, q
    <3>6. PrefixesOf(q) \cap Erased(trie, p) = {}
      BY <3>2, <3>3, <3>4, <3>5, RemoveKeeps
    <3>7. PrefixesOf(q) \subseteq DOMAIN trie' /\ q \in DOMAIN trie'
      BY <2>2, <3>2, <3>3, <3>6, WayFacts
    <3>8. trie'[q] = d
      BY <2>2, <3>3, <3>4, <3>7
    <3>9. QED
      BY <3>1, <3>3, <3>7, <3>8 DEF Indexed
  <2>6. QED
    BY <2>3, <2>5 DEF TrieInv, AllIndexed
<1>6. QED
  BY <1>4, <1>5

(* Every operation keeps the trie.                                         *)
LEMMA TrieInvNext ==
    ASSUME OneArity
    PROVE  TrieInv /\ [Next]_vars => TrieInv'
<1> SUFFICES ASSUME TrieInv, [Next]_vars
             PROVE  TrieInv'
  OBVIOUS
<1>1. StoreInv /\ StoreInv'
  BY StoreInvNext DEF TrieInv
<1>2. ASSUME NEW e \in Ids, NEW t \in Ids \cup {Null}, MkSymbol(e, t)
      PROVE  TrieInv'
  <2>1. Composite' = Composite /\ \A d \in Composite : kids'[d] = kids[d]
    BY <1>1, <1>2, MkSymbolComposite
  <2>2. trie' = trie
    BY <1>2 DEF MkSymbol
  <2>3. QED
    BY <1>1, <2>1, <2>2, IndexKept
<1>3. ASSUME trie' = trie, live' = live, kids' = kids
      PROVE  TrieInv'
  <2>1. Composite' = Composite
    BY <1>3 DEF Composite, IsSymbol
  <2>2. QED
    BY <1>1, <1>3, <2>1, IndexKept
<1>4. ASSUME NEW cs \in Children, MkExprFinds(cs)
      PROVE  TrieInv'
  BY <1>3, <1>4 DEF MkExprFinds
<1>5. ASSUME NEW cs \in Children, NEW e \in Ids, MkExprMakes(cs, e)
      PROVE  TrieInv'
  BY <1>1, <1>5, MkExprMakesTrie
<1>6. ASSUME NEW e \in Ids, NEW t \in Ids, CacheType(e, t)
      PROVE  TrieInv'
  BY <1>3, <1>6 DEF CacheType
<1>7. ASSUME NEW e \in Ids, Drop(e)
      PROVE  TrieInv'
  BY <1>3, <1>7 DEF Drop
<1>8. CASE DeleteStep
  BY <1>1, <1>8, DeleteStepTrie
<1>9. CASE UNCHANGED vars
  BY <1>3, <1>9 DEF vars
<1>10. QED
  BY <1>2, <1>4, <1>5, <1>6, <1>7, <1>8, <1>9 DEF Next

(* At first the trie has its root only.                                    *)
LEMMA TrieInvInit == Init => TrieInv
<1> SUFFICES ASSUME Init
             PROVE  TrieInv
  OBVIOUS
<1>1. StoreInv
  BY StoreInvInit
<1>2. DOMAIN trie = {<<>>} /\ live = {}
  BY DEF Init, EmptyTrie
<1>3. IsFiniteSet(DOMAIN trie)
  BY <1>2, FS_Singleton
<1>4. AllIndexed
  BY <1>2 DEF AllIndexed, Composite
<1>5. QED
  BY <1>1, <1>3, <1>4 DEF TrieInv

(* So the trie is always kept.                                             *)
LEMMA TrieInvAlways ==
    ASSUME OneArity
    PROVE  Spec => []TrieInv
<1>1. TrieInv /\ [Next]_vars => TrieInv'
  BY TrieInvNext
<1>2. QED
  BY <1>1, TrieInvInit, PTL DEF Spec

(* In such a state the trie finds the expressions with children, and each  *)
(* of them.                                                                *)
LEMMA TrieInvExact == TrieInv => TrieExact
<1> SUFFICES ASSUME TrieInv
             PROVE  TrieExact
  OBVIOUS
<1>1. ASSUME NEW p \in DOMAIN trie, trie[p] # Null
      PROVE  trie[p] \in Composite /\ kids[trie[p]] = p
  BY <1>1 DEF TrieInv, StoreInv, TrieSound, Composite, IsSymbol
<1>2. ASSUME NEW e \in Composite
      PROVE  kids[e] \in DOMAIN trie /\ trie[kids[e]] = e /\ e # Null
  <2>1. e \in Ids /\ kids[e] \in Seq(Ids) /\ e # Null
    BY ExprStoreAssumption DEF TrieInv, StoreInv, TypeOK, Composite
  <2>2. QED
    BY <2>1, WayFacts DEF TrieInv, AllIndexed, Indexed
<1>3. Terms \subseteq {<<kids[e], e>> : e \in Composite}
  BY <1>1 DEF Terms
<1>4. {<<kids[e], e>> : e \in Composite} \subseteq Terms
  BY <1>2 DEF Terms
<1>5. QED
  BY <1>3, <1>4 DEF TrieExact

(* The trie (ExprTrie::get and remove) finds exactly the live expressions  *)
(* with children, each under its own, for any one number of children.      *)
THEOREM TrieIsExact ==
    ASSUME OneArity
    PROVE  Spec => []TrieExact
<1>1. Spec => []TrieInv
  BY TrieInvAlways
<1>2. QED
  BY <1>1, TrieInvExact, PTL

(* Expressions with the same children are the same, so that terms can be   *)
(* compared by address, for any one number of children (with several it is *)
(* not so, see the run that refutes it).                                   *)
THEOREM TermsAreShared ==
    ASSUME OneArity
    PROVE  Spec => []Shared
<1>1. TrieInv => Shared
  BY DEF TrieInv, AllIndexed, Indexed, Shared
<1>2. Spec => []TrieInv
  BY TrieInvAlways
<1>3. QED
  BY <1>1, <1>2, PTL

-----------------------------------------------------------------------------
(* The promise of mkExprInternal *)

(* A step is one of the map of terms, or leaves it as it is.               *)
LEMMA StepRefines ==
    ASSUME OneArity, TrieInv, TrieExact, TrieExact', [Next]_vars
    PROVE  [Map!TermNext]_Terms
<1>1. /\ Terms = {<<kids[e], e>> : e \in Composite}
      /\ Terms' = {<<kids'[e], e>> : e \in Composite'}
  BY DEF TrieExact
<1>2. StoreInv
  BY DEF TrieInv
<1>3. ASSUME Composite' = Composite, \A d \in Composite : kids'[d] = kids[d]
      PROVE  Terms' = Terms
  BY <1>1, <1>3
<1>4. ASSUME NEW e \in Ids, NEW t \in Ids \cup {Null}, MkSymbol(e, t)
      PROVE  Terms' = Terms
  BY <1>2, <1>3, <1>4, MkSymbolComposite
<1>5. ASSUME live' = live, kids' = kids
      PROVE  Terms' = Terms
  <2>1. Composite' = Composite
    BY <1>5 DEF Composite, IsSymbol
  <2>2. QED
    BY <1>3, <1>5, <2>1
<1>6. ASSUME NEW cs \in Children, MkExprFinds(cs)
      PROVE  Terms' = Terms
  BY <1>5, <1>6 DEF MkExprFinds
<1>7. ASSUME NEW cs \in Children, NEW e \in Ids, MkExprMakes(cs, e)
      PROVE  Map!TermNext
  <2>1. /\ Composite' = Composite \cup {e} /\ e \notin Composite /\ kids'[e] = cs
        /\ \A d \in Composite : kids'[d] = kids[d]
    BY <1>2, <1>7, MkExprMakesComposite
  <2>2. Terms' = Terms \cup {<<cs, e>>}
    BY <1>1, <2>1
  <2>3. Found(cs) = Null
    BY <1>7 DEF MkExprMakes
  <2>4. ASSUME NEW d \in Composite
        PROVE  kids[d] # cs /\ d # e
    <3>1. d \in Ids /\ kids[d] \in Seq(Ids) /\ d # Null /\ Indexed(d)
      BY ExprStoreAssumption DEF TrieInv, AllIndexed, StoreInv, TypeOK, Composite
    <3>2. kids[d] \in DOMAIN trie /\ trie[kids[d]] = d
      BY <3>1, WayFacts DEF Indexed
    <3>3. kids[d] # cs
      BY <2>3, <3>1, <3>2, FoundInTrie
    <3>4. QED
      BY <2>1, <3>3
  <2>5. \A term \in Terms : term[1] # cs /\ term[2] # e
    BY <1>1, <2>4
  <2>6. cs \in UNION {[1 .. n -> Ids] : n \in Arities}
    BY DEF Children, Held
  <2>7. Map!Construct(cs, e)
    BY <2>2, <2>5 DEF Map!Construct
  <2>8. QED
    BY <2>6, <2>7 DEF Map!TermNext
<1>8. ASSUME NEW e \in Ids, NEW t \in Ids, CacheType(e, t)
      PROVE  Terms' = Terms
  BY <1>5, <1>8 DEF CacheType
<1>9. ASSUME NEW e \in Ids, Drop(e)
      PROVE  Terms' = Terms
  BY <1>5, <1>9 DEF Drop
<1>10. ASSUME DeleteStep
       PROVE  [Map!TermNext]_Terms
  <2>1. PICK e : e = deleting
    OBVIOUS
  <2>2. /\ Composite' = Composite \ {e} /\ e \in live
        /\ \A d \in Composite' : kids'[d] = kids[d]
    BY <1>2, <1>10, <2>1, DeleteStepComposite
  <2>3. CASE e \in Composite
    <3>1. <<kids[e], e>> \in Terms
      BY <1>1, <2>3
    <3>2. Terms' = Terms \ {<<kids[e], e>>}
      <4>1. ASSUME NEW x \in Terms'
            PROVE  x \in Terms /\ x # <<kids[e], e>>
        BY <1>1, <2>2
      <4>2. ASSUME NEW x \in Terms, x # <<kids[e], e>>
            PROVE  x \in Terms'
        BY <1>1, <2>2, <4>2
      <4>3. QED
        BY <4>1, <4>2, <1>1, <2>2
    <3>3. <<kids[e], e>>[1] = kids[e] /\ <<kids[e], e>>[2] = e
      OBVIOUS
    <3>4. Map!Delete(kids[e], e)
      BY <3>1, <3>2 DEF Map!Delete
    <3>5. QED
      BY <3>1, <3>3, <3>4 DEF Map!TermNext
  <2>4. CASE e \notin Composite
    <3>1. Composite' = Composite
      BY <2>2, <2>4
    <3>2. QED
      BY <1>3, <2>2, <3>1
  <2>5. QED
    BY <2>3, <2>4
<1>11. CASE UNCHANGED vars
  BY <1>5, <1>11 DEF vars
<1>12. QED
  BY <1>4, <1>6, <1>7, <1>8, <1>9, <1>10, <1>11 DEF Next

(* The store does what mkExprInternal promises in state.h: an expression is*)
(* made or returned again, and only one in use is taken away.              *)
THEOREM StoreImplementsTermMap ==
    ASSUME OneArity
    PROVE  Spec => ImplementsTermMap
<1>1. Init => Map!TermInit
  BY DEF Init, EmptyTrie, Map!TermInit, Terms
<1>2. TrieInv /\ TrieExact /\ TrieExact' /\ [Next]_vars => [Map!TermNext]_Terms
  BY StepRefines
<1>3. (Spec => []TrieInv) /\ (Spec => []TrieExact)
  BY TrieInvAlways, TrieIsExact
<1>4. QED
  BY <1>1, <1>2, <1>3, PTL DEF Spec, ImplementsTermMap, Map!TermSpec

=============================================================================
