------------------------- MODULE SymbolTableProofs -------------------------
(***************************************************************************)
(* Proofs about the symbol table, for every set of names, expressions and  *)
(* rules and for scopes of any depth: types, sizes and declarations under  *)
(* any use, then, under the discipline of FreshSpec, that the undo logs    *)
(* are exact and implement the stack of environments of ScopedEnv.         *)
(***************************************************************************)
EXTENDS SymbolTableProps, TLAPS, FiniteSetTheorems, SequenceTheorems

-----------------------------------------------------------------------------
(* Sequences *)

(* The front of a nonempty sequence drops its last element only.           *)
LEMMA FrontFacts ==
    ASSUME NEW S, NEW s \in Seq(S), s # <<>>
    PROVE  /\ Len(s) \in Nat \ {0}
           /\ LastOf(s) \in S
           /\ FrontOf(s) \in Seq(S)
           /\ Len(FrontOf(s)) = Len(s) - 1
           /\ \A i \in 1 .. Len(s) - 1 : FrontOf(s)[i] = s[i]
<1>1. Len(s) \in Nat \ {0} /\ LastOf(s) \in S
  BY DEF LastOf
<1>2. \A i \in 1 .. Len(s) - 1 : s[i] \in S
  BY <1>1
<1>3. /\ SubSeq(s, 1, Len(s) - 1) \in Seq(S)
      /\ Len(SubSeq(s, 1, Len(s) - 1)) = IF 1 <= Len(s) - 1 THEN (Len(s) - 1) - 1 + 1 ELSE 0
      /\ \A i \in 1 .. (Len(s) - 1) - 1 + 1 : SubSeq(s, 1, Len(s) - 1)[i] = s[1 + i - 1]
  <2>1. Len(s) - 1 \in Int
    BY <1>1
  <2>2. QED
    BY <2>1, <1>2, SubSeqProperties
<1>4. Len(SubSeq(s, 1, Len(s) - 1)) = Len(s) - 1
  <2>1. \A k \in Nat \ {0} : (IF 1 <= k - 1 THEN (k - 1) - 1 + 1 ELSE 0) = k - 1
    OBVIOUS
  <2>2. QED
    BY <1>1, <1>3, <2>1, Zenon
<1>5. ASSUME NEW i \in 1 .. Len(s) - 1
      PROVE  SubSeq(s, 1, Len(s) - 1)[i] = s[i]
  <2>1. i \in 1 .. (Len(s) - 1) - 1 + 1 /\ 1 + i - 1 = i
    BY <1>1
  <2>2. SubSeq(s, 1, Len(s) - 1)[i] = s[1 + i - 1]
    BY <2>1, <1>3
  <2>3. QED
    BY <2>1, <2>2
<1>6. QED
  BY <1>1, <1>3, <1>4, <1>5 DEF FrontOf

(* Appending keeps what was there and puts the new element last.           *)
LEMMA AppendFacts ==
    ASSUME NEW S, NEW s \in Seq(S), NEW e \in S
    PROVE  /\ Append(s, e) \in Seq(S)
           /\ Len(Append(s, e)) = Len(s) + 1
           /\ Append(s, e)[Len(s) + 1] = e
           /\ \A i \in 1 .. Len(s) : Append(s, e)[i] = s[i]
    OBVIOUS

-----------------------------------------------------------------------------
(* Types *)

(* Binding a name keeps the types.                                         *)
LEMMA BindSymbolType ==
    ASSUME TypeOK, NEW n \in Names, NEW e \in Bindable, BindSymbol(n, e)
    PROVE  /\ symTable' \in [Names -> Bindable \cup {Null}]
           /\ overloads' \in [Bindable -> Seq(Bindable)]
           /\ decls' \in Seq(Names)
           /\ overloadedDecls' \in Seq(Names)
<1> USE DEF TypeOK, BindSymbol
<1>1. symTable' \in [Names -> Bindable \cup {Null}]
  OBVIOUS
<1>2. ASSUME symTable[n] # Null
      PROVE  OverloadsOf(symTable[n]) \in Seq(Bindable)
  BY <1>2 DEF OverloadsOf
<1>3. overloads' \in [Bindable -> Seq(Bindable)]
  BY <1>2
<1>4. decls' \in Seq(Names) /\ overloadedDecls' \in Seq(Names)
  OBVIOUS
<1>5. QED
  BY <1>1, <1>3, <1>4

(* popScope resizes d_decls to a length that d_decls has: types alone are  *)
(* not inductive, for a resize past the end would append empty names.      *)
TypeInv == TypeOK /\ CtxMonotone

(* Binding a name only lengthens d_decls, so the sizes stay in order.      *)
LEMMA BindSymbolCtx ==
    ASSUME TypeInv, NEW n \in Names, NEW e \in Bindable, BindSymbol(n, e), Ready
    PROVE  CtxMonotone'
<1>1. Len(decls') \in Nat /\ Len(decls') >= Len(decls)
  BY DEF TypeInv, TypeOK, BindSymbol
<1>2. declsSizeCtx' = declsSizeCtx /\ popping' = popping /\ ~popping
  BY DEF BindSymbol, Ready
<1>3. QED
  BY <1>1, <1>2 DEF TypeInv, TypeOK, CtxMonotone

(* An iteration of the loop of popScope.                                   *)
LEMMA LoopCtx ==
    ASSUME TypeInv, LoopRuns, Len(decls') = Len(decls) - 1,
           UNCHANGED <<declsSizeCtx, popping, lastSize>>
    PROVE  CtxMonotone'
<1>1. popping /\ lastSize \in Nat /\ Len(decls) \in Nat /\ lastSize < Len(decls)
  BY DEF TypeInv, TypeOK, LoopRuns
<1>2. lastSize' <= Len(decls')
  BY <1>1
<1>3. \A i \in 1 .. Len(declsSizeCtx) : declsSizeCtx[i] \in Nat /\ declsSizeCtx[i] <= lastSize
  BY <1>1 DEF TypeInv, TypeOK, CtxMonotone
<1>4. \A i \in 1 .. Len(declsSizeCtx) : declsSizeCtx[i] <= Len(decls')
  BY <1>1, <1>3
<1>5. QED
  BY <1>2, <1>3, <1>4 DEF TypeInv, CtxMonotone

(* The table starts empty.                                                 *)
LEMMA TypeInvInit == Init => TypeInv
<1>1. <<>> \in Seq(Bindable) /\ <<>> \in Seq(Names) /\ <<>> \in Seq(Nat)
  OBVIOUS
<1>2. Init => TypeOK
  <2> SUFFICES ASSUME Init PROVE TypeOK
    OBVIOUS
  <2>1. /\ symTable \in [Names -> Bindable \cup {Null}]
        /\ ruleSymTable \in [Names -> Rules \cup {Null}]
    BY DEF Init, Unbound
  <2>2. overloads \in [Bindable -> Seq(Bindable)]
    BY <1>1 DEF Init
  <2>3. QED
    BY <1>1, <2>1, <2>2 DEF Init, TypeOK
<1>3. Init => CtxMonotone
  BY DEF Init, CtxMonotone
<1>4. QED
  BY <1>2, <1>3 DEF TypeInv

(* Types and the order of the sizes are inductive.                         *)
LEMMA TypeInvNext == TypeInv /\ [Next]_vars => TypeInv'
<1> SUFFICES ASSUME TypeInv, [Next]_vars
             PROVE  TypeInv'
  OBVIOUS
<1> USE DEF TypeInv
<1>1. ASSUME NEW n \in Names, NEW e \in Bindable, BindFresh(n, e)
      PROVE  TypeInv'
  <2>1. BindSymbol(n, e) /\ made' = made \cup {e} /\ Ready
    BY <1>1 DEF BindFresh
  <2>2. QED
    BY <2>1, BindSymbolType, BindSymbolCtx DEF TypeOK, BindSymbol
<1>2. ASSUME NEW n \in Names, NEW e \in Bindable, BindExisting(n, e)
      PROVE  TypeInv'
  <2>1. BindSymbol(n, e) /\ made' = made /\ Ready
    BY <1>2 DEF BindExisting
  <2>2. QED
    BY <2>1, BindSymbolType, BindSymbolCtx DEF TypeOK, BindSymbol
<1>3. ASSUME NEW n \in Names, NEW r \in Rules, BindRule(n, r)
      PROVE  TypeInv'
  <2>1. TypeOK'
    BY <1>3 DEF TypeOK, BindRule, undoLogs, Bindable
  <2>2. CtxMonotone'
    BY <1>3 DEF CtxMonotone, BindRule, undoLogs
  <2>3. QED
    BY <2>1, <2>2
<1>4. CASE PushScope
  <2>1. TypeOK'
    BY <1>4 DEF TypeOK, PushScope
  <2>2. CtxMonotone'
    <3>1. Len(decls) \in Nat /\ declsSizeCtx \in Seq(Nat)
      BY DEF TypeOK
    <3>2. \A i \in 1 .. Len(declsSizeCtx) : declsSizeCtx'[i] = declsSizeCtx[i]
      BY <1>4, <3>1 DEF PushScope
    <3>3. /\ Len(declsSizeCtx') = Len(declsSizeCtx) + 1
          /\ declsSizeCtx'[Len(declsSizeCtx) + 1] = Len(decls)
      BY <1>4, <3>1 DEF PushScope
    <3>4. decls' = decls /\ ~popping'
      BY <1>4 DEF PushScope, Ready
    <3>5. \A i \in 1 .. Len(declsSizeCtx) : declsSizeCtx[i] \in Nat
      BY <3>1
    <3>6. \A i \in 1 .. Len(declsSizeCtx') :
             i \in 1 .. Len(declsSizeCtx) \/ i = Len(declsSizeCtx) + 1
      BY <3>1, <3>3
    <3>7. \A i \in 1 .. Len(declsSizeCtx') : declsSizeCtx'[i] <= Len(decls')
      BY <3>1, <3>2, <3>3, <3>4, <3>6 DEF CtxMonotone
    <3>8. ASSUME NEW i \in 1 .. Len(declsSizeCtx'), NEW j \in 1 .. Len(declsSizeCtx'), i <= j
          PROVE  declsSizeCtx'[i] <= declsSizeCtx'[j]
      <4>1. CASE j = Len(declsSizeCtx) + 1
        BY <3>3, <3>4, <3>7, <4>1
      <4>2. CASE j \in 1 .. Len(declsSizeCtx)
        <5>1. i \in 1 .. Len(declsSizeCtx)
          BY <3>1, <3>8, <4>2
        <5>2. QED
          BY <3>2, <3>8, <4>2, <5>1 DEF CtxMonotone
      <4>3. QED
        BY <3>6, <4>1, <4>2
    <3>9. QED
      BY <3>4, <3>7, <3>8 DEF CtxMonotone
  <2>3. QED
    BY <2>1, <2>2
<1>5. CASE PopScope
  <2> DEFINE L == Len(declsSizeCtx)
  <2>1. /\ declsSizeCtx \in Seq(Nat) /\ declsSizeCtx # <<>>
        /\ Len(decls) \in Nat
    BY <1>5 DEF PopScope, Nested, TypeOK
  <2>2. /\ L \in Nat \ {0}
        /\ LastOf(declsSizeCtx) \in Nat
        /\ FrontOf(declsSizeCtx) \in Seq(Nat)
        /\ Len(FrontOf(declsSizeCtx)) = L - 1
        /\ \A i \in 1 .. L - 1 : FrontOf(declsSizeCtx)[i] = declsSizeCtx[i]
    BY <2>1, FrontFacts
  <2>3. TypeOK'
    BY <1>5, <2>2 DEF TypeOK, PopScope
  <2>4. CtxMonotone'
    <3>1. LastOf(declsSizeCtx) = declsSizeCtx[L]
      BY DEF LastOf
    <3>2. /\ declsSizeCtx' = FrontOf(declsSizeCtx) /\ lastSize' = LastOf(declsSizeCtx)
          /\ decls' = decls
      BY <1>5 DEF PopScope
    <3>3. \A i \in 1 .. L - 1 : declsSizeCtx[i] <= declsSizeCtx[L]
      BY <2>2 DEF CtxMonotone
    <3>4. /\ \A i, j \in 1 .. L : i <= j => declsSizeCtx[i] <= declsSizeCtx[j]
          /\ \A i \in 1 .. L : declsSizeCtx[i] <= Len(decls)
          /\ \A i \in 1 .. L - 1 : i \in 1 .. L
      BY <2>2 DEF CtxMonotone
    <3>5. /\ \A i, j \in 1 .. L - 1 : i <= j => declsSizeCtx'[i] <= declsSizeCtx'[j]
          /\ \A i \in 1 .. L - 1 : /\ declsSizeCtx'[i] <= Len(decls')
                                  /\ declsSizeCtx'[i] <= lastSize'
          /\ lastSize' <= Len(decls')
      <4>1. \A i \in 1 .. L - 1 : declsSizeCtx'[i] = declsSizeCtx[i]
        BY <2>2, <3>2, Zenon
      <4>2. L \in 1 .. L /\ lastSize' = declsSizeCtx[L] /\ decls' = decls
        BY <2>2, <3>1, <3>2
      <4> HIDE DEF L
      <4>3. QED
        BY <3>3, <3>4, <4>1, <4>2, Zenon
    <3>6. Len(declsSizeCtx') = L - 1
      BY <2>2, <3>2
    <3> HIDE DEF L
    <3>7. QED
      BY <3>5, <3>6, Zenon DEF CtxMonotone
  <2>5. QED
    BY <2>3, <2>4
<1>6. CASE RevertOverload
  <2> DEFINE n == LastOf(decls)
             e == symTable[n]
             ov == overloads[e]
             rest == FrontOf(ov)
  <2>1. decls # <<>> /\ overloadedDecls # <<>>
    BY <1>6 DEF RevertOverload, LoopRuns, WasOverloaded, TypeOK
  <2>2. /\ n \in Names
        /\ FrontOf(decls) \in Seq(Names) /\ Len(FrontOf(decls)) = Len(decls) - 1
        /\ FrontOf(overloadedDecls) \in Seq(Names)
    BY <2>1, FrontFacts DEF TypeOK
  <2>3. e \in Bindable /\ Len(ov) >= 2
    BY <1>6, <2>2 DEF RevertOverload, RevertAsserts, TypeOK
  <2>4. ov \in Seq(Bindable) /\ ov # <<>>
    BY <2>3 DEF TypeOK
  <2>5. rest \in Seq(Bindable) /\ Len(rest) = Len(ov) - 1
    BY <2>4, FrontFacts
  <2>6. rest # <<>>
    BY <2>3, <2>4, <2>5
  <2>7. LastOf(rest) \in Bindable
    BY <2>5, <2>6, FrontFacts
  <2>8. /\ symTable' = [symTable EXCEPT ![n] = LastOf(rest)]
        /\ overloads' = [overloads EXCEPT ![e] = rest]
        /\ decls' = FrontOf(decls)
        /\ overloadedDecls' = FrontOf(overloadedDecls)
        /\ UNCHANGED <<ruleSymTable, declsSizeCtx, popping, lastSize, made, crashed>>
    BY <1>6 DEF RevertOverload
  <2> HIDE DEF n, e, ov, rest
  <2>9. TypeOK'
    BY <2>2, <2>3, <2>5, <2>7, <2>8 DEF TypeOK
  <2>10. CtxMonotone'
    BY <1>6, <2>2, <2>8, LoopCtx DEF RevertOverload
  <2>11. QED
    BY <2>9, <2>10
<1>7. CASE EraseBinding
  <2>1. decls # <<>>
    BY <1>7 DEF EraseBinding, LoopRuns, TypeOK
  <2>2. /\ LastOf(decls) \in Names /\ FrontOf(decls) \in Seq(Names)
        /\ Len(FrontOf(decls)) = Len(decls) - 1
    BY <2>1, FrontFacts DEF TypeOK
  <2>3. TypeOK'
    BY <1>7, <2>2 DEF EraseBinding, TypeOK
  <2>4. CtxMonotone'
    BY <1>7, <2>2, LoopCtx DEF EraseBinding
  <2>5. QED
    BY <2>3, <2>4
<1>8. CASE RevertCrashes
  BY <1>8 DEF TypeOK, CtxMonotone, RevertCrashes, undoLogs
<1>9. CASE PopScopeReturns
  <2>1. /\ decls \in Seq(Names) /\ lastSize \in Nat /\ Len(decls) \in Nat
        /\ Len(decls) <= lastSize /\ lastSize <= Len(decls)
        /\ decls' = SubSeq(decls, 1, lastSize)
    BY <1>9 DEF PopScopeReturns, TypeOK, CtxMonotone
  <2>2. decls' = decls
    BY <2>1, SubSeqFull
  <2>3. QED
    BY <1>9, <2>2 DEF TypeOK, CtxMonotone, PopScopeReturns
<1>10. CASE Reset
  <2>1. <<>> \in Seq(Names) /\ <<>> \in Seq(Nat)
    OBVIOUS
  <2>2. TypeOK'
    BY <1>10, <2>1 DEF TypeOK, Reset, Unbound
  <2>3. CtxMonotone'
    BY <1>10 DEF CtxMonotone, Reset, Ready
  <2>4. QED
    BY <2>2, <2>3
<1>11. CASE UNCHANGED vars
  BY <1>11 DEF TypeOK, CtxMonotone, vars
<1>12. QED
  BY <1>1, <1>2, <1>3, <1>4, <1>5, <1>6, <1>7, <1>8, <1>9, <1>10, <1>11
  DEF Next, PopLoop

(* Type correctness of the symbol table under every use of it, let, define *)
(* and reset included.                                                     *)
THEOREM TypeCorrect == Spec => []TypeOK
<1>1. TypeInv => TypeOK
  BY DEF TypeInv
<1>2. QED
  BY <1>1, TypeInvInit, TypeInvNext, PTL DEF Spec

(* popScope unbinds names of the scope it closes only, under every use of  *)
(* the table: d_declsSizeCtx stays sorted and within d_decls.              *)
THEOREM ScopesNest == Spec => []CtxMonotone
<1>1. TypeInv => CtxMonotone
  BY DEF TypeInv
<1>2. QED
  BY <1>1, TypeInvInit, TypeInvNext, PTL DEF Spec

-----------------------------------------------------------------------------
(* Declared names are bound *)

(* f leads each declaration that found its name bound to its entry in      *)
(* d_overloadedDecls: in order, up to the last entry, and every later      *)
(* declaration of a name is among them.  What a reset has left behind are  *)
(* entries before those, and an entry that an existing term has cost is    *)
(* not looked at: f need not be unique.                                    *)
Entries(f, ds, ods) ==
    /\ DOMAIN f \subseteq 1 .. Len(ds)
    /\ \A i \in DOMAIN f : f[i] \in 1 .. Len(ods) /\ ods[f[i]] = ds[i]
    /\ \A i, j \in DOMAIN f : i < j => f[i] < f[j]
    /\ \A i \in DOMAIN f : \A p \in f[i] .. Len(ods) : \E j \in DOMAIN f : f[j] = p
    /\ \A i, j \in 1 .. Len(ds) : i < j /\ ds[i] = ds[j] => j \in DOMAIN f

Logged(ds, ods) == \E f : Entries(f, ds, ods)

(* A name that has no declaration yet needs no entry.                      *)
LEMMA LoggedNew ==
    ASSUME NEW N, NEW ds \in Seq(N), NEW ods \in Seq(N), NEW n \in N, Logged(ds, ods),
           \A i \in 1 .. Len(ds) : ds[i] # n
    PROVE  Logged(Append(ds, n), ods)
<1>1. PICK f : Entries(f, ds, ods)
  BY DEF Logged
<1>2. /\ Len(ds) \in Nat /\ Len(Append(ds, n)) = Len(ds) + 1
      /\ Append(ds, n)[Len(ds) + 1] = n
      /\ \A i \in 1 .. Len(ds) : Append(ds, n)[i] = ds[i]
  OBVIOUS
<1>3. \A i \in DOMAIN f : i \in 1 .. Len(ds) /\ i \in 1 .. Len(Append(ds, n))
  BY <1>1, <1>2 DEF Entries
<1>4. ASSUME NEW i \in 1 .. Len(Append(ds, n)), NEW j \in 1 .. Len(Append(ds, n)), i < j,
             Append(ds, n)[i] = Append(ds, n)[j]
      PROVE  j \in DOMAIN f
  <2>1. i \in 1 .. Len(ds)
    BY <1>2, <1>4
  <2>2. j \in 1 .. Len(ds)
    BY <1>2, <1>4, <2>1
  <2>3. QED
    BY <1>1, <1>2, <1>4, <2>1, <2>2 DEF Entries
<1>5. \A i \in DOMAIN f : f[i] \in 1 .. Len(ods) /\ ods[f[i]] = Append(ds, n)[i]
  BY <1>1, <1>2, <1>3 DEF Entries
<1>6. Entries(f, Append(ds, n), ods)
  BY <1>1, <1>3, <1>4, <1>5 DEF Entries
<1>7. QED
  BY <1>6 DEF Logged

(* A name that is bound gets an entry.                                     *)
LEMMA LoggedOverload ==
    ASSUME NEW N, NEW ds \in Seq(N), NEW ods \in Seq(N), NEW n \in N, Logged(ds, ods)
    PROVE  Logged(Append(ds, n), Append(ods, n))
<1>1. PICK f : Entries(f, ds, ods)
  BY DEF Logged
<1> DEFINE k == Len(ds) + 1
           m == Len(ods) + 1
           es == Append(ds, n)
           oes == Append(ods, n)
           g == [i \in DOMAIN f \cup {k} |-> IF i = k THEN m ELSE f[i]]
<1>2. /\ Len(ds) \in Nat /\ Len(es) = k /\ es[k] = n
      /\ \A i \in 1 .. Len(ds) : es[i] = ds[i]
      /\ Len(ods) \in Nat /\ Len(oes) = m /\ oes[m] = n
      /\ \A i \in 1 .. Len(ods) : oes[i] = ods[i]
  OBVIOUS
<1>3. \A i \in DOMAIN f : /\ i \in 1 .. Len(ds) /\ i # k /\ i < k
                          /\ f[i] \in 1 .. Len(ods) /\ f[i] < m
  BY <1>1, <1>2 DEF Entries
<1>4. /\ DOMAIN g = DOMAIN f \cup {k}
      /\ g[k] = m
      /\ \A i \in DOMAIN f : g[i] = f[i]
  BY <1>3
<1> HIDE DEF g, es, oes
<1>5. DOMAIN g \subseteq 1 .. Len(es)
  BY <1>2, <1>3, <1>4
<1>6. ASSUME NEW i \in DOMAIN g
      PROVE  g[i] \in 1 .. Len(oes) /\ oes[g[i]] = es[i]
  <2>1. CASE i = k
    BY <1>2, <1>4, <2>1
  <2>2. CASE i \in DOMAIN f
    BY <1>1, <1>2, <1>3, <1>4, <2>2 DEF Entries
  <2>3. QED
    BY <1>4, <2>1, <2>2
<1>7. ASSUME NEW i \in DOMAIN g, NEW j \in DOMAIN g, i < j
      PROVE  g[i] < g[j]
  <2>1. i \in DOMAIN f
    BY <1>2, <1>3, <1>4, <1>7
  <2>2. CASE j = k
    BY <1>3, <1>4, <2>1, <2>2
  <2>3. CASE j \in DOMAIN f
    BY <1>1, <1>4, <1>7, <2>1, <2>3 DEF Entries
  <2>4. QED
    BY <1>4, <2>2, <2>3
<1>8. ASSUME NEW i \in DOMAIN g, NEW p \in g[i] .. Len(oes)
      PROVE  \E j \in DOMAIN g : g[j] = p
  <2>1. CASE p = m
    BY <1>4, <2>1
  <2>2. CASE p # m
    <3>1. p \in g[i] .. Len(ods)
      BY <1>2, <1>6, <2>2
    <3>2. i \in DOMAIN f
      BY <1>2, <1>4, <3>1
    <3>3. PICK j \in DOMAIN f : f[j] = p
      BY <1>1, <1>4, <3>1, <3>2 DEF Entries
    <3>4. QED
      BY <1>4, <3>3
  <2>3. QED
    BY <2>1, <2>2
<1>9. ASSUME NEW i \in 1 .. Len(es), NEW j \in 1 .. Len(es), i < j, es[i] = es[j]
      PROVE  j \in DOMAIN g
  <2>1. CASE j = k
    BY <1>4, <2>1
  <2>2. CASE j # k
    <3>1. i \in 1 .. Len(ds) /\ j \in 1 .. Len(ds)
      BY <1>2, <1>9, <2>2
    <3>2. QED
      BY <1>1, <1>2, <1>4, <1>9, <3>1 DEF Entries
  <2>3. QED
    BY <2>1, <2>2
<1>10. Entries(g, es, oes)
  BY <1>5, <1>6, <1>7, <1>8, <1>9 DEF Entries
<1>11. QED
  BY <1>10 DEF Logged, es, oes

(* The last declaration and the last entry are of the same name and go     *)
(* together: if the declaration has an entry it is that one.               *)
LEMMA LoggedRevert ==
    ASSUME NEW N, NEW ds \in Seq(N), NEW ods \in Seq(N), Logged(ds, ods),
           ds # <<>>, ods # <<>>, LastOf(ods) = LastOf(ds)
    PROVE  Logged(FrontOf(ds), FrontOf(ods))
<1>1. PICK f : Entries(f, ds, ods)
  BY DEF Logged
<1> DEFINE k == Len(ds)
           m == Len(ods)
           es == FrontOf(ds)
           oes == FrontOf(ods)
           g == [i \in DOMAIN f \ {k} |-> f[i]]
<1>2. /\ k \in Nat \ {0} /\ Len(es) = k - 1 /\ \A i \in 1 .. k - 1 : es[i] = ds[i]
      /\ m \in Nat \ {0} /\ Len(oes) = m - 1 /\ \A i \in 1 .. m - 1 : oes[i] = ods[i]
  BY FrontFacts
<1>3. /\ DOMAIN g = DOMAIN f \ {k}
      /\ \A i \in DOMAIN g : g[i] = f[i] /\ i \in DOMAIN f
  OBVIOUS
<1> HIDE DEF g, es, oes
<1>4. ods[m] = ds[k]
  BY DEF LastOf
<1>5. \A i \in DOMAIN f : i \in 1 .. k /\ f[i] \in 1 .. m
  BY <1>1 DEF Entries
<1>6. ASSUME NEW i \in DOMAIN g
      PROVE  f[i] # m /\ i \in 1 .. k - 1 /\ f[i] \in 1 .. m - 1
  <2>1. i \in DOMAIN f /\ i \in 1 .. k /\ i # k
    BY <1>3, <1>5
  <2>2. ASSUME f[i] = m PROVE FALSE
    <3>1. ds[i] = ds[k]
      BY <1>1, <1>4, <2>1, <2>2 DEF Entries
    <3>2. i < k /\ k \in 1 .. k
      BY <1>2, <2>1
    <3>3. k \in DOMAIN f
      BY <1>1, <2>1, <3>1, <3>2 DEF Entries
    <3>4. f[i] < f[k]
      BY <1>1, <2>1, <3>2, <3>3 DEF Entries
    <3>5. QED
      BY <1>2, <1>5, <2>2, <3>3, <3>4
  <2>3. QED
    BY <1>2, <1>5, <2>1, <2>2
<1>7. DOMAIN g \subseteq 1 .. Len(es)
  BY <1>2, <1>6
<1>8. \A i \in DOMAIN g : g[i] \in 1 .. Len(oes) /\ oes[g[i]] = es[i]
  <2> TAKE i \in DOMAIN g
  <2>1. ods[f[i]] = ds[i]
    BY <1>1, <1>3 DEF Entries
  <2>2. QED
    BY <1>2, <1>3, <1>6, <2>1
<1>9. \A i, j \in DOMAIN g : i < j => g[i] < g[j]
  BY <1>1, <1>3 DEF Entries
<1>10. ASSUME NEW i \in DOMAIN g, NEW p \in g[i] .. Len(oes)
       PROVE  \E j \in DOMAIN g : g[j] = p
  <2>1. p \in f[i] .. m /\ p # m
    BY <1>2, <1>3, <1>6
  <2>2. f[i] .. m \subseteq f[i] .. Len(ods)
    OBVIOUS
  <2>3. PICK j \in DOMAIN f : f[j] = p
    BY <1>1, <1>3, <2>1 DEF Entries
  <2>4. j # k
    <3>1. ASSUME j = k PROVE FALSE
      <4>1. m \in f[k] .. m
        BY <1>2, <1>5, <2>3, <3>1
      <4>2. PICK j2 \in DOMAIN f : f[j2] = m
        BY <1>1, <2>3, <3>1, <4>1 DEF Entries
      <4>3. j2 # k /\ j2 < k
        BY <1>2, <1>5, <2>1, <2>3, <3>1, <4>2
      <4>4. j2 \in DOMAIN g
        BY <1>3, <4>2, <4>3
      <4>5. QED
        BY <1>6, <4>2, <4>4
    <3>2. QED
      BY <3>1
  <2>5. QED
    BY <1>3, <2>3, <2>4
<1>11. ASSUME NEW i \in 1 .. Len(es), NEW j \in 1 .. Len(es), i < j, es[i] = es[j]
       PROVE  j \in DOMAIN g
  <2>1. i \in 1 .. k /\ j \in 1 .. k /\ j # k /\ ds[i] = ds[j]
    BY <1>2, <1>11
  <2>2. QED
    BY <1>1, <1>3, <1>11, <2>1 DEF Entries
<1>12. Entries(g, es, oes)
  BY <1>7, <1>8, <1>9, <1>10, <1>11 DEF Entries
<1>13. QED
  BY <1>12 DEF Logged, es, oes

(* If they are not of the same name, the last declaration has no entry and *)
(* its name no earlier declaration.                                        *)
LEMMA LoggedErase ==
    ASSUME NEW N, NEW ds \in Seq(N), NEW ods \in Seq(N), Logged(ds, ods),
           ds # <<>>, ods = <<>> \/ LastOf(ods) # LastOf(ds)
    PROVE  /\ Logged(FrontOf(ds), ods)
           /\ \A i \in 1 .. Len(ds) - 1 : ds[i] # LastOf(ds)
<1>1. PICK f : Entries(f, ds, ods)
  BY DEF Logged
<1> DEFINE k == Len(ds)
           m == Len(ods)
           es == FrontOf(ds)
<1>2. /\ k \in Nat \ {0} /\ Len(es) = k - 1 /\ \A i \in 1 .. k - 1 : es[i] = ds[i]
      /\ m \in Nat /\ ds[k] = LastOf(ds)
  BY FrontFacts DEF LastOf
<1> HIDE DEF es
<1>3. \A i \in DOMAIN f : i \in 1 .. k /\ f[i] \in 1 .. m
  BY <1>1 DEF Entries
<1>4. k \notin DOMAIN f
  <2>1. SUFFICES ASSUME k \in DOMAIN f PROVE FALSE
    OBVIOUS
  <2>2. m \in f[k] .. m /\ ods # <<>>
    BY <1>2, <1>3, <2>1
  <2>3. PICK j \in DOMAIN f : f[j] = m
    BY <1>1, <2>1, <2>2 DEF Entries
  <2>4. j = k
    <3>1. ~(j < k)
      <4>1. ASSUME j < k PROVE FALSE
        <5>1. f[j] < f[k]
          BY <1>1, <2>1, <2>3, <4>1 DEF Entries
        <5>2. QED
          BY <1>2, <1>3, <2>1, <2>3, <5>1
      <4>2. QED
        BY <4>1
    <3>2. QED
      BY <1>2, <1>3, <2>3, <3>1
  <2>5. ods[m] = ds[k]
    BY <1>1, <2>3, <2>4 DEF Entries
  <2>6. QED
    BY <1>2, <2>2, <2>5 DEF LastOf
<1>5. \A i \in 1 .. k - 1 : ds[i] # LastOf(ds)
  <2> TAKE i \in 1 .. k - 1
  <2>1. i \in 1 .. k /\ k \in 1 .. k /\ i < k
    BY <1>2
  <2>2. QED
    BY <1>1, <1>2, <1>4, <2>1 DEF Entries
<1>6. \A i \in DOMAIN f : i \in 1 .. k - 1
  BY <1>2, <1>3, <1>4
<1>7. \A i \in DOMAIN f : f[i] \in 1 .. Len(ods) /\ ods[f[i]] = es[i]
  BY <1>1, <1>2, <1>6 DEF Entries
<1>8. ASSUME NEW i \in 1 .. Len(es), NEW j \in 1 .. Len(es), i < j, es[i] = es[j]
      PROVE  j \in DOMAIN f
  <2>1. i \in 1 .. k /\ j \in 1 .. k /\ ds[i] = ds[j]
    BY <1>2, <1>8
  <2>2. QED
    BY <1>1, <1>8, <2>1 DEF Entries
<1>9. DOMAIN f \subseteq 1 .. Len(es)
  BY <1>2, <1>6
<1>10. Entries(f, es, ods)
  BY <1>1, <1>7, <1>8, <1>9 DEF Entries
<1>11. QED
  BY <1>5, <1>10 DEF Logged, es

(* The inductive invariant: the names are bound, and the log of overloads  *)
(* is exact enough for popScope to erase the first declaration only.       *)
BoundInv == TypeInv /\ DeclsBound /\ Logged(decls, overloadedDecls)

LEMMA BoundInvInit == Init => BoundInv
<1> SUFFICES ASSUME Init PROVE BoundInv
  OBVIOUS
<1>1. TypeInv
  BY TypeInvInit
<1>2. decls = <<>> /\ overloadedDecls = <<>>
  BY DEF Init
<1>3. DeclsBound
  BY <1>2 DEF DeclsBound
<1>4. Entries(<<>>, decls, overloadedDecls)
  BY <1>2 DEF Entries
<1>5. QED
  BY <1>1, <1>3, <1>4 DEF BoundInv, Logged

(* Binding a name, fresh or not.                                           *)
LEMMA BoundInvBind ==
    ASSUME BoundInv, NEW n \in Names, NEW e \in Bindable, BindSymbol(n, e)
    PROVE  DeclsBound' /\ Logged(decls', overloadedDecls')
<1>1. /\ decls \in Seq(Names) /\ overloadedDecls \in Seq(Names)
      /\ symTable \in [Names -> Bindable \cup {Null}]
      /\ Len(decls) \in Nat
  BY DEF BoundInv, TypeInv, TypeOK
<1>2. /\ symTable'[n] # Null
      /\ \A x \in Names : symTable[x] # Null => symTable'[x] # Null
  BY <1>1, SymbolTableAssumption DEF BindSymbol, Bindable
<1>3. \A i \in 1 .. Len(decls) : decls[i] \in Names /\ symTable[decls[i]] # Null
  BY <1>1 DEF BoundInv, DeclsBound
<1>4. CASE ~Nested
  <2>1. decls' = decls /\ overloadedDecls' = overloadedDecls
    BY <1>4 DEF BindSymbol
  <2>2. QED
    BY <1>2, <1>3, <2>1 DEF BoundInv, DeclsBound
<1>5. CASE Nested
  <2>1. decls' = Append(decls, n)
    BY <1>5 DEF BindSymbol
  <2>2. DeclsBound'
    <3>1. /\ Len(decls') = Len(decls) + 1 /\ decls'[Len(decls) + 1] = n
          /\ \A i \in 1 .. Len(decls) : decls'[i] = decls[i]
      BY <1>1, <2>1
    <3>2. \A i \in 1 .. Len(decls') : i \in 1 .. Len(decls) \/ i = Len(decls) + 1
      BY <1>1, <3>1
    <3>3. QED
      BY <1>2, <1>3, <3>1, <3>2 DEF DeclsBound
  <2>3. CASE symTable[n] = Null
    <3>1. overloadedDecls' = overloadedDecls
      BY <2>3 DEF BindSymbol
    <3>2. \A i \in 1 .. Len(decls) : decls[i] # n
      BY <1>3, <2>3
    <3>3. Logged(Append(decls, n), overloadedDecls)
      BY <1>1, <3>2, LoggedNew DEF BoundInv
    <3>4. QED
      BY <2>1, <2>2, <3>1, <3>3
  <2>4. CASE symTable[n] # Null
    <3>1. overloadedDecls' = Append(overloadedDecls, n)
      BY <1>5, <2>4 DEF BindSymbol
    <3>2. Logged(Append(decls, n), Append(overloadedDecls, n))
      BY <1>1, LoggedOverload DEF BoundInv
    <3>3. QED
      BY <2>1, <2>2, <3>1, <3>2
  <2>5. QED
    BY <2>3, <2>4
<1>6. QED
  BY <1>4, <1>5

(* The invariant is kept whatever is bound, and by reset.                  *)
LEMMA BoundInvNext == BoundInv /\ [Next]_vars => BoundInv'
<1> SUFFICES ASSUME BoundInv, [Next]_vars
             PROVE  BoundInv'
  OBVIOUS
<1>0. /\ TypeInv /\ TypeInv'
      /\ decls \in Seq(Names) /\ overloadedDecls \in Seq(Names)
      /\ symTable \in [Names -> Bindable \cup {Null}]
      /\ overloads \in [Bindable -> Seq(Bindable)]
      /\ Null \notin Bindable
  BY TypeInvNext, SymbolTableAssumption DEF BoundInv, TypeInv, TypeOK, Bindable
<1> SUFFICES DeclsBound' /\ Logged(decls', overloadedDecls')
  BY <1>0 DEF BoundInv
<1>1. ASSUME NEW n \in Names, NEW e \in Bindable, BindFresh(n, e) \/ BindExisting(n, e)
      PROVE  DeclsBound' /\ Logged(decls', overloadedDecls')
  BY <1>1, BoundInvBind DEF BindFresh, BindExisting
<1>2. CASE UNCHANGED <<symTable, decls, overloadedDecls>>
  BY <1>2 DEF BoundInv, DeclsBound
<1>3. CASE RevertOverload
  <2> DEFINE n == LastOf(decls)
             e == symTable[n]
             rest == FrontOf(overloads[e])
  <2>1. decls # <<>> /\ overloadedDecls # <<>> /\ LastOf(overloadedDecls) = LastOf(decls)
    BY <1>0, <1>3 DEF RevertOverload, LoopRuns, WasOverloaded, TypeInv, TypeOK
  <2>2. /\ n \in Names /\ Len(decls) \in Nat \ {0}
        /\ Len(FrontOf(decls)) = Len(decls) - 1
        /\ \A i \in 1 .. Len(decls) - 1 : FrontOf(decls)[i] = decls[i]
    BY <1>0, <2>1, FrontFacts
  <2>3. e \in Bindable /\ Len(overloads[e]) >= 2
    BY <1>0, <1>3, <2>2 DEF RevertOverload, RevertAsserts
  <2>4. overloads[e] \in Seq(Bindable) /\ overloads[e] # <<>>
    BY <1>0, <2>3
  <2>5. rest \in Seq(Bindable) /\ Len(rest) = Len(overloads[e]) - 1
    BY <2>4, FrontFacts
  <2>6. rest # <<>>
    BY <2>3, <2>4, <2>5
  <2>7. LastOf(rest) \in Bindable
    BY <2>5, <2>6, FrontFacts
  <2>8. /\ symTable' = [symTable EXCEPT ![n] = LastOf(rest)]
        /\ decls' = FrontOf(decls)
        /\ overloadedDecls' = FrontOf(overloadedDecls)
    BY <1>3 DEF RevertOverload
  <2> HIDE DEF n, e, rest
  <2>9. \A x \in Names : symTable[x] # Null => symTable'[x] # Null
    BY <1>0, <2>2, <2>7, <2>8
  <2>10. \A i \in 1 .. Len(decls) - 1 : i \in 1 .. Len(decls) /\ decls[i] \in Names
    BY <1>0, <2>2
  <2>11. \A i \in 1 .. Len(decls) - 1 : symTable'[decls[i]] # Null
    BY <2>9, <2>10 DEF BoundInv, DeclsBound
  <2>12. DeclsBound'
    BY <2>2, <2>8, <2>11 DEF DeclsBound
  <2>13. Logged(FrontOf(decls), FrontOf(overloadedDecls))
    BY <1>0, <2>1, LoggedRevert DEF BoundInv
  <2>14. QED
    BY <2>8, <2>12, <2>13
<1>4. CASE EraseBinding
  <2>1. /\ decls # <<>>
        /\ overloadedDecls = <<>> \/ LastOf(overloadedDecls) # LastOf(decls)
        /\ symTable' = [symTable EXCEPT ![LastOf(decls)] = Null]
        /\ decls' = FrontOf(decls)
        /\ overloadedDecls' = overloadedDecls
    BY <1>0, <1>4 DEF EraseBinding, LoopRuns, WasOverloaded, TypeInv, TypeOK
  <2>2. /\ LastOf(decls) \in Names /\ Len(decls) \in Nat \ {0}
        /\ Len(FrontOf(decls)) = Len(decls) - 1
        /\ \A i \in 1 .. Len(decls) - 1 : FrontOf(decls)[i] = decls[i]
    BY <1>0, <2>1, FrontFacts
  <2>3. /\ Logged(FrontOf(decls), overloadedDecls)
        /\ \A i \in 1 .. Len(decls) - 1 : decls[i] # LastOf(decls)
    BY <1>0, <2>1, LoggedErase DEF BoundInv
  <2>4. \A i \in 1 .. Len(decls) - 1 : i \in 1 .. Len(decls) /\ decls[i] \in Names
    BY <1>0, <2>2
  <2>5. \A i \in 1 .. Len(decls) - 1 : symTable'[decls[i]] = symTable[decls[i]]
    BY <1>0, <2>1, <2>3, <2>4
  <2>6. DeclsBound'
    BY <2>1, <2>2, <2>4, <2>5 DEF BoundInv, DeclsBound
  <2>7. QED
    BY <2>1, <2>3, <2>6
<1>5. CASE PopScopeReturns
  <2>1. /\ Len(decls) \in Nat /\ lastSize \in Nat
        /\ Len(decls) <= lastSize /\ lastSize <= Len(decls)
        /\ decls' = SubSeq(decls, 1, lastSize)
    BY <1>0, <1>5 DEF PopScopeReturns, TypeInv, TypeOK, CtxMonotone
  <2>2. decls' = decls
    BY <1>0, <2>1, SubSeqFull
  <2>3. QED
    BY <1>5, <2>2 DEF BoundInv, DeclsBound, PopScopeReturns
<1>6. CASE Reset
  <2>1. decls' = <<>>
    BY <1>6 DEF Reset
  <2>2. DeclsBound'
    BY <2>1 DEF DeclsBound
  <2>3. Entries(<<>>, decls', overloadedDecls')
    BY <2>1 DEF Entries
  <2>4. QED
    BY <2>2, <2>3 DEF Logged
<1>7. QED
  BY <1>1, <1>2, <1>3, <1>4, <1>5, <1>6
  DEF Next, PopLoop, BindRule, PushScope, PopScope, RevertCrashes, undoLogs, vars

(* A name with a declaration in an open scope is bound, whatever was bound *)
(* and reset before: popScope finds the name of every declaration that it  *)
(* reverts, and erases a name only with its first declaration.             *)
THEOREM DeclaredNamesBound == Spec => []DeclsBound
<1>1. BoundInv => DeclsBound
  BY DEF BoundInv
<1>2. QED
  BY <1>1, BoundInvInit, BoundInvNext, PTL DEF Spec

-----------------------------------------------------------------------------
(* Fresh symbols                                                           *)
(*                                                                         *)
(* Every step either binds, undoes one declaration, or leaves the chains   *)
(* of bindings alone.  The first two act on the chain of one name at its   *)
(* end (BindChains, UndoChains); everything else follows from that.        *)
(*                                                                         *)
(* The environments are a function of three things: the chains of the      *)
(* names, the declarations and the marks.  How they change with each of    *)
(* these is shown for any chains, declarations and marks.                  *)

-----------------------------------------------------------------------------
(* Counting declarations *)

(* t extends s by one element.                                             *)
Extends(t, s) == /\ Len(t) = Len(s) + 1
                 /\ \A k \in 1 .. Len(s) : t[k] = s[k]

(* A count of declarations is a number.                                    *)
LEMMA CountNat ==
    ASSUME NEW s \in Seq(Names), NEW n, NEW i \in Nat
    PROVE  CountIn(s, n, i) \in Nat
<1>1. IsFiniteSet((i + 1) .. Len(s))
  BY FS_Interval
<1>2. {k \in (i + 1) .. Len(s) : s[k] = n} \subseteq (i + 1) .. Len(s)
  OBVIOUS
<1>3. QED
  BY <1>1, <1>2, FS_Subset, FS_CardinalityType DEF CountIn

(* There are no declarations after the last.                               *)
LEMMA CountNone ==
    ASSUME NEW s \in Seq(Names), NEW n
    PROVE  CountIn(s, n, Len(s)) = 0
<1>1. {k \in (Len(s) + 1) .. Len(s) : s[k] = n} = {}
  OBVIOUS
<1>2. QED
  BY <1>1, FS_EmptySet DEF CountIn

(* One more name counts once, for that name alone.                         *)
LEMMA CountExtended ==
    ASSUME NEW s \in Seq(Names), NEW t \in Seq(Names), Extends(t, s),
           NEW n, NEW i \in 0 .. Len(s)
    PROVE  CountIn(t, n, i) = CountIn(s, n, i) + (IF t[Len(t)] = n THEN 1 ELSE 0)
<1> DEFINE S == {k \in (i + 1) .. Len(s) : s[k] = n}
           T == {k \in (i + 1) .. Len(t) : t[k] = n}
<1>1. IsFiniteSet(S)
  <2>1. IsFiniteSet((i + 1) .. Len(s))
    BY FS_Interval
  <2>2. S \subseteq (i + 1) .. Len(s)
    OBVIOUS
  <2>3. QED
    BY <2>1, <2>2, FS_Subset
<1>2. Cardinality(S) \in Nat
  BY <1>1, FS_CardinalityType
<1>3. Len(t) \notin S
  BY DEF Extends
<1>4. CountIn(s, n, i) = Cardinality(S) /\ CountIn(t, n, i) = Cardinality(T)
  BY DEF CountIn
<1>5. CASE t[Len(t)] = n
  <2>1. T = S \cup {Len(t)}
    BY <1>5 DEF Extends
  <2>2. Cardinality(T) = Cardinality(S) + 1
    BY <1>1, <1>3, <2>1, FS_AddElement
  <2>3. QED
    BY <1>5, <2>2, <1>4
<1>6. CASE t[Len(t)] # n
  <2>1. T = S
    BY <1>6 DEF Extends
  <2>2. QED
    <3>1. CountIn(t, n, i) = CountIn(s, n, i) /\ CountIn(s, n, i) \in Nat
      BY <1>2, <1>4, <2>1
    <3>2. QED
      BY <1>6, <3>1
<1>7. QED
  BY <1>5, <1>6

(* A sequence extends its front.                                           *)
LEMMA FrontExtends ==
    ASSUME NEW S, NEW s \in Seq(S), s # <<>>
    PROVE  Extends(s, FrontOf(s))
BY FrontFacts DEF Extends

(* Append extends a sequence.                                              *)
LEMMA AppendExtends ==
    ASSUME NEW S, NEW s \in Seq(S), NEW e \in S
    PROVE  Extends(Append(s, e), s)
BY AppendFacts DEF Extends

-----------------------------------------------------------------------------
(* Prefixes *)

(* A prefix of a sequence is a prefix of every extension of it.            *)
LEMMA PrefixOfExtended ==
    ASSUME NEW S, NEW s \in Seq(S), NEW t \in Seq(S), Extends(t, s),
           NEW k \in Int, k <= Len(s)
    PROVE  SubSeq(t, 1, k) = SubSeq(s, 1, k)
<1>1. CASE k < 1
  BY <1>1, SubSeqEmpty
<1>2. CASE k >= 1
  <2>1. \A i \in 1 .. k : s[i] \in S /\ t[i] \in S /\ s[i] = t[i]
    BY <1>2 DEF Extends
  <2>2. /\ SubSeq(s, 1, k) \in Seq(S) /\ SubSeq(t, 1, k) \in Seq(S)
        /\ Len(SubSeq(s, 1, k)) = k /\ Len(SubSeq(t, 1, k)) = k
        /\ \A i \in 1 .. k : SubSeq(s, 1, k)[i] = s[i] /\ SubSeq(t, 1, k)[i] = t[i]
    <3>1. 1 \in Int /\ k \in Int /\ 1 <= k /\ k - 1 + 1 = k
      BY <1>2
    <3>2. \A i \in 1 .. k : 1 + i - 1 = i
      OBVIOUS
    <3>3. QED
      BY <2>1, <3>1, <3>2, SubSeqProperties
  <2>3. QED
    BY <2>1, <2>2, SeqEqual
<1>3. QED
  BY <1>1, <1>2

-----------------------------------------------------------------------------
(* Chains *)

ChainsOK == ChainsMade /\ ChainsArePrefixes /\ ChainsDisjoint

(* The chain of a name ends in what d_symTable holds for it.               *)
LEMMA ChainFacts ==
    ASSUME TypeOK, ChainsOK, NEW n \in Names
    PROVE  /\ Chain(n) \in Seq(Bindable)
           /\ symTable[n] = Null <=> Chain(n) = <<>>
           /\ symTable[n] # Null => /\ symTable[n] \in made
                                    /\ symTable[n] \in Bindable
                                    /\ Chain(n) = OverloadsOf(symTable[n])
                                    /\ Chain(n)[Len(Chain(n))] = symTable[n]
<1>1. Chain(n) \in Seq(made) /\ made \subseteq Bindable
  BY DEF ChainsOK, ChainsMade, TypeOK
<1>2. Chain(n) \in Seq(Bindable)
  BY <1>1
<1>3. symTable[n] = Null <=> Chain(n) = <<>>
  BY DEF Chain, OverloadsOf
<1>4. ASSUME symTable[n] # Null
      PROVE  /\ symTable[n] \in made
             /\ symTable[n] \in Bindable
             /\ Chain(n) = OverloadsOf(symTable[n])
             /\ Chain(n)[Len(Chain(n))] = symTable[n]
  <2>1. Chain(n) = OverloadsOf(symTable[n])
    BY <1>4 DEF Chain
  <2>2. Len(Chain(n)) \in 1 .. Len(Chain(n))
    BY <1>2, <1>3, <1>4
  <2>3. Chain(n)[Len(Chain(n))] = symTable[n]
    BY <2>2 DEF ChainsOK, ChainsArePrefixes
  <2>4. Chain(n)[Len(Chain(n))] \in made
    BY <1>1, <2>2
  <2>5. QED
    BY <1>1, <2>1, <2>3, <2>4
<1>5. QED
  BY <1>2, <1>3, <1>4

(* Binding a fresh expression appends it to the chain of its name, and     *)
(* nobody else's list changes.                                             *)
LEMMA BindChains ==
    ASSUME TypeOK, ChainsOK, NEW n \in Names, NEW e \in Bindable \ made, BindSymbol(n, e)
    PROVE  /\ Chain(n)' = Append(Chain(n), e)
           /\ \A m \in Names \ {n} : Chain(m)' = Chain(m)
           /\ \A d \in Bindable \ {e} : overloads'[d] = overloads[d]
           /\ overloads'[e] = IF Chain(n) = <<>> THEN <<>> ELSE Append(Chain(n), e)
           /\ symTable' = [symTable EXCEPT ![n] = e]
<1>1. overloads[e] = <<>> /\ e # Null
  BY SymbolTableAssumption DEF ChainsOK, ChainsMade, Bindable
<1>2. symTable' = [symTable EXCEPT ![n] = e] /\ symTable'[n] = e
  BY DEF BindSymbol, TypeOK
<1>3. \A d \in Bindable \ {e} : overloads'[d] = overloads[d]
  BY DEF BindSymbol, TypeOK
<1>4. overloads'[e] = IF Chain(n) = <<>> THEN <<>> ELSE Append(Chain(n), e)
  <2>1. CASE symTable[n] = Null
    BY <1>1, <2>1, ChainFacts DEF BindSymbol
  <2>2. CASE symTable[n] # Null
    <3>1. Chain(n) # <<>> /\ Chain(n) = OverloadsOf(symTable[n]) /\ Chain(n) \in Seq(Bindable)
      BY <2>2, ChainFacts
    <3>2. overloads' = [overloads EXCEPT ![e] = Append(@ \o OverloadsOf(symTable[n]), e)]
      BY <2>2 DEF BindSymbol
    <3>3. overloads'[e] = Append(overloads[e] \o Chain(n), e)
      BY <3>1, <3>2 DEF TypeOK
    <3>4. <<>> \o Chain(n) = Chain(n)
      BY <3>1, ConcatEmptySeq
    <3>5. QED
      BY <1>1, <3>1, <3>3, <3>4
  <2>3. QED
    BY <2>1, <2>2
<1>5. Chain(n)' = Append(Chain(n), e)
  <2>1. Chain(n)' = IF overloads'[e] = <<>> THEN <<e>> ELSE overloads'[e]
    BY <1>1, <1>2 DEF Chain, OverloadsOf
  <2>2. Chain(n) \in Seq(Bindable)
    BY ChainFacts
  <2>3. Append(Chain(n), e) # <<>>
    BY <2>2, AppendProperties
  <2>4. Append(<<>>, e) = <<e>>
    OBVIOUS
  <2>5. QED
    BY <1>4, <2>1, <2>3, <2>4
<1>6. ASSUME NEW m \in Names \ {n}
      PROVE  Chain(m)' = Chain(m)
  <2>1. symTable'[m] = symTable[m]
    BY <1>2 DEF TypeOK
  <2>2. symTable[m] # Null => overloads'[symTable[m]] = overloads[symTable[m]]
    BY <1>3, ChainFacts
  <2>3. QED
    BY <2>1, <2>2 DEF Chain, OverloadsOf
<1>7. QED
  BY <1>2, <1>3, <1>4, <1>5, <1>6

(* Binding a new term lengthens one chain and keeps the others.            *)
LEMMA BindKeepsChainsOK ==
    ASSUME TypeOK, ChainsOK, NEW n \in Names, NEW e \in Bindable \ made,
           BindSymbol(n, e), made' = made \cup {e}
    PROVE  ChainsOK'
<1>1. /\ Chain(n)' = Append(Chain(n), e)
      /\ \A m \in Names \ {n} : Chain(m)' = Chain(m)
      /\ \A d \in Bindable \ {e} : overloads'[d] = overloads[d]
      /\ overloads'[e] = IF Chain(n) = <<>> THEN <<>> ELSE Append(Chain(n), e)
      /\ symTable' = [symTable EXCEPT ![n] = e]
  BY BindChains
<1>2. \A m \in Names : Chain(m) \in Seq(made) /\ made \subseteq Bindable
  BY DEF ChainsOK, ChainsMade, TypeOK
<1>3. ChainsMade'
  <2>1. \A m \in Names : Chain(m) \in Seq(made')
    BY <1>2
  <2>2. \A m \in Names : Chain(m)' \in Seq(made')
    BY <1>1, <2>1
  <2>3. \A d \in Bindable \ made' : overloads'[d] = <<>>
    BY <1>1 DEF ChainsOK, ChainsMade
  <2>4. QED
    BY <2>2, <2>3 DEF ChainsMade
<1>4. ASSUME NEW m \in Names, NEW k \in 1 .. Len(Chain(m))
      PROVE  /\ Chain(m)[k] \in made
             /\ Chain(m)[k] # e
             /\ overloads'[Chain(m)[k]] = overloads[Chain(m)[k]]
  BY <1>1, <1>2
<1>5. ChainsArePrefixes'
  <2> DEFINE C == Chain(n)
  <2>1. C \in Seq(Bindable) /\ Len(C) \in Nat
    BY ChainFacts
  <2>2. /\ Append(C, e) \in Seq(Bindable) /\ Len(Append(C, e)) = Len(C) + 1
        /\ Append(C, e)[Len(C) + 1] = e
        /\ \A k \in 1 .. Len(C) : Append(C, e)[k] = C[k]
    BY <2>1, AppendFacts
  <2>3. ASSUME NEW k \in 1 .. Len(C)
        PROVE  overloads'[C[k]] = IF k = 1 THEN <<>> ELSE SubSeq(Append(C, e), 1, k)
    <3>1. overloads'[C[k]] = IF k = 1 THEN <<>> ELSE SubSeq(C, 1, k)
      BY <1>4 DEF ChainsOK, ChainsArePrefixes
    <3>2. SubSeq(Append(C, e), 1, k) = SubSeq(C, 1, k)
      BY <2>1, <2>2, AppendExtends, PrefixOfExtended
    <3>3. QED
      BY <3>1, <3>2
  <2>4. overloads'[e] = IF Len(C) + 1 = 1 THEN <<>> ELSE SubSeq(Append(C, e), 1, Len(C) + 1)
    <3>1. SubSeq(Append(C, e), 1, Len(C) + 1) = Append(C, e)
      BY <2>2, SubSeqFull
    <3>2. Len(C) + 1 = 1 <=> C = <<>>
      BY <2>1
    <3>3. QED
      BY <1>1, <3>1, <3>2
  <2>5. symTable'[n] = e
    BY <1>1 DEF TypeOK
  <2>6. ASSUME NEW k \in 1 .. Len(Chain(n)')
        PROVE  /\ k = Len(Chain(n)') => Chain(n)'[k] = symTable'[n]
               /\ overloads'[Chain(n)'[k]] = IF k = 1 THEN <<>> ELSE SubSeq(Chain(n)', 1, k)
    <3>1. Chain(n)' = Append(C, e)
      BY <1>1
    <3>2. k \in 1 .. Len(C) \/ k = Len(C) + 1
      BY <2>1, <2>2, <3>1
    <3> HIDE DEF C
    <3>3. CASE k \in 1 .. Len(C)
      BY <2>1, <2>2, <2>3, <3>1, <3>3
    <3>4. CASE k = Len(C) + 1
      BY <2>2, <2>4, <2>5, <3>1, <3>4
    <3>5. QED
      BY <3>2, <3>3, <3>4
  <2>7. ASSUME NEW m \in Names \ {n}, NEW k \in 1 .. Len(Chain(m)')
        PROVE  /\ k = Len(Chain(m)') => Chain(m)'[k] = symTable'[m]
               /\ overloads'[Chain(m)'[k]] = IF k = 1 THEN <<>> ELSE SubSeq(Chain(m)', 1, k)
    <3>1. Chain(m)' = Chain(m) /\ symTable'[m] = symTable[m]
      BY <1>1 DEF TypeOK
    <3>2. QED
      BY <1>4, <3>1 DEF ChainsOK, ChainsArePrefixes
  <2>8. QED
    BY <2>6, <2>7 DEF ChainsArePrefixes
<1>6. ChainsDisjoint'
  <2>1. ASSUME NEW m \in Names, NEW l \in Names, m # l,
               NEW i \in 1 .. Len(Chain(m)'), NEW j \in 1 .. Len(Chain(l)')
        PROVE  Chain(m)'[i] # Chain(l)'[j]
    <3>1. ASSUME NEW k \in Names, NEW h \in 1 .. Len(Chain(k)')
          PROVE  \/ h \in 1 .. Len(Chain(k)) /\ Chain(k)'[h] = Chain(k)[h]
                 \/ k = n /\ Chain(k)'[h] = e
      <4>1. CASE k = n
        <5>1. Chain(n) \in Seq(Bindable)
          BY ChainFacts
        <5>2. QED
          BY <1>1, <4>1, <5>1, AppendFacts
      <4>2. CASE k # n
        BY <1>1, <4>2
      <4>3. QED
        BY <4>1, <4>2
    <3>2. QED
      BY <2>1, <3>1, <1>4 DEF ChainsOK, ChainsDisjoint
  <2>2. QED
    BY <2>1 DEF ChainsDisjoint
<1>7. QED
  BY <1>3, <1>5, <1>6 DEF ChainsOK

-----------------------------------------------------------------------------
(* Undoing *)

(* The test of popScope, which compares names, is exact: the last          *)
(* declaration is in d_overloadedDecls iff its name has an older binding.  *)
LEMMA UndoTest ==
    ASSUME TypeInv, OverloadedIsSublist, decls # <<>>, ChainsOK
    PROVE  /\ WasOverloaded <=> Len(Chain(LastOf(decls))) >= 2
           /\ WasOverloaded <=> Len(decls) \in OverloadedAt
<1> DEFINE L == Len(decls)
           O == Len(overloadedDecls)
<1>1. /\ decls \in Seq(Names) /\ overloadedDecls \in Seq(Names)
      /\ L \in Nat \ {0} /\ O \in Nat /\ decls[L] \in Names
      /\ LastOf(decls) = decls[L]
  BY FrontFacts DEF TypeInv, TypeOK, LastOf
<1>2. PICK at \in [1 .. O -> 1 .. L] :
          /\ \A j, k \in 1 .. O : j < k => at[j] < at[k]
          /\ \A j \in 1 .. O : overloadedDecls[j] = decls[at[j]]
          /\ OverloadedAt = {at[j] : j \in 1 .. O}
  BY DEF OverloadedIsSublist, SublistAt
<1>3. L \in OverloadedAt <=> Len(Chain(decls[L])) >= 2
  <2>1. CountIn(decls, decls[L], L) = 0
    BY <1>1, CountNone
  <2>2. Len(Chain(decls[L])) \in Nat
    BY <1>1, ChainFacts DEF TypeInv
  <2>3. Rank(L) = Len(Chain(decls[L]))
    BY <2>1, <2>2 DEF Rank, Count
  <2>4. L \in 1 .. L
    BY <1>1
  <2>5. QED
    BY <2>3, <2>4 DEF OverloadedAt
<1>4. ASSUME L \in OverloadedAt
      PROVE  WasOverloaded
  <2>1. PICK j \in 1 .. O : at[j] = L
    BY <1>2, <1>4
  <2>2. j = O
    <3>1. ASSUME j < O
          PROVE  FALSE
      <4>1. O \in 1 .. O
        BY <1>1, <3>1
      <4>2. at[j] < at[O] /\ at[O] \in 1 .. L
        BY <1>2, <3>1, <4>1
      <4>3. QED
        BY <1>1, <2>1, <4>2
    <3>2. QED
      BY <1>1, <3>1
  <2>3. overloadedDecls[O] = decls[L] /\ O >= 1
    BY <1>1, <1>2, <2>1, <2>2
  <2>4. overloadedDecls # <<>>
    BY <1>1, <2>3
  <2>5. QED
    BY <2>3, <2>4 DEF WasOverloaded, LastOf
<1>5. ASSUME WasOverloaded
      PROVE  L \in OverloadedAt
  <2> DEFINE p == at[O]
  <2>1. O \in 1 .. O
    BY <1>1, <1>5 DEF WasOverloaded
  <2>2. p \in 1 .. L /\ decls[p] = decls[L] /\ p \in OverloadedAt
    BY <1>2, <1>5, <2>1 DEF WasOverloaded, LastOf
  <2>3. Len(Chain(decls[L])) - CountIn(decls, decls[L], p) >= 2
    BY <2>2 DEF OverloadedAt, Rank, Count
  <2>4. CountIn(decls, decls[L], p) \in Nat /\ Len(Chain(decls[L])) \in Nat
    <3>1. p \in Nat
      BY <2>2
    <3>2. QED
      BY <1>1, <3>1, CountNat, ChainFacts DEF TypeInv
  <2> HIDE DEF p
  <2>5. Len(Chain(decls[L])) >= 2
    BY <2>3, <2>4
  <2>6. QED
    BY <1>3, <2>5
<1>6. QED
  BY <1>1, <1>3, <1>4, <1>5

(* The overload vector of a member of a chain.                             *)
LEMMA OverloadsOfMember ==
    ASSUME ChainsOK, NEW n \in Names, NEW k \in 1 .. Len(Chain(n))
    PROVE  overloads[Chain(n)[k]] = IF k = 1 THEN <<>> ELSE SubSeq(Chain(n), 1, k)
  BY Zenon DEF ChainsOK, ChainsArePrefixes

(* One iteration of the loop of popScope drops the last binding of the     *)
(* last declared name, and nobody else's list changes.                     *)
LEMMA UndoChains ==
    ASSUME TypeInv, ChainsOK, OverloadedIsSublist, RevertOverload \/ EraseBinding,
           NEW n \in Names, n = LastOf(decls)
    PROVE  /\ Chain(n)' = FrontOf(Chain(n))
           /\ \A m \in Names \ {n} : Chain(m)' = Chain(m)
           /\ \A d \in Bindable : d # symTable[n] => overloads'[d] = overloads[d]
           /\ \A m \in Names \ {n} : symTable'[m] = symTable[m]
           /\ Chain(n)' # <<>> => symTable'[n] = Chain(n)[Len(Chain(n)) - 1]
           /\ \A k \in 1 .. Len(Chain(n)) - 1 : Chain(n)[k] # symTable[n]
<1> DEFINE C == Chain(n)
           e == symTable[n]
<1> USE DEF TypeInv
<1>1. /\ decls # <<>>
      /\ C \in Seq(Bindable) /\ Len(C) \in Nat
  BY ChainFacts DEF RevertOverload, EraseBinding, LoopRuns, TypeOK
<1>2. \A m \in Names \ {n} : symTable'[m] = symTable[m]
  BY DEF RevertOverload, EraseBinding, TypeOK
<1>3. ASSUME NEW k \in 1 .. Len(C) - 1
      PROVE  C[k] # e
  <2>1. k \in 1 .. Len(C) /\ Len(C) \in 1 .. Len(C) /\ k # Len(C) /\ Len(C) # 1
    <3>1. \A l \in Nat : \A h \in 1 .. l - 1 : h \in 1 .. l /\ l \in 1 .. l /\ h # l /\ l # 1
      OBVIOUS
    <3>2. QED
      BY <1>1, <3>1, Zenon
  <2>2. e = C[Len(C)] /\ overloads[e] = SubSeq(C, 1, Len(C))
    <3>1. e = C[Len(C)]
      BY <2>1 DEF ChainsOK, ChainsArePrefixes
    <3>2. overloads[C[Len(C)]] = IF Len(C) = 1 THEN <<>> ELSE SubSeq(C, 1, Len(C))
      <4>1. Len(C) \in 1 .. Len(Chain(n))
        BY <2>1
      <4> HIDE DEF C
      <4>2. QED
        BY <4>1, OverloadsOfMember, Zenon DEF C
    <3>3. QED
      BY <2>1, <3>1, <3>2, Zenon
  <2>3. overloads[e] = C
    BY <1>1, <2>2, SubSeqFull
  <2>4. overloads[C[k]] = IF k = 1 THEN <<>> ELSE SubSeq(C, 1, k)
    BY <2>1 DEF ChainsOK, ChainsArePrefixes
  <2>5. Len(overloads[C[k]]) # Len(C)
    <3>1. CASE k = 1
      BY <1>1, <2>1, <2>4, <3>1
    <3>2. CASE k # 1
      <4>1. \A h \in 1 .. k : C[h] \in Bindable
        BY <1>1, <2>1
      <4>2. Len(SubSeq(C, 1, k)) = IF 1 <= k THEN k - 1 + 1 ELSE 0
        BY <4>1, <2>1, SubSeqProperties
      <4>3. QED
        BY <2>1, <2>4, <3>2, <4>2
    <3>3. QED
      BY <3>1, <3>2
  <2>6. QED
    BY <2>3, <2>5
<1>4. \A d \in Bindable : d # e => overloads'[d] = overloads[d]
  BY DEF RevertOverload, EraseBinding, TypeOK
<1>5. ASSUME NEW m \in Names \ {n}
      PROVE  Chain(m)' = Chain(m)
  <2>1. CASE symTable[m] = Null
    BY <1>2, <2>1 DEF Chain
  <2>2. CASE symTable[m] # Null
    <3>1. symTable[m] # e
      <4>1. CASE e = Null
        BY <2>2, <4>1
      <4>2. CASE e # Null
        <5>1. /\ Chain(m) # <<>> /\ Chain(m) \in Seq(Bindable) /\ C # <<>>
              /\ Chain(m)[Len(Chain(m))] = symTable[m] /\ C[Len(C)] = e
          BY <2>2, <4>2, ChainFacts
        <5>2. Len(Chain(m)) \in 1 .. Len(Chain(m)) /\ Len(C) \in 1 .. Len(C)
          BY <1>1, <5>1
        <5>3. QED
          BY <5>1, <5>2 DEF ChainsOK, ChainsDisjoint
      <4>3. QED
        BY <4>1, <4>2
    <3>2. symTable[m] \in Bindable
      BY <2>2, ChainFacts
    <3>3. QED
      BY <1>2, <1>4, <2>2, <3>1, <3>2 DEF Chain, OverloadsOf
  <2>3. QED
    BY <2>1, <2>2
<1>6. /\ Chain(n)' = FrontOf(C)
      /\ Chain(n)' # <<>> => symTable'[n] = C[Len(C) - 1]
  <2>1. CASE EraseBinding
    <3>1. ~(Len(C) >= 2)
      BY <1>1, <2>1, UndoTest DEF EraseBinding
    <3>2. FrontOf(C) = <<>>
      BY <1>1, <3>1, SubSeqEmpty DEF FrontOf
    <3>3. symTable'[n] = Null
      BY <2>1 DEF EraseBinding, TypeOK
    <3>4. QED
      BY <3>2, <3>3 DEF Chain
  <2>2. CASE RevertOverload
    <3> DEFINE d == C[Len(C) - 1]
    <3>1. Len(C) >= 2
      BY <1>1, <2>2, UndoTest DEF RevertOverload
    <3>2. e # Null /\ e \in Bindable /\ C = OverloadsOf(e)
      BY <2>2, ChainFacts DEF RevertOverload, RevertAsserts
    <3>3. overloads[e] = C
      <4>1. overloads[e] # <<>>
        BY <2>2 DEF RevertOverload, RevertAsserts
      <4>2. QED
        BY <3>2, <4>1 DEF OverloadsOf
    <3>4. /\ FrontOf(C) \in Seq(Bindable) /\ Len(FrontOf(C)) = Len(C) - 1
          /\ \A k \in 1 .. Len(C) - 1 : FrontOf(C)[k] = C[k]
      <4>1. C # <<>>
        BY <1>1, <3>1
      <4> HIDE DEF C
      <4>2. QED
        BY <1>1, <4>1, FrontFacts
    <3>5. LastOf(FrontOf(C)) = d /\ d \in Bindable /\ d # e /\ d \in made /\ d # Null
      <4>1. Len(C) - 1 \in 1 .. Len(C) - 1 /\ Len(C) - 1 \in 1 .. Len(C)
        BY <1>1, <3>1
      <4>2. d \in Bindable /\ d # e /\ FrontOf(C)[Len(C) - 1] = d
        BY <1>1, <1>3, <3>4, <4>1
      <4>3. d \in made
        BY <4>1 DEF ChainsOK, ChainsMade
      <4>4. QED
        BY <3>4, <4>2, <4>3, SymbolTableAssumption DEF LastOf, Bindable
    <3>6. symTable'[n] = d
      BY <2>2, <3>3, <3>5 DEF RevertOverload, TypeOK
    <3>7. overloads'[d] = IF Len(C) - 1 = 1 THEN <<>> ELSE FrontOf(C)
      <4>1. Len(C) - 1 \in 1 .. Len(C)
        BY <1>1, <3>1
      <4>2. overloads[d] = IF Len(C) - 1 = 1 THEN <<>> ELSE SubSeq(C, 1, Len(C) - 1)
        BY <4>1, OverloadsOfMember, Zenon
      <4>3. QED
        BY <1>4, <3>5, <4>2 DEF FrontOf
    <3>8. Chain(n)' = IF overloads'[d] = <<>> THEN <<d>> ELSE overloads'[d]
      BY <3>5, <3>6 DEF Chain, OverloadsOf
    <3>9. Chain(n)' = FrontOf(C)
      <4>1. CASE Len(C) - 1 = 1
        <5>1. FrontOf(C) = <<d>>
          <6>1. <<d>> \in Seq(Bindable) /\ Len(<<d>>) = 1 /\ <<d>>[1] = d
            BY <3>5
          <6>2. Len(FrontOf(C)) = 1 /\ FrontOf(C)[1] = d
            BY <3>4, <3>5, <4>1 DEF LastOf
          <6>3. QED
            BY <3>4, <6>1, <6>2, SeqEqual
        <5>2. QED
          BY <3>7, <3>8, <4>1, <5>1
      <4>2. CASE Len(C) - 1 # 1
        <5>1. FrontOf(C) # <<>>
          BY <1>1, <3>1, <3>4
        <5>2. QED
          BY <3>7, <3>8, <4>2, <5>1
      <4>3. QED
        BY <4>1, <4>2
    <3>10. QED
      BY <3>6, <3>9
  <2>3. QED
    BY <2>1, <2>2
<1>7. QED
  BY <1>2, <1>3, <1>4, <1>5, <1>6

(* Undoing a declaration shortens one chain and keeps the others.          *)
LEMMA UndoKeepsChainsOK ==
    ASSUME TypeInv, ChainsOK, OverloadedIsSublist, RevertOverload \/ EraseBinding
    PROVE  ChainsOK'
<1>0. PICK n \in Names : n = LastOf(decls)
  <2>1. decls \in Seq(Names) /\ decls # <<>>
    BY DEF RevertOverload, EraseBinding, LoopRuns, TypeInv, TypeOK
  <2>2. QED
    BY <2>1, FrontFacts
<1> DEFINE C == Chain(n)
<1>1. n \in Names /\ made' = made
  BY DEF RevertOverload, EraseBinding
<1>2. /\ Chain(n)' = FrontOf(C)
      /\ \A m \in Names \ {n} : Chain(m)' = Chain(m)
      /\ \A d \in Bindable : d # symTable[n] => overloads'[d] = overloads[d]
      /\ \A m \in Names \ {n} : symTable'[m] = symTable[m]
      /\ Chain(n)' # <<>> => symTable'[n] = C[Len(C) - 1]
      /\ \A k \in 1 .. Len(C) - 1 : C[k] # symTable[n]
  BY <1>0, UndoChains
<1>3. /\ C \in Seq(Bindable) /\ C \in Seq(made) /\ Len(C) \in Nat
      /\ made \subseteq Bindable
  BY <1>1, ChainFacts DEF ChainsOK, ChainsMade, TypeInv, TypeOK
<1> HIDE DEF C
<1>4. \/ C = <<>> /\ FrontOf(C) = <<>>
      \/ /\ C # <<>> /\ Len(C) >= 1
         /\ FrontOf(C) \in Seq(Bindable) /\ FrontOf(C) \in Seq(made)
         /\ Len(FrontOf(C)) = Len(C) - 1
         /\ \A k \in 1 .. Len(C) - 1 : FrontOf(C)[k] = C[k]
         /\ Extends(C, FrontOf(C))
  <2>1. CASE C = <<>>
    BY <2>1, SubSeqEmpty DEF FrontOf
  <2>2. CASE C # <<>>
    BY <1>3, <2>2, FrontFacts, FrontExtends
  <2>3. QED
    BY <2>1, <2>2
<1>5. ASSUME NEW m \in Names, NEW k \in 1 .. Len(Chain(m)')
      PROVE  /\ k \in 1 .. Len(Chain(m)) /\ Chain(m)'[k] = Chain(m)[k]
             /\ Chain(m)[k] # symTable[n]
             /\ Chain(m)[k] \in Bindable
             /\ m = n => k \in 1 .. Len(C) - 1
  <2>1. CASE m = n
    <3>1. C # <<>> /\ Chain(m) = C /\ Chain(m)' = FrontOf(C)
      BY <1>2, <1>4, <2>1 DEF C
    <3>2. k \in 1 .. Len(C) - 1
      BY <1>4, <3>1
    <3>3. k \in 1 .. Len(C)
      BY <1>3, <3>2
    <3>4. QED
      BY <1>2, <1>3, <1>4, <3>1, <3>2, <3>3
  <2>2. CASE m # n
    <3>1. Chain(m)' = Chain(m) /\ k \in 1 .. Len(Chain(m))
      BY <1>2, <2>2
    <3>2. Chain(m) \in Seq(Bindable) /\ Chain(m)[k] \in made
      BY <3>1, ChainFacts DEF ChainsOK, ChainsMade, TypeInv
    <3>3. Chain(m)[k] # symTable[n]
      <4>1. CASE symTable[n] = Null
        BY <1>3, <3>2, <4>1, SymbolTableAssumption DEF Bindable
      <4>2. CASE symTable[n] # Null
        <5>1. C # <<>> /\ C[Len(C)] = symTable[n]
          BY <1>1, <4>2, ChainFacts DEF C, TypeInv
        <5>2. Len(C) \in 1 .. Len(C)
          BY <1>3, <5>1
        <5>3. QED
          BY <1>1, <2>2, <3>1, <5>1, <5>2 DEF ChainsOK, ChainsDisjoint, C
      <4>3. QED
        BY <4>1, <4>2
    <3>4. QED
      BY <1>3, <2>2, <3>1, <3>2, <3>3
  <2>3. QED
    BY <2>1, <2>2
<1>6. ChainsMade'
  <2>1. ASSUME NEW m \in Names
        PROVE  Chain(m)' \in Seq(made)
    <3>1. CASE m = n
      <4>1. <<>> \in Seq(made)
        OBVIOUS
      <4>2. QED
        BY <1>2, <1>4, <3>1, <4>1
    <3>2. CASE m # n
      BY <1>2, <3>2 DEF ChainsOK, ChainsMade
    <3>3. QED
      BY <3>1, <3>2
  <2>2. ASSUME NEW d \in Bindable \ made
        PROVE  overloads'[d] = <<>>
    <3>1. d # symTable[n]
      <4>1. symTable[n] = Null \/ symTable[n] \in made
        BY <1>1, ChainFacts DEF TypeInv
      <4>2. QED
        BY <4>1, SymbolTableAssumption DEF Bindable
    <3>2. QED
      BY <1>2, <3>1 DEF ChainsOK, ChainsMade
  <2>3. QED
    BY <1>1, <2>1, <2>2 DEF ChainsMade
<1>7. ChainsArePrefixes'
  <2>1. ASSUME NEW m \in Names, NEW k \in 1 .. Len(Chain(m)')
        PROVE  /\ k = Len(Chain(m)') => Chain(m)'[k] = symTable'[m]
               /\ overloads'[Chain(m)'[k]] = IF k = 1 THEN <<>> ELSE SubSeq(Chain(m)', 1, k)
    <3>1. overloads'[Chain(m)'[k]] = IF k = 1 THEN <<>> ELSE SubSeq(Chain(m), 1, k)
      <4>1. overloads'[Chain(m)'[k]] = overloads[Chain(m)[k]]
        BY <1>2, <1>5
      <4>2. QED
        BY <1>5, <4>1 DEF ChainsOK, ChainsArePrefixes
    <3>2. CASE m = n
      <4>1. /\ Chain(m) = C /\ Chain(m)' = FrontOf(C) /\ k \in 1 .. Len(C) - 1
            /\ C # <<>> /\ Chain(m)' # <<>>
        <5>1. Chain(m) = C /\ Chain(m)' = FrontOf(C) /\ k \in 1 .. Len(C) - 1
          BY <1>2, <1>5, <3>2 DEF C
        <5>2. C # <<>>
          BY <1>4, <5>1
        <5>3. Chain(m)' # <<>>
          BY <1>3, <1>4, <5>1, <5>2
        <5>4. QED
          BY <5>1, <5>2, <5>3
      <4>2. SubSeq(C, 1, k) = SubSeq(FrontOf(C), 1, k)
        <5>1. k \in Int /\ k <= Len(FrontOf(C))
          BY <1>3, <1>4, <4>1
        <5>2. QED
          BY <1>3, <1>4, <4>1, <5>1, PrefixOfExtended
      <4>3. k = Len(C) - 1 => C[k] = symTable'[n]
        BY <1>2, <3>2, <4>1
      <4>4. QED
        BY <1>4, <1>5, <3>1, <3>2, <4>1, <4>2, <4>3
    <3>3. CASE m # n
      BY <1>2, <1>5, <3>1, <3>3 DEF ChainsOK, ChainsArePrefixes
    <3>4. QED
      BY <3>2, <3>3
  <2>2. QED
    BY <2>1 DEF ChainsArePrefixes
<1>8. ChainsDisjoint'
  BY <1>5 DEF ChainsOK, ChainsDisjoint
<1>9. QED
  BY <1>6, <1>7, <1>8 DEF ChainsOK

(* Chains are a matter of symTable, overloads and made only.               *)
LEMMA SameChains ==
    ASSUME TypeOK, ChainsOK, symTable' = symTable, overloads' = overloads, made \subseteq made'
    PROVE  /\ ChainsOK'
           /\ \A n \in Names : Chain(n)' = Chain(n)
<1>1. \A n \in Names : Chain(n)' = Chain(n)
  BY DEF Chain, OverloadsOf
<1>2. ChainsMade'
  <2>1. \A n \in Names : Chain(n) \in Seq(made')
    BY DEF ChainsOK, ChainsMade
  <2>2. QED
    BY <1>1, <2>1 DEF ChainsOK, ChainsMade
<1>3. ChainsArePrefixes' /\ ChainsDisjoint'
  BY <1>1 DEF ChainsOK, ChainsArePrefixes, ChainsDisjoint
<1>4. QED
  BY <1>1, <1>2, <1>3 DEF ChainsOK

(* With nothing bound there are no chains.                                 *)
LEMMA NoChains ==
    ASSUME symTable = Unbound, \A e \in Bindable \ made : overloads[e] = <<>>
    PROVE  ChainsOK /\ \A n \in Names : Chain(n) = <<>>
<1>1. \A n \in Names : Chain(n) = <<>>
  BY DEF Chain, Unbound
<1>2. <<>> \in Seq(made) /\ 1 .. Len(<<>>) = {}
  OBVIOUS
<1>3. ChainsMade
  BY <1>1, <1>2 DEF ChainsMade
<1>4. ChainsArePrefixes /\ ChainsDisjoint
  BY <1>1, <1>2 DEF ChainsArePrefixes, ChainsDisjoint
<1>5. QED
  BY <1>1, <1>3, <1>4 DEF ChainsOK

-----------------------------------------------------------------------------
(* Ranks and marks *)

Lens == [n \in Names |-> Len(Chain(n))]

RankIn(s, lens, i) == lens[s[i]] - CountIn(s, s[i], i)

(* A declaration made or undone at the end, with its binding, leaves the   *)
(* rank of every other declaration as it is; its own rank is the length of *)
(* the chain of its name.                                                  *)
LEMMA RanksExtended ==
    ASSUME NEW s \in Seq(Names), NEW t \in Seq(Names), Extends(t, s),
           NEW short \in [Names -> Nat], NEW long \in [Names -> Nat],
           \A m \in Names : long[m] = short[m] + (IF t[Len(t)] = m THEN 1 ELSE 0)
    PROVE  /\ \A i \in 1 .. Len(s) : RankIn(t, long, i) = RankIn(s, short, i)
           /\ RankIn(t, long, Len(t)) = long[t[Len(t)]]
<1>1. ASSUME NEW i \in 1 .. Len(s)
      PROVE  RankIn(t, long, i) = RankIn(s, short, i)
  <2>1. t[i] = s[i] /\ s[i] \in Names
    BY DEF Extends
  <2>2. i \in 0 .. Len(s) /\ i \in Nat
    OBVIOUS
  <2>3. CountIn(t, s[i], i) = CountIn(s, s[i], i) + (IF t[Len(t)] = s[i] THEN 1 ELSE 0)
    BY <2>2, CountExtended
  <2>4. CountIn(s, s[i], i) \in Nat
    BY <2>2, CountNat
  <2>5. long[s[i]] = short[s[i]] + (IF t[Len(t)] = s[i] THEN 1 ELSE 0) /\ short[s[i]] \in Nat
    BY <2>1
  <2>6. \A a, b \in Nat, c \in {0, 1} : (a + c) - (b + c) = a - b
    OBVIOUS
  <2>7. (IF t[Len(t)] = s[i] THEN 1 ELSE 0) \in {0, 1}
    OBVIOUS
  <2>8. QED
    BY <2>1, <2>3, <2>4, <2>5, <2>6, <2>7 DEF RankIn
<1>2. RankIn(t, long, Len(t)) = long[t[Len(t)]]
  <2>1. CountIn(t, t[Len(t)], Len(t)) = 0
    BY CountNone
  <2>2. t[Len(t)] \in Names
    BY DEF Extends
  <2>3. QED
    BY <2>1, <2>2 DEF RankIn
<1>3. QED
  BY <1>1, <1>2

(* The rank of a declaration depends on d_decls and on the lengths of the  *)
(* chains alone.                                                           *)
LEMMA RankIsRankIn ==
    ASSUME TypeOK, ChainsOK
    PROVE  /\ Lens \in [Names -> Nat]
           /\ \A n \in Names : Lens[n] = Len(Chain(n))
           /\ \A i \in 1 .. Len(decls) : Rank(i) = RankIn(decls, Lens, i)
<1>1. \A n \in Names : Len(Chain(n)) \in Nat
  BY ChainFacts
<1>2. \A i \in 1 .. Len(decls) : decls[i] \in Names
  BY DEF TypeOK
<1>3. QED
  BY <1>1, <1>2 DEF Lens, Rank, Count, RankIn

(* The marks are d_declsSizeCtx and the size of the innermost scope.       *)
LEMMA MarksFacts ==
    ASSUME TypeInv
    PROVE  /\ Marks \in Seq(Nat)
           /\ Len(Marks) = Len(declsSizeCtx) + 1
           /\ \A k \in 1 .. Len(declsSizeCtx) : Marks[k] = declsSizeCtx[k]
           /\ Marks[Len(declsSizeCtx) + 1] = IF popping THEN lastSize ELSE Len(decls)
           /\ \A k \in 1 .. Len(Marks) : Marks[k] \in Nat /\ Marks[k] <= Len(decls)
<1> DEFINE top == IF popping THEN lastSize ELSE Len(decls)
<1>1. declsSizeCtx \in Seq(Nat) /\ top \in Nat /\ Len(decls) \in Nat
  BY DEF TypeInv, TypeOK
<1>2. top <= Len(decls) /\ \A k \in 1 .. Len(declsSizeCtx) : declsSizeCtx[k] <= Len(decls)
  BY <1>1 DEF TypeInv, CtxMonotone
<1> HIDE DEF top
<1>3. /\ Append(declsSizeCtx, top) \in Seq(Nat)
      /\ Len(Append(declsSizeCtx, top)) = Len(declsSizeCtx) + 1
      /\ Append(declsSizeCtx, top)[Len(declsSizeCtx) + 1] = top
      /\ \A k \in 1 .. Len(declsSizeCtx) : Append(declsSizeCtx, top)[k] = declsSizeCtx[k]
  BY <1>1, AppendFacts
<1>4. Marks = Append(declsSizeCtx, top)
  BY DEF Marks, top
<1>5. \A k \in 1 .. Len(declsSizeCtx) + 1 :
         k \in 1 .. Len(declsSizeCtx) \/ k = Len(declsSizeCtx) + 1
  BY <1>1
<1>6. \A k \in 1 .. Len(Marks) : Marks[k] \in Nat /\ Marks[k] <= Len(decls)
  BY <1>1, <1>2, <1>3, <1>4, <1>5
<1>7. QED
  BY <1>3, <1>4, <1>6 DEF top

(* RankIsRankIn in the next state.                                         *)
LEMMA RankIsRankInNext ==
    ASSUME TypeOK', ChainsOK'
    PROVE  /\ Lens' \in [Names -> Nat]
           /\ \A n \in Names : Lens'[n] = Len(Chain(n)')
           /\ \A i \in 1 .. Len(decls') : Rank(i)' = RankIn(decls', Lens', i)
<1>1. \A n \in Names : Len(Chain(n)') \in Nat
  <2>1. \A n \in Names : Chain(n)' \in Seq(made')
    BY DEF ChainsOK, ChainsMade
  <2>2. QED
    BY <2>1
<1>2. \A i \in 1 .. Len(decls') : decls'[i] \in Names
  BY DEF TypeOK
<1>3. /\ Lens' = [n \in Names |-> Len(Chain(n)')]
      /\ \A i : Rank(i)' = Len(Chain(decls[i])') - CountIn(decls', decls'[i], i)
  BY DEF Lens, Rank, Count
<1>4. QED
  BY <1>1, <1>2, <1>3 DEF Lens, Rank, Count, RankIn

-----------------------------------------------------------------------------
(* Sublists *)

(* A longer sequence has the sublists of a shorter one, and one more that  *)
(* ends with its last element.                                             *)
LEMMA SublistExtended ==
    ASSUME NEW s \in Seq(Names), NEW t \in Seq(Names), Extends(t, s),
           NEW o \in Seq(Names), NEW S, SublistAt(o, s, S)
    PROVE  /\ SublistAt(o, t, S)
           /\ SublistAt(Append(o, t[Len(t)]), t, S \cup {Len(t)})
<1> DEFINE O == Len(o)
           L == Len(s)
           u == Append(o, t[Len(t)])
<1>1. /\ O \in Nat /\ L \in Nat /\ Len(t) = L + 1
      /\ \A k \in 1 .. L : t[k] = s[k]
  BY DEF Extends
<1>2. PICK at \in [1 .. O -> 1 .. L] :
          /\ \A j, k \in 1 .. O : j < k => at[j] < at[k]
          /\ \A j \in 1 .. O : o[j] = s[at[j]]
          /\ S = {at[j] : j \in 1 .. O}
  BY DEF SublistAt
<1>3. \A j \in 1 .. O : at[j] \in 1 .. L
  OBVIOUS
<1>4. SublistAt(o, t, S)
  <2>1. at \in [1 .. O -> 1 .. Len(t)]
    BY <1>1, <1>3
  <2>2. \A j \in 1 .. O : o[j] = t[at[j]]
    BY <1>1, <1>2, <1>3
  <2>3. QED
    BY <1>2, <2>1, <2>2 DEF SublistAt
<1>5. SublistAt(u, t, S \cup {Len(t)})
  <2>1. /\ u \in Seq(Names) /\ Len(u) = O + 1 /\ u[O + 1] = t[Len(t)]
        /\ \A j \in 1 .. O : u[j] = o[j]
    BY <1>1
  <2> DEFINE more == [j \in 1 .. O + 1 |-> IF j = O + 1 THEN L + 1 ELSE at[j]]
  <2>2. \A j \in 1 .. O + 1 : j = O + 1 \/ (j \in 1 .. O /\ j # O + 1)
    BY <1>1
  <2>3. /\ O + 1 \in 1 .. O + 1 /\ more[O + 1] = L + 1
        /\ \A j \in 1 .. O : j \in 1 .. O + 1 /\ more[j] = at[j]
    BY <1>1
  <2>4. more \in [1 .. Len(u) -> 1 .. Len(t)]
    BY <1>1, <1>3, <2>1, <2>2
  <2> HIDE DEF more, u
  <2>5. ASSUME NEW j \in 1 .. O + 1, NEW k \in 1 .. O + 1, j < k
        PROVE  more[j] < more[k]
    <3>1. j \in 1 .. O
      BY <1>1, <2>5
    <3>2. CASE k = O + 1
      BY <1>1, <1>3, <2>3, <3>1, <3>2
    <3>3. CASE k \in 1 .. O
      BY <1>2, <2>3, <2>5, <3>1, <3>3
    <3>4. QED
      BY <2>2, <3>2, <3>3
  <2>6. ASSUME NEW j \in 1 .. O + 1
        PROVE  u[j] = t[more[j]]
    <3>1. CASE j = O + 1
      BY <1>1, <2>1, <2>3, <3>1
    <3>2. CASE j \in 1 .. O
      <4>1. u[j] = o[j] /\ o[j] = s[at[j]] /\ more[j] = at[j]
        BY <1>2, <2>1, <2>3, <3>2
      <4>2. t[at[j]] = s[at[j]]
        BY <1>1, <1>3, <3>2
      <4>3. QED
        BY <4>1, <4>2
    <3>3. QED
      BY <2>2, <3>1, <3>2
  <2>7. S \cup {Len(t)} = {more[j] : j \in 1 .. O + 1}
    <3>1. ASSUME NEW x \in S \cup {L + 1}
          PROVE  \E j \in 1 .. O + 1 : x = more[j]
      <4>1. CASE x = L + 1
        BY <2>3, <4>1
      <4>2. CASE x \in S
        <5>1. PICK j \in 1 .. O : x = at[j]
          BY <1>2, <4>2
        <5>2. QED
          BY <2>3, <5>1
      <4>3. QED
        BY <4>1, <4>2
    <3>2. \A j \in 1 .. O + 1 : more[j] \in S \cup {L + 1}
      BY <1>2, <2>2, <2>3
    <3>3. QED
      BY <1>1, <3>1, <3>2
  <2>8. QED
    BY <2>1, <2>4, <2>5, <2>6, <2>7 DEF SublistAt
<1>6. QED
  BY <1>4, <1>5

(* Conversely when the last element goes.                                  *)
LEMMA SublistShortened ==
    ASSUME NEW s \in Seq(Names), NEW t \in Seq(Names), Extends(t, s),
           NEW o \in Seq(Names), NEW S, SublistAt(o, t, S)
    PROVE  /\ Len(t) \notin S => SublistAt(o, s, S)
           /\ Len(t) \in S => o # <<>> /\ SublistAt(FrontOf(o), s, S \ {Len(t)})
<1> DEFINE O == Len(o)
           L == Len(s)
<1>1. /\ O \in Nat /\ L \in Nat /\ Len(t) = L + 1
      /\ \A k \in 1 .. L : t[k] = s[k]
  BY DEF Extends
<1>2. PICK at \in [1 .. O -> 1 .. L + 1] :
          /\ \A j, k \in 1 .. O : j < k => at[j] < at[k]
          /\ \A j \in 1 .. O : o[j] = t[at[j]]
          /\ S = {at[j] : j \in 1 .. O}
  BY <1>1 DEF SublistAt
<1>3. \A j \in 1 .. O : at[j] \in 1 .. L + 1
  OBVIOUS
<1>4. ASSUME Len(t) \notin S
      PROVE  SublistAt(o, s, S)
  <2>1. \A j \in 1 .. O : at[j] \in 1 .. L
    BY <1>1, <1>2, <1>3, <1>4
  <2>2. at \in [1 .. O -> 1 .. L]
    BY <2>1
  <2>3. \A j \in 1 .. O : o[j] = s[at[j]]
    BY <1>1, <1>2, <2>1
  <2>4. QED
    BY <1>2, <2>2, <2>3 DEF SublistAt
<1>5. ASSUME Len(t) \in S
      PROVE  o # <<>> /\ SublistAt(FrontOf(o), s, S \ {Len(t)})
  <2>1. PICK top \in 1 .. O : at[top] = L + 1
    BY <1>1, <1>2, <1>5
  <2>2. top = O
    <3>1. SUFFICES ASSUME top # O PROVE FALSE
      OBVIOUS
    <3>2. O \in 1 .. O /\ top < O
      BY <1>1, <3>1
    <3>3. at[top] < at[O] /\ at[O] \in 1 .. L + 1
      BY <1>2, <1>3, <3>2
    <3>4. QED
      BY <1>1, <2>1, <3>3
  <2>3. o # <<>> /\ O \in 1 .. O /\ at[O] = L + 1
    BY <1>1, <2>1, <2>2
  <2>4. /\ FrontOf(o) \in Seq(Names) /\ Len(FrontOf(o)) = O - 1
        /\ \A j \in 1 .. O - 1 : FrontOf(o)[j] = o[j]
    BY <2>3, FrontFacts
  <2>5. \A j \in 1 .. O - 1 : j \in 1 .. O /\ j < O
    BY <1>1
  <2>6. \A j \in 1 .. O - 1 : at[j] \in 1 .. L
    <3>1. ASSUME NEW j \in 1 .. O - 1
          PROVE  at[j] \in 1 .. L
      <4>1. at[j] \in 1 .. L + 1 /\ at[j] < at[O]
        BY <1>2, <1>3, <2>3, <2>5
      <4>2. QED
        BY <1>1, <2>3, <4>1
    <3>2. QED
      BY <3>1
  <2> DEFINE less == [j \in 1 .. O - 1 |-> at[j]]
  <2>7. less \in [1 .. O - 1 -> 1 .. L] /\ \A j \in 1 .. O - 1 : less[j] = at[j]
    BY <2>6
  <2> HIDE DEF less
  <2>8. \A j, k \in 1 .. O - 1 : j < k => less[j] < less[k]
    BY <1>2, <2>5, <2>7
  <2>9. \A j \in 1 .. O - 1 : FrontOf(o)[j] = s[less[j]]
    BY <1>1, <1>2, <2>4, <2>5, <2>6, <2>7
  <2>10. S \ {Len(t)} = {less[j] : j \in 1 .. O - 1}
    <3>1. \A j \in 1 .. O : j \in 1 .. O - 1 \/ j = O
      BY <1>1
    <3>2. \A j \in 1 .. O - 1 : at[j] # L + 1
      BY <1>1, <2>6
    <3>3. ASSUME NEW x \in S \ {L + 1}
          PROVE  \E j \in 1 .. O - 1 : x = less[j]
      <4>1. PICK j \in 1 .. O : x = at[j]
        BY <1>2
      <4>2. QED
        BY <2>3, <2>7, <3>1, <4>1
    <3>4. \A j \in 1 .. O - 1 : less[j] \in S \ {L + 1}
      BY <1>2, <2>5, <2>7, <3>2
    <3>5. QED
      BY <1>1, <3>3, <3>4
  <2> DEFINE f == FrontOf(o)
  <2>11. /\ Len(f) = O - 1
         /\ less \in [1 .. Len(f) -> 1 .. Len(s)]
         /\ \A j, k \in 1 .. Len(f) : j < k => less[j] < less[k]
         /\ \A j \in 1 .. Len(f) : f[j] = s[less[j]]
         /\ S \ {Len(t)} = {less[j] : j \in 1 .. Len(f)}
    BY <2>4, <2>7, <2>8, <2>9, <2>10
  <2> HIDE DEF f
  <2>12. SublistAt(f, s, S \ {Len(t)})
    BY <2>11 DEF SublistAt
  <2>13. QED
    BY <2>3, <2>12 DEF f
<1>6. QED
  BY <1>4, <1>5

-----------------------------------------------------------------------------
(* The undo logs are exact *)

(* The first element of a sequence that grew.                              *)
LEMMA AppendFirst ==
    ASSUME NEW S, NEW s \in Seq(S), NEW e \in S
    PROVE  Append(s, e)[1] = IF s = <<>> THEN e ELSE s[1]
<1>1. CASE s = <<>>
  <2>1. Append(s, e)[Len(s) + 1] = e /\ Len(s) + 1 = 1
    BY <1>1, AppendFacts
  <2>2. QED
    BY <1>1, <2>1
<1>2. CASE s # <<>>
  <2>1. 1 \in 1 .. Len(s)
    BY <1>2
  <2>2. QED
    BY <1>2, <2>1, AppendFacts
<1>3. QED
  BY <1>1, <1>2

(* Outside every scope and outside popScope the undo logs are empty.       *)
LEMMA GlobalFacts ==
    ASSUME TypeOK, GlobalMark
    PROVE  /\ Nested => declsSizeCtx[1] = 0
           /\ ~Nested => 0 = IF popping THEN lastSize ELSE Len(decls)
<1>1. declsSizeCtx \in Seq(Nat) /\ (IF popping THEN lastSize ELSE Len(decls)) \in Nat
  BY DEF TypeOK
<1>2. QED
  BY <1>1, AppendFirst DEF GlobalMark, Marks, Nested

(* Steps that leave names, chains and declarations alone.                  *)
LEMMA SameUndo ==
    ASSUME TypeInv, UndoExact, symTable' = symTable, overloads' = overloads,
           made \subseteq made', decls' = decls, overloadedDecls' = overloadedDecls,
           crashed' = crashed, GlobalMark'
    PROVE  /\ UndoExact'
           /\ \A n \in Names : Chain(n)' = Chain(n)
<1>1. ChainsOK' /\ \A n \in Names : Chain(n)' = Chain(n)
  BY SameChains DEF UndoExact, ChainsOK, TypeInv
<1>2. \A i \in 1 .. Len(decls) : Rank(i)' = Rank(i)
  <2>1. \A i \in 1 .. Len(decls) : decls[i] \in Names
    BY DEF TypeInv, TypeOK
  <2>2. QED
    BY <1>1, <2>1 DEF Rank, Count
<1>3. RanksPositive'
  BY <1>2 DEF UndoExact, RanksPositive
<1>4. OverloadedAt' = OverloadedAt
  BY <1>2 DEF OverloadedAt
<1>5. OverloadedIsSublist'
  BY <1>4 DEF UndoExact, OverloadedIsSublist
<1>6. QED
  BY <1>1, <1>3, <1>5 DEF UndoExact, ChainsOK, NoCrash

(* bind records what undoing it needs.                                     *)
LEMMA BindKeepsUndoExact ==
    ASSUME TypeInv, UndoExact, TypeInv', NEW n \in Names, NEW e \in Bindable \ made,
           Ready, BindSymbol(n, e), made' = made \cup {e}
    PROVE  UndoExact'
<1> USE DEF TypeInv
<1>1. ChainsOK /\ ChainsOK'
  BY BindKeepsChainsOK DEF UndoExact, ChainsOK
<1>2. /\ Chain(n)' = Append(Chain(n), e)
      /\ \A m \in Names \ {n} : Chain(m)' = Chain(m)
  BY <1>1, BindChains
<1>3. /\ Lens \in [Names -> Nat] /\ Lens' \in [Names -> Nat]
      /\ \A m \in Names : Lens[m] = Len(Chain(m)) /\ Lens'[m] = Len(Chain(m)')
      /\ \A i \in 1 .. Len(decls) : Rank(i) = RankIn(decls, Lens, i)
      /\ \A i \in 1 .. Len(decls') : Rank(i)' = RankIn(decls', Lens', i)
  BY <1>1, RankIsRankIn, RankIsRankInNext
<1>4. \A m \in Names : Lens'[m] = Lens[m] + (IF n = m THEN 1 ELSE 0)
  <2>1. Lens'[n] = Lens[n] + 1
    <3>1. Chain(n) \in Seq(Bindable)
      BY <1>1, ChainFacts
    <3>2. Len(Append(Chain(n), e)) = Len(Chain(n)) + 1
      BY <3>1
    <3>3. QED
      BY <1>2, <1>3, <3>2
  <2>2. \A m \in Names : m # n => Lens'[m] = Lens[m] + 0
    BY <1>2, <1>3
  <2>3. QED
    BY <2>1, <2>2
<1>5. decls \in Seq(Names) /\ overloadedDecls \in Seq(Names) /\ Len(decls) \in Nat
  BY DEF TypeOK
<1>6. /\ RanksPositive /\ OverloadedIsSublist /\ GlobalMark /\ ~crashed /\ ~crashed'
      /\ declsSizeCtx' = declsSizeCtx /\ popping' = popping /\ ~popping
      /\ symTable[n] = Null <=> Chain(n) = <<>>
  BY <1>1, ChainFacts DEF UndoExact, NoCrash, BindSymbol, Ready
<1>7. CASE Nested
  <2>0. PICK L \in Nat : L = Len(decls) + 1
    BY <1>5
  <2>1. decls' = Append(decls, n)
    BY <1>7 DEF BindSymbol
  <2>2. /\ Extends(decls', decls) /\ decls' \in Seq(Names)
        /\ Len(decls') = Len(decls) + 1 /\ decls'[Len(decls')] = n
        /\ Len(decls') = L
    BY <1>5, <2>0, <2>1, AppendExtends, AppendFacts
  <2>3. /\ \A i \in 1 .. Len(decls) : RankIn(decls', Lens', i) = RankIn(decls, Lens, i)
        /\ RankIn(decls', Lens', Len(decls')) = Lens'[n]
    <3>1. \A m \in Names : Lens'[m] = Lens[m] + (IF decls'[Len(decls')] = m THEN 1 ELSE 0)
      BY <1>4, <2>2, Zenon
    <3>2. /\ \A i \in 1 .. Len(decls) : RankIn(decls', Lens', i) = RankIn(decls, Lens, i)
          /\ RankIn(decls', Lens', Len(decls')) = Lens'[decls'[Len(decls')]]
      BY <1>3, <1>5, <2>2, <3>1, RanksExtended, Zenon
    <3>3. QED
      BY <2>2, <3>2, Zenon
  <2>4. \A i \in 1 .. Len(decls') : i \in 1 .. Len(decls) \/ i = L
    BY <1>5, <2>2
  <2>5. Len(decls') \in 1 .. Len(decls') /\ \A i \in 1 .. Len(decls) : i \in 1 .. Len(decls')
    BY <1>5, <2>2
  <2>6. /\ \A i \in 1 .. Len(decls) : Rank(i)' = Rank(i)
        /\ Rank(L)' = Lens[n] + 1
    <3>1. Lens'[n] = Lens[n] + 1
      BY <1>4
    <3>2. \A i \in 1 .. Len(decls) : Rank(i)' = Rank(i)
      BY <1>3, <2>3, <2>5, Zenon
    <3>3. Rank(L)' = RankIn(decls', Lens', Len(decls'))
      BY <1>3, <2>2, <2>5, Zenon
    <3>4. QED
      BY <2>2, <2>3, <3>1, <3>2, <3>3, Zenon
  <2>7. RanksPositive'
    <3>1. Lens[n] + 1 >= 1
      BY <1>3
    <3>2. QED
      <4>1. \A i \in 1 .. Len(decls') : Rank(i)' >= 1
        BY <1>6, <2>4, <2>6, <3>1 DEF RanksPositive
      <4>2. QED
        BY <4>1 DEF RanksPositive
  <2>8. OverloadedAt' = OverloadedAt \cup (IF Chain(n) = <<>> THEN {} ELSE {Len(decls')})
    <3>1. Lens[n] + 1 >= 2 <=> Chain(n) # <<>>
      <4>1. Chain(n) \in Seq(Bindable)
        BY <1>1, ChainFacts
      <4>2. Len(Chain(n)) + 1 >= 2 <=> Chain(n) # <<>>
        BY <4>1
      <4>3. QED
        BY <1>3, <4>2
    <3>2. OverloadedAt' = {i \in 1 .. Len(decls') : Rank(i)' >= 2}
      BY DEF OverloadedAt
    <3>3. Len(decls') = L /\ \A i \in 1 .. Len(decls) : i # L
      BY <1>5, <2>0, <2>2
    <3>4. QED
      BY <2>4, <2>5, <2>6, <3>1, <3>2, <3>3 DEF OverloadedAt
  <2>9. OverloadedIsSublist'
    <3>1. SublistAt(overloadedDecls, decls, OverloadedAt)
      BY <1>6 DEF OverloadedIsSublist
    <3>2. /\ SublistAt(overloadedDecls, decls', OverloadedAt)
          /\ SublistAt(Append(overloadedDecls, n), decls', OverloadedAt \cup {Len(decls')})
      BY <1>5, <2>2, <3>1, SublistExtended
    <3>3. CASE Chain(n) = <<>>
      <4>1. overloadedDecls' = overloadedDecls /\ OverloadedAt' = OverloadedAt
        BY <1>6, <2>8, <3>3 DEF BindSymbol
      <4>2. QED
        BY <3>2, <4>1 DEF OverloadedIsSublist
    <3>4. CASE Chain(n) # <<>>
      <4>1. /\ overloadedDecls' = Append(overloadedDecls, n)
            /\ OverloadedAt' = OverloadedAt \cup {Len(decls')}
        BY <1>6, <1>7, <2>8, <3>4 DEF BindSymbol
      <4>2. QED
        BY <3>2, <4>1 DEF OverloadedIsSublist
    <3>5. QED
      BY <3>3, <3>4
  <2>10. GlobalMark'
    <3>1. declsSizeCtx \in Seq(Nat) /\ Len(decls') \in Nat
      BY <1>5, <2>2 DEF TypeOK
    <3>2. Append(declsSizeCtx, Len(decls'))[1] = declsSizeCtx[1]
      BY <1>7, <3>1, AppendFirst DEF Nested
    <3>3. declsSizeCtx[1] = 0
      BY <1>6, <1>7, GlobalFacts
    <3>4. QED
      BY <1>6, <3>2, <3>3 DEF GlobalMark, Marks
  <2>11. QED
    BY <1>1, <1>6, <2>7, <2>9, <2>10 DEF UndoExact, ChainsOK, NoCrash
<1>8. CASE ~Nested
  <2>1. decls' = decls /\ overloadedDecls' = overloadedDecls /\ 1 .. Len(decls) = {}
    <3>1. Len(decls) = 0
      BY <1>6, <1>8, GlobalFacts
    <3>2. QED
      BY <1>8, <3>1 DEF BindSymbol
  <2>2. RanksPositive'
    BY <2>1 DEF RanksPositive
  <2>3. OverloadedAt = {} /\ OverloadedAt' = {}
    BY <2>1 DEF OverloadedAt
  <2>4. OverloadedIsSublist'
    BY <1>6, <2>1, <2>3 DEF OverloadedIsSublist
  <2>5. GlobalMark'
    BY <1>6, <2>1 DEF GlobalMark, Marks
  <2>6. QED
    BY <1>1, <1>6, <2>2, <2>4, <2>5 DEF UndoExact, ChainsOK, NoCrash
<1>9. QED
  BY <1>7, <1>8

(* One pass of the loop of popScope undoes the last declaration exactly.   *)
LEMMA UndoKeepsUndoExact ==
    ASSUME TypeInv, UndoExact, TypeInv', RevertOverload \/ EraseBinding
    PROVE  UndoExact'
<1> USE DEF TypeInv
<1>1. ChainsOK /\ OverloadedIsSublist /\ RanksPositive /\ GlobalMark /\ ~crashed
  BY DEF UndoExact, ChainsOK, NoCrash
<1>2. ChainsOK'
  BY <1>1, UndoKeepsChainsOK
<1>3. PICK L \in Nat : L = Len(decls)
  BY DEF TypeOK
<1>4. /\ decls \in Seq(Names) /\ decls # <<>> /\ overloadedDecls \in Seq(Names)
      /\ decls' = FrontOf(decls) /\ L \in 1 .. L
  BY <1>3 DEF RevertOverload, EraseBinding, LoopRuns, TypeOK
<1>5. PICK n \in Names : n = LastOf(decls)
  BY <1>4, FrontFacts
<1>6. /\ decls' \in Seq(Names) /\ Len(decls') = L - 1 /\ Extends(decls, decls')
      /\ decls[L] = n
  BY <1>3, <1>4, <1>5, FrontFacts, FrontExtends DEF LastOf
<1>7. /\ Chain(n)' = FrontOf(Chain(n))
      /\ \A m \in Names \ {n} : Chain(m)' = Chain(m)
  BY <1>1, <1>5, UndoChains
<1>8. /\ Lens \in [Names -> Nat] /\ Lens' \in [Names -> Nat]
      /\ \A m \in Names : Lens[m] = Len(Chain(m)) /\ Lens'[m] = Len(Chain(m)')
      /\ \A i \in 1 .. Len(decls) : Rank(i) = RankIn(decls, Lens, i)
      /\ \A i \in 1 .. Len(decls') : Rank(i)' = RankIn(decls', Lens', i)
  BY <1>1, <1>2, RankIsRankIn, RankIsRankInNext
<1>9. Chain(n) # <<>> /\ Lens[n] = Lens'[n] + 1
  <2>1. Rank(L) >= 1 /\ Rank(L) = Lens[n] - CountIn(decls, n, L)
    BY <1>1, <1>3, <1>4, <1>6, <1>8 DEF RanksPositive, RankIn
  <2>2. CountIn(decls, n, L) = 0
    BY <1>3, <1>4, CountNone
  <2>3. Len(Chain(n)) >= 1 /\ Chain(n) \in Seq(Bindable)
    <3>1. \A a \in Nat : a - 0 >= 1 => a >= 1
      OBVIOUS
    <3>2. Lens[n] \in Nat /\ Lens[n] - 0 >= 1
      BY <1>8, <2>1, <2>2, Zenon
    <3>3. Lens[n] >= 1
      BY <3>1, <3>2
    <3>4. QED
      BY <1>1, <1>8, <3>3, ChainFacts
  <2>4. Chain(n) # <<>>
    BY <2>3
  <2>5. Len(FrontOf(Chain(n))) = Len(Chain(n)) - 1
    BY <2>3, <2>4, FrontFacts
  <2>6. QED
    BY <1>7, <1>8, <2>3, <2>4, <2>5
<1>10. \A m \in Names : Lens[m] = Lens'[m] + (IF decls[Len(decls)] = m THEN 1 ELSE 0)
  <2>1. \A m \in Names : m # n => Lens[m] = Lens'[m] + 0
    BY <1>7, <1>8
  <2>2. QED
    BY <1>3, <1>6, <1>9, <2>1
<1>11. \A i \in 1 .. L - 1 : Rank(i)' = Rank(i)
  <2>1. /\ \A i \in 1 .. Len(decls') : RankIn(decls, Lens, i) = RankIn(decls', Lens', i)
        /\ RankIn(decls, Lens, Len(decls)) = Lens[decls[Len(decls)]]
    <3>1. Lens \in [Names -> Nat] /\ Lens' \in [Names -> Nat]
      BY <1>8
    <3>2. decls \in Seq(Names) /\ decls' \in Seq(Names) /\ Extends(decls, decls')
      BY <1>4, <1>6
    <3>3. QED
      BY <1>10, <3>1, <3>2, RanksExtended
  <2>2. \A i \in 1 .. L - 1 : i \in 1 .. Len(decls') /\ i \in 1 .. Len(decls)
    BY <1>3, <1>6
  <2>3. QED
    BY <1>8, <2>1, <2>2, Zenon
<1>12. RanksPositive'
  <2>1. \A i \in 1 .. Len(decls') : Rank(i)' >= 1
    BY <1>1, <1>3, <1>6, <1>11 DEF RanksPositive
  <2>2. QED
    BY <2>1 DEF RanksPositive
<1>13. OverloadedAt' = OverloadedAt \ {L}
  <2>1. OverloadedAt' = {i \in 1 .. L - 1 : Rank(i)' >= 2}
    BY <1>6 DEF OverloadedAt
  <2>2. OverloadedAt = {i \in 1 .. L : Rank(i) >= 2}
    BY <1>3 DEF OverloadedAt
  <2>3. \A i : i \in 1 .. L - 1 <=> i \in 1 .. L /\ i # L
    BY <1>3
  <2>4. QED
    BY <1>11, <2>1, <2>2, <2>3
<1>14. OverloadedIsSublist'
  <2>1. /\ L \notin OverloadedAt => SublistAt(overloadedDecls, decls', OverloadedAt)
        /\ L \in OverloadedAt => SublistAt(FrontOf(overloadedDecls), decls', OverloadedAt \ {L})
    BY <1>1, <1>3, <1>4, <1>6, SublistShortened DEF OverloadedIsSublist
  <2>2. WasOverloaded <=> L \in OverloadedAt
    BY <1>1, <1>3, <1>4, UndoTest
  <2>3. CASE RevertOverload
    <3>1. L \in OverloadedAt /\ overloadedDecls' = FrontOf(overloadedDecls)
      BY <2>2, <2>3 DEF RevertOverload
    <3>2. QED
      BY <1>13, <2>1, <3>1 DEF OverloadedIsSublist
  <2>4. CASE EraseBinding
    <3>1. L \notin OverloadedAt /\ overloadedDecls' = overloadedDecls
      BY <2>2, <2>4 DEF EraseBinding
    <3>2. OverloadedAt' = OverloadedAt
      BY <1>13, <3>1
    <3>3. QED
      BY <2>1, <3>1, <3>2 DEF OverloadedIsSublist
  <2>5. QED
    BY <2>3, <2>4
<1>15. GlobalMark' /\ ~crashed'
  <2>1. /\ declsSizeCtx' = declsSizeCtx /\ lastSize' = lastSize
        /\ popping /\ popping' /\ crashed' = crashed
    BY DEF RevertOverload, EraseBinding, LoopRuns
  <2>2. QED
    BY <1>1, <2>1 DEF GlobalMark, Marks
<1>16. QED
  BY <1>2, <1>12, <1>14, <1>15 DEF UndoExact, ChainsOK, NoCrash

(* What is about to be reverted has an older binding.                      *)
LEMMA NeverCrashes ==
    ASSUME TypeInv, UndoExact, LoopRuns, WasOverloaded
    PROVE  RevertAsserts
<1>1. decls # <<>> /\ decls \in Seq(Names)
  BY DEF LoopRuns, TypeInv, TypeOK
<1>2. PICK n \in Names : n = LastOf(decls)
  BY <1>1, FrontFacts
<1>3. ChainsOK /\ OverloadedIsSublist /\ TypeOK
  BY DEF UndoExact, ChainsOK, TypeInv
<1>4. Len(Chain(n)) >= 2
  BY <1>1, <1>2, <1>3, UndoTest
<1>5. Chain(n) # <<>>
  BY <1>4
<1>6. symTable[n] # Null /\ Chain(n) = OverloadsOf(symTable[n])
  BY <1>3, <1>5, ChainFacts
<1>7. Len(<<symTable[n]>>) = 1
  OBVIOUS
<1>8. overloads[symTable[n]] = Chain(n)
  BY <1>4, <1>6, <1>7 DEF OverloadsOf
<1>9. QED
  BY <1>2, <1>4, <1>6, <1>8 DEF RevertAsserts

(* reset leaves nothing to undo.                                           *)
LEMMA ResetKeepsUndoExact ==
    ASSUME TypeInv, UndoExact, overloadedDecls = <<>>, Reset
    PROVE  /\ UndoExact'
           /\ \A n \in Names : Chain(n)' = <<>>
<1>1. /\ symTable' = Unbound /\ overloads' = overloads /\ made' = made
      /\ decls' = <<>> /\ declsSizeCtx' = <<>> /\ overloadedDecls' = <<>>
      /\ ~popping' /\ ~crashed'
  BY DEF Reset, Ready
<1>2. \A n \in Names : Chain(n)' = <<>>
  BY <1>1 DEF Chain, Unbound
<1>3. 1 .. Len(<<>>) = {} /\ Len(<<>>) = 0 /\ <<>> \in Seq(made) /\ <<>> \in Seq(Nat)
  OBVIOUS
<1>4. ChainsMade'
  <2>1. \A e \in Bindable \ made : overloads[e] = <<>>
    BY DEF UndoExact, ChainsMade
  <2>2. QED
    BY <1>1, <1>2, <1>3, <2>1 DEF ChainsMade
<1>5. ChainsArePrefixes' /\ ChainsDisjoint'
  BY <1>2, <1>3 DEF ChainsArePrefixes, ChainsDisjoint
<1>6. RanksPositive'
  BY <1>1, <1>3 DEF RanksPositive
<1>7. OverloadedIsSublist'
  <2>1. OverloadedAt' = {}
    BY <1>1, <1>3 DEF OverloadedAt
  <2>2. SublistAt(<<>>, <<>>, {})
    <3>1. [j \in {} |-> 0] \in [1 .. Len(<<>>) -> 1 .. Len(<<>>)]
      BY <1>3
    <3>2. {} = {[k \in {} |-> 0][j] : j \in 1 .. Len(<<>>)}
      BY <1>3
    <3>3. QED
      BY <1>3, <3>1, <3>2 DEF SublistAt
  <2>3. QED
    BY <1>1, <2>1, <2>2 DEF OverloadedIsSublist
<1>8. GlobalMark'
  <2>1. Append(<<>>, 0)[1] = 0
    BY <1>3, AppendFirst
  <2>2. QED
    BY <1>1, <1>3, <2>1 DEF GlobalMark, Marks
<1>9. QED
  BY <1>1, <1>2, <1>4, <1>5, <1>6, <1>7, <1>8 DEF UndoExact, NoCrash

(* At first there is nothing to undo.                                      *)
LEMMA UndoExactInit == Init => UndoExact
<1> SUFFICES ASSUME Init PROVE UndoExact
  OBVIOUS
<1>1. 1 .. Len(<<>>) = {} /\ Len(<<>>) = 0 /\ <<>> \in Seq(Nat)
  OBVIOUS
<1>2. ChainsOK
  <2>1. symTable = Unbound /\ \A e \in Bindable \ made : overloads[e] = <<>>
    BY DEF Init
  <2>2. QED
    BY <2>1, NoChains
<1>3. RanksPositive
  BY <1>1 DEF Init, RanksPositive
<1>4. OverloadedIsSublist
  <2>1. OverloadedAt = {}
    BY <1>1 DEF Init, OverloadedAt
  <2>2. SublistAt(<<>>, <<>>, {})
    <3>1. [j \in {} |-> 0] \in [1 .. Len(<<>>) -> 1 .. Len(<<>>)]
      BY <1>1
    <3>2. {} = {[k \in {} |-> 0][j] : j \in 1 .. Len(<<>>)}
      BY <1>1
    <3>3. QED
      BY <1>1, <3>1, <3>2 DEF SublistAt
  <2>3. QED
    BY <2>1, <2>2 DEF Init, OverloadedIsSublist
<1>5. GlobalMark
  <2>1. Append(<<>>, 0)[1] = 0
    BY <1>1, AppendFirst
  <2>2. QED
    BY <1>1, <2>1 DEF Init, GlobalMark, Marks
<1>6. QED
  BY <1>2, <1>3, <1>4, <1>5 DEF Init, UndoExact, ChainsOK, NoCrash

UndoInv == TypeInv /\ UndoExact

(* FreshNext only restricts Next.                                          *)
LEMMA FreshIsNext == [FreshNext]_vars => [Next]_vars
BY DEF FreshNext, Next

(* The marks change when a scope is opened or closed only.                 *)
LEMMA PushMarks ==
    ASSUME TypeInv, PushScope
    PROVE  Marks' = Append(Marks, Len(decls)) /\ Marks = Append(declsSizeCtx, Len(decls))
BY DEF PushScope, Ready, Marks

(* Starting to close a scope moves the last mark.                          *)
LEMMA PopMarks ==
    ASSUME TypeInv, PopScope
    PROVE  /\ Marks' = declsSizeCtx
           /\ Marks = Append(declsSizeCtx, Len(decls))
<1>1. declsSizeCtx \in Seq(Nat) /\ declsSizeCtx # <<>>
  BY DEF PopScope, Nested, TypeInv, TypeOK
<1>2. PICK top \in Nat : top = LastOf(declsSizeCtx)
  BY <1>1, FrontFacts
<1>3. PICK f \in Seq(Nat) : f = FrontOf(declsSizeCtx)
  BY <1>1, FrontFacts
<1>4. /\ Len(declsSizeCtx) \in Nat \ {0} /\ Len(f) = Len(declsSizeCtx) - 1
      /\ \A i \in 1 .. Len(declsSizeCtx) - 1 : f[i] = declsSizeCtx[i]
      /\ declsSizeCtx[Len(declsSizeCtx)] = top
  BY <1>1, <1>2, <1>3, FrontFacts DEF LastOf
<1>5. Append(f, top) = declsSizeCtx
  <2>1. /\ Append(f, top) \in Seq(Nat) /\ Len(Append(f, top)) = Len(declsSizeCtx)
        /\ \A i \in 1 .. Len(declsSizeCtx) - 1 : Append(f, top)[i] = f[i]
        /\ Append(f, top)[Len(declsSizeCtx)] = top
    BY <1>4, AppendFacts
  <2>2. \A i \in 1 .. Len(declsSizeCtx) : Append(f, top)[i] = declsSizeCtx[i]
    BY <1>4, <2>1
  <2>3. QED
    BY <1>1, <2>1, <2>2, SeqEqual
<1>6. Marks' = Append(f, top)
  BY <1>2, <1>3 DEF PopScope, Marks
<1>7. QED
  BY <1>5, <1>6 DEF PopScope, Ready, Marks

(* The loop of popScope ends at the mark it started from.                  *)
LEMMA ReturnMarks ==
    ASSUME TypeInv, PopScopeReturns
    PROVE  Marks' = Marks /\ decls' = decls
<1>1. decls \in Seq(Names) /\ Len(decls) = lastSize
  BY DEF PopScopeReturns, TypeInv, TypeOK, CtxMonotone
<1>2. decls' = decls
  BY <1>1, SubSeqFull DEF PopScopeReturns
<1>3. QED
  BY <1>1, <1>2 DEF PopScopeReturns, Marks

(* UndoExact is inductive when every binding is of a term that was not     *)
(* bound before.                                                           *)
LEMMA UndoExactNext == UndoInv /\ [FreshNext]_vars => UndoInv'
<1> SUFFICES ASSUME UndoInv, [FreshNext]_vars
             PROVE  UndoInv'
  OBVIOUS
<1>1. TypeInv /\ UndoExact /\ TypeOK /\ GlobalMark /\ declsSizeCtx \in Seq(Nat)
  BY DEF UndoInv, UndoExact, TypeInv, TypeOK
<1>2. TypeInv'
  BY <1>1, FreshIsNext, TypeInvNext
<1> SUFFICES UndoExact'
  BY <1>2 DEF UndoInv
<1>3. ASSUME NEW n \in Names, NEW e \in Bindable, BindFresh(n, e)
      PROVE  UndoExact'
  <2>1. e \in Bindable \ made /\ Ready /\ BindSymbol(n, e) /\ made' = made \cup {e}
    BY <1>3 DEF BindFresh
  <2>2. QED
    BY <1>1, <1>2, <2>1, BindKeepsUndoExact
<1>4. ASSUME NEW n \in Names, NEW r \in Rules, BindRule(n, r)
      PROVE  UndoExact'
  <2>1. GlobalMark'
    BY <1>1, <1>4 DEF BindRule, undoLogs, GlobalMark, Marks
  <2>2. QED
    BY <1>1, <1>4, <2>1, SameUndo DEF BindRule, undoLogs
<1>5. CASE PushScope
  <2>1. GlobalMark'
    <3>1. PICK L \in Nat : L = Len(decls)
      BY <1>1 DEF TypeOK
    <3>2. Marks \in Seq(Nat) /\ Marks # <<>>
      BY <1>1, MarksFacts
    <3>3. Append(Marks, L)[1] = Marks[1]
      BY <3>2, AppendFirst
    <3>4. Marks' = Append(Marks, L)
      BY <1>1, <1>5, <3>1, PushMarks
    <3>5. QED
      BY <1>1, <3>3, <3>4 DEF GlobalMark
  <2>2. QED
    BY <1>1, <1>5, <2>1, SameUndo DEF PushScope
<1>6. CASE PopScope
  <2>1. GlobalMark'
    BY <1>1, <1>6, PopMarks, GlobalFacts DEF GlobalMark, PopScope
  <2>2. QED
    BY <1>1, <1>6, <2>1, SameUndo DEF PopScope
<1>7. CASE RevertOverload \/ EraseBinding
  BY <1>1, <1>2, <1>7, UndoKeepsUndoExact
<1>8. CASE RevertCrashes
  BY <1>1, <1>8, NeverCrashes DEF RevertCrashes
<1>9. CASE PopScopeReturns
  <2>1. Marks' = Marks /\ decls' = decls
    BY <1>1, <1>9, ReturnMarks
  <2>2. QED
    BY <1>1, <1>9, <2>1, SameUndo DEF PopScopeReturns, GlobalMark
<1>10. CASE overloadedDecls = <<>> /\ Reset
  BY <1>1, <1>10, ResetKeepsUndoExact
<1>11. CASE UNCHANGED vars
  <2>1. GlobalMark'
    BY <1>1, <1>11 DEF vars, GlobalMark, Marks
  <2>2. QED
    BY <1>1, <1>11, <2>1, SameUndo DEF vars
<1>12. QED
  BY <1>3, <1>4, <1>5, <1>6, <1>7, <1>8, <1>9, <1>10, <1>11 DEF FreshNext, PopLoop

(* When every bound symbol is fresh, the undo logs are exact: popScope     *)
(* never reads back a binding that is not there, d_overloadedDecls lists   *)
(* the shadowing declarations of d_decls, and the overload lists of two    *)
(* names never mix.                                                        *)
THEOREM UndoLogsExact == FreshSpec => []UndoExact
<1>1. Init => UndoInv
  BY TypeInvInit, UndoExactInit DEF UndoInv
<1>2. UndoInv => UndoExact
  BY DEF UndoInv
<1>3. QED
  BY <1>1, <1>2, UndoExactNext, PTL DEF FreshSpec

-----------------------------------------------------------------------------
(* Environments *)

Env == [Names -> Seq(Bindable)]

EnvAt(C, s, mark) == [n \in Names |-> SubSeq(C[n], 1, Len(C[n]) - CountIn(s, n, mark))]

EnvsOf(C, s, M) == [k \in 1 .. Len(M) |-> EnvAt(C, s, M[k])]

BoundIn(E, n, e) == [E EXCEPT ![Len(E)][n] = Append(@, e)]

(* A table cut back to a mark is an environment.                           *)
LEMMA EnvAtType ==
    ASSUME NEW C \in Env, NEW s \in Seq(Names), NEW mark \in Nat
    PROVE  EnvAt(C, s, mark) \in Env
<1>1. ASSUME NEW n \in Names
      PROVE  SubSeq(C[n], 1, Len(C[n]) - CountIn(s, n, mark)) \in Seq(Bindable)
  <2>1. C[n] \in Seq(Bindable) /\ Len(C[n]) \in Nat
    BY DEF Env
  <2>2. PICK c \in Nat : c = CountIn(s, n, mark)
    BY CountNat
  <2>3. \A i \in 1 .. Len(C[n]) - c : C[n][i] \in Bindable
    BY <2>1
  <2>4. 1 \in Int /\ Len(C[n]) - c \in Int
    BY <2>1
  <2>5. SubSeq(C[n], 1, Len(C[n]) - c) \in Seq(Bindable)
    BY <2>3, <2>4, SubSeqProperties
  <2>6. QED
    BY <2>2, <2>5
<1>2. QED
  BY <1>1 DEF EnvAt, Env

(* There is an environment for every mark.                                 *)
LEMMA EnvsOfType ==
    ASSUME NEW C \in Env, NEW s \in Seq(Names), NEW M \in Seq(Nat)
    PROVE  /\ EnvsOf(C, s, M) \in Seq(Env)
           /\ Len(EnvsOf(C, s, M)) = Len(M)
           /\ \A k \in 1 .. Len(M) : EnvsOf(C, s, M)[k] = EnvAt(C, s, M[k])
<1>1. \A k \in 1 .. Len(M) : M[k] \in Nat /\ EnvAt(C, s, M[k]) \in Env
  BY EnvAtType
<1>2. Len(M) \in Nat
  OBVIOUS
<1>3. EnvsOf(C, s, M) = [k \in 1 .. Len(M) |-> EnvAt(C, s, M[k])]
  BY DEF EnvsOf
<1>4. EnvsOf(C, s, M) \in [1 .. Len(M) -> Env]
  BY <1>1, <1>3
<1>5. QED
  BY <1>2, <1>3, <1>4

(* A mark at the end of the declarations sees the chains as they are.      *)
LEMMA EnvAtEnd ==
    ASSUME NEW C \in Env, NEW s \in Seq(Names)
    PROVE  EnvAt(C, s, Len(s)) = C
<1>1. ASSUME NEW n \in Names
      PROVE  SubSeq(C[n], 1, Len(C[n]) - CountIn(s, n, Len(s))) = C[n]
  <2>1. C[n] \in Seq(Bindable) /\ Len(C[n]) \in Nat
    BY DEF Env
  <2>2. CountIn(s, n, Len(s)) = 0 /\ Len(C[n]) - 0 = Len(C[n])
    BY <2>1, CountNone
  <2>3. SubSeq(C[n], 1, Len(C[n])) = C[n]
    BY <2>1, SubSeqFull
  <2>4. QED
    BY <2>2, <2>3
<1>2. QED
  BY <1>1 DEF EnvAt, Env

(* A declaration added at the end together with its binding, or undone,    *)
(* does not show at a mark before it.                                      *)
LEMMA EnvAtExtended ==
    ASSUME NEW C \in Env, NEW D \in Env,
           NEW s \in Seq(Names), NEW t \in Seq(Names), Extends(t, s),
           NEW n \in Names, t[Len(t)] = n,
           Extends(D[n], C[n]), \A m \in Names \ {n} : D[m] = C[m],
           NEW mark \in 0 .. Len(s)
    PROVE  EnvAt(D, t, mark) = EnvAt(C, s, mark)
<1>1. ASSUME NEW m \in Names
      PROVE  SubSeq(D[m], 1, Len(D[m]) - CountIn(t, m, mark))
               = SubSeq(C[m], 1, Len(C[m]) - CountIn(s, m, mark))
  <2>1. C[m] \in Seq(Bindable) /\ D[m] \in Seq(Bindable)
    BY DEF Env
  <2>2. PICK c \in Nat : c = CountIn(s, m, mark)
    BY CountNat
  <2>3. CountIn(t, m, mark) = c + (IF n = m THEN 1 ELSE 0)
    <3>1. CountIn(t, m, mark) = CountIn(s, m, mark) + (IF t[Len(t)] = m THEN 1 ELSE 0)
      BY CountExtended
    <3>2. QED
      BY <2>2, <3>1
  <2>4. CASE m = n
    <3>1. Extends(D[m], C[m]) /\ Len(D[m]) = Len(C[m]) + 1 /\ Len(C[m]) \in Nat
      BY <2>1, <2>4 DEF Extends
    <3>2. CountIn(t, m, mark) = c + 1
      BY <2>3, <2>4
    <3>3. /\ Len(D[m]) - (c + 1) = Len(C[m]) - c
          /\ Len(C[m]) - c \in Int /\ Len(C[m]) - c <= Len(C[m])
      BY <3>1
    <3>4. SubSeq(D[m], 1, Len(C[m]) - c) = SubSeq(C[m], 1, Len(C[m]) - c)
      BY <2>1, <3>1, <3>3, PrefixOfExtended
    <3>5. QED
      BY <2>2, <3>2, <3>3, <3>4
  <2>5. CASE m # n
    BY <2>2, <2>3, <2>5
  <2>6. QED
    BY <2>4, <2>5
<1>2. QED
  BY <1>1 DEF EnvAt

-----------------------------------------------------------------------------
(* Steps on environments *)

(* A mark at the end of d_decls adds a copy of the current environment.    *)
LEMMA EnvsPush ==
    ASSUME NEW C \in Env, NEW s \in Seq(Names), NEW M \in Seq(Nat), M # <<>>,
           M[Len(M)] = Len(s)
    PROVE  EnvsOf(C, s, Append(M, Len(s)))
             = Append(EnvsOf(C, s, M), EnvsOf(C, s, M)[Len(EnvsOf(C, s, M))])
<1>1. PICK E \in Seq(Env) : E = EnvsOf(C, s, M)
  BY EnvsOfType
<1>2. PICK F \in Seq(Env) : F = EnvsOf(C, s, Append(M, Len(s)))
  <2>1. Append(M, Len(s)) \in Seq(Nat)
    OBVIOUS
  <2>2. QED
    BY <2>1, EnvsOfType
<1>3. /\ Len(M) \in Nat \ {0} /\ Len(E) = Len(M)
      /\ \A k \in 1 .. Len(M) : E[k] = EnvAt(C, s, M[k])
  BY <1>1, EnvsOfType
<1>4. /\ Append(M, Len(s)) \in Seq(Nat) /\ Len(Append(M, Len(s))) = Len(M) + 1
      /\ \A k \in 1 .. Len(M) : Append(M, Len(s))[k] = M[k]
      /\ Append(M, Len(s))[Len(M) + 1] = Len(s)
  BY AppendFacts
<1>5. /\ Len(F) = Len(M) + 1
      /\ \A k \in 1 .. Len(M) + 1 : F[k] = EnvAt(C, s, Append(M, Len(s))[k])
  BY <1>2, <1>4, EnvsOfType
<1>6. Len(M) \in 1 .. Len(M) /\ E[Len(E)] \in Env
  BY <1>3
<1>7. /\ Append(E, E[Len(E)]) \in Seq(Env) /\ Len(Append(E, E[Len(E)])) = Len(M) + 1
      /\ \A k \in 1 .. Len(M) : Append(E, E[Len(E)])[k] = E[k]
      /\ Append(E, E[Len(E)])[Len(M) + 1] = E[Len(M)]
  BY <1>3, <1>6, AppendFacts
<1>8. \A k \in 1 .. Len(M) + 1 : k = Len(M) + 1 \/ (k \in 1 .. Len(M) /\ k \in 1 .. Len(M) + 1)
  BY <1>3
<1>9. \A k \in 1 .. Len(M) + 1 : F[k] = Append(E, E[Len(E)])[k]
  BY <1>3, <1>4, <1>5, <1>6, <1>7, <1>8
<1>10. F = Append(E, E[Len(E)])
  BY <1>5, <1>7, <1>9, SeqEqual
<1>11. QED
  BY <1>1, <1>2, <1>10

(* Dropping the last mark drops the current environment.                   *)
LEMMA EnvsPop ==
    ASSUME NEW C \in Env, NEW s \in Seq(Names), NEW M \in Seq(Nat), NEW mark \in Nat
    PROVE  EnvsOf(C, s, M) = FrontOf(EnvsOf(C, s, Append(M, mark)))
<1>1. PICK E \in Seq(Env) : E = EnvsOf(C, s, M)
  BY EnvsOfType
<1>2. /\ Append(M, mark) \in Seq(Nat) /\ Len(Append(M, mark)) = Len(M) + 1
      /\ \A k \in 1 .. Len(M) : Append(M, mark)[k] = M[k]
  BY AppendFacts
<1>3. PICK F \in Seq(Env) : F = EnvsOf(C, s, Append(M, mark))
  BY <1>2, EnvsOfType
<1>4. /\ Len(E) = Len(M) /\ Len(M) \in Nat
      /\ \A k \in 1 .. Len(M) : E[k] = EnvAt(C, s, M[k])
  BY <1>1, EnvsOfType
<1>5. /\ Len(F) = Len(M) + 1
      /\ \A k \in 1 .. Len(M) + 1 : F[k] = EnvAt(C, s, Append(M, mark)[k])
  BY <1>2, <1>3, EnvsOfType
<1>6. F # <<>> /\ Len(F) - 1 = Len(M)
  BY <1>4, <1>5
<1>7. /\ FrontOf(F) \in Seq(Env) /\ Len(FrontOf(F)) = Len(M)
      /\ \A k \in 1 .. Len(M) : FrontOf(F)[k] = F[k]
  BY <1>6, FrontFacts
<1>8. \A k \in 1 .. Len(M) : k \in 1 .. Len(M) + 1
  BY <1>4
<1>9. \A k \in 1 .. Len(M) : FrontOf(F)[k] = E[k]
  BY <1>2, <1>4, <1>5, <1>7, <1>8
<1>10. E = FrontOf(F)
  BY <1>4, <1>7, <1>9, SeqEqual
<1>11. QED
  BY <1>1, <1>3, <1>10

(* One declaration and its binding more.                                   *)
BoundOnce(C, D, s, t, n, e) ==
    /\ Extends(t, s)
    /\ t[Len(t)] = n
    /\ D[n] = Append(C[n], e)
    /\ \A m \in Names \ {n} : D[m] = C[m]

(* Binding in the current environment: the last mark follows the           *)
(* declarations.                                                           *)
LEMMA EnvsBind ==
    ASSUME NEW C \in Env, NEW D \in Env, NEW s \in Seq(Names), NEW t \in Seq(Names),
           NEW n \in Names, NEW e \in Bindable, BoundOnce(C, D, s, t, n, e),
           NEW X \in Seq(Nat), \A k \in 1 .. Len(X) : X[k] <= Len(s)
    PROVE  EnvsOf(D, t, Append(X, Len(t)))
             = BoundIn(EnvsOf(C, s, Append(X, Len(s))), n, e)
<1> USE DEF BoundOnce
<1>1. Len(X) \in Nat /\ Len(s) \in Nat /\ Len(t) \in Nat
  OBVIOUS
<1>2. PICK M \in Seq(Nat) : M = Append(X, Len(s))
  <2>1. Append(X, Len(s)) \in Seq(Nat)
    OBVIOUS
  <2>2. QED
    BY <2>1
<1>3. PICK N \in Seq(Nat) : N = Append(X, Len(t))
  <2>1. Append(X, Len(t)) \in Seq(Nat)
    OBVIOUS
  <2>2. QED
    BY <2>1
<1>4. /\ Len(M) = Len(X) + 1 /\ M[Len(X) + 1] = Len(s)
      /\ \A k \in 1 .. Len(X) : M[k] = X[k]
      /\ Len(N) = Len(X) + 1 /\ N[Len(X) + 1] = Len(t)
      /\ \A k \in 1 .. Len(X) : N[k] = X[k]
  BY <1>1, <1>2, <1>3, AppendFacts
<1>5. PICK E \in Seq(Env), F \in Seq(Env) : E = EnvsOf(C, s, M) /\ F = EnvsOf(D, t, N)
  BY EnvsOfType
<1>6. /\ Len(E) = Len(X) + 1
      /\ \A k \in 1 .. Len(X) + 1 : E[k] = EnvAt(C, s, M[k])
      /\ Len(F) = Len(X) + 1
      /\ \A k \in 1 .. Len(X) + 1 : F[k] = EnvAt(D, t, N[k])
  <2>1. Len(E) = Len(M) /\ \A k \in 1 .. Len(M) : E[k] = EnvAt(C, s, M[k])
    BY <1>5, EnvsOfType
  <2>2. Len(F) = Len(N) /\ \A k \in 1 .. Len(N) : F[k] = EnvAt(D, t, N[k])
    BY <1>5, EnvsOfType
  <2>3. QED
    BY <1>4, <2>1, <2>2
<1>7. /\ \A k \in 1 .. Len(X) + 1 : k = Len(X) + 1 \/ (k \in 1 .. Len(X) /\ k # Len(X) + 1)
      /\ Len(X) + 1 \in 1 .. Len(X) + 1 /\ \A k \in 1 .. Len(X) : k \in 1 .. Len(X) + 1
  <2>1. \A L \in Nat :
          /\ \A k \in 1 .. L + 1 : k = L + 1 \/ (k \in 1 .. L /\ k # L + 1)
          /\ L + 1 \in 1 .. L + 1 /\ \A k \in 1 .. L : k \in 1 .. L + 1
    OBVIOUS
  <2>2. QED
    BY <1>1, <2>1, Zenon
<1>8. E[Len(X) + 1] = C /\ F[Len(X) + 1] = D
  BY <1>4, <1>6, <1>7, EnvAtEnd
<1>9. ASSUME NEW k \in 1 .. Len(X)
      PROVE  F[k] = E[k]
  <2>1. /\ Extends(t, s) /\ t[Len(t)] = n /\ Extends(D[n], C[n])
        /\ \A m \in Names \ {n} : D[m] = C[m]
    BY AppendExtends DEF Env
  <2>2. X[k] \in Nat /\ X[k] <= Len(s)
    <3>1. X[k] \in Nat
      BY ElementOfSeq
    <3>2. X[k] <= Len(s)
      BY Zenon
    <3>3. QED
      BY <3>1, <3>2
  <2>3. \A i \in Nat, j \in Nat : i <= j => i \in 0 .. j
    OBVIOUS
  <2>4. PICK mark \in 0 .. Len(s) : mark = X[k]
    BY <1>1, <2>2, <2>3, Zenon
  <2>5. EnvAt(D, t, mark) = EnvAt(C, s, mark)
    BY <2>1, EnvAtExtended, Zenon
  <2>6. QED
    BY <1>4, <1>6, <1>7, <2>4, <2>5
<1>10. D = [C EXCEPT ![n] = Append(C[n], e)]
  BY DEF Env
<1>11. PICK G : G = [E EXCEPT ![Len(X) + 1] = D]
  OBVIOUS
<1>12. /\ G \in Seq(Env) /\ Len(G) = Len(X) + 1 /\ G[Len(X) + 1] = D
       /\ \A k \in 1 .. Len(X) : G[k] = E[k]
  <2>1. Len(E) \in Nat /\ Len(X) + 1 \in 1 .. Len(E) /\ \A k \in 1 .. Len(X) : k # Len(X) + 1
    BY <1>1, <1>6
  <2>2. QED
    BY <1>6, <1>7, <1>11, <2>1
<1>13. \A k \in 1 .. Len(X) + 1 : F[k] = G[k]
  BY <1>7, <1>8, <1>9, <1>12
<1>14. F = G
  BY <1>5, <1>6, <1>12, <1>13, SeqEqual
<1>15. G = [E EXCEPT ![Len(E)][n] = Append(@, e)]
  <2>1. D = [E[Len(E)] EXCEPT ![n] = Append(E[Len(E)][n], e)]
    BY <1>6, <1>8, <1>10
  <2>2. [E EXCEPT ![Len(E)][n] = Append(@, e)]
          = [E EXCEPT ![Len(E)] = [E[Len(E)] EXCEPT ![n] = Append(E[Len(E)][n], e)]]
    OBVIOUS
  <2>3. G = [E EXCEPT ![Len(E)] = D]
    BY <1>6, <1>11
  <2>4. QED
    BY <2>1, <2>2, <2>3
<1>16. QED
  BY <1>2, <1>3, <1>5, <1>14, <1>15 DEF BoundIn

(* Undoing a declaration that no mark counts.                              *)
LEMMA EnvsUndo ==
    ASSUME NEW C \in Env, NEW D \in Env,
           NEW s \in Seq(Names), NEW t \in Seq(Names), Extends(t, s),
           NEW n \in Names, t[Len(t)] = n,
           Extends(D[n], C[n]), \A m \in Names \ {n} : D[m] = C[m],
           NEW M \in Seq(Nat), \A k \in 1 .. Len(M) : M[k] <= Len(s)
    PROVE  EnvsOf(C, s, M) = EnvsOf(D, t, M)
<1>1. \A k \in 1 .. Len(M) : M[k] \in 0 .. Len(s)
  OBVIOUS
<1>2. \A k \in 1 .. Len(M) : EnvAt(D, t, M[k]) = EnvAt(C, s, M[k])
  BY <1>1, EnvAtExtended
<1>3. QED
  BY <1>2 DEF EnvsOf

-----------------------------------------------------------------------------
(* The refinement *)

Chains == [n \in Names |-> Chain(n)]

(* The refinement mapping in terms of the chains of the table.             *)
LEMMA EnvsBarIs ==
    ASSUME TypeInv, ChainsOK
    PROVE  /\ Chains \in Env
           /\ \A n \in Names : Chains[n] = Chain(n)
           /\ EnvsBar = EnvsOf(Chains, decls, Marks)
           /\ EnvsBar \in Seq(Env) /\ Len(EnvsBar) = Len(Marks)
<1>1. \A n \in Names : Chain(n) \in Seq(Bindable)
  BY ChainFacts DEF TypeInv
<1>2. Chains \in Env /\ \A n \in Names : Chains[n] = Chain(n)
  BY <1>1 DEF Chains, Env
<1>3. EnvsBar = EnvsOf(Chains, decls, Marks)
  BY <1>2 DEF EnvsBar, EnvsOf, EnvAt, ChainAt, Count
<1>4. decls \in Seq(Names) /\ Marks \in Seq(Nat)
  BY MarksFacts DEF TypeInv, TypeOK
<1>5. QED
  BY <1>2, <1>3, <1>4, EnvsOfType

(* EnvsBarIs in the next state.                                            *)
LEMMA EnvsBarIsNext ==
    ASSUME ChainsOK', TypeOK'
    PROVE  /\ Chains' \in Env
           /\ \A n \in Names : Chains'[n] = Chain(n)'
           /\ EnvsBar' = EnvsOf(Chains', decls', Marks')
<1>1. \A n \in Names : Chain(n)' \in Seq(Bindable)
  <2>1. \A n \in Names : Chain(n)' \in Seq(made') /\ made' \subseteq Bindable
    BY DEF ChainsOK, ChainsMade, TypeOK
  <2>2. QED
    BY <2>1
<1>2. Chains' = [n \in Names |-> Chain(n)']
  BY DEF Chains
<1>3. Chains' \in Env /\ \A n \in Names : Chains'[n] = Chain(n)'
  BY <1>1, <1>2 DEF Env
<1>4. EnvsBar' = [k \in 1 .. Len(Marks') |-> [n \in Names |->
                    SubSeq(Chain(n)', 1, Len(Chain(n)') - CountIn(decls', n, Marks'[k]))]]
  BY DEF EnvsBar, ChainAt, Count
<1>5. QED
  BY <1>3, <1>4 DEF EnvsOf, EnvAt

(* A step that leaves chains, declarations and marks alone is a stutter.   *)
LEMMA SameEnvs ==
    ASSUME TypeInv, ChainsOK, TypeInv', ChainsOK',
           \A n \in Names : Chain(n)' = Chain(n), decls' = decls, Marks' = Marks
    PROVE  EnvsBar' = EnvsBar
<1>1. Chains' = Chains
  BY DEF Chains
<1>2. QED
  BY <1>1, EnvsBarIs, EnvsBarIsNext DEF TypeInv

(* An empty table maps to the global environment without bindings.         *)
LEMMA NoEnvs ==
    ASSUME decls = <<>>, Marks = << 0 >>, \A n \in Names : Chain(n) = <<>>
    PROVE  EnvsBar = <<Abstract!NoBindings>>
<1>1. Len(<<>>) = 0
  OBVIOUS
<1>2. \A n \in Names : ChainAt(n, 0) = <<>>
  <2>1. ASSUME NEW n \in Names
        PROVE  ChainAt(n, 0) = <<>>
    <3>1. CountIn(<<>>, n, 0) = 0
      <4>1. <<>> \in Seq(Names)
        OBVIOUS
      <4>2. QED
        BY <1>1, <4>1, CountNone
    <3>2. SubSeq(<<>>, 1, 0 - 0) = <<>>
      OBVIOUS
    <3>3. QED
      BY <1>1, <3>1, <3>2 DEF ChainAt, Count
  <2>2. QED
    BY <2>1
<1>3. [n \in Names |-> ChainAt(n, 0)] = Abstract!NoBindings
  BY <1>2 DEF Abstract!NoBindings
<1>4. Len(<< 0 >>) = 1 /\ << 0 >>[1] = 0
  OBVIOUS
<1>5. EnvsBar = [k \in 1 .. 1 |-> Abstract!NoBindings]
  BY <1>3, <1>4 DEF EnvsBar
<1>6. QED
  BY <1>5

(* The initial table maps to the initial stack of environments.            *)
LEMMA ImplementsInit == Init => Abstract!EnvInit
<1>0. SUFFICES ASSUME Init PROVE Abstract!EnvInit
  OBVIOUS
<1>1. \A n \in Names : Chain(n) = <<>>
  BY <1>0 DEF Init, Chain, Unbound
<1>2. Marks = << 0 >> /\ decls = <<>>
  <2>1. Append(<<>>, Len(<<>>)) = << 0 >>
    OBVIOUS
  <2>2. QED
    BY <1>0, <2>1 DEF Init, Marks
<1>3. QED
  BY <1>1, <1>2, NoEnvs DEF Abstract!EnvInit

(* bind implements EnvBind.                                                *)
LEMMA ImplementsBind ==
    ASSUME UndoInv, UndoInv', NEW n \in Names, NEW e \in Bindable, BindFresh(n, e)
    PROVE  Abstract!EnvBind(n, e)
<1>1. /\ TypeInv /\ TypeOK /\ ChainsOK /\ GlobalMark /\ TypeInv' /\ TypeOK' /\ ChainsOK'
  BY DEF UndoInv, TypeInv, UndoExact, ChainsOK
<1>2. /\ e \in Bindable \ made /\ BindSymbol(n, e) /\ ~popping /\ ~popping'
      /\ declsSizeCtx' = declsSizeCtx /\ declsSizeCtx \in Seq(Nat)
  BY <1>1 DEF BindFresh, BindSymbol, Ready, TypeOK
<1>3. /\ Chain(n)' = Append(Chain(n), e)
      /\ \A m \in Names \ {n} : Chain(m)' = Chain(m)
  BY <1>1, <1>2, BindChains
<1>4. PICK C \in Env : C = Chains
  BY <1>1, EnvsBarIs
<1>5. PICK D \in Env : D = Chains'
  BY <1>1, EnvsBarIsNext
<1>6. D[n] = Append(C[n], e) /\ \A m \in Names \ {n} : D[m] = C[m]
  BY <1>1, <1>3, <1>4, <1>5, EnvsBarIs, EnvsBarIsNext
<1>7. /\ EnvsBar = EnvsOf(C, decls, Append(declsSizeCtx, Len(decls)))
      /\ EnvsBar' = EnvsOf(D, decls', Append(declsSizeCtx, Len(decls')))
  BY <1>1, <1>2, <1>4, <1>5, EnvsBarIs, EnvsBarIsNext DEF Marks
<1>8. CASE Nested
  <2>1. decls' = Append(decls, n) /\ decls \in Seq(Names) /\ decls' \in Seq(Names)
    BY <1>1, <1>2, <1>8 DEF BindSymbol, TypeOK
  <2>2. Extends(decls', decls) /\ decls'[Len(decls')] = n
    BY <2>1, AppendExtends, AppendFacts
  <2>3. \A k \in 1 .. Len(declsSizeCtx) : declsSizeCtx[k] <= Len(decls)
    BY <1>1 DEF TypeInv, CtxMonotone
  <2>4. EnvsBar' = [EnvsBar EXCEPT ![Len(EnvsBar)][n] = Append(@, e)]
    <3>1. PICK t \in Seq(Names) : t = decls'
      BY <2>1
    <3>2. PICK s \in Seq(Names) : s = decls
      BY <2>1
    <3>3. PICK X \in Seq(Nat) : X = declsSizeCtx
      BY <1>2
    <3>4. BoundOnce(C, D, s, t, n, e) /\ \A k \in 1 .. Len(X) : X[k] <= Len(s)
      BY <1>6, <2>2, <2>3, <3>1, <3>2, <3>3 DEF BoundOnce
    <3>5. EnvsOf(D, t, Append(X, Len(t)))
            = BoundIn(EnvsOf(C, s, Append(X, Len(s))), n, e)
      BY <3>4, EnvsBind
    <3>6. QED
      BY <1>7, <3>1, <3>2, <3>3, <3>5 DEF BoundIn
  <2>5. QED
    BY <2>4 DEF Abstract!EnvBind, Abstract!Bound
<1>9. CASE ~Nested
  <2>1. decls' = decls /\ declsSizeCtx = <<>> /\ Len(decls) = 0 /\ decls \in Seq(Names)
    BY <1>1, <1>2, <1>9, GlobalFacts DEF BindSymbol, Nested, TypeOK
  <2>2. PICK M \in Seq(Nat) : M = Append(declsSizeCtx, Len(decls))
    <3>1. Append(declsSizeCtx, Len(decls)) \in Seq(Nat)
      BY <1>2, <2>1
    <3>2. QED
      BY <3>1
  <2>3. Len(M) = 1 /\ M[1] = Len(decls)
    BY <2>1, <2>2
  <2>4. /\ EnvsOf(C, decls, M) = [k \in 1 .. 1 |-> EnvAt(C, decls, Len(decls))]
        /\ EnvsOf(D, decls, M) = [k \in 1 .. 1 |-> EnvAt(D, decls, Len(decls))]
    BY <2>3 DEF EnvsOf
  <2>5. EnvAt(C, decls, Len(decls)) = C /\ EnvAt(D, decls, Len(decls)) = D
    BY <2>1, EnvAtEnd
  <2>6. EnvsBar = [k \in 1 .. 1 |-> C] /\ EnvsBar' = [k \in 1 .. 1 |-> D]
    BY <1>7, <2>1, <2>2, <2>4, <2>5
  <2>7. D = [C EXCEPT ![n] = Append(C[n], e)]
    BY <1>6 DEF Env
  <2>8. Len(EnvsBar) = 1
    BY <1>1, <1>2, <2>1, <2>2, <2>3, EnvsBarIs DEF Marks
  <2>9. EnvsBar' = [EnvsBar EXCEPT ![1][n] = Append(@, e)]
    <3>1. EnvsBar[1] = C
      BY <2>6
    <3>2. [EnvsBar EXCEPT ![1][n] = Append(@, e)]
            = [EnvsBar EXCEPT ![1] = [EnvsBar[1] EXCEPT ![n] = Append(EnvsBar[1][n], e)]]
      OBVIOUS
    <3>3. [EnvsBar EXCEPT ![1] = D] = [k \in 1 .. 1 |-> D]
      BY <2>6
    <3>4. QED
      BY <2>6, <2>7, <3>1, <3>2, <3>3
  <2>10. QED
    BY <2>8, <2>9 DEF Abstract!EnvBind, Abstract!Bound
<1>10. QED
  BY <1>8, <1>9

(* pushScope implements EnvPush.                                           *)
LEMMA ImplementsPush ==
    ASSUME UndoInv, UndoInv', PushScope
    PROVE  Abstract!EnvPush
<1>1. /\ TypeInv /\ TypeOK /\ ChainsOK /\ TypeInv' /\ TypeOK' /\ ChainsOK'
  BY DEF UndoInv, TypeInv, UndoExact, ChainsOK
<1>2. Chains' = Chains /\ decls' = decls
  BY DEF PushScope, Chains, Chain, OverloadsOf
<1>3. PICK C \in Env : C = Chains
  BY <1>1, EnvsBarIs
<1>4. PICK s \in Seq(Names) : s = decls
  BY <1>1 DEF TypeOK
<1>5. PICK M \in Seq(Nat) : M = Marks
  BY <1>1, MarksFacts
<1>6. M # <<>> /\ M[Len(M)] = Len(s)
  <2>1. declsSizeCtx \in Seq(Nat) /\ M = Append(declsSizeCtx, Len(s)) /\ Len(s) \in Nat
    BY <1>1, <1>4, <1>5, PushMarks DEF TypeOK
  <2>2. Len(M) = Len(declsSizeCtx) + 1 /\ M[Len(declsSizeCtx) + 1] = Len(s)
    BY <2>1, AppendFacts
  <2>3. QED
    BY <2>1, <2>2
<1>7. EnvsBar = EnvsOf(C, s, M) /\ EnvsBar' = EnvsOf(C, s, Append(M, Len(s)))
  BY <1>1, <1>2, <1>3, <1>4, <1>5, EnvsBarIs, EnvsBarIsNext, PushMarks
<1>8. EnvsBar' = Append(EnvsBar, EnvsBar[Len(EnvsBar)])
  BY <1>6, <1>7, EnvsPush
<1>9. QED
  BY <1>8 DEF Abstract!EnvPush, Abstract!Pushed

(* popScope implements EnvPop at the step that takes its mark.             *)
LEMMA ImplementsPop ==
    ASSUME UndoInv, UndoInv', PopScope
    PROVE  Abstract!EnvPop
<1>1. /\ TypeInv /\ TypeOK /\ ChainsOK /\ TypeInv' /\ TypeOK' /\ ChainsOK'
  BY DEF UndoInv, TypeInv, UndoExact, ChainsOK
<1>2. Chains' = Chains /\ decls' = decls
  BY DEF PopScope, Chains, Chain, OverloadsOf
<1>3. Marks' = declsSizeCtx /\ Marks = Append(declsSizeCtx, Len(decls))
  BY <1>1, PopMarks
<1>4. declsSizeCtx \in Seq(Nat) /\ Len(decls) \in Nat /\ decls \in Seq(Names)
      /\ declsSizeCtx # <<>>
  BY <1>1 DEF TypeOK, PopScope, Nested
<1>5. EnvsBar = EnvsOf(Chains, decls, Append(declsSizeCtx, Len(decls))) /\ Chains \in Env
      /\ EnvsBar' = EnvsOf(Chains, decls, declsSizeCtx)
      /\ Len(EnvsBar) = Len(Append(declsSizeCtx, Len(decls)))
  BY <1>1, <1>2, <1>3, EnvsBarIs, EnvsBarIsNext
<1>6. EnvsBar' = FrontOf(EnvsBar)
  BY <1>4, <1>5, EnvsPop
<1>7. Len(EnvsBar) > 1
  BY <1>4, <1>5
<1>8. QED
  BY <1>6, <1>7 DEF Abstract!EnvPop, Abstract!Popped, FrontOf

(* Undoing a declaration is a step of no environment.                      *)
LEMMA ImplementsUndo ==
    ASSUME UndoInv, UndoInv', RevertOverload \/ EraseBinding
    PROVE  EnvsBar' = EnvsBar
<1>1. /\ TypeInv /\ TypeOK /\ ChainsOK /\ OverloadedIsSublist /\ RanksPositive
      /\ TypeInv' /\ TypeOK' /\ ChainsOK'
  BY DEF UndoInv, TypeInv, UndoExact, ChainsOK
<1>2. /\ decls # <<>> /\ decls' = FrontOf(decls) /\ decls \in Seq(Names)
      /\ Marks' = Marks
      /\ popping /\ lastSize < Len(decls)
  BY <1>1 DEF RevertOverload, EraseBinding, LoopRuns, Marks, TypeOK
<1>3. PICK n \in Names : n = LastOf(decls)
  BY <1>2, FrontFacts
<1>4. /\ decls' \in Seq(Names) /\ Extends(decls, decls') /\ decls[Len(decls)] = n
      /\ Len(decls') = Len(decls) - 1
  BY <1>2, <1>3, FrontFacts, FrontExtends DEF LastOf
<1>5. /\ Chain(n)' = FrontOf(Chain(n))
      /\ \A m \in Names \ {n} : Chain(m)' = Chain(m)
  BY <1>1, <1>2, <1>3, UndoChains
<1>6. PICK C \in Env : C = Chains
  BY <1>1, EnvsBarIs
<1>7. PICK D \in Env : D = Chains'
  BY <1>1, EnvsBarIsNext
<1>8. /\ \A m \in Names : C[m] = Chain(m) /\ D[m] = Chain(m)'
  BY <1>1, <1>6, <1>7, EnvsBarIs, EnvsBarIsNext
<1>9. Chain(n) # <<>>
  <2>1. WasOverloaded <=> Len(Chain(n)) >= 2
    BY <1>1, <1>2, <1>3, UndoTest
  <2>2. PICK L \in Nat : L = Len(decls)
    BY <1>2
  <2>3. CountIn(decls, n, L) = 0 /\ L \in 1 .. L
    BY <1>2, <2>2, CountNone
  <2>4. Rank(L) >= 1 /\ Rank(L) = Len(Chain(n)) - CountIn(decls, n, L)
    BY <1>1, <1>4, <2>2, <2>3 DEF RanksPositive, Rank, Count
  <2>5. Len(<<>>) - 0 = 0
    OBVIOUS
  <2>6. QED
    BY <2>3, <2>4, <2>5
<1>10. Extends(C[n], D[n]) /\ \A m \in Names \ {n} : C[m] = D[m]
  <2>1. Extends(Chain(n), FrontOf(Chain(n)))
    BY <1>1, <1>9, ChainFacts, FrontExtends
  <2>2. QED
    BY <1>5, <1>8, <2>1
<1>11. Marks \in Seq(Nat) /\ \A k \in 1 .. Len(Marks) : Marks[k] <= Len(decls')
  <2>1. /\ Marks \in Seq(Nat) /\ Len(Marks) = Len(declsSizeCtx) + 1
        /\ \A k \in 1 .. Len(declsSizeCtx) : Marks[k] = declsSizeCtx[k]
        /\ Marks[Len(declsSizeCtx) + 1] = lastSize
    BY <1>1, <1>2, MarksFacts
  <2>2. \A k \in 1 .. Len(declsSizeCtx) : declsSizeCtx[k] <= lastSize
    BY <1>1, <1>2 DEF TypeInv, CtxMonotone
  <2>3. /\ lastSize \in Nat /\ Len(decls) \in Nat /\ Len(declsSizeCtx) \in Nat
        /\ declsSizeCtx \in Seq(Nat)
    BY <1>1 DEF TypeOK
  <2>4. \A k \in 1 .. Len(Marks) : Marks[k] <= lastSize
    <3>1. \A k \in 1 .. Len(Marks) : k \in 1 .. Len(declsSizeCtx) \/ k = Len(declsSizeCtx) + 1
      BY <2>1, <2>3
    <3>2. QED
      BY <2>1, <2>2, <2>3, <3>1
  <2>5. \A k \in 1 .. Len(Marks) : Marks[k] \in Nat
    BY <2>1
  <2>6. QED
    BY <1>2, <1>4, <2>1, <2>3, <2>4, <2>5
<1>12. EnvsOf(D, decls', Marks) = EnvsOf(C, decls, Marks)
  <2>1. PICK s \in Seq(Names) : s = decls'
    BY <1>4
  <2>2. PICK M \in Seq(Nat) : M = Marks
    BY <1>11
  <2>3. PICK t \in Seq(Names) : t = decls
    BY <1>2
  <2>4. /\ Extends(t, s) /\ t[Len(t)] = n
        /\ \A k \in 1 .. Len(M) : M[k] <= Len(s)
    BY <1>4, <1>11, <2>1, <2>2, <2>3
  <2>5. EnvsOf(D, s, M) = EnvsOf(C, t, M)
    BY <1>10, <2>4, EnvsUndo
  <2>6. QED
    BY <2>1, <2>2, <2>3, <2>5
<1>13. QED
  BY <1>1, <1>2, <1>6, <1>7, <1>12, EnvsBarIs, EnvsBarIsNext

(* reset implements EnvReset.                                              *)
LEMMA ImplementsReset ==
    ASSUME UndoInv, overloadedDecls = <<>>, Reset
    PROVE  Abstract!EnvReset
<1>1. \A n \in Names : Chain(n)' = <<>>
  BY DEF Reset, Chain, Unbound
<1>2. decls' = <<>> /\ Marks' = << 0 >>
  <2>1. Append(<<>>, Len(<<>>)) = << 0 >>
    OBVIOUS
  <2>2. QED
    BY <2>1 DEF Reset, Ready, Marks
<1>3. \A n \in Names : ChainAt(n, 0)' = <<>>
  <2>1. ASSUME NEW n \in Names
        PROVE  ChainAt(n, 0)' = <<>>
    <3>1. CountIn(<<>>, n, 0) = 0
      <4>1. <<>> \in Seq(Names) /\ Len(<<>>) = 0
        OBVIOUS
      <4>2. QED
        BY <4>1, CountNone
    <3>2. SubSeq(<<>>, 1, 0 - 0) = <<>> /\ Len(<<>>) = 0
      OBVIOUS
    <3>3. ChainAt(n, 0)' = SubSeq(Chain(n)', 1, Len(Chain(n)') - CountIn(decls', n, 0))
      BY DEF ChainAt, Count
    <3>4. QED
      BY <1>1, <1>2, <3>1, <3>2, <3>3
  <2>2. QED
    BY <2>1
<1>4. EnvsBar' = [k \in 1 .. 1 |-> [n \in Names |-> <<>>]]
  <2>1. Len(<< 0 >>) = 1 /\ << 0 >>[1] = 0
    OBVIOUS
  <2>2. EnvsBar' = [k \in 1 .. Len(Marks') |-> [n \in Names |->
                      SubSeq(Chain(n)', 1, Len(Chain(n)') - CountIn(decls', n, Marks'[k]))]]
    BY DEF EnvsBar, ChainAt, Count
  <2>3. \A n \in Names : SubSeq(Chain(n)', 1, Len(Chain(n)') - CountIn(decls', n, 0)) = <<>>
    BY <1>3 DEF ChainAt, Count
  <2>4. QED
    BY <1>2, <2>1, <2>2, <2>3
<1>5. QED
  BY <1>4 DEF Abstract!EnvReset, Abstract!NoBindings

(* Every step maps to a step of the stack of environments or to a stutter. *)
LEMMA ImplementsNext ==
    ASSUME UndoInv, UndoInv', [FreshNext]_vars
    PROVE  [Abstract!EnvNext]_EnvsBar
<1>1. /\ TypeInv /\ ChainsOK /\ TypeInv' /\ ChainsOK'
  BY DEF UndoInv, UndoExact, ChainsOK
<1>2. ASSUME NEW n \in Names, NEW e \in Bindable, BindFresh(n, e)
      PROVE  Abstract!EnvNext
  BY <1>2, ImplementsBind DEF Abstract!EnvNext
<1>3. ASSUME NEW n \in Names, NEW r \in Rules, BindRule(n, r)
      PROVE  EnvsBar' = EnvsBar
  BY <1>1, <1>3, SameEnvs DEF BindRule, undoLogs, Chain, OverloadsOf, Marks
<1>4. CASE PushScope
  BY <1>4, ImplementsPush DEF Abstract!EnvNext
<1>5. CASE PopScope
  BY <1>5, ImplementsPop DEF Abstract!EnvNext
<1>6. CASE RevertOverload \/ EraseBinding
  BY <1>6, ImplementsUndo
<1>7. CASE RevertCrashes
  BY <1>7, NeverCrashes DEF RevertCrashes, UndoInv
<1>8. CASE PopScopeReturns
  <2>1. \A n \in Names : Chain(n)' = Chain(n)
    BY <1>8 DEF PopScopeReturns, Chain, OverloadsOf
  <2>2. QED
    BY <1>1, <1>8, <2>1, ReturnMarks, SameEnvs
<1>9. CASE overloadedDecls = <<>> /\ Reset
  BY <1>9, ImplementsReset DEF Abstract!EnvNext
<1>10. CASE UNCHANGED vars
  BY <1>1, <1>10, SameEnvs DEF vars, Chain, OverloadsOf, Marks
<1>11. QED
  BY <1>2, <1>3, <1>4, <1>5, <1>6, <1>7, <1>8, <1>9, <1>10 DEF FreshNext, PopLoop

(* The undo logs implement a stack of environments: whatever a scope binds *)
(* or shadows, closing it restores every name and every overload list of   *)
(* the enclosing scope.                                                    *)
THEOREM UndoLogsImplementScopes == FreshSpec => ImplementsScopedEnv
<1>1. Init => UndoInv
  BY TypeInvInit, UndoExactInit DEF UndoInv
<1>2. UndoInv /\ UndoInv' /\ [FreshNext]_vars => [Abstract!EnvNext]_EnvsBar
  BY ImplementsNext
<1>3. QED
  BY <1>1, <1>2, ImplementsInit, UndoExactNext, PTL
  DEF FreshSpec, ImplementsScopedEnv, Abstract!EnvSpec

=============================================================================
