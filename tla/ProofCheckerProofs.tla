------------------------- MODULE ProofCheckerProofs -------------------------
(***************************************************************************)
(* Proofs about the proof checker, for every set of names, formulas and    *)
(* files, every normalization, both kinds of build and inputs of any       *)
(* length.                                                                 *)
(***************************************************************************)
EXTENDS ProofCheckerProps, TLAPS, SequenceTheorems

-----------------------------------------------------------------------------
(* Sequences *)

(* A prefix has the elements that the sequence has.                        *)
LEMMA PrefixFacts ==
    ASSUME NEW S, NEW s \in Seq(S), NEW m \in Nat, m <= Len(s)
    PROVE  /\ SubSeq(s, 1, m) \in Seq(S)
           /\ Len(SubSeq(s, 1, m)) = m
           /\ \A i \in 1 .. m : SubSeq(s, 1, m)[i] = s[i]
<1>1. \A i \in 1 .. m : s[i] \in S
  OBVIOUS
<1>2. /\ SubSeq(s, 1, m) \in Seq(S)
      /\ Len(SubSeq(s, 1, m)) = IF 1 <= m THEN m - 1 + 1 ELSE 0
      /\ \A i \in 1 .. m - 1 + 1 : SubSeq(s, 1, m)[i] = s[1 + i - 1]
  BY <1>1, SubSeqProperties
<1>3. Len(SubSeq(s, 1, m)) = m
  BY <1>2
<1>4. ASSUME NEW i \in 1 .. m
      PROVE  SubSeq(s, 1, m)[i] = s[i]
  <2>1. i \in 1 .. m - 1 + 1 /\ 1 + i - 1 = i
    OBVIOUS
  <2>2. QED
    BY <1>2, <2>1
<1>5. QED
  BY <1>2, <1>3, <1>4

(* Appending keeps what was there and puts the new element last.           *)
LEMMA ExtendedFacts ==
    ASSUME NEW S, NEW s \in Seq(S), NEW e \in S
    PROVE  /\ Append(s, e) \in Seq(S)
           /\ Len(Append(s, e)) = Len(s) + 1
           /\ Append(s, e)[Len(s) + 1] = e
           /\ \A i \in 1 .. Len(s) : Append(s, e)[i] = s[i]
    OBVIOUS

-----------------------------------------------------------------------------
(* Stacks of environments *)

(* Opening a scope copies the current environment.                         *)
LEMMA PushedFacts ==
    ASSUME NEW es \in Seq(Scopes!Env), es # <<>>
    PROVE  /\ Scopes!Pushed(es) \in Seq(Scopes!Env)
           /\ Len(Scopes!Pushed(es)) = Len(es) + 1
           /\ Scopes!Pushed(es)[Len(es) + 1] = es[Len(es)]
           /\ \A k \in 1 .. Len(es) : Scopes!Pushed(es)[k] = es[k]
<1>1. es[Len(es)] \in Scopes!Env
  OBVIOUS
<1>2. QED
  BY <1>1, ExtendedFacts DEF Scopes!Pushed

(* Closing a scope leaves the environments below.                          *)
LEMMA PoppedFacts ==
    ASSUME NEW es \in Seq(Scopes!Env), Len(es) > 1
    PROVE  /\ Scopes!Popped(es) \in Seq(Scopes!Env)
           /\ Len(Scopes!Popped(es)) = Len(es) - 1
           /\ \A k \in 1 .. Len(es) - 1 : Scopes!Popped(es)[k] = es[k]
<1>1. Len(es) - 1 \in Nat /\ Len(es) - 1 <= Len(es)
  OBVIOUS
<1>2. QED
  BY <1>1, PrefixFacts DEF Scopes!Popped

(* An environment of the sets of assumptions in S.                         *)
LEMMA BoundFacts ==
    ASSUME NEW es \in Seq(Scopes!Env), es # <<>>, NEW n \in Names, NEW b \in Proofs
    PROVE  /\ Scopes!Bound(es, n, b) \in Seq(Scopes!Env)
           /\ Len(Scopes!Bound(es, n, b)) = Len(es)
           /\ \A k \in 1 .. Len(es) - 1 : Scopes!Bound(es, n, b)[k] = es[k]
<1> DEFINE E == es[Len(es)]
           D == [E EXCEPT ![n] = Append(E[n], b)]
<1>1. Len(es) \in Nat \ {0} /\ Len(es) \in 1 .. Len(es)
  OBVIOUS
<1>2. E \in [Names -> Seq(Proofs)]
  BY <1>1 DEF Scopes!Env
<1>3. Append(E[n], b) \in Seq(Proofs)
  BY <1>2
<1>4. D \in Scopes!Env
  BY <1>2, <1>3 DEF Scopes!Env
<1>5. Scopes!Bound(es, n, b) = [es EXCEPT ![Len(es)] = D]
  BY DEF Scopes!Bound
<1>6. /\ [es EXCEPT ![Len(es)] = D] \in Seq(Scopes!Env)
      /\ Len([es EXCEPT ![Len(es)] = D]) = Len(es)
      /\ \A k \in 1 .. Len(es) - 1 : [es EXCEPT ![Len(es)] = D][k] = es[k]
  <2> HIDE DEF D
  <2>1. QED
    BY <1>1, <1>4
<1>7. QED
  BY <1>5, <1>6

(* What rests on S rests on more.                                          *)
LEMMA RestsOnMore ==
    ASSUME NEW env, NEW S, NEW T, S \subseteq T, RestsOn(env, S)
    PROVE  RestsOn(env, T)
  BY DEF RestsOn

(* Binding a proof that rests on S.                                        *)
LEMMA RestsOnBound ==
    ASSUME NEW env \in Scopes!Env, NEW S, RestsOn(env, S),
           NEW n \in Names, NEW b \in Proofs, b \subseteq S
    PROVE  RestsOn([env EXCEPT ![n] = Append(env[n], b)], S)
<1> DEFINE D == [env EXCEPT ![n] = Append(env[n], b)]
<1>1. env \in [Names -> Seq(Proofs)]
  BY DEF Scopes!Env
<1>2. ASSUME NEW m \in Names, NEW i \in 1 .. Len(D[m])
      PROVE  D[m][i] \subseteq S
  <2>1. CASE m # n
    <3>1. D[m] = env[m]
      BY <1>1, <2>1
    <3>2. QED
      BY <3>1 DEF RestsOn
  <2>2. CASE m = n
    <3>1. D[m] = Append(env[n], b) /\ env[n] \in Seq(Proofs)
      BY <1>1, <2>2
    <3>2. i \in 1 .. Len(env[n]) \/ i = Len(env[n]) + 1
      BY <3>1
    <3>3. CASE i = Len(env[n]) + 1
      <4>1. D[m][i] = b
        BY <3>1, <3>3, ExtendedFacts
      <4>2. QED
        BY <4>1
    <3>4. CASE i \in 1 .. Len(env[n])
      <4>1. D[m][i] = env[n][i]
        BY <3>1, <3>4, ExtendedFacts
      <4>2. QED
        BY <3>4, <4>1 DEF RestsOn
    <3>5. QED
      BY <3>2, <3>3, <3>4
  <2>3. QED
    BY <2>1, <2>2
<1>3. QED
  BY <1>2 DEF RestsOn

(* The environment that a proof which rests on S is bound in.               *)
LEMMA BoundRestsOn ==
    ASSUME NEW es \in Seq(Scopes!Env), es # <<>>, NEW S, RestsOn(es[Len(es)], S),
           NEW n \in Names, NEW b \in Proofs, b \subseteq S
    PROVE  RestsOn(Scopes!Bound(es, n, b)[Len(es)], S)
<1>1. PICK E \in Scopes!Env : E = es[Len(es)]
  OBVIOUS
<1>2. Scopes!Bound(es, n, b)[Len(es)] = [E EXCEPT ![n] = Append(E[n], b)]
  <2>1. PICK D : D = [E EXCEPT ![n] = Append(E[n], b)]
    OBVIOUS
  <2>2. Scopes!Bound(es, n, b) = [es EXCEPT ![Len(es)] = D]
    BY <1>1, <2>1 DEF Scopes!Bound
  <2>3. es = [i \in 1 .. Len(es) |-> es[i]] /\ Len(es) \in 1 .. Len(es)
    OBVIOUS
  <2>4. [es EXCEPT ![Len(es)] = D][Len(es)] = D
    BY <2>3
  <2>5. QED
    BY <2>1, <2>2, <2>4
<1>3. RestsOn(E, S)
  BY <1>1
<1>4. RestsOn([E EXCEPT ![n] = Append(E[n], b)], S)
  BY <1>3, RestsOnBound
<1>5. QED
  BY <1>2, <1>4

(* What is proved from visible proofs rests on what they rest on.          *)
LEMMA ConcludedRestsOn ==
    ASSUME envs \in Seq(Scopes!Env), envs # <<>>, NEW S, RestsOn(envs[Len(envs)], S),
           NEW premises \in SUBSET Names, \A p \in premises : Visible(p), NEW sorry \in BOOLEAN
    PROVE  /\ Basis(premises) \subseteq S
           /\ Concluded(premises, sorry) \in Proofs
<1> DEFINE E == envs[Len(envs)]
<1>1. E \in [Names -> Seq(Proofs)]
  BY DEF Scopes!Env
<1>2. ASSUME NEW p \in premises
      PROVE  ProofOf(p) \subseteq S /\ ProofOf(p) \in Proofs
  <2>1. E[p] \in Seq(Proofs) /\ E[p] # <<>>
    BY <1>1 DEF Visible, Scopes!Current
  <2>2. Len(E[p]) \in 1 .. Len(E[p]) /\ E[p][Len(E[p])] \in Proofs
    BY <2>1
  <2>3. ProofOf(p) = E[p][Len(E[p])]
    BY DEF ProofOf, Scopes!Current
  <2> HIDE DEF E
  <2>4. QED
    BY <2>2, <2>3 DEF RestsOn, E
<1>3. Basis(premises) \subseteq S /\ Basis(premises) \in Proofs
  BY <1>2 DEF Basis, Proofs
<1>4. QED
  BY <1>3 DEF Concluded, Proofs

-----------------------------------------------------------------------------
(* Types *)

(* Each open assumption scope has an assumption of its own, so that what   *)
(* step-pop cuts d_assumptions to is a prefix of it.  Types alone are not  *)
(* inductive: the sizes might point past the end.                          *)
SizesOrdered ==
    /\ \A i, j \in 1 .. AssumptionLevel : i < j => assumptionsSizeCtx[i] < assumptionsSizeCtx[j]
    /\ \A i \in 1 .. AssumptionLevel : assumptionsSizeCtx[i] < Len(assumptions)

TypeInv == TypeOK /\ SizesOrdered

(* The program starts with the global environment and nothing read.        *)
LEMMA TypeInvInit == Init => TypeInv
<1>1. SUFFICES ASSUME Init PROVE TypeInv
  OBVIOUS
<1>2. /\ <<>> \in Seq(Formulas) /\ <<>> \in Seq(Nat) /\ <<>> \in Seq(Input)
      /\ Len(<<>>) = 0
  OBVIOUS
<1>3. Scopes!NoBindings \in Scopes!Env
  BY DEF Scopes!NoBindings, Scopes!Env
<1>4. <<Scopes!NoBindings>> \in Seq(Scopes!Env) /\ <<Scopes!NoBindings>> # <<>>
  BY <1>3
<1>5. TypeOK
  BY <1>1, <1>2, <1>4 DEF Init, TypeOK
<1>6. SizesOrdered
  BY <1>1, <1>2 DEF Init, SizesOrdered, AssumptionLevel
<1>7. QED
  BY <1>5, <1>6 DEF TypeInv

(* What is in the state vector of the scopes stays.                        *)
LEMMA SameSizes ==
    ASSUME TypeInv, UNCHANGED stateVars
    PROVE  SizesOrdered'
  BY DEF TypeInv, SizesOrdered, AssumptionLevel, stateVars

(* Stopping the program.                                                   *)
LEMMA StopsType ==
    ASSUME TypeInv, NEW how \in Ended, Stops(how)
    PROVE  TypeInv'
<1>1. TypeOK'
  BY DEF TypeInv, TypeOK, Stops, stateVars, fileVars, referenceVars
<1>2. QED
  BY <1>1, SameSizes DEF TypeInv, Stops

(* Including a file.                                                       *)
LEMMA IncludeType ==
    ASSUME TypeInv, NEW f \in Files, NEW isReference \in BOOLEAN, NEW nf \in BOOLEAN,
           IncludeFile(f, isReference, nf), UNCHANGED stateVars, phase' \in {"options", "input"} \cup Ended
    PROVE  TypeInv'
<1>1. [file |-> f, reference |-> isReference] \in Input
  BY DEF Input
<1>2. /\ parsers' \in Seq(Input) /\ finished' \in BOOLEAN /\ includes' \subseteq Files
      /\ hasReference' \in BOOLEAN /\ referenceNf' \in BOOLEAN /\ referenceAsserts' \subseteq Formulas
  <2>1. CASE UNCHANGED <<fileVars, referenceVars>>
    BY <2>1 DEF TypeInv, TypeOK, fileVars, referenceVars
  <2>2. CASE /\ includes' = includes \cup {f}
             /\ hasReference' = isReference /\ referenceNf' = nf
             /\ parsers' = Append(parsers, [file |-> f, reference |-> isReference])
             /\ UNCHANGED <<finished, referenceAsserts>>
    <3>1. parsers' \in Seq(Input)
      BY <1>1, <2>2 DEF TypeInv, TypeOK
    <3>2. QED
      BY <2>2, <3>1 DEF TypeInv, TypeOK
  <2>3. QED
    BY <2>1, <2>2 DEF IncludeFile
<1>3. TypeOK'
  BY <1>2 DEF TypeInv, TypeOK, stateVars
<1>4. QED
  BY <1>3, SameSizes DEF TypeInv

(* d_assumptionsSizeCtx after an assume-push.                              *)
LEMMA PushedSizes ==
    ASSUME TypeInv, NEW F \in Formulas,
           assumptionsSizeCtx' = Append(assumptionsSizeCtx, Len(assumptions)),
           assumptions' = Append(assumptions, F)
    PROVE  /\ assumptions' \in Seq(Formulas) /\ assumptionsSizeCtx' \in Seq(Nat)
           /\ AssumptionLevel' = AssumptionLevel + 1
           /\ Len(assumptions') = Len(assumptions) + 1
           /\ assumptionsSizeCtx'[AssumptionLevel + 1] = Len(assumptions)
           /\ \A i \in 1 .. AssumptionLevel : assumptionsSizeCtx'[i] = assumptionsSizeCtx[i]
           /\ assumptions'[Len(assumptions) + 1] = F
           /\ \A j \in 1 .. Len(assumptions) : assumptions'[j] = assumptions[j]
           /\ SizesOrdered'
<1>1. /\ assumptions \in Seq(Formulas) /\ assumptionsSizeCtx \in Seq(Nat)
      /\ Len(assumptions) \in Nat /\ AssumptionLevel \in Nat
      /\ \A i \in 1 .. AssumptionLevel : assumptionsSizeCtx[i] \in Nat
  BY DEF TypeInv, TypeOK, AssumptionLevel
<1>2. /\ assumptions' \in Seq(Formulas) /\ Len(assumptions') = Len(assumptions) + 1
      /\ assumptions'[Len(assumptions) + 1] = F
      /\ \A j \in 1 .. Len(assumptions) : assumptions'[j] = assumptions[j]
  BY <1>1, ExtendedFacts
<1>3. /\ assumptionsSizeCtx' \in Seq(Nat) /\ AssumptionLevel' = AssumptionLevel + 1
      /\ assumptionsSizeCtx'[AssumptionLevel + 1] = Len(assumptions)
      /\ \A i \in 1 .. AssumptionLevel : assumptionsSizeCtx'[i] = assumptionsSizeCtx[i]
  BY <1>1, ExtendedFacts DEF AssumptionLevel
<1>4. \A i \in 1 .. AssumptionLevel + 1 : i \in 1 .. AssumptionLevel \/ i = AssumptionLevel + 1
  BY <1>1
<1>5. \A i \in 1 .. AssumptionLevel + 1 : assumptionsSizeCtx'[i] < Len(assumptions) + 1
  BY <1>1, <1>3, <1>4 DEF TypeInv, SizesOrdered
<1>6. ASSUME NEW i \in 1 .. AssumptionLevel + 1, NEW j \in 1 .. AssumptionLevel + 1, i < j
      PROVE  assumptionsSizeCtx'[i] < assumptionsSizeCtx'[j]
  <2>1. i \in 1 .. AssumptionLevel
    BY <1>1, <1>6
  <2>2. CASE j = AssumptionLevel + 1
    BY <1>3, <2>1, <2>2 DEF TypeInv, SizesOrdered
  <2>3. CASE j \in 1 .. AssumptionLevel
    BY <1>3, <1>6, <2>1, <2>3 DEF TypeInv, SizesOrdered
  <2>4. QED
    BY <1>4, <2>2, <2>3
<1>7. SizesOrdered'
  BY <1>2, <1>3, <1>5, <1>6 DEF SizesOrdered
<1>8. QED
  BY <1>2, <1>3, <1>7

(* d_assumptions and d_assumptionsSizeCtx after a step-pop.                *)
LEMMA PoppedSizes ==
    ASSUME TypeInv, AssumptionLevel > 0,
           assumptions' = SubSeq(assumptions, 1, ScopeStart),
           assumptionsSizeCtx' = SubSeq(assumptionsSizeCtx, 1, AssumptionLevel - 1)
    PROVE  /\ assumptions' \in Seq(Formulas) /\ assumptionsSizeCtx' \in Seq(Nat)
           /\ AssumptionLevel' = AssumptionLevel - 1
           /\ ScopeStart \in Nat /\ ScopeStart < Len(assumptions)
           /\ Len(assumptions') = ScopeStart
           /\ \A i \in 1 .. AssumptionLevel - 1 : /\ assumptionsSizeCtx'[i] = assumptionsSizeCtx[i]
                                                 /\ assumptionsSizeCtx[i] < ScopeStart
           /\ \A j \in 1 .. ScopeStart : assumptions'[j] = assumptions[j]
           /\ SizesOrdered'
<1>1. /\ assumptions \in Seq(Formulas) /\ assumptionsSizeCtx \in Seq(Nat)
      /\ Len(assumptions) \in Nat /\ AssumptionLevel \in Nat \ {0}
      /\ \A i \in 1 .. AssumptionLevel : assumptionsSizeCtx[i] \in Nat
  BY DEF TypeInv, TypeOK, AssumptionLevel
<1>2. AssumptionLevel \in 1 .. AssumptionLevel /\ AssumptionLevel - 1 \in Nat
      /\ AssumptionLevel - 1 <= AssumptionLevel
      /\ \A i \in 1 .. AssumptionLevel - 1 : i \in 1 .. AssumptionLevel /\ i < AssumptionLevel
  BY <1>1
<1>3. /\ ScopeStart \in Nat /\ ScopeStart < Len(assumptions)
      /\ \A i \in 1 .. AssumptionLevel - 1 : assumptionsSizeCtx[i] < ScopeStart
  BY <1>1, <1>2 DEF TypeInv, SizesOrdered, ScopeStart
<1>4. /\ assumptions' \in Seq(Formulas) /\ Len(assumptions') = ScopeStart
      /\ \A j \in 1 .. ScopeStart : assumptions'[j] = assumptions[j]
  <2>1. ScopeStart <= Len(assumptions)
    BY <1>1, <1>3
  <2>2. QED
    BY <1>1, <1>3, <2>1, PrefixFacts
<1>5. /\ assumptionsSizeCtx' \in Seq(Nat) /\ AssumptionLevel' = AssumptionLevel - 1
      /\ \A i \in 1 .. AssumptionLevel - 1 : assumptionsSizeCtx'[i] = assumptionsSizeCtx[i]
  <2>1. AssumptionLevel - 1 <= Len(assumptionsSizeCtx)
    BY <1>2 DEF AssumptionLevel
  <2>2. /\ SubSeq(assumptionsSizeCtx, 1, AssumptionLevel - 1) \in Seq(Nat)
        /\ Len(SubSeq(assumptionsSizeCtx, 1, AssumptionLevel - 1)) = AssumptionLevel - 1
        /\ \A i \in 1 .. AssumptionLevel - 1 :
              SubSeq(assumptionsSizeCtx, 1, AssumptionLevel - 1)[i] = assumptionsSizeCtx[i]
    BY <1>1, <1>2, <2>1, PrefixFacts
  <2>3. AssumptionLevel' = Len(assumptionsSizeCtx')
    BY DEF AssumptionLevel
  <2>4. QED
    BY <2>2, <2>3
<1>6. SizesOrdered'
  <2>1. \A i, j \in 1 .. AssumptionLevel - 1 : i < j => assumptionsSizeCtx[i] < assumptionsSizeCtx[j]
    BY <1>2 DEF TypeInv, SizesOrdered
  <2>2. QED
    BY <1>3, <1>4, <1>5, <2>1 DEF SizesOrdered
<1>7. QED
  BY <1>3, <1>4, <1>5, <1>6

(* A proof is bound, and the assumptions stay or are handled elsewhere.    *)
LEMMA BoundType ==
    ASSUME TypeInv, NEW es \in Seq(Scopes!Env), es # <<>>, NEW n \in Names, NEW b \in Proofs,
           envs' = Scopes!Bound(es, n, b), SizesOrdered',
           assumptions' \in Seq(Formulas), assumptionsSizeCtx' \in Seq(Nat),
           incomplete' \in BOOLEAN, UNCHANGED <<fileVars, referenceVars>>,
           phase' \in {"options", "input"} \cup Ended
    PROVE  TypeInv'
<1>1. envs' \in Seq(Scopes!Env) /\ Len(envs') = Len(es) /\ Len(es) \in Nat \ {0}
  <2>1. Len(es) \in Nat \ {0}
    OBVIOUS
  <2>2. QED
    BY <2>1, BoundFacts
<1>2. envs' # <<>>
  BY <1>1
<1>3. TypeOK'
  BY <1>1, <1>2 DEF TypeInv, TypeOK, fileVars, referenceVars
<1>4. QED
  BY <1>3 DEF TypeInv

(* assume keeps the types.                                                 *)
LEMMA AssumeType ==
    ASSUME TypeInv, NEW n \in Names, NEW F \in Formulas, Assume(n, F)
    PROVE  TypeInv'
<1>1. {F} \in Proofs
  BY DEF Proofs
<1>2. /\ assumptions' \in Seq(Formulas) /\ Len(assumptions') = Len(assumptions) + 1
      /\ assumptionsSizeCtx' = assumptionsSizeCtx /\ assumptionsSizeCtx \in Seq(Nat)
      /\ Len(assumptions) \in Nat
  BY DEF Assume, TypeInv, TypeOK
<1>3. SizesOrdered'
  BY <1>2 DEF TypeInv, SizesOrdered, AssumptionLevel
<1>4. phase' \in {"options", "input"} \cup Ended
  BY DEF Assume, TypeInv, TypeOK, Ended
<1>5. /\ envs' = Scopes!Bound(envs, n, {F}) /\ envs \in Seq(Scopes!Env) /\ envs # <<>>
      /\ incomplete' \in BOOLEAN /\ UNCHANGED <<fileVars, referenceVars>>
  BY DEF Assume, TypeInv, TypeOK
<1>6. QED
  BY <1>1, <1>2, <1>3, <1>4, <1>5, BoundType

(* assume-push keeps the types, and gives its scope an assumption.         *)
LEMMA AssumePushType ==
    ASSUME TypeInv, NEW n \in Names, NEW F \in Formulas, AssumePush(n, F)
    PROVE  TypeInv'
<1>1. {F} \in Proofs
  BY DEF Proofs
<1>2. assumptions' \in Seq(Formulas) /\ assumptionsSizeCtx' \in Seq(Nat) /\ SizesOrdered'
  BY PushedSizes DEF AssumePush
<1>3. envs \in Seq(Scopes!Env) /\ envs # <<>>
  BY DEF TypeInv, TypeOK
<1>4. PICK es \in Seq(Scopes!Env) : es = Scopes!Pushed(envs) /\ Len(es) = Len(envs) + 1
  BY <1>3, PushedFacts
<1>5. es # <<>>
  BY <1>3, <1>4
<1>6. /\ envs' = Scopes!Bound(es, n, {F})
      /\ incomplete' \in BOOLEAN /\ UNCHANGED <<fileVars, referenceVars>>
      /\ phase' \in {"options", "input"} \cup Ended
  BY <1>4 DEF AssumePush, TypeInv, TypeOK
<1>7. QED
  BY <1>1, <1>2, <1>5, <1>6, BoundType

(* step keeps the types: what it binds is the basis of a proof.            *)
LEMMA StepType ==
    ASSUME TypeInv, NEW n \in Names, NEW premises \in SUBSET Names, NEW sorry \in BOOLEAN,
           Step(n, premises, sorry)
    PROVE  TypeInv'
<1>1. envs \in Seq(Scopes!Env) /\ envs # <<>>
  BY DEF TypeInv, TypeOK
<1>2. RestsOn(envs[Len(envs)], Formulas \cup {Sorry})
  <2>1. envs[Len(envs)] \in [Names -> Seq(Proofs)]
    BY <1>1 DEF Scopes!Env
  <2>2. QED
    BY <2>1 DEF RestsOn, Proofs
<1>3. Concluded(premises, sorry) \in Proofs
  BY <1>1, <1>2, ConcludedRestsOn DEF Step
<1>4. /\ envs' = Scopes!Bound(envs, n, Concluded(premises, sorry))
      /\ assumptions' \in Seq(Formulas) /\ assumptionsSizeCtx' \in Seq(Nat)
      /\ incomplete' \in BOOLEAN /\ UNCHANGED <<fileVars, referenceVars>>
      /\ phase' \in {"options", "input"} \cup Ended
      /\ UNCHANGED <<assumptions, assumptionsSizeCtx>>
  BY DEF Step, TypeInv, TypeOK
<1>5. SizesOrdered'
  BY <1>4 DEF TypeInv, SizesOrdered, AssumptionLevel
<1>6. QED
  BY <1>1, <1>3, <1>4, <1>5, BoundType

(* step-pop keeps the types: it cuts d_assumptions to a prefix and leaves  *)
(* the global environment.                                                 *)
LEMMA StepPopType ==
    ASSUME TypeInv, NEW n \in Names, NEW premises \in SUBSET Names, NEW sorry \in BOOLEAN,
           StepPop(n, premises, sorry)
    PROVE  TypeInv'
<1>1. envs \in Seq(Scopes!Env) /\ envs # <<>> /\ Len(envs) > 1
  BY DEF TypeInv, TypeOK, StepPop
<1>2. RestsOn(envs[Len(envs)], Formulas \cup {Sorry})
  <2>1. envs[Len(envs)] \in [Names -> Seq(Proofs)]
    BY <1>1 DEF Scopes!Env
  <2>2. QED
    BY <2>1 DEF RestsOn, Proofs
<1>3. Concluded(premises, sorry) \in Proofs
  BY <1>1, <1>2, ConcludedRestsOn DEF StepPop
<1>4. PICK b \in Proofs : b = Concluded(premises, sorry) \ {CurrentAssumptions[1]}
  BY <1>3 DEF Proofs
<1>5. assumptions' \in Seq(Formulas) /\ assumptionsSizeCtx' \in Seq(Nat) /\ SizesOrdered'
  BY PoppedSizes DEF StepPop
<1>6. PICK es \in Seq(Scopes!Env) : es = Scopes!Popped(envs) /\ Len(es) = Len(envs) - 1
  BY <1>1, PoppedFacts
<1>7. es # <<>>
  BY <1>1, <1>6
<1>8. /\ envs' = Scopes!Bound(es, n, b)
      /\ incomplete' \in BOOLEAN /\ UNCHANGED <<fileVars, referenceVars>>
      /\ phase' \in {"options", "input"} \cup Ended
  BY <1>4, <1>6 DEF StepPop, TypeInv, TypeOK
<1>9. QED
  BY <1>5, <1>7, <1>8, BoundType

(* push, pop and reset keep the types, and pop the global environment.     *)
LEMMA ScopeType ==
    ASSUME TypeInv, Push \/ Pop \/ Reset
    PROVE  TypeInv'
<1>1. envs \in Seq(Scopes!Env) /\ envs # <<>> /\ Len(envs) \in Nat
  BY DEF TypeInv, TypeOK
<1>2. CASE Push
  <2>1. envs' \in Seq(Scopes!Env) /\ Len(envs') = Len(envs) + 1
    BY <1>1, <1>2, PushedFacts DEF Push
  <2>2. envs' # <<>>
    BY <1>1, <2>1
  <2>3. TypeOK' /\ UNCHANGED <<assumptions, assumptionsSizeCtx>>
    BY <1>2, <2>1, <2>2 DEF Push, TypeInv, TypeOK, fileVars, referenceVars
  <2>4. QED
    BY <2>3 DEF TypeInv, SizesOrdered, AssumptionLevel
<1>3. CASE Pop
  <2>1. envs' \in Seq(Scopes!Env) /\ Len(envs') = Len(envs) - 1 /\ Len(envs) > 1
    BY <1>1, <1>3, PoppedFacts DEF Pop
  <2>2. envs' # <<>>
    BY <1>1, <2>1
  <2>3. TypeOK' /\ UNCHANGED <<assumptions, assumptionsSizeCtx>>
    BY <1>3, <2>1, <2>2 DEF Pop, TypeInv, TypeOK, fileVars, referenceVars
  <2>4. QED
    BY <2>3 DEF TypeInv, SizesOrdered, AssumptionLevel
<1>4. CASE Reset
  <2>1. Scopes!NoBindings \in Scopes!Env
    BY DEF Scopes!NoBindings, Scopes!Env
  <2>2. <<Scopes!NoBindings>> \in Seq(Scopes!Env) /\ <<Scopes!NoBindings>> # <<>>
    BY <2>1
  <2>3. <<>> \in Seq(Formulas) /\ <<>> \in Seq(Nat) /\ Len(<<>>) = 0
    OBVIOUS
  <2>4. TypeOK'
    BY <1>4, <2>2, <2>3 DEF Reset, TypeInv, TypeOK, fileVars, referenceVars
  <2>5. SizesOrdered'
    BY <1>4, <2>3 DEF Reset, SizesOrdered, AssumptionLevel
  <2>6. QED
    BY <2>4, <2>5 DEF TypeInv
<1>5. QED
  BY <1>2, <1>3, <1>4

(* Reading files keeps the types.                                          *)
LEMMA FileType ==
    ASSUME TypeInv, (\E f \in Files : Include(f) \/ \E nf \in BOOLEAN : Reference(f, nf))
                       \/ (\E F \in Formulas : ReferenceAssert(F)) \/ Exit \/ EndOfInput
    PROVE  TypeInv'
<1>1. phase \in {"options", "input"} \cup Ended
  BY DEF TypeInv, TypeOK
<1>2. ASSUME NEW f \in Files, Include(f)
      PROVE  TypeInv'
  BY <1>1, <1>2, IncludeType DEF Include
<1>3. ASSUME NEW f \in Files, NEW nf \in BOOLEAN, Reference(f, nf)
      PROVE  TypeInv'
  BY <1>1, <1>3, IncludeType DEF Reference
<1>4. ASSUME NEW F \in Formulas, ReferenceAssert(F)
      PROVE  TypeInv'
  <2>1. Norm(F) \in Formulas
    BY CheckerAssumption DEF Norm
  <2>2. TypeOK'
    BY <1>4, <2>1 DEF ReferenceAssert, TypeInv, TypeOK, stateVars, fileVars
  <2>3. QED
    BY <1>4, <2>2, SameSizes DEF ReferenceAssert, TypeInv
<1>5. CASE Exit
  <2>1. TypeOK'
    BY <1>5 DEF Exit, TypeInv, TypeOK, stateVars, referenceVars
  <2>2. QED
    BY <1>5, <2>1, SameSizes DEF Exit, TypeInv
<1>6. CASE EndOfInput
  <2>1. CASE Stops(IF EoAssertions /\ NothingDeclared THEN "aborted" ELSE "error")
    <3>1. (IF EoAssertions /\ NothingDeclared THEN "aborted" ELSE "error") \in Ended
      BY DEF Ended
    <3>2. QED
      BY <2>1, <3>1, StopsType
  <2>2. CASE /\ parsers' = SubSeq(parsers, 1, Len(parsers) - 1)
             /\ finished' = FALSE
             /\ phase' = IF phase = "input" /\ Len(parsers) = 1 THEN Response ELSE phase
             /\ UNCHANGED <<stateVars, includes, referenceVars>>
    <3>1. Len(parsers) - 1 \in Nat /\ Len(parsers) - 1 <= Len(parsers) /\ parsers \in Seq(Input)
      BY <1>6 DEF EndOfInput, TypeInv, TypeOK
    <3>2. parsers' \in Seq(Input)
      BY <2>2, <3>1, PrefixFacts
    <3>3. phase' \in {"options", "input"} \cup Ended
      BY <1>1, <2>2 DEF Response, Ended
    <3>4. TypeOK'
      BY <2>2, <3>2, <3>3 DEF TypeInv, TypeOK, stateVars, referenceVars
    <3>5. QED
      BY <2>2, <3>4, SameSizes DEF TypeInv
  <2>3. QED
    BY <1>6, <2>1, <2>2 DEF EndOfInput
<1>7. QED
  BY <1>2, <1>3, <1>4, <1>5, <1>6

(* What main does keeps the types.                                         *)
LEMMA MainType ==
    ASSUME TypeInv, Main
    PROVE  TypeInv'
<1>1. phase \in {"options", "input"} \cup Ended
  BY DEF TypeInv, TypeOK
<1>2. ASSUME NEW f \in Files, IncludeOption(f)
      PROVE  TypeInv'
  BY <1>1, <1>2, IncludeType DEF IncludeOption
<1>3. ASSUME NEW f \in Files, ReferenceOption(f)
      PROVE  TypeInv'
  <2>1. "aborted" \in Ended
    BY DEF Ended
  <2>2. QED
    BY <1>1, <1>3, <2>1, IncludeType, StopsType DEF ReferenceOption, SecondReferenceAborts
<1>4. ASSUME NEW f \in Files, InputFile(f)
      PROVE  TypeInv'
  <2>1. phase' \in {"options", "input"} \cup Ended
    BY <1>4 DEF InputFile, Response, Ended
  <2>2. QED
    BY <1>4, <2>1, IncludeType DEF InputFile
<1>5. CASE InputStream
  <2>1. [file |-> Stdin, reference |-> FALSE] \in Input
    BY DEF Input
  <2>2. TypeOK'
    BY <1>5, <2>1 DEF InputStream, TypeInv, TypeOK, stateVars, referenceVars
  <2>3. QED
    BY <1>5, <2>2, SameSizes DEF InputStream, TypeInv
<1>6. QED
  BY <1>2, <1>3, <1>4, <1>5 DEF Main

(* Types and the order of the sizes are inductive.                         *)
LEMMA TypeInvNext == TypeInv /\ [Next]_vars => TypeInv'
<1>1. SUFFICES ASSUME TypeInv, [Next]_vars PROVE TypeInv'
  OBVIOUS
<1>2. ASSUME NEW n \in Names, NEW F \in Formulas, Assume(n, F) \/ AssumePush(n, F)
      PROVE  TypeInv'
  BY <1>1, <1>2, AssumeType, AssumePushType
<1>3. ASSUME NEW n \in Names, NEW premises \in SUBSET Names, NEW sorry \in BOOLEAN,
             Step(n, premises, sorry) \/ StepPop(n, premises, sorry)
      PROVE  TypeInv'
  BY <1>1, <1>3, StepType, StepPopType
<1>4. CASE StepPopAborts
  <2>1. "aborted" \in Ended
    BY DEF Ended
  <2>2. QED
    BY <1>1, <1>4, <2>1, StopsType DEF StepPopAborts
<1>5. CASE ParseError
  <2>1. "error" \in Ended
    BY DEF Ended
  <2>2. QED
    BY <1>1, <1>5, <2>1, StopsType DEF ParseError
<1>6. CASE UNCHANGED vars
  BY <1>1, <1>6 DEF vars, stateVars, fileVars, referenceVars, TypeInv, TypeOK, SizesOrdered, AssumptionLevel
<1>7. QED
  BY <1>1, <1>2, <1>3, <1>4, <1>5, <1>6, ScopeType, FileType, MainType DEF Next, Command

(* Type correctness of the proof checker, whatever the input.  It includes *)
(* that there is always a global environment, which no pop closes.         *)
THEOREM CheckerTypeCorrect == Spec => []TypeOK
<1>1. TypeInv => TypeOK
  BY DEF TypeInv
<1>2. QED
  BY <1>1, TypeInvInit, TypeInvNext, PTL DEF Spec

-----------------------------------------------------------------------------
(* Scopes *)

(* What is known of the scopes when they nest.  The environment that an    *)
(* assume-push opened carries the proofs that rest on its assumption, and  *)
(* step-pop, by Nests, closes that environment and no other.               *)
ScopeInv == TypeInv /\ opened \in Seq(Nat) /\ ScopesAligned /\ ProofsCovered

(* What the other lemmas need of the scopes.                               *)
LEMMA ScopeFacts ==
    ASSUME ScopeInv
    PROVE  /\ envs \in Seq(Scopes!Env) /\ envs # <<>> /\ Len(envs) \in Nat \ {0}
           /\ Len(envs) \in 1 .. Len(envs) /\ envs[Len(envs)] \in Scopes!Env
           /\ assumptions \in Seq(Formulas) /\ Len(assumptions) \in Nat
           /\ assumptionsSizeCtx \in Seq(Nat) /\ AssumptionLevel \in Nat
           /\ opened \in Seq(Nat) /\ Len(opened) = AssumptionLevel
           /\ \A i \in 1 .. AssumptionLevel : /\ opened[i] \in Nat
                                             /\ assumptionsSizeCtx[i] \in Nat
                                             /\ opened[i] <= Len(envs)
<1>1. /\ envs \in Seq(Scopes!Env) /\ envs # <<>>
      /\ assumptions \in Seq(Formulas) /\ assumptionsSizeCtx \in Seq(Nat)
      /\ opened \in Seq(Nat) /\ Len(opened) = AssumptionLevel
  BY DEF ScopeInv, TypeInv, TypeOK, ScopesAligned
<1>2. /\ Len(envs) \in Nat \ {0} /\ Len(envs) \in 1 .. Len(envs)
      /\ envs[Len(envs)] \in Scopes!Env
  BY <1>1
<1>3. Len(assumptions) \in Nat /\ AssumptionLevel \in Nat
  BY <1>1 DEF AssumptionLevel
<1>4. \A i \in 1 .. AssumptionLevel : opened[i] \in Nat /\ assumptionsSizeCtx[i] \in Nat
  <2>1. \A s \in Seq(Nat) : \A i \in 1 .. Len(s) : s[i] \in Nat
    OBVIOUS
  <2>2. AssumptionLevel = Len(assumptionsSizeCtx) /\ AssumptionLevel = Len(opened)
    BY <1>1 DEF AssumptionLevel
  <2>3. QED
    BY <1>1, <2>1, <2>2, Zenon
<1>5. \A i \in 1 .. AssumptionLevel : opened[i] <= Len(envs)
  BY <1>2, <1>4 DEF ScopeInv, ScopesAligned
<1>6. QED
  BY <1>1, <1>2, <1>3, <1>4, <1>5

(* What History says of the assumption scopes.                             *)
LEMMA OpenedNext ==
    ASSUME TypeInv, TypeInv', History
    PROVE  /\ AssumptionLevel' = AssumptionLevel => opened' = opened
           /\ AssumptionLevel' > AssumptionLevel => opened' = Append(opened, Len(envs'))
           /\ AssumptionLevel' < AssumptionLevel => opened' = SubSeq(opened, 1, AssumptionLevel')
<1>1. AssumptionLevel \in Nat /\ AssumptionLevel' \in Nat /\ AssumptionLevel' = Len(assumptionsSizeCtx')
  BY DEF TypeInv, TypeOK, AssumptionLevel
<1>2. QED
  BY <1>1 DEF History

(* In the current environment every assumption is in force.                *)
LEMMA CurrentInForce ==
    ASSUME ScopeInv
    PROVE  InForce(Len(envs)) = RangeOf(assumptions)
<1>1. \A i \in 1 .. AssumptionLevel : ~(opened[i] > Len(envs))
  BY ScopeFacts
<1>2. {j \in 1 .. Len(assumptions) :
         \A i \in 1 .. AssumptionLevel : opened[i] > Len(envs) => j <= assumptionsSizeCtx[i]}
        = 1 .. Len(assumptions)
  BY <1>1
<1>3. QED
  BY <1>2 DEF InForce, RangeOf

(* Assuming more takes nothing out of force.                               *)
LEMMA InForceGrows ==
    ASSUME ScopeInv, UNCHANGED <<assumptionsSizeCtx, opened>>,
           Len(assumptions') \in Nat, Len(assumptions') >= Len(assumptions),
           \A j \in 1 .. Len(assumptions) : assumptions'[j] = assumptions[j],
           NEW k \in Nat
    PROVE  InForce(k) \subseteq InForce(k)'
<1>1. ASSUME NEW j \in 1 .. Len(assumptions),
             \A i \in 1 .. AssumptionLevel : opened[i] > k => j <= assumptionsSizeCtx[i]
      PROVE  assumptions[j] \in InForce(k)'
  <2>1. j \in 1 .. Len(assumptions') /\ AssumptionLevel' = AssumptionLevel
    BY ScopeFacts DEF AssumptionLevel
  <2>2. \A i \in 1 .. AssumptionLevel' : opened'[i] > k => j <= assumptionsSizeCtx'[i]
    BY <1>1, <2>1
  <2>3. assumptions[j] = assumptions'[j]
    OBVIOUS
  <2>4. QED
    BY <2>1, <2>2, <2>3 DEF InForce
<1>2. QED
  BY <1>1 DEF InForce

(* A command that leaves the scopes, the assumptions and the proofs.       *)
LEMMA SameScopes ==
    ASSUME ScopeInv, TypeInv', UNCHANGED stateVars, opened' = opened
    PROVE  ScopeInv'
<1>1. UNCHANGED <<envs, assumptions, assumptionsSizeCtx, incomplete>>
  BY DEF stateVars
<1>2. \A k : InForce(k)' = InForce(k)
  BY <1>1 DEF InForce, AssumptionLevel
<1>3. ProofsCovered'
  BY <1>1, <1>2 DEF ScopeInv, ProofsCovered, RestsOn, Admitted
<1>4. ScopesAligned'
  BY <1>1 DEF ScopeInv, ScopesAligned, AssumptionLevel
<1>5. QED
  BY <1>3, <1>4 DEF ScopeInv

(* Binding a proof that rests on what is to be in force at the top of a    *)
(* stack of covered environments.                                          *)
LEMMA CoveredByBinding ==
    ASSUME NEW es \in Seq(Scopes!Env), es # <<>>, NEW n \in Names, NEW b \in Proofs,
           envs' = Scopes!Bound(es, n, b),
           \A k \in 1 .. Len(es) : RestsOn(es[k], InForce(k)' \cup Admitted'),
           b \subseteq InForce(Len(es))' \cup Admitted'
    PROVE  ProofsCovered'
<1>1. Len(envs') = Len(es) /\ \A k \in 1 .. Len(es) - 1 : envs'[k] = es[k]
  BY BoundFacts
<1>2. \A k \in 1 .. Len(es) : k = Len(es) \/ k \in 1 .. Len(es) - 1
  OBVIOUS
<1>3. RestsOn(envs'[Len(es)], InForce(Len(es))' \cup Admitted')
  <2>1. PICK S : S = InForce(Len(es))' \cup Admitted'
    OBVIOUS
  <2>2. Len(es) \in 1 .. Len(es)
    OBVIOUS
  <2>3. RestsOn(es[Len(es)], S) /\ b \subseteq S
    BY <2>1, <2>2
  <2>4. RestsOn(Scopes!Bound(es, n, b)[Len(es)], S)
    BY <2>3, BoundRestsOn
  <2>5. QED
    BY <2>1, <2>4
<1>4. \A k \in 1 .. Len(es) : RestsOn(envs'[k], InForce(k)' \cup Admitted')
  BY <1>1, <1>2, <1>3
<1>5. QED
  BY <1>1, <1>4 DEF ProofsCovered, RestsOn

(* A proof that rests on what is in force is bound in the current scope.   *)
LEMMA BoundCovered ==
    ASSUME ScopeInv, TypeInv', NEW n \in Names, NEW b \in Proofs,
           envs' = Scopes!Bound(envs, n, b), UNCHANGED <<assumptionsSizeCtx, opened>>,
           Len(assumptions') \in Nat, Len(assumptions') >= Len(assumptions),
           \A j \in 1 .. Len(assumptions) : assumptions'[j] = assumptions[j],
           Admitted \subseteq Admitted', b \subseteq InForce(Len(envs))' \cup Admitted'
    PROVE  ScopeInv'
<1>1. PICK L \in Nat \ {0} : L = Len(envs) /\ L \in 1 .. Len(envs)
  BY ScopeFacts
<1>2. PICK es \in Seq(Scopes!Env) : es = envs /\ es # <<>>
  BY ScopeFacts
<1>3. Len(envs') = L
  <2>1. Len(Scopes!Bound(es, n, b)) = Len(es)
    BY <1>2, BoundFacts
  <2>2. QED
    BY <1>1, <1>2, <2>1
<1>4. AssumptionLevel' = AssumptionLevel
  BY DEF AssumptionLevel
<1>5. ScopesAligned'
  <2>1. /\ Len(opened) = AssumptionLevel
        /\ \A i, j \in 1 .. AssumptionLevel :
              i < j => opened[i] < opened[j] /\ assumptionsSizeCtx[i] < assumptionsSizeCtx[j]
        /\ \A i \in 1 .. AssumptionLevel : opened[i] \in 2 .. L
    BY <1>1 DEF ScopeInv, ScopesAligned
  <2>2. \A i \in 1 .. AssumptionLevel : assumptionsSizeCtx'[i] < Len(assumptions')
    BY <1>4 DEF TypeInv, SizesOrdered
  <2>3. QED
    BY <1>3, <1>4, <2>1, <2>2 DEF ScopesAligned
<1>6. \A k \in 1 .. L : k \in Nat /\ InForce(k) \subseteq InForce(k)'
  BY InForceGrows
<1>7. \A k \in 1 .. Len(es) : RestsOn(es[k], InForce(k)' \cup Admitted')
  <2>1. ASSUME NEW k \in 1 .. L
        PROVE  RestsOn(envs[k], InForce(k)' \cup Admitted')
    <3>1. RestsOn(envs[k], InForce(k) \cup Admitted)
      BY <1>1 DEF ScopeInv, ProofsCovered
    <3>2. InForce(k) \cup Admitted \subseteq InForce(k)' \cup Admitted'
      BY <1>6
    <3>3. QED
      BY <3>1, <3>2, RestsOnMore
  <2>2. QED
    BY <1>1, <1>2, <2>1
<1>8. b \subseteq InForce(Len(es))' \cup Admitted'
  <2>1. InForce(Len(es))' = InForce(Len(envs))'
    BY <1>1, <1>2, <1>3 DEF InForce, AssumptionLevel
  <2>2. QED
    BY <2>1
<1>9. ProofsCovered'
  BY <1>2, <1>7, <1>8, CoveredByBinding
<1>10. opened' \in Seq(Nat)
  BY ScopeFacts
<1>11. QED
  BY <1>5, <1>9, <1>10 DEF ScopeInv

(* An assumption is in force in the scope it is made in.                   *)
LEMMA AssumeCovered ==
    ASSUME ScopeInv, TypeInv', History, NEW n \in Names, NEW F \in Formulas, Assume(n, F)
    PROVE  ScopeInv'
<1>1. /\ assumptions' = Append(assumptions, F) /\ UNCHANGED <<assumptionsSizeCtx, incomplete>>
      /\ envs' = Scopes!Bound(envs, n, {F})
  BY DEF Assume
<1>2. UNCHANGED opened
  <2>1. AssumptionLevel' = AssumptionLevel
    BY <1>1 DEF AssumptionLevel
  <2>2. QED
    BY <2>1, OpenedNext DEF ScopeInv
<1>3. /\ Len(assumptions') = Len(assumptions) + 1 /\ assumptions'[Len(assumptions) + 1] = F
      /\ Len(assumptions) \in Nat
      /\ \A j \in 1 .. Len(assumptions) : assumptions'[j] = assumptions[j]
  BY <1>1, ScopeFacts, ExtendedFacts
<1>4. {F} \in Proofs
  BY DEF Proofs
<1>5. Len(envs') = Len(envs)
  BY <1>1, <1>4, ScopeFacts, BoundFacts
<1>6. F \in InForce(Len(envs))'
  <2>1. AssumptionLevel' = AssumptionLevel /\ Len(assumptions) + 1 \in 1 .. Len(assumptions')
    BY <1>1, <1>3 DEF AssumptionLevel
  <2>2. \A i \in 1 .. AssumptionLevel' : ~(opened'[i] > Len(envs'))
    BY <1>2, <1>5, <2>1, ScopeFacts
  <2>3. QED
    BY <1>3, <2>1, <2>2 DEF InForce
<1>7. Admitted' = Admitted
  BY <1>1 DEF Admitted
<1>8. {F} \subseteq InForce(Len(envs))' \cup Admitted'
  BY <1>6
<1>9. Len(assumptions') \in Nat /\ Len(assumptions') >= Len(assumptions)
  BY <1>3
<1>10. QED
  BY <1>1, <1>2, <1>3, <1>4, <1>7, <1>8, <1>9, BoundCovered

(* An assume-push puts its assumption in force in the scope it opens and   *)
(* nowhere below.                                                          *)
LEMMA AssumePushCovered ==
    ASSUME ScopeInv, TypeInv', History, NEW n \in Names, NEW F \in Formulas, AssumePush(n, F)
    PROVE  ScopeInv'
<1>1. PICK A \in Nat : A = AssumptionLevel
  BY ScopeFacts
<1>2. PICK L \in Nat \ {0} : L = Len(envs) /\ L \in 1 .. Len(envs)
  BY ScopeFacts
<1>3. PICK m \in Nat : m = Len(assumptions)
  BY ScopeFacts
<1>4. /\ envs' = Scopes!Bound(Scopes!Pushed(envs), n, {F})
      /\ assumptionsSizeCtx' = Append(assumptionsSizeCtx, Len(assumptions))
      /\ assumptions' = Append(assumptions, F)
      /\ Admitted' = Admitted
  BY DEF AssumePush, Admitted
<1>5. /\ AssumptionLevel' = A + 1 /\ Len(assumptions') = m + 1
      /\ assumptionsSizeCtx'[A + 1] = m
      /\ \A i \in 1 .. A : assumptionsSizeCtx'[i] = assumptionsSizeCtx[i]
      /\ assumptions'[m + 1] = F
      /\ \A j \in 1 .. m : assumptions'[j] = assumptions[j]
  BY <1>1, <1>3, <1>4, PushedSizes DEF ScopeInv
<1>6. PICK es \in Seq(Scopes!Env) :
         /\ es = Scopes!Pushed(envs) /\ Len(es) = L + 1 /\ es # <<>>
         /\ es[L + 1] = envs[L] /\ \A k \in 1 .. L : es[k] = envs[k]
  <2>1. /\ Scopes!Pushed(envs) \in Seq(Scopes!Env)
        /\ Len(Scopes!Pushed(envs)) = L + 1 /\ Scopes!Pushed(envs)[L + 1] = envs[L]
        /\ \A k \in 1 .. L : Scopes!Pushed(envs)[k] = envs[k]
    BY <1>2, ScopeFacts, PushedFacts
  <2>2. Scopes!Pushed(envs) # <<>>
    BY <1>2, <2>1
  <2>3. QED
    BY <2>1, <2>2
<1>7. {F} \in Proofs
  BY DEF Proofs
<1>8. Len(envs') = L + 1
  BY <1>4, <1>6, <1>7, BoundFacts
<1>9. opened' = Append(opened, L + 1) /\ opened \in Seq(Nat) /\ Len(opened) = A
  <2>1. AssumptionLevel' > AssumptionLevel
    BY <1>1, <1>5
  <2>2. QED
    BY <1>1, <1>8, <2>1, ScopeFacts, OpenedNext DEF ScopeInv
<1>10. /\ opened' \in Seq(Nat) /\ Len(opened') = A + 1 /\ opened'[A + 1] = L + 1
       /\ \A i \in 1 .. A : opened'[i] = opened[i]
  BY <1>9, ExtendedFacts
<1>11. \A i \in 1 .. A + 1 : i \in 1 .. A \/ i = A + 1
  OBVIOUS
<1>12. /\ \A i \in 1 .. A : opened[i] \in 2 .. L
       /\ \A i, j \in 1 .. A : i < j => opened[i] < opened[j]
  BY <1>1, <1>2 DEF ScopeInv, ScopesAligned
<1>13. ScopesAligned'
  <2>1. \A i \in 1 .. A + 1 : opened'[i] \in 2 .. L + 1
    <3>1. L + 1 \in 2 .. L + 1 /\ \A x \in 2 .. L : x \in 2 .. L + 1
      OBVIOUS
    <3>2. \A i \in 1 .. A : opened'[i] \in 2 .. L + 1
      BY <1>10, <1>12, <3>1
    <3>3. opened'[A + 1] \in 2 .. L + 1
      BY <1>10, <3>1
    <3>4. QED
      BY <1>11, <3>2, <3>3
  <2>2. ASSUME NEW i \in 1 .. A + 1, NEW j \in 1 .. A + 1, i < j
        PROVE  opened'[i] < opened'[j]
    <3>1. i \in 1 .. A
      BY <2>2
    <3>2. CASE j = A + 1
      <4>1. \A x \in 2 .. L : x < L + 1
        OBVIOUS
      <4>2. opened'[i] \in 2 .. L
        BY <1>10, <1>12, <3>1
      <4>3. opened'[j] = L + 1
        BY <1>10, <3>2
      <4>4. QED
        BY <4>1, <4>2, <4>3
    <3>3. CASE j \in 1 .. A
      BY <1>10, <1>12, <2>2, <3>1, <3>3
    <3>4. QED
      BY <1>11, <3>2, <3>3
  <2>3. SizesOrdered'
    BY DEF TypeInv
  <2>4. QED
    BY <1>5, <1>8, <1>10, <2>1, <2>2, <2>3 DEF ScopesAligned, SizesOrdered
<1>14. ASSUME NEW k \in 1 .. L
       PROVE  InForce(k) \subseteq InForce(k)'
  <2>1. ASSUME NEW j \in 1 .. m,
               \A i \in 1 .. A : opened[i] > k => j <= assumptionsSizeCtx[i]
        PROVE  assumptions[j] \in InForce(k)'
    <3>1. j \in 1 .. m + 1 /\ j <= m
      OBVIOUS
    <3>2. \A i \in 1 .. A + 1 : opened'[i] > k => j <= assumptionsSizeCtx'[i]
      BY <1>5, <1>10, <1>11, <2>1, <3>1
    <3>3. assumptions[j] = assumptions'[j]
      BY <1>5
    <3>4. QED
      BY <1>5, <3>1, <3>2, <3>3 DEF InForce
  <2>2. QED
    BY <1>1, <1>3, <2>1 DEF InForce
<1>15. \A j \in 1 .. m + 1 : assumptions'[j] \in InForce(L + 1)'
  <2>1. \A i \in 1 .. A + 1 : ~(opened'[i] > L + 1)
    BY <1>10, <1>11, <1>12
  <2>2. QED
    BY <1>5, <2>1 DEF InForce
<1>16. InForce(L) \subseteq InForce(L + 1)' /\ F \in InForce(L + 1)'
  <2>1. \A j \in 1 .. m : j \in 1 .. m + 1
    OBVIOUS
  <2>2. \A j \in 1 .. m : assumptions[j] \in InForce(L + 1)'
    BY <1>5, <1>15, <2>1
  <2>3. m + 1 \in 1 .. m + 1
    OBVIOUS
  <2>4. F \in InForce(L + 1)'
    BY <1>5, <1>15, <2>3
  <2>5. QED
    BY <1>3, <2>2, <2>4 DEF InForce
<1>17. \A k \in 1 .. L : RestsOn(envs[k], InForce(k) \cup Admitted)
  BY <1>2 DEF ScopeInv, ProofsCovered
<1>18. ASSUME NEW k \in 1 .. L + 1
       PROVE  RestsOn(es[k], InForce(k)' \cup Admitted')
  <2>1. CASE k \in 1 .. L
    <3>1. RestsOn(es[k], InForce(k) \cup Admitted)
      BY <1>6, <1>17, <2>1
    <3>2. InForce(k) \cup Admitted \subseteq InForce(k)' \cup Admitted'
      BY <1>4, <1>14, <2>1
    <3>3. QED
      BY <3>1, <3>2, RestsOnMore
  <2>2. CASE k = L + 1
    <3>1. RestsOn(es[k], InForce(L) \cup Admitted)
      BY <1>2, <1>6, <1>17, <2>2
    <3>2. InForce(L) \cup Admitted \subseteq InForce(k)' \cup Admitted'
      BY <1>4, <1>16, <2>2
    <3>3. QED
      BY <3>1, <3>2, RestsOnMore
  <2>3. k \in 1 .. L \/ k = L + 1
    OBVIOUS
  <2>4. QED
    BY <2>1, <2>2, <2>3
<1>19. ProofsCovered'
  <2>1. {F} \subseteq InForce(Len(es))' \cup Admitted'
    <3>1. InForce(Len(es))' = InForce(L + 1)'
      <4>1. Len(es) = L + 1
        BY <1>6
      <4>2. QED
        BY <4>1
    <3>2. QED
      BY <1>16, <3>1
  <2>2. \A k \in 1 .. Len(es) : RestsOn(es[k], InForce(k)' \cup Admitted')
    BY <1>6, <1>18
  <2>3. envs' = Scopes!Bound(es, n, {F})
    BY <1>4, <1>6
  <2>4. QED
    BY <1>6, <1>7, <2>1, <2>2, <2>3, CoveredByBinding
<1>20. QED
  BY <1>10, <1>13, <1>19 DEF ScopeInv

(* A step proves nothing from more than its premises rest on.              *)
LEMMA StepCovered ==
    ASSUME ScopeInv, TypeInv', History, NEW n \in Names, NEW premises \in SUBSET Names,
           NEW sorry \in BOOLEAN, Step(n, premises, sorry)
    PROVE  ScopeInv'
<1>1. /\ UNCHANGED <<assumptions, assumptionsSizeCtx>> /\ \A p \in premises : Visible(p)
      /\ incomplete' = (incomplete \/ sorry)
      /\ envs' = Scopes!Bound(envs, n, Concluded(premises, sorry))
  BY DEF Step
<1>2. UNCHANGED opened
  <2>1. AssumptionLevel' = AssumptionLevel
    BY <1>1 DEF AssumptionLevel
  <2>2. QED
    BY <2>1, OpenedNext DEF ScopeInv
<1>3. PICK S : S = InForce(Len(envs)) \cup Admitted
  OBVIOUS
<1>4. RestsOn(envs[Len(envs)], S) /\ envs \in Seq(Scopes!Env) /\ envs # <<>>
  BY <1>3, ScopeFacts DEF ScopeInv, ProofsCovered
<1>5. Basis(premises) \subseteq S /\ Concluded(premises, sorry) \in Proofs
  BY <1>1, <1>4, ConcludedRestsOn
<1>6. Len(envs') = Len(envs)
  BY <1>1, <1>4, <1>5, BoundFacts
<1>7. InForce(Len(envs))' = InForce(Len(envs))
  BY <1>1, <1>2, <1>6 DEF InForce, AssumptionLevel
<1>8. Admitted \subseteq Admitted' /\ Concluded(premises, sorry) \subseteq S \cup Admitted'
  BY <1>1, <1>5 DEF Admitted, Concluded
<1>9. Concluded(premises, sorry) \subseteq InForce(Len(envs))' \cup Admitted'
  BY <1>3, <1>7, <1>8
<1>10. Len(assumptions') \in Nat /\ Len(assumptions') >= Len(assumptions)
       /\ \A j \in 1 .. Len(assumptions) : assumptions'[j] = assumptions[j]
  BY <1>1, ScopeFacts
<1>11. QED
  BY <1>1, <1>2, <1>5, <1>8, <1>9, <1>10, BoundCovered

(* A push copies an environment, and what is in force there.               *)
LEMMA PushCovered ==
    ASSUME ScopeInv, TypeInv', History, Push
    PROVE  ScopeInv'
<1>1. /\ UNCHANGED <<assumptions, assumptionsSizeCtx, incomplete>>
      /\ envs' = Scopes!Pushed(envs)
  BY DEF Push
<1>2. UNCHANGED opened /\ AssumptionLevel' = AssumptionLevel
  <2>1. AssumptionLevel' = AssumptionLevel
    BY <1>1 DEF AssumptionLevel
  <2>2. QED
    BY <2>1, OpenedNext DEF ScopeInv
<1>3. PICK L \in Nat \ {0} : L = Len(envs) /\ L \in 1 .. Len(envs)
  BY ScopeFacts
<1>4. /\ Len(envs') = L + 1 /\ envs'[L + 1] = envs[L]
      /\ \A k \in 1 .. L : envs'[k] = envs[k]
  BY <1>1, <1>3, ScopeFacts, PushedFacts
<1>5. \A k \in Nat : InForce(k)' = InForce(k)
  BY <1>1, <1>2 DEF InForce
<1>6. InForce(L + 1) = InForce(L)
  <2>1. \A i \in 1 .. AssumptionLevel : ~(opened[i] > L) /\ ~(opened[i] > L + 1)
    BY <1>3, ScopeFacts
  <2>2. QED
    BY <2>1 DEF InForce
<1>7. Admitted' = Admitted
  BY <1>1 DEF Admitted
<1>8. ProofsCovered'
  <2>1. \A k \in 1 .. L + 1 : k \in Nat /\ (k = L + 1 \/ k \in 1 .. L)
    OBVIOUS
  <2>2. \A k \in 1 .. L : RestsOn(envs'[k], InForce(k)' \cup Admitted')
    <3>1. ASSUME NEW k \in 1 .. L
          PROVE  RestsOn(envs'[k], InForce(k)' \cup Admitted')
      <4>1. k \in 1 .. Len(envs) /\ k \in Nat
        BY <1>3
      <4>2. RestsOn(envs[k], InForce(k) \cup Admitted)
        BY <4>1 DEF ScopeInv, ProofsCovered
      <4>3. envs'[k] = envs[k] /\ InForce(k)' = InForce(k)
        BY <1>4, <1>5, <4>1
      <4>4. QED
        BY <1>7, <4>2, <4>3
    <3>2. QED
      BY <3>1
  <2>3. RestsOn(envs'[L + 1], InForce(L + 1)' \cup Admitted')
    <3>1. RestsOn(envs[L], InForce(L) \cup Admitted)
      BY <1>3 DEF ScopeInv, ProofsCovered
    <3>2. InForce(L + 1)' = InForce(L)
      BY <1>5, <1>6
    <3>3. QED
      BY <1>4, <1>7, <3>1, <3>2
  <2>4. \A k \in 1 .. L + 1 : RestsOn(envs'[k], InForce(k)' \cup Admitted')
    BY <2>1, <2>2, <2>3
  <2>5. QED
    BY <1>4, <2>4 DEF ProofsCovered, RestsOn
<1>9. ScopesAligned'
  <2>1. \A i \in 1 .. AssumptionLevel : opened[i] \in 2 .. L + 1
    BY <1>3 DEF ScopeInv, ScopesAligned
  <2>2. QED
    BY <1>1, <1>2, <1>4, <2>1 DEF ScopeInv, ScopesAligned
<1>10. QED
  BY <1>2, <1>8, <1>9 DEF ScopeInv

(* A pop closes no assumption scope, so what is in force stays.            *)
LEMMA PopCovered ==
    ASSUME ScopeInv, TypeInv', History, Nests, Pop
    PROVE  ScopeInv'
<1>1. /\ UNCHANGED <<assumptions, assumptionsSizeCtx, incomplete>>
      /\ Len(envs) > 1 /\ envs' = Scopes!Popped(envs)
  BY DEF Pop
<1>2. UNCHANGED opened /\ AssumptionLevel' = AssumptionLevel
  <2>1. AssumptionLevel' = AssumptionLevel
    BY <1>1 DEF AssumptionLevel
  <2>2. QED
    BY <2>1, OpenedNext DEF ScopeInv
<1>3. PICK L \in Nat \ {0} : L = Len(envs) /\ L \in 1 .. Len(envs)
  BY ScopeFacts
<1>4. Len(envs') = L - 1 /\ \A k \in 1 .. L - 1 : envs'[k] = envs[k] /\ k \in 1 .. L
  BY <1>1, <1>3, ScopeFacts, PoppedFacts
<1>5. \A k \in Nat : InForce(k)' = InForce(k)
  BY <1>1, <1>2 DEF InForce
<1>6. Admitted' = Admitted
  BY <1>1 DEF Admitted
<1>7. ProofsCovered'
  <2>1. ASSUME NEW k \in 1 .. L - 1
        PROVE  RestsOn(envs'[k], InForce(k)' \cup Admitted')
    <3>1. k \in 1 .. Len(envs) /\ k \in Nat
      BY <1>3
    <3>2. RestsOn(envs[k], InForce(k) \cup Admitted)
      BY <3>1 DEF ScopeInv, ProofsCovered
    <3>3. envs'[k] = envs[k] /\ InForce(k)' = InForce(k)
      BY <1>4, <1>5, <3>1
    <3>4. QED
      BY <1>6, <3>2, <3>3
  <2>2. QED
    BY <1>4, <2>1 DEF ProofsCovered, RestsOn
<1>8. \A i \in 1 .. AssumptionLevel : opened[i] \in 2 .. L - 1
  <2>1. AssumptionLevel \in Nat /\ \A i \in 1 .. AssumptionLevel : opened[i] \in Nat
    BY ScopeFacts
  <2>2. AssumptionLevel > 0 => opened[AssumptionLevel] # L
    BY <1>3 DEF Nests, AtAssumptionScope
  <2>3. /\ \A i \in 1 .. AssumptionLevel : opened[i] \in 2 .. L
        /\ \A i, j \in 1 .. AssumptionLevel : i < j => opened[i] < opened[j]
    BY <1>3 DEF ScopeInv, ScopesAligned
  <2>4. \A i \in 1 .. AssumptionLevel : opened[i] # L
    <3>1. \A i \in 1 .. AssumptionLevel :
             /\ AssumptionLevel > 0 /\ AssumptionLevel \in 1 .. AssumptionLevel
             /\ i = AssumptionLevel \/ i < AssumptionLevel
      BY <2>1
    <3>2. QED
      BY <1>3, <2>1, <2>2, <2>3, <3>1
  <2>5. QED
    BY <2>3, <2>4
<1>9. ScopesAligned'
  BY <1>1, <1>2, <1>4, <1>8 DEF ScopeInv, ScopesAligned
<1>10. QED
  BY <1>2, <1>7, <1>9 DEF ScopeInv

(* After a reset there are no proofs to cover.                             *)
LEMMA ResetCovered ==
    ASSUME ScopeInv, TypeInv', History, Reset
    PROVE  ScopeInv'
<1>1. envs' = <<Scopes!NoBindings>> /\ assumptions' = <<>> /\ assumptionsSizeCtx' = <<>>
  BY DEF Reset
<1>2. Len(<<>>) = 0 /\ AssumptionLevel' = 0
  BY <1>1 DEF AssumptionLevel
<1>3. opened' \in Seq(Nat) /\ Len(opened') = 0
  <2>1. AssumptionLevel \in Nat /\ opened \in Seq(Nat) /\ Len(opened) = AssumptionLevel
    BY ScopeFacts
  <2>2. CASE AssumptionLevel = 0
    BY <1>2, <2>1, <2>2, OpenedNext DEF ScopeInv
  <2>3. CASE AssumptionLevel > 0
    <3>1. opened' = SubSeq(opened, 1, 0)
      BY <1>2, <2>3, OpenedNext DEF ScopeInv
    <3>2. 0 \in Nat /\ 0 <= Len(opened)
      BY <2>1
    <3>3. QED
      BY <2>1, <3>1, <3>2, PrefixFacts
  <2>4. QED
    BY <2>1, <2>2, <2>3
<1>4. ScopesAligned'
  BY <1>2, <1>3 DEF ScopesAligned
<1>5. ProofsCovered'
  <2>1. \A S : RestsOn(Scopes!NoBindings, S)
    BY <1>2 DEF RestsOn, Scopes!NoBindings
  <2>2. PICK e : e = Scopes!NoBindings /\ envs' = <<e>>
    BY <1>1
  <2>3. \A S : RestsOn(e, S)
    BY <2>1, <2>2
  <2>4. Len(<<e>>) = 1 /\ <<e>>[1] = e /\ \A k \in 1 .. 1 : k = 1
    OBVIOUS
  <2>5. \A k \in 1 .. Len(envs') : envs'[k] = e
    BY <2>2, <2>4
  <2>6. QED
    BY <2>3, <2>5, Zenon DEF ProofsCovered, RestsOn
<1>6. QED
  BY <1>3, <1>4, <1>5 DEF ScopeInv

(* What a step-pop binds rests on what is left: the assumption of the      *)
(* scope is the only one the proof loses and the only one it may.          *)
LEMMA StepPopCovered ==
    ASSUME ScopeInv, TypeInv', History, AtAssumptionScope, Len(CurrentAssumptions) = 1,
           NEW n \in Names, NEW premises \in SUBSET Names, NEW sorry \in BOOLEAN,
           StepPop(n, premises, sorry)
    PROVE  ScopeInv'
<1>1. PICK A \in Nat : A = AssumptionLevel
  BY ScopeFacts
<1>2. PICK L \in Nat \ {0} : L = Len(envs) /\ L \in 1 .. Len(envs)
  BY ScopeFacts
<1>3. PICK m \in Nat : m = Len(assumptions)
  BY ScopeFacts
<1>4. PICK c : c = Concluded(premises, sorry) \ {CurrentAssumptions[1]}
  OBVIOUS
<1>5. /\ AssumptionLevel > 0 /\ Len(envs) > 1 /\ \A p \in premises : Visible(p)
      /\ envs' = Scopes!Bound(Scopes!Popped(envs), n, c)
      /\ assumptions' = SubSeq(assumptions, 1, ScopeStart)
      /\ assumptionsSizeCtx' = SubSeq(assumptionsSizeCtx, 1, AssumptionLevel - 1)
      /\ incomplete' = (incomplete \/ sorry)
  BY <1>4 DEF StepPop
<1>6. PICK q \in Nat : q = ScopeStart
  BY <1>5, PoppedSizes DEF ScopeInv
<1>7. /\ AssumptionLevel' = A - 1 /\ Len(assumptions') = q /\ q < m
      /\ \A i \in 1 .. A - 1 : assumptionsSizeCtx'[i] = assumptionsSizeCtx[i]
      /\ \A j \in 1 .. q : assumptions'[j] = assumptions[j]
  BY <1>1, <1>3, <1>5, <1>6, PoppedSizes DEF ScopeInv
<1>8. /\ A > 0 /\ A - 1 \in Nat /\ A \in 1 .. A
      /\ \A i \in 1 .. A - 1 : i \in 1 .. A /\ i < A
      /\ \A i \in 1 .. A : i = A \/ i \in 1 .. A - 1
  BY <1>1, <1>5
<1>9. opened[A] = L /\ assumptionsSizeCtx[A] = q
  BY <1>1, <1>2, <1>6 DEF AtAssumptionScope, ScopeStart
<1>10. m = q + 1 /\ CurrentAssumptions[1] = assumptions[m]
  <2>1. assumptions \in Seq(Formulas) /\ q + 1 \in 1 .. m
    BY <1>3, <1>6, <1>7, ScopeFacts
  <2>2. CurrentAssumptions = SubSeq(assumptions, q + 1, m)
    BY <1>3, <1>6 DEF CurrentAssumptions
  <2>3. Len(CurrentAssumptions) = m - q
    BY <1>3, <2>1, <2>2
  <2>4. m = q + 1
    <3>1. m - q = 1
      BY <2>3, Zenon
    <3>2. QED
      BY <3>1
  <2>5. CurrentAssumptions[1] = assumptions[q + 1]
    BY <1>3, <2>1, <2>2
  <2>6. QED
    BY <2>4, <2>5
<1>11. PICK es \in Seq(Scopes!Env) :
         /\ es = Scopes!Popped(envs) /\ Len(es) = L - 1 /\ es # <<>>
         /\ \A k \in 1 .. L - 1 : es[k] = envs[k]
  <2>1. /\ Scopes!Popped(envs) \in Seq(Scopes!Env)
        /\ Len(Scopes!Popped(envs)) = L - 1
        /\ \A k \in 1 .. L - 1 : Scopes!Popped(envs)[k] = envs[k]
    BY <1>2, <1>5, ScopeFacts, PoppedFacts
  <2>2. L - 1 # 0
    BY <1>2, <1>5
  <2>3. Scopes!Popped(envs) # <<>>
    BY <2>1, <2>2
  <2>4. QED
    BY <2>1, <2>3
<1>12. PICK S : S = InForce(L) \cup Admitted
  OBVIOUS
<1>13. Basis(premises) \subseteq S /\ Concluded(premises, sorry) \in Proofs
  <2>1. RestsOn(envs[Len(envs)], S)
    BY <1>2, <1>12 DEF ScopeInv, ProofsCovered
  <2>2. QED
    BY <1>5, <2>1, ScopeFacts, ConcludedRestsOn
<1>14. c \in Proofs
  BY <1>4, <1>13 DEF Proofs
<1>15. Len(envs') = L - 1
  BY <1>5, <1>11, <1>14, BoundFacts
<1>16. /\ opened \in Seq(Nat) /\ Len(opened) = A
       /\ \A i \in 1 .. A : opened[i] \in 2 .. L
       /\ \A i, j \in 1 .. A : i < j => opened[i] < opened[j]
  BY <1>1, <1>2, ScopeFacts DEF ScopeInv, ScopesAligned
<1>17. /\ opened' \in Seq(Nat) /\ Len(opened') = A - 1
       /\ \A i \in 1 .. A - 1 : opened'[i] = opened[i]
  <2>1. opened' = SubSeq(opened, 1, A - 1)
    <3>1. AssumptionLevel' < AssumptionLevel
      BY <1>1, <1>7
    <3>2. QED
      BY <1>7, <3>1, OpenedNext DEF ScopeInv
  <2>2. A - 1 <= Len(opened)
    BY <1>16
  <2>3. QED
    BY <1>8, <1>16, <2>1, <2>2, PrefixFacts
<1>18. \A i \in 1 .. A - 1 : opened'[i] \in 2 .. L - 1
  <2>1. \A x \in 2 .. L : x < L => x \in 2 .. L - 1
    OBVIOUS
  <2>2. \A i \in 1 .. A - 1 : opened[i] \in 2 .. L /\ opened[i] < L
    BY <1>8, <1>9, <1>16
  <2>3. QED
    BY <1>17, <2>1, <2>2
<1>19. ScopesAligned'
  <2>1. \A i, j \in 1 .. A - 1 : i < j => opened'[i] < opened'[j]
    BY <1>8, <1>16, <1>17
  <2>2. SizesOrdered'
    BY DEF TypeInv
  <2>3. QED
    BY <1>7, <1>15, <1>17, <1>18, <2>1, <2>2 DEF ScopesAligned, SizesOrdered
<1>20. ASSUME NEW k \in 1 .. L - 1
       PROVE  InForce(k) \subseteq InForce(k)'
  <2>1. ASSUME NEW j \in 1 .. m,
               \A i \in 1 .. A : opened[i] > k => j <= assumptionsSizeCtx[i]
        PROVE  assumptions[j] \in InForce(k)'
    <3>1. L > k
      OBVIOUS
    <3>2. j <= q
      BY <1>8, <1>9, <2>1, <3>1
    <3>3. j \in 1 .. q
      BY <3>2
    <3>4. \A i \in 1 .. A - 1 : opened'[i] > k => j <= assumptionsSizeCtx'[i]
      BY <1>7, <1>8, <1>17, <2>1
    <3>5. assumptions[j] = assumptions'[j]
      BY <1>7, <3>3
    <3>6. QED
      BY <1>7, <3>3, <3>4, <3>5 DEF InForce
  <2>2. QED
    BY <1>1, <1>3, <2>1 DEF InForce
<1>21. \A j \in 1 .. q : assumptions[j] \in InForce(L - 1)'
  <2>1. \A i \in 1 .. A - 1 : ~(opened'[i] > L - 1)
    BY <1>18
  <2>2. \A j \in 1 .. q : assumptions'[j] \in InForce(L - 1)'
    BY <1>7, <2>1 DEF InForce
  <2>3. QED
    BY <1>7, <2>2
<1>22. Admitted \subseteq Admitted' /\ Concluded(premises, sorry) \subseteq S \cup Admitted'
  BY <1>5, <1>13 DEF Admitted, Concluded
<1>23. c \subseteq InForce(L - 1)' \cup Admitted'
  <2>1. c \subseteq (InForce(L) \ {assumptions[m]}) \cup Admitted'
    BY <1>4, <1>10, <1>12, <1>22
  <2>2. \A j \in 1 .. m : j = m \/ j \in 1 .. q
    BY <1>10
  <2>3. InForce(L) \ {assumptions[m]} \subseteq InForce(L - 1)'
    BY <1>3, <1>21, <2>2 DEF InForce
  <2>4. QED
    BY <2>1, <2>3
<1>24. ASSUME NEW k \in 1 .. L - 1
       PROVE  RestsOn(es[k], InForce(k)' \cup Admitted')
  <2>1. k \in 1 .. L
    OBVIOUS
  <2>2. RestsOn(envs[k], InForce(k) \cup Admitted)
    BY <1>2, <2>1 DEF ScopeInv, ProofsCovered
  <2>3. es[k] = envs[k]
    BY <1>11
  <2>4. InForce(k) \cup Admitted \subseteq InForce(k)' \cup Admitted'
    BY <1>20, <1>22
  <2>5. QED
    BY <2>2, <2>3, <2>4, RestsOnMore
<1>25. ProofsCovered'
  <2>1. c \subseteq InForce(Len(es))' \cup Admitted'
    <3>1. InForce(Len(es))' = InForce(L - 1)'
      <4>1. Len(es) = L - 1
        BY <1>11
      <4>2. QED
        BY <4>1
    <3>2. QED
      BY <1>23, <3>1
  <2>2. \A k \in 1 .. Len(es) : RestsOn(es[k], InForce(k)' \cup Admitted')
    BY <1>11, <1>24
  <2>3. envs' = Scopes!Bound(es, n, c)
    BY <1>5, <1>11
  <2>4. QED
    BY <1>11, <1>14, <2>1, <2>2, <2>3, CoveredByBinding
<1>26. QED
  BY <1>17, <1>19, <1>25 DEF ScopeInv

(* Nothing else touches the scopes.                                        *)
LEMMA OtherCovered ==
    ASSUME ScopeInv, TypeInv', History, UNCHANGED stateVars
    PROVE  ScopeInv'
<1>1. AssumptionLevel' = AssumptionLevel
  BY DEF stateVars, AssumptionLevel
<1>2. opened' = opened
  BY <1>1, OpenedNext DEF ScopeInv
<1>3. QED
  BY <1>2, SameScopes

(* At first there are no proofs and no assumption scopes.                  *)
LEMMA ScopeInvInit == HistoryInit => ScopeInv
<1>1. SUFFICES ASSUME HistoryInit PROVE ScopeInv
  OBVIOUS
<1>2. Init /\ opened = <<>> /\ TypeInv
  BY <1>1, TypeInvInit DEF HistoryInit
<1>3. Len(<<>>) = 0 /\ <<>> \in Seq(Nat)
  OBVIOUS
<1>4. ScopesAligned
  BY <1>2, <1>3 DEF Init, ScopesAligned, AssumptionLevel
<1>5. PICK e : e = Scopes!NoBindings /\ envs = <<e>>
  BY <1>2 DEF Init
<1>6. \A S : RestsOn(e, S)
  BY <1>3, <1>5 DEF RestsOn, Scopes!NoBindings
<1>7. Len(<<e>>) = 1 /\ <<e>>[1] = e /\ \A k \in 1 .. 1 : k = 1
  OBVIOUS
<1>8. \A k \in 1 .. Len(envs) : envs[k] = e
  BY <1>5, <1>7
<1>9. ProofsCovered
  BY <1>6, <1>8, Zenon DEF ProofsCovered, RestsOn
<1>10. QED
  BY <1>2, <1>3, <1>4, <1>9 DEF ScopeInv

(* ScopeInv is inductive under the discipline of NestedSpec.               *)
LEMMA ScopeInvNext == ScopeInv /\ [NestedNext]_allVars => ScopeInv'
<1>1. SUFFICES ASSUME ScopeInv, [NestedNext]_allVars PROVE ScopeInv'
  OBVIOUS
<1>2. CASE UNCHANGED allVars
  <2>1. UNCHANGED stateVars /\ opened' = opened /\ [Next]_vars
    BY <1>2 DEF allVars, vars, historyVars
  <2>2. TypeInv'
    BY <1>1, <2>1, TypeInvNext DEF ScopeInv
  <2>3. QED
    BY <1>1, <2>1, <2>2, SameScopes
<1>3. CASE NestedNext
  <2>1. Next /\ Nests /\ History
    BY <1>3 DEF NestedNext
  <2>2. TypeInv'
    BY <1>1, <2>1, TypeInvNext DEF ScopeInv
  <2>3. ASSUME NEW n \in Names, NEW F \in Formulas, Assume(n, F) \/ AssumePush(n, F)
        PROVE  ScopeInv'
    BY <1>1, <2>1, <2>2, <2>3, AssumeCovered, AssumePushCovered
  <2>4. ASSUME NEW n \in Names, NEW premises \in SUBSET Names, NEW sorry \in BOOLEAN,
               StepPop(n, premises, sorry)
        PROVE  ScopeInv'
    <3>1. AssumptionLevel' < AssumptionLevel
      BY <1>1, <2>4, PoppedSizes, ScopeFacts DEF StepPop, ScopeInv
    <3>2. (AtAssumptionScope /\ Len(CurrentAssumptions) = 1) \/ Reset
      BY <2>1, <3>1 DEF Nests, AssumptionLevel
    <3>3. CASE Reset
      BY <1>1, <2>1, <2>2, <3>3, ResetCovered
    <3>4. CASE AtAssumptionScope /\ Len(CurrentAssumptions) = 1
      BY <1>1, <2>1, <2>2, <2>4, <3>4, StepPopCovered
    <3>5. QED
      BY <3>2, <3>3, <3>4
  <2>5. ASSUME NEW n \in Names, NEW premises \in SUBSET Names, NEW sorry \in BOOLEAN,
               Step(n, premises, sorry)
        PROVE  ScopeInv'
    BY <1>1, <2>1, <2>2, <2>5, StepCovered
  <2>6. CASE Push
    BY <1>1, <2>1, <2>2, <2>6, PushCovered
  <2>7. CASE Pop
    BY <1>1, <2>1, <2>2, <2>7, PopCovered
  <2>8. CASE Reset
    BY <1>1, <2>1, <2>2, <2>8, ResetCovered
  <2>9. CASE Main \/ EndOfInput
    <3>1. UNCHANGED stateVars
      BY <2>9 DEF Main, IncludeOption, ReferenceOption, SecondReferenceAborts, InputFile,
                  InputStream, EndOfInput, Stops
    <3>2. QED
      BY <1>1, <2>1, <2>2, <3>1, OtherCovered
  <2>10. CASE \/ StepPopAborts \/ Exit \/ ParseError
              \/ \E f \in Files : Include(f) \/ \E nf \in BOOLEAN : Reference(f, nf)
              \/ \E F \in Formulas : ReferenceAssert(F)
    <3>1. UNCHANGED stateVars
      BY <2>10 DEF StepPopAborts, Exit, ParseError, Include, Reference, ReferenceAssert, Stops
    <3>2. QED
      BY <1>1, <2>1, <2>2, <3>1, OtherCovered
  <2>11. QED
    BY <2>1, <2>3, <2>4, <2>5, <2>6, <2>7, <2>8, <2>9, <2>10 DEF Next, Command
<1>4. QED
  BY <1>1, <1>2, <1>3

(* The scopes of the symbol table and those of the assumptions stay in     *)
(* step: under the discipline, an assumption scope has an environment and  *)
(* an assumption of its own, however many are open and however they        *)
(* interleave with push and pop.                                           *)
THEOREM AssumptionScopesAlign == NestedSpec => []ScopesAligned
<1>1. ScopeInv => ScopesAligned
  BY DEF ScopeInv
<1>2. QED
  BY <1>1, ScopeInvInit, ScopeInvNext, PTL DEF NestedSpec

(* Nothing proved from a local assumption outlives it: a proof that a step *)
(* can use, now or after any scopes are closed, rests on assumptions that  *)
(* are open there, or on a rule marked :sorry in a run that will answer    *)
(* incomplete.  This is what makes the response correct mean anything.     *)
THEOREM NothingEscapes == NestedSpec => []ProofsCovered
<1>1. ScopeInv => ProofsCovered
  BY DEF ScopeInv
<1>2. QED
  BY <1>1, ScopeInvInit, ScopeInvNext, PTL DEF NestedSpec

-----------------------------------------------------------------------------
(* The check against the reference *)

(* Every assumption made at level zero since the reference was read has    *)
(* been found among its assertions.  It is inductive only with what keeps  *)
(* the check on (the reference is not forgotten) and with when a run is    *)
(* judged (nothing is proved after the response).                          *)
CheckInv == /\ before \in Nat
            /\ checked \in BOOLEAN
            /\ checked => hasReference
            /\ phase = "correct" => ~incomplete
            /\ AssumptionsChecked

(* The last assumption of level zero.                                      *)
LEMMA LevelZeroFacts ==
    ASSUME TypeInv
    PROVE  /\ LevelZero \in Nat /\ LevelZero <= Len(assumptions)
           /\ AssumptionLevel = 0 => LevelZero = Len(assumptions)
           /\ AssumptionLevel > 0 => LevelZero = assumptionsSizeCtx[1]
           /\ AssumptionLevel \in Nat /\ Len(assumptions) \in Nat
<1>1. /\ AssumptionLevel \in Nat /\ Len(assumptions) \in Nat
      /\ \A i \in 1 .. AssumptionLevel : assumptionsSizeCtx[i] \in Nat
  BY DEF TypeInv, TypeOK, AssumptionLevel
<1>2. AssumptionLevel > 0 => assumptionsSizeCtx[1] \in Nat /\ assumptionsSizeCtx[1] < Len(assumptions)
  <2>1. AssumptionLevel > 0 => 1 \in 1 .. AssumptionLevel
    BY <1>1
  <2>2. QED
    BY <1>1, <2>1 DEF TypeInv, SizesOrdered
<1>3. AssumptionLevel = 0 \/ AssumptionLevel > 0
  BY <1>1
<1>4. QED
  BY <1>1, <1>2, <1>3 DEF LevelZero

(* LevelZeroFacts in the next state.                                       *)
LEMMA LevelZeroFactsNext ==
    ASSUME TypeInv'
    PROVE  /\ LevelZero' \in Nat /\ LevelZero' <= Len(assumptions')
           /\ AssumptionLevel' = 0 => LevelZero' = Len(assumptions')
           /\ AssumptionLevel' > 0 => LevelZero' = assumptionsSizeCtx'[1]
           /\ AssumptionLevel' \in Nat /\ Len(assumptions') \in Nat
<1>1. /\ AssumptionLevel' \in Nat /\ Len(assumptions') \in Nat
      /\ \A i \in 1 .. AssumptionLevel' : assumptionsSizeCtx'[i] \in Nat
  BY DEF TypeInv, TypeOK, AssumptionLevel
<1>2. AssumptionLevel' > 0 => assumptionsSizeCtx'[1] \in Nat /\ assumptionsSizeCtx'[1] < Len(assumptions')
  <2>1. AssumptionLevel' > 0 => 1 \in 1 .. AssumptionLevel'
    BY <1>1
  <2>2. QED
    BY <1>1, <2>1 DEF TypeInv, SizesOrdered
<1>3. AssumptionLevel' = 0 \/ AssumptionLevel' > 0
  BY <1>1
<1>4. QED
  BY <1>1, <1>2, <1>3 DEF LevelZero

(* Nothing happens after the response.                                     *)
LEMMA NextNotEnded == Next => phase \notin Ended
<1>1. BetweenOptions => phase \notin Ended
  BY DEF BetweenOptions, Ended
<1>2. Main => phase \notin Ended
  BY <1>1 DEF Main, IncludeOption, ReferenceOption, InputFile, InputStream
<1>3. Command => phase \notin Ended
  BY DEF Command, Assume, AssumePush, Step, StepPop, StepPopAborts, Push, Pop, Reset, Include,
         Reference, ReferenceAssert, Exit, ParseError, ReadsProof, ReadsReference, Reading
<1>4. QED
  BY <1>2, <1>3 DEF Next, EndOfInput

(* What a command can do to the reference once it is read.                 *)
LEMMA ReferenceStays ==
    ASSUME Next, checked, IncludesFirst, ~ReadsAReference
    PROVE  UNCHANGED <<hasReference, referenceNf>> /\ referenceAsserts \subseteq referenceAsserts'
<1>1. ASSUME NEW f \in Files, NEW nf \in BOOLEAN, Reference(f, nf)
      PROVE  UNCHANGED referenceVars
  <2>1. f \in includes
    BY <1>1 DEF ReadsAReference
  <2>2. QED
    BY <1>1, <2>1 DEF Reference, IncludeFile
<1>2. ASSUME NEW f \in Files, ReferenceOption(f)
      PROVE  UNCHANGED referenceVars
  <2>1. CASE SecondReferenceAborts(f)
    BY <2>1 DEF SecondReferenceAborts, Stops
  <2>2. CASE IncludeFile(f, TRUE, FALSE) /\ UNCHANGED <<stateVars, phase>>
    <3>1. f \in includes
      BY <1>2, <2>2 DEF ReadsAReference
    <3>2. QED
      BY <2>2, <3>1 DEF IncludeFile
  <2>3. QED
    BY <1>2, <2>1, <2>2 DEF ReferenceOption
<1>3. \A f \in Files : ~Include(f) /\ ~IncludeOption(f) /\ ~InputFile(f)
  BY DEF IncludesFirst
<1>4. Main => UNCHANGED referenceVars
  BY <1>2, <1>3 DEF Main, InputStream
<1>5. ASSUME NEW F \in Formulas, ReferenceAssert(F)
      PROVE  UNCHANGED <<hasReference, referenceNf>> /\ referenceAsserts \subseteq referenceAsserts'
  BY <1>5 DEF ReferenceAssert
<1>6. Command => UNCHANGED <<hasReference, referenceNf>> /\ referenceAsserts \subseteq referenceAsserts'
  BY <1>1, <1>3, <1>5 DEF Command, Assume, AssumePush, Step, StepPop, StepPopAborts, Push, Pop,
     Reset, Exit, ParseError, Stops, referenceVars
<1>7. EndOfInput => UNCHANGED referenceVars
  BY DEF EndOfInput, Stops
<1>8. QED
  BY <1>4, <1>6, <1>7 DEF Next, referenceVars

(* Reading a reference turns the check on.                                 *)
LEMMA ReferenceRead ==
    ASSUME ReadsAReference
    PROVE  hasReference' = TRUE /\ UNCHANGED stateVars
<1>1. ASSUME NEW f \in Files, NEW nf \in BOOLEAN, Reference(f, nf), f \notin includes
      PROVE  hasReference' = TRUE /\ UNCHANGED stateVars
  BY <1>1 DEF Reference, IncludeFile
<1>2. ASSUME NEW f \in Files, ReferenceOption(f), f \notin includes, phase' = phase
      PROVE  hasReference' = TRUE /\ UNCHANGED stateVars
  <2>1. ~SecondReferenceAborts(f)
    <3>1. BetweenOptions
      BY <1>2 DEF ReferenceOption
    <3>2. phase # "aborted"
      BY <3>1 DEF BetweenOptions
    <3>3. QED
      BY <1>2, <3>2 DEF SecondReferenceAborts, Stops
  <2>2. QED
    BY <1>2, <2>1 DEF ReferenceOption, IncludeFile
<1>3. QED
  BY <1>1, <1>2 DEF ReadsAReference

(* A command that leaves the assumptions of level zero, or cuts them, has  *)
(* nothing to check.                                                       *)
LEMMA CheckedKept ==
    ASSUME TypeInv, TypeInv', CheckInv, Next, History, IncludesFirst,
           LevelZero' <= LevelZero,
           \A i \in 1 .. LevelZero' : assumptions'[i] = assumptions[i]
    PROVE  AssumptionsChecked'
<1>1. SUFFICES ASSUME checked', phase' # "error", NEW i \in (before + 1)' .. LevelZero'
               PROVE  Norm(assumptions[i])' \in referenceAsserts'
  BY DEF AssumptionsChecked
<1>2. PICK z \in Nat : z = LevelZero /\ z <= Len(assumptions)
  BY LevelZeroFacts
<1>3. PICK y \in Nat : y = LevelZero' /\ y <= z /\ y <= Len(assumptions')
  BY <1>2, LevelZeroFactsNext
<1>4. PICK m \in Nat : m = Len(assumptions)
  BY LevelZeroFacts
<1>5. ~ReadsAReference
  <2>1. SUFFICES ASSUME ReadsAReference PROVE FALSE
    OBVIOUS
  <2>2. before' = m
    BY <1>4, <2>1 DEF History
  <2>3. QED
    BY <1>2, <1>3, <1>4, <2>2
<1>6. checked /\ before' = (IF assumptions' = <<>> THEN 0 ELSE before)
  BY <1>1, <1>5 DEF History
<1>7. PICK b \in Nat : b = before
  BY DEF CheckInv
<1>8. assumptions' # <<>>
  <2>1. SUFFICES ASSUME assumptions' = <<>> PROVE FALSE
    OBVIOUS
  <2>2. Len(assumptions') = 0 /\ before' = 0
    BY <1>6, <2>1
  <2>3. QED
    BY <1>3, <2>2
<1>9. i \in b + 1 .. y /\ i \in 1 .. y /\ i \in b + 1 .. z
  <2>1. before' = b
    BY <1>6, <1>7, <1>8
  <2>2. i \in b + 1 .. y
    BY <1>3, <2>1
  <2>3. QED
    BY <1>3, <2>2
<1>10. Norm(assumptions[i]) \in referenceAsserts
  <2>1. phase # "error"
    BY NextNotEnded DEF Ended
  <2>2. \A x \in (before + 1) .. LevelZero : Norm(assumptions[x]) \in referenceAsserts
    BY <1>6, <2>1 DEF CheckInv, AssumptionsChecked
  <2>3. QED
    BY <1>2, <1>7, <1>9, <2>2
<1>11. assumptions'[i] = assumptions[i]
  BY <1>3, <1>9
<1>12. UNCHANGED <<hasReference, referenceNf>> /\ referenceAsserts \subseteq referenceAsserts'
  BY <1>5, <1>6, ReferenceStays
<1>13. QED
  BY <1>10, <1>11, <1>12 DEF Norm

(* An assumption at level zero is looked up.                               *)
LEMMA AssumeChecked ==
    ASSUME TypeInv, TypeInv', CheckInv, Next, History, IncludesFirst,
           NEW n \in Names, NEW F \in Formulas, Assume(n, F)
    PROVE  AssumptionsChecked'
<1>1. /\ assumptions' = Append(assumptions, F) /\ assumptionsSizeCtx' = assumptionsSizeCtx
      /\ phase' = (IF Assumable(F) THEN phase ELSE "error")
      /\ UNCHANGED <<hasReference, referenceNf, referenceAsserts>>
  BY DEF Assume, referenceVars
<1>2. PICK m \in Nat : m = Len(assumptions)
  BY LevelZeroFacts
<1>3. /\ Len(assumptions') = m + 1 /\ assumptions'[m + 1] = F
      /\ \A j \in 1 .. m : assumptions'[j] = assumptions[j]
  BY <1>1, <1>2, ExtendedFacts DEF TypeInv, TypeOK
<1>4. AssumptionLevel' = AssumptionLevel
  BY <1>1 DEF AssumptionLevel
<1>5. CASE AssumptionLevel > 0
  <2>1. PICK z \in Nat : z = LevelZero /\ z <= m
    BY <1>2, LevelZeroFacts
  <2>2. LevelZero' = z
    BY <1>1, <1>4, <1>5, <2>1, LevelZeroFacts, LevelZeroFactsNext
  <2>3. \A i \in 1 .. z : assumptions'[i] = assumptions[i]
    BY <1>3, <2>1
  <2>4. LevelZero' <= LevelZero
    BY <2>1, <2>2
  <2>5. \A i \in 1 .. LevelZero' : assumptions'[i] = assumptions[i]
    BY <2>2, <2>3
  <2>6. QED
    BY <2>4, <2>5, CheckedKept
<1>6. CASE AssumptionLevel = 0
  <2>1. LevelZero = m /\ LevelZero' = m + 1
    BY <1>2, <1>3, <1>4, <1>6, LevelZeroFacts, LevelZeroFactsNext
  <2>2. SUFFICES ASSUME checked', phase' # "error", NEW i \in (before + 1)' .. LevelZero'
                 PROVE  Norm(assumptions[i])' \in referenceAsserts'
    BY DEF AssumptionsChecked
  <2>3. ~ReadsAReference
    <3>1. SUFFICES ASSUME ReadsAReference PROVE FALSE
      OBVIOUS
    <3>2. assumptions' = assumptions
      BY <3>1, ReferenceRead DEF stateVars
    <3>3. QED
      BY <1>2, <1>3, <3>2
  <2>4. PICK b \in Nat : b = before
    BY DEF CheckInv
  <2>5. checked /\ before' = b
    <3>1. assumptions' # <<>>
      BY <1>3
    <3>2. QED
      BY <2>2, <2>3, <2>4, <3>1 DEF History
  <2>6. i \in b + 1 .. m + 1
    BY <2>1, <2>2, <2>5
  <2>7. Assumable(F) /\ phase # "error"
    BY <1>1, <2>2
  <2>8. CASE i = m + 1
    <3>1. hasReference
      BY <2>5 DEF CheckInv
    <3>2. Norm(F) \in referenceAsserts
      BY <1>6, <2>7, <3>1 DEF Assumable
    <3>3. QED
      BY <1>1, <1>3, <2>8, <3>2 DEF Norm
  <2>9. CASE i # m + 1
    <3>1. i \in b + 1 .. m /\ i \in 1 .. m
      BY <2>6, <2>9
    <3>2. \A x \in (before + 1) .. LevelZero : Norm(assumptions[x]) \in referenceAsserts
      BY <2>5, <2>7 DEF CheckInv, AssumptionsChecked
    <3>3. Norm(assumptions[i]) \in referenceAsserts
      BY <2>1, <2>4, <3>1, <3>2
    <3>4. QED
      BY <1>1, <1>3, <3>1, <3>3 DEF Norm
  <2>10. QED
    BY <2>8, <2>9
<1>7. QED
  BY <1>5, <1>6, LevelZeroFacts

(* The assumptions of the other commands are local, or go.                 *)
LEMMA OthersChecked ==
    ASSUME TypeInv, TypeInv', CheckInv, Next, History, IncludesFirst,
           \A n \in Names, F \in Formulas : ~Assume(n, F)
    PROVE  AssumptionsChecked'
<1>1. PICK z \in Nat : z = LevelZero /\ z <= Len(assumptions)
  BY LevelZeroFacts
<1>2. PICK A \in Nat : A = AssumptionLevel
  BY LevelZeroFacts
<1>3. ASSUME UNCHANGED <<assumptions, assumptionsSizeCtx>>
      PROVE  AssumptionsChecked'
  <2>1. LevelZero' = z /\ \A i \in 1 .. z : assumptions'[i] = assumptions[i]
    BY <1>1, <1>3 DEF LevelZero, AssumptionLevel
  <2>2. LevelZero' <= LevelZero /\ \A i \in 1 .. LevelZero' : assumptions'[i] = assumptions[i]
    BY <1>1, <2>1
  <2>3. QED
    BY <2>2, CheckedKept
<1>4. ASSUME NEW n \in Names, NEW F \in Formulas, AssumePush(n, F)
      PROVE  AssumptionsChecked'
  <2>1. /\ AssumptionLevel' = A + 1
        /\ assumptionsSizeCtx'[A + 1] = Len(assumptions)
        /\ \A i \in 1 .. A : assumptionsSizeCtx'[i] = assumptionsSizeCtx[i]
        /\ \A j \in 1 .. Len(assumptions) : assumptions'[j] = assumptions[j]
    BY <1>2, <1>4, PushedSizes DEF AssumePush
  <2>2. LevelZero' = assumptionsSizeCtx'[1]
    BY <1>2, <2>1, LevelZeroFactsNext
  <2>3. LevelZero' = z
    <3>1. CASE A = 0
      BY <1>1, <1>2, <2>1, <2>2, <3>1, LevelZeroFacts
    <3>2. CASE A > 0
      <4>1. 1 \in 1 .. A
        BY <3>2
      <4>2. QED
        BY <1>1, <1>2, <2>1, <2>2, <3>2, <4>1, LevelZeroFacts
    <3>3. QED
      BY <3>1, <3>2
  <2>4. PICK m \in Nat : m = Len(assumptions)
    BY LevelZeroFacts
  <2>5. \A i \in 1 .. z : i \in 1 .. m
    BY <1>1, <2>4
  <2>6. LevelZero' <= LevelZero /\ \A i \in 1 .. LevelZero' : assumptions'[i] = assumptions[i]
    BY <1>1, <2>1, <2>3, <2>4, <2>5
  <2>7. QED
    BY <2>6, CheckedKept
<1>5. ASSUME NEW n \in Names, NEW premises \in SUBSET Names, NEW sorry \in BOOLEAN,
             StepPop(n, premises, sorry)
      PROVE  AssumptionsChecked'
  <2>1. PICK q \in Nat : q = ScopeStart
    BY <1>5, PoppedSizes DEF StepPop
  <2>2. /\ A > 0 /\ AssumptionLevel' = A - 1 /\ Len(assumptions') = q
        /\ \A i \in 1 .. A - 1 : /\ assumptionsSizeCtx'[i] = assumptionsSizeCtx[i]
                                /\ assumptionsSizeCtx[i] < q
        /\ \A j \in 1 .. q : assumptions'[j] = assumptions[j]
    BY <1>2, <1>5, <2>1, PoppedSizes DEF StepPop
  <2>3. LevelZero' = z /\ z <= q
    <3>1. CASE A = 1
      <4>1. LevelZero' = q
        BY <2>2, <3>1, LevelZeroFactsNext
      <4>2. z = q
        BY <1>1, <1>2, <2>1, <3>1, LevelZeroFacts DEF ScopeStart
      <4>3. QED
        BY <4>1, <4>2
    <3>2. CASE A > 1
      <4>1. 1 \in 1 .. A - 1 /\ A - 1 > 0
        BY <3>2
      <4>2. LevelZero' = assumptionsSizeCtx[1] /\ assumptionsSizeCtx[1] < q
        BY <2>2, <4>1, LevelZeroFactsNext
      <4>3. z = assumptionsSizeCtx[1]
        BY <1>1, <1>2, <2>2, LevelZeroFacts
      <4>4. QED
        BY <4>2, <4>3
    <3>3. QED
      BY <2>2, <3>1, <3>2
  <2>4. \A i \in 1 .. z : i \in 1 .. q
    BY <2>3
  <2>5. LevelZero' <= LevelZero /\ \A i \in 1 .. LevelZero' : assumptions'[i] = assumptions[i]
    BY <1>1, <2>2, <2>3, <2>4
  <2>6. QED
    BY <2>5, CheckedKept
<1>6. CASE Reset
  <2>1. AssumptionLevel' = 0 /\ Len(assumptions') = 0
    BY <1>6 DEF Reset, AssumptionLevel
  <2>2. LevelZero' = 0
    BY <2>1, LevelZeroFactsNext
  <2>3. LevelZero' <= LevelZero /\ \A i \in 1 .. LevelZero' : assumptions'[i] = assumptions[i]
    BY <1>1, <2>2
  <2>4. QED
    BY <2>3, CheckedKept
<1>7. CASE Main \/ EndOfInput
  BY <1>3, <1>7 DEF Main, IncludeOption, ReferenceOption, SecondReferenceAborts, InputFile,
                    InputStream, EndOfInput, Stops, stateVars
<1>8. CASE \/ Push \/ Pop \/ StepPopAborts \/ Exit \/ ParseError
           \/ \E n \in Names, premises \in SUBSET Names, sorry \in BOOLEAN : Step(n, premises, sorry)
           \/ \E f \in Files : Include(f) \/ \E nf \in BOOLEAN : Reference(f, nf)
           \/ \E F \in Formulas : ReferenceAssert(F)
  BY <1>3, <1>8 DEF Push, Pop, StepPopAborts, Exit, ParseError, Step, Include, Reference,
                    ReferenceAssert, Stops, stateVars
<1>9. QED
  BY <1>4, <1>5, <1>6, <1>7, <1>8 DEF Next, Command

(* The response is correct only when no rule marked :sorry was used.       *)
LEMMA CorrectIsComplete ==
    ASSUME Next, phase' = "correct"
    PROVE  ~incomplete'
<1>1. phase # "correct"
  BY NextNotEnded DEF Ended
<1>2. Main => incomplete' = incomplete /\ ~incomplete
  BY <1>1 DEF Main, IncludeOption, ReferenceOption, SecondReferenceAborts, InputFile, InputStream,
     Stops, stateVars, Response
<1>3. ~Command
  BY <1>1 DEF Command, Assume, AssumePush, Step, StepPop, StepPopAborts, Push, Pop, Reset, Include,
     Reference, ReferenceAssert, Exit, ParseError, Stops
<1>4. EndOfInput => incomplete' = incomplete /\ ~incomplete
  BY <1>1 DEF EndOfInput, Stops, stateVars, Response
<1>5. QED
  BY <1>2, <1>3, <1>4 DEF Next

(* At first no reference was read.                                         *)
LEMMA CheckInvInit == HistoryInit => CheckInv
<1>1. SUFFICES ASSUME HistoryInit PROVE CheckInv
  OBVIOUS
<1>2. before = 0 /\ checked = FALSE /\ phase = "options"
  BY <1>1 DEF HistoryInit, Init
<1>3. AssumptionsChecked
  BY <1>2 DEF AssumptionsChecked
<1>4. QED
  BY <1>2, <1>3 DEF CheckInv

(* CheckInv is inductive when nothing is included after the reference.     *)
LEMMA CheckInvNext ==
    TypeInv /\ TypeInv' /\ CheckInv /\ [NestedNext /\ IncludesFirst]_allVars => CheckInv'
<1>1. SUFFICES ASSUME TypeInv, TypeInv', CheckInv, [NestedNext /\ IncludesFirst]_allVars
               PROVE  CheckInv'
  OBVIOUS
<1>2. CASE UNCHANGED allVars
  BY <1>1, <1>2 DEF CheckInv, AssumptionsChecked, LevelZero, AssumptionLevel, Norm, allVars, vars,
                    historyVars, stateVars, fileVars, referenceVars
<1>3. CASE NestedNext /\ IncludesFirst
  <2>1. Next /\ History /\ IncludesFirst
    BY <1>3 DEF NestedNext
  <2>2. AssumptionsChecked'
    BY <1>1, <2>1, AssumeChecked, OthersChecked
  <2>3. before' \in Nat
    <3>1. Len(assumptions) \in Nat /\ before \in Nat
      BY <1>1, LevelZeroFacts DEF CheckInv
    <3>2. QED
      BY <2>1, <3>1 DEF History
  <2>4. checked' \in BOOLEAN /\ (checked' => hasReference')
    <3>1. CASE ReadsAReference
      BY <2>1, <3>1, ReferenceRead DEF History
    <3>2. CASE ~ReadsAReference
      <4>1. checked' = checked
        BY <1>1, <2>1, <3>2 DEF History, CheckInv
      <4>2. QED
        BY <1>1, <2>1, <3>2, <4>1, ReferenceStays DEF CheckInv
    <3>3. QED
      BY <3>1, <3>2
  <2>5. phase' = "correct" => ~incomplete'
    BY <2>1, CorrectIsComplete
  <2>6. QED
    BY <2>2, <2>3, <2>4, <2>5 DEF CheckInv
<1>4. QED
  BY <1>1, <1>2, <1>3

(* What the manual promises of a run with a reference, for the runs that   *)
(* include nothing after it: every assumption made at level zero since is  *)
(* among the assertions of the reference.                                  *)
THEOREM ReferenceIsChecked == ValidatingSpec => []AssumptionsChecked
<1>1. CheckInv => AssumptionsChecked
  BY DEF CheckInv
<1>2. ScopeInv => TypeInv
  BY DEF ScopeInv
<1>3. ScopeInv' => TypeInv'
  BY DEF ScopeInv
<1>4. [NestedNext /\ IncludesFirst]_allVars => [NestedNext]_allVars
  OBVIOUS
<1>5. QED
  BY <1>1, <1>2, <1>3, <1>4, ScopeInvInit, ScopeInvNext, CheckInvInit, CheckInvNext, PTL
     DEF ValidatingSpec

(* The scopes and the check together: when a run that read a reference     *)
(* answers correct, everything a step could have used rests on assertions  *)
(* of the reference and on what was assumed before it was read.            *)
THEOREM ProofsValidated == ValidatingSpec => []Validated
<1>1. ScopeInv /\ CheckInv => Validated
  <2>1. SUFFICES ASSUME ScopeInv, CheckInv, checked, phase = "correct", AssumptionLevel = 0,
                        NEW n \in Names, Visible(n), NEW F \in ProofOf(n)
                 PROVE  \/ Norm(F) \in referenceAsserts
                        \/ \E i \in 1 .. before : assumptions[i] = F
    BY DEF Validated
  <2>2. PICK L \in Nat \ {0} : L = Len(envs) /\ L \in 1 .. Len(envs)
    BY <2>1, ScopeFacts
  <2>3. PICK E \in Scopes!Env : E = envs[L]
    BY <2>1, <2>2, ScopeFacts
  <2>4. RestsOn(E, RangeOf(assumptions))
    <3>1. Admitted = {}
      BY <2>1 DEF CheckInv, Admitted
    <3>2. RestsOn(E, InForce(L) \cup Admitted)
      BY <2>1, <2>2, <2>3 DEF ScopeInv, ProofsCovered
    <3>3. InForce(L) = RangeOf(assumptions)
      BY <2>1, <2>2, CurrentInForce
    <3>4. InForce(L) \cup Admitted = RangeOf(assumptions)
      BY <3>1, <3>3
    <3>5. QED
      BY <3>2, <3>4
  <2>5. ProofOf(n) \subseteq RangeOf(assumptions)
    <3>1. E[n] \in Seq(Proofs) /\ E[n] # <<>>
      BY <2>1, <2>2, <2>3 DEF Scopes!Env, Visible, Scopes!Current
    <3>2. Len(E[n]) \in 1 .. Len(E[n])
      BY <3>1
    <3>3. ProofOf(n) = E[n][Len(E[n])]
      BY <2>2, <2>3 DEF ProofOf, Scopes!Current
    <3>4. QED
      BY <2>4, <3>2, <3>3 DEF RestsOn
  <2>6. PICK i \in 1 .. Len(assumptions) : F = assumptions[i]
    BY <2>1, <2>5 DEF RangeOf
  <2>7. LevelZero = Len(assumptions) /\ Len(assumptions) \in Nat /\ before \in Nat
    BY <2>1, LevelZeroFacts DEF ScopeInv, CheckInv
  <2>8. i \in 1 .. before \/ i \in (before + 1) .. LevelZero
    BY <2>6, <2>7
  <2>9. phase # "error"
    BY <2>1
  <2>10. CASE i \in (before + 1) .. LevelZero
    BY <2>1, <2>6, <2>9, <2>10 DEF CheckInv, AssumptionsChecked
  <2>11. QED
    BY <2>6, <2>8, <2>10
<1>2. ScopeInv => TypeInv
  BY DEF ScopeInv
<1>3. ScopeInv' => TypeInv'
  BY DEF ScopeInv
<1>4. [NestedNext /\ IncludesFirst]_allVars => [NestedNext]_allVars
  OBVIOUS
<1>5. QED
  BY <1>1, <1>2, <1>3, <1>4, ScopeInvInit, ScopeInvNext, CheckInvInit, CheckInvNext, PTL
     DEF ValidatingSpec

=============================================================================
