--------------------------- MODULE EvaluatorProofs --------------------------
(***************************************************************************)
(* Proofs about the evaluator, for every set of terms, every signature and *)
(* every call of evaluate: that the values it looks up are there, then     *)
(* that it returns the value of evaluation by recursion and interprets no  *)
(* call twice.                                                             *)
(***************************************************************************)
EXTENDS EvaluatorProps, TLAPS, SequenceTheorems, WellFoundedInduction

(* What the parameters have to be: operations on terms give terms.         *)
WellTyped ==
    /\ Null \notin Terms
    /\ \A t \in Terms : Kids(t) \in Seq(Terms)
    /\ \A t \in Terms : Kind(t) \in {"apply", "apply_opaque"} => Kids(t) # <<>>
    /\ \A t \in Terms, ts \in Seq(Terms) : Len(ts) = Len(Kids(t)) =>
          /\ Make(t, ts) \in Terms
          /\ Kind(t) \in LiteralOps => LiteralOp(Kind(t), ts) \in Terms \cup {Null}
    /\ \A ts \in Seq(Terms) : ts # <<>> =>
          /\ Interpret(ts).body \in Terms \cup {Null}
          /\ Interpret(ts).ctx \in Ctxs
    /\ \A in \in Inputs : in.term \in Terms /\ in.ctx \in Ctxs

(* Terms are finite: there is a size that the children of a term have less *)
(* of than the term.                                                       *)
IsSize(size) ==
    /\ size \in [Terms -> Nat]
    /\ \A t \in Terms : \A i \in 1 .. Len(Kids(t)) : size[Kids(t)[i]] < size[t]

WellFounded == \E size : IsSize(size)

Size == CHOOSE size : IsSize(size)

-----------------------------------------------------------------------------
(* Frames *)

Visiteds == UNION {[D -> Terms \cup {Null}] : D \in SUBSET Terms}

Frames == [init: Terms, ctx: Ctxs, visited: Visiteds, visit: Seq(Terms), call: Seq(Terms)]

Tries == UNION {[D -> Terms \cup {Null}] : D \in SUBSET Seq(Terms)}

Valued(f, t) == t \in DOMAIN f.visited /\ f.visited[t] # Null

Marked(f, t) == t \in DOMAIN f.visited /\ f.visited[t] = Null

(* A term that has its value or will be visited before position p is again *)
(* the top of the stack.                                                   *)
ValuedAbove(f, p, t) == Valued(f, t) \/ \E q \in DOMAIN f.visit : q > p /\ f.visit[q] = t

(* The children that are visited before the term is looked at again.       *)
Needed(t) == IF Kind(t) = "ite" THEN {1} ELSE 1 .. Len(Kids(t))

(* What makes it safe to look up the values of a term's children once the  *)
(* term is on top of the stack again.                                      *)
FrameInv(f) ==
    /\ ValuedAbove(f, 0, f.init)
    /\ \A p \in DOMAIN f.visit : Marked(f, f.visit[p]) =>
          /\ ~Malformed(f.visit[p])
          /\ \A i \in Needed(f.visit[p]) : ValuedAbove(f, p, Kids(f.visit[p])[i])
    /\ \A m \in DOMAIN f.visited : Marked(f, m) =>
          \E p \in DOMAIN f.visit :
             /\ f.visit[p] = m
             /\ \A q \in DOMAIN f.visit : q > p => Size[f.visit[q]] < Size[m]

(* A context, as the type invariant states it.                             *)
LEMMA CtxFacts ==
    ASSUME NEW c
    PROVE  c \in Ctxs <=> IsCtx(c)
BY DEF Ctxs, IsCtx

(* A map of visited terms by its domain and its values.                    *)
LEMMA VisitedFacts ==
    ASSUME NEW v
    PROVE  v \in Visiteds <=> DOMAIN v \subseteq Terms /\ v \in [DOMAIN v -> Terms \cup {Null}]
BY DEF Visiteds

(* A trie of answers by its domain and its values.                         *)
LEMMA TrieFacts ==
    ASSUME NEW v
    PROVE  v \in Tries <=> DOMAIN v \subseteq Seq(Terms) /\ v \in [DOMAIN v -> Terms \cup {Null}]
BY DEF Tries

(* A map of visited terms remains one when a term is bound.                *)
LEMMA BindVisited ==
    ASSUME NEW f \in Visiteds, NEW x \in Terms, NEW v \in Terms \cup {Null}
    PROVE  Bind(f, x, v) \in Visiteds
<1>1. DOMAIN f \subseteq Terms /\ f \in [DOMAIN f -> Terms \cup {Null}]
  BY VisitedFacts
<1>2. Bind(f, x, v) \in [DOMAIN f \cup {x} -> Terms \cup {Null}]
  BY <1>1 DEF Bind
<1>3. QED
  BY <1>1, <1>2, VisitedFacts

(* A trie of answers remains one when a call is bound.                     *)
LEMMA BindTrie ==
    ASSUME NEW f \in Tries, NEW x \in Seq(Terms), NEW v \in Terms \cup {Null}
    PROVE  Bind(f, x, v) \in Tries
<1>1. DOMAIN f \subseteq Seq(Terms) /\ f \in [DOMAIN f -> Terms \cup {Null}]
  BY TrieFacts
<1>2. Bind(f, x, v) \in [DOMAIN f \cup {x} -> Terms \cup {Null}]
  BY <1>1 DEF Bind
<1>3. QED
  BY <1>1, <1>2, TrieFacts

(* A prefix has the elements that the sequence has.                        *)
LEMMA PrefixFacts ==
    ASSUME NEW S, NEW s \in Seq(S), NEW m \in Nat, m <= Len(s)
    PROVE  /\ SubSeq(s, 1, m) \in Seq(S)
           /\ Len(SubSeq(s, 1, m)) = m
           /\ \A i \in 1 .. m : SubSeq(s, 1, m)[i] = s[i]
<1>1. \A i \in 1 .. m : s[i] \in S
  OBVIOUS
<1>2. /\ SubSeq(s, 1, m) \in Seq(S)
      /\ Len(SubSeq(s, 1, m)) = IF 1 <= m THEN m - 1 + 1 ELSE 0
      /\ \A i \in 1 .. m - 1 + 1 : SubSeq(s, 1, m)[i] = s[1 + i - 1]
  BY <1>1, SubSeqProperties
<1>3. Len(SubSeq(s, 1, m)) = m
  BY <1>2
<1>4. ASSUME NEW i \in 1 .. m
      PROVE  SubSeq(s, 1, m)[i] = s[i]
  <2>1. i \in 1 .. m - 1 + 1 /\ 1 + i - 1 = i
    OBVIOUS
  <2>2. QED
    BY <1>2, <2>1
<1>5. QED
  BY <1>2, <1>3, <1>4

(* The top of a stack, and what is below it.                               *)
LEMMA TopFacts ==
    ASSUME NEW S, NEW s \in Seq(S), s # <<>>
    PROVE  /\ Len(s) \in Nat /\ Len(s) >= 1
           /\ LastOf(s) = s[Len(s)] /\ LastOf(s) \in S
           /\ FrontOf(s) \in Seq(S)
           /\ Len(FrontOf(s)) = Len(s) - 1
           /\ \A i \in 1 .. Len(s) - 1 : FrontOf(s)[i] = s[i]
<1>1. Len(s) \in Nat /\ Len(s) >= 1
  OBVIOUS
<1>2. LastOf(s) = s[Len(s)] /\ LastOf(s) \in S
  BY <1>1 DEF LastOf
<1>3. Len(s) - 1 \in Nat /\ Len(s) - 1 <= Len(s)
  BY <1>1
<1>4. /\ FrontOf(s) \in Seq(S)
      /\ Len(FrontOf(s)) = Len(s) - 1
      /\ \A i \in 1 .. Len(s) - 1 : FrontOf(s)[i] = s[i]
  BY <1>3, PrefixFacts, Zenon DEF FrontOf
<1>5. QED
  BY <1>1, <1>2, <1>4

-----------------------------------------------------------------------------
(* What the steps do to a frame *)

(* The size that is chosen is one.                                         *)
LEMMA SizeFacts ==
    ASSUME WellFounded
    PROVE  /\ Size \in [Terms -> Nat]
           /\ \A t \in Terms : \A i \in 1 .. Len(Kids(t)) : Size[Kids(t)[i]] < Size[t]
BY DEF WellFounded, Size, IsSize

(* The map with no term in it.                                             *)
LEMMA EmptyVisited == <<>> \in Visiteds /\ DOMAIN <<>> = {}
<1>1. DOMAIN <<>> = {}
  OBVIOUS
<1>2. <<>> \in [DOMAIN <<>> -> Terms \cup {Null}]
  BY <1>1
<1>3. QED
  BY <1>1, <1>2, VisitedFacts

(* A frame that was just made satisfies the invariant of frames.           *)
LEMMA FreshFrame ==
    ASSUME NEW e \in Terms, NEW c \in Ctxs, NEW call \in Seq(Terms)
    PROVE  Frame(e, c, call) \in Frames /\ FrameInv(Frame(e, c, call))
<1> DEFINE f == Frame(e, c, call)
<1>1. /\ f.init = e /\ f.visited = <<>> /\ f.visit = <<e>>
      /\ DOMAIN f.visited = {}
  BY EmptyVisited DEF Frame
<1>2. f \in Frames
  BY EmptyVisited DEF Frame, Frames
<1>3. 1 \in DOMAIN f.visit /\ f.visit[1] = f.init /\ 1 > 0
  BY <1>1
<1>4. ValuedAbove(f, 0, f.init)
  BY <1>3 DEF ValuedAbove
<1>5. \A u : ~Marked(f, u)
  BY <1>1 DEF Marked
<1>6. FrameInv(f)
  BY <1>4, <1>5 DEF FrameInv
<1>7. QED
  BY <1>2, <1>6

(* The types of the fields of a frame.                                     *)
LEMMA FieldFacts ==
    ASSUME NEW f \in Frames
    PROVE  /\ f.init \in Terms /\ f.ctx \in Ctxs /\ f.call \in Seq(Terms)
           /\ f.visited \in Visiteds /\ f.visit \in Seq(Terms)
           /\ DOMAIN f.visited \subseteq Terms
           /\ \A t \in DOMAIN f.visited : f.visited[t] \in Terms \cup {Null}
<1>1. f.visited \in Visiteds
  BY DEF Frames
<1>2. DOMAIN f.visited \subseteq Terms /\ f.visited \in [DOMAIN f.visited -> Terms \cup {Null}]
  BY <1>1, VisitedFacts
<1>3. QED
  BY <1>1, <1>2 DEF Frames

(* An updated frame is for the same term, context and call.                *)
LEMMA UpdatedFacts ==
    ASSUME NEW f \in Frames, NEW visited \in Visiteds, NEW visit \in Seq(Terms)
    PROVE  /\ Updated(f, visited, visit) \in Frames
           /\ Updated(f, visited, visit).init = f.init
           /\ Updated(f, visited, visit).ctx = f.ctx
           /\ Updated(f, visited, visit).call = f.call
           /\ Updated(f, visited, visit).visited = visited
           /\ Updated(f, visited, visit).visit = visit
BY FieldFacts DEF Updated, Frames

(* Popping a term that has a value, in a frame g that differs from f in    *)
(* nothing but that this term, if it was marked in f, has a value in g.    *)
LEMMA PopFrame ==
    ASSUME NEW f \in Frames, NEW g \in Frames, FrameInv(f), f.visit # <<>>,
           g.init = f.init, g.visit = FrontOf(f.visit),
           Valued(g, LastOf(f.visit)),
           \A u : Valued(f, u) => Valued(g, u),
           \A u : Marked(g, u) => Marked(f, u)
    PROVE  FrameInv(g)
<1> DEFINE n == Len(f.visit)
           t == f.visit[n]
<1>1. /\ f.visit \in Seq(Terms) /\ n \in Nat /\ n >= 1
      /\ LastOf(f.visit) = t
      /\ g.visit \in Seq(Terms)
      /\ Len(g.visit) = n - 1
      /\ \A i \in 1 .. n - 1 : g.visit[i] = f.visit[i]
  <2>1. f.visit \in Seq(Terms)
    BY FieldFacts
  <2>2. QED
    BY <2>1, TopFacts, Zenon
<1>2. DOMAIN f.visit = 1 .. n /\ DOMAIN g.visit = 1 .. n - 1
  BY <1>1
<1> HIDE DEF n
<1>3. ASSUME NEW p \in Nat, NEW u, ValuedAbove(f, p, u)
      PROVE  ValuedAbove(g, p, u)
  <2>1. CASE Valued(f, u)
    BY <2>1 DEF ValuedAbove
  <2>2. CASE \E q \in DOMAIN f.visit : q > p /\ f.visit[q] = u
    <3>1. PICK q \in 1 .. n : q > p /\ f.visit[q] = u
      BY <1>2, <2>2
    <3>2. CASE q = n
      <4>1. Valued(g, u)
        BY <1>1, <3>1, <3>2
      <4>2. QED
        BY <4>1 DEF ValuedAbove
    <3>3. CASE q # n
      <4>1. q \in 1 .. n - 1
        BY <1>1, <3>3
      <4>2. q \in DOMAIN g.visit /\ g.visit[q] = u
        BY <1>1, <1>2, <3>1, <4>1
      <4>3. QED
        BY <3>1, <4>2 DEF ValuedAbove
    <3>4. QED
      BY <3>2, <3>3
  <2>3. QED
    BY <1>3, <2>1, <2>2 DEF ValuedAbove
<1>4. ValuedAbove(g, 0, g.init)
  BY <1>3 DEF FrameInv
<1>5. ASSUME NEW p \in DOMAIN g.visit, Marked(g, g.visit[p])
      PROVE  /\ ~Malformed(g.visit[p])
             /\ \A i \in Needed(g.visit[p]) : ValuedAbove(g, p, Kids(g.visit[p])[i])
  <2>1. p \in Nat /\ p \in DOMAIN f.visit /\ g.visit[p] = f.visit[p]
    BY <1>1, <1>2
  <2>2. Marked(f, f.visit[p])
    BY <1>5, <2>1
  <2>3. /\ ~Malformed(f.visit[p])
        /\ \A i \in Needed(f.visit[p]) : ValuedAbove(f, p, Kids(f.visit[p])[i])
    BY <2>1, <2>2 DEF FrameInv
  <2>4. QED
    BY <1>3, <2>1, <2>3
<1>6. ASSUME NEW m \in DOMAIN g.visited, Marked(g, m)
      PROVE  \E p \in DOMAIN g.visit :
                /\ g.visit[p] = m
                /\ \A q \in DOMAIN g.visit : q > p => Size[g.visit[q]] < Size[m]
  <2>1. Marked(f, m) /\ m \in DOMAIN f.visited
    BY <1>6 DEF Marked
  <2>2. PICK p \in 1 .. n : /\ f.visit[p] = m
                            /\ \A q \in 1 .. n : q > p => Size[f.visit[q]] < Size[m]
    BY <1>2, <2>1 DEF FrameInv
  <2>3. p # n
    BY <1>1, <1>6, <2>2 DEF Marked, Valued
  <2>4. p \in 1 .. n - 1
    BY <1>1, <2>3
  <2>5. p \in DOMAIN g.visit /\ g.visit[p] = m
    BY <1>1, <1>2, <2>2, <2>4
  <2>6. ASSUME NEW q \in DOMAIN g.visit, q > p
        PROVE  Size[g.visit[q]] < Size[m]
    <3>1. q \in 1 .. n /\ g.visit[q] = f.visit[q]
      BY <1>1, <1>2
    <3>2. QED
      BY <2>2, <2>6, <3>1
  <2>7. QED
    BY <2>5, <2>6
<1>7. QED
  BY <1>4, <1>5, <1>6 DEF FrameInv

(* A mark put on a term.                                                   *)
LEMMA BoundMark ==
    ASSUME NEW f \in Frames, NEW g \in Frames, NEW t, t \notin DOMAIN f.visited,
           g.visited = Bind(f.visited, t, Null)
    PROVE  /\ Marked(g, t)
           /\ \A u : Valued(f, u) => Valued(g, u)
           /\ \A u : Marked(g, u) => Marked(f, u) \/ u = t
           /\ \A u : Valued(g, u) => Valued(f, u) /\ g.visited[u] = f.visited[u]
BY DEF Bind, Valued, Marked

(* A frame remains one when the term at hand gets its value.               *)
LEMMA FinishedFrame ==
    ASSUME WellTyped, NEW f \in Frames, FrameInv(f), f.visit # <<>>, NEW v \in Terms,
           NEW g, g = Finished(f, v)
    PROVE  /\ g \in Frames /\ FrameInv(g)
           /\ g.init = f.init /\ g.ctx = f.ctx /\ g.call = f.call
<1>1. LastOf(f.visit) \in Terms /\ FrontOf(f.visit) \in Seq(Terms) /\ f.visited \in Visiteds
  BY FieldFacts, TopFacts
<1>2. Bind(f.visited, LastOf(f.visit), v) \in Visiteds
  BY <1>1, BindVisited
<1>3. /\ g \in Frames /\ g.init = f.init /\ g.ctx = f.ctx /\ g.call = f.call
      /\ g.visited = Bind(f.visited, LastOf(f.visit), v) /\ g.visit = FrontOf(f.visit)
  BY <1>1, <1>2, UpdatedFacts DEF Finished
<1>4. v # Null
  BY DEF WellTyped
<1>5. \A t : g.visited = Bind(f.visited, t, v) =>
                /\ Valued(g, t)
                /\ \A u : Valued(f, u) => Valued(g, u)
                /\ \A u : Marked(g, u) => Marked(f, u)
  BY <1>3, <1>4 DEF Bind, Valued, Marked
<1>6. /\ Valued(g, LastOf(f.visit))
      /\ \A u : Valued(f, u) => Valued(g, u)
      /\ \A u : Marked(g, u) => Marked(f, u)
  BY <1>3, <1>5, Zenon
<1>7. FrameInv(g)
  BY <1>3, <1>6, PopFrame
<1>8. QED
  BY <1>3, <1>7

(* A frame remains one when a term that has its value is popped.           *)
LEMMA PoppedFrame ==
    ASSUME NEW f \in Frames, FrameInv(f), f.visit # <<>>, Valued(f, LastOf(f.visit)),
           NEW g, g = Popped(f)
    PROVE  /\ g \in Frames /\ FrameInv(g)
           /\ g.init = f.init /\ g.ctx = f.ctx /\ g.call = f.call
<1>1. FrontOf(f.visit) \in Seq(Terms) /\ f.visited \in Visiteds
  BY FieldFacts, TopFacts
<1>2. /\ g \in Frames /\ g.init = f.init /\ g.ctx = f.ctx /\ g.call = f.call
      /\ g.visited = f.visited /\ g.visit = FrontOf(f.visit)
  BY <1>1, UpdatedFacts DEF Popped
<1>3. \A u : (Valued(g, u) <=> Valued(f, u)) /\ (Marked(g, u) <=> Marked(f, u))
  BY <1>2 DEF Valued, Marked
<1>4. FrameInv(g)
  BY <1>2, <1>3, PopFrame
<1>5. QED
  BY <1>2, <1>4

(* The term at hand, if it is marked, has the values of the children that  *)
(* were to be visited first.                                               *)
LEMMA ChildrenValued ==
    ASSUME NEW f \in Frames, FrameInv(f), f.visit # <<>>, Marked(f, LastOf(f.visit))
    PROVE  /\ ~Malformed(LastOf(f.visit))
           /\ \A i \in Needed(LastOf(f.visit)) : Valued(f, Kids(LastOf(f.visit))[i])
<1> DEFINE n == Len(f.visit)
<1>1. f.visit \in Seq(Terms)
  BY FieldFacts
<1>2. n \in DOMAIN f.visit /\ LastOf(f.visit) = f.visit[n]
  BY <1>1 DEF LastOf
<1>3. \A q \in DOMAIN f.visit : ~(q > n)
  BY <1>1
<1> HIDE DEF n
<1>4. /\ ~Malformed(f.visit[n])
      /\ \A i \in Needed(f.visit[n]) : ValuedAbove(f, n, Kids(f.visit[n])[i])
  BY <1>2 DEF FrameInv
<1>5. QED
  BY <1>2, <1>3, <1>4 DEF ValuedAbove

(* The elements of a concatenation.                                        *)
LEMMA ConcatFacts ==
    ASSUME NEW S, NEW s \in Seq(S), NEW e \in Seq(S), NEW c, c = s \o e
    PROVE  /\ c \in Seq(S)
           /\ DOMAIN c = 1 .. Len(s) + Len(e)
           /\ \A i \in 1 .. Len(s) : c[i] = s[i]
           /\ \A i \in 1 .. Len(e) : c[Len(s) + i] = e[i]
           /\ \A i \in Len(s) + 1 .. Len(s) + Len(e) : c[i] = e[i - Len(s)]
OBVIOUS

(* Pushing children of the term at hand: none of them is marked, because   *)
(* what is marked is not smaller than the term at hand.                    *)
LEMMA PushFrame ==
    ASSUME WellFounded, NEW f \in Frames, NEW g \in Frames, FrameInv(f), f.visit # <<>>,
           NEW t, t = LastOf(f.visit),
           NEW ts \in Seq(Terms),
           \A j \in 1 .. Len(ts) : \E i \in 1 .. Len(Kids(t)) : ts[j] = Kids(t)[i],
           g.init = f.init, g.visit = f.visit \o ts,
           \A u : Valued(f, u) => Valued(g, u),
           \A u : Marked(g, u) => Marked(f, u) \/ u = t,
           ~Malformed(t),
           \A i \in Needed(t) : \/ Valued(g, Kids(t)[i])
                                \/ \E j \in 1 .. Len(ts) : ts[j] = Kids(t)[i]
    PROVE  FrameInv(g)
<1> DEFINE n == Len(f.visit)
           k == Len(ts)
<1>1. f.visit \in Seq(Terms)
  BY FieldFacts
<1>2. n \in Nat /\ n >= 1 /\ t = f.visit[n] /\ t \in Terms /\ k \in Nat /\ DOMAIN f.visit = 1 .. n
  <2>1. n \in Nat /\ n >= 1 /\ t = f.visit[n] /\ t \in Terms
    BY <1>1, TopFacts, Zenon
  <2>2. k \in Nat /\ DOMAIN f.visit = 1 .. n
    BY <1>1
  <2>3. QED
    BY <2>1, <2>2
<1>3. /\ g.visit \in Seq(Terms)
      /\ DOMAIN g.visit = 1 .. n + k
      /\ \A i \in 1 .. n : g.visit[i] = f.visit[i]
      /\ \A i \in 1 .. k : g.visit[n + i] = ts[i]
      /\ \A i \in n + 1 .. n + k : g.visit[i] = ts[i - n]
  BY <1>1, ConcatFacts
<1>4. \A i \in n + 1 .. n + k : i - n \in 1 .. k
  BY <1>2
<1>5. /\ \A j \in 1 .. k : n + j \in 1 .. n + k
      /\ \A i \in 1 .. n : i \in 1 .. n + k
      /\ \A i \in 1 .. n + k : i \in 1 .. n \/ i \in n + 1 .. n + k
  BY <1>2
<1>6. \A j \in 1 .. k : ts[j] \in Terms
  OBVIOUS
<1>7. Size \in [Terms -> Nat] /\ \A j \in 1 .. k : Size[ts[j]] < Size[t]
  BY <1>2, SizeFacts
<1> HIDE DEF n, k
<1>8. ASSUME NEW p \in Nat, NEW u, ValuedAbove(f, p, u)
      PROVE  ValuedAbove(g, p, u)
  BY <1>2, <1>3, <1>5, <1>8 DEF ValuedAbove
<1>9. ValuedAbove(g, 0, g.init)
  BY <1>8 DEF FrameInv
<1>10. ASSUME NEW m, Marked(f, m), m # t
       PROVE  /\ m \in Terms
              /\ Size[t] < Size[m]
              /\ \E p \in 1 .. n : /\ f.visit[p] = m
                                   /\ \A q \in 1 .. n : q > p => Size[f.visit[q]] < Size[m]
  <2>1. m \in DOMAIN f.visited /\ m \in Terms
    BY <1>10, FieldFacts DEF Marked
  <2>2. PICK p \in 1 .. n : /\ f.visit[p] = m
                            /\ \A q \in 1 .. n : q > p => Size[f.visit[q]] < Size[m]
    BY <1>2, <1>10, <2>1 DEF FrameInv
  <2>3. p # n
    BY <1>2, <1>10, <2>2
  <2>4. n \in 1 .. n /\ n > p
    BY <1>2, <2>3
  <2>5. Size[t] < Size[m]
    BY <1>2, <2>2, <2>4
  <2>6. QED
    BY <2>1, <2>2, <2>5
<1>11. ASSUME NEW j \in 1 .. k
       PROVE  ~Marked(g, ts[j])
  <2>1. SUFFICES ASSUME Marked(g, ts[j])
                 PROVE  FALSE
    OBVIOUS
  <2>2. ts[j] \in Terms /\ Size[ts[j]] < Size[t] /\ Size[ts[j]] \in Nat /\ Size[t] \in Nat
    BY <1>2, <1>6, <1>7
  <2>3. ts[j] # t
    BY <2>2
  <2>4. Marked(f, ts[j])
    BY <2>1, <2>3
  <2>5. Size[t] < Size[ts[j]]
    BY <1>10, <2>3, <2>4
  <2>6. QED
    BY <2>2, <2>5
<1>12. ASSUME NEW p \in DOMAIN g.visit, Marked(g, g.visit[p])
       PROVE  /\ ~Malformed(g.visit[p])
              /\ \A i \in Needed(g.visit[p]) : ValuedAbove(g, p, Kids(g.visit[p])[i])
  <2>1. p \in 1 .. n
    <3>1. CASE p \in n + 1 .. n + k
      BY <1>3, <1>4, <1>11, <1>12, <3>1
    <3>2. QED
      BY <1>3, <1>5, <3>1
  <2>2. g.visit[p] = f.visit[p] /\ p \in Nat /\ p \in DOMAIN f.visit
    BY <1>2, <1>3, <2>1
  <2>3. CASE g.visit[p] = t
    <3>1. \A j \in 1 .. k : n + j \in DOMAIN g.visit /\ n + j > p /\ g.visit[n + j] = ts[j]
      <4>1. \A j \in 1 .. k : n + j > p
        BY <1>2, <2>1
      <4>2. QED
        BY <1>3, <1>5, <4>1
    <3>2. \A i \in Needed(t) : ValuedAbove(g, p, Kids(t)[i])
      <4>1. ASSUME NEW i \in Needed(t)
            PROVE  ValuedAbove(g, p, Kids(t)[i])
        <5>1. CASE Valued(g, Kids(t)[i])
          BY <5>1 DEF ValuedAbove
        <5>2. CASE \E j \in 1 .. k : ts[j] = Kids(t)[i]
          <6>1. PICK j \in 1 .. k : ts[j] = Kids(t)[i]
            BY <5>2
          <6>2. n + j \in DOMAIN g.visit /\ n + j > p /\ g.visit[n + j] = Kids(t)[i]
            BY <3>1, <6>1
          <6>3. QED
            BY <6>2 DEF ValuedAbove
        <5>3. QED
          BY <4>1, <5>1, <5>2 DEF k
      <4>2. QED
        BY <4>1
    <3>3. QED
      BY <2>3, <3>2
  <2>4. CASE g.visit[p] # t
    <3>1. Marked(f, f.visit[p])
      BY <1>12, <2>2, <2>4
    <3>2. /\ ~Malformed(f.visit[p])
          /\ \A i \in Needed(f.visit[p]) : ValuedAbove(f, p, Kids(f.visit[p])[i])
      BY <2>2, <3>1 DEF FrameInv
    <3>3. QED
      BY <1>8, <2>2, <3>2
  <2>5. QED
    BY <2>3, <2>4
<1>13. ASSUME NEW m \in DOMAIN g.visited, Marked(g, m)
       PROVE  \E p \in DOMAIN g.visit :
                 /\ g.visit[p] = m
                 /\ \A q \in DOMAIN g.visit : q > p => Size[g.visit[q]] < Size[m]
  <2>1. CASE m = t
    <3>1. n \in DOMAIN g.visit /\ g.visit[n] = m
      BY <1>2, <1>3, <1>5, <2>1
    <3>2. ASSUME NEW q \in DOMAIN g.visit, q > n
          PROVE  Size[g.visit[q]] < Size[m]
      <4>1. q \in n + 1 .. n + k
        BY <1>2, <1>3, <3>2
      <4>2. q - n \in 1 .. k /\ g.visit[q] = ts[q - n]
        BY <1>3, <1>4, <4>1
      <4>3. QED
        BY <1>7, <2>1, <4>2
    <3>3. QED
      BY <3>1, <3>2
  <2>2. CASE m # t
    <3>1. Marked(f, m)
      BY <1>13, <2>2
    <3>2. m \in Terms /\ Size[t] < Size[m]
      BY <1>10, <2>2, <3>1
    <3>3. PICK p \in 1 .. n : /\ f.visit[p] = m
                              /\ \A q \in 1 .. n : q > p => Size[f.visit[q]] < Size[m]
      BY <1>10, <2>2, <3>1
    <3>4. p \in DOMAIN g.visit /\ g.visit[p] = m
      BY <1>3, <1>5, <3>3
    <3>5. ASSUME NEW q \in DOMAIN g.visit, q > p
          PROVE  Size[g.visit[q]] < Size[m]
      <4>1. CASE q \in 1 .. n
        BY <1>3, <3>3, <3>5, <4>1
      <4>2. CASE q \in n + 1 .. n + k
        <5>1. q - n \in 1 .. k /\ g.visit[q] = ts[q - n]
          BY <1>3, <1>4, <4>2
        <5>2. Size[ts[q - n]] < Size[t] /\ ts[q - n] \in Terms
          BY <1>6, <1>7, <5>1
        <5>3. Size[ts[q - n]] \in Nat /\ Size[t] \in Nat /\ Size[m] \in Nat
          BY <1>2, <1>7, <3>2, <5>2
        <5>4. QED
          BY <3>2, <5>1, <5>2, <5>3
      <4>3. QED
        BY <1>3, <1>5, <4>1, <4>2
    <3>6. QED
      BY <3>4, <3>5
  <2>3. QED
    BY <2>1, <2>2
<1>14. QED
  BY <1>9, <1>12, <1>13 DEF FrameInv

(* A frame remains one when the children of a new term are pushed.         *)
LEMMA OpenedFrame ==
    ASSUME WellFounded, WellTyped, NEW f \in Frames, FrameInv(f), f.visit # <<>>,
           NEW t, t = LastOf(f.visit), t \notin DOMAIN f.visited, ~Malformed(t),
           NEW ts \in Seq(Terms),
           \A j \in 1 .. Len(ts) : \E i \in 1 .. Len(Kids(t)) : ts[j] = Kids(t)[i],
           \A i \in Needed(t) : \E j \in 1 .. Len(ts) : ts[j] = Kids(t)[i],
           NEW g, g = Opened(f, ts)
    PROVE  /\ g \in Frames /\ FrameInv(g)
           /\ g.init = f.init /\ g.ctx = f.ctx /\ g.call = f.call
<1>1. t \in Terms /\ f.visit \in Seq(Terms) /\ f.visited \in Visiteds
  BY FieldFacts, TopFacts
<1>2. Bind(f.visited, t, Null) \in Visiteds /\ f.visit \o ts \in Seq(Terms)
  BY <1>1, BindVisited
<1>3. /\ g \in Frames /\ g.init = f.init /\ g.ctx = f.ctx /\ g.call = f.call
      /\ g.visited = Bind(f.visited, t, Null) /\ g.visit = f.visit \o ts
  <2>1. PICK s \in Seq(Terms) : s = f.visit \o ts
    BY <1>2
  <2>2. PICK w \in Visiteds : w = Bind(f.visited, t, Null)
    BY <1>2
  <2>3. g = Updated(f, w, s)
    BY <2>1, <2>2, Zenon DEF Opened
  <2>4. /\ g \in Frames /\ g.init = f.init /\ g.ctx = f.ctx /\ g.call = f.call
        /\ g.visited = w /\ g.visit = s
    BY <2>3, UpdatedFacts
  <2>5. QED
    BY <2>1, <2>2, <2>4, Zenon
<1>4. /\ \A u : Valued(f, u) => Valued(g, u)
      /\ \A u : Marked(g, u) => Marked(f, u) \/ u = t
  BY <1>3, BoundMark, Zenon
<1>5. FrameInv(g)
  BY <1>3, <1>4, PushFrame
<1>6. QED
  BY <1>3, <1>5

(* A frame remains one when branches of an if-then-else are pushed.        *)
LEMMA PushedFrame ==
    ASSUME WellFounded, NEW f \in Frames, FrameInv(f), f.visit # <<>>,
           NEW t, t = LastOf(f.visit), Marked(f, t),
           NEW ts \in Seq(Terms),
           \A j \in 1 .. Len(ts) : \E i \in 1 .. Len(Kids(t)) : ts[j] = Kids(t)[i],
           NEW g, g = Pushed(f, ts)
    PROVE  /\ g \in Frames /\ FrameInv(g)
           /\ g.init = f.init /\ g.ctx = f.ctx /\ g.call = f.call
<1>1. f.visit \in Seq(Terms) /\ f.visited \in Visiteds /\ f.visit \o ts \in Seq(Terms)
  BY FieldFacts
<1>2. /\ g \in Frames /\ g.init = f.init /\ g.ctx = f.ctx /\ g.call = f.call
      /\ g.visited = f.visited /\ g.visit = f.visit \o ts
  <2>1. PICK s \in Seq(Terms) : s = f.visit \o ts
    BY <1>1
  <2>2. g = Updated(f, f.visited, s)
    BY <2>1, Zenon DEF Pushed
  <2>3. /\ g \in Frames /\ g.init = f.init /\ g.ctx = f.ctx /\ g.call = f.call
        /\ g.visited = f.visited /\ g.visit = s
    BY <1>1, <2>2, UpdatedFacts
  <2>4. QED
    BY <2>1, <2>3, Zenon
<1>3. \A u : (Valued(g, u) <=> Valued(f, u)) /\ (Marked(g, u) <=> Marked(f, u))
  BY <1>2 DEF Valued, Marked
<1>4. ~Malformed(t) /\ \A i \in Needed(t) : Valued(g, Kids(t)[i])
  BY <1>3, ChildrenValued
<1>5. FrameInv(g)
  BY <1>2, <1>3, <1>4, PushFrame
<1>6. QED
  BY <1>2, <1>5

(* The values of the children of a term, once they have been visited.      *)
LEMMA ArgsFacts ==
    ASSUME WellTyped, NEW f \in Frames, FrameInv(f), f.visit # <<>>,
           NEW t, t = LastOf(f.visit), Marked(f, t),
           NEW ts, ts = ArgsIn(f, t)
    PROVE  /\ t \in Terms
           /\ Kids(t) \in Seq(Terms)
           /\ ts \in Seq(Terms \cup {Null})
           /\ Len(ts) = Len(Kids(t))
           /\ Kind(t) # "ite" => ts \in Seq(Terms)
           /\ Kind(t) = "ite" => Len(Kids(t)) = 3 /\ ts[1] \in Terms
           /\ Kind(t) = "ite" /\ ts[2] # Null /\ ts[3] # Null => ts \in Seq(Terms)
<1>1. t \in Terms /\ Kids(t) \in Seq(Terms)
  BY FieldFacts, TopFacts DEF WellTyped
<1>2. /\ ts = [i \in 1 .. Len(Kids(t)) |-> Value(f, Kids(t)[i])]
      /\ Len(Kids(t)) \in Nat
  BY <1>1 DEF ArgsIn
<1>3. \A u : Value(f, u) \in Terms \cup {Null} /\ (Valued(f, u) => Value(f, u) \in Terms)
  BY FieldFacts DEF Value, Valued
<1>4. ts \in Seq(Terms \cup {Null}) /\ Len(ts) = Len(Kids(t))
  BY <1>2, <1>3
<1>5. /\ ~Malformed(t)
      /\ \A i \in Needed(t) : Valued(f, Kids(t)[i])
  BY ChildrenValued
<1>6. ASSUME Kind(t) # "ite"
      PROVE  ts \in Seq(Terms)
  <2>1. \A i \in 1 .. Len(Kids(t)) : Valued(f, Kids(t)[i])
    BY <1>5, <1>6 DEF Needed
  <2>2. \A i \in 1 .. Len(Kids(t)) : Value(f, Kids(t)[i]) \in Terms
    BY <1>3, <2>1
  <2>3. QED
    BY <1>2, <2>2
<1>7. ASSUME Kind(t) = "ite"
      PROVE  Len(Kids(t)) = 3 /\ ts[1] \in Terms
  <2>1. Len(Kids(t)) = 3
    BY <1>5, <1>7 DEF Malformed
  <2>2. Valued(f, Kids(t)[1])
    BY <1>5, <1>7 DEF Needed
  <2>3. ts[1] = Value(f, Kids(t)[1])
    BY <1>2, <2>1
  <2>4. QED
    BY <1>3, <2>1, <2>2, <2>3
<1>8. ASSUME Kind(t) = "ite", ts[2] # Null, ts[3] # Null
      PROVE  ts \in Seq(Terms)
  <2>1. Len(ts) = 3 /\ ts[1] \in Terms
    BY <1>4, <1>7, <1>8
  <2>2. \A i \in 1 .. Len(Kids(t)) : ts[i] \in Terms
    BY <1>4, <1>8, <2>1
  <2>3. \A i \in 1 .. Len(Kids(t)) : Value(f, Kids(t)[i]) \in Terms
    BY <1>2, <2>2
  <2>4. QED
    BY <1>2, <2>3
<1>9. QED
  BY <1>1, <1>4, <1>6, <1>7, <1>8

-----------------------------------------------------------------------------
(* The stack of frames *)

StackInv(es) ==
    /\ es \in Seq(Frames)
    /\ \A i \in DOMAIN es : FrameInv(es[i])
    /\ \A i \in 1 .. Len(es) - 1 : Awaits(es[i], es[i + 1])

(* g is f as far as the frame below it can tell.                           *)
SameCall(f, g) == g.init = f.init /\ g.ctx = f.ctx /\ g.call = f.call

(* What a frame waits for is told by its term, context and call.           *)
LEMMA AwaitsSame ==
    ASSUME NEW f, NEW g, NEW h, Awaits(f, g), SameCall(g, h)
    PROVE  Awaits(f, h)
BY DEF Awaits, SameCall

(* Arithmetic of positions.                                                *)
LEMMA IndexFacts ==
    ASSUME NEW n \in Nat, n >= 1
    PROVE  /\ n - 1 \in Nat /\ n \in 1 .. n
           /\ \A i \in 1 .. n : i = n \/ i \in 1 .. n - 1
           /\ \A i \in 1 .. n - 1 : i \in 1 .. n /\ i + 1 \in 1 .. n /\ i # n
OBVIOUS

(* A function on the positions up to k is a sequence of length k.          *)
LEMMA SeqFacts ==
    ASSUME NEW S, NEW r, NEW k \in Nat, r \in [1 .. k -> S]
    PROVE  r \in Seq(S) /\ Len(r) = k /\ DOMAIN r = 1 .. k
<1>1. r \in Seq(S)
  BY SeqDef
<1>2. Len(r) \in Nat /\ DOMAIN r = 1 .. Len(r)
  BY <1>1
<1>3. 1 .. k = 1 .. Len(r)
  BY <1>2
<1>4. k = Len(r)
  BY <1>2, <1>3
<1>5. QED
  BY <1>1, <1>2, <1>4

(* Another frame takes the place of the innermost one, for the same call.  *)
LEMMA TopReplaced ==
    ASSUME NEW es, StackInv(es), es # <<>>,
           NEW g \in Frames, FrameInv(g), SameCall(LastOf(es), g),
           NEW fs, fs \in [DOMAIN es -> Frames],
           \A i \in DOMAIN es : fs[i] = IF i = Len(es) THEN g ELSE es[i]
    PROVE  /\ StackInv(fs)
           /\ Len(fs) = Len(es)
           /\ \A i \in DOMAIN fs : i \in DOMAIN es /\ fs[i].call = es[i].call
<1> DEFINE n == Len(es)
<1>1. /\ es \in Seq(Frames) /\ n \in Nat /\ n >= 1 /\ DOMAIN es = 1 .. n
      /\ LastOf(es) = es[n]
  BY DEF StackInv, LastOf
<1>2. /\ fs \in Seq(Frames) /\ Len(fs) = n /\ DOMAIN fs = 1 .. n
      /\ fs[n] = g
      /\ \A i \in 1 .. n - 1 : fs[i] = es[i]
  <2>1. fs \in [1 .. n -> Frames]
    BY <1>1
  <2>2. fs \in Seq(Frames) /\ Len(fs) = n /\ DOMAIN fs = 1 .. n
    BY <1>1, <2>1, SeqFacts
  <2>3. \A i \in 1 .. n - 1 : i \in 1 .. n /\ i # n
    BY <1>1, IndexFacts, Zenon
  <2>4. n \in DOMAIN es /\ \A i \in 1 .. n - 1 : i \in DOMAIN es /\ i # n
    BY <1>1, <2>3, IndexFacts, Zenon
  <2>5. \A i \in DOMAIN es : fs[i] = IF i = n THEN g ELSE es[i]
    OBVIOUS
  <2>6. fs[n] = g /\ \A i \in 1 .. n - 1 : fs[i] = es[i]
    BY <2>4, <2>5, Zenon
  <2>7. QED
    BY <2>2, <2>6
<1>3. \A i \in 1 .. n : i = n \/ i \in 1 .. n - 1
  BY <1>1, IndexFacts, Zenon
<1> HIDE DEF n
<1>4. \A i \in 1 .. n : SameCall(es[i], fs[i])
  BY <1>1, <1>2, <1>3 DEF SameCall
<1>5. \A i \in 1 .. n : FrameInv(fs[i])
  BY <1>1, <1>2, <1>3 DEF StackInv
<1>6. ASSUME NEW i \in 1 .. n - 1
      PROVE  Awaits(fs[i], fs[i + 1])
  <2>1. i + 1 \in 1 .. n /\ fs[i] = es[i]
    BY <1>1, <1>2
  <2>2. Awaits(es[i], es[i + 1])
    BY <1>6 DEF StackInv, n
  <2>3. SameCall(es[i + 1], fs[i + 1])
    BY <1>4, <2>1
  <2>4. QED
    BY <2>1, <2>2, <2>3, AwaitsSame
<1>7. StackInv(fs)
  BY <1>2, <1>5, <1>6 DEF StackInv
<1>8. QED
  BY <1>1, <1>2, <1>4, <1>7 DEF SameCall, n

(* A frame is pushed that the innermost one waits for.                     *)
LEMMA TopAdded ==
    ASSUME NEW es, StackInv(es), es # <<>>,
           NEW g \in Frames, FrameInv(g), Awaits(LastOf(es), g),
           NEW fs \in Seq(Frames), Len(fs) = Len(es) + 1,
           fs[Len(es) + 1] = g, \A i \in 1 .. Len(es) : fs[i] = es[i]
    PROVE  /\ StackInv(fs)
           /\ \A i \in DOMAIN fs : fs[i] = g \/ (i \in DOMAIN es /\ fs[i] = es[i])
<1> DEFINE n == Len(es)
<1>1. /\ es \in Seq(Frames) /\ n \in Nat /\ n >= 1 /\ DOMAIN es = 1 .. n
      /\ LastOf(es) = es[n]
  BY DEF StackInv, LastOf
<1>2. /\ fs \in Seq(Frames) /\ Len(fs) = n + 1 /\ DOMAIN fs = 1 .. n + 1
      /\ fs[n + 1] = g
      /\ \A i \in 1 .. n : fs[i] = es[i]
  BY <1>1
<1>3. /\ \A i \in 1 .. n + 1 : i = n + 1 \/ i \in 1 .. n
      /\ Len(fs) - 1 = n
  BY <1>1, <1>2
<1> HIDE DEF n
<1>4. \A i \in 1 .. n + 1 : FrameInv(fs[i])
  BY <1>1, <1>2, <1>3 DEF StackInv
<1>5. ASSUME NEW i \in 1 .. n
      PROVE  Awaits(fs[i], fs[i + 1])
  <2>1. CASE i = n
    BY <1>1, <1>2, <2>1
  <2>2. CASE i # n
    <3>1. i \in 1 .. n - 1 /\ i + 1 \in 1 .. n
      BY <1>1, <2>2
    <3>2. Awaits(es[i], es[i + 1])
      BY <3>1 DEF StackInv, n
    <3>3. QED
      BY <1>2, <3>1, <3>2
  <2>3. QED
    BY <2>1, <2>2
<1>6. StackInv(fs)
  BY <1>2, <1>3, <1>4, <1>5 DEF StackInv
<1>7. QED
  BY <1>1, <1>2, <1>3, <1>6

(* The innermost frame is popped, and its value goes to the one below.     *)
LEMMA TopReturned ==
    ASSUME WellTyped, NEW es, StackInv(es), es # <<>>, NEW v \in Terms,
           NEW fs, fs = [i \in 1 .. Len(es) - 1 |->
                            IF i = Len(es) - 1 THEN Finished(es[i], v) ELSE es[i]]
    PROVE  /\ StackInv(fs)
           /\ Len(fs) = Len(es) - 1
           /\ \A i \in DOMAIN fs : i \in DOMAIN es /\ fs[i].call = es[i].call
<1> DEFINE n == Len(es)
<1>1. es \in Seq(Frames) /\ n \in Nat /\ n >= 1 /\ DOMAIN es = 1 .. n
  BY DEF StackInv
<1>2. /\ fs = [i \in 1 .. n - 1 |-> IF i = n - 1 THEN Finished(es[i], v) ELSE es[i]]
      /\ n - 1 \in Nat
      /\ \A i \in 1 .. n - 1 : i \in 1 .. n /\ i + 1 \in 1 .. n
  BY <1>1, IndexFacts, Zenon
<1>3. \A i \in 1 .. n - 1 : Awaits(es[i], es[i + 1]) /\ es[i] \in Frames /\ FrameInv(es[i])
  <2>1. \A i \in 1 .. n : es[i] \in Frames /\ FrameInv(es[i])
    BY <1>1, ElementOfSeq, Zenon DEF StackInv
  <2>2. \A i \in 1 .. n - 1 : Awaits(es[i], es[i + 1])
    BY DEF StackInv
  <2>3. QED
    BY <1>2, <2>1, <2>2, Zenon
<1> HIDE DEF n
<1>4. ASSUME NEW i \in 1 .. n - 1
      PROVE  fs[i] \in Frames /\ FrameInv(fs[i]) /\ SameCall(es[i], fs[i])
  <2>1. CASE i = n - 1
    <3>1. fs[i] = Finished(es[i], v)
      BY <1>2, <2>1
    <3>2. es[i].visit # <<>>
      BY <1>3 DEF Awaits
    <3>3. QED
      BY <1>3, <3>1, <3>2, FinishedFrame DEF SameCall
  <2>2. CASE i # n - 1
    <3>1. fs[i] = es[i]
      BY <1>2, <2>2
    <3>2. QED
      BY <1>3, <3>1 DEF SameCall
  <2>3. QED
    BY <2>1, <2>2
<1>5. fs \in Seq(Frames) /\ Len(fs) = n - 1 /\ DOMAIN fs = 1 .. n - 1
  <2>1. PICK k \in Nat : k = n - 1
    BY <1>2
  <2>2. fs \in [1 .. k -> Frames]
    BY <1>2, <1>4, <2>1, Zenon
  <2>3. fs \in Seq(Frames) /\ Len(fs) = k /\ DOMAIN fs = 1 .. k
    BY <2>2, SeqFacts
  <2>4. QED
    BY <2>1, <2>3
<1>6. ASSUME NEW i \in 1 .. Len(fs) - 1
      PROVE  Awaits(fs[i], fs[i + 1])
  <2>1. i \in 1 .. n - 1 /\ i + 1 \in 1 .. n - 1 /\ i # n - 1
    BY <1>2, <1>5
  <2>2. fs[i] = es[i] /\ Awaits(es[i], es[i + 1]) /\ SameCall(es[i + 1], fs[i + 1])
    BY <1>2, <1>3, <1>4, <2>1
  <2>3. QED
    BY <2>2, AwaitsSame
<1>7. StackInv(fs)
  BY <1>4, <1>5, <1>6 DEF StackInv
<1>8. QED
  BY <1>1, <1>2, <1>4, <1>5, <1>7 DEF SameCall, n

-----------------------------------------------------------------------------
(* The invariant *)

(* The answer of every entry is kept or is what its case gave at once; the *)
(* arguments of every entry and of every call in progress are kept.        *)
Kept ==
    /\ \A k \in DOMAIN evalTrie :
          /\ ElementsOf(k) \subseteq keep
          /\ evalTrie[k] \in keep \/ evalTrie[k] = Interpret(k).body
    /\ \A i \in DOMAIN estack : ElementsOf(estack[i].call) \subseteq keep

Inv ==
    /\ input.term \in Terms /\ input.ctx \in Ctxs
    /\ StackInv(estack)
    /\ evalTrie \in Tries
    /\ keep \subseteq Terms
    /\ result \in Terms \cup {Null}
    /\ Kept

(* The invariant holds when evaluate is called.                            *)
LEMMA InitInv ==
    ASSUME WellTyped, Init
    PROVE  Inv
<1>1. input.term \in Terms /\ input.ctx \in Ctxs
  BY DEF WellTyped, Init
<1>2. PICK f \in Frames : /\ f = Frame(input.term, input.ctx, NoCall)
                          /\ FrameInv(f) /\ f.call = <<>>
  <2>1. NoCall \in Seq(Terms) /\ NoCall = <<>>
    BY DEF NoCall
  <2>2. Frame(input.term, input.ctx, NoCall).call = <<>>
    BY <2>1 DEF Frame
  <2>3. QED
    BY <1>1, <2>1, <2>2, FreshFrame
<1>3. estack = <<f>>
  BY <1>2, Zenon DEF Init
<1>4. estack \in Seq(Frames) /\ Len(estack) = 1 /\ DOMAIN estack = {1} /\ estack[1] = f
  BY <1>3
<1>5. StackInv(estack)
  BY <1>2, <1>4 DEF StackInv
<1>6. evalTrie \in Tries /\ DOMAIN evalTrie = {}
  <2>1. evalTrie = <<>> /\ DOMAIN evalTrie = {}
    BY DEF Init
  <2>2. DOMAIN evalTrie \subseteq Seq(Terms) /\ evalTrie \in [DOMAIN evalTrie -> Terms \cup {Null}]
    BY <2>1
  <2>3. QED
    BY <2>1, <2>2, TrieFacts
<1>7. ElementsOf(<<>>) = {}
  BY DEF ElementsOf
<1>8. Kept
  BY <1>2, <1>4, <1>6, <1>7 DEF Kept
<1>9. keep \subseteq Terms /\ result \in Terms \cup {Null}
  BY DEF Init
<1>10. QED
  BY <1>1, <1>5, <1>6, <1>8, <1>9 DEF Inv

(* The innermost frame.                                                    *)
LEMMA TopInv ==
    ASSUME Inv, estack # <<>>
    PROVE  /\ estack \in Seq(Frames) /\ Len(estack) \in DOMAIN estack
           /\ Top = estack[Len(estack)]
           /\ Top \in Frames /\ FrameInv(Top) /\ Top.call \in Seq(Terms)
           /\ ElementsOf(Top.call) \subseteq keep
<1>1. estack \in Seq(Frames) /\ Len(estack) \in DOMAIN estack
  BY DEF Inv, StackInv
<1>2. Top = estack[Len(estack)]
  BY DEF Top, LastOf
<1>3. Top \in Frames /\ FrameInv(Top)
  BY <1>1, <1>2 DEF Inv, StackInv
<1>4. ElementsOf(Top.call) \subseteq keep
  BY <1>1, <1>2 DEF Inv, Kept
<1>5. QED
  BY <1>1, <1>2, <1>3, <1>4, FieldFacts

(* The term at hand.                                                       *)
LEMMA CurFacts ==
    ASSUME Inv, Visiting
    PROVE  /\ estack # <<>> /\ Top \in Frames /\ FrameInv(Top) /\ Top.visit # <<>>
           /\ cur = LastOf(Top.visit) /\ cur \in Terms
<1>1. estack # <<>> /\ Top.visit # <<>> /\ Top \in Frames /\ FrameInv(Top)
  BY TopInv DEF Visiting
<1>2. Top.visit \in Seq(Terms)
  BY <1>1, FieldFacts
<1>3. QED
  BY <1>1, <1>2, TopFacts, Zenon DEF cur

(* The entries of a trie with what holds for them.                         *)
TrieInv(tr, k) ==
    /\ tr \in Tries
    /\ \A c \in DOMAIN tr :
          /\ ElementsOf(c) \subseteq k
          /\ tr[c] \in k \/ tr[c] = Interpret(c).body

(* A step that changes the innermost frame.                                *)
LEMMA TopStep ==
    ASSUME Inv, estack # <<>>,
           NEW g \in Frames, FrameInv(g), SameCall(Top, g), WithTop(g),
           input' = input, result' = result,
           keep \subseteq keep', keep' \subseteq Terms, TrieInv(evalTrie', keep')
    PROVE  Inv'
<1>1. StackInv(estack) /\ SameCall(LastOf(estack), g)
  BY DEF Inv, Top
<1>2. /\ estack' \in [DOMAIN estack -> Frames]
      /\ \A i \in DOMAIN estack : estack'[i] = IF i = Len(estack) THEN g ELSE estack[i]
  BY <1>1 DEF WithTop, StackInv
<1>3. /\ StackInv(estack')
      /\ \A i \in DOMAIN estack' : i \in DOMAIN estack /\ estack'[i].call = estack[i].call
  BY <1>1, <1>2, TopReplaced
<1>4. \A i \in DOMAIN estack' : ElementsOf(estack'[i].call) \subseteq keep'
  BY <1>3 DEF Inv, Kept
<1>5. Kept'
  BY <1>4 DEF Kept, TrieInv
<1>6. QED
  BY <1>3, <1>5 DEF Inv, TrieInv

(* A step that gives the term at hand its value.                           *)
LEMMA FinishStep ==
    ASSUME WellTyped, Inv, Visiting, NEW v \in Terms, Finish(v),
           input' = input, result' = result,
           keep \subseteq keep', keep' \subseteq Terms, TrieInv(evalTrie', keep')
    PROVE  Inv'
<1>1. estack # <<>> /\ Top \in Frames /\ FrameInv(Top) /\ Top.visit # <<>>
  BY CurFacts
<1>2. PICK g : g = Finished(Top, v)
  OBVIOUS
<1>3. g \in Frames /\ FrameInv(g) /\ SameCall(Top, g)
  BY <1>1, <1>2, FinishedFrame DEF SameCall
<1>4. WithTop(g)
  BY <1>2 DEF Finish
<1>5. QED
  BY <1>1, <1>3, <1>4, TopStep

(* A call and its answer are entered.                                      *)
LEMMA EntryBound ==
    ASSUME NEW tr, NEW k, TrieInv(tr, k), NEW l, k \subseteq l,
           NEW c \in Seq(Terms), ElementsOf(c) \subseteq l,
           NEW v \in Terms \cup {Null}, v \in l \/ v = Interpret(c).body,
           NEW us, us = Bind(tr, c, v)
    PROVE  TrieInv(us, l)
<1>1. us \in Tries
  BY BindTrie DEF TrieInv
<1>2. /\ DOMAIN us = DOMAIN tr \cup {c}
      /\ us[c] = v
      /\ \A d \in DOMAIN tr : d # c => us[d] = tr[d]
  BY DEF Bind
<1>3. QED
  BY <1>1, <1>2 DEF TrieInv

(* An unchanged trie loses nothing when more is kept.                      *)
LEMMA SameTrie ==
    ASSUME Inv, evalTrie' = evalTrie, keep \subseteq keep'
    PROVE  TrieInv(evalTrie', keep')
BY DEF Inv, Kept, TrieInv

-----------------------------------------------------------------------------
(* The steps *)

(* The term at hand, once its children have been visited.                  *)
LEMMA ArgsTyped ==
    ASSUME WellTyped, Inv, ChildrenVisited
    PROVE  /\ cur \in Terms
           /\ Marked(Top, cur)
           /\ Kids(cur) \in Seq(Terms)
           /\ args \in Seq(Terms \cup {Null})
           /\ Len(args) = Len(Kids(cur))
           /\ Kind(cur) # "ite" => args \in Seq(Terms)
           /\ Kind(cur) = "ite" => Len(Kids(cur)) = 3 /\ args[1] \in Terms
           /\ Kind(cur) = "ite" /\ args[2] # Null /\ args[3] # Null => args \in Seq(Terms)
<1>1. Visiting /\ Marked(Top, cur)
  BY DEF ChildrenVisited, Composite, Marked
<1>2. Top \in Frames /\ FrameInv(Top) /\ Top.visit # <<>> /\ cur = LastOf(Top.visit)
  BY <1>1, CurFacts
<1>3. args = ArgsIn(Top, cur)
  BY DEF args
<1>4. QED
  BY <1>1, <1>2, <1>3, ArgsFacts

(* The term at hand, if it is a call with known arguments.                 *)
LEMMA CalledTyped ==
    ASSUME WellTyped, Inv, Called
    PROVE  /\ Visiting /\ cur \in Terms
           /\ args \in Seq(Terms) /\ args # <<>> /\ Len(args) = Len(Kids(cur))
           /\ IsCall(cur, args)
           /\ Make(cur, args) \in Terms
           /\ ElementsOf(args) \subseteq Terms
           /\ Interpret(args).body \in Terms \cup {Null}
           /\ Interpret(args).ctx \in Ctxs
<1>1. Visiting /\ ChildrenVisited /\ IsCall(cur, args)
  BY DEF Called, ChildrenVisited, Composite
<1>2. Kind(cur) \in {"apply", "apply_opaque"} /\ Kind(cur) # "ite"
  BY <1>1 DEF IsCall
<1>3. /\ cur \in Terms /\ args \in Seq(Terms) /\ Len(args) = Len(Kids(cur))
      /\ Kids(cur) \in Seq(Terms)
  BY <1>1, <1>2, ArgsTyped
<1>4. Kids(cur) # <<>>
  BY <1>2, <1>3 DEF WellTyped
<1>5. args # <<>>
  BY <1>3, <1>4
<1>6. Make(cur, args) \in Terms
  BY <1>3 DEF WellTyped
<1>7. Interpret(args).body \in Terms \cup {Null} /\ Interpret(args).ctx \in Ctxs
  BY <1>3, <1>5 DEF WellTyped
<1>8. ElementsOf(args) \subseteq Terms
  BY <1>3 DEF ElementsOf
<1>9. QED
  BY <1>1, <1>3, <1>5, <1>6, <1>7, <1>8

(* Shortcut preserves the invariant.                                       *)
LEMMA ShortcutInv ==
    ASSUME WellTyped, Inv, Shortcut
    PROVE  Inv'
<1>1. Visiting /\ Finish(cur) /\ UNCHANGED <<input, evalTrie, keep, result>>
  BY DEF Shortcut
<1>2. cur \in Terms /\ keep \subseteq Terms
  BY <1>1, CurFacts DEF Inv
<1>3. TrieInv(evalTrie', keep')
  BY <1>1, SameTrie
<1>4. QED
  BY <1>1, <1>2, <1>3, FinishStep

(* Substitute preserves the invariant.                                     *)
LEMMA SubstituteInv ==
    ASSUME WellTyped, Inv, Substitute
    PROVE  Inv'
<1>1. PICK v : v = IF cur \in DOMAIN Top.ctx THEN Top.ctx[cur] ELSE cur
  OBVIOUS
<1>2. Visiting /\ Finish(v) /\ UNCHANGED <<input, evalTrie, keep, result>>
  BY <1>1 DEF Substitute
<1>3. cur \in Terms /\ Top.ctx \in Ctxs /\ keep \subseteq Terms
  BY <1>2, CurFacts, FieldFacts DEF Inv
<1>4. v \in Terms
  BY <1>1, <1>3 DEF Ctxs
<1>5. TrieInv(evalTrie', keep')
  BY <1>2, SameTrie
<1>6. QED
  BY <1>2, <1>3, <1>4, <1>5, FinishStep

(* VisitChildren preserves the invariant.                                  *)
LEMMA VisitChildrenInv ==
    ASSUME WellFounded, WellTyped, Inv, VisitChildren
    PROVE  Inv'
<1>1. /\ Visiting /\ cur \notin DOMAIN Top.visited
      /\ UNCHANGED <<input, evalTrie, keep, result>>
  BY DEF VisitChildren, Composite
<1>2. /\ cur \in Terms /\ keep \subseteq Terms /\ cur = LastOf(Top.visit)
      /\ estack # <<>> /\ Top \in Frames /\ FrameInv(Top) /\ Top.visit # <<>>
  BY <1>1, CurFacts DEF Inv
<1>3. TrieInv(evalTrie', keep')
  BY <1>1, SameTrie
<1>4. CASE Malformed(cur)
  <2>1. Finish(cur)
    BY <1>4 DEF VisitChildren
  <2>2. QED
    BY <1>1, <1>2, <1>3, <2>1, FinishStep
<1>5. CASE ~Malformed(cur)
  <2>1. Kids(cur) \in Seq(Terms) /\ (Kind(cur) = "ite" => Kids(cur) # <<>>)
    <3>1. Kids(cur) \in Seq(Terms)
      BY <1>2 DEF WellTyped
    <3>2. Kind(cur) = "ite" => Len(Kids(cur)) = 3
      BY <1>5 DEF Malformed
    <3>3. QED
      BY <3>1, <3>2
  <2>2. PICK ts : ts = IF Kind(cur) = "ite" THEN <<Kids(cur)[1]>> ELSE Kids(cur)
    OBVIOUS
  <2>3. /\ ts \in Seq(Terms)
        /\ \A j \in 1 .. Len(ts) : \E i \in 1 .. Len(Kids(cur)) : ts[j] = Kids(cur)[i]
        /\ \A i \in Needed(cur) : \E j \in 1 .. Len(ts) : ts[j] = Kids(cur)[i]
    BY <2>1, <2>2 DEF Needed
  <2>4. PICK g : g = Opened(Top, ts)
    OBVIOUS
  <2>5. WithTop(g)
    BY <1>5, <2>2, <2>4 DEF VisitChildren
  <2>6. g \in Frames /\ FrameInv(g) /\ SameCall(Top, g)
    BY <1>1, <1>2, <1>5, <2>3, <2>4, OpenedFrame DEF SameCall
  <2>7. QED
    BY <1>1, <1>2, <1>3, <2>5, <2>6, TopStep
<1>6. QED
  BY <1>4, <1>5

(* VisitedAlready preserves the invariant.                                 *)
LEMMA VisitedAlreadyInv ==
    ASSUME WellTyped, Inv, VisitedAlready
    PROVE  Inv'
<1>1. /\ Visiting /\ Valued(Top, cur)
      /\ UNCHANGED <<input, evalTrie, keep, result>>
  BY DEF VisitedAlready, Composite, Valued
<1>2. /\ keep \subseteq Terms /\ cur = LastOf(Top.visit)
      /\ estack # <<>> /\ Top \in Frames /\ FrameInv(Top) /\ Top.visit # <<>>
  BY <1>1, CurFacts DEF Inv
<1>3. PICK g : g = Popped(Top)
  OBVIOUS
<1>4. WithTop(g)
  BY <1>3 DEF VisitedAlready
<1>5. g \in Frames /\ FrameInv(g) /\ SameCall(Top, g)
  BY <1>1, <1>2, <1>3, PoppedFrame DEF SameCall
<1>6. TrieInv(evalTrie', keep')
  BY <1>1, SameTrie
<1>7. QED
  BY <1>1, <1>2, <1>4, <1>5, <1>6, TopStep

(* What the call at hand leaves in the trie.                               *)
LEMMA CallKept ==
    ASSUME WellTyped, Inv, Called, KeepArgs
    PROVE  /\ keep \subseteq keep' /\ keep' \subseteq Terms
           /\ ElementsOf(args) \subseteq keep'
           /\ evalTrie' = evalTrie => TrieInv(evalTrie', keep')
BY CalledTyped, SameTrie DEF Inv, KeepArgs

(* CallCached preserves the invariant.                                     *)
LEMMA CallCachedInv ==
    ASSUME WellTyped, Inv, CallCached
    PROVE  Inv'
<1>1. /\ Called /\ KeepArgs /\ args \in DOMAIN evalTrie
      /\ UNCHANGED <<input, evalTrie, result>>
  BY DEF CallCached
<1>2. PICK v : v = Or(evalTrie[args], Make(cur, args))
  OBVIOUS
<1>3. Finish(v)
  BY <1>2 DEF CallCached
<1>4. v \in Terms
  <2>1. evalTrie[args] \in Terms \cup {Null}
    BY <1>1, TrieFacts DEF Inv
  <2>2. QED
    BY <1>1, <1>2, <2>1, CalledTyped DEF Or
<1>5. QED
  BY <1>1, <1>3, <1>4, CalledTyped, CallKept, FinishStep

(* CallShortCircuited preserves the invariant.                             *)
LEMMA CallShortCircuitedInv ==
    ASSUME WellTyped, Inv, CallShortCircuited
    PROVE  Inv'
<1>1. /\ Called /\ KeepArgs
      /\ UNCHANGED <<input, result>>
  BY DEF CallShortCircuited
<1>2. PICK b : b = Interpret(args).body
  OBVIOUS
<1>3. PICK v : v = Or(b, Make(cur, args))
  OBVIOUS
<1>4. Finish(v) /\ evalTrie' = Bind(evalTrie, args, b)
  BY <1>2, <1>3 DEF CallShortCircuited
<1>5. /\ args \in Seq(Terms) /\ b \in Terms \cup {Null} /\ v \in Terms /\ Visiting
      /\ keep \subseteq keep' /\ keep' \subseteq Terms /\ ElementsOf(args) \subseteq keep'
  BY <1>1, <1>2, <1>3, CalledTyped, CallKept DEF Or
<1>6. TrieInv(evalTrie, keep)
  BY DEF Inv, Kept, TrieInv
<1>7. TrieInv(evalTrie', keep')
  BY <1>2, <1>4, <1>5, <1>6, EntryBound
<1>8. QED
  BY <1>1, <1>4, <1>5, <1>7, FinishStep

(* CallEntered preserves the invariant.                                    *)
LEMMA CallEnteredInv ==
    ASSUME WellTyped, Inv, CallEntered
    PROVE  Inv'
<1>1. /\ Called /\ KeepArgs
      /\ UNCHANGED <<input, evalTrie, result>>
  BY DEF CallEntered
<1>2. ~ShortCircuits(Interpret(args))
  BY DEF CallEntered
<1>3. PICK g : g = Frame(Interpret(args).body, Interpret(args).ctx, args)
  OBVIOUS
<1>4. estack' = Append(estack, g)
  BY <1>3 DEF CallEntered
<1>5. /\ Visiting /\ args \in Seq(Terms) /\ IsCall(cur, args)
      /\ Interpret(args).body \in Terms /\ Interpret(args).ctx \in Ctxs
  BY <1>1, <1>2, CalledTyped DEF ShortCircuits
<1>6. /\ g \in Frames /\ FrameInv(g) /\ g.call = args
      /\ g.init = Interpret(args).body /\ g.ctx = Interpret(args).ctx
  <2>1. g \in Frames /\ FrameInv(g)
    BY <1>3, <1>5, FreshFrame
  <2>2. QED
    BY <1>3, <2>1 DEF Frame
<1>7. /\ keep \subseteq keep' /\ keep' \subseteq Terms
      /\ ElementsOf(args) \subseteq keep'
      /\ TrieInv(evalTrie', keep')
  BY <1>1, CallKept
<1>8. /\ StackInv(estack) /\ estack # <<>> /\ Top = LastOf(estack)
      /\ Top.visit # <<>> /\ cur = LastOf(Top.visit)
  BY <1>5, CurFacts DEF Inv, Top
<1>9. Awaits(LastOf(estack), g)
  <2>1. cur \in DOMAIN Top.visited /\ Top.visited[cur] = Null
    BY <1>1 DEF Called, ChildrenVisited
  <2>2. g.call = ArgsIn(Top, cur)
    BY <1>6 DEF args
  <2>3. QED
    BY <1>5, <1>6, <1>8, <2>1, <2>2 DEF Awaits
<1>10. /\ estack' \in Seq(Frames) /\ Len(estack') = Len(estack) + 1
       /\ estack'[Len(estack) + 1] = g
       /\ \A i \in 1 .. Len(estack) : estack'[i] = estack[i]
  <2>1. estack \in Seq(Frames)
    BY <1>8 DEF StackInv
  <2>2. QED
    BY <1>4, <1>6, <2>1
<1>11. /\ StackInv(estack')
       /\ \A i \in DOMAIN estack' : \/ estack'[i] = g
                                    \/ i \in DOMAIN estack /\ estack'[i] = estack[i]
  BY <1>6, <1>8, <1>9, <1>10, TopAdded
<1>12. \A i \in DOMAIN estack' : ElementsOf(estack'[i].call) \subseteq keep'
  <2>1. \A i \in DOMAIN estack : ElementsOf(estack[i].call) \subseteq keep'
    BY <1>7 DEF Inv, Kept
  <2>2. ElementsOf(g.call) \subseteq keep'
    BY <1>6, <1>7
  <2>3. QED
    BY <1>11, <2>1, <2>2
<1>13. Kept'
  BY <1>7, <1>12 DEF Kept, TrieInv
<1>14. QED
  BY <1>1, <1>7, <1>11, <1>13 DEF Inv, TrieInv

(* ChooseBranch preserves the invariant.                                   *)
LEMMA ChooseBranchInv ==
    ASSUME WellFounded, WellTyped, Inv, ChooseBranch
    PROVE  Inv'
<1>1. /\ ChildrenVisited /\ Kind(cur) = "ite" /\ Visiting
      /\ UNCHANGED <<input, evalTrie, keep, result>>
  BY DEF ChooseBranch, IfThenElse, ChildrenVisited, Composite
<1>2. /\ keep \subseteq Terms /\ cur = LastOf(Top.visit)
      /\ estack # <<>> /\ Top \in Frames /\ FrameInv(Top) /\ Top.visit # <<>>
  BY <1>1, CurFacts DEF Inv
<1>3. /\ Marked(Top, cur) /\ Kids(cur) \in Seq(Terms) /\ Len(Kids(cur)) = 3
      /\ args \in Seq(Terms \cup {Null}) /\ Len(args) = 3
  BY <1>1, ArgsTyped
<1>4. TrieInv(evalTrie', keep')
  BY <1>1, SameTrie
<1>5. PICK b \in 1 .. 3 : b = Branch
  BY DEF Branch
<1>6. args[b] \in Terms \cup {Null} /\ Kids(cur)[b] \in Terms
  BY <1>3
<1>7. CASE args[b] = Null
  <2>1. PICK ts : ts = <<Kids(cur)[b]>>
    OBVIOUS
  <2>2. /\ ts \in Seq(Terms)
        /\ \A j \in 1 .. Len(ts) : \E i \in 1 .. Len(Kids(cur)) : ts[j] = Kids(cur)[i]
    BY <1>3, <1>6, <2>1
  <2>3. PICK g : g = Pushed(Top, ts)
    OBVIOUS
  <2>4. WithTop(g)
    BY <1>5, <1>7, <2>1, <2>3 DEF ChooseBranch, Visit
  <2>5. g \in Frames /\ FrameInv(g) /\ SameCall(Top, g)
    BY <1>2, <1>3, <2>2, <2>3, PushedFrame DEF SameCall
  <2>6. QED
    BY <1>1, <1>2, <1>4, <2>4, <2>5, TopStep
<1>8. CASE args[b] # Null
  <2>1. PICK v : v = args[b]
    OBVIOUS
  <2>2. Finish(v) /\ v \in Terms
    BY <1>5, <1>6, <1>8, <2>1 DEF ChooseBranch
  <2>3. QED
    BY <1>1, <1>2, <1>4, <2>2, FinishStep
<1>9. QED
  BY <1>7, <1>8

(* The branches that were not visited.                                     *)
LEMMA UnvisitedFacts ==
    ASSUME NEW x \in Terms, NEW y \in Terms, NEW a \in BOOLEAN, NEW b \in BOOLEAN,
           NEW ts, ts = (IF a THEN <<x>> ELSE <<>>) \o (IF b THEN <<y>> ELSE <<>>)
    PROVE  /\ ts \in Seq(Terms)
           /\ \A j \in 1 .. Len(ts) : ts[j] = x \/ ts[j] = y
           /\ ts = <<>> => ~a /\ ~b
<1>1. CASE a /\ b
  BY <1>1
<1>2. CASE a /\ ~b
  BY <1>2
<1>3. CASE ~a /\ b
  BY <1>3
<1>4. CASE ~a /\ ~b
  BY <1>4
<1>5. QED
  BY <1>1, <1>2, <1>3, <1>4

(* BothBranches preserves the invariant.                                   *)
LEMMA BothBranchesInv ==
    ASSUME WellFounded, WellTyped, Inv, BothBranches
    PROVE  Inv'
<1>1. /\ ChildrenVisited /\ Kind(cur) = "ite" /\ Visiting
      /\ UNCHANGED <<input, evalTrie, keep, result>>
  BY DEF BothBranches, IfThenElse, ChildrenVisited, Composite
<1>2. /\ keep \subseteq Terms /\ cur = LastOf(Top.visit)
      /\ estack # <<>> /\ Top \in Frames /\ FrameInv(Top) /\ Top.visit # <<>>
  BY <1>1, CurFacts DEF Inv
<1>3. /\ Marked(Top, cur) /\ cur \in Terms /\ Kids(cur) \in Seq(Terms) /\ Len(Kids(cur)) = 3
      /\ Len(args) = Len(Kids(cur))
      /\ args[2] # Null /\ args[3] # Null => args \in Seq(Terms)
  BY <1>1, ArgsTyped
<1>4. TrieInv(evalTrie', keep')
  BY <1>1, SameTrie
<1>5. PICK ts : ts = Unvisited
  OBVIOUS
<1>6. PICK x, y \in Terms : x = Kids(cur)[2] /\ y = Kids(cur)[3]
  BY <1>3
<1>7. PICK a, b \in BOOLEAN : a = (args[2] = Null) /\ b = (args[3] = Null)
  OBVIOUS
<1>8. ts = (IF a THEN <<x>> ELSE <<>>) \o (IF b THEN <<y>> ELSE <<>>)
  BY <1>5, <1>6, <1>7, Zenon DEF Unvisited
<1>9. /\ ts \in Seq(Terms)
      /\ \A j \in 1 .. Len(ts) : ts[j] = x \/ ts[j] = y
      /\ ts = <<>> => ~a /\ ~b
  BY <1>8, UnvisitedFacts
<1>10. CASE ts # <<>>
  <2>1. \A j \in 1 .. Len(ts) : \E i \in 1 .. Len(Kids(cur)) : ts[j] = Kids(cur)[i]
    <3>1. 2 \in 1 .. Len(Kids(cur)) /\ 3 \in 1 .. Len(Kids(cur))
      BY <1>3
    <3>2. QED
      BY <1>6, <1>9, <3>1
  <2>2. PICK g : g = Pushed(Top, ts)
    OBVIOUS
  <2>3. WithTop(g)
    BY <1>5, <1>10, <2>2 DEF BothBranches, Visit
  <2>4. g \in Frames /\ FrameInv(g) /\ SameCall(Top, g)
    BY <1>2, <1>3, <1>9, <2>1, <2>2, PushedFrame DEF SameCall
  <2>5. QED
    BY <1>1, <1>2, <1>4, <2>3, <2>4, TopStep
<1>11. CASE ts = <<>>
  <2>1. args[2] # Null /\ args[3] # Null
    BY <1>7, <1>9, <1>11
  <2>2. PICK v : v = Make(cur, args)
    OBVIOUS
  <2>3. Finish(v) /\ v \in Terms
    BY <1>3, <1>5, <1>11, <2>1, <2>2 DEF BothBranches, WellTyped
  <2>4. QED
    BY <1>1, <1>2, <1>4, <2>3, FinishStep
<1>12. QED
  BY <1>10, <1>11

(* Operate preserves the invariant.                                        *)
LEMMA OperateInv ==
    ASSUME WellTyped, Inv, Operate
    PROVE  Inv'
<1>1. /\ ChildrenVisited /\ Kind(cur) \in LiteralOps /\ Kind(cur) # "ite" /\ Visiting
      /\ UNCHANGED <<input, evalTrie, keep, result>>
  BY DEF Operate, ChildrenVisited, Composite
<1>2. cur \in Terms /\ args \in Seq(Terms) /\ Len(args) = Len(Kids(cur)) /\ keep \subseteq Terms
  BY <1>1, ArgsTyped DEF Inv
<1>3. PICK v : v = Or(LiteralOp(Kind(cur), args), Make(cur, args))
  OBVIOUS
<1>4. Finish(v)
  BY <1>3 DEF Operate
<1>5. v \in Terms
  BY <1>1, <1>2, <1>3 DEF Or, WellTyped
<1>6. TrieInv(evalTrie', keep')
  BY <1>1, SameTrie
<1>7. QED
  BY <1>1, <1>2, <1>4, <1>5, <1>6, FinishStep

(* Rebuild preserves the invariant.                                        *)
LEMMA RebuildInv ==
    ASSUME WellTyped, Inv, Rebuild
    PROVE  Inv'
<1>1. /\ ChildrenVisited /\ Kind(cur) # "ite" /\ Visiting
      /\ UNCHANGED <<input, evalTrie, keep, result>>
  BY DEF Rebuild, ChildrenVisited, Composite
<1>2. cur \in Terms /\ args \in Seq(Terms) /\ Len(args) = Len(Kids(cur)) /\ keep \subseteq Terms
  BY <1>1, ArgsTyped DEF Inv
<1>3. PICK v : v = Make(cur, args)
  OBVIOUS
<1>4. Finish(v)
  BY <1>3 DEF Rebuild
<1>5. v \in Terms
  BY <1>2, <1>3 DEF WellTyped
<1>6. TrieInv(evalTrie', keep')
  BY <1>1, SameTrie
<1>7. QED
  BY <1>1, <1>2, <1>4, <1>5, <1>6, FinishStep

(* The term that a frame was pushed for has its value when nothing is left *)
(* to be visited.                                                          *)
LEMMA DoneValued ==
    ASSUME Inv, Done
    PROVE  estack # <<>> /\ evaluated \in Terms
<1>1. estack # <<>> /\ Top \in Frames /\ FrameInv(Top) /\ Top.visit = <<>>
  BY TopInv DEF Done
<1>2. Valued(Top, Top.init)
  BY <1>1 DEF FrameInv, ValuedAbove
<1>3. Top.init \in DOMAIN Top.visited /\ Top.visited[Top.init] \in Terms \cup {Null}
  BY <1>1, <1>2, FieldFacts DEF Valued
<1>4. QED
  BY <1>1, <1>2, <1>3 DEF Valued, evaluated

(* Return preserves the invariant.                                         *)
LEMMA ReturnInv ==
    ASSUME WellTyped, Inv, Return
    PROVE  Inv'
<1>1. PICK v : v = evaluated
  OBVIOUS
<1>2. estack # <<>> /\ v \in Terms /\ Done
  BY <1>1, DoneValued DEF Return
<1>3. PICK c : c = Top.call
  OBVIOUS
<1>4. c \in Seq(Terms) /\ ElementsOf(c) \subseteq keep
  BY <1>2, <1>3, TopInv
<1>5. /\ evalTrie' = IF c = NoCall THEN evalTrie ELSE Bind(evalTrie, c, v)
      /\ keep' = IF c = NoCall THEN keep ELSE keep \cup {v}
      /\ result' = IF Len(estack) = 1 THEN v ELSE Null
      /\ input' = input
  BY <1>1, <1>3 DEF Return
<1>6. estack' = [i \in 1 .. Len(estack) - 1 |->
                    IF i = Len(estack) - 1 THEN Finished(estack[i], v) ELSE estack[i]]
  BY <1>1 DEF Return, Below
<1>7. keep \subseteq keep' /\ keep' \subseteq Terms /\ result' \in Terms \cup {Null}
  BY <1>2, <1>5 DEF Inv
<1>8. TrieInv(evalTrie', keep')
  <2>1. CASE c = NoCall
    <3>1. evalTrie' = evalTrie
      BY <1>5, <2>1
    <3>2. QED
      BY <1>7, <3>1, SameTrie
  <2>2. CASE c # NoCall
    <3>1. evalTrie' = Bind(evalTrie, c, v) /\ v \in keep'
      BY <1>5, <2>2
    <3>2. TrieInv(evalTrie, keep) /\ ElementsOf(c) \subseteq keep' /\ v \in Terms \cup {Null}
      BY <1>2, <1>4, <1>7 DEF Inv, Kept, TrieInv
    <3>3. QED
      BY <1>4, <1>7, <3>1, <3>2, EntryBound
  <2>3. QED
    BY <2>1, <2>2
<1>9. /\ StackInv(estack')
      /\ \A i \in DOMAIN estack' : i \in DOMAIN estack /\ estack'[i].call = estack[i].call
  BY <1>2, <1>6, TopReturned DEF Inv
<1>10. Kept'
  <2>1. \A i \in DOMAIN estack' : ElementsOf(estack'[i].call) \subseteq keep'
    BY <1>7, <1>9 DEF Inv, Kept
  <2>2. QED
    BY <1>8, <2>1 DEF Kept, TrieInv
<1>11. QED
  BY <1>5, <1>7, <1>8, <1>9, <1>10 DEF Inv, TrieInv

(* Every step preserves the invariant.                                     *)
LEMMA NextInv ==
    ASSUME WellFounded, WellTyped, Inv, [Next]_vars
    PROVE  Inv'
<1>1. CASE UNCHANGED vars
  BY <1>1 DEF vars, Inv, Kept
<1>2. CASE Next
  BY <1>2, ShortcutInv, SubstituteInv, VisitChildrenInv, VisitedAlreadyInv, CallCachedInv,
     CallShortCircuitedInv, CallEnteredInv, ChooseBranchInv, BothBranchesInv, OperateInv,
     RebuildInv, ReturnInv DEF Next
<1>3. QED
  BY <1>1, <1>2

-----------------------------------------------------------------------------

(* The invariant holds in every state.                                     *)
LEMMA AlwaysInv ==
    ASSUME WellFounded, WellTyped
    PROVE  Spec => []Inv
<1>1. Init => Inv
  BY InitInv
<1>2. Inv /\ [Next]_vars => Inv'
  BY NextInv
<1>3. QED
  BY <1>1, <1>2, PTL DEF Spec

(* The invariant implies the types.                                        *)
LEMMA InvTypes ==
    ASSUME Inv
    PROVE  TypeOK
<1>1. estack \in Seq(Frames)
  BY DEF Inv, StackInv
<1>2. estack \in Seq(ElementsOf(estack))
  <2>1. DOMAIN estack = 1 .. Len(estack) /\ Len(estack) \in Nat
    BY <1>1
  <2>2. estack \in [1 .. Len(estack) -> ElementsOf(estack)]
    BY <1>1, <2>1 DEF ElementsOf
  <2>3. QED
    BY <2>1, <2>2, SeqFacts
<1>3. ASSUME NEW i \in DOMAIN estack
      PROVE  IsFrame(estack[i])
  <2>1. PICK f \in Frames : f = estack[i]
    BY <1>1
  <2>2. f = [init |-> f.init, ctx |-> f.ctx, visited |-> f.visited, visit |-> f.visit,
             call |-> f.call]
    BY DEF Frames
  <2>3. IsCtx(f.ctx)
    BY FieldFacts, CtxFacts
  <2>4. DOMAIN f.visited \subseteq Terms /\ f.visited \in [DOMAIN f.visited -> Terms \cup {Null}]
    BY FieldFacts, VisitedFacts
  <2>5. IsFrame(f)
    BY <2>2, <2>3, <2>4, FieldFacts DEF IsFrame
  <2>6. QED
    BY <2>1, <2>5
<1>4. /\ evalTrie \in [DOMAIN evalTrie -> Terms \cup {Null}]
      /\ DOMAIN evalTrie \subseteq Seq(Terms)
  BY TrieFacts DEF Inv
<1>5. input.term \in Terms /\ IsCtx(input.ctx)
  BY CtxFacts DEF Inv
<1>6. QED
  BY <1>2, <1>3, <1>4, <1>5 DEF Inv, TypeOK

(* No null pointer gets into a term, whatever is evaluated: when a term is *)
(* on top of the stack again its children have their values, because each  *)
(* of them was pushed above it and none can be in progress itself.         *)
THEOREM EvaluatorTypes ==
    ASSUME WellFounded, WellTyped
    PROVE  Spec => []TypeOK
<1>1. Inv => TypeOK
  BY InvTypes
<1>2. QED
  BY <1>1, AlwaysInv, PTL

(* Each frame answers the call that the frame below it waits for.          *)
THEOREM EvaluatorFrames ==
    ASSUME WellFounded, WellTyped
    PROVE  Spec => []FramesAligned
<1>1. Inv => FramesAligned
  BY DEF Inv, StackInv, FramesAligned
<1>2. QED
  BY <1>1, AlwaysInv, PTL

(* Nothing that the trie searches by is freed while it is searched.        *)
THEOREM EvaluatorKeeps ==
    ASSUME WellFounded, WellTyped
    PROVE  Spec => []TrieKept
<1>1. Inv => TrieKept
  <2>1. ASSUME Inv
        PROVE  \A i \in 2 .. Len(estack) : i \in DOMAIN estack
    BY <2>1 DEF Inv, StackInv
  <2>2. QED
    BY <2>1 DEF Inv, Kept, TrieKept
<1>2. QED
  BY <1>1, AlwaysInv, PTL

-----------------------------------------------------------------------------
(* The value that evaluate returns *)

(* Evaluation by recursion is defined for the calls of evaluate.           *)
DefinedOn(D) == IsEvaluation(D) /\ \A in \in Inputs : <<in.term, in.ctx>> \in D

-----------------------------------------------------------------------------
(* Evaluation by recursion *)

(* A set of numbers has a least one.                                       *)
LEMMA LeastNumber ==
    ASSUME NEW T, T \subseteq Nat, T # {}
    PROVE  \E m \in T : \A k \in T : m <= k
<1>1. IsWellFoundedOn(OpToRel(<, Nat), Nat)
  BY NatLessThanWellFounded
<1>2. PICK m \in T : \A k \in T : ~(<<k, m>> \in OpToRel(<, Nat))
  BY <1>1, WFMin
<1>3. \A k \in T : ~(k < m)
  BY <1>2 DEF OpToRel
<1>4. QED
  BY <1>3

(* What is known of an evaluation.                                         *)
LEMMA EvaluationFacts ==
    ASSUME NEW D, IsEvaluation(D), NEW t, NEW c, <<t, c>> \in D
    PROVE  /\ Meaning(t, c) \in Terms
           /\ Meaning(t, c) = Composed(t, c)
           /\ Needs(t, c) \subseteq D
<1>1. PICK e \in D : e = <<t, c>>
  OBVIOUS
<1>2. e[1] = t /\ e[2] = c
  BY <1>1
<1>3. QED
  BY <1>2 DEF IsEvaluation

(* A term that is no if-then-else needs its children.                      *)
LEMMA KidsNeeded ==
    ASSUME NEW D, IsEvaluation(D), NEW t, NEW c, <<t, c>> \in D,
           ~IsAtom(t), ~Decided(t, c)
    PROVE  \A i \in 1 .. Len(Kids(t)) : <<Kids(t)[i], c>> \in D
<1>1. Needs(t, c) \subseteq D
  BY EvaluationFacts
<1>2. ASSUME NEW i \in 1 .. Len(Kids(t))
      PROVE  <<Kids(t)[i], c>> \in Needs(t, c)
  BY <1>2 DEF Needs
<1>3. QED
  BY <1>1, <1>2

(* An if-then-else needs its condition, and the branch chosen by it.       *)
LEMMA BranchNeeded ==
    ASSUME NEW D, IsEvaluation(D), NEW t, NEW c, <<t, c>> \in D,
           Kind(t) = "ite", ~IsAtom(t)
    PROVE  /\ Len(Kids(t)) = 3
           /\ <<Kids(t)[1], c>> \in D
           /\ Decided(t, c) => <<Kids(t)[Chosen(t, c)], c>> \in D
<1>1. Len(Kids(t)) = 3
  BY DEF IsAtom, Malformed
<1>2. Needs(t, c) \subseteq D
  BY EvaluationFacts
<1>3. CASE Decided(t, c)
  <2>1. /\ <<Kids(t)[1], c>> \in Needs(t, c)
        /\ <<Kids(t)[Chosen(t, c)], c>> \in Needs(t, c)
    BY <1>3 DEF Needs
  <2>2. QED
    BY <1>1, <1>2, <2>1
<1>4. CASE ~Decided(t, c)
  BY <1>1, <1>4, KidsNeeded
<1>5. QED
  BY <1>3, <1>4

(* A call needs the case that is chosen for it.                            *)
LEMMA CaseNeeded ==
    ASSUME NEW D, IsEvaluation(D), NEW t, NEW c, <<t, c>> \in D, Calls(t, c),
           NEW r, r = Interpret(KidMeanings(t, c)), r.body # Null
    PROVE  <<r.body, r.ctx>> \in Needs(t, c) /\ <<r.body, r.ctx>> \in D
<1>1. Needs(t, c) \subseteq D
  BY EvaluationFacts
<1>2. <<r.body, r.ctx>> \in Needs(t, c)
  BY DEF Needs
<1>3. QED
  BY <1>1, <1>2

(* The value of a call, of a term with an operator and of one that is made *)
(* of the values of its children.                                          *)
LEMMA Composition ==
    ASSUME NEW t, NEW c, ~IsAtom(t), NEW ts, ts = KidMeanings(t, c)
    PROVE  /\ Decided(t, c) => Composed(t, c) = KidMeaning(t, c, Chosen(t, c))
           /\ ~Decided(t, c) =>
                 /\ IsCall(t, ts) => Composed(t, c) = Or(Answer(ts), Make(t, ts))
                 /\ ~IsCall(t, ts) /\ Kind(t) \in LiteralOps \ {"ite"} =>
                        Composed(t, c) = Or(LiteralOp(Kind(t), ts), Make(t, ts))
                 /\ ~IsCall(t, ts) /\ Kind(t) \notin LiteralOps \ {"ite"} =>
                        Composed(t, c) = Make(t, ts)
BY DEF Composed, Calls, IsAtom

(* A term with nothing to evaluate and nothing to substitute is its value. *)
LEMMA StaysSame ==
    ASSUME WellFounded, WellTyped, NEW D, IsEvaluation(D), SoundTerms(D),
           NEW c, NEW t \in Terms, <<t, c>> \in D, Stays(t, c)
    PROVE  Meaning(t, c) = t
<1> DEFINE Wrong(u) == <<u, c>> \in D /\ Stays(u, c) /\ Meaning(u, c) # u
           T == {u \in Terms : Wrong(u)}
           N == {Size[u] : u \in T}
<1>1. SUFFICES ASSUME T # {} PROVE FALSE
  OBVIOUS
<1>2. N \subseteq Nat /\ N # {}
  BY <1>1, SizeFacts
<1>3. PICK m \in N : \A k \in N : m <= k
  BY <1>2, LeastNumber
<1>4. PICK u \in T : Size[u] = m
  OBVIOUS
<1>5. u \in Terms /\ <<u, c>> \in D /\ Stays(u, c) /\ Meaning(u, c) # u
  OBVIOUS
<1>6. \A w \in Terms : Size[w] < Size[u] => ~Wrong(w)
  <2>1. SUFFICES ASSUME NEW w \in Terms, Size[w] < Size[u], Wrong(w) PROVE FALSE
    OBVIOUS
  <2>2. Size[w] \in N
    BY <2>1
  <2>3. Size[u] <= Size[w]
    BY <1>3, <1>4, <2>2
  <2>4. Size[u] \in Nat /\ Size[w] \in Nat
    BY <1>5, SizeFacts
  <2>5. QED
    BY <2>1, <2>3, <2>4
<1> HIDE DEF T, N, Wrong
<1>7. Meaning(u, c) = Composed(u, c) /\ FlagsRight(u) /\ Make(u, Kids(u)) = u
  <2>1. PICK e \in D : e = <<u, c>>
    BY <1>5
  <2>2. e[1] = u
    BY <2>1
  <2>3. QED
    BY <1>5, <2>2, EvaluationFacts DEF SoundTerms
<1>8. /\ ~IsEvaluatable(u) /\ (IsGround(u) \/ DOMAIN c = {})
      /\ Kind(u) \notin LiteralOps \cup {"ite"} /\ ~IsCall(u, Kids(u))
  BY <1>5, <1>7 DEF Stays, FlagsRight
<1>9. CASE IsParam(u)
  <2>1. u \notin DOMAIN c
    BY <1>7, <1>8, <1>9 DEF FlagsRight
  <2>2. Composed(u, c) = u
    BY <1>9, <2>1 DEF Composed, IsAtom, IsParam, Malformed
  <2>3. QED
    BY <1>5, <1>7, <2>2
<1>10. CASE ~IsParam(u)
  <2>1. ~IsAtom(u) /\ ~Decided(u, c)
    BY <1>8, <1>10 DEF IsAtom, Malformed, Decided
  <2>2. Kids(u) \in Seq(Terms)
    BY <1>5 DEF WellTyped
  <2>3. ASSUME NEW i \in 1 .. Len(Kids(u))
        PROVE  KidMeaning(u, c, i) = Kids(u)[i]
    <3>1. PICK w \in Terms : w = Kids(u)[i]
      BY <2>2
    <3>2. <<w, c>> \in D
      BY <1>5, <2>1, <3>1, KidsNeeded
    <3>3. Stays(w, c)
      BY <1>7, <1>8, <3>1 DEF Stays, FlagsRight
    <3>4. Size[w] < Size[u]
      BY <1>5, <3>1, SizeFacts
    <3>5. Meaning(w, c) = w
      BY <1>6, <3>2, <3>3, <3>4 DEF Wrong
    <3>6. QED
      BY <3>1, <3>5 DEF KidMeaning
  <2>4. KidMeanings(u, c) = Kids(u)
    BY <2>2, <2>3 DEF KidMeanings
  <2>5. Composed(u, c) = Make(u, Kids(u))
    BY <1>8, <2>1, <2>4, Composition
  <2>6. QED
    BY <1>5, <1>7, <2>5
<1>11. QED
  BY <1>9, <1>10

-----------------------------------------------------------------------------
(* Frames *)

(* Every value in a frame is that of evaluation by recursion, and what is  *)
(* left to be visited is part of the evaluation.                           *)
FrameRight(D, f) ==
    /\ <<f.init, f.ctx>> \in D
    /\ \A p \in DOMAIN f.visit : <<f.visit[p], f.ctx>> \in D
    /\ \A t \in DOMAIN f.visited : f.visited[t] # Null => f.visited[t] = Meaning(t, f.ctx)

(* The children of a term that have values have the right ones.            *)
KnownRight(c, t, ts) ==
    \A i \in 1 .. Len(Kids(t)) : ts[i] # Null => ts[i] = KidMeaning(t, c, i)

(* The values of the children at hand are those of evaluation by recursion.*)
LEMMA ArgsRight ==
    ASSUME WellTyped, NEW D, NEW f \in Frames, FrameInv(f), FrameRight(D, f),
           f.visit # <<>>, NEW t, t = LastOf(f.visit), Marked(f, t),
           NEW ts, ts = ArgsIn(f, t)
    PROVE  /\ <<t, f.ctx>> \in D
           /\ ~Malformed(t)
           /\ KnownRight(f.ctx, t, ts)
           /\ Kind(t) = "ite" \/ ts = KidMeanings(t, f.ctx)
           /\ Kind(t) = "ite" => ts[1] = KidMeaning(t, f.ctx, 1)
           /\ Kind(t) = "ite" /\ ts[2] # Null /\ ts[3] # Null => ts = KidMeanings(t, f.ctx)
<1>1. /\ ts \in Seq(Terms \cup {Null}) /\ Len(ts) = Len(Kids(t)) /\ Kids(t) \in Seq(Terms)
      /\ Kind(t) # "ite" => ts \in Seq(Terms)
      /\ Kind(t) = "ite" => Len(Kids(t)) = 3 /\ ts[1] \in Terms
      /\ Kind(t) = "ite" /\ ts[2] # Null /\ ts[3] # Null => ts \in Seq(Terms)
  BY ArgsFacts
<1>2. <<t, f.ctx>> \in D /\ ~Malformed(t)
  <2>1. f.visit \in Seq(Terms)
    BY FieldFacts
  <2>2. Len(f.visit) \in DOMAIN f.visit /\ t = f.visit[Len(f.visit)]
    BY <2>1 DEF LastOf
  <2>3. QED
    BY <2>2, ChildrenValued DEF FrameRight
<1>3. ASSUME NEW i \in 1 .. Len(Kids(t)), ts[i] # Null
      PROVE  ts[i] = KidMeaning(t, f.ctx, i)
  <2>1. ts[i] = Value(f, Kids(t)[i])
    BY DEF ArgsIn
  <2>2. Valued(f, Kids(t)[i]) /\ ts[i] = f.visited[Kids(t)[i]]
    BY <1>3, <2>1 DEF Value, Valued
  <2>3. QED
    BY <2>2 DEF FrameRight, Valued, KidMeaning
<1>4. ASSUME ts \in Seq(Terms)
      PROVE  ts = KidMeanings(t, f.ctx)
  <2>1. Null \notin Terms
    BY DEF WellTyped
  <2>2. ts = [i \in 1 .. Len(Kids(t)) |-> ts[i]]
    BY DEF ArgsIn
  <2>3. \A i \in 1 .. Len(Kids(t)) : ts[i] = KidMeaning(t, f.ctx, i)
    BY <1>1, <1>3, <1>4, <2>1
  <2>4. QED
    BY <2>2, <2>3 DEF KidMeanings
<1>5. Kind(t) = "ite" => ts[1] = KidMeaning(t, f.ctx, 1)
  <2>1. Null \notin Terms
    BY DEF WellTyped
  <2>2. QED
    BY <1>1, <1>3, <2>1
<1>6. QED
  BY <1>1, <1>2, <1>3, <1>4, <1>5 DEF KnownRight

(* The fields of a frame whose stack or values were changed.               *)
LEMMA ChangedRight ==
    ASSUME NEW D, NEW f, FrameRight(D, f), NEW g, g.init = f.init, g.ctx = f.ctx,
           \A p \in DOMAIN g.visit : <<g.visit[p], f.ctx>> \in D,
           \A t \in DOMAIN g.visited :
              \/ g.visited[t] = Null
              \/ g.visited[t] = Meaning(t, f.ctx)
              \/ t \in DOMAIN f.visited /\ g.visited[t] = f.visited[t]
    PROVE  FrameRight(D, g)
BY DEF FrameRight

(* What is below the top of the stack of a frame.                          *)
LEMMA FrontRight ==
    ASSUME NEW D, NEW f \in Frames, FrameRight(D, f), f.visit # <<>>,
           NEW r, r = FrontOf(f.visit)
    PROVE  \A p \in DOMAIN r : <<r[p], f.ctx>> \in D
<1> DEFINE n == Len(f.visit)
<1>1. f.visit \in Seq(Terms)
  BY FieldFacts
<1>2. /\ n \in Nat /\ n >= 1 /\ DOMAIN f.visit = 1 .. n
      /\ r \in Seq(Terms) /\ Len(r) = n - 1
      /\ \A i \in 1 .. n - 1 : r[i] = f.visit[i]
  <2>1. n \in Nat /\ DOMAIN f.visit = 1 .. n
    BY <1>1
  <2>2. QED
    BY <1>1, <2>1, TopFacts, Zenon
<1>3. DOMAIN r = 1 .. n - 1 /\ \A i \in 1 .. n - 1 : i \in 1 .. n
  BY <1>2
<1>4. QED
  BY <1>2, <1>3 DEF FrameRight

(* The term at hand gets its value.                                        *)
LEMMA FinishedRight ==
    ASSUME NEW D, NEW f \in Frames, FrameRight(D, f), f.visit # <<>>, NEW v \in Terms,
           v = Meaning(LastOf(f.visit), f.ctx), NEW g, g = Finished(f, v)
    PROVE  FrameRight(D, g)
<1>1. LastOf(f.visit) \in Terms /\ FrontOf(f.visit) \in Seq(Terms) /\ f.visited \in Visiteds
  BY FieldFacts, TopFacts
<1>2. Bind(f.visited, LastOf(f.visit), v) \in Visiteds
  BY <1>1, BindVisited
<1>3. /\ g.init = f.init /\ g.ctx = f.ctx
      /\ g.visited = Bind(f.visited, LastOf(f.visit), v) /\ g.visit = FrontOf(f.visit)
  BY <1>1, <1>2, UpdatedFacts DEF Finished
<1>4. \A p \in DOMAIN g.visit : <<g.visit[p], f.ctx>> \in D
  BY <1>3, FrontRight
<1>5. \A t \in DOMAIN g.visited :
         \/ g.visited[t] = Meaning(t, f.ctx)
         \/ t \in DOMAIN f.visited /\ g.visited[t] = f.visited[t]
  BY <1>3 DEF Bind
<1>6. QED
  BY <1>3, <1>4, <1>5, ChangedRight

(* A term is popped.                                                       *)
LEMMA PoppedRight ==
    ASSUME NEW D, NEW f \in Frames, FrameRight(D, f), f.visit # <<>>,
           NEW g, g = Popped(f)
    PROVE  FrameRight(D, g)
<1>1. FrontOf(f.visit) \in Seq(Terms) /\ f.visited \in Visiteds
  BY FieldFacts, TopFacts
<1>2. /\ g.init = f.init /\ g.ctx = f.ctx
      /\ g.visited = f.visited /\ g.visit = FrontOf(f.visit)
  BY <1>1, UpdatedFacts DEF Popped
<1>3. \A p \in DOMAIN g.visit : <<g.visit[p], f.ctx>> \in D
  BY <1>2, FrontRight
<1>4. QED
  BY <1>2, <1>3, ChangedRight

(* Terms of the evaluation are pushed.                                     *)
LEMMA PushedRight ==
    ASSUME NEW D, NEW f \in Frames, FrameRight(D, f), NEW ts \in Seq(Terms),
           \A j \in 1 .. Len(ts) : <<ts[j], f.ctx>> \in D,
           NEW g, g.init = f.init, g.ctx = f.ctx, g.visit = f.visit \o ts,
           \A t \in DOMAIN g.visited :
              \/ g.visited[t] = Null
              \/ t \in DOMAIN f.visited /\ g.visited[t] = f.visited[t]
    PROVE  FrameRight(D, g)
<1>1. f.visit \in Seq(Terms)
  BY FieldFacts
<1> DEFINE n == Len(f.visit)
<1>2. n \in Nat /\ Len(ts) \in Nat /\ DOMAIN f.visit = 1 .. n
  BY <1>1
<1>3. /\ DOMAIN g.visit = 1 .. n + Len(ts)
      /\ \A i \in 1 .. n : g.visit[i] = f.visit[i]
      /\ \A i \in n + 1 .. n + Len(ts) : g.visit[i] = ts[i - n]
  BY <1>1, ConcatFacts
<1>4. /\ \A i \in 1 .. n + Len(ts) : i \in 1 .. n \/ i \in n + 1 .. n + Len(ts)
      /\ \A i \in n + 1 .. n + Len(ts) : i - n \in 1 .. Len(ts)
  BY <1>2
<1> HIDE DEF n
<1>5. \A p \in DOMAIN g.visit : <<g.visit[p], f.ctx>> \in D
  BY <1>2, <1>3, <1>4 DEF FrameRight
<1>6. QED
  BY <1>5, ChangedRight

(* A frame that was just made.                                             *)
LEMMA FreshRight ==
    ASSUME NEW D, NEW e, NEW c, <<e, c>> \in D, NEW call, NEW g, g = Frame(e, c, call)
    PROVE  FrameRight(D, g)
<1>1. /\ g.init = e /\ g.ctx = c /\ DOMAIN g.visited = {}
      /\ DOMAIN g.visit = {1} /\ g.visit[1] = e
  BY DEF Frame
<1>2. QED
  BY <1>1 DEF FrameRight

-----------------------------------------------------------------------------
(* The invariant *)

Right(D) ==
    /\ \A i \in DOMAIN estack : FrameRight(D, estack[i])
    /\ \A k \in DOMAIN evalTrie : evalTrie[k] = Answer(k)
    /\ estack # <<>> =>
          estack[1].init = input.term /\ estack[1].ctx = input.ctx /\ estack[1].call = NoCall
    /\ ResultRight

(* The invariant holds when evaluate is called.                            *)
LEMMA InitRight ==
    ASSUME WellTyped, NEW D, DefinedOn(D), Init
    PROVE  Right(D)
<1>1. PICK f : f = Frame(input.term, input.ctx, NoCall)
  OBVIOUS
<1>2. estack = <<f>>
  BY <1>1, Zenon DEF Init
<1>3. estack # <<>> /\ DOMAIN estack = {1} /\ estack[1] = f
  BY <1>2
<1>4. FrameRight(D, f)
  <2>1. <<input.term, input.ctx>> \in D
    BY DEF DefinedOn, Init
  <2>2. QED
    BY <1>1, <2>1, FreshRight
<1>5. f.init = input.term /\ f.ctx = input.ctx /\ f.call = NoCall
  BY <1>1 DEF Frame
<1>6. DOMAIN evalTrie = {}
  BY DEF Init
<1>7. QED
  BY <1>3, <1>4, <1>5, <1>6 DEF Right, ResultRight

(* The innermost frame, and the term at hand.                              *)
LEMMA CurRight ==
    ASSUME Inv, NEW D, Right(D), Visiting
    PROVE  /\ estack # <<>> /\ Top \in Frames /\ FrameInv(Top) /\ Top.visit # <<>>
           /\ cur = LastOf(Top.visit) /\ cur \in Terms
           /\ FrameRight(D, Top)
           /\ <<cur, Top.ctx>> \in D
<1>1. /\ estack # <<>> /\ Top \in Frames /\ FrameInv(Top) /\ Top.visit # <<>>
      /\ cur = LastOf(Top.visit) /\ cur \in Terms
  BY CurFacts
<1>2. FrameRight(D, Top)
  BY <1>1, TopInv DEF Right
<1>3. Top.visit \in Seq(Terms)
  BY <1>1, FieldFacts
<1>4. Len(Top.visit) \in DOMAIN Top.visit /\ cur = Top.visit[Len(Top.visit)]
  BY <1>1, <1>3 DEF LastOf
<1>5. QED
  BY <1>1, <1>2, <1>4 DEF FrameRight

(* A step that changes the innermost frame.                                *)
LEMMA TopRight ==
    ASSUME Inv, NEW D, Right(D), estack # <<>>,
           NEW g, FrameRight(D, g), SameCall(Top, g), WithTop(g), input' = input,
           \A k \in DOMAIN evalTrie' : evalTrie'[k] = Answer(k)
    PROVE  Right(D)'
<1>1. estack \in Seq(Frames) /\ Len(estack) \in DOMAIN estack /\ Top = estack[Len(estack)]
  BY TopInv
<1>2. /\ DOMAIN estack' = DOMAIN estack
      /\ \A i \in DOMAIN estack : estack'[i] = IF i = Len(estack) THEN g ELSE estack[i]
  BY <1>1 DEF WithTop
<1>3. 1 \in DOMAIN estack /\ estack' # <<>>
  BY <1>1, <1>2
<1>4. \A i \in DOMAIN estack' : FrameRight(D, estack'[i])
  BY <1>2 DEF Right
<1>5. \A i \in DOMAIN estack : SameCall(estack[i], estack'[i])
  BY <1>1, <1>2 DEF SameCall
<1>6. /\ estack'[1].init = input'.term /\ estack'[1].ctx = input'.ctx
      /\ estack'[1].call = NoCall
  BY <1>3, <1>5 DEF Right, SameCall
<1>7. QED
  BY <1>3, <1>4, <1>6 DEF Right, ResultRight

(* A step that gives the term at hand its value.                           *)
LEMMA FinishRight ==
    ASSUME WellTyped, Inv, NEW D, IsEvaluation(D), Right(D), Visiting,
           NEW v, v = Composed(cur, Top.ctx), Finish(v), input' = input,
           \A k \in DOMAIN evalTrie' : evalTrie'[k] = Answer(k)
    PROVE  Right(D)'
<1>1. /\ estack # <<>> /\ Top \in Frames /\ FrameInv(Top) /\ Top.visit # <<>>
      /\ cur = LastOf(Top.visit) /\ FrameRight(D, Top) /\ <<cur, Top.ctx>> \in D
  BY CurRight
<1>2. v \in Terms /\ v = Meaning(LastOf(Top.visit), Top.ctx)
  BY <1>1, EvaluationFacts
<1>3. PICK g : g = Finished(Top, v)
  OBVIOUS
<1>4. FrameRight(D, g)
  BY <1>1, <1>2, <1>3, FinishedRight
<1>5. SameCall(Top, g)
  BY <1>1, <1>2, <1>3, FinishedFrame DEF SameCall
<1>6. WithTop(g)
  BY <1>3 DEF Finish
<1>7. QED
  BY <1>1, <1>4, <1>5, <1>6, TopRight

(* The trie when it is not changed.                                        *)
LEMMA SameAnswers ==
    ASSUME NEW D, Right(D), evalTrie' = evalTrie
    PROVE  \A k \in DOMAIN evalTrie' : evalTrie'[k] = Answer(k)
BY DEF Right

(* The trie when an answer is entered.                                     *)
LEMMA AnswerBound ==
    ASSUME NEW D, Right(D), NEW k, evalTrie' = Bind(evalTrie, k, Answer(k))
    PROVE  \A c \in DOMAIN evalTrie' : evalTrie'[c] = Answer(c)
BY DEF Right, Bind

(* The values of the children of the term at hand.                         *)
LEMMA CurArgs ==
    ASSUME WellTyped, Inv, NEW D, Right(D), ChildrenVisited
    PROVE  /\ ~IsAtom(cur) /\ Visiting /\ Marked(Top, cur)
           /\ \A i \in 1 .. Len(Kids(cur)) :
                 args[i] # Null => args[i] = KidMeaning(cur, Top.ctx, i)
           /\ Kind(cur) # "ite" => args = KidMeanings(cur, Top.ctx) /\ ~Decided(cur, Top.ctx)
           /\ Kind(cur) = "ite" => args[1] = KidMeaning(cur, Top.ctx, 1)
           /\ Kind(cur) = "ite" /\ args[2] # Null /\ args[3] # Null =>
                 args = KidMeanings(cur, Top.ctx)
<1>1. Visiting /\ ~IsParam(cur) /\ Marked(Top, cur)
  BY DEF ChildrenVisited, Composite, Marked
<1>2. /\ Top \in Frames /\ FrameInv(Top) /\ Top.visit # <<>>
      /\ cur = LastOf(Top.visit) /\ FrameRight(D, Top)
  BY <1>1, CurRight
<1>3. /\ ~Malformed(cur)
      /\ KnownRight(Top.ctx, cur, args)
      /\ Kind(cur) = "ite" \/ args = KidMeanings(cur, Top.ctx)
      /\ Kind(cur) = "ite" => args[1] = KidMeaning(cur, Top.ctx, 1)
      /\ Kind(cur) = "ite" /\ args[2] # Null /\ args[3] # Null =>
            args = KidMeanings(cur, Top.ctx)
  BY <1>1, <1>2, ArgsRight DEF args
<1>4. Kind(cur) # "ite" => ~Decided(cur, Top.ctx)
  BY DEF Decided
<1>5. QED
  BY <1>1, <1>3, <1>4 DEF IsAtom, KnownRight

-----------------------------------------------------------------------------
(* The steps *)

(* A term that nothing is done with is its own value.                      *)
LEMMA ShortcutRight ==
    ASSUME WellFounded, WellTyped, Inv, NEW D, IsEvaluation(D), SoundTerms(D), Right(D), Shortcut
    PROVE  Right(D)'
<1>1. Visiting /\ Stays(cur, Top.ctx) /\ Finish(cur) /\ input' = input /\ evalTrie' = evalTrie
  BY DEF Shortcut
<1>2. cur \in Terms /\ <<cur, Top.ctx>> \in D
  BY <1>1, CurRight
<1>3. cur = Composed(cur, Top.ctx)
  BY <1>1, <1>2, StaysSame, EvaluationFacts
<1>4. QED
  BY <1>1, <1>3, SameAnswers, FinishRight

(* A parameter has the value that the context gives it.                    *)
LEMMA SubstituteRight ==
    ASSUME WellTyped, Inv, NEW D, IsEvaluation(D), Right(D), Substitute
    PROVE  Right(D)'
<1>1. PICK v : v = IF cur \in DOMAIN Top.ctx THEN Top.ctx[cur] ELSE cur
  OBVIOUS
<1>2. Visiting /\ IsParam(cur) /\ Finish(v) /\ input' = input /\ evalTrie' = evalTrie
  BY <1>1 DEF Substitute
<1>3. v = Composed(cur, Top.ctx)
  BY <1>1, <1>2 DEF Composed, IsAtom, IsParam, Malformed
<1>4. QED
  BY <1>2, <1>3, SameAnswers, FinishRight

(* The terms that are visited are those that the value is made of.         *)
LEMMA VisitChildrenRight ==
    ASSUME WellTyped, Inv, NEW D, IsEvaluation(D), Right(D), VisitChildren
    PROVE  Right(D)'
<1>1. /\ Visiting /\ ~IsParam(cur) /\ cur \notin DOMAIN Top.visited
      /\ input' = input /\ evalTrie' = evalTrie
  BY DEF VisitChildren, Composite
<1>2. /\ estack # <<>> /\ Top \in Frames /\ cur \in Terms /\ Top.visit # <<>>
      /\ cur = LastOf(Top.visit) /\ FrameRight(D, Top) /\ <<cur, Top.ctx>> \in D
  BY <1>1, CurRight
<1>3. CASE Malformed(cur)
  <2>1. Finish(cur)
    BY <1>3 DEF VisitChildren
  <2>2. cur = Composed(cur, Top.ctx)
    BY <1>1, <1>3 DEF Composed, IsAtom
  <2>3. QED
    BY <1>1, <2>1, <2>2, SameAnswers, FinishRight
<1>4. CASE ~Malformed(cur)
  <2>1. ~IsAtom(cur) /\ Kids(cur) \in Seq(Terms)
    BY <1>1, <1>2, <1>4 DEF IsAtom, WellTyped
  <2>2. PICK ts : ts = IF Kind(cur) = "ite" THEN <<Kids(cur)[1]>> ELSE Kids(cur)
    OBVIOUS
  <2>3. ts \in Seq(Terms) /\ \A j \in 1 .. Len(ts) : <<ts[j], Top.ctx>> \in D
    <3>1. CASE Kind(cur) = "ite"
      <4>1. Len(Kids(cur)) = 3 /\ <<Kids(cur)[1], Top.ctx>> \in D
        BY <1>2, <2>1, <3>1, BranchNeeded
      <4>2. ts = <<Kids(cur)[1]>> /\ Kids(cur)[1] \in Terms
        BY <2>1, <2>2, <3>1, <4>1
      <4>3. ts \in Seq(Terms) /\ \A j \in 1 .. Len(ts) : ts[j] = Kids(cur)[1]
        BY <4>2
      <4>4. QED
        BY <4>1, <4>3
    <3>2. CASE Kind(cur) # "ite"
      <4>1. ~Decided(cur, Top.ctx)
        BY <3>2 DEF Decided
      <4>2. QED
        BY <1>2, <2>1, <2>2, <3>2, <4>1, KidsNeeded
    <3>3. QED
      BY <3>1, <3>2
  <2>4. PICK g : g = Opened(Top, ts)
    OBVIOUS
  <2>5. WithTop(g)
    BY <1>4, <2>2, <2>4 DEF VisitChildren
  <2>6. /\ g.init = Top.init /\ g.ctx = Top.ctx /\ g.call = Top.call
        /\ g.visit = Top.visit \o ts /\ g.visited = Bind(Top.visited, cur, Null)
    BY <1>2, <2>4 DEF Opened, Updated
  <2>7. FrameRight(D, g)
    <3>1. \A t \in DOMAIN g.visited :
             \/ g.visited[t] = Null
             \/ t \in DOMAIN Top.visited /\ g.visited[t] = Top.visited[t]
      BY <2>6 DEF Bind
    <3>2. QED
      BY <1>2, <2>3, <2>6, <3>1, PushedRight
  <2>8. QED
    BY <1>1, <1>2, <2>5, <2>6, <2>7, SameAnswers, TopRight DEF SameCall
<1>5. QED
  BY <1>3, <1>4

(* A term that is popped has its value already.                            *)
LEMMA VisitedAlreadyRight ==
    ASSUME WellTyped, Inv, NEW D, Right(D), VisitedAlready
    PROVE  Right(D)'
<1>1. Visiting /\ input' = input /\ evalTrie' = evalTrie /\ Valued(Top, cur)
  BY DEF VisitedAlready, Composite, Valued
<1>2. /\ estack # <<>> /\ Top \in Frames /\ FrameInv(Top) /\ Top.visit # <<>>
      /\ cur = LastOf(Top.visit) /\ FrameRight(D, Top)
  BY <1>1, CurRight
<1>3. PICK g : g = Popped(Top)
  OBVIOUS
<1>4. FrameRight(D, g) /\ SameCall(Top, g)
  BY <1>1, <1>2, <1>3, PoppedRight, PoppedFrame DEF SameCall
<1>5. WithTop(g)
  BY <1>3 DEF VisitedAlready
<1>6. QED
  BY <1>1, <1>2, <1>4, <1>5, SameAnswers, TopRight

(* The term at hand, if it is a call with known arguments.                 *)
LEMMA CallRight ==
    ASSUME WellTyped, Inv, NEW D, Right(D), Called
    PROVE  /\ <<cur, Top.ctx>> \in D
           /\ args = KidMeanings(cur, Top.ctx)
           /\ Calls(cur, Top.ctx)
           /\ Composed(cur, Top.ctx) = Or(Answer(args), Make(cur, args))
<1>1. ChildrenVisited /\ IsCall(cur, args) /\ Visiting
  BY DEF Called, ChildrenVisited, Composite
<1>2. Kind(cur) # "ite"
  BY <1>1 DEF IsCall
<1>3. ~IsAtom(cur) /\ ~Decided(cur, Top.ctx) /\ args = KidMeanings(cur, Top.ctx)
  BY <1>1, <1>2, CurArgs
<1>4. Calls(cur, Top.ctx)
  BY <1>1, <1>3 DEF Calls
<1>5. <<cur, Top.ctx>> \in D
  BY <1>1, CurRight
<1>6. QED
  BY <1>1, <1>3, <1>4, <1>5, Composition

(* A call that was made before has the answer that it had.                 *)
LEMMA CallCachedRight ==
    ASSUME WellTyped, Inv, NEW D, IsEvaluation(D), Right(D), CallCached
    PROVE  Right(D)'
<1>1. /\ Called /\ Visiting /\ args \in DOMAIN evalTrie
      /\ input' = input /\ evalTrie' = evalTrie
  BY CalledTyped DEF CallCached
<1>2. PICK v : v = Or(evalTrie[args], Make(cur, args))
  OBVIOUS
<1>3. Finish(v)
  BY <1>2 DEF CallCached
<1>4. v = Composed(cur, Top.ctx)
  BY <1>1, <1>2, CallRight DEF Right
<1>5. QED
  BY <1>1, <1>3, <1>4, SameAnswers, FinishRight

(* A call whose case is a value has that value for an answer.              *)
LEMMA CallShortCircuitedRight ==
    ASSUME WellFounded, WellTyped, Inv, NEW D, IsEvaluation(D), SoundTerms(D), FinalCases(D),
           Right(D), CallShortCircuited
    PROVE  Right(D)'
<1>1. Called /\ Visiting /\ input' = input
  BY CalledTyped DEF CallShortCircuited
<1>2. PICK r : r = Interpret(args)
  OBVIOUS
<1>3. ShortCircuits(r) /\ evalTrie' = Bind(evalTrie, args, r.body)
  BY <1>2 DEF CallShortCircuited
<1>4. /\ <<cur, Top.ctx>> \in D /\ args = KidMeanings(cur, Top.ctx) /\ Calls(cur, Top.ctx)
      /\ Composed(cur, Top.ctx) = Or(Answer(args), Make(cur, args))
      /\ r.body \in Terms \cup {Null}
  BY <1>1, <1>2, CallRight, CalledTyped
<1>5. r.body = Answer(args)
  <2>1. CASE r.body = Null
    BY <1>2, <2>1 DEF Answer
  <2>2. CASE r.body # Null
    <3>1. IsFinal(r)
      <4>1. PICK e \in D : e = <<cur, Top.ctx>>
        BY <1>4
      <4>2. e[1] = cur /\ e[2] = Top.ctx
        BY <4>1
      <4>3. QED
        BY <1>2, <1>4, <4>2 DEF FinalCases
    <3>2. Stays(r.body, r.ctx)
      BY <1>3, <2>2, <3>1 DEF IsFinal, ShortCircuits, Stays
    <3>3. <<r.body, r.ctx>> \in D
      BY <1>2, <1>4, <2>2, CaseNeeded
    <3>4. Meaning(r.body, r.ctx) = r.body
      BY <1>4, <2>2, <3>2, <3>3, StaysSame
    <3>5. QED
      BY <1>2, <2>2, <3>4 DEF Answer
  <2>3. QED
    BY <2>1, <2>2
<1>6. PICK v : v = Or(r.body, Make(cur, args))
  OBVIOUS
<1>7. Finish(v)
  BY <1>2, <1>6 DEF CallShortCircuited
<1>8. v = Composed(cur, Top.ctx)
  BY <1>4, <1>5, <1>6
<1>9. \A k \in DOMAIN evalTrie' : evalTrie'[k] = Answer(k)
  BY <1>3, <1>5, AnswerBound
<1>10. QED
  BY <1>1, <1>7, <1>8, <1>9, FinishRight

(* The frame of a call is for the case whose value answers the call.       *)
LEMMA CallEnteredRight ==
    ASSUME WellTyped, Inv, NEW D, IsEvaluation(D), Right(D), CallEntered
    PROVE  Right(D)'
<1>1. Called /\ Visiting /\ input' = input /\ evalTrie' = evalTrie
  BY CalledTyped DEF CallEntered
<1>2. PICK r : r = Interpret(args)
  OBVIOUS
<1>3. r.body # Null
  BY <1>2 DEF CallEntered, ShortCircuits
<1>4. <<r.body, r.ctx>> \in D
  BY <1>1, <1>2, <1>3, CallRight, CaseNeeded
<1>5. PICK g : g = Frame(r.body, r.ctx, args)
  OBVIOUS
<1>6. FrameRight(D, g)
  BY <1>4, <1>5, FreshRight
<1>7. estack' = Append(estack, g)
  BY <1>2, <1>5 DEF CallEntered
<1>8. estack \in Seq(Frames) /\ estack # <<>>
  BY <1>1, TopInv DEF Visiting
<1>9. /\ DOMAIN estack' = 1 .. Len(estack) + 1 /\ Len(estack) \in Nat /\ Len(estack) >= 1
      /\ estack'[Len(estack) + 1] = g
      /\ \A i \in 1 .. Len(estack) : estack'[i] = estack[i] /\ i \in DOMAIN estack
  BY <1>7, <1>8
<1>10. /\ 1 \in 1 .. Len(estack) /\ estack' # <<>>
       /\ \A i \in DOMAIN estack' : i = Len(estack) + 1 \/ i \in 1 .. Len(estack)
  BY <1>9
<1>11. \A i \in DOMAIN estack' : FrameRight(D, estack'[i])
  BY <1>6, <1>9, <1>10 DEF Right
<1>12. \A k \in DOMAIN evalTrie' : evalTrie'[k] = Answer(k)
  BY <1>1, SameAnswers
<1>13. estack'[1].init = input'.term /\ estack'[1].ctx = input'.ctx /\ estack'[1].call = NoCall
  BY <1>1, <1>8, <1>9, <1>10 DEF Right
<1>14. QED
  BY <1>10, <1>11, <1>12, <1>13 DEF Right, ResultRight

(* The branch that is visited is the one whose value is needed.            *)
LEMMA ChooseBranchRight ==
    ASSUME WellTyped, Inv, NEW D, IsEvaluation(D), Right(D), ChooseBranch
    PROVE  Right(D)'
<1>1. /\ ChildrenVisited /\ Visiting /\ Kind(cur) = "ite" /\ Kind(args[1]) = "bool"
      /\ input' = input /\ evalTrie' = evalTrie
  BY DEF ChooseBranch, IfThenElse, ChildrenVisited, Composite
<1>2. /\ estack # <<>> /\ Top \in Frames /\ Top.visit # <<>> /\ cur \in Terms
      /\ cur = LastOf(Top.visit) /\ FrameRight(D, Top) /\ <<cur, Top.ctx>> \in D
  BY <1>1, CurRight
<1>3. /\ ~IsAtom(cur) /\ args[1] = KidMeaning(cur, Top.ctx, 1)
      /\ \A i \in 1 .. Len(Kids(cur)) :
            args[i] # Null => args[i] = KidMeaning(cur, Top.ctx, i)
  BY <1>1, CurArgs
<1>4. Decided(cur, Top.ctx) /\ Branch = Chosen(cur, Top.ctx)
  BY <1>1, <1>3 DEF Decided, Branch, Chosen
<1>5. PICK b \in 1 .. 3 : b = Branch
  BY DEF Branch
<1>6. Len(Kids(cur)) = 3 /\ <<Kids(cur)[b], Top.ctx>> \in D
  BY <1>1, <1>2, <1>3, <1>4, <1>5, BranchNeeded
<1>7. Composed(cur, Top.ctx) = KidMeaning(cur, Top.ctx, b)
  BY <1>3, <1>4, <1>5, Composition
<1>8. CASE args[b] = Null
  <2>1. Kids(cur)[b] \in Terms
    BY <1>2, <1>6 DEF WellTyped
  <2>2. PICK ts : ts = <<Kids(cur)[b]>>
    OBVIOUS
  <2>3. ts \in Seq(Terms) /\ \A j \in 1 .. Len(ts) : <<ts[j], Top.ctx>> \in D
    BY <1>6, <2>1, <2>2
  <2>4. PICK g : g = Pushed(Top, ts)
    OBVIOUS
  <2>5. WithTop(g)
    BY <1>5, <1>8, <2>2, <2>4 DEF ChooseBranch, Visit
  <2>6. /\ g.init = Top.init /\ g.ctx = Top.ctx /\ g.call = Top.call
        /\ g.visit = Top.visit \o ts /\ g.visited = Top.visited
    BY <2>4 DEF Pushed, Updated
  <2>7. FrameRight(D, g)
    BY <1>2, <2>3, <2>6, PushedRight
  <2>8. QED
    BY <1>1, <1>2, <2>5, <2>6, <2>7, SameAnswers, TopRight DEF SameCall
<1>9. CASE args[b] # Null
  <2>1. PICK v : v = args[b]
    OBVIOUS
  <2>2. Finish(v)
    BY <1>5, <1>9, <2>1 DEF ChooseBranch
  <2>3. v = Composed(cur, Top.ctx)
    BY <1>3, <1>6, <1>7, <1>9, <2>1
  <2>4. QED
    BY <1>1, <2>2, <2>3, SameAnswers, FinishRight
<1>10. QED
  BY <1>8, <1>9

(* Both branches of an if-then-else that is stuck are part of its value.   *)
LEMMA BothBranchesRight ==
    ASSUME WellTyped, Inv, NEW D, IsEvaluation(D), Right(D), BothBranches
    PROVE  Right(D)'
<1>1. /\ ChildrenVisited /\ Visiting /\ Kind(cur) = "ite" /\ Kind(args[1]) # "bool"
      /\ input' = input /\ evalTrie' = evalTrie
  BY DEF BothBranches, IfThenElse, ChildrenVisited, Composite
<1>2. /\ estack # <<>> /\ Top \in Frames /\ Top.visit # <<>> /\ cur \in Terms
      /\ cur = LastOf(Top.visit) /\ FrameRight(D, Top) /\ <<cur, Top.ctx>> \in D
  BY <1>1, CurRight
<1>3. /\ ~IsAtom(cur) /\ args[1] = KidMeaning(cur, Top.ctx, 1)
      /\ args[2] # Null /\ args[3] # Null => args = KidMeanings(cur, Top.ctx)
  BY <1>1, CurArgs
<1>4. ~Decided(cur, Top.ctx)
  BY <1>1, <1>3 DEF Decided
<1>5. /\ Kids(cur) \in Seq(Terms) /\ Len(Kids(cur)) = 3
      /\ \A i \in 1 .. Len(Kids(cur)) : <<Kids(cur)[i], Top.ctx>> \in D
  <2>1. Len(Kids(cur)) = 3
    BY <1>1, <1>2, <1>3, BranchNeeded
  <2>2. QED
    BY <1>2, <1>3, <1>4, <2>1, KidsNeeded DEF WellTyped
<1>6. PICK ts : ts = Unvisited
  OBVIOUS
<1>7. PICK x, y \in Terms : x = Kids(cur)[2] /\ y = Kids(cur)[3]
  BY <1>5
<1>8. PICK a, b \in BOOLEAN : a = (args[2] = Null) /\ b = (args[3] = Null)
  OBVIOUS
<1>9. ts = (IF a THEN <<x>> ELSE <<>>) \o (IF b THEN <<y>> ELSE <<>>)
  BY <1>6, <1>7, <1>8, Zenon DEF Unvisited
<1>10. /\ ts \in Seq(Terms)
       /\ \A j \in 1 .. Len(ts) : ts[j] = x \/ ts[j] = y
       /\ ts = <<>> => ~a /\ ~b
  BY <1>9, UnvisitedFacts
<1>11. CASE ts # <<>>
  <2>1. <<x, Top.ctx>> \in D /\ <<y, Top.ctx>> \in D
    <3>1. 2 \in 1 .. Len(Kids(cur)) /\ 3 \in 1 .. Len(Kids(cur))
      BY <1>5
    <3>2. QED
      BY <1>5, <1>7, <3>1
  <2>2. \A j \in 1 .. Len(ts) : <<ts[j], Top.ctx>> \in D
    BY <1>10, <2>1
  <2>3. PICK g : g = Pushed(Top, ts)
    OBVIOUS
  <2>4. WithTop(g)
    BY <1>6, <1>11, <2>3 DEF BothBranches, Visit
  <2>5. /\ g.init = Top.init /\ g.ctx = Top.ctx /\ g.call = Top.call
        /\ g.visit = Top.visit \o ts /\ g.visited = Top.visited
    BY <2>3 DEF Pushed, Updated
  <2>6. FrameRight(D, g)
    BY <1>2, <1>10, <2>2, <2>5, PushedRight
  <2>7. QED
    BY <1>1, <1>2, <2>4, <2>5, <2>6, SameAnswers, TopRight DEF SameCall
<1>12. CASE ts = <<>>
  <2>1. args[2] # Null /\ args[3] # Null
    BY <1>8, <1>10, <1>12
  <2>2. PICK v : v = Make(cur, args)
    OBVIOUS
  <2>3. Finish(v)
    BY <1>6, <1>12, <2>2 DEF BothBranches
  <2>4. ~IsCall(cur, args)
    BY <1>1 DEF IsCall
  <2>5. v = Composed(cur, Top.ctx)
    BY <1>1, <1>3, <1>4, <2>1, <2>2, <2>4, Composition
  <2>6. QED
    BY <1>1, <2>3, <2>5, SameAnswers, FinishRight
<1>13. QED
  BY <1>11, <1>12

(* An operator is applied to the values of the children.                   *)
LEMMA OperateRight ==
    ASSUME WellTyped, Inv, NEW D, IsEvaluation(D), SoundTerms(D), Right(D), Operate
    PROVE  Right(D)'
<1>1. /\ ChildrenVisited /\ Visiting /\ Kind(cur) \in LiteralOps \ {"ite"}
      /\ input' = input /\ evalTrie' = evalTrie
  BY DEF Operate, ChildrenVisited, Composite
<1>2. ~IsAtom(cur) /\ args = KidMeanings(cur, Top.ctx) /\ ~Decided(cur, Top.ctx)
  BY <1>1, CurArgs
<1>3. ~IsCall(cur, args)
  BY <1>1 DEF IsCall, SoundTerms, KindsApart
<1>4. PICK v : v = Or(LiteralOp(Kind(cur), args), Make(cur, args))
  OBVIOUS
<1>5. Finish(v)
  BY <1>4 DEF Operate
<1>6. v = Composed(cur, Top.ctx)
  BY <1>1, <1>2, <1>3, <1>4, Composition
<1>7. QED
  BY <1>1, <1>5, <1>6, SameAnswers, FinishRight

(* Another term is made of the values of its children.                     *)
LEMMA RebuildRight ==
    ASSUME WellTyped, Inv, NEW D, IsEvaluation(D), Right(D), Rebuild
    PROVE  Right(D)'
<1>1. /\ ChildrenVisited /\ Visiting /\ Kind(cur) \notin LiteralOps /\ Kind(cur) # "ite"
      /\ ~IsCall(cur, args)
      /\ input' = input /\ evalTrie' = evalTrie
  BY DEF Rebuild, ChildrenVisited, Composite
<1>2. ~IsAtom(cur) /\ args = KidMeanings(cur, Top.ctx) /\ ~Decided(cur, Top.ctx)
  BY <1>1, CurArgs
<1>3. PICK v : v = Make(cur, args)
  OBVIOUS
<1>4. Finish(v)
  BY <1>3 DEF Rebuild
<1>5. v = Composed(cur, Top.ctx)
  BY <1>1, <1>2, <1>3, Composition
<1>6. QED
  BY <1>1, <1>4, <1>5, SameAnswers, FinishRight

(* The value of a frame that is done.                                      *)
LEMMA DoneRight ==
    ASSUME Inv, NEW D, Right(D), Done
    PROVE  /\ estack # <<>> /\ evaluated \in Terms
           /\ evaluated = Meaning(Top.init, Top.ctx)
<1>1. estack # <<>> /\ Top \in Frames /\ FrameInv(Top) /\ Top.visit = <<>> /\ FrameRight(D, Top)
  BY TopInv DEF Done, Right
<1>2. Valued(Top, Top.init)
  BY <1>1 DEF FrameInv, ValuedAbove
<1>3. QED
  BY <1>1, <1>2, DoneValued DEF FrameRight, Valued, evaluated

(* The value of a frame is the answer of the call that it was made for,    *)
(* and of the term that the frame below it has at hand.                    *)
LEMMA AwaitedRight ==
    ASSUME WellTyped, NEW D, IsEvaluation(D),
           NEW f \in Frames, FrameInv(f), FrameRight(D, f),
           NEW g \in Frames, Awaits(f, g)
    PROVE  /\ Answer(g.call) = Meaning(g.init, g.ctx)
           /\ f.visit # <<>>
           /\ Meaning(g.init, g.ctx) \in Terms =>
                 Meaning(g.init, g.ctx) = Meaning(LastOf(f.visit), f.ctx)
<1>1. PICK t : t = LastOf(f.visit)
  OBVIOUS
<1>2. /\ f.visit # <<>> /\ Marked(f, t) /\ g.call = ArgsIn(f, t) /\ IsCall(t, g.call)
      /\ g.init = Interpret(g.call).body /\ g.ctx = Interpret(g.call).ctx
  BY <1>1 DEF Awaits, Marked
<1>3. g.init \in Terms /\ Null \notin Terms
  BY FieldFacts DEF WellTyped
<1>4. Answer(g.call) = Meaning(g.init, g.ctx)
  BY <1>2, <1>3 DEF Answer
<1>5. Kind(t) \in {"apply", "apply_opaque"}
  BY <1>2 DEF IsCall
<1>6. g.call = KidMeanings(t, f.ctx) /\ <<t, f.ctx>> \in D /\ ~Malformed(t)
  BY <1>1, <1>2, <1>5, ArgsRight
<1>7. ~IsAtom(t) /\ ~Decided(t, f.ctx)
  BY <1>5, <1>6 DEF IsAtom, IsParam, Decided
<1>8. Meaning(t, f.ctx) = Or(Answer(g.call), Make(t, g.call))
  BY <1>2, <1>6, <1>7, Composition, EvaluationFacts
<1>9. QED
  BY <1>1, <1>2, <1>3, <1>4, <1>8 DEF Or

(* The value of a frame is entered as the answer of its call and passed to *)
(* the frame below; that of the first frame is the result.                 *)
LEMMA ReturnRight ==
    ASSUME WellTyped, Inv, NEW D, IsEvaluation(D), Right(D), Return
    PROVE  Right(D)'
<1>1. PICK v : v = evaluated
  OBVIOUS
<1>2. PICK g : g = Top
  OBVIOUS
<1>3. PICK n : n = Len(estack)
  OBVIOUS
<1>4. /\ estack # <<>> /\ v \in Terms /\ v = Meaning(g.init, g.ctx)
      /\ estack \in Seq(Frames) /\ n \in Nat /\ n >= 1 /\ DOMAIN estack = 1 .. n
      /\ n \in 1 .. n /\ 1 \in 1 .. n
      /\ g = estack[n] /\ g \in Frames
  BY <1>1, <1>2, <1>3, DoneRight, TopInv DEF Return
<1>5. /\ evalTrie' = IF g.call = NoCall THEN evalTrie ELSE Bind(evalTrie, g.call, v)
      /\ result' = IF n = 1 THEN v ELSE Null
      /\ input' = input
      /\ estack' = [i \in 1 .. n - 1 |->
                       IF i = n - 1 THEN Finished(estack[i], v) ELSE estack[i]]
  BY <1>1, <1>2, <1>3 DEF Return, Below
<1>6. CASE n = 1
  <2>1. estack' = <<>> /\ DOMAIN estack' = {}
    BY <1>5, <1>6
  <2>2. g.call = NoCall /\ result' = Meaning(input'.term, input'.ctx)
    BY <1>4, <1>5, <1>6 DEF Right
  <2>3. \A k \in DOMAIN evalTrie' : evalTrie'[k] = Answer(k)
    BY <1>5, <2>2, SameAnswers
  <2>4. QED
    BY <2>1, <2>2, <2>3 DEF Right, ResultRight
<1>7. CASE n # 1
  <2>1. /\ n - 1 \in 1 .. n /\ 1 \in 1 .. n - 1 /\ n - 1 \in 1 .. n - 1
        /\ DOMAIN estack' = 1 .. n - 1
        /\ \A i \in 1 .. n - 1 : i \in 1 .. n
    BY <1>4, <1>5, <1>7
  <2>2. PICK f : f = estack[n - 1]
    OBVIOUS
  <2>3. f \in Frames /\ FrameInv(f) /\ FrameRight(D, f)
    BY <1>4, <2>1, <2>2 DEF Inv, StackInv, Right
  <2>4. Awaits(f, g)
    <3>1. \A i \in 1 .. n - 1 : Awaits(estack[i], estack[i + 1])
      BY <1>3 DEF Inv, StackInv
    <3>2. n - 1 + 1 = n
      BY <1>4
    <3>3. QED
      BY <1>4, <2>1, <2>2, <3>1, <3>2
  <2>5. v = Answer(g.call) /\ f.visit # <<>> /\ v = Meaning(LastOf(f.visit), f.ctx)
    BY <1>4, <2>3, <2>4, AwaitedRight
  <2>6. PICK h : h = Finished(f, v)
    OBVIOUS
  <2>7. FrameRight(D, h) /\ SameCall(f, h)
    BY <1>4, <2>3, <2>5, <2>6, FinishedRight, FinishedFrame DEF SameCall
  <2>8. \A i \in 1 .. n - 1 : estack'[i] = IF i = n - 1 THEN h ELSE estack[i]
    BY <1>5, <2>2, <2>6
  <2>9. \A i \in DOMAIN estack' : FrameRight(D, estack'[i]) /\ SameCall(estack[i], estack'[i])
    BY <1>4, <2>1, <2>2, <2>7, <2>8 DEF Right, SameCall
  <2>10. \A k \in DOMAIN evalTrie' : evalTrie'[k] = Answer(k)
    BY <1>5, <2>5, SameAnswers, AnswerBound
  <2>11. /\ estack'[1].init = input'.term /\ estack'[1].ctx = input'.ctx
         /\ estack'[1].call = NoCall
    BY <1>4, <1>5, <2>1, <2>9 DEF Right, SameCall
  <2>12. estack' # <<>>
    BY <2>1
  <2>13. QED
    BY <2>9, <2>10, <2>11, <2>12 DEF Right, ResultRight
<1>8. QED
  BY <1>6, <1>7

(* Every step preserves the invariant.                                     *)
LEMMA NextRight ==
    ASSUME WellFounded, WellTyped, NEW D, IsEvaluation(D), SoundTerms(D), FinalCases(D),
           Inv, Right(D), [Next]_vars
    PROVE  Right(D)'
<1>1. CASE UNCHANGED vars
  BY <1>1 DEF vars, Right, ResultRight
<1>2. CASE Next
  BY <1>2, ShortcutRight, SubstituteRight, VisitChildrenRight, VisitedAlreadyRight,
     CallCachedRight, CallShortCircuitedRight, CallEnteredRight, ChooseBranchRight,
     BothBranchesRight, OperateRight, RebuildRight, ReturnRight DEF Next
<1>3. QED
  BY <1>1, <1>2

(* What evaluate returns is the value of evaluation by recursion, for all  *)
(* calls for which that is defined: neither the stack of frames, nor what  *)
(* the calls of an evaluation share, nor a shortcut changes it.            *)
THEOREM EvaluatorResult ==
    ASSUME WellFounded, WellTyped,
           NEW D, DefinedOn(D), SoundTerms(D), FinalCases(D)
    PROVE  Spec => []ResultRight
<1>1. Init => Right(D)
  BY InitRight
<1>2. Inv /\ Right(D) /\ [Next]_vars => Right(D)'
  BY NextRight DEF DefinedOn
<1>3. Right(D) => ResultRight
  BY DEF Right
<1>4. Spec => []Inv
  BY AlwaysInv
<1>5. QED
  BY <1>1, <1>2, <1>3, <1>4, PTL DEF Spec

-----------------------------------------------------------------------------
(* The calls that were interpreted *)

(* The call has an entry in the trie, or a frame that answers it.          *)
Entered(c) == c \in DOMAIN evalTrie \/ \E j \in DOMAIN estack : estack[j].call = c

OnceInv ==
    /\ interpreted \in Seq(Seq(Terms) \ {NoCall})
    /\ \A i \in DOMAIN interpreted : Entered(interpreted[i])

(* All other steps change the innermost frame, and its call stays.         *)
LEMMA TopUpdated ==
    ASSUME Next, ~CallEntered, ~Return
    PROVE  /\ \E visited, visit : WithTop(Updated(Top, visited, visit))
           /\ estack # <<>>
<1>1. CASE Shortcut
  BY <1>1 DEF Shortcut, Visiting, Finish, Finished
<1>2. CASE Substitute
  BY <1>2 DEF Substitute, Visiting, Finish, Finished
<1>3. CASE VisitChildren
  <2>1. CASE Malformed(cur)
    BY <1>3, <2>1 DEF VisitChildren, Composite, Visiting, Finish, Finished
  <2>2. CASE ~Malformed(cur)
    BY <1>3, <2>2 DEF VisitChildren, Composite, Visiting, Opened
  <2>3. QED
    BY <2>1, <2>2
<1>4. CASE VisitedAlready
  BY <1>4 DEF VisitedAlready, Composite, Visiting, Popped
<1>5. CASE CallCached
  BY <1>5 DEF CallCached, Called, ChildrenVisited, Composite, Visiting, Finish, Finished
<1>6. CASE CallShortCircuited
  BY <1>6 DEF CallShortCircuited, Called, ChildrenVisited, Composite, Visiting, Finish, Finished
<1>7. CASE ChooseBranch
  <2>1. CASE args[Branch] = Null
    BY <1>7, <2>1 DEF ChooseBranch, IfThenElse, ChildrenVisited, Composite, Visiting, Visit, Pushed
  <2>2. CASE args[Branch] # Null
    BY <1>7, <2>2 DEF ChooseBranch, IfThenElse, ChildrenVisited, Composite, Visiting, Finish, Finished
  <2>3. QED
    BY <2>1, <2>2
<1>8. CASE BothBranches
  <2>1. CASE Unvisited # <<>>
    BY <1>8, <2>1 DEF BothBranches, IfThenElse, ChildrenVisited, Composite, Visiting, Visit, Pushed
  <2>2. CASE Unvisited = <<>>
    BY <1>8, <2>2 DEF BothBranches, IfThenElse, ChildrenVisited, Composite, Visiting, Finish, Finished
  <2>3. QED
    BY <2>1, <2>2
<1>9. CASE Operate
  BY <1>9 DEF Operate, ChildrenVisited, Composite, Visiting, Finish, Finished
<1>10. CASE Rebuild
  BY <1>10 DEF Rebuild, ChildrenVisited, Composite, Visiting, Finish, Finished
<1>11. QED
  BY <1>1, <1>2, <1>3, <1>4, <1>5, <1>6, <1>7, <1>8, <1>9, <1>10 DEF Next

(* The trie loses no entry, and gets that of a frame that ends.            *)
LEMMA TrieGrows ==
    ASSUME Next
    PROVE  DOMAIN evalTrie \subseteq DOMAIN evalTrie'
<1>1. CASE UNCHANGED evalTrie
  BY <1>1
<1>2. CASE CallShortCircuited
  BY <1>2 DEF CallShortCircuited, Bind
<1>3. CASE Return
  BY <1>3 DEF Return, Bind
<1>4. QED
  BY <1>1, <1>2, <1>3 DEF Next, Shortcut, Substitute, VisitChildren, VisitedAlready, CallCached,
     CallEntered, ChooseBranch, BothBranches, Operate, Rebuild

(* A call that is entered stays so.                                        *)
LEMMA EnteredStays ==
    ASSUME Inv, Next, NEW c, c # NoCall, Entered(c)
    PROVE  Entered(c)'
<1>1. CASE c \in DOMAIN evalTrie
  BY <1>1, TrieGrows DEF Entered
<1>2. CASE \E j \in DOMAIN estack : estack[j].call = c
  <2>1. PICK j \in DOMAIN estack : estack[j].call = c
    BY <1>2
  <2>2. estack \in Seq(Frames) /\ estack # <<>>
    BY <2>1 DEF Inv, StackInv
  <2>3. Len(estack) \in DOMAIN estack /\ Top = estack[Len(estack)]
    BY <2>2, TopInv
  <2>4. CASE CallEntered
    <3>1. PICK g : estack' = Append(estack, g)
      BY <2>4 DEF CallEntered
    <3>2. j \in DOMAIN estack' /\ estack'[j] = estack[j]
      BY <2>1, <2>2, <3>1
    <3>3. QED
      BY <2>1, <3>2 DEF Entered
  <2>5. CASE Return
    <3>1. CASE j = Len(estack)
      <4>1. evalTrie' = Bind(evalTrie, c, evaluated)
        BY <2>1, <2>3, <2>5, <3>1 DEF Return
      <4>2. QED
        BY <4>1 DEF Entered, Bind
    <3>2. CASE j # Len(estack)
      <4>1. PICK n \in Nat : n = Len(estack)
        BY <2>2
      <4>2. j \in 1 .. n - 1
        BY <2>1, <2>2, <3>2, <4>1
      <4>3. estack' = [i \in 1 .. n - 1 |->
                          IF i = n - 1 THEN Finished(estack[i], evaluated) ELSE estack[i]]
        BY <2>5, <4>1 DEF Return, Below
      <4>4. /\ j \in DOMAIN estack'
            /\ estack'[j] = IF j = n - 1 THEN Finished(estack[j], evaluated) ELSE estack[j]
        BY <4>2, <4>3
      <4>5. Finished(estack[j], evaluated).call = estack[j].call
        BY DEF Finished, Updated
      <4>6. QED
        BY <2>1, <4>4, <4>5 DEF Entered
    <3>3. QED
      BY <3>1, <3>2
  <2>6. CASE ~CallEntered /\ ~Return
    <3>1. PICK visited, visit : WithTop(Updated(Top, visited, visit))
      BY <2>6, TopUpdated
    <3>2. PICK g : g = Updated(Top, visited, visit)
      OBVIOUS
    <3>3. g.call = Top.call
      BY <3>2 DEF Updated
    <3>4. j \in DOMAIN estack' /\ estack'[j] = IF j = Len(estack) THEN g ELSE estack[j]
      BY <2>1, <3>1, <3>2 DEF WithTop
    <3>5. QED
      BY <2>1, <2>3, <3>3, <3>4 DEF Entered
  <2>7. QED
    BY <2>4, <2>5, <2>6
<1>3. QED
  BY <1>1, <1>2 DEF Entered

(* A call that is interpreted is answered at once or gets a frame.         *)
LEMMA CalledSteps ==
    ASSUME KindsApart, Next, Called, args \notin DOMAIN evalTrie
    PROVE  CallShortCircuited \/ CallEntered
<1>1. /\ Visiting /\ ~Stays(cur, Top.ctx) /\ ~IsParam(cur)
      /\ cur \in DOMAIN Top.visited /\ Top.visited[cur] = Null
      /\ Kind(cur) \in {"apply", "apply_opaque"} /\ IsCall(cur, args)
  BY DEF Called, ChildrenVisited, Composite, IsCall
<1>2. Kind(cur) \notin LiteralOps /\ Kind(cur) # "ite" /\ Top.visit # <<>>
  BY <1>1 DEF KindsApart, Visiting
<1>3. ~Shortcut /\ ~Substitute /\ ~VisitChildren /\ ~VisitedAlready
  BY <1>1 DEF Shortcut, Substitute, VisitChildren, VisitedAlready
<1>4. ~CallCached /\ ~ChooseBranch /\ ~BothBranches
  BY <1>2 DEF CallCached, ChooseBranch, BothBranches, IfThenElse
<1>5. ~Operate /\ ~Rebuild /\ ~Return
  BY <1>1, <1>2 DEF Operate, Rebuild, Return, Done
<1>6. QED
  BY <1>3, <1>4, <1>5 DEF Next

(* A call that is interpreted is entered.                                  *)
LEMMA CalledEntered ==
    ASSUME KindsApart, Inv, Next, Called, args \notin DOMAIN evalTrie, NEW c, c = args
    PROVE  Entered(c)'
<1>1. CASE CallShortCircuited
  <2>1. \E v : evalTrie' = Bind(evalTrie, c, v)
    BY <1>1 DEF CallShortCircuited
  <2>2. QED
    BY <2>1 DEF Entered, Bind
<1>2. CASE CallEntered
  <2>1. PICK g : estack' = Append(estack, g) /\ g.call = c
    BY <1>2 DEF CallEntered, Frame
  <2>2. estack \in Seq(Frames)
    BY DEF Inv, StackInv
  <2>3. Len(estack) + 1 \in DOMAIN estack' /\ estack'[Len(estack) + 1] = g
    BY <2>1, <2>2
  <2>4. QED
    BY <2>1, <2>3 DEF Entered
<1>3. QED
  BY <1>1, <1>2, CalledSteps

(* Every step preserves that what was interpreted is entered; and what is  *)
(* interpreted was not before, unless the call is being answered.          *)
LEMMA OnceStep ==
    ASSUME KindsApart, WellTyped, Inv, OnceInv, [HNext]_<<vars, interpreted>>
    PROVE  /\ OnceInv'
           /\ InterpretedOnce /\ ~InterpretedOnce' => SelfCall
<1>1. CASE UNCHANGED <<vars, interpreted>>
  BY <1>1 DEF vars, OnceInv, Entered, InterpretedOnce
<1>2. CASE HNext
  <2>1. Next
    BY <1>2 DEF HNext
  <2>2. /\ interpreted \in Seq(Seq(Terms) \ {NoCall})
        /\ \A i \in DOMAIN interpreted : interpreted[i] # NoCall /\ Entered(interpreted[i])
    BY DEF OnceInv
  <2>3. \A i \in DOMAIN interpreted : Entered(interpreted[i])'
    <3>1. ASSUME NEW i \in DOMAIN interpreted
          PROVE  Entered(interpreted[i])'
      <4>1. PICK c : c = interpreted[i]
        OBVIOUS
      <4>2. Entered(c)'
        BY <2>1, <2>2, <4>1, EnteredStays
      <4>3. CASE interpreted' = interpreted
        BY <4>1, <4>2, <4>3 DEF Entered
      <4>4. CASE interpreted' = Append(interpreted, args)
        <5>1. interpreted'[i] = c
          BY <2>2, <4>1, <4>4
        <5>2. QED
          BY <4>2, <5>1 DEF Entered
      <4>5. QED
        BY <1>2, <4>3, <4>4 DEF HNext
    <3>2. QED
      BY <3>1
  <2>4. CASE ~(Called /\ args \notin DOMAIN evalTrie)
    <3>1. interpreted' = interpreted
      BY <1>2, <2>4 DEF HNext
    <3>2. QED
      BY <2>2, <2>3, <3>1 DEF OnceInv, InterpretedOnce
  <2>5. CASE Called /\ args \notin DOMAIN evalTrie
    <3>1. PICK c : c = args
      OBVIOUS
    <3>2. interpreted' = Append(interpreted, c)
      BY <1>2, <2>5, <3>1 DEF HNext
    <3>3. c \in Seq(Terms) \ {NoCall}
      BY <2>5, <3>1, CalledTyped DEF NoCall
    <3>4. PICK n \in Nat : n = Len(interpreted)
      BY <2>2
    <3>5. /\ interpreted' \in Seq(Seq(Terms) \ {NoCall})
          /\ DOMAIN interpreted = 1 .. n /\ DOMAIN interpreted' = 1 .. n + 1
          /\ interpreted'[n + 1] = c
          /\ \A i \in 1 .. n : interpreted'[i] = interpreted[i]
          /\ \A i \in 1 .. n + 1 : i = n + 1 \/ i \in 1 .. n
      BY <2>2, <3>2, <3>3, <3>4
    <3>6. Entered(c)'
      BY <2>1, <2>5, <3>1, CalledEntered
    <3>7. OnceInv'
      BY <2>3, <3>5, <3>6 DEF OnceInv
    <3>8. ASSUME InterpretedOnce, ~InterpretedOnce'
          PROVE  SelfCall
      <4>1. PICK i, j \in 1 .. n + 1 : interpreted'[i] = interpreted'[j] /\ i # j
        BY <3>5, <3>8 DEF InterpretedOnce
      <4>2. PICK k \in 1 .. n : interpreted[k] = c
        BY <3>5, <3>8, <4>1 DEF InterpretedOnce
      <4>3. Entered(c) /\ c \notin DOMAIN evalTrie
        BY <2>2, <2>5, <3>1, <3>5, <4>2
      <4>4. QED
        BY <2>5, <3>1, <4>3 DEF Entered, SelfCall
    <3>9. QED
      BY <3>7, <3>8
  <2>6. QED
    BY <2>4, <2>5
<1>3. QED
  BY <1>1, <1>2

(* The history sees the steps of the specification.                        *)
LEMMA HistoryRefines == HSpec => Spec
<1>1. HInit => Init
  BY DEF HInit
<1>2. [HNext]_<<vars, interpreted>> => [Next]_vars
  BY DEF HNext, vars
<1>3. QED
  BY <1>1, <1>2, PTL DEF HSpec, Spec

(* What was interpreted is entered, in every state.                        *)
LEMMA AlwaysEntered ==
    ASSUME KindsApart, WellFounded, WellTyped
    PROVE  HSpec => [](Inv /\ OnceInv)
<1>1. HInit => OnceInv
  <2>1. <<>> \in Seq(Seq(Terms) \ {NoCall}) /\ DOMAIN <<>> = {}
    OBVIOUS
  <2>2. QED
    BY <2>1 DEF HInit, OnceInv
<1>2. Inv /\ OnceInv /\ [HNext]_<<vars, interpreted>> => OnceInv'
  BY OnceStep
<1>3. HSpec => []Inv
  BY HistoryRefines, AlwaysInv, PTL
<1>4. QED
  BY <1>1, <1>2, <1>3, PTL DEF HSpec

(* In any evaluation, also in one that does not end, the only call that is *)
(* interpreted again is one that is being answered: a call whose value     *)
(* needs that value itself.                                                *)
THEOREM OnlySelfCallsRepeat ==
    ASSUME KindsApart, WellFounded, WellTyped
    PROVE  HSpec => [][InterpretedOnce /\ ~InterpretedOnce' => SelfCall]_<<vars, interpreted>>
<1>1. /\ Inv /\ OnceInv /\ [HNext]_<<vars, interpreted>>
      => [InterpretedOnce /\ ~InterpretedOnce' => SelfCall]_<<vars, interpreted>>
  BY OnceStep
<1>2. QED
  BY <1>1, AlwaysEntered, PTL DEF HSpec

-----------------------------------------------------------------------------
(* The rank of evaluations falls along the stack *)

RankOf(rank, f) == rank[<<f.init, f.ctx>>]

(* What a frame has left to visit is not of higher rank than the frame.    *)
FrameRanked(rank, f) ==
    \A p \in DOMAIN f.visit : rank[<<f.visit[p], f.ctx>>] <= RankOf(rank, f)

Ranked(rank) ==
    /\ \A i \in DOMAIN estack : FrameRanked(rank, estack[i])
    /\ \A i, j \in DOMAIN estack : i < j => RankOf(rank, estack[j]) < RankOf(rank, estack[i])

(* A rank is a number, and falls with what is needed.                      *)
LEMMA RankFacts ==
    ASSUME NEW rank, IsRank(rank), NEW t, NEW c, <<t, c>> \in DOMAIN rank
    PROVE  /\ rank[<<t, c>>] \in Nat
           /\ \A d \in Needs(t, c) : d \in DOMAIN rank => rank[d] < rank[<<t, c>>]
<1>1. PICK e \in DOMAIN rank : e = <<t, c>>
  OBVIOUS
<1>2. e[1] = t /\ e[2] = c
  BY <1>1
<1>3. QED
  BY <1>1, <1>2 DEF IsRank

(* The top of the stack of a frame, and what its children are worth.       *)
LEMMA CurRanked ==
    ASSUME Inv, NEW D, IsEvaluation(D), Right(D),
           NEW rank, IsRank(rank), DOMAIN rank = D, Ranked(rank), Visiting
    PROVE  /\ rank[<<cur, Top.ctx>>] \in Nat /\ RankOf(rank, Top) \in Nat
           /\ rank[<<cur, Top.ctx>>] <= RankOf(rank, Top)
           /\ \A d \in Needs(cur, Top.ctx) :
                 d \in D /\ rank[d] \in Nat /\ rank[d] < rank[<<cur, Top.ctx>>]
<1>1. /\ estack # <<>> /\ Top \in Frames /\ Top.visit # <<>> /\ cur = LastOf(Top.visit)
      /\ FrameRight(D, Top) /\ <<cur, Top.ctx>> \in D
  BY CurRight
<1>2. Top.visit \in Seq(Terms) /\ FrameRanked(rank, Top)
  BY <1>1, FieldFacts, TopInv DEF Ranked
<1>3. Len(Top.visit) \in DOMAIN Top.visit /\ cur = Top.visit[Len(Top.visit)]
  BY <1>1, <1>2 DEF LastOf
<1>4. rank[<<cur, Top.ctx>>] <= RankOf(rank, Top)
  BY <1>2, <1>3 DEF FrameRanked
<1>5. <<Top.init, Top.ctx>> \in D
  BY <1>1 DEF FrameRight
<1>6. rank[<<cur, Top.ctx>>] \in Nat /\ RankOf(rank, Top) \in Nat
  BY <1>1, <1>5, RankFacts DEF RankOf
<1>7. Needs(cur, Top.ctx) \subseteq D
  BY <1>1, EvaluationFacts
<1>8. \A d \in D : rank[d] \in Nat
  BY DEF IsRank
<1>9. QED
  BY <1>1, <1>4, <1>6, <1>7, <1>8, RankFacts

(* What is left to be visited was there, or is needed by the term at hand. *)
Among(visit) ==
    \A p \in DOMAIN visit :
       \/ \E q \in DOMAIN Top.visit : visit[p] = Top.visit[q]
       \/ <<visit[p], Top.ctx>> \in Needs(cur, Top.ctx)

GoesOn == \E visited, visit : WithTop(Updated(Top, visited, visit)) /\ Among(visit)

(* So it is after every step of the innermost frame.                       *)
LEMMA StillVisited ==
    ASSUME WellTyped, Inv, NEW D, IsEvaluation(D), Right(D), Next, ~CallEntered, ~Return
    PROVE  Visiting /\ GoesOn
<1>1. Visiting
  BY DEF Next, Shortcut, Substitute, VisitChildren, VisitedAlready, CallCached,
     CallShortCircuited, ChooseBranch, BothBranches, Operate, Rebuild,
     Called, IfThenElse, ChildrenVisited, Composite
<1> SUFFICES GoesOn
  BY <1>1
<1>2. /\ Top \in Frames /\ Top.visit # <<>> /\ cur \in Terms /\ <<cur, Top.ctx>> \in D
      /\ Top.visit \in Seq(Terms)
  BY <1>1, CurRight, FieldFacts
<1>3. Among(FrontOf(Top.visit))
  <2>1. PICK s \in Seq(Terms) : s = Top.visit
    BY <1>2
  <2>2. /\ FrontOf(s) \in Seq(Terms) /\ Len(FrontOf(s)) = Len(s) - 1
        /\ \A i \in 1 .. Len(s) - 1 : FrontOf(s)[i] = s[i]
    BY <1>2, <2>1, TopFacts, Zenon
  <2>3. \A p \in DOMAIN FrontOf(s) : p \in DOMAIN s /\ FrontOf(s)[p] = s[p]
    <3>1. Len(s) \in Nat /\ DOMAIN s = 1 .. Len(s) /\ DOMAIN FrontOf(s) = 1 .. Len(s) - 1
      BY <2>2
    <3>2. \A p \in 1 .. Len(s) - 1 : p \in 1 .. Len(s)
      BY <3>1
    <3>3. QED
      BY <2>2, <3>1, <3>2
  <2>4. QED
    BY <2>1, <2>3 DEF Among
<1>4. ASSUME NEW ts \in Seq(Terms),
             \A j \in 1 .. Len(ts) : <<ts[j], Top.ctx>> \in Needs(cur, Top.ctx)
      PROVE  Among(Top.visit \o ts)
  <2>1. PICK s \in Seq(Terms) : s = Top.visit
    BY <1>2
  <2>2. PICK r : r = s \o ts
    OBVIOUS
  <2>3. /\ DOMAIN r = 1 .. Len(s) + Len(ts)
        /\ \A i \in 1 .. Len(s) : r[i] = s[i]
        /\ \A i \in Len(s) + 1 .. Len(s) + Len(ts) : r[i] = ts[i - Len(s)]
    BY <2>2, ConcatFacts
  <2>4. /\ DOMAIN s = 1 .. Len(s)
        /\ \A i \in 1 .. Len(s) + Len(ts) :
              i \in 1 .. Len(s) \/ i \in Len(s) + 1 .. Len(s) + Len(ts)
        /\ \A i \in Len(s) + 1 .. Len(s) + Len(ts) : i - Len(s) \in 1 .. Len(ts)
    <3>1. Len(s) \in Nat /\ Len(ts) \in Nat /\ DOMAIN s = 1 .. Len(s)
      OBVIOUS
    <3>2. QED
      BY <3>1
  <2>5. Among(r)
    BY <1>4, <2>1, <2>3, <2>4 DEF Among
  <2>6. QED
    BY <2>1, <2>2, <2>5
<1>5. ASSUME NEW v, Finish(v)
      PROVE  GoesOn
  BY <1>3, <1>5 DEF GoesOn, Finish, Finished
<1>6. CASE Shortcut \/ Substitute \/ CallCached \/ CallShortCircuited \/ Operate \/ Rebuild
  <2>1. \E v : Finish(v)
    BY <1>6 DEF Shortcut, Substitute, CallCached, CallShortCircuited, Operate, Rebuild
  <2>2. QED
    BY <1>5, <2>1
<1>7. CASE VisitedAlready
  <2>1. PICK w, r : w = Top.visited /\ r = FrontOf(Top.visit)
    OBVIOUS
  <2>2. WithTop(Updated(Top, w, r))
    BY <1>7, <2>1 DEF VisitedAlready, Popped
  <2>3. QED
    BY <1>3, <2>1, <2>2 DEF GoesOn
<1>8. CASE VisitChildren
  <2>1. CASE Malformed(cur)
    <3>1. \E v : Finish(v)
      BY <1>8, <2>1 DEF VisitChildren
    <3>2. QED
      BY <1>5, <3>1
  <2>2. CASE ~Malformed(cur)
    <3>1. ~IsAtom(cur) /\ Kids(cur) \in Seq(Terms)
      BY <1>2, <1>8, <2>2 DEF VisitChildren, Composite, IsAtom, WellTyped
    <3>2. PICK ts : ts = IF Kind(cur) = "ite" THEN <<Kids(cur)[1]>> ELSE Kids(cur)
      OBVIOUS
    <3>3. /\ ts \in Seq(Terms)
          /\ \A j \in 1 .. Len(ts) : <<ts[j], Top.ctx>> \in Needs(cur, Top.ctx)
      <4>1. CASE Kind(cur) = "ite"
        <5>1. Len(Kids(cur)) = 3
          BY <2>2, <4>1 DEF Malformed
        <5>2. <<Kids(cur)[1], Top.ctx>> \in Needs(cur, Top.ctx)
          BY <3>1, <5>1 DEF Needs
        <5>3. PICK k \in Terms : k = Kids(cur)[1]
          BY <3>1, <5>1
        <5>4. ts = <<k>>
          BY <3>2, <4>1, <5>3
        <5>5. ts \in Seq(Terms) /\ \A j \in 1 .. Len(ts) : ts[j] = k
          BY <5>4
        <5>6. QED
          BY <5>2, <5>3, <5>5
      <4>2. CASE Kind(cur) # "ite"
        <5>1. ~Decided(cur, Top.ctx)
          BY <4>2 DEF Decided
        <5>2. \A j \in 1 .. Len(Kids(cur)) : <<Kids(cur)[j], Top.ctx>> \in Needs(cur, Top.ctx)
          BY <3>1, <5>1 DEF Needs
        <5>3. QED
          BY <3>1, <3>2, <4>2, <5>2
      <4>3. QED
        BY <4>1, <4>2
    <3>4. WithTop(Opened(Top, ts))
      BY <1>8, <2>2, <3>2 DEF VisitChildren
    <3>5. PICK w, r : w = Bind(Top.visited, cur, Null) /\ r = Top.visit \o ts
      OBVIOUS
    <3>6. Opened(Top, ts) = Updated(Top, w, r)
      BY <3>5 DEF Opened, cur
    <3>7. QED
      BY <1>4, <3>3, <3>4, <3>5, <3>6 DEF GoesOn
  <2>3. QED
    BY <2>1, <2>2
<1>9. CASE ChooseBranch
  <2>1. PICK b \in 1 .. 3 : b = Branch
    BY DEF Branch
  <2>2. CASE args[b] = Null
    <3>1. ChildrenVisited /\ Kind(cur) = "ite" /\ Kind(args[1]) = "bool"
      BY <1>9 DEF ChooseBranch, IfThenElse
    <3>2. ~IsAtom(cur) /\ args[1] = KidMeaning(cur, Top.ctx, 1)
      BY <3>1, CurArgs
    <3>3. Len(Kids(cur)) = 3 /\ Kids(cur) \in Seq(Terms)
      BY <1>2, <3>1, <3>2 DEF IsAtom, Malformed, WellTyped
    <3>4. Decided(cur, Top.ctx) /\ b = Chosen(cur, Top.ctx)
      BY <2>1, <3>1, <3>2 DEF Decided, Branch, Chosen
    <3>5. <<Kids(cur)[b], Top.ctx>> \in Needs(cur, Top.ctx)
      BY <3>2, <3>4 DEF Needs
    <3>6. PICK ts : ts = <<Kids(cur)[b]>>
      OBVIOUS
    <3>7. /\ ts \in Seq(Terms)
          /\ \A j \in 1 .. Len(ts) : <<ts[j], Top.ctx>> \in Needs(cur, Top.ctx)
      <4>1. PICK k \in Terms : k = Kids(cur)[b]
        BY <3>3
      <4>2. ts \in Seq(Terms) /\ \A j \in 1 .. Len(ts) : ts[j] = k
        BY <3>6, <4>1
      <4>3. QED
        BY <3>5, <4>1, <4>2
    <3>8. WithTop(Pushed(Top, ts))
      BY <1>9, <2>1, <2>2, <3>6 DEF ChooseBranch, Visit
    <3>9. PICK w, r : w = Top.visited /\ r = Top.visit \o ts
      OBVIOUS
    <3>10. Pushed(Top, ts) = Updated(Top, w, r)
      BY <3>9 DEF Pushed
    <3>11. QED
      BY <1>4, <3>7, <3>8, <3>9, <3>10 DEF GoesOn
  <2>3. CASE args[b] # Null
    <3>1. \E v : Finish(v)
      BY <1>9, <2>1, <2>3 DEF ChooseBranch
    <3>2. QED
      BY <1>5, <3>1
  <2>4. QED
    BY <2>2, <2>3
<1>10. CASE BothBranches
  <2>1. PICK ts : ts = Unvisited
    OBVIOUS
  <2>2. CASE ts # <<>>
    <3>1. ChildrenVisited /\ Kind(cur) = "ite" /\ Kind(args[1]) # "bool"
      BY <1>10 DEF BothBranches, IfThenElse
    <3>2. ~IsAtom(cur) /\ args[1] = KidMeaning(cur, Top.ctx, 1)
      BY <3>1, CurArgs
    <3>3. Len(Kids(cur)) = 3 /\ Kids(cur) \in Seq(Terms)
      BY <1>2, <3>1, <3>2 DEF IsAtom, Malformed, WellTyped
    <3>4. ~Decided(cur, Top.ctx)
      BY <3>1, <3>2 DEF Decided
    <3>5. \A j \in 1 .. Len(Kids(cur)) : <<Kids(cur)[j], Top.ctx>> \in Needs(cur, Top.ctx)
      BY <3>2, <3>4 DEF Needs
    <3>6. PICK x, y \in Terms : x = Kids(cur)[2] /\ y = Kids(cur)[3]
      BY <3>3
    <3>7. PICK a, b \in BOOLEAN : a = (args[2] = Null) /\ b = (args[3] = Null)
      OBVIOUS
    <3>8. ts = (IF a THEN <<x>> ELSE <<>>) \o (IF b THEN <<y>> ELSE <<>>)
      BY <2>1, <3>6, <3>7, Zenon DEF Unvisited
    <3>9. ts \in Seq(Terms) /\ \A j \in 1 .. Len(ts) : ts[j] = x \/ ts[j] = y
      BY <3>8, UnvisitedFacts
    <3>10. <<x, Top.ctx>> \in Needs(cur, Top.ctx) /\ <<y, Top.ctx>> \in Needs(cur, Top.ctx)
      <4>1. 2 \in 1 .. Len(Kids(cur)) /\ 3 \in 1 .. Len(Kids(cur))
        BY <3>3
      <4>2. QED
        BY <3>5, <3>6, <4>1
    <3>11. WithTop(Pushed(Top, ts))
      BY <1>10, <2>1, <2>2 DEF BothBranches, Visit
    <3>12. \A j \in 1 .. Len(ts) : <<ts[j], Top.ctx>> \in Needs(cur, Top.ctx)
      BY <3>9, <3>10
    <3>13. PICK w, r : w = Top.visited /\ r = Top.visit \o ts
      OBVIOUS
    <3>14. Pushed(Top, ts) = Updated(Top, w, r)
      BY <3>13 DEF Pushed
    <3>15. QED
      BY <1>4, <3>9, <3>11, <3>12, <3>13, <3>14 DEF GoesOn
  <2>3. CASE ts = <<>>
    <3>1. \E v : Finish(v)
      BY <1>10, <2>1, <2>3 DEF BothBranches
    <3>2. QED
      BY <1>5, <3>1
  <2>4. QED
    BY <2>2, <2>3
<1>11. QED
  BY <1>6, <1>7, <1>8, <1>9, <1>10 DEF Next

(* Ranks along a stack whose innermost frame goes on.                      *)
LEMMA GoesOnRanked ==
    ASSUME Inv, NEW D, IsEvaluation(D), Right(D),
           NEW rank, IsRank(rank), DOMAIN rank = D, Ranked(rank), Visiting, GoesOn
    PROVE  Ranked(rank)'
<1>1. PICK visited, visit : WithTop(Updated(Top, visited, visit)) /\ Among(visit)
  BY DEF GoesOn
<1>2. PICK g : g = Updated(Top, visited, visit)
  OBVIOUS
<1>3. g.init = Top.init /\ g.ctx = Top.ctx /\ g.visit = visit
  BY <1>2 DEF Updated
<1>4. /\ Len(estack) \in DOMAIN estack /\ Top = estack[Len(estack)]
      /\ FrameRanked(rank, Top) /\ RankOf(rank, g) = RankOf(rank, Top)
  BY <1>3, TopInv DEF Visiting, Ranked, RankOf
<1>5. FrameRanked(rank, g)
  <2>1. ASSUME NEW p \in DOMAIN visit
        PROVE  rank[<<visit[p], Top.ctx>>] <= RankOf(rank, Top)
    <3>1. CASE \E q \in DOMAIN Top.visit : visit[p] = Top.visit[q]
      BY <1>4, <3>1 DEF FrameRanked
    <3>2. CASE <<visit[p], Top.ctx>> \in Needs(cur, Top.ctx)
      <4>1. PICK d, e : d = <<visit[p], Top.ctx>> /\ e = <<cur, Top.ctx>>
        OBVIOUS
      <4>2. rank[d] \in Nat /\ rank[e] \in Nat /\ RankOf(rank, Top) \in Nat
            /\ rank[d] < rank[e] /\ rank[e] <= RankOf(rank, Top)
        BY <3>2, <4>1, CurRanked
      <4>3. QED
        BY <4>1, <4>2
    <3>3. QED
      BY <1>1, <3>1, <3>2 DEF Among
  <2>2. QED
    BY <1>3, <1>4, <2>1 DEF FrameRanked
<1>6. /\ DOMAIN estack' = DOMAIN estack
      /\ \A i \in DOMAIN estack : estack'[i] = IF i = Len(estack) THEN g ELSE estack[i]
  BY <1>1, <1>2 DEF WithTop
<1>7. \A i \in DOMAIN estack : FrameRanked(rank, estack'[i])
  BY <1>5, <1>6 DEF Ranked
<1>8. \A i \in DOMAIN estack : RankOf(rank, estack'[i]) = RankOf(rank, estack[i])
  BY <1>4, <1>6
<1>9. \A i, j \in DOMAIN estack' : i < j => RankOf(rank, estack'[j]) < RankOf(rank, estack'[i])
  BY <1>6, <1>8 DEF Ranked
<1>10. QED
  BY <1>6, <1>7, <1>9 DEF Ranked

(* The case that is entered is of lower rank than all frames.              *)
LEMMA CallEnteredRanked ==
    ASSUME WellTyped, Inv, NEW D, IsEvaluation(D), Right(D),
           NEW rank, IsRank(rank), DOMAIN rank = D, Ranked(rank), CallEntered
    PROVE  Ranked(rank)'
<1>1. Called /\ Visiting
  BY CalledTyped DEF CallEntered
<1>2. PICK r : r = Interpret(args)
  OBVIOUS
<1>3. r.body # Null
  BY <1>2 DEF CallEntered, ShortCircuits
<1>4. <<r.body, r.ctx>> \in Needs(cur, Top.ctx)
  BY <1>1, <1>2, <1>3, CallRight, CaseNeeded
<1>5. PICK g : g = Frame(r.body, r.ctx, args)
  OBVIOUS
<1>6. g.init = r.body /\ g.ctx = r.ctx /\ DOMAIN g.visit = {1} /\ g.visit[1] = r.body
  BY <1>5 DEF Frame
<1>7. /\ RankOf(rank, g) \in Nat /\ RankOf(rank, Top) \in Nat
      /\ RankOf(rank, g) < RankOf(rank, Top)
  <2>1. PICK d, e : d = <<r.body, r.ctx>> /\ e = <<cur, Top.ctx>>
    OBVIOUS
  <2>2. /\ rank[d] \in Nat /\ rank[e] \in Nat /\ RankOf(rank, Top) \in Nat
        /\ rank[d] < rank[e] /\ rank[e] <= RankOf(rank, Top)
    BY <1>1, <1>4, <2>1, CurRanked
  <2>3. RankOf(rank, g) = rank[d]
    BY <1>6, <2>1 DEF RankOf
  <2>4. QED
    BY <2>2, <2>3
<1>8. FrameRanked(rank, g)
  BY <1>6, <1>7 DEF FrameRanked, RankOf
<1>9. estack' = Append(estack, g)
  BY <1>2, <1>5 DEF CallEntered
<1>10. estack \in Seq(Frames) /\ estack # <<>> /\ Top = estack[Len(estack)]
  BY <1>1, TopInv DEF Visiting
<1>11. PICK n \in Nat : n = Len(estack) /\ n >= 1
  BY <1>10
<1>12. /\ DOMAIN estack = 1 .. n /\ DOMAIN estack' = 1 .. n + 1
       /\ estack'[n + 1] = g
       /\ \A i \in 1 .. n : estack'[i] = estack[i]
       /\ \A i \in 1 .. n + 1 : i = n + 1 \/ i \in 1 .. n
  BY <1>9, <1>10, <1>11
<1>13. \A i \in 1 .. n + 1 : FrameRanked(rank, estack'[i])
  BY <1>8, <1>12 DEF Ranked
<1>14. \A i \in 1 .. n : RankOf(rank, estack[i]) \in Nat
  <2>1. ASSUME NEW i \in 1 .. n
        PROVE  RankOf(rank, estack[i]) \in Nat
    <3>1. <<estack[i].init, estack[i].ctx>> \in D
      BY <1>12 DEF Right, FrameRight
    <3>2. QED
      BY <3>1, RankFacts DEF RankOf
  <2>2. QED
    BY <2>1
<1>15. ASSUME NEW i \in 1 .. n
       PROVE  RankOf(rank, g) < RankOf(rank, estack[i])
  <2>1. CASE i = n
    BY <1>7, <1>10, <1>11, <2>1
  <2>2. CASE i # n
    <3>1. i < n /\ n \in DOMAIN estack /\ i \in DOMAIN estack
      BY <1>11, <1>12, <2>2
    <3>2. RankOf(rank, estack[n]) < RankOf(rank, estack[i])
      BY <3>1 DEF Ranked
    <3>3. QED
      BY <1>7, <1>10, <1>11, <1>14, <3>2
  <2>3. QED
    BY <2>1, <2>2
<1>16. ASSUME NEW i \in 1 .. n + 1, NEW j \in 1 .. n + 1, i < j
       PROVE  RankOf(rank, estack'[j]) < RankOf(rank, estack'[i])
  <2>1. i \in 1 .. n
    BY <1>16
  <2>2. CASE j = n + 1
    BY <1>12, <1>15, <2>1, <2>2
  <2>3. CASE j \in 1 .. n
    BY <1>12, <1>16, <2>1, <2>3 DEF Ranked
  <2>4. QED
    BY <1>12, <2>2, <2>3
<1>17. QED
  BY <1>12, <1>13, <1>16 DEF Ranked

(* The frame below goes on with less to visit.                             *)
LEMMA ReturnRanked ==
    ASSUME WellTyped, Inv, NEW rank, Ranked(rank), Return
    PROVE  Ranked(rank)'
<1>1. estack # <<>> /\ estack \in Seq(Frames)
  BY TopInv DEF Return, Done
<1>2. PICK n \in Nat : n = Len(estack) /\ n >= 1 /\ DOMAIN estack = 1 .. n
  BY <1>1
<1>3. PICK v : v = evaluated
  OBVIOUS
<1>4. estack' = [i \in 1 .. n - 1 |->
                    IF i = n - 1 THEN Finished(estack[i], v) ELSE estack[i]]
  BY <1>2, <1>3 DEF Return, Below
<1>5. /\ DOMAIN estack' = 1 .. n - 1
      /\ \A i \in 1 .. n - 1 : i \in DOMAIN estack
  BY <1>2, <1>4
<1>6. ASSUME NEW i \in 1 .. n - 1
      PROVE  FrameRanked(rank, estack'[i]) /\ RankOf(rank, estack'[i]) = RankOf(rank, estack[i])
  <2>1. FrameRanked(rank, estack[i])
    BY <1>5 DEF Ranked
  <2>2. CASE i # n - 1
    BY <1>4, <2>1, <2>2
  <2>3. CASE i = n - 1
    <3>1. PICK f : f = estack[i]
      OBVIOUS
    <3>2. PICK h : h = Finished(f, v)
      OBVIOUS
    <3>3. estack'[i] = h
      BY <1>4, <2>3, <3>1, <3>2
    <3>4. h.init = f.init /\ h.ctx = f.ctx /\ h.visit = FrontOf(f.visit)
      BY <3>2 DEF Finished, Updated
    <3>5. f \in Frames /\ f.visit # <<>>
      <4>1. i \in 1 .. Len(estack) - 1
        BY <1>2
      <4>2. Awaits(f, estack[i + 1])
        BY <3>1, <4>1 DEF Inv, StackInv
      <4>3. QED
        BY <1>1, <1>5, <3>1, <4>2 DEF Awaits
    <3>6. \A p \in DOMAIN h.visit : p \in DOMAIN f.visit /\ h.visit[p] = f.visit[p]
      <4>1. f.visit \in Seq(Terms)
        BY <3>5, FieldFacts
      <4>2. /\ Len(f.visit) \in Nat /\ DOMAIN f.visit = 1 .. Len(f.visit)
        BY <4>1
      <4>3. /\ h.visit \in Seq(Terms) /\ Len(h.visit) = Len(f.visit) - 1
            /\ \A p \in 1 .. Len(f.visit) - 1 : h.visit[p] = f.visit[p]
        BY <3>4, <3>5, <4>1, TopFacts, Zenon
      <4>4. DOMAIN h.visit = 1 .. Len(f.visit) - 1
        BY <4>3
      <4>5. \A p \in 1 .. Len(f.visit) - 1 : p \in 1 .. Len(f.visit)
        BY <4>2
      <4>6. QED
        BY <4>2, <4>3, <4>4, <4>5
    <3>7. QED
      BY <2>1, <3>1, <3>3, <3>4, <3>6 DEF FrameRanked, RankOf
  <2>4. QED
    BY <2>2, <2>3
<1>7. \A i, j \in DOMAIN estack' : i < j => RankOf(rank, estack'[j]) < RankOf(rank, estack'[i])
  BY <1>5, <1>6 DEF Ranked
<1>8. QED
  BY <1>5, <1>6, <1>7 DEF Ranked

(* Every step preserves that the ranks fall.                               *)
LEMMA NextRanked ==
    ASSUME WellTyped, Inv, NEW D, IsEvaluation(D), Right(D),
           NEW rank, IsRank(rank), DOMAIN rank = D, Ranked(rank), [Next]_vars
    PROVE  Ranked(rank)'
<1>1. CASE UNCHANGED vars
  BY <1>1 DEF vars, Ranked
<1>2. CASE Next
  BY <1>2, StillVisited, GoesOnRanked, CallEnteredRanked, ReturnRanked
<1>3. QED
  BY <1>1, <1>2

(* The case chosen for a call that is being answered is on the stack, and  *)
(* that for the call at hand is of lower rank.                             *)
LEMMA NoSelfCall ==
    ASSUME WellTyped, Inv, NEW D, IsEvaluation(D), Right(D),
           NEW rank, IsRank(rank), DOMAIN rank = D, Ranked(rank)
    PROVE  ~SelfCall
<1>1. SUFFICES ASSUME SelfCall PROVE FALSE
  OBVIOUS
<1>2. Called /\ Visiting /\ args \in Seq(Terms) /\ args # <<>>
  BY <1>1, CalledTyped DEF SelfCall
<1>3. PICK j \in DOMAIN estack : estack[j].call = args
  BY <1>1 DEF SelfCall
<1>4. /\ estack \in Seq(Frames) /\ estack # <<>> /\ Len(estack) \in DOMAIN estack
      /\ Top = estack[Len(estack)]
  BY <1>2, TopInv DEF Visiting
<1>5. j # 1
  BY <1>2, <1>3, <1>4 DEF Right, NoCall
<1>6. j - 1 \in 1 .. Len(estack) - 1 /\ j - 1 + 1 = j
  BY <1>4, <1>5
<1>7. Awaits(estack[j - 1], estack[j])
  BY <1>6 DEF Inv, StackInv
<1>8. PICK r : r = Interpret(args)
  OBVIOUS
<1>9. r.body = estack[j].init /\ r.ctx = estack[j].ctx
  BY <1>3, <1>7, <1>8 DEF Awaits
<1>10. r.body # Null
  <2>1. estack[j].init \in Terms
    BY <1>4, FieldFacts
  <2>2. QED
    BY <1>9, <2>1 DEF WellTyped
<1>11. <<r.body, r.ctx>> \in Needs(cur, Top.ctx)
  BY <1>2, <1>8, <1>10, CallRight, CaseNeeded
<1>12. PICK d, e : d = <<r.body, r.ctx>> /\ e = <<cur, Top.ctx>>
  OBVIOUS
<1>13. /\ rank[d] \in Nat /\ rank[e] \in Nat /\ RankOf(rank, Top) \in Nat
       /\ rank[d] < rank[e] /\ rank[e] <= RankOf(rank, Top)
  BY <1>2, <1>11, <1>12, CurRanked
<1>14. RankOf(rank, estack[j]) = rank[d]
  BY <1>9, <1>12 DEF RankOf
<1>15. CASE j = Len(estack)
  BY <1>4, <1>13, <1>14, <1>15
<1>16. CASE j # Len(estack)
  <2>1. j < Len(estack)
    BY <1>4, <1>16
  <2>2. RankOf(rank, Top) < RankOf(rank, estack[j])
    BY <1>4, <2>1 DEF Ranked
  <2>3. QED
    BY <1>13, <1>14, <2>2
<1>17. QED
  BY <1>15, <1>16

(* Ranks fall along the stack of one frame.                                *)
LEMMA InitRanked ==
    ASSUME WellTyped, NEW D, DefinedOn(D), NEW rank, IsRank(rank), DOMAIN rank = D, Init
    PROVE  Ranked(rank)
<1>1. PICK f : f = Frame(input.term, input.ctx, NoCall)
  OBVIOUS
<1>2. estack = <<f>>
  BY <1>1, Zenon DEF Init
<1>3. DOMAIN estack = {1} /\ estack[1] = f
  BY <1>2
<1>4. /\ f.init = input.term /\ f.ctx = input.ctx
      /\ DOMAIN f.visit = {1} /\ f.visit[1] = input.term
  BY <1>1 DEF Frame
<1>5. rank[<<input.term, input.ctx>>] \in Nat
  BY RankFacts DEF DefinedOn, Init
<1>6. FrameRanked(rank, f)
  BY <1>4, <1>5 DEF FrameRanked, RankOf
<1>7. QED
  BY <1>3, <1>6 DEF Ranked

(* Where evaluation by recursion ends, no call is interpreted twice.       *)
THEOREM InterpretedAtMostOnce ==
    ASSUME WellFounded, WellTyped,
           NEW D, DefinedOn(D), SoundTerms(D), FinalCases(D),
           NEW rank, IsRank(rank), DOMAIN rank = D
    PROVE  HSpec => []InterpretedOnce
<1>1. KindsApart
  BY DEF SoundTerms
<1>2. HInit => Right(D) /\ Ranked(rank) /\ InterpretedOnce
  <2>1. HInit => InterpretedOnce
    BY DEF HInit, InterpretedOnce
  <2>2. QED
    BY <2>1, InitRight, InitRanked DEF HInit
<1>3. /\ Inv /\ OnceInv /\ Right(D) /\ Ranked(rank) /\ InterpretedOnce
      /\ [HNext]_<<vars, interpreted>>
      => Right(D)' /\ Ranked(rank)' /\ InterpretedOnce'
  <2>1. SUFFICES ASSUME Inv, OnceInv, Right(D), Ranked(rank), InterpretedOnce,
                        [HNext]_<<vars, interpreted>>
                 PROVE  Right(D)' /\ Ranked(rank)' /\ InterpretedOnce'
    OBVIOUS
  <2>2. [Next]_vars
    BY <2>1 DEF HNext, vars
  <2>3. Right(D)'
    BY <2>1, <2>2, NextRight DEF DefinedOn
  <2>4. Ranked(rank)'
    BY <2>1, <2>2, NextRanked DEF DefinedOn
  <2>5. ~SelfCall
    BY <2>1, NoSelfCall DEF DefinedOn
  <2>6. InterpretedOnce'
    BY <1>1, <2>1, <2>5, OnceStep
  <2>7. QED
    BY <2>3, <2>4, <2>6
<1>4. HSpec => [](Inv /\ OnceInv)
  BY <1>1, AlwaysEntered
<1>5. QED
  BY <1>2, <1>3, <1>4, PTL DEF HSpec

=============================================================================
