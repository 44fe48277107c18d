------------------------------ MODULE Evaluator -----------------------------
(***************************************************************************)
(* TypeChecker::evaluate (src/type_checker.cpp): the evaluation of a term  *)
(* in a context, which beta-reduces, instantiates the types of rules and   *)
(* runs the programs of a signature.                                       *)
(*                                                                         *)
(* The code does not recurse.  It has a stack of frames, one for the term  *)
(* it was called with and one for each program case it is in; a frame has  *)
(* a context, a stack of subterms to visit and a map of those visited,     *)
(* where null marks a subterm whose children are being visited.  A trie    *)
(* that all frames share has the answers of the calls made so far.         *)
(*                                                                         *)
(* Each action is one iteration of a loop of the code.  What terms are,    *)
(* how a program picks its case and what a literal operator computes are   *)
(* parameters: EvalTerms defines them.  No plugin is installed.            *)
(***************************************************************************)
EXTENDS Naturals, Sequences

CONSTANTS Terms,              \* the expressions
          Kind(_),            \* getKind
          Kids(_),            \* getChildren
          IsGround(_),        \* isGround
          IsEvaluatable(_),   \* isEvaluatable
          Make(_, _),         \* mkExprInternal(kind of a term, children)
          Interpret(_),       \* evaluateProgramInternal: [body, ctx]
          LiteralOp(_, _),    \* evaluateLiteralOpInternal
          LiteralOps,         \* the kinds for which isLiteralOp holds
          True,               \* the expression true
          Null,               \* d_null; also nullptr
          Inputs              \* the calls of evaluate, [term, ctx]

VARIABLES
    input,     \* the parameters e and ctx
    estack,    \* estack: the frames, the innermost last
    evalTrie,  \* evalTrie: from calls to answers, Null if one has none
    keep,      \* keep
    result     \* the value returned

vars == <<input, estack, evalTrie, keep, result>>

NoCall == <<>>

Ctxs == UNION {[D -> Terms] : D \in SUBSET Terms}

LastOf(s) == s[Len(s)]

FrontOf(s) == SubSeq(s, 1, Len(s) - 1)

ElementsOf(s) == {s[i] : i \in DOMAIN s}

Bind(f, x, v) == [y \in DOMAIN f \cup {x} |-> IF y = x THEN v ELSE f[y]]

(* EvFrame: the call to answer stands for the pointer into the trie.       *)
Frame(e, ctx, call) ==
    [init |-> e, ctx |-> ctx, visited |-> <<>>, visit |-> <<e>>, call |-> call]

Init ==
    /\ input \in Inputs
    /\ estack = <<Frame(input.term, input.ctx, NoCall)>>
    /\ evalTrie = <<>>
    /\ keep = {}
    /\ result = Null

-----------------------------------------------------------------------------
(* The frame and the term at hand *)

Top == LastOf(estack)

cur == LastOf(Top.visit)

Visiting == estack # <<>> /\ Top.visit # <<>>

(* Faulty: with nothing to substitute, a term is taken as it is.           *)
StaysUnevaluated(t, ctx) == (~IsEvaluatable(t) /\ IsGround(t)) \/ DOMAIN ctx = {}

(* Nothing in the term can evaluate, and there is nothing to substitute.   *)
Stays(t, ctx) == ~IsEvaluatable(t) /\ (IsGround(t) \/ DOMAIN ctx = {})

IsParam(t) == Kind(t) = "param"

Malformed(t) == Kind(t) = "ite" /\ Len(Kids(t)) # 3

Updated(f, visited, visit) ==
    [init |-> f.init, ctx |-> f.ctx, visited |-> visited, visit |-> visit, call |-> f.call]

(* The frame once the value of the term at hand is known.                  *)
Finished(f, v) == Updated(f, Bind(f.visited, LastOf(f.visit), v), FrontOf(f.visit))

(* The frame while the children of the term at hand are visited.           *)
Opened(f, ts) == Updated(f, Bind(f.visited, LastOf(f.visit), Null), f.visit \o ts)

Pushed(f, ts) == Updated(f, f.visited, f.visit \o ts)

Popped(f) == Updated(f, f.visited, FrontOf(f.visit))

WithTop(f) == estack' = [estack EXCEPT ![Len(estack)] = f]

Finish(v) == WithTop(Finished(Top, v))

Visit(ts) == WithTop(Pushed(Top, ts))

Or(t, default) == IF t = Null THEN default ELSE t

-----------------------------------------------------------------------------
(* Before the children *)

Shortcut ==
    /\ Visiting /\ Stays(cur, Top.ctx)
    /\ Finish(cur)
    /\ UNCHANGED <<input, evalTrie, keep, result>>

Substitute ==
    /\ Visiting /\ ~Stays(cur, Top.ctx) /\ IsParam(cur)
    /\ Finish(IF cur \in DOMAIN Top.ctx THEN Top.ctx[cur] ELSE cur)
    /\ UNCHANGED <<input, evalTrie, keep, result>>

Composite == Visiting /\ ~Stays(cur, Top.ctx) /\ ~IsParam(cur)

(* Only the condition of an if-then-else is visited to begin with; one     *)
(* that has not three children is left as it is.                           *)
VisitChildren ==
    /\ Composite /\ cur \notin DOMAIN Top.visited
    /\ IF Malformed(cur)
       THEN Finish(cur)
       ELSE WithTop(Opened(Top, IF Kind(cur) = "ite" THEN <<Kids(cur)[1]>> ELSE Kids(cur)))
    /\ UNCHANGED <<input, evalTrie, keep, result>>

(* The term was on the stack twice.                                        *)
VisitedAlready ==
    /\ Composite /\ cur \in DOMAIN Top.visited /\ Top.visited[cur] # Null
    /\ WithTop(Popped(Top))
    /\ UNCHANGED <<input, evalTrie, keep, result>>

-----------------------------------------------------------------------------
(* After the children *)

ChildrenVisited ==
    Composite /\ cur \in DOMAIN Top.visited /\ Top.visited[cur] = Null

Value(f, t) == IF t \in DOMAIN f.visited THEN f.visited[t] ELSE Null

(* cchildren: Null for a child not visited, which only an if-then-else has.*)
ArgsIn(f, t) == [i \in 1 .. Len(Kids(t)) |-> Value(f, Kids(t)[i])]

args == ArgsIn(Top, cur)

IsCall(t, ts) == /\ Kind(t) \in {"apply", "apply_opaque"}
                 /\ Kind(ts[1]) \in {"program", "oracle"}

Called == ChildrenVisited /\ IsCall(cur, args)

KeepArgs == keep' = keep \cup ElementsOf(args)

(* The call was made before in this evaluation.  That it has no answer is  *)
(* remembered as well, because the value of d_null is not nullptr.         *)
CallCached ==
    /\ Called /\ args \in DOMAIN evalTrie
    /\ Finish(Or(evalTrie[args], Make(cur, args)))
    /\ KeepArgs
    /\ UNCHANGED <<input, evalTrie, result>>

(* No frame is pushed for a case that leaves nothing to substitute.        *)
ShortCircuits(r) == r.body = Null \/ IsGround(r.body) \/ DOMAIN r.ctx = {}

CallShortCircuited ==
    /\ Called /\ args \notin DOMAIN evalTrie
    /\ \E r \in {Interpret(args)} :
          /\ ShortCircuits(r)
          /\ evalTrie' = Bind(evalTrie, args, r.body)
          /\ Finish(Or(r.body, Make(cur, args)))
    /\ KeepArgs
    /\ UNCHANGED <<input, result>>

(* Faulty: the term of the call is popped when its frame is pushed.        *)
CallEnteredPopped ==
    /\ Called /\ args \notin DOMAIN evalTrie
    /\ \E r \in {Interpret(args)} :
          /\ ~ShortCircuits(r)
          /\ estack' = Append([estack EXCEPT ![Len(estack)] = Popped(Top)],
                              Frame(r.body, r.ctx, args))
    /\ KeepArgs
    /\ UNCHANGED <<input, evalTrie, result>>

(* The term of the call remains on the stack of its frame.                 *)
CallEntered ==
    /\ Called /\ args \notin DOMAIN evalTrie
    /\ \E r \in {Interpret(args)} :
          /\ ~ShortCircuits(r)
          /\ estack' = Append(estack, Frame(r.body, r.ctx, args))
    /\ KeepArgs
    /\ UNCHANGED <<input, evalTrie, result>>

IfThenElse == ChildrenVisited /\ Kind(cur) = "ite"

Branch == IF args[1] = True THEN 2 ELSE 3

(* Faulty: the children are counted as if there were no condition.         *)
ChooseBranchOffByOne ==
    /\ IfThenElse /\ Kind(args[1]) = "bool"
    /\ IF args[Branch] = Null
       THEN Visit(<<Kids(cur)[Branch - 1]>>)
       ELSE Finish(args[Branch])
    /\ UNCHANGED <<input, evalTrie, keep, result>>

(* The condition is true or false: only that branch is visited.            *)
ChooseBranch ==
    /\ IfThenElse /\ Kind(args[1]) = "bool"
    /\ IF args[Branch] = Null
       THEN Visit(<<Kids(cur)[Branch]>>)
       ELSE Finish(args[Branch])
    /\ UNCHANGED <<input, evalTrie, keep, result>>

Unvisited == (IF args[2] = Null THEN <<Kids(cur)[2]>> ELSE <<>>)
          \o (IF args[3] = Null THEN <<Kids(cur)[3]>> ELSE <<>>)

(* Faulty: the branches are visited, but the term is made at once.         *)
BothBranchesAtOnce ==
    /\ IfThenElse /\ Kind(args[1]) # "bool"
    /\ Finish(Make(cur, args))
    /\ UNCHANGED <<input, evalTrie, keep, result>>

(* The condition is stuck: both branches are visited, for what is to be    *)
(* substituted in them.                                                    *)
BothBranches ==
    /\ IfThenElse /\ Kind(args[1]) # "bool"
    /\ IF Unvisited # <<>> THEN Visit(Unvisited) ELSE Finish(Make(cur, args))
    /\ UNCHANGED <<input, evalTrie, keep, result>>

Operate ==
    /\ ChildrenVisited /\ Kind(cur) \in LiteralOps \ {"ite"}
    /\ Finish(Or(LiteralOp(Kind(cur), args), Make(cur, args)))
    /\ UNCHANGED <<input, evalTrie, keep, result>>

Rebuild ==
    /\ ChildrenVisited /\ Kind(cur) \notin LiteralOps \cup {"ite"} /\ ~IsCall(cur, args)
    /\ Finish(Make(cur, args))
    /\ UNCHANGED <<input, evalTrie, keep, result>>

-----------------------------------------------------------------------------
(* The end of a frame *)

Done == estack # <<>> /\ Top.visit = <<>>

evaluated == Top.visited[Top.init]

(* The value is passed to the caller's frame, whose call ends with it.     *)
Below == [i \in 1 .. Len(estack) - 1 |->
            IF i = Len(estack) - 1 THEN Finished(estack[i], evaluated) ELSE estack[i]]

(* Faulty: the answer is not entered in the trie.                          *)
ReturnUncached ==
    /\ Done
    /\ keep' = IF Top.call = NoCall THEN keep ELSE keep \cup {evaluated}
    /\ estack' = Below
    /\ result' = IF Len(estack) = 1 THEN evaluated ELSE Null
    /\ UNCHANGED <<input, evalTrie>>

(* Faulty: the answer is in the trie, and nothing holds it there.          *)
ReturnUnkept ==
    /\ Done
    /\ evalTrie' = IF Top.call = NoCall THEN evalTrie ELSE Bind(evalTrie, Top.call, evaluated)
    /\ estack' = Below
    /\ result' = IF Len(estack) = 1 THEN evaluated ELSE Null
    /\ UNCHANGED <<input, keep>>

Return ==
    /\ Done
    /\ evalTrie' = IF Top.call = NoCall THEN evalTrie ELSE Bind(evalTrie, Top.call, evaluated)
    /\ keep' = IF Top.call = NoCall THEN keep ELSE keep \cup {evaluated}
    /\ estack' = Below
    /\ result' = IF Len(estack) = 1 THEN evaluated ELSE Null
    /\ UNCHANGED input

Next ==
    \/ Shortcut \/ Substitute \/ VisitChildren \/ VisitedAlready
    \/ CallCached \/ CallShortCircuited \/ CallEntered
    \/ ChooseBranch \/ BothBranches
    \/ Operate \/ Rebuild
    \/ Return

Spec == Init /\ [][Next]_vars

(* The loop runs as long as a frame is left.                               *)
FairSpec == Spec /\ WF_vars(Next)

=============================================================================
