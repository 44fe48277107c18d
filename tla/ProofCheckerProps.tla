------------------------- MODULE ProofCheckerProps --------------------------
(***************************************************************************)
(* What the proof checker must guarantee when it answers, and the use of   *)
(* the commands under which it does.                                       *)
(***************************************************************************)
EXTENDS ProofChecker

VARIABLES
    opened,  \* for each open assumption scope, the environments it made current
    before,  \* how many of the assumptions came before the reference was read
    checked  \* a reference was read, and assumptions are to be checked from then on

historyVars == <<opened, before, checked>>

allVars == <<vars, historyVars>>

ReadsAReference == \/ \E f \in Files, nf \in BOOLEAN : Reference(f, nf) /\ f \notin includes
                   \/ \E f \in Files : ReferenceOption(f) /\ f \notin includes /\ phase' = phase

(* What the commands do to the history.                                    *)
History ==
    /\ opened' = CASE Len(assumptionsSizeCtx') > AssumptionLevel -> Append(opened, Len(envs'))
                   [] Len(assumptionsSizeCtx') < AssumptionLevel ->
                          SubSeq(opened, 1, Len(assumptionsSizeCtx'))
                   [] OTHER -> opened
    /\ before' = IF ReadsAReference THEN Len(assumptions)
                 ELSE IF assumptions' = <<>> THEN 0 ELSE before
    /\ checked' = (checked \/ ReadsAReference)

HistoryInit == Init /\ opened = <<>> /\ before = 0 /\ checked = FALSE

FreeSpec == HistoryInit /\ [][Next /\ History]_allVars

-----------------------------------------------------------------------------
(* The discipline *)

(* The current scope is the one the last assume-push opened.               *)
AtAssumptionScope == AssumptionLevel > 0 /\ Len(envs) = opened[AssumptionLevel]

(* push and pop nest with the assumption scopes: pop closes a scope that   *)
(* push opened, step-pop one that assume-push opened and that has the one  *)
(* assumption it came with.                                                *)
Nests == /\ Len(assumptionsSizeCtx') < AssumptionLevel =>
                \/ AtAssumptionScope /\ Len(CurrentAssumptions) = 1
                \/ Reset
         /\ AtAssumptionScope => ~Pop

(* A file is included before the reference is read, not after.             *)
IncludesFirst == checked => \A f \in Files : ~Include(f) /\ ~IncludeOption(f) /\ ~InputFile(f)

NestedNext == Next /\ Nests /\ History

NestedSpec == HistoryInit /\ [][NestedNext]_allVars

ValidatingSpec == HistoryInit /\ [][NestedNext /\ IncludesFirst]_allVars

-----------------------------------------------------------------------------
(* Properties *)

RangeOf(s) == {s[i] : i \in 1 .. Len(s)}

(* The assumptions in force in the k-th environment: all but those of the  *)
(* assumption scopes that were opened later.                               *)
InForce(k) ==
    {assumptions[j] : j \in {j \in 1 .. Len(assumptions) :
        \A i \in 1 .. AssumptionLevel : opened[i] > k => j <= assumptionsSizeCtx[i]}}

(* What rests on Sorry may be used once the response is to be incomplete.  *)
Admitted == IF incomplete THEN {Sorry} ELSE {}

(* Whatever a name of the environment can denote rests on S alone.         *)
RestsOn(env, S) == \A n \in Names : \A i \in 1 .. Len(env[n]) : env[n][i] \subseteq S

(* Every proof a step can use, now or after any scopes are closed, rests   *)
(* on assumptions that are open there: nothing proved from a local         *)
(* assumption outlives it.  And if one rests on a rule marked :sorry, the  *)
(* response will not be correct.                                           *)
ProofsCovered == \A k \in 1 .. Len(envs) : RestsOn(envs[k], InForce(k) \cup Admitted)

(* What a step can use now; the visible part of ProofsCovered.             *)
VisibleCovered ==
    \A n \in Names : Visible(n) => ProofOf(n) \subseteq RangeOf(assumptions) \cup Admitted

(* The assumption scopes are as many as d_assumptionsSizeCtx says, each    *)
(* with an environment and an assumption of its own, in order.             *)
ScopesAligned ==
    /\ Len(opened) = AssumptionLevel
    /\ \A i, j \in 1 .. AssumptionLevel :
          i < j => opened[i] < opened[j] /\ assumptionsSizeCtx[i] < assumptionsSizeCtx[j]
    /\ \A i \in 1 .. AssumptionLevel :
          /\ opened[i] \in 2 .. Len(envs)
          /\ assumptionsSizeCtx[i] < Len(assumptions)

LevelZero == IF AssumptionLevel = 0 THEN Len(assumptions) ELSE assumptionsSizeCtx[1]

(* "If ethos has read a reference file, then for each command of the form  *)
(* (assume <symbol> G), ethos will check whether G occurs in the set of    *)
(* parsed reference assertions" (user_manual.md).                          *)
AssumptionsChecked ==
    checked /\ phase # "error" =>
        \A i \in (before + 1) .. LevelZero : Norm(assumptions[i]) \in referenceAsserts

(* The response of a run with a reference, from end to end: whatever was   *)
(* proved rests on assertions of the reference and on what was assumed     *)
(* before the reference was read.  Local assumptions are never checked, so *)
(* this needs the scopes as well as the check.                             *)
Validated ==
    checked /\ phase = "correct" /\ AssumptionLevel = 0 =>
        \A n \in Names : Visible(n) =>
            \A F \in ProofOf(n) : \/ Norm(F) \in referenceAsserts
                                  \/ \E i \in 1 .. before : assumptions[i] = F

=============================================================================
