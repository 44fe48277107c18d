---------------------------- MODULE ProofChecker ----------------------------
(***************************************************************************)
(* The proof commands of Ethos and the files they are read from:           *)
(* CmdParser::parseNextCommand (src/cmd_parser.cpp), the assumption scopes *)
(* and the reference assertions of State (src/state.cpp) and the order in  *)
(* which main (src/main.cpp) reads its inputs.                             *)
(*                                                                         *)
(* The symbol table is the stack of environments of ScopedEnv, which       *)
(* SymbolTable implements.  What a name is bound to here is a proof, and a *)
(* proof is represented by its basis: the assumptions it rests on that no  *)
(* step-pop has discharged.  The code keeps no such thing; it keeps the    *)
(* scopes, and this module is about whether the scopes are enough.  Rules  *)
(* are taken to be sound: a step proves anything from its premises, and a  *)
(* step-pop something that no longer rests on the assumption it consumes.  *)
(* A rule marked :sorry is the exception: what it proves rests on Sorry.   *)
(***************************************************************************)
EXTENDS Naturals, Sequences

CONSTANTS Names,          \* the names proofs are bound to
          Formulas,
          Normalize,      \* a normalization routine for a reference
          Files,          \* the files that exist
          EoAssertions    \* the build has EO_ASSERTIONS

ASSUME CheckerAssumption == /\ Normalize \in [Formulas -> Formulas]
                            /\ EoAssertions \in BOOLEAN

VARIABLES
    envs,                \* the environments of the symbol table
    assumptions,         \* d_assumptions
    assumptionsSizeCtx,  \* d_assumptionsSizeCtx
    parsers,             \* the inputs being read, the innermost last
    finished,            \* d_isFinished of the innermost parser
    includes,            \* d_includes
    hasReference,        \* d_hasReference
    referenceNf,         \* d_referenceNf is not null
    referenceAsserts,    \* d_referenceAsserts
    incomplete,          \* d_rstats has a rule of d_pfrSorry
    phase                \* how far main is, or how it ended

stateVars == <<envs, assumptions, assumptionsSizeCtx, incomplete>>

fileVars == <<parsers, finished, includes>>

referenceVars == <<hasReference, referenceNf, referenceAsserts>>

vars == <<stateVars, fileVars, referenceVars, phase>>

Sorry == "sorry"

Proofs == SUBSET (Formulas \cup {Sorry})

Scopes == INSTANCE ScopedEnv WITH Exprs <- Proofs

Stdin == "stdin"

Input == [file : Files \cup {Stdin}, reference : BOOLEAN]

(* The two responses; "error" is a parse error or EO_FATAL, "aborted" a    *)
(* false Assert.                                                           *)
Ended == {"correct", "incomplete", "error", "aborted"}

TypeOK ==
    /\ envs \in Seq(Scopes!Env) /\ envs # <<>>
    /\ assumptions \in Seq(Formulas)
    /\ assumptionsSizeCtx \in Seq(Nat)
    /\ parsers \in Seq(Input)
    /\ finished \in BOOLEAN
    /\ includes \subseteq Files
    /\ hasReference \in BOOLEAN
    /\ referenceNf \in BOOLEAN
    /\ referenceAsserts \subseteq Formulas
    /\ incomplete \in BOOLEAN
    /\ phase \in {"options", "input"} \cup Ended

Init ==
    /\ envs = <<Scopes!NoBindings>>
    /\ assumptions = <<>>
    /\ assumptionsSizeCtx = <<>>
    /\ parsers = <<>>
    /\ finished = FALSE
    /\ includes = {}
    /\ hasReference = FALSE
    /\ referenceNf = FALSE
    /\ referenceAsserts = {}
    /\ incomplete = FALSE
    /\ phase = "options"

-----------------------------------------------------------------------------
(* Where a command is read *)

Innermost == parsers[Len(parsers)]

Reading == parsers # <<>> /\ ~finished /\ phase \notin Ended

(* The commands of d_table for a reference input and for any other.        *)
ReadsReference == Reading /\ Innermost.reference

ReadsProof == Reading /\ ~Innermost.reference

AssumptionLevel == Len(assumptionsSizeCtx)

Stops(how) == phase' = how /\ UNCHANGED <<stateVars, fileVars, referenceVars>>

(* Any command may be refused: the parser reports the error and exits.     *)
ParseError == Reading /\ Stops("error")

-----------------------------------------------------------------------------
(* Assumptions *)

Norm(F) == IF referenceNf THEN Normalize[F] ELSE F

(* Faulty: a reference without assertions is not checked against.          *)
AssumableIfNone(F) ==
    hasReference /\ AssumptionLevel = 0 /\ referenceAsserts # {} => Norm(F) \in referenceAsserts

(* addAssumption answers whether F may be assumed here.                    *)
Assumable(F) == hasReference /\ AssumptionLevel = 0 => Norm(F) \in referenceAsserts

Assume(n, F) ==
    /\ ReadsProof
    /\ envs' = Scopes!Bound(envs, n, {F})
    /\ assumptions' = Append(assumptions, F)
    /\ phase' = IF Assumable(F) THEN phase ELSE "error"
    /\ UNCHANGED <<assumptionsSizeCtx, incomplete, fileVars, referenceVars>>

(* Faulty: the size is taken after the assumption is added.                *)
AssumePushSizedLate(n, F) ==
    /\ ReadsProof
    /\ envs' = Scopes!Bound(Scopes!Pushed(envs), n, {F})
    /\ assumptionsSizeCtx' = Append(assumptionsSizeCtx, Len(assumptions) + 1)
    /\ assumptions' = Append(assumptions, F)
    /\ UNCHANGED <<incomplete, fileVars, referenceVars, phase>>

(* In the scope it has just opened addAssumption has nothing to check.     *)
AssumePush(n, F) ==
    /\ ReadsProof
    /\ envs' = Scopes!Bound(Scopes!Pushed(envs), n, {F})
    /\ assumptionsSizeCtx' = Append(assumptionsSizeCtx, Len(assumptions))
    /\ assumptions' = Append(assumptions, F)
    /\ UNCHANGED <<incomplete, fileVars, referenceVars, phase>>

-----------------------------------------------------------------------------
(* Steps *)

Visible(n) == Scopes!Current[n] # <<>>

(* What getVar returns: the latest binding.                                *)
ProofOf(n) == Scopes!Current[n][Len(Scopes!Current[n])]

Basis(premises) == UNION {ProofOf(p) : p \in premises}

(* What is proved from premises, by a rule marked :sorry or not.           *)
Concluded(premises, sorry) == Basis(premises) \cup IF sorry THEN {Sorry} ELSE {}

Step(n, premises, sorry) ==
    /\ ReadsProof
    /\ \A p \in premises : Visible(p)
    /\ envs' = Scopes!Bound(envs, n, Concluded(premises, sorry))
    /\ incomplete' = (incomplete \/ sorry)
    /\ UNCHANGED <<assumptions, assumptionsSizeCtx, fileVars, referenceVars, phase>>

ScopeStart == assumptionsSizeCtx[AssumptionLevel]

(* getCurrentAssumptions                                                   *)
CurrentAssumptions == SubSeq(assumptions, ScopeStart + 1, Len(assumptions))

(* Faulty: the names of the scope stay visible.                            *)
StepPopKeepsScope(n, premises, sorry) ==
    /\ ReadsProof
    /\ AssumptionLevel > 0
    /\ EoAssertions => Len(CurrentAssumptions) = 1
    /\ \A p \in premises : Visible(p)
    /\ envs' = Scopes!Bound(envs, n, Concluded(premises, sorry) \ {CurrentAssumptions[1]})
    /\ assumptions' = SubSeq(assumptions, 1, ScopeStart)
    /\ assumptionsSizeCtx' = SubSeq(assumptionsSizeCtx, 1, AssumptionLevel - 1)
    /\ incomplete' = (incomplete \/ sorry)
    /\ UNCHANGED <<fileVars, referenceVars, phase>>

(* The rule is given the first assumption of the scope.  At level zero the *)
(* command is an error.                                                    *)
StepPop(n, premises, sorry) ==
    /\ ReadsProof
    /\ AssumptionLevel > 0
    /\ EoAssertions => Len(CurrentAssumptions) = 1
    /\ Len(envs) > 1
    /\ \A p \in premises : Visible(p)
    /\ envs' = Scopes!Bound(Scopes!Popped(envs), n,
                            Concluded(premises, sorry) \ {CurrentAssumptions[1]})
    /\ assumptions' = SubSeq(assumptions, 1, ScopeStart)
    /\ assumptionsSizeCtx' = SubSeq(assumptionsSizeCtx, 1, AssumptionLevel - 1)
    /\ incomplete' = (incomplete \/ sorry)
    /\ UNCHANGED <<fileVars, referenceVars, phase>>

(* Assert (as.size()==1)                                                   *)
StepPopAborts ==
    /\ ReadsProof
    /\ AssumptionLevel > 0
    /\ EoAssertions /\ Len(CurrentAssumptions) # 1
    /\ Stops("aborted")

-----------------------------------------------------------------------------
(* Scopes *)

Push ==
    /\ Reading
    /\ envs' = Scopes!Pushed(envs)
    /\ UNCHANGED <<assumptions, assumptionsSizeCtx, incomplete, fileVars, referenceVars, phase>>

(* Faulty: the global scope is closed like any other.                      *)
PopUnchecked ==
    /\ Reading
    /\ envs' = Scopes!Popped(envs)
    /\ UNCHANGED <<assumptions, assumptionsSizeCtx, incomplete, fileVars, referenceVars, phase>>

(* popScope, whichever command opened the scope; in the global scope it is *)
(* an error.                                                               *)
Pop ==
    /\ Reading
    /\ Len(envs) > 1
    /\ envs' = Scopes!Popped(envs)
    /\ UNCHANGED <<assumptions, assumptionsSizeCtx, incomplete, fileVars, referenceVars, phase>>

(* Faulty: the assumptions are forgotten and the names are not.            *)
ResetKeepsNames ==
    /\ Reading
    /\ assumptions' = <<>>
    /\ assumptionsSizeCtx' = <<>>
    /\ UNCHANGED <<envs, incomplete, fileVars, referenceVars, phase>>

(* What has been read of the reference, the files and the rules stays.     *)
Reset ==
    /\ Reading
    /\ envs' = <<Scopes!NoBindings>>
    /\ assumptions' = <<>>
    /\ assumptionsSizeCtx' = <<>>
    /\ UNCHANGED <<incomplete, fileVars, referenceVars, phase>>

-----------------------------------------------------------------------------
(* Files *)

(* State::includeFile.  A file that was included before is not read again, *)
(* and then nothing else happens either.                                   *)
IncludeFile(f, isReference, nf) ==
    \/ /\ f \in includes
       /\ UNCHANGED <<fileVars, referenceVars>>
    \/ /\ f \notin includes
       /\ includes' = includes \cup {f}
       /\ hasReference' = isReference
       /\ referenceNf' = nf
       /\ parsers' = Append(parsers, [file |-> f, reference |-> isReference])
       /\ UNCHANGED <<finished, referenceAsserts>>

(* Assert (!isReference || !d_hasReference)                                *)
SecondReferenceAborts(f) ==
    /\ EoAssertions /\ hasReference /\ f \notin includes
    /\ Stops("aborted")

Include(f) ==
    /\ ReadsProof
    /\ AssumptionLevel = 0
    /\ IncludeFile(f, FALSE, FALSE)
    /\ UNCHANGED <<stateVars, phase>>

Reference(f, nf) ==
    /\ ReadsProof
    /\ ~hasReference
    /\ AssumptionLevel = 0
    /\ IncludeFile(f, TRUE, nf)
    /\ UNCHANGED <<stateVars, phase>>

(* (assert F) of a reference input                                         *)
ReferenceAssert(F) ==
    /\ ReadsReference
    /\ referenceAsserts' = referenceAsserts \cup {Norm(F)}
    /\ UNCHANGED <<stateVars, fileVars, hasReference, referenceNf, phase>>

Exit ==
    /\ Reading
    /\ finished' = TRUE
    /\ UNCHANGED <<stateVars, parsers, includes, referenceVars, phase>>

(* The response of main.                                                   *)
Response == IF incomplete THEN "incomplete" ELSE "correct"

(* The innermost scope declares nothing, or there is none.                 *)
NothingDeclared == Len(envs) = 1 \/ envs[Len(envs)] = envs[Len(envs) - 1]

(* The end of the innermost input, or the first look at it after an exit.  *)
(* includeFile refuses to return with an open assumption, and expects the  *)
(* innermost scope to have declared it; the input that main reads from a   *)
(* stream is not included.                                                 *)
EndOfInput ==
    /\ parsers # <<>> /\ phase \notin Ended
    /\ \/ /\ Innermost.file # Stdin /\ AssumptionLevel # 0
          /\ Stops(IF EoAssertions /\ NothingDeclared THEN "aborted" ELSE "error")
       \/ /\ Innermost.file = Stdin \/ AssumptionLevel = 0
          /\ parsers' = SubSeq(parsers, 1, Len(parsers) - 1)
          /\ finished' = FALSE
          /\ phase' = IF phase = "input" /\ Len(parsers) = 1 THEN Response ELSE phase
          /\ UNCHANGED <<stateVars, includes, referenceVars>>

-----------------------------------------------------------------------------
(* main *)

BetweenOptions == phase = "options" /\ parsers = <<>>

(* --include=f and --reference=f, in the order of the command line         *)
IncludeOption(f) ==
    /\ BetweenOptions
    /\ IncludeFile(f, FALSE, FALSE)
    /\ UNCHANGED <<stateVars, phase>>

ReferenceOption(f) ==
    /\ BetweenOptions
    /\ \/ /\ ~(EoAssertions /\ hasReference /\ f \notin includes)
          /\ IncludeFile(f, TRUE, FALSE)
          /\ UNCHANGED <<stateVars, phase>>
       \/ SecondReferenceAborts(f)

(* The input file, included like any other                                 *)
InputFile(f) ==
    /\ BetweenOptions
    /\ IncludeFile(f, FALSE, FALSE)
    /\ phase' = IF f \in includes THEN Response ELSE "input"
    /\ UNCHANGED stateVars

InputStream ==
    /\ BetweenOptions
    /\ parsers' = <<[file |-> Stdin, reference |-> FALSE]>>
    /\ phase' = "input"
    /\ UNCHANGED <<stateVars, finished, includes, referenceVars>>

Main == \/ \E f \in Files : IncludeOption(f) \/ ReferenceOption(f) \/ InputFile(f)
        \/ InputStream

Command ==
    \/ \E n \in Names : \/ \E F \in Formulas : Assume(n, F) \/ AssumePush(n, F)
                        \/ \E premises \in SUBSET Names, sorry \in BOOLEAN :
                              Step(n, premises, sorry) \/ StepPop(n, premises, sorry)
    \/ StepPopAborts
    \/ Push \/ Pop \/ Reset
    \/ \E f \in Files : \/ Include(f)
                        \/ \E nf \in BOOLEAN : Reference(f, nf)
    \/ \E F \in Formulas : ReferenceAssert(F)
    \/ Exit
    \/ ParseError

Next == Main \/ Command \/ EndOfInput

Spec == Init /\ [][Next]_vars

=============================================================================
