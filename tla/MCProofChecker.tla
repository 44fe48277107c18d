--------------------------- MODULE MCProofChecker ---------------------------
(***************************************************************************)
(* Small instances of the proof checker.                                   *)
(***************************************************************************)
EXTENDS ProofCheckerProps, FiniteSets, TLC

CONSTANTS MaxSize,         \* bound on the open scopes and the files read, together
          MaxAssumptions,  \* bound on the length of d_assumptions
          MaxBindings      \* bound on the bindings of a name in an environment

(* Two formulas, and a routine that normalizes one to the other.           *)
MCFormulas == {"F", "G"}

MCNormalize == [A \in MCFormulas |-> "G"]

(* Bounds the runs: nothing in the code limits these.                      *)
Bounds == /\ Len(envs) - 1 + Cardinality(includes) <= MaxSize
          /\ Len(assumptions) <= MaxAssumptions
          /\ \A k \in 1 .. Len(envs), n \in Names : Len(envs[k][n]) <= MaxBindings

Symmetry == Permutations(Names) \cup Permutations(Files)

=============================================================================
