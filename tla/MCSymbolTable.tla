--------------------------- MODULE MCSymbolTable ---------------------------
(***************************************************************************)
(* Small instances of the symbol table: two names, a few expressions.      *)
(***************************************************************************)
EXTENDS SymbolTableProps, TLC

CONSTANTS MaxDepth,  \* bound on the number of open scopes
          MaxDecls,  \* bound on the length of d_decls
          MaxChain   \* bound on the length of an overload vector

(* Bounds the runs: nothing in the code limits these.                      *)
Bounds == /\ Len(declsSizeCtx) <= MaxDepth
          /\ Len(decls) <= MaxDecls
          /\ Len(overloadedDecls) <= MaxDecls
          /\ \A e \in Bindable : Len(overloads[e]) <= MaxChain

Symmetry == Permutations(Exprs) \cup Permutations(Rules) \cup Permutations(Names)

=============================================================================
