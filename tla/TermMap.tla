------------------------------ MODULE TermMap -------------------------------
(***************************************************************************)
(* What State::mkExprInternal promises (src/state.h): "Constructs a new    *)
(* expression from k and children, or returns a previous one if the same   *)
(* call to mkExprInternal was made previously."  So two expressions in use *)
(* are one only if their children are, and terms are compared by address.  *)
(***************************************************************************)
EXTENDS Sequences

CONSTANTS Ids,   \* addresses of expressions
          Calls  \* the children that mkExprInternal may be called with

VARIABLE terms  \* the pairs of the children of an expression and itself

TermInit == terms = {}

Construct(children, e) ==
    /\ \A term \in terms : term[1] # children /\ term[2] # e
    /\ terms' = terms \cup {<<children, e>>}

Delete(children, e) ==
    /\ <<children, e>> \in terms
    /\ terms' = terms \ {<<children, e>>}

TermNext == \/ \E children \in Calls, e \in Ids : Construct(children, e)
            \/ \E term \in terms : Delete(term[1], term[2])

TermSpec == TermInit /\ [][TermNext]_terms

=============================================================================
