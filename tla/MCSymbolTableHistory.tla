----------------------- MODULE MCSymbolTableHistory ------------------------
(***************************************************************************)
(* The symbol table without the discipline of FreshSpec, with a history of *)
(* the tables to restore.                                                  *)
(***************************************************************************)
EXTENDS MCSymbolTable

(* The symbol tables as they were when the open scopes were entered.       *)
VARIABLE saved

historyVars == <<vars, saved>>

SavedNext ==
    /\ Next
    /\ saved' = CASE PushScope -> Append(saved, symTable)
                  [] PopScopeReturns -> FrontOf(saved)
                  [] Reset -> <<>>
                  [] OTHER -> saved

SavedSpec == Init /\ saved = <<>> /\ [][SavedNext]_historyVars

(* "was overloaded, we revert the binding" (state.cpp, popScope): when     *)
(* popScope returns, every name denotes what it denoted when the scope was *)
(* opened.                                                                 *)
PopRestores == [][PopScopeReturns => symTable' = LastOf(saved)]_historyVars

=============================================================================
