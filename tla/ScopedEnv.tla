----------------------------- MODULE ScopedEnv -----------------------------
(***************************************************************************)
(* What the symbol table of Ethos promises its callers: a stack of         *)
(* environments.  The global environment is envs[1], the current one is    *)
(* the last.  An environment maps a name to the sequence of its visible    *)
(* bindings, oldest first; the last one is what the name denotes and the   *)
(* whole sequence is what overload resolution chooses from.  Opening a     *)
(* scope copies the current environment and closing it restores the copy,  *)
(* whatever was bound in between.                                          *)
(*                                                                         *)
(* The interface is State::pushScope, popScope, bind and reset             *)
(* (src/state.h); SymbolTable.tla models the code that implements it.      *)
(***************************************************************************)
EXTENDS Naturals, Sequences

CONSTANTS Names,  \* the names the input uses
          Exprs   \* the expressions a name may be bound to

VARIABLE envs

Env == [Names -> Seq(Exprs)]

NoBindings == [n \in Names |-> <<>>]

Current == envs[Len(envs)]

(* The stack es with a scope more, a scope less, or e bound to n.          *)
Pushed(es) == Append(es, es[Len(es)])

Popped(es) == SubSeq(es, 1, Len(es) - 1)

Bound(es, n, e) == [es EXCEPT ![Len(es)][n] = Append(@, e)]

-----------------------------------------------------------------------------

EnvInit == envs = <<NoBindings>>

EnvPush == envs' = Pushed(envs)

EnvPop == Len(envs) > 1 /\ envs' = Popped(envs)

EnvBind(n, e) == envs' = Bound(envs, n, e)

EnvReset == envs' = <<NoBindings>>

EnvNext == \/ EnvPush
           \/ EnvPop
           \/ \E n \in Names, e \in Exprs : EnvBind(n, e)
           \/ EnvReset

EnvSpec == EnvInit /\ [][EnvNext]_envs

=============================================================================
