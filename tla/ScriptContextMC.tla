---------------------------- MODULE ScriptContextMC ----------------------------
(* Small instances of ScriptContext, and one of Bundles, whose texts such     *)
(* scripts run: the two share nothing, and part says which of them a          *)
(* behaviour is of.  What a script does is divided among behaviours, so that  *)
(* the numbers of their states add up.                                        *)
EXTENDS ScriptContext, Bundles, TLC

CONSTANTS b1, b2

VARIABLE part

Load(t, n, a, c, s) == [ticks |-> t, calls |-> n, changes |-> a, channels |-> c, timers |-> s]
Divided == {Load(0, 5, 0, 0, 0), Load(5, 0, 0, 0, 0), Load(0, 2, 2, 0, 0), Load(0, 0, 0, 3, 1),
            Load(0, 0, 0, 1, 2)}

Symmetry == Permutations({b1, b2})

ContextInit ==
  /\ part \in {"context", "bundles"}
  /\ Init /\ BundlesInit
  /\ part = "bundles" => budget = Load(5, 0, 0, 0, 0)

ContextNext ==
  \/ part = "context" /\ Next /\ UNCHANGED <<bundlesVars, part>>
  \/ part = "bundles" /\ BundlesNext /\ UNCHANGED <<vars, part>>

ContextSpec == ContextInit /\ [][ContextNext]_<<vars, bundlesVars, part>>
================================================================================
