-------------------------- MODULE ScriptRuntimeMC --------------------------
(* Small instances of ScriptRuntime: calls in slots that are alike, and     *)
(* process objects that are alike.                                          *)
EXTENDS ScriptRuntime, TLC

Symmetry ==
  Permutations(Runtimes) \cup Permutations(Procs)
    \cup Permutations(RunCalls) \cup Permutations(StopCalls)
=============================================================================
