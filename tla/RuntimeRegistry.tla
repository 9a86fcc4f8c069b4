-------------------------- MODULE RuntimeRegistry --------------------------
(***************************************************************************)
(* What ScriptService promises its clients: a set of running runtimes,     *)
(* started one at a time and only while the account's limit leaves room.   *)
(***************************************************************************)
EXTENDS Naturals, FiniteSets

CONSTANTS Runtimes, Limit

VARIABLE running

Init == running = {}

\* A start completes.
Start(id) ==
  /\ id \notin running
  /\ Cardinality(running) < Limit
  /\ running' = running \cup {id}

\* A stop, a stop of all, an exit or a crash: some runtimes stop together.
Stop(ids) == running' = running \ ids

Next ==
  \/ \E id \in Runtimes : Start(id)
  \/ \E ids \in SUBSET running : Stop(ids)

Spec == Init /\ [][Next]_running
=============================================================================
