-------------------------- MODULE TesterSchedulerMC --------------------------
(* A small instance of TesterScheduler.                                      *)
EXTENDS TesterScheduler, TLC

CONSTANTS s1, s2, s3, a, b

\* A scenario of two sets beside one of a single set.
Owner == s1 :> a @@ s2 :> a @@ s3 :> b

Symmetry == Permutations({s1, s2})
==============================================================================
