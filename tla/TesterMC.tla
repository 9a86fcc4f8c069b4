------------------------------- MODULE TesterMC -------------------------------
(* A small instance of TesterScheduler, or one of HistoryBars: the candles    *)
(* that two scenarios of the engine and a child need, two months between      *)
(* them.  The two share nothing: part says which of them a behaviour is of,   *)
(* and the other keeps its first state.                                       *)
EXTENDS TesterSchedulerMC, HistoryBars

CONSTANTS jan, feb, e1, e2, c1

TwoMonths == e1 :> <<jan, feb>> @@ e2 :> <<jan>> @@ c1 :> <<feb>>

VARIABLE part

\* One set has been tested already.  What is left is the second scenario beside
\* a set that is just being launched, or both sets of the first scenario.
EarlierInit ==
  \E s \in {s2, s3} :
    /\ launch = [sc \in Scenarios |->
                   CASE sc # ScenarioOf[s] -> [pc |-> "idle", left |-> SetsOf(sc), now |-> NoSet]
                     [] s = s2 -> [pc |-> "await", left |-> {}, now |-> s1]
                     [] OTHER -> [pc |-> "end", left |-> {}, now |-> s3]]
    /\ task = [t \in Sets |-> IF s = s2 /\ t = s1 THEN "existed" ELSE "none"]
    /\ queue = <<>>
    /\ processes = {}
    /\ child = [t \in Sets |-> IF t = s THEN "closed" ELSE "none"]
    /\ handlers = {}
    /\ resultQueue = <<>>
    /\ status = [t \in Sets |-> IF t = s THEN 1 ELSE 0]
    /\ isDone = [t \in Sets |-> t = s]
    /\ scenarioDone = [sc \in Scenarios |-> SetsOf(sc) = {s}]

TesterInit ==
  /\ part \in {"tests", "bars"}
  /\ EarlierInit /\ (part = "bars" => child[s2] = "closed")
  /\ BarsInit /\ (part = "tests" => isStandaloneEngine)

TestsStep == part = "tests" /\ Next /\ UNCHANGED <<barsVars, part>>
BarsStep == part = "bars" /\ BarsNext /\ UNCHANGED <<vars, part>>

\* The fairness of each, where it is the one that runs.
TesterSpec ==
  /\ TesterInit /\ [][TestsStep \/ BarsStep]_<<vars, barsVars, part>>
  /\ WF_vars(part = "tests" /\ FairStep)
  /\ WF_barsVars(part = "bars" /\ \E p \in Preparers : Prepares(p))
===============================================================================
