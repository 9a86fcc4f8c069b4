---------------------------- MODULE ScenarioGrid ----------------------------
(***************************************************************************)
(* The creation of a scenario of the tester: the form's ranges of          *)
(* parameters are prepared (prepareApiPayload), multiplied out parameter   *)
(* by parameter, cut to the limit of the account (compileAndSave) and      *)
(* saved as one set for each symbol and combination (saveScenario).        *)
(*                                                                         *)
(* Values are whole numbers: what rounding does to the last value of a     *)
(* range of fractions is left out.  So is a step of zero, with which the   *)
(* loop over the values does not end.                                      *)
(***************************************************************************)
EXTENDS Integers, Sequences, FiniteSets, SequencesExt

CONSTANTS
  Symbols,    \* a sequence
  Values,     \* of a range's begin and end
  MaxParams,  \* bound: parameters of a form
  MaxSets     \* ACCOUNT_LIMIT_OPTIMIZER_SCENARIO

ParamRanges == [begin : Values, end : Values, step : {1, 2}]

ASSUME GridAssumption ==
  /\ Symbols \in Seq(ToSet(Symbols)) /\ Values \subseteq Int
  /\ MaxParams \in Nat /\ MaxSets \in Nat

VARIABLES
  stage,   \* "form", "compile" or "saved"
  form,    \* the ranges that were entered, in order
  scope,   \* of these, the ones that are not multiplied out yet
  grid,    \* _args: combinations, each a sequence of [param, value]
  sets     \* saved: [symbol, args]

gridVars == <<stage, form, scope, grid, sets>>

GridInit ==
  /\ stage = "form"
  /\ form = <<>>
  /\ scope = <<>>
  /\ grid = <<>>
  /\ sets = <<>>

\* Mutant: the ranges are sent as they were entered.
PreparedAsIs(ranges) == ranges

\* An end before the begin is moved to it.  Without the optimizer there is one
\* range of one value.
Prepared(ranges) ==
  IF ranges = <<>> THEN <<[begin |-> 0, end |-> 0, step |-> 1]>>
  ELSE [i \in DOMAIN ranges |-> [ranges[i] EXCEPT !.end = IF @ < ranges[i].begin
                                                          THEN ranges[i].begin ELSE @]]

\* prepareApiPayload, and the message to the gateway.
Submit ==
  /\ stage = "form"
  /\ stage' = "compile"
  /\ \E n \in 0 .. MaxParams : \E ranges \in [1 .. n -> ParamRanges] :
       form' = ranges /\ scope' = Prepared(ranges)
  /\ UNCHANGED <<grid, sets>>

\* The loop over the values of a range.
ValuesOf(range) ==
  [k \in 1 .. (IF range.end < range.begin THEN 0
               ELSE ((range.end - range.begin) \div range.step) + 1)
     |-> range.begin + (k - 1) * range.step]

\* Every row is followed by each column in turn.
Times(left, right) ==
  [k \in 1 .. Len(left) * Len(right) |->
     Append(left[((k - 1) \div Len(right)) + 1], right[((k - 1) % Len(right)) + 1])]

\* withFloatArg: the first range makes the combinations, and so does one that
\* finds none; another is multiplied into them.
WithFloatArg ==
  LET values == ValuesOf(Head(scope))
      param == Len(form) - Len(scope) + 1
      column == [k \in DOMAIN values |-> [param |-> param, value |-> values[k]]]
  IN
  /\ stage = "compile" /\ scope # <<>>
  /\ scope' = Tail(scope)
  /\ grid' = IF grid = <<>> THEN [k \in DOMAIN column |-> <<column[k]>>] ELSE Times(grid, column)
  /\ UNCHANGED <<stage, form, sets>>

\* The combinations are cut to the limit, and saved for every symbol; without
\* any, there is one set for each symbol.
SaveScenario ==
  LET kept == SubSeq(grid, 1, IF Len(grid) < MaxSets THEN Len(grid) ELSE MaxSets)
      rows == IF kept = <<>> THEN <<<<>>>> ELSE kept
  IN
  /\ stage = "compile" /\ scope = <<>>
  /\ stage' = "saved"
  /\ sets' = [k \in 1 .. Len(Symbols) * Len(rows) |->
                [symbol |-> Symbols[((k - 1) \div Len(rows)) + 1],
                 args |-> rows[((k - 1) % Len(rows)) + 1]]]
  /\ UNCHANGED <<form, scope, grid>>

GridNext == Submit \/ WithFloatArg \/ SaveScenario

GridSpec == GridInit /\ [][GridNext]_gridVars

-----------------------------------------------------------------------------
(* Properties.                                                             *)

\* The values that a range stands for.
Meant(range) ==
  {range.begin} \cup {v \in range.begin .. range.end : (v - range.begin) % range.step = 0}

\* The sets of a scenario are the combinations of the form, each once for each
\* symbol, of which the limit may leave some out: no parameter is dropped and
\* no set is made twice (compileAndSave and saveScenario, on what
\* prepareApiPayload sends).
SetsCoverForm ==
  stage = "saved" /\ form # <<>> =>
    LET combinations == {c \in [1 .. Len(form) -> UNION {Meant(form[i]) : i \in 1 .. Len(form)}] :
                           \A i \in 1 .. Len(form) : c[i] \in Meant(form[i])}
        made(symbol) == {[i \in DOMAIN row.args |-> row.args[i].value] :
                           row \in {s \in ToSet(sets) : s.symbol = symbol}}
    IN
    /\ Cardinality(ToSet(sets)) = Len(sets)
    /\ \A symbol \in ToSet(Symbols) :
         /\ made(symbol) \subseteq combinations
         /\ Cardinality(made(symbol)) =
              (IF Cardinality(combinations) < MaxSets THEN Cardinality(combinations) ELSE MaxSets)
=============================================================================
