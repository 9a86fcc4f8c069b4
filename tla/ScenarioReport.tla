--------------------------- MODULE ScenarioReport ---------------------------
(***************************************************************************)
(* The report of a scenario (updateScenarioReport): the profit charts of   *)
(* the sets that have a report are added up along the times of the first   *)
(* one, where a chart without the time counts with what was last added of  *)
(* it.  Before anything was added of it, it counts with undefined, which   *)
(* makes the sum NaN: NoNumber.                                            *)
(***************************************************************************)
EXTENDS Integers, Sequences, FiniteSets, FiniteSetsExt, Sums

CONSTANTS
  RunTimes,  \* of the points of a chart
  Profits,   \* a point: a profit, which is minus its drawdown
  MaxCharts, \* bound: sets with a report
  NoNumber

ASSUME ReportAssumption ==
  /\ RunTimes \subseteq Nat /\ Profits \subseteq Nat /\ MaxCharts \in Nat /\ NoNumber \notin Int

VARIABLES
  charts,       \* a sequence; each a function from times to profits
  left,         \* times of the first chart that are still to be added up
  lastProfit,   \* lastExistedProfit (of each chart), and of its drawdown
  series,       \* of the times so far: the sum of the profits
  drawdownMax,
  profitResult, \* the sum at the last time
  built         \* the report is there

reportVars == <<charts, left, lastProfit, series, drawdownMax, profitResult, built>>

ReportInit ==
  /\ charts = <<>>
  /\ left = {}
  /\ lastProfit = <<>>
  /\ series = <<>>
  /\ drawdownMax = 0
  /\ profitResult = 0
  /\ built = FALSE

\* The reports of the sets are read; those that are missing are left out.
ReadReports ==
  /\ charts = <<>>
  /\ \E n \in 1 .. MaxCharts :
       charts' \in [1 .. n -> UNION {[times -> Profits] : times \in (SUBSET RunTimes) \ {{}}}]
  /\ left' = DOMAIN charts'[1]
  /\ lastProfit' = [j \in DOMAIN charts' |-> NoNumber]
  /\ UNCHANGED <<series, drawdownMax, profitResult, built>>

\* Mutant: what was last added of a chart is not kept.
ItemAt(j, time) == IF time \in DOMAIN charts[j] THEN charts[j][time] ELSE NoNumber

\* charts[j].profitChart[tms] ?? lastExisted[j]
Item(j, time) == IF time \in DOMAIN charts[j] THEN charts[j][time] ELSE lastProfit[j]

Total(items) ==
  IF \E j \in DOMAIN items : items[j] = NoNumber THEN NoNumber
  ELSE SumTo(items, Len(items))

\* One round of the loop over the times of the first chart.
AddUp ==
  LET time == Min(left)
      items == [j \in DOMAIN charts |-> Item(j, time)]
      sum == Total(items)
  IN
  /\ left # {}
  /\ left' = left \ {time}
  /\ lastProfit' = items
  /\ series' = Append(series, sum)
  /\ drawdownMax' = IF sum # NoNumber /\ -sum < drawdownMax THEN -sum ELSE drawdownMax
  /\ profitResult' = IF left = {time} THEN sum ELSE profitResult
  /\ UNCHANGED <<charts, built>>

\* artifactsService.save
SaveReport ==
  /\ charts # <<>> /\ left = {} /\ ~built
  /\ built' = TRUE
  /\ UNCHANGED <<charts, left, lastProfit, series, drawdownMax, profitResult>>

ReportNext == ReadReports \/ AddUp \/ SaveReport

ReportSpec == ReportInit /\ [][ReportNext]_reportVars

-----------------------------------------------------------------------------
(* Properties.                                                             *)

\* The last profit of chart j that the times of the first chart have met.
Known(j, time) ==
  LET met == {t \in DOMAIN charts[1] \cap DOMAIN charts[j] : t <= time} IN
  IF met = {} THEN NoNumber ELSE charts[j][Max(met)]

TrueTotal(time) == Total([j \in DOMAIN charts |-> Known(j, time)])

\* The report of a scenario adds up, at each time of the first chart, what is
\* known of every chart; its result is the total at the end and its drawdown
\* the lowest that a total has had (the loops of updateScenarioReport).  A
\* chart that starts later leaves holes (NaN), never a wrong sum.
ReportAddsUp ==
  built =>
    LET times == DOMAIN charts[1]
        totals == {TrueTotal(t) : t \in times} \ {NoNumber}
    IN
    /\ Len(series) = Cardinality(times)
    /\ \A t \in times : series[Cardinality({u \in times : u <= t})] = TrueTotal(t)
    /\ profitResult = TrueTotal(Max(times))
    /\ drawdownMax = Min({0} \cup {-total : total \in totals})
=============================================================================
