----------------------------- MODULE TesterTick -----------------------------
(***************************************************************************)
(* The tick of a back test: TesterSyncSDK and TesterAsyncSDK take one      *)
(* candle after the other from the history (CCXTMock...Service), let the   *)
(* paper exchange match it, hand the order updates to the script and call  *)
(* its runOnTick and runTickEnded.  The two engines differ in the order:   *)
(*   sync   candle, runOnTick, trigger, up to three rounds of updates, end *)
(*   async  candle, trigger, updates, runOnTick, updates, end              *)
(* The script may create, edit and cancel orders inside each callback, and *)
(* behind the callback's first await also while the tick is elsewhere: the *)
(* data feed calls it and drops its promise (DataFeed.onData), so what the *)
(* tick waits for is the emission, and the rest of the callback runs as a  *)
(* microtask or a later task, wherever the tick itself waits.              *)
(***************************************************************************)
EXTENDS PaperExchange

CONSTANTS
  MaxCandles,  \* rows of the history
  MaxEdits     \* bound: edits the script makes

ASSUME TickBounds == MaxCandles \in Nat /\ MaxEdits \in Nat

VARIABLES
  sync,      \* tester-sync, or the asynchronous tester: NODE_ENV of the child
  stage,     \* where in Stages the tick is; 0 once runTicker has thrown
  round,     \* rounds of processUpdates done in this stage
  batch,     \* updates that the round has still to emit
  rows,      \* candles taken from the history
  edits,     \* edits made
  told,      \* history: the last status each order was reported with
  born,      \* history: the candle each order was created at
  filledAt   \* history: the candle and the stage it was executed at

tickVars == <<sync, stage, round, batch, rows, edits, told, born, filledAt>>
vars == <<paperVars, tickVars>>

\* Mutant: runTickEnded is called before the updates of the tick.
StagesEndFirst ==
  IF sync THEN <<"candle", "tick", "trigger", "match", "end", "updates">>
  ELSE <<"candle", "trigger", "match", "updates", "tick", "end", "updates">>

\* The order of events in runTicker.
Stages ==
  IF sync THEN <<"candle", "tick", "trigger", "match", "updates", "end">>
  ELSE <<"candle", "trigger", "match", "updates", "tick", "updates", "end">>
MaxRounds == IF sync THEN 3 ELSE 1
Failed == 0
At(name) == stage # Failed /\ Stages[stage] = name
Advance == stage' = IF stage = Len(Stages) THEN 1 ELSE stage + 1

\* What the histories record of a step of the exchange.
Observe ==
  /\ told' = [id \in DOMAIN orders' |-> IF id \in Ids THEN told[id] ELSE "none"]
  /\ born' = [id \in DOMAIN orders' |-> IF id \in Ids THEN born[id] ELSE rows]
  /\ filledAt' = [id \in DOMAIN orders' |->
                    IF id \in Ids /\ orders[id].status \in Done THEN filledAt[id]
                    ELSE IF orders'[id].status \in Done THEN <<rows, stage>>
                    ELSE <<0, 0>>]

TickInit ==
  /\ Init
  /\ sync \in BOOLEAN
  /\ stage = 1
  /\ round = 0
  /\ batch = <<>>
  /\ rows = 0
  /\ edits = 0
  /\ told = <<>>
  /\ born = <<>>
  /\ filledAt = <<>>

-----------------------------------------------------------------------------
\* getRow() and setNewCandle().
NewRow(k) ==
  /\ At("candle")
  /\ rows < MaxCandles
  /\ SetNewCandle(k)
  /\ rows' = rows + 1
  /\ Advance
  /\ UNCHANGED <<round, batch, edits, told, born, filledAt>>

\* The history is exhausted: getRow throws testerDataEnd out of runTicker.
DataEnd ==
  /\ At("candle")
  /\ rows = MaxCandles
  /\ stage' = Failed
  /\ UNCHANGED <<paperVars, round, batch, rows, edits, told, born, filledAt>>

\* trigger(), its loop included.
StartTrigger ==
  /\ At("trigger")
  /\ Trigger
  /\ Advance
  /\ UNCHANGED <<round, batch, rows, edits, told, born, filledAt>>

Match ==
  /\ At("match")
  /\ MatchNext
  /\ Observe
  /\ UNCHANGED <<stage, round, batch, rows, edits>>

\* trigger() returns.
EndTrigger ==
  /\ At("match")
  /\ matching = {}
  /\ Advance
  /\ UNCHANGED <<paperVars, round, batch, rows, edits, told, born, filledAt>>

\* Mutant: the tick also waits between taking a candle and matching it.
WaitsForMatching ==
  \/ At("tick") \/ At("end") \/ (At("updates") /\ batch # <<>>)
  \/ At("candle") \/ At("trigger") \/ stage = Failed

\* The tick waits: for the emission of a tick, a tick's end or an update, and
\* between two candles, for the next row or the next turn of the event loop.  The
\* row's taking, its matching and the taking of the updates come without an await
\* in between.  Behind the last candle too what a callback has left goes on.
Waits ==
  \/ At("tick") \/ At("end") \/ (At("updates") /\ batch # <<>>)
  \/ At("candle") \/ stage = Failed

ScriptCreates(r) ==
  /\ Waits
  /\ Create(r)
  /\ Observe
  /\ UNCHANGED <<stage, round, batch, rows, edits>>

ScriptEdits(id, price, amount) ==
  /\ Waits
  /\ edits < MaxEdits
  /\ Edit(id, price, amount)
  /\ edits' = edits + 1
  /\ UNCHANGED <<stage, round, batch, rows, told, born, filledAt>>

ScriptCancels(id) ==
  /\ Waits
  /\ Cancel(id)
  /\ Observe
  /\ UNCHANGED <<stage, round, batch, rows, edits>>

\* The emission of the tick returns once runOnTick waits or is done, the one of
\* its end, which is no feed's, once runTickEnded is done.
TickEmitted ==
  /\ At("tick") \/ At("end")
  /\ Advance
  /\ UNCHANGED <<paperVars, round, batch, rows, edits, told, born, filledAt>>

\* Mutant: the queue is emptied behind the callbacks, the last update is lost.
TakeUpdatesShort ==
  /\ At("updates")
  /\ batch = <<>>
  /\ round < MaxRounds
  /\ CheckOrdersUpdates
  /\ batch' = IF orderUpdates = <<>> THEN <<>> ELSE Front(orderUpdates)
  /\ IF batch' = <<>> THEN Advance /\ round' = 0 ELSE UNCHANGED <<stage, round>>
  /\ told' = IF batch' = <<>> THEN told
             ELSE [told EXCEPT ![Head(batch')[1]] = Head(batch')[2]]
  /\ UNCHANGED <<rows, edits, born, filledAt>>

\* processUpdates takes the queue; an empty one ends the stage.
TakeUpdates ==
  /\ At("updates")
  /\ batch = <<>>
  /\ round < MaxRounds
  /\ CheckOrdersUpdates
  /\ batch' = orderUpdates
  /\ IF orderUpdates = <<>> THEN Advance /\ round' = 0
     ELSE UNCHANGED <<stage, round>>
  /\ told' = IF orderUpdates = <<>> THEN told
             ELSE [told EXCEPT ![Head(orderUpdates)[1]] = Head(orderUpdates)[2]]
  /\ UNCHANGED <<rows, edits, born, filledAt>>

\* The emission of one update returns and the next one is emitted; behind the
\* last one the loop goes on, and its check for a loop asks for an i above 2.
UpdateEmitted ==
  /\ At("updates")
  /\ batch # <<>>
  /\ batch' = Tail(batch)
  /\ IF batch' # <<>>
     THEN /\ told' = [told EXCEPT ![Head(batch')[1]] = Head(batch')[2]]
          /\ UNCHANGED <<stage, round>>
     ELSE /\ IF sync /\ round > 2 THEN stage' = Failed /\ round' = 0
             ELSE IF round + 1 = MaxRounds THEN Advance /\ round' = 0
             ELSE round' = round + 1 /\ UNCHANGED stage
          /\ UNCHANGED told
  /\ UNCHANGED <<paperVars, rows, edits, born, filledAt>>

-----------------------------------------------------------------------------
TickNext ==
  /\ \/ \E k \in Candles : NewRow(k)
     \/ DataEnd
     \/ StartTrigger \/ Match \/ EndTrigger
     \/ \E r \in Requests[isHedgeMode] : ScriptCreates(r)
     \/ \E id \in Ids, price \in Prices, amount \in EditAmounts : ScriptEdits(id, price, amount)
     \/ \E id \in Ids : ScriptCancels(id)
     \/ TickEmitted \/ TakeUpdates \/ UpdateEmitted
  /\ UNCHANGED <<isHedgeMode, sync>>

TickSpec == TickInit /\ [][TickNext]_vars

-----------------------------------------------------------------------------
(* Properties.                                                             *)

Undelivered == (IF batch = <<>> THEN <<>> ELSE Tail(batch)) \o orderUpdates

\* What the script was told of an order, together with the updates on their
\* way to it, in their order, always leads to the order's real status, and an
\* update is never late: nothing follows a final status.
ScriptSeesBook ==
  \A id \in Ids :
    LET about == {n \in DOMAIN Undelivered : Undelivered[n][1] = id}
    IN /\ IF about = {} THEN told[id] = orders[id].status ELSE told[id] \notin Done
       /\ \A n \in about :
            IF \A m \in about : m <= n THEN Undelivered[n][2] = orders[id].status
            ELSE Undelivered[n][2] \notin Done

\* An order executed by the candle's matching, or at the market while the tick was
\* emitted - by runOnTick before its first await, that is -, is reported before
\* runTickEnded of the same candle.  One that runOnTick places behind its first
\* await may come after the last round of updates and is reported with a later
\* candle.
TradeReportedInTick ==
  At("end") => \A id \in Ids :
    filledAt[id][1] = rows /\ filledAt[id][2] # 0 /\ filledAt[id][2] < stage
      /\ Stages[filledAt[id][2]] \in {"tick", "match"}
      => told[id] = orders[id].status

\* Both: what the script knows of its orders when.
ScriptKnowsItsOrders == ScriptSeesBook /\ TradeReportedInTick

\* In the asynchronous tester an order that waits in the book is executed by
\* a candle later than the last one taken when its script created it, from
\* whatever point of the tick the script's callbacks go on at.
NoLookAhead ==
  ~sync => \A id \in Ids :
    orders[id].type # "market" /\ orders[id].status = "closed"
      => filledAt[id][1] > born[id]
=============================================================================
