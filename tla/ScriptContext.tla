---------------------------- MODULE ScriptContext ---------------------------
(***************************************************************************)
(* ScriptProcessContext: what stands between a trading script and the      *)
(* engine.  It calls the script on every tick of its first symbol unless a *)
(* tick is being worked on, makes the script's calls of the exchange       *)
(* through a leaky bucket, remembers the balance and the positions that    *)
(* the script asked for or the exchange pushed, and holds the script's     *)
(* channels and timers until the process is stopped.                       *)
(*                                                                         *)
(* The script and the exchange are external: the script does anything its  *)
(* sandbox lets it do whenever code of it runs.  Values of an account are  *)
(* numbered in the order in which the exchange makes them.                 *)
(***************************************************************************)
EXTENDS LeakyBucket, FiniteSets

CONSTANTS
  Symbols,    \* whose positions the account has
  Callers,    \* slots for the script's calls of the exchange
  Channels,   \* channels of the cache that scripts use among each other
  LoadCalls,  \* calls that loadTickers makes: a book for each symbol, the tickers
  Budgets,    \* bounds: how often, in a behaviour, ticks come, the script calls
              \* the exchange, the account changes, channels are subscribed and
              \* timers set
  None        \* a cache that has not been filled, a channel without an id

Items == Symbols \cup {"balance"}
Streams == {"ticker", "ordersBook", "orders", "balance", "positions"}

ASSUME BudgetsTyped == 
  Budgets \subseteq [ticks : Nat, calls : Nat, changes : Nat, channels : Nat, timers : Nat]
ASSUME LoadCallsNat == LoadCalls \in Nat
ASSUME NoneIsNone == None \notin Nat /\ "balance" \notin Symbols

VARIABLES
  starting,      \* "loading", "init", "run", "done" or "failed"
  toLoad,        \* calls that loadTickers has still to make
  stopping,      \* "no", "script" (its stop() runs) or "done"
  feeds,         \* streams whose subscription is held by a feed
  tickIsLocked,
  ticks,         \* calls of runOnTick in progress
  skipped,       \* history: a tick was skipped since the last time none ran
  account,       \* external: the newest value of each item
  pushed,        \* external: the value the feed has last delivered
  balance,
  positions,
  requests,      \* the script's calls of the exchange in flight
  raced,         \* history: items pushed while an older answer was on its way
  redisSubscribers,
  channels,      \* subscriptions the cache driver holds
  sequence,      \* of the driver
  setTimeouts,   \* how many timers run that were set before stop() and since
  stoppedAt,     \* history: the sequence when the started process was stopped
  budget

context == <<starting, toLoad, stopping, feeds, stoppedAt>>
locks == <<tickIsLocked, ticks, skipped>>
caches == <<account, pushed, balance, positions, requests, raced>>
channelVars == <<redisSubscribers, channels, sequence>>
vars == <<bucketVars, context, locks, caches, channelVars, setTimeouts, budget>>

Idle == [method |-> "none", pc |-> "idle", got |-> None]
InFlight == {c \in Callers : requests[c].pc # "idle"}

\* When a timer was set, as seen from the stop of the process.
Whens == {"before", "since"}
Now == IF stopping = "no" THEN "before" ELSE "since"
NoTimers == [when \in Whens |-> 0]

\* Something that can still call the script, or code of it that runs.
Alive ==
  \/ starting \in {"loading", "init", "run"}
  \/ stopping = "script"
  \/ feeds # {}
  \/ ticks > 0
  \/ InFlight # {}
  \/ channels # {}
  \/ \E when \in Whens : setTimeouts[when] > 0

Init ==
  /\ BucketInit
  /\ starting = "loading"
  /\ toLoad = LoadCalls
  /\ stopping = "no"
  /\ feeds = {}
  /\ tickIsLocked = FALSE
  /\ ticks = 0
  /\ skipped = FALSE
  /\ account = [i \in Items |-> 0]
  /\ pushed = [i \in Items |-> 0]
  /\ balance = None
  /\ positions = None
  /\ requests = [c \in Callers |-> Idle]
  /\ raced = {}
  /\ redisSubscribers = [ch \in Channels |-> None]
  /\ channels = {}
  /\ sequence = 0
  /\ setTimeouts = NoTimers
  /\ stoppedAt = None
  /\ budget \in Budgets

Spend(what) == budget[what] > 0 /\ budget' = [budget EXCEPT ![what] = @ - 1]

-----------------------------------------------------------------------------
(* init, start and stop of the process.                                    *)

\* A call of loadTickers gets through the bucket and is answered.
LoadCall ==
  /\ starting = "loading"
  /\ toLoad > 0
  /\ Resolve
  /\ toLoad' = toLoad - 1
  /\ UNCHANGED <<starting, stopping, feeds, stoppedAt, locks, caches, channelVars, setTimeouts, budget>>

\* It is refused, or the exchange does not know the symbol or fails.
LoadFails ==
  /\ starting = "loading"
  /\ Reject \/ UNCHANGED bucketVars
  /\ starting' = "failed"
  /\ UNCHANGED <<toLoad, stopping, feeds, stoppedAt, locks, caches, channelVars, setTimeouts, budget>>

\* updateArgs is done, then the script's init(), then its run() is called.
StartGoesOn ==
  /\ \/ starting = "loading" /\ toLoad = 0 /\ starting' = "init"
     \/ starting = "init" /\ starting' = "run"
  /\ UNCHANGED <<bucketVars, toLoad, stopping, feeds, stoppedAt, locks, caches, channelVars,
                 setTimeouts, budget>>

\* run() has resolved: the feeds are subscribed, also in a process that has
\* been stopped meanwhile.
SubscribeDataFeeds ==
  /\ starting = "run"
  /\ starting' = "done"
  /\ feeds' = Streams
  /\ UNCHANGED <<bucketVars, toLoad, stopping, stoppedAt, locks, caches, channelVars, setTimeouts, budget>>

\* Mutant: only what the script's own class subscribed is unsubscribed.
StopKeepsBase ==
  /\ stopping = "no"
  /\ stopping' = IF starting \in {"run", "done"} THEN "script" ELSE "done"
  /\ stoppedAt' = IF starting = "done" THEN sequence ELSE None
  /\ IF starting \in {"run", "done"}
     THEN /\ feeds' = feeds \ {"balance", "positions"}
          /\ setTimeouts' = NoTimers
          /\ channels' = {r \in channels : redisSubscribers[r.channel] # r.id}
     ELSE UNCHANGED <<feeds, setTimeouts, channels>>
  /\ UNCHANGED <<bucketVars, starting, toLoad, locks, caches, redisSubscribers, sequence, budget>>

\* Mutant: the timers are left to the script's own stop().
StopKeepsTimers ==
  /\ stopping = "no"
  /\ stopping' = IF starting \in {"run", "done"} THEN "script" ELSE "done"
  /\ stoppedAt' = IF starting = "done" THEN sequence ELSE None
  /\ IF starting \in {"run", "done"}
     THEN /\ feeds' = {}
          /\ channels' = {r \in channels : redisSubscribers[r.channel] # r.id}
     ELSE UNCHANGED <<feeds, channels>>
  /\ UNCHANGED <<bucketVars, starting, toLoad, locks, caches, redisSubscribers, sequence,
                 setTimeouts, budget>>

\* ScriptProcess.stop: timers, feeds and the channels in the map are given up
\* at once, then the script's stop() is awaited; a process that is not inited
\* is only flagged.
Stop ==
  /\ stopping = "no"
  /\ stopping' = IF starting \in {"run", "done"} THEN "script" ELSE "done"
  /\ stoppedAt' = IF starting = "done" THEN sequence ELSE None
  /\ IF starting \in {"run", "done"}
     THEN /\ feeds' = {}
          /\ setTimeouts' = NoTimers
          /\ channels' = {r \in channels : redisSubscribers[r.channel] # r.id}
     ELSE UNCHANGED <<feeds, setTimeouts, channels>>
  /\ UNCHANGED <<bucketVars, starting, toLoad, locks, caches, redisSubscribers, sequence, budget>>

ScriptStopped ==
  /\ stopping = "script"
  /\ stopping' = "done"
  /\ UNCHANGED <<bucketVars, starting, toLoad, feeds, stoppedAt, locks, caches, channelVars,
                 setTimeouts, budget>>

-----------------------------------------------------------------------------
(* Ticks: _callInstance for runOnTick and runOnTimer.                      *)

\* Mutant: the lock is set by a call that awaits something first.
TickUnlocked ==
  /\ "ticker" \in feeds
  /\ Spend("ticks")
  /\ IF tickIsLocked
     THEN tickIsLocked' = FALSE /\ skipped' = TRUE /\ UNCHANGED ticks
     ELSE ticks' = ticks + 1 /\ UNCHANGED <<tickIsLocked, skipped>>
  /\ UNCHANGED <<bucketVars, context, caches, channelVars, setTimeouts>>

\* A tick comes: with the lock held it is skipped, and the finally behind the
\* return resets the lock of the one that runs.
Tick ==
  /\ "ticker" \in feeds
  /\ Spend("ticks")
  /\ IF tickIsLocked
     THEN tickIsLocked' = FALSE /\ skipped' = TRUE /\ UNCHANGED ticks
     ELSE tickIsLocked' = TRUE /\ ticks' = ticks + 1 /\ UNCHANGED skipped
  /\ UNCHANGED <<bucketVars, context, caches, channelVars, setTimeouts>>

\* The script's method has resolved or thrown.
TickEnds ==
  /\ ticks > 0
  /\ ticks' = ticks - 1
  /\ tickIsLocked' = FALSE
  /\ skipped' = (skipped /\ ticks > 1)
  /\ UNCHANGED <<bucketVars, context, caches, channelVars, setTimeouts, budget>>

-----------------------------------------------------------------------------
(* _call, and the caches of balance and positions.                         *)

\* Code of the script runs: in a call of one of its methods, behind something
\* it awaited, or in a callback.
ScriptRuns == starting \in {"init", "run", "done"} /\ Alive

\* getBalance and getPositions ask the exchange only for what is not there,
\* unless the script forces them; every other method asks it always.
Asks(method, force) ==
  CASE method = "balance" -> balance = None /\ ~force
    [] method = "positions" -> positions = None \/ force
    [] OTHER -> ~force

\* The bucket lets the call through or refuses it with an error.
CallExchange(c, method, force) ==
  /\ ScriptRuns
  /\ requests[c].pc = "idle"
  /\ Asks(method, force)
  /\ Spend("calls")
  /\ \/ /\ Resolve
        /\ requests' = [requests EXCEPT ![c] = [method |-> method, pc |-> "sent", got |-> None]]
     \/ Reject /\ UNCHANGED requests
  /\ UNCHANGED <<context, locks, account, pushed, balance, positions, raced, channelVars,
                 setTimeouts>>

\* The exchange answers with what the account is by then; the callbacks that
\* the script registered for the method are awaited next.
ExchangeAnswers(c) ==
  /\ requests[c].pc = "sent"
  /\ requests' = [requests EXCEPT
        ![c].pc = "answered",
        ![c].got = CASE requests[c].method = "balance" -> account["balance"]
                     [] requests[c].method = "positions" -> [s \in Symbols |-> account[s]]
                     [] OTHER -> None]
  /\ UNCHANGED <<bucketVars, context, locks, account, pushed, balance, positions, raced,
                 channelVars, setTimeouts, budget>>

\* The exchange or a callback fails.
CallThrows(c) ==
  /\ requests[c].pc \in {"sent", "answered"}
  /\ requests' = [requests EXCEPT ![c] = Idle]
  /\ UNCHANGED <<bucketVars, context, locks, account, pushed, balance, positions, raced,
                 channelVars, setTimeouts, budget>>

\* The result goes into the cache, over whatever was pushed meanwhile.
CallReturns(c) ==
  /\ requests[c].pc = "answered"
  /\ requests' = [requests EXCEPT ![c] = Idle]
  /\ balance' = IF requests[c].method = "balance" THEN requests[c].got ELSE balance
  /\ positions' = IF requests[c].method = "positions" THEN requests[c].got ELSE positions
  /\ UNCHANGED <<bucketVars, context, locks, account, pushed, raced, channelVars,
                 setTimeouts, budget>>

\* The account changes, by a fill or a transfer.
AccountChanges(i) ==
  /\ Spend("changes")
  /\ account' = [account EXCEPT ![i] = @ + 1]
  /\ UNCHANGED <<bucketVars, context, locks, pushed, balance, positions, requests, raced,
                 channelVars, setTimeouts>>

MethodOf(i) == IF i = "balance" THEN "balance" ELSE "positions"

\* Mutant: a balance is only taken over when there is one already.
PushIgnored(i) ==
  /\ MethodOf(i) \in feeds
  /\ pushed[i] < account[i]
  /\ pushed' = [pushed EXCEPT ![i] = account[i]]
  /\ raced' = IF \E c \in Callers : requests[c].pc = "answered" /\ requests[c].method = MethodOf(i)
              THEN raced \cup {i} ELSE raced \ {i}
  /\ IF i = "balance" THEN UNCHANGED <<balance, positions>>
     ELSE /\ positions' = IF positions = None THEN None
                          ELSE [positions EXCEPT ![i] = account[i]]
          /\ UNCHANGED balance
  /\ UNCHANGED <<bucketVars, context, locks, account, requests, channelVars, setTimeouts, budget>>

\* The feed delivers a change; without positions to put it in, the handler of
\* positions throws.
Push(i) ==
  /\ MethodOf(i) \in feeds
  /\ pushed[i] < account[i]
  /\ pushed' = [pushed EXCEPT ![i] = account[i]]
  /\ raced' = IF \E c \in Callers : requests[c].pc = "answered" /\ requests[c].method = MethodOf(i)
              THEN raced \cup {i} ELSE raced \ {i}
  /\ IF i = "balance" THEN balance' = account[i] /\ UNCHANGED positions
     ELSE /\ positions' = IF positions = None THEN None
                          ELSE [positions EXCEPT ![i] = account[i]]
          /\ UNCHANGED balance
  /\ UNCHANGED <<bucketVars, context, locks, account, requests, channelVars, setTimeouts, budget>>

-----------------------------------------------------------------------------
(* Channels and timers.                                                    *)

\* A second subscription of a channel takes the place of the first in the map.
SubscribeChannel(ch) ==
  /\ ScriptRuns
  /\ Spend("channels")
  /\ sequence' = sequence + 2
  /\ channels' = channels \cup {[channel |-> ch, id |-> sequence + 1]}
  /\ redisSubscribers' = [redisSubscribers EXCEPT ![ch] = sequence + 1]
  /\ UNCHANGED <<bucketVars, context, locks, caches, setTimeouts>>

\* The id stays in the map.
UnsubscribeChannel(ch) ==
  /\ ScriptRuns
  /\ channels' = {r \in channels : r.id # redisSubscribers[ch]}
  /\ UNCHANGED <<bucketVars, context, locks, caches, redisSubscribers, sequence, setTimeouts,
                 budget>>

SetTimeout ==
  /\ ScriptRuns
  /\ Spend("timers")
  /\ setTimeouts' = [setTimeouts EXCEPT ![Now] = @ + 1]
  /\ UNCHANGED <<bucketVars, context, locks, caches, channelVars>>

TimerFires ==
  /\ \E when \in Whens :
        setTimeouts[when] > 0 /\ setTimeouts' = [setTimeouts EXCEPT ![when] = @ - 1]
  /\ UNCHANGED <<bucketVars, context, locks, caches, channelVars, budget>>

TimePasses == Elapse /\ UNCHANGED <<context, locks, caches, channelVars, setTimeouts, budget>>

-----------------------------------------------------------------------------
Next ==
  \/ LoadCall \/ LoadFails \/ StartGoesOn \/ SubscribeDataFeeds
  \/ Stop \/ ScriptStopped
  \/ Tick \/ TickEnds
  \/ \E c \in Callers, method \in {"balance", "positions", "order"}, force \in BOOLEAN :
       CallExchange(c, method, force)
  \/ \E c \in Callers : ExchangeAnswers(c) \/ CallThrows(c) \/ CallReturns(c)
  \/ \E i \in Items : AccountChanges(i) \/ Push(i)
  \/ \E ch \in Channels : SubscribeChannel(ch) \/ UnsubscribeChannel(ch)
  \/ SetTimeout \/ TimerFires
  \/ TimePasses

Spec == Init /\ [][Next]_vars

-----------------------------------------------------------------------------
(* Properties.                                                             *)

\* tickIsLocked keeps the ticks of a script apart until one of them has been
\* skipped: only that one's finally opens the lock of a tick that runs.
OverlapOnlyAfterSkip ==
  ticks > 1 \/ (ticks > 0 /\ ~tickIsLocked) => skipped

\* What the script sees of its account is never older than what the feed has
\* delivered, unless the answer to a call of its own was on its way just then.
CachesFollowFeed ==
  \A i \in Items :
    LET cached == IF i = "balance" THEN balance
                  ELSE IF positions = None THEN None ELSE positions[i]
    IN cached # None /\ cached < pushed[i] => i \in raced

\* A script that was stopped after its start is called by no feed any more, by no
\* timer and by no channel that it had until then - but for a channel it subscribed
\* again under the same name (the map knows the last of them only).  The exception
\* is what its own code adds while its stop() is awaited, or later, in a tick or a
\* callback that was under way: timers and channels are given up once, before that.
StoppedIsSilent ==
  stoppedAt # None =>
    /\ feeds = {}
    /\ setTimeouts["before"] = 0
    /\ \A r \in channels : r.id > stoppedAt \/ redisSubscribers[r.channel] > r.id
=============================================================================
