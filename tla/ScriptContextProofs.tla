------------------------- MODULE ScriptContextProofs -------------------------
(***************************************************************************)
(* Proofs about ScriptContext, and the bucket it draws from, for any       *)
(* symbols, channels and numbers of calls, whatever a script does and      *)
(* whenever it is stopped; and about Bundles, for any versions, sweeps and *)
(* builds at once.                                                         *)
(***************************************************************************)
EXTENDS ScriptContext, Bundles, InductionProofs, FiniteSetTheorems

\* The units in the bucket are between none and its capacity, and one that is
\* not full has been drawn from at some time.
BucketTypeOK ==
  /\ currentCapacity \in 0 .. Full
  /\ lastRefill \in Nat \cup {Null}
  /\ lastRefill = Null => currentCapacity = Full
  /\ refused \in BOOLEAN

Values == [Symbols -> Nat]

RequestOK(r) ==
  /\ r.pc \in {"idle", "sent", "answered"}
  /\ r.method \in {"none", "balance", "positions", "order"}
  /\ r.pc = "answered" /\ r.method = "balance" => r.got \in Nat
  /\ r.pc = "answered" /\ r.method = "positions" => r.got \in Values

ContextTypeOK ==
  /\ starting \in {"loading", "init", "run", "done", "failed"}
  /\ toLoad \in Nat
  /\ stopping \in {"no", "script", "done"}
  /\ feeds \subseteq Streams
  /\ tickIsLocked \in BOOLEAN
  /\ ticks \in Nat
  /\ skipped \in BOOLEAN
  /\ account \in [Items -> Nat]
  /\ pushed \in [Items -> Nat]
  /\ balance = None \/ balance \in Nat
  /\ positions = None \/ positions \in Values
  /\ DOMAIN requests = Callers
  /\ \A c \in Callers : RequestOK(requests[c])
  /\ raced \subseteq Items
  /\ redisSubscribers \in [Channels -> Nat \cup {None}]
  /\ channels \subseteq [channel : Channels, id : Nat]
  /\ sequence \in Nat
  /\ setTimeouts \in [Whens -> Nat]
  /\ stoppedAt \in Nat \cup {None}
  /\ budget \in [ticks : Nat, calls : Nat, changes : Nat, channels : Nat, timers : Nat]

-----------------------------------------------------------------------------
(* The bucket.                                                             *)

\* What a refill leaves is at least what was there, and at most the capacity.
LEMMA RefilledInBounds ==
  BucketTypeOK => Refilled \in Nat /\ Refilled >= currentCapacity /\ Refilled <= Full
<1> SUFFICES ASSUME BucketTypeOK
             PROVE  Refilled \in Nat /\ Refilled >= currentCapacity /\ Refilled <= Full
  OBVIOUS
<1>1. \A m, n \in Nat : m * n \in Nat
  OBVIOUS
<1>2. Full \in Nat
  BY <1>1, RatesPositive DEF Full
<1>3. CASE currentCapacity < Full
  <2>1. lastRefill \in Nat
    BY <1>2, <1>3 DEF BucketTypeOK
  <2>2. lastRefill * Capacity \in Nat
    BY <1>1, <2>1, RatesPositive
  <2> DEFINE units == lastRefill * Capacity
  <2>3. units \in Nat
    BY <2>2
  <2>4. Refilled = IF currentCapacity + units < Full THEN currentCapacity + units ELSE Full
    BY <1>3 DEF Refilled
  <2> HIDE DEF units
  <2>5. QED
    BY <1>2, <1>3, <2>3, <2>4 DEF BucketTypeOK
<1>4. CASE ~(currentCapacity < Full)
  BY <1>2, <1>4 DEF Refilled, BucketTypeOK
<1>5. QED
  BY <1>3, <1>4

\* A full bucket has room for a call.
LEMMA FullHasRoom == Full \in Nat /\ Cost \in Nat /\ Full >= Cost
<1>1. \A m \in Nat \ {0}, n \in Nat : m * n \in Nat /\ m * n >= n
  <2>1. SUFFICES ASSUME NEW m \in Nat \ {0}, NEW n \in Nat PROVE m * n \in Nat /\ m * n >= n
    OBVIOUS
  <2>2. m - 1 \in Nat /\ (m - 1) * n \in Nat
    OBVIOUS
  <2>3. m * n = (m - 1) * n + n
    OBVIOUS
  <2>4. QED
    BY <2>2, <2>3
<1>2. QED
  BY <1>1, RatesPositive DEF Full, Cost

LEMMA BucketStays ==
  ASSUME BucketTypeOK, Resolve \/ Reject \/ Elapse \/ UNCHANGED bucketVars PROVE BucketTypeOK'
<1>0. Full' = Full
  BY DEF Full
<1>1. CASE Resolve
  <2>1. /\ Refilled >= Cost /\ currentCapacity' = Refilled - Cost
        /\ lastRefill' = 0 /\ refused' = FALSE
    BY <1>1 DEF Resolve, HasRoom
  <2>2. currentCapacity' \in 0 .. Full
    BY <2>1, RefilledInBounds, FullHasRoom
  <2>3. QED
    <3>1. lastRefill' = 0 /\ lastRefill' # Null
      BY <2>1, NullIsNoTime
    <3>2. refused' \in BOOLEAN
      BY <1>1 DEF Resolve
    <3>3. QED
      BY <1>0, <2>2, <3>1, <3>2 DEF BucketTypeOK
<1>2. CASE Reject
  <2>1. currentCapacity' = Refilled /\ lastRefill' = 0 /\ refused' = TRUE
    BY <1>2 DEF Reject
  <2>2. currentCapacity' \in 0 .. Full
    BY <2>1, RefilledInBounds, FullHasRoom
  <2>3. QED
    <3>1. lastRefill' = 0 /\ lastRefill' # Null
      BY <2>1, NullIsNoTime
    <3>2. refused' \in BOOLEAN
      BY <1>2 DEF Reject
    <3>3. QED
      BY <1>0, <2>2, <3>1, <3>2 DEF BucketTypeOK
<1>3. CASE Elapse
  <2>1. /\ currentCapacity' = currentCapacity /\ refused' = FALSE
        /\ lastRefill' = IF lastRefill \in 0 .. TicksPerSecond - 1 THEN lastRefill + 1 ELSE lastRefill
    BY <1>3 DEF Elapse
  <2>2. lastRefill' \in Nat \cup {Null} /\ (lastRefill' = Null => lastRefill = Null)
    BY <2>1, NullIsNoTime, RatesPositive DEF BucketTypeOK
  <2>3. QED
    BY <1>0, <2>1, <2>2 DEF BucketTypeOK
<1>4. CASE UNCHANGED bucketVars
  BY <1>4 DEF bucketVars, BucketTypeOK, Full
<1>5. QED
  BY <1>1, <1>2, <1>3, <1>4

-----------------------------------------------------------------------------
(* The properties' invariants.                                             *)

\* What an answer, or a cache, has of an item.
GotOf(r, i) == IF i = "balance" THEN r.got ELSE r.got[i]
CachedOf(i) == IF i = "balance" THEN balance ELSE IF positions = None THEN None ELSE positions[i]

\* The feed has delivered nothing that the account has not been, and an answer
\* that is older than what was delivered was on its way then.
PushedIsPast == \A i \in Items : pushed[i] <= account[i]
AnswersFollowFeed ==
  \A i \in Items : \A c \in Callers :
    requests[c].pc = "answered" /\ requests[c].method = MethodOf(i)
      /\ GotOf(requests[c], i) < pushed[i] => i \in raced
CacheInv == PushedIsPast /\ AnswersFollowFeed /\ CachesFollowFeed

\* A subscription that the driver holds is no newer than the one in the map.
ChannelsMapped ==
  \A r \in channels : /\ redisSubscribers[r.channel] \in Nat
                       /\ redisSubscribers[r.channel] >= r.id
                       /\ redisSubscribers[r.channel] <= sequence
\* What was stopped after its start is not started once more.
StoppedIsOver ==
  stoppedAt # None => starting = "done" /\ stopping # "no" /\ stoppedAt <= sequence
SilenceInv == ChannelsMapped /\ StoppedIsOver /\ StoppedIsSilent

ContextInv == ContextTypeOK /\ BucketTypeOK /\ OverlapOnlyAfterSkip /\ CacheInv /\ SilenceInv

-----------------------------------------------------------------------------
(* Types.                                                                  *)

LEMMA TypeInit == Init => ContextTypeOK /\ BucketTypeOK
<1> SUFFICES ASSUME Init PROVE ContextTypeOK /\ BucketTypeOK
  OBVIOUS
<1>1. \A c \in Callers : RequestOK(requests[c])
  BY DEF Init, Idle, RequestOK
<1>2. /\ toLoad \in Nat /\ ticks \in Nat /\ sequence \in Nat /\ setTimeouts \in [Whens -> Nat]
      /\ account \in [Items -> Nat] /\ pushed \in [Items -> Nat]
  BY LoadCallsNat DEF Init, NoTimers
<1>3. /\ starting \in {"loading", "init", "run", "done", "failed"} /\ stopping \in {"no", "script", "done"}
      /\ tickIsLocked \in BOOLEAN /\ skipped \in BOOLEAN
  BY DEF Init
<1>4. /\ budget \in [ticks : Nat, calls : Nat, changes : Nat, channels : Nat, timers : Nat]
      /\ stoppedAt \in Nat \cup {None} /\ redisSubscribers \in [Channels -> Nat \cup {None}]
      /\ DOMAIN requests = Callers
  BY BudgetsTyped DEF Init
<1>5. ContextTypeOK
  BY <1>1, <1>2, <1>3, <1>4 DEF Init, ContextTypeOK
<1>6. BucketTypeOK
  <2>1. currentCapacity = Full /\ lastRefill = Null /\ Full \in Nat
    BY FullHasRoom DEF Init, BucketInit
  <2>2. currentCapacity \in 0 .. Full
    BY <2>1
  <2>3. refused \in BOOLEAN
    BY DEF Init, BucketInit
  <2>4. QED
    BY <2>1, <2>2, <2>3 DEF BucketTypeOK
<1>7. QED
  BY <1>5, <1>6

\* A budget that is spent from remains one.
LEMMA SpendTyped ==
  ASSUME ContextTypeOK, NEW what \in {"ticks", "calls", "changes", "channels", "timers"}, Spend(what)
  PROVE  budget' \in [ticks : Nat, calls : Nat, changes : Nat, channels : Nat, timers : Nat]
<1> DEFINE left == budget[what] - 1
<1>1. budget[what] \in Nat /\ budget[what] > 0 /\ budget' = [budget EXCEPT ![what] = left]
  BY DEF Spend, ContextTypeOK
<1>2. left \in Nat
  BY <1>1
<1> HIDE DEF left
<1>3. QED
  BY <1>1, <1>2 DEF ContextTypeOK

\* The steps of the process and of the script's methods.
LEMMA ContextTypes ==
  ASSUME ContextTypeOK, LoadCall \/ LoadFails \/ StartGoesOn \/ SubscribeDataFeeds \/ Stop \/ ScriptStopped
  PROVE  ContextTypeOK'
<1>1. /\ UNCHANGED <<locks, caches, redisSubscribers, sequence, budget>>
      /\ channels' \subseteq channels /\ feeds' \subseteq Streams
      /\ starting' \in {"loading", "init", "run", "done", "failed"}
      /\ stopping' \in {"no", "script", "done"}
  BY DEF LoadCall, LoadFails, StartGoesOn, SubscribeDataFeeds, Stop, ScriptStopped, ContextTypeOK,
     channelVars
<1>2. toLoad' \in Nat /\ setTimeouts' \in [Whens -> Nat]
  BY DEF LoadCall, LoadFails, StartGoesOn, SubscribeDataFeeds, Stop, ScriptStopped, ContextTypeOK,
     NoTimers
<1>3. stoppedAt' \in Nat \cup {None}
  BY DEF LoadCall, LoadFails, StartGoesOn, SubscribeDataFeeds, Stop, ScriptStopped, ContextTypeOK
<1>4. QED
  BY <1>1, <1>2, <1>3 DEF ContextTypeOK, locks, caches

LEMMA TickTypes ==
  ASSUME ContextTypeOK, Tick \/ TickEnds PROVE ContextTypeOK'
<1>1. UNCHANGED <<context, caches, channelVars, setTimeouts>>
  BY DEF Tick, TickEnds
<1>2. ticks' \in Nat
  BY DEF Tick, TickEnds, ContextTypeOK
<1>3. tickIsLocked' \in BOOLEAN /\ skipped' \in BOOLEAN
  BY Zenon DEF Tick, TickEnds, ContextTypeOK
<1>4. budget' \in [ticks : Nat, calls : Nat, changes : Nat, channels : Nat, timers : Nat]
  BY SpendTyped DEF Tick, TickEnds, ContextTypeOK
<1>5. QED
  BY <1>1, <1>2, <1>3, <1>4 DEF ContextTypeOK, context, caches, channelVars

LEMMA CallTypes ==
  ASSUME ContextTypeOK, NEW c \in Callers,
         \/ \E method \in {"balance", "positions", "order"}, force \in BOOLEAN :
              CallExchange(c, method, force)
         \/ ExchangeAnswers(c) \/ CallThrows(c) \/ CallReturns(c)
  PROVE  ContextTypeOK'
<1>1. UNCHANGED <<context, locks, account, pushed, raced, channelVars, setTimeouts>>
  BY DEF CallExchange, ExchangeAnswers, CallThrows, CallReturns
<1>2. budget' \in [ticks : Nat, calls : Nat, changes : Nat, channels : Nat, timers : Nat]
  BY SpendTyped DEF CallExchange, ExchangeAnswers, CallThrows, CallReturns, ContextTypeOK
<1>3. /\ DOMAIN requests' = Callers /\ \A d \in Callers \ {c} : requests'[d] = requests[d]
  BY DEF CallExchange, ExchangeAnswers, CallThrows, CallReturns, ContextTypeOK
<1>4. RequestOK(requests'[c])
  <2>1. CASE \E method \in {"balance", "positions", "order"}, force \in BOOLEAN :
               CallExchange(c, method, force)
    BY <2>1 DEF CallExchange, ContextTypeOK, RequestOK
  <2>2. CASE ExchangeAnswers(c)
    <3>1. account["balance"] \in Nat /\ [s \in Symbols |-> account[s]] \in Values
      BY DEF ContextTypeOK, Items, Values
    <3>2. requests'[c].pc = "answered" /\ requests'[c].method = requests[c].method
          /\ requests'[c].got = CASE requests[c].method = "balance" -> account["balance"]
                     [] requests[c].method = "positions" -> [s \in Symbols |-> account[s]]
                     [] OTHER -> None
      BY <2>2 DEF ExchangeAnswers, ContextTypeOK, RequestOK
    <3>3. QED
      BY <3>1, <3>2 DEF RequestOK, ContextTypeOK
  <2>3. CASE CallThrows(c) \/ CallReturns(c)
    BY <2>3 DEF CallThrows, CallReturns, ContextTypeOK, RequestOK, Idle
  <2>4. QED
    BY <2>1, <2>2, <2>3
<1>5. (balance' = None \/ balance' \in Nat) /\ (positions' = None \/ positions' \in Values)
  BY DEF CallExchange, ExchangeAnswers, CallThrows, CallReturns, ContextTypeOK, RequestOK
<1>6. QED
  BY <1>1, <1>2, <1>3, <1>4, <1>5 DEF ContextTypeOK, context, locks, channelVars

LEMMA AccountTypes ==
  ASSUME ContextTypeOK, NEW i \in Items, AccountChanges(i) \/ Push(i) PROVE ContextTypeOK'
<1>1. UNCHANGED <<context, locks, requests, channelVars, setTimeouts>>
  BY DEF AccountChanges, Push
<1>2. budget' \in [ticks : Nat, calls : Nat, changes : Nat, channels : Nat, timers : Nat]
  BY SpendTyped DEF AccountChanges, Push, ContextTypeOK
<1>3. account' \in [Items -> Nat] /\ pushed' \in [Items -> Nat]
  BY DEF AccountChanges, Push, ContextTypeOK
<1>4. raced' \subseteq Items
  BY DEF AccountChanges, Push, ContextTypeOK
<1>5. balance' = None \/ balance' \in Nat
  BY DEF AccountChanges, Push, ContextTypeOK
<1>6. positions' = None \/ positions' \in Values
  BY DEF AccountChanges, Push, ContextTypeOK, Items, Values
<1>7. QED
  BY <1>1, <1>2, <1>3, <1>4, <1>5, <1>6 DEF ContextTypeOK, context, locks, channelVars

LEMMA ChannelTypes ==
  ASSUME ContextTypeOK,
         \/ \E ch \in Channels : SubscribeChannel(ch) \/ UnsubscribeChannel(ch)
         \/ SetTimeout \/ TimerFires \/ TimePasses
  PROVE  ContextTypeOK'
<1>1. UNCHANGED <<context, locks, caches>>
  BY DEF SubscribeChannel, UnsubscribeChannel, SetTimeout, TimerFires, TimePasses
<1>2. budget' \in [ticks : Nat, calls : Nat, changes : Nat, channels : Nat, timers : Nat]
  BY SpendTyped DEF SubscribeChannel, UnsubscribeChannel, SetTimeout, TimerFires, TimePasses, ContextTypeOK
<1>3. setTimeouts' \in [Whens -> Nat]
  BY DEF SubscribeChannel, UnsubscribeChannel, SetTimeout, TimerFires, TimePasses, ContextTypeOK, Now
<1>7. sequence' \in Nat
  BY DEF SubscribeChannel, UnsubscribeChannel, SetTimeout, TimerFires, TimePasses, ContextTypeOK, channelVars
<1>4. redisSubscribers' \in [Channels -> Nat \cup {None}]
  BY DEF SubscribeChannel, UnsubscribeChannel, SetTimeout, TimerFires, TimePasses, ContextTypeOK, channelVars
<1>5. channels' \subseteq [channel : Channels, id : Nat]
  BY DEF SubscribeChannel, UnsubscribeChannel, SetTimeout, TimerFires, TimePasses, ContextTypeOK, channelVars
<1>6. QED
  BY <1>1, <1>2, <1>3, <1>4, <1>5, <1>7 DEF ContextTypeOK, context, locks, caches

LEMMA TypeStep == ContextTypeOK /\ BucketTypeOK /\ [Next]_vars => ContextTypeOK' /\ BucketTypeOK'
<1> SUFFICES ASSUME ContextTypeOK, BucketTypeOK, [Next]_vars PROVE ContextTypeOK' /\ BucketTypeOK'
  OBVIOUS
<1>1. Resolve \/ Reject \/ Elapse \/ UNCHANGED bucketVars
  BY DEF Next, LoadCall, LoadFails, StartGoesOn, SubscribeDataFeeds, Stop, ScriptStopped, Tick, TickEnds,
    CallExchange, ExchangeAnswers, CallThrows, CallReturns, AccountChanges, Push, SubscribeChannel,
    UnsubscribeChannel, SetTimeout, TimerFires, TimePasses, vars
<1>2. BucketTypeOK'
  BY <1>1, BucketStays
<1>3. CASE UNCHANGED vars
  <2>1. UNCHANGED <<context, locks, caches, channelVars, setTimeouts, budget>>
    BY <1>3 DEF vars
  <2>2. /\ UNCHANGED <<starting, toLoad, stopping, feeds, stoppedAt, tickIsLocked, ticks, skipped>>
        /\ UNCHANGED <<account, pushed, balance, positions, requests, raced>>
        /\ UNCHANGED <<redisSubscribers, channels, sequence, setTimeouts, budget>>
    BY <2>1 DEF context, locks, caches, channelVars
  <2>3. QED
    BY <1>2, <2>2 DEF ContextTypeOK
<1>4. ASSUME NEW c \in Callers, NEW method \in {"balance", "positions", "order"}, NEW force \in BOOLEAN,
             CallExchange(c, method, force)
      PROVE  ContextTypeOK'
  BY <1>4, CallTypes
<1>5. ASSUME NEW c \in Callers, ExchangeAnswers(c) \/ CallThrows(c) \/ CallReturns(c)
      PROVE  ContextTypeOK'
  BY <1>5, CallTypes
<1>6. ASSUME NEW i \in Items, AccountChanges(i) \/ Push(i) PROVE ContextTypeOK'
  BY <1>6, AccountTypes
<1>7. ASSUME NEW ch \in Channels, SubscribeChannel(ch) \/ UnsubscribeChannel(ch) PROVE ContextTypeOK'
  BY <1>7, ChannelTypes
<1>8. QED
  BY <1>2, <1>3, <1>4, <1>5, <1>6, <1>7, ContextTypes, TickTypes, ChannelTypes DEF Next

-----------------------------------------------------------------------------
(* Ticks.                                                                  *)

LEMMA OverlapStep == ContextTypeOK /\ OverlapOnlyAfterSkip /\ [Next]_vars => OverlapOnlyAfterSkip'
<1> SUFFICES ASSUME ContextTypeOK, OverlapOnlyAfterSkip, [Next]_vars PROVE OverlapOnlyAfterSkip'
  OBVIOUS
<1>0. ticks \in Nat
  BY DEF ContextTypeOK
<1>1. CASE Tick
  <2>1. CASE tickIsLocked
    BY <1>1, <2>1 DEF Tick, OverlapOnlyAfterSkip
  <2>2. CASE ~tickIsLocked
    <3>1. tickIsLocked' /\ ticks' = ticks + 1 /\ skipped' = skipped
      BY <1>1, <2>2 DEF Tick
    <3>2. ticks' > 1 => ticks > 0
      BY <1>0, <3>1
    <3>3. QED
      BY <2>2, <3>1, <3>2 DEF OverlapOnlyAfterSkip
  <2>3. QED
    BY <2>1, <2>2
<1>2. CASE TickEnds
  <2>1. ticks' = ticks - 1 /\ skipped' = (skipped /\ ticks > 1)
    BY <1>2 DEF TickEnds
  <2>2. (ticks' > 1 \/ ticks' > 0) => ticks > 1
    BY <1>0, <2>1
  <2>3. QED
    BY <2>1, <2>2 DEF OverlapOnlyAfterSkip
<1>3. CASE UNCHANGED locks
  BY <1>3 DEF locks, OverlapOnlyAfterSkip
<1>4. Tick \/ TickEnds \/ UNCHANGED locks
  BY DEF Next, LoadCall, LoadFails, StartGoesOn, SubscribeDataFeeds, Stop, ScriptStopped,
    CallExchange, ExchangeAnswers, CallThrows, CallReturns, AccountChanges, Push, SubscribeChannel,
    UnsubscribeChannel, SetTimeout, TimerFires, TimePasses, vars
<1>5. QED
  BY <1>1, <1>2, <1>3, <1>4

-----------------------------------------------------------------------------
(* The account's caches.                                                   *)

\* An answer has of every item what the account is, whichever method asks for it.
LEMMA AnswerHasAccount ==
  ASSUME ContextTypeOK, NEW c \in Callers, ExchangeAnswers(c), NEW i \in Items,
         requests'[c].method = MethodOf(i)
  PROVE  GotOf(requests'[c], i) = account[i]
<1>1. /\ requests'[c].method = requests[c].method
      /\ requests'[c].got = CASE requests[c].method = "balance" -> account["balance"]
                     [] requests[c].method = "positions" -> [s \in Symbols |-> account[s]]
                     [] OTHER -> None
  BY DEF ExchangeAnswers, ContextTypeOK, RequestOK
<1>2. CASE i = "balance"
  BY <1>1, <1>2 DEF GotOf, MethodOf
<1>3. CASE i # "balance"
  BY <1>1, <1>3 DEF GotOf, MethodOf, Items
<1>4. QED
  BY <1>2, <1>3

\* The result of a call is in its cache as it was answered, and the other stays.
LEMMA ReturnedIsCached ==
  ASSUME ContextTypeOK, NEW c \in Callers, CallReturns(c), NEW i \in Items
  PROVE  \/ CachedOf(i)' = CachedOf(i)
         \/ CachedOf(i)' = GotOf(requests[c], i) /\ requests[c].method = MethodOf(i)
         \/ CachedOf(i)' = None
BY DEF CallReturns, CachedOf, GotOf, MethodOf, ContextTypeOK, RequestOK

LEMMA CacheStep == ContextTypeOK /\ CacheInv /\ [Next]_vars => CacheInv'
<1> SUFFICES ASSUME ContextTypeOK, CacheInv, [Next]_vars PROVE CacheInv'
  OBVIOUS
<1> USE DEF CacheInv
<1>0. /\ \A i \in Items : account[i] \in Nat /\ pushed[i] \in Nat /\ pushed[i] <= account[i]
      /\ CachesFollowFeed <=> \A i \in Items : CachedOf(i) # None /\ CachedOf(i) < pushed[i] => i \in raced
      /\ CachesFollowFeed' <=>
           \A i \in Items : CachedOf(i)' # None /\ CachedOf(i)' < pushed'[i] => i \in raced'
  BY DEF ContextTypeOK, PushedIsPast, CachesFollowFeed, CachedOf
<1>1. ASSUME UNCHANGED <<account, pushed, balance, positions, raced>>,
             \A c \in Callers : requests'[c].pc = "answered" => requests'[c] = requests[c]
      PROVE  CacheInv'
  <2>1. PushedIsPast' /\ CachesFollowFeed'
    BY <1>1 DEF PushedIsPast, CachesFollowFeed
  <2>2. AnswersFollowFeed'
    BY <1>1 DEF AnswersFollowFeed
  <2>3. QED
    BY <2>1, <2>2
<1>2. CASE UNCHANGED caches
  BY <1>1, <1>2 DEF caches
<1>3. ASSUME NEW c \in Callers, NEW method, NEW force, CallExchange(c, method, force)
      PROVE  CacheInv'
  BY <1>1, <1>3 DEF CallExchange, ContextTypeOK
<1>4. ASSUME NEW c \in Callers, CallThrows(c) PROVE CacheInv'
  BY <1>1, <1>4 DEF CallThrows, ContextTypeOK, Idle
<1>5. ASSUME NEW c \in Callers, ExchangeAnswers(c) PROVE CacheInv'
  <2>1. /\ UNCHANGED <<account, pushed, balance, positions, raced>>
        /\ \A d \in Callers \ {c} : requests'[d] = requests[d]
    BY <1>5 DEF ExchangeAnswers, ContextTypeOK
  <2>2. \A i \in Items : requests'[c].method = MethodOf(i) => GotOf(requests'[c], i) = account[i]
    BY <1>5, AnswerHasAccount
  <2>3. \A i \in Items : requests'[c].method = MethodOf(i) => ~(GotOf(requests'[c], i) < pushed[i])
    BY <1>0, <2>2
  <2>4. AnswersFollowFeed'
    BY <2>1, <2>3 DEF AnswersFollowFeed
  <2>5. QED
    BY <2>1, <2>4 DEF PushedIsPast, CachesFollowFeed
<1>6. ASSUME NEW c \in Callers, CallReturns(c) PROVE CacheInv'
  <2>1. /\ UNCHANGED <<account, pushed, raced>> /\ requests[c].pc = "answered"
        /\ \A d \in Callers : requests'[d].pc = "answered" => requests'[d] = requests[d]
    BY <1>6 DEF CallReturns, ContextTypeOK, Idle
  <2>2. AnswersFollowFeed'
    BY <2>1 DEF AnswersFollowFeed
  <2>3. ASSUME NEW i \in Items, CachedOf(i)' # None, CachedOf(i)' < pushed'[i] PROVE i \in raced'
    <3>1. CASE CachedOf(i)' = CachedOf(i)
      BY <1>0, <2>1, <2>3, <3>1
    <3>2. CASE CachedOf(i)' = GotOf(requests[c], i) /\ requests[c].method = MethodOf(i)
      BY <2>1, <2>3, <3>2 DEF AnswersFollowFeed
    <3>3. QED
      BY <1>6, <2>3, <3>1, <3>2, ReturnedIsCached
  <2>4. QED
    BY <1>0, <2>1, <2>2, <2>3 DEF PushedIsPast
<1>7. ASSUME NEW j \in Items, AccountChanges(j) PROVE CacheInv'
  <2>1. /\ UNCHANGED <<pushed, balance, positions, requests, raced>>
        /\ account' = [account EXCEPT ![j] = @ + 1]
    BY <1>7 DEF AccountChanges
  <2>2. PushedIsPast'
    BY <1>0, <2>1 DEF PushedIsPast, ContextTypeOK
  <2>3. QED
    BY <2>1, <2>2 DEF AnswersFollowFeed, CachesFollowFeed
<1>8. ASSUME NEW j \in Items, Push(j) PROVE CacheInv'
  <2> DEFINE Answered == \E c \in Callers : requests[c].pc = "answered" /\ requests[c].method = MethodOf(j)
  <2>1. /\ UNCHANGED <<account, requests>>
        /\ pushed' = [pushed EXCEPT ![j] = account[j]]
        /\ raced' = IF Answered THEN raced \cup {j} ELSE raced \ {j}
    BY <1>8 DEF Push
  <2>2. /\ pushed'[j] = account[j] /\ \A i \in Items \ {j} : pushed'[i] = pushed[i]
        /\ \A i \in Items \ {j} : i \in raced' <=> i \in raced
    BY <2>1 DEF ContextTypeOK
  <2>3. /\ CachedOf(j)' # None => CachedOf(j)' = account[j]
        /\ \A i \in Items \ {j} : CachedOf(i)' # None => CachedOf(i)' = CachedOf(i)
    <3>1. CASE j = "balance"
      BY <1>8, <3>1 DEF Push, CachedOf
    <3>2. CASE j # "balance"
      <4>1. /\ j \in Symbols /\ balance' = balance
            /\ positions' = IF positions = None THEN None ELSE [positions EXCEPT ![j] = account[j]]
        BY <1>8, <3>2 DEF Push, Items
      <4>2. CASE positions = None
        BY <3>2, <4>1, <4>2 DEF CachedOf
      <4>3. CASE positions # None
        <5>1. /\ positions'[j] = account[j]
              /\ \A i \in Symbols \ {j} : positions'[i] = positions[i]
          BY <4>1, <4>3 DEF ContextTypeOK, Values
        <5>2. QED
          BY <3>2, <4>1, <4>3, <5>1 DEF CachedOf, Items
      <4>4. QED
        BY <4>2, <4>3
    <3>3. QED
      BY <3>1, <3>2
  <2>4. PushedIsPast'
    BY <1>0, <2>1, <2>2 DEF PushedIsPast
  <2>5. CachesFollowFeed'
    BY <1>0, <2>2, <2>3
  <2>6. AnswersFollowFeed'
    <3>1. ASSUME NEW c \in Callers, requests[c].pc = "answered", requests[c].method = MethodOf(j)
          PROVE  j \in raced'
      BY <2>1, <3>1
    <3>2. QED
      BY <2>1, <2>2, <3>1 DEF AnswersFollowFeed
  <2>7. QED
    BY <2>4, <2>5, <2>6
<1>9. QED
  BY <1>2, <1>3, <1>4, <1>5, <1>6, <1>7, <1>8 DEF Next, LoadCall, LoadFails, StartGoesOn,
    SubscribeDataFeeds, Stop, ScriptStopped, Tick, TickEnds, SubscribeChannel, UnsubscribeChannel,
    SetTimeout, TimerFires, TimePasses, vars

-----------------------------------------------------------------------------
(* A script that was stopped.                                              *)

LEMMA SilenceStep == ContextTypeOK /\ SilenceInv /\ [Next]_vars => SilenceInv'
<1> SUFFICES ASSUME ContextTypeOK, SilenceInv, [Next]_vars PROVE SilenceInv'
  OBVIOUS
<1> USE DEF SilenceInv
<1>0. /\ sequence \in Nat /\ None \notin Nat /\ stoppedAt \in Nat \cup {None}
      /\ \A r \in channels : r.channel \in Channels /\ r.id \in Nat
      /\ \A ch \in Channels : redisSubscribers[ch] \in Nat \cup {None}
  BY NoneIsNone DEF ContextTypeOK
<1>1. ASSUME UNCHANGED <<redisSubscribers, sequence, stoppedAt>>, channels' \subseteq channels,
             stoppedAt # None => feeds' \subseteq feeds /\ starting' = starting /\ stopping' # "no",
             stoppedAt # None => setTimeouts'["before"] = 0
      PROVE  SilenceInv'
  BY <1>1 DEF ChannelsMapped, StoppedIsOver, StoppedIsSilent
<1>2. CASE LoadCall \/ LoadFails \/ StartGoesOn \/ SubscribeDataFeeds \/ ScriptStopped
  <2>1. UNCHANGED <<redisSubscribers, sequence, stoppedAt, channels>>
    BY <1>2 DEF LoadCall, LoadFails, StartGoesOn, SubscribeDataFeeds, ScriptStopped, channelVars
  <2>2. stoppedAt # None => feeds' = feeds /\ starting' = starting /\ stopping' # "no"
    BY <1>2 DEF LoadCall, LoadFails, StartGoesOn, SubscribeDataFeeds, ScriptStopped, StoppedIsOver
  <2>3. setTimeouts' = setTimeouts
    BY <1>2 DEF LoadCall, LoadFails, StartGoesOn, SubscribeDataFeeds, ScriptStopped
  <2>4. QED
    BY <1>1, <2>1, <2>2, <2>3 DEF StoppedIsSilent
<1>3. CASE Stop
  <2>1. /\ stopping = "no" /\ stopping' # "no" /\ UNCHANGED <<starting, redisSubscribers, sequence>>
        /\ stoppedAt' = IF starting = "done" THEN sequence ELSE None
    BY <1>3 DEF Stop
  <2>2. starting = "done" => /\ feeds' = {}
                            /\ channels' = {r \in channels : redisSubscribers[r.channel] # r.id}
    BY <1>3 DEF Stop
  <2>3. channels' \subseteq channels
    BY <1>3 DEF Stop
  <2>4. ChannelsMapped'
    BY <2>1, <2>3 DEF ChannelsMapped
  <2>5. StoppedIsOver'
    BY <1>0, <2>1 DEF StoppedIsOver
  <2>6. StoppedIsSilent'
    <3>1. ASSUME starting = "done", NEW r \in channels' PROVE redisSubscribers'[r.channel] > r.id
      BY <1>0, <2>1, <2>2, <3>1 DEF ChannelsMapped
    <3>2. starting = "done" => setTimeouts'["before"] = 0
      BY <1>3 DEF Stop, NoTimers, Whens
    <3>3. QED
      BY <2>1, <2>2, <3>1, <3>2 DEF StoppedIsSilent
  <2>7. QED
    BY <2>4, <2>5, <2>6
<1>4. ASSUME NEW ch \in Channels, SubscribeChannel(ch) PROVE SilenceInv'
  <2> DEFINE new == [channel |-> ch, id |-> sequence + 1]
  <2>1. /\ sequence' = sequence + 2 /\ channels' = channels \cup {new}
        /\ redisSubscribers' = [redisSubscribers EXCEPT ![ch] = sequence + 1]
        /\ UNCHANGED <<starting, stopping, feeds, stoppedAt, setTimeouts>>
        /\ new.channel = ch /\ new.id = sequence + 1
    BY <1>4 DEF SubscribeChannel, context
  <2> HIDE DEF new
  <2>2. /\ redisSubscribers'[ch] = sequence + 1
        /\ \A other \in Channels \ {ch} : redisSubscribers'[other] = redisSubscribers[other]
    BY <2>1 DEF ContextTypeOK
  <2>3. \A r \in channels : /\ redisSubscribers'[r.channel] \in Nat
                            /\ redisSubscribers'[r.channel] >= redisSubscribers[r.channel]
                            /\ redisSubscribers'[r.channel] <= sequence'
    BY <1>0, <2>1, <2>2 DEF ChannelsMapped
  <2>4. ChannelsMapped'
    BY <1>0, <2>1, <2>2, <2>3 DEF ChannelsMapped
  <2>5. StoppedIsOver'
    BY <1>0, <2>1 DEF StoppedIsOver
  <2>6. StoppedIsSilent'
    <3>1. ASSUME stoppedAt # None PROVE new.id > stoppedAt
      BY <1>0, <2>1, <3>1 DEF StoppedIsOver
    <3>2. ASSUME stoppedAt # None, NEW r \in channels
          PROVE  r.id > stoppedAt \/ redisSubscribers'[r.channel] > r.id
      BY <1>0, <2>3, <3>2 DEF StoppedIsSilent, ChannelsMapped
    <3>3. QED
      BY <2>1, <3>1, <3>2 DEF StoppedIsSilent
  <2>7. QED
    BY <2>4, <2>5, <2>6
<1>5. ASSUME NEW ch \in Channels, UnsubscribeChannel(ch) PROVE SilenceInv'
  BY <1>1, <1>5 DEF UnsubscribeChannel, context, StoppedIsOver, StoppedIsSilent
<1>6. CASE UNCHANGED <<context, channelVars, setTimeouts>>
  BY <1>1, <1>6 DEF context, channelVars, StoppedIsOver, StoppedIsSilent
<1>8. CASE SetTimeout \/ TimerFires
  <2>1. UNCHANGED <<context, channelVars>>
    BY <1>8 DEF SetTimeout, TimerFires
  <2>2. ASSUME stoppedAt # None PROVE setTimeouts'["before"] = 0
    <3>1. setTimeouts["before"] = 0 /\ stopping # "no" /\ setTimeouts \in [Whens -> Nat]
      BY <2>2 DEF StoppedIsSilent, StoppedIsOver, ContextTypeOK
    <3>2. CASE SetTimeout
      BY <3>1, <3>2 DEF SetTimeout, Now, Whens
    <3>3. CASE TimerFires
      BY <3>1, <3>3 DEF TimerFires, Whens
    <3>4. QED
      BY <1>8, <3>2, <3>3
  <2>3. QED
    BY <1>1, <2>1, <2>2 DEF context, channelVars, StoppedIsOver
<1>7. QED
  BY <1>2, <1>3, <1>4, <1>5, <1>6, <1>8 DEF Next, Tick, TickEnds, CallExchange, ExchangeAnswers, CallThrows,
    CallReturns, AccountChanges, Push, TimePasses, vars

-----------------------------------------------------------------------------
(* The calls of a second.                                                  *)

\* What the bucket holds and what the calls of the last n ticks have cost: together
\* at most a full bucket and what n - 1 ticks refill, and at least what n ticks
\* refill or a full bucket.
SpentWithin(n) ==
  LET spent == TicksPerSecond * SumTo(calls, n)
  IN /\ spent + Refilled <= Full + (n - 1) * Capacity
     /\ spent + Refilled >= n * Capacity \/ spent + Refilled >= Full

RateInv ==
  /\ calls \in [1 .. TicksPerSecond -> Nat]
  /\ \A n \in 1 .. TicksPerSecond : SpentWithin(n)
  /\ refused => lastRefill = 0 /\ currentCapacity < Cost

\* Products of the rates.
LEMMA Products ==
  ASSUME NEW m \in Nat, NEW k \in Nat
  PROVE  /\ m * k \in Nat /\ (m + 1) * k = m * k + k /\ k * (m + 1) = k * m + k
         /\ k * m = m * k
OBVIOUS

LEMMA ProductsOrder ==
  ASSUME NEW m \in Nat, NEW n \in Nat, NEW k \in Nat
  PROVE  m <= n => m * k <= n * k
<1> SUFFICES ASSUME m <= n PROVE m * k <= n * k
  OBVIOUS
<1>1. n - m \in Nat /\ (n - m) * k \in Nat /\ m * k \in Nat /\ n * k \in Nat
  OBVIOUS
<1>2. n * k = m * k + (n - m) * k
  OBVIOUS
<1>3. QED
  BY <1>1, <1>2

\* A bucket that was drawn from at this instant holds what was left in it.
LEMMA RefilledNow ==
  ASSUME BucketTypeOK, lastRefill = 0 PROVE Refilled = currentCapacity
<1>1. 0 * Capacity = 0
  BY RatesPositive
<1>2. Full \in Nat
  BY FullHasRoom
<1>3. QED
  BY <1>1, <1>2 DEF Refilled, BucketTypeOK

\* A tick refills its units, up to the capacity.
LEMMA RefilledByTick ==
  ASSUME BucketTypeOK, Elapse
  PROVE  Refilled' = IF Refilled + Capacity < Full THEN Refilled + Capacity ELSE Full
<1>1. Full \in Nat /\ Full' = Full /\ Capacity \in Nat /\ currentCapacity' = currentCapacity
  BY FullHasRoom, RatesPositive DEF Elapse, Full
<1>2. CASE ~(currentCapacity < Full)
  <2>1. Refilled = Full /\ Refilled' = Full
    BY <1>1, <1>2 DEF Refilled, BucketTypeOK
  <2>2. QED
    BY <1>1, <2>1
<1>3. CASE currentCapacity < Full
  <2> DEFINE units == lastRefill * Capacity
  <2>1. lastRefill \in Nat /\ units \in Nat /\ currentCapacity \in Nat
    BY <1>1, <1>3, Products DEF BucketTypeOK
  <2>2. Refilled = IF currentCapacity + units < Full THEN currentCapacity + units ELSE Full
    BY <1>3 DEF Refilled
  <2>3. CASE lastRefill < TicksPerSecond
    <3>1. lastRefill' = lastRefill + 1
      BY <2>1, <2>3, RatesPositive DEF Elapse
    <3>2. lastRefill' * Capacity = units + Capacity
      BY <1>1, <2>1, <3>1, Products
    <3>3. Refilled' = IF currentCapacity + (units + Capacity) < Full
                      THEN currentCapacity + (units + Capacity) ELSE Full
      BY <1>1, <1>3, <3>2 DEF Refilled
    <3> HIDE DEF units
    <3>4. QED
      BY <1>1, <2>1, <2>2, <3>3
  <2>4. CASE ~(lastRefill < TicksPerSecond)
    <3>1. lastRefill' = lastRefill
      BY <2>1, <2>4, RatesPositive DEF Elapse
    <3>2. units >= TicksPerSecond * Capacity
      BY <2>1, <2>4, RatesPositive, ProductsOrder
    <3>3. units >= Full
      BY <3>2, RatesPositive DEF Full
    <3>4. Refilled' = IF currentCapacity + units < Full THEN currentCapacity + units ELSE Full
      BY <1>1, <1>3, <3>1 DEF Refilled
    <3> HIDE DEF units
    <3>5. QED
      BY <1>1, <2>1, <2>2, <3>3, <3>4
  <2>5. QED
    BY <2>3, <2>4
<1>4. QED
  BY <1>2, <1>3

\* The calls of some ticks cost a number of units.
LEMMA SpentTyped ==
  ASSUME calls \in [1 .. TicksPerSecond -> Nat], NEW n \in 0 .. TicksPerSecond
  PROVE  SumTo(calls, n) \in Nat /\ TicksPerSecond * SumTo(calls, n) \in Nat
<1>1. n \in Nat /\ \A i \in 1 .. n : calls[i] \in Nat
  BY RatesPositive
<1>2. SumTo(calls, n) \in Nat
  BY <1>1, SumNatural
<1>3. QED
  BY <1>2, RatesPositive, Products

LEMMA RateInit == BucketInit => RateInv
<1> SUFFICES ASSUME BucketInit PROVE RateInv
  OBVIOUS
<1>1. TicksPerSecond \in Nat \ {0} /\ Capacity \in Nat \ {0} /\ Full \in Nat
  BY RatesPositive, FullHasRoom
<1>2. calls \in [1 .. TicksPerSecond -> Nat] /\ \A n \in 1 .. TicksPerSecond : calls[n] = 0
  BY DEF BucketInit
<1>3. Refilled = Full
  BY <1>1 DEF BucketInit, Refilled
<1>4. ASSUME NEW n \in 1 .. TicksPerSecond PROVE SpentWithin(n)
  <2>1. n \in Nat /\ \A i \in 1 .. n : calls[i] = 0
    BY <1>1, <1>2
  <2>2. SumTo(calls, n) = 0
    BY <2>1, SumOfNone
  <2>3. TicksPerSecond * SumTo(calls, n) = 0
    BY <1>1, <2>2
  <2>4. (n - 1) * Capacity \in Nat
    <3>1. n - 1 \in Nat
      BY <1>1
    <3>2. QED
      BY <1>1, <3>1, Products
  <2>5. QED
    BY <1>1, <1>3, <2>3, <2>4 DEF SpentWithin
<1>5. QED
  BY <1>2, <1>4 DEF RateInv, BucketInit

\* A call that is resolved costs what the bucket loses.
LEMMA RateResolve ==
  ASSUME BucketTypeOK, BucketTypeOK', RateInv, Resolve PROVE RateInv'
<1>1. /\ TicksPerSecond \in Nat \ {0} /\ Capacity \in Nat \ {0} /\ Refilled \in Nat
      /\ Full' = Full /\ Cost' = Cost
  BY RatesPositive, RefilledInBounds DEF Full, Cost
<1>2. /\ Refilled >= TicksPerSecond /\ currentCapacity' = Refilled - TicksPerSecond
      /\ lastRefill' = 0 /\ refused' = FALSE /\ calls' = [calls EXCEPT ![1] = @ + 1]
  BY DEF Resolve, HasRoom, Cost
<1>3. Refilled' = Refilled - TicksPerSecond
  <2>1. 0 * Capacity = 0 /\ Full \in Nat
    BY RatesPositive, FullHasRoom
  <2>2. currentCapacity' \in 0 .. Full
    BY <1>1 DEF BucketTypeOK
  <2>3. Refilled' = currentCapacity'
    BY <1>1, <1>2, <2>1, <2>2 DEF Refilled
  <2>4. QED
    BY <1>2, <2>3
<1>4. calls \in [1 .. TicksPerSecond -> Nat] /\ 1 \in 1 .. TicksPerSecond
  BY <1>1 DEF RateInv
<1>5. calls' \in [1 .. TicksPerSecond -> Nat]
  BY <1>2, <1>4
<1>6. ASSUME NEW n \in 1 .. TicksPerSecond PROVE SpentWithin(n)'
  <2> DEFINE s == SumTo(calls, n)
  <2>1. n \in Nat /\ 1 \in 1 .. n
    BY <1>1
  <2>2. /\ \A i \in 1 .. n : calls[i] \in Int
        /\ calls'[1] = calls[1] + 1 /\ calls'[1] \in Int /\ calls[1] \in Int
        /\ \A i \in 1 .. n : i # 1 => calls'[i] = calls[i]
    BY <1>1, <1>2, <1>4
  <2>3. SumTo(calls', n) = s + calls'[1] - calls[1]
    BY <2>1, <2>2, SumChanged
  <2>4. s \in Nat /\ TicksPerSecond * s \in Nat
    BY <1>1, <1>4, <2>1, SpentTyped
  <2> HIDE DEF s
  <2>5. SumTo(calls', n) = s + 1
    BY <2>2, <2>3, <2>4
  <2>6. TicksPerSecond * (s + 1) = TicksPerSecond * s + TicksPerSecond
    BY <1>1, <2>4, Products
  <2>7. /\ TicksPerSecond * s + Refilled <= Full + (n - 1) * Capacity
        /\ \/ TicksPerSecond * s + Refilled >= n * Capacity
           \/ TicksPerSecond * s + Refilled >= Full
    BY DEF RateInv, SpentWithin, s
  <2>8. TicksPerSecond * SumTo(calls', n) + Refilled' = TicksPerSecond * s + Refilled
    BY <1>1, <1>3, <2>4, <2>5, <2>6
  <2>9. QED
    BY <1>1, <2>7, <2>8 DEF SpentWithin
<1>7. QED
  BY <1>2, <1>5, <1>6 DEF RateInv

\* A call that is refused leaves the bucket as the refill made it.
LEMMA RateReject ==
  ASSUME BucketTypeOK, BucketTypeOK', RateInv, Reject PROVE RateInv'
<1>1. /\ TicksPerSecond \in Nat \ {0} /\ Capacity \in Nat \ {0} /\ Refilled \in Nat
      /\ Full' = Full /\ Cost' = Cost /\ Cost \in Nat
  BY RatesPositive, RefilledInBounds DEF Full, Cost
<1>2. /\ Refilled < Cost /\ currentCapacity' = Refilled
      /\ lastRefill' = 0 /\ calls' = calls
  BY <1>1 DEF Reject, HasRoom
<1>3. Refilled' = Refilled
  <2>1. 0 * Capacity = 0
    BY RatesPositive
  <2>2. Full \in Nat
    BY FullHasRoom
  <2>3. Refilled' = currentCapacity'
    BY <1>1, <1>2, <2>1, <2>2 DEF Refilled, BucketTypeOK
  <2>4. QED
    BY <1>2, <2>3
<1>4. \A n \in 1 .. TicksPerSecond : SpentWithin(n)'
  BY <1>1, <1>2, <1>3 DEF RateInv, SpentWithin
<1>5. QED
  BY <1>1, <1>2, <1>4 DEF RateInv

\* With a tick its calls are the second ones, and a tick's units are added.
LEMMA RateElapse ==
  ASSUME BucketTypeOK, RateInv, Elapse PROVE RateInv'
<1>1. /\ TicksPerSecond \in Nat \ {0} /\ Capacity \in Nat \ {0} /\ Refilled \in Nat
      /\ Full' = Full /\ Refilled <= Full /\ Full \in Nat
  BY RatesPositive, RefilledInBounds, FullHasRoom DEF Full
<1>2. Refilled' = IF Refilled + Capacity < Full THEN Refilled + Capacity ELSE Full
  BY RefilledByTick
<1>3. calls \in [1 .. TicksPerSecond -> Nat]
  BY DEF RateInv
<1>4. /\ calls' \in [1 .. TicksPerSecond -> Nat] /\ calls'[1] = 0
      /\ \A i \in 2 .. TicksPerSecond : calls'[i] = calls[i - 1]
  <2>1. calls \in Seq(Nat) /\ Len(calls) = TicksPerSecond
    BY <1>1, <1>3
  <2>2. calls' = <<0>> \o SubSeq(calls, 1, Len(calls) - 1)
    BY DEF Elapse, Front
  <2> DEFINE front == SubSeq(calls, 1, Len(calls) - 1)
  <2>3. /\ front \in Seq(Nat) /\ Len(front) = TicksPerSecond - 1
        /\ \A i \in 1 .. TicksPerSecond - 1 : front[i] = calls[i]
    BY <1>1, <2>1
  <2> HIDE DEF front
  <2>4. calls' = <<0>> \o front
    BY <2>2 DEF front
  <2>5. /\ calls' \in Seq(Nat) /\ Len(calls') = TicksPerSecond /\ calls'[1] = 0
        /\ \A i \in 2 .. TicksPerSecond : calls'[i] = front[i - 1]
    BY <1>1, <2>3, <2>4
  <2>6. \A i \in 2 .. TicksPerSecond : calls'[i] = calls[i - 1]
    BY <1>1, <2>3, <2>5
  <2>7. QED
    BY <2>5, <2>6
<1>5. ASSUME NEW n \in 1 .. TicksPerSecond PROVE SpentWithin(n)'
  <2> DEFINE s == SumTo(calls, n - 1)
  <2>1. n \in Nat \ {0} /\ n - 1 \in 0 .. TicksPerSecond /\ n - 1 \in Nat
    BY <1>1
  <2>2. /\ \A i \in 1 .. n : calls[i] \in Int
        /\ \A i \in 2 .. n : calls'[i] = calls[i - 1]
    BY <1>1, <1>3, <1>4
  <2>3. SumTo(calls', n) = s
    BY <1>4, <2>1, <2>2, SumShifted
  <2>4. s \in Nat /\ TicksPerSecond * s \in Nat
    BY <1>3, <2>1, SpentTyped
  <2>5. (n - 1) * Capacity \in Nat /\ n * Capacity = (n - 1) * Capacity + Capacity
    <3>1. n = (n - 1) + 1
      BY <2>1
    <3>2. QED
      BY <1>1, <2>1, <3>1, Products
  <2> HIDE DEF s
  <2>6. CASE n = 1
    <3>1. s = 0
      BY <1>3, <2>6, SumOfNone DEF s
    <3>2. TicksPerSecond * s = 0 /\ (n - 1) * Capacity = 0 /\ n * Capacity = Capacity
      BY <1>1, <2>6, <3>1
    <3>3. QED
      BY <1>1, <1>2, <2>3, <3>2 DEF SpentWithin
  <2>7. CASE n # 1
    <3>1. n - 1 \in 1 .. TicksPerSecond /\ (n - 1) - 1 \in Nat
      BY <1>1, <2>7
    <3>2. /\ TicksPerSecond * s + Refilled <= Full + ((n - 1) - 1) * Capacity
          /\ \/ TicksPerSecond * s + Refilled >= (n - 1) * Capacity
             \/ TicksPerSecond * s + Refilled >= Full
      BY <3>1 DEF RateInv, SpentWithin, s
    <3>3. /\ ((n - 1) - 1) * Capacity \in Nat
          /\ (n - 1) * Capacity = ((n - 1) - 1) * Capacity + Capacity
      <4>1. n - 1 = ((n - 1) - 1) + 1
        BY <2>1
      <4>2. QED
        BY <1>1, <3>1, <4>1, Products
    <3> DEFINE spent == TicksPerSecond * s
               one == (n - 1) * Capacity
               two == ((n - 1) - 1) * Capacity
               all == n * Capacity
    <3>4. /\ spent \in Nat /\ one \in Nat /\ two \in Nat /\ all = one + Capacity
          /\ one = two + Capacity /\ spent + Refilled <= Full + two
          /\ spent + Refilled >= one \/ spent + Refilled >= Full
      BY <2>4, <2>5, <3>2, <3>3
    <3>5. SpentWithin(n)' <=> /\ spent + Refilled' <= Full + one
                              /\ spent + Refilled' >= all \/ spent + Refilled' >= Full
      BY <1>1, <2>3 DEF SpentWithin
    <3> HIDE DEF spent, one, two, all
    <3>6. QED
      BY <1>1, <1>2, <3>4, <3>5
  <2>8. QED
    BY <2>6, <2>7
<1>6. refused' = FALSE
  BY DEF Elapse
<1>7. QED
  BY <1>4, <1>5, <1>6 DEF RateInv

LEMMA RateStays ==
  ASSUME BucketTypeOK, BucketTypeOK', RateInv, Resolve \/ Reject \/ Elapse \/ UNCHANGED bucketVars
  PROVE  RateInv'
<1>1. CASE UNCHANGED bucketVars
  BY <1>1 DEF bucketVars, RateInv, SpentWithin, Refilled, Full, Cost
<1>2. QED
  BY <1>1, RateResolve, RateReject, RateElapse

\* What the invariant says of a whole second.
LEMMA RateIsKept == BucketTypeOK /\ RateInv => RateFollowsLimit
<1> SUFFICES ASSUME BucketTypeOK, RateInv PROVE RateFollowsLimit
  OBVIOUS
<1> DEFINE T == TicksPerSecond
           C == Capacity
           s == SumTo(calls, T)
<1>1. T \in Nat \ {0} /\ C \in Nat \ {0} /\ Refilled \in Nat /\ Full \in Nat /\ Full = C * T
  BY RatesPositive, RefilledInBounds, FullHasRoom DEF Full
<1>2. s \in Nat /\ T * s = s * T /\ s * T \in Nat
  <2>1. s \in Nat
    BY <1>1, SpentTyped DEF RateInv
  <2> HIDE DEF s
  <2>2. QED
    BY <1>1, <2>1, Products
<1>3. /\ T * s + Refilled <= Full + (T - 1) * C
      /\ T * s + Refilled >= T * C \/ T * s + Refilled >= Full
  BY <1>1 DEF RateInv, SpentWithin
<1>4. InLastSecond = s
  BY DEF InLastSecond
<1> HIDE DEF s
<1>5. (T - 1) * C + C = Full /\ T * C = Full
  BY <1>1
<1>6. s < 2 * C
  <2>1. SUFFICES ASSUME 2 * C <= s PROVE FALSE
    BY <1>1, <1>2
  <2>2. (2 * C) * T <= s * T
    BY <1>1, <1>2, <2>1, ProductsOrder
  <2>3. (2 * C) * T = Full + Full
    BY <1>1
  <2>4. (T - 1) * C \in Nat
    BY <1>1
  <2>5. QED
    BY <1>1, <1>2, <1>3, <1>5, <2>2, <2>3, <2>4
<1>7. refused => s >= C
  <2>1. SUFFICES ASSUME refused, s + 1 <= C PROVE FALSE
    BY <1>1, <1>2
  <2>2. Refilled < T
    BY <2>1, RefilledNow DEF RateInv, Cost
  <2>3. (s + 1) * T <= C * T /\ (s + 1) * T = s * T + T
    BY <1>1, <1>2, <2>1, Products, ProductsOrder
  <2>4. s * T + Refilled >= Full
    BY <1>2, <1>3, <1>5
  <2>5. QED
    BY <1>1, <1>2, <2>2, <2>3, <2>4
<1>8. QED
  BY <1>4, <1>6, <1>7 DEF RateFollowsLimit, SecondBelowTwice, RefusedAboveLimit

-----------------------------------------------------------------------------
(* Theorems.                                                               *)

\* The locks, the caches and the subscriptions of a script's process fit together
\* in every reachable state, whatever its script does.
THEOREM ContextInvCorrect == Spec => []ContextInv
<1>1. Init => ContextInv
  <2> SUFFICES ASSUME Init PROVE ContextInv
    OBVIOUS
  <2>1. ContextTypeOK /\ BucketTypeOK
    BY TypeInit
  <2>2. OverlapOnlyAfterSkip
    BY DEF Init, OverlapOnlyAfterSkip
  <2>3. CacheInv
    BY DEF Init, CacheInv, PushedIsPast, AnswersFollowFeed, CachesFollowFeed, Idle
  <2>4. SilenceInv
    BY DEF Init, SilenceInv, ChannelsMapped, StoppedIsOver, StoppedIsSilent,
         NoTimers, Whens
  <2>5. QED
    BY <2>1, <2>2, <2>3, <2>4 DEF ContextInv
<1>2. ContextInv /\ [Next]_vars => ContextInv'
  BY TypeStep, OverlapStep, CacheStep, SilenceStep DEF ContextInv
<1>3. QED
  BY <1>1, <1>2, PTL DEF Spec

\* tickIsLocked keeps the ticks apart, but for what a skipped tick's finally has
\* opened, however many ticks come and however long they take.
THEOREM TicksApartCorrect == Spec => []OverlapOnlyAfterSkip
BY ContextInvCorrect, PTL DEF ContextInv

\* What a script sees of its account is as new as the feed, or an answer to its own
\* call was on its way: for any number of calls, symbols and changes.
THEOREM CachesCorrect == Spec => []CachesFollowFeed
BY ContextInvCorrect, PTL DEF ContextInv, CacheInv

\* A script stopped after its start is not called again by a feed, by a timer it had
\* set before its stop or by a channel it had subscribed once before: what its own
\* code adds from then on still calls it.
THEOREM StoppedCorrect == Spec => []StoppedIsSilent
BY ContextInvCorrect, PTL DEF ContextInv, SilenceInv

\* Whatever the limit and however the clock is cut into ticks: the bucket lets less than
\* twice the limit's calls through in a second, and refuses one only to a script that
\* made as many as the limit in the second before.
THEOREM RateCorrect == Spec => []RateFollowsLimit
<1>1. Init => RateInv
  BY RateInit DEF Init
<1>2. ContextTypeOK /\ BucketTypeOK /\ RateInv /\ [Next]_vars => RateInv'
  <2> SUFFICES ASSUME ContextTypeOK, BucketTypeOK, RateInv, [Next]_vars PROVE RateInv'
    OBVIOUS
  <2>1. Resolve \/ Reject \/ Elapse \/ UNCHANGED bucketVars
    BY DEF Next, LoadCall, LoadFails, StartGoesOn, SubscribeDataFeeds, Stop, ScriptStopped, Tick,
      TickEnds, CallExchange, ExchangeAnswers, CallThrows, CallReturns, AccountChanges, Push,
      SubscribeChannel, UnsubscribeChannel, SetTimeout, TimerFires, TimePasses, vars
  <2>2. BucketTypeOK'
    BY TypeStep
  <2>3. QED
    BY <2>1, <2>2, RateStays
<1>3. BucketTypeOK /\ RateInv => RateFollowsLimit
  BY RateIsKept
<1>4. QED
  BY <1>1, <1>2, <1>3, TypeInit, TypeStep, PTL DEF Spec

\* The bucket by itself never holds more than its capacity, nor less than nothing.
THEOREM BucketCorrect == BucketSpec => []BucketTypeOK
<1>1. BucketInit => BucketTypeOK
  <2>1. BucketInit => currentCapacity = Full /\ lastRefill = Null /\ currentCapacity \in 0 .. Full
    BY FullHasRoom DEF BucketInit
  <2>2. BucketInit => refused \in BOOLEAN
    BY DEF BucketInit
  <2>3. QED
    BY <2>1, <2>2 DEF BucketTypeOK
<1>2. BucketTypeOK /\ [BucketNext]_bucketVars => BucketTypeOK'
  BY BucketStays DEF BucketNext
<1>3. QED
  BY <1>1, <1>2, PTL DEF BucketSpec

-----------------------------------------------------------------------------
(* The bundler.  A text in the cache is as new as its key promises: a bundle *)
(* and the preview of a remote strategy are no older than the store was when *)
(* the cache was last emptied, the preview of a local one no older than the  *)
(* file's version in its key.                                                *)

BundleKeys == {NoKey, BundleKey, RemotePreviewKey} \cup {LocalPreviewKey(v) : v \in Nat \ {0}}
Text == [file : Nat, store : Nat, mode : {"", "runtime", "tester"}]

BuildCall ==
  [pc : {"idle", "done", "look for preview", "look", "build", "token", "ask", "keep", "keep preview"},
   kind : BundleCalls \cup {""}, key : BundleKeys, text : Text, needs : Text]

CacheSweep == [keys : SUBSET BundleKeys, token : BOOLEAN, alone : BOOLEAN]

\* A version or revision is at least another one.
AtLeast(x, y) == x >= y

BundlesTypeOK ==
  /\ entry \in Nat \ {0} /\ store \in Nat /\ floor \in Nat /\ AtLeast(store, floor)
  /\ hasToken \in BOOLEAN
  /\ Cached \subseteq BundleKeys /\ \A k \in Cached : bundles[k] \in Text
  /\ builds \in [Builds -> BuildCall]
  /\ sweep \in CacheSweep

\* What a text needs under a key.
FitsKey(k, text) ==
  /\ k \in {BundleKey, RemotePreviewKey} => AtLeast(text.store, floor)
  /\ \A v \in Nat \ {0} : k = LocalPreviewKey(v) => AtLeast(text.file, v)

CacheFits == \A k \in Cached : FitsKey(k, bundles[k])

\* What a call knows, at each step: under which key it looks, and how new its text is.
HasKey(b) ==
  b.pc \notin {"idle", "done"} =>
    /\ b.kind = "local preview" =>
         \E v \in Nat \ {0} : v = b.needs.file /\ b.key = LocalPreviewKey(v)
    /\ b.kind = "remote preview" => b.key = RemotePreviewKey

CallFits(b) ==
  /\ AtLeast(floor, b.needs.store) /\ AtLeast(entry, b.needs.file)
  /\ HasKey(b)
  /\ b.pc \in {"look for preview", "keep preview"} => b.kind \in Previews
  /\ b.pc \in {"look", "keep"} => b.kind \in Remote
  /\ b.pc = "build" => b.kind \in BundleCalls \ Remote
  /\ b.pc \in {"keep", "keep preview"} /\ b.kind \in Remote => AtLeast(b.text.store, floor)
  /\ b.pc = "keep preview" /\ b.kind = "local preview" => AtLeast(b.text.file, b.needs.file)
  /\ b.pc = "done" /\ b.kind \in Remote => AtLeast(b.text.store, b.needs.store)
  /\ b.pc = "done" /\ b.kind = "local preview" => AtLeast(b.text.file, b.needs.file)

CallsFit == \A c \in Builds : CallFits(builds[c])

\* A sweep that no call has met will find all the keys that there are.
SweepFindsAll == sweep.alone => BundlesIdle /\ Cached \subseteq sweep.keys

BundlesInv == BundlesTypeOK /\ CacheFits /\ CallsFit /\ SweepFindsAll

\* Versions and revisions are ordered.
LEMMA AtLeastOrders ==
  /\ \A x \in Nat : AtLeast(x, x) /\ AtLeast(x + 1, x) /\ AtLeast(x, 0)
  /\ \A x, y, z \in Nat : AtLeast(x, y) /\ AtLeast(y, z) => AtLeast(x, z)
  BY DEF AtLeast

\* What is at least something is at least what that is.
LEMMA AtLeastGoesOn ==
  \A x, y, z \in Nat : AtLeast(x, y) /\ AtLeast(y, z) => AtLeast(x, z)
  BY DEF AtLeast

\* The keys are told apart.
LEMMA KeysDiffer ==
  /\ BundleKey # RemotePreviewKey
  /\ \A v \in Nat \ {0} : LocalPreviewKey(v) # BundleKey /\ LocalPreviewKey(v) # RemotePreviewKey
  /\ \A v, w \in Nat \ {0} : LocalPreviewKey(v) = LocalPreviewKey(w) => v = w
  BY DEF BundleKey, RemotePreviewKey, LocalPreviewKey

\* What the records of calls hold.
LEMMA BuildCallFields ==
  ASSUME NEW b \in BuildCall
  PROVE  /\ b.kind \in BundleCalls \cup {""} /\ b.key \in BundleKeys /\ b.text \in Text /\ b.needs \in Text
         /\ b.text.store \in Nat /\ b.text.file \in Nat /\ b.needs.store \in Nat /\ b.needs.file \in Nat
         /\ \A pc \in {"done", "look", "build", "token", "ask", "keep", "keep preview"}, text \in Text :
              /\ [b EXCEPT !.pc = pc] \in BuildCall
              /\ [b EXCEPT !.pc = pc, !.text = text] \in BuildCall
<1>1. b.kind \in BundleCalls \cup {""} /\ b.key \in BundleKeys /\ b.text \in Text /\ b.needs \in Text
  BY DEF BuildCall
<1>2. \A t \in Text : t.store \in Nat /\ t.file \in Nat
  BY DEF Text
<1>3. \A pc \in {"done", "look", "build", "token", "ask", "keep", "keep preview"}, text \in Text :
        /\ [b EXCEPT !.pc = pc] \in BuildCall
        /\ [b EXCEPT !.pc = pc, !.text = text] \in BuildCall
  BY DEF BuildCall
<1>4. QED
  BY <1>1, <1>2, <1>3

\* A call goes on, nothing else changes.
LEMMA BuildGoes ==
  ASSUME BundlesInv, NEW c \in Builds, builds[c].pc \notin {"idle", "done"},
         NEW b \in BuildCall, CallFits(b), builds' = [builds EXCEPT ![c] = b],
         store' \in {store, store + 1}, UNCHANGED <<entry, hasToken, bundles, sweep, floor>>
  PROVE  BundlesInv'
<1>1. ~BundlesIdle /\ ~sweep.alone
  BY DEF BundlesIdle, BundlesInv, SweepFindsAll
<1>2. BundlesTypeOK'
  <2>1. store' \in Nat /\ AtLeast(store', floor)
    BY AtLeastOrders DEF BundlesInv, BundlesTypeOK
  <2>2. QED
    BY <2>1 DEF BundlesInv, BundlesTypeOK, Cached
<1>3. CacheFits' /\ SweepFindsAll'
  BY <1>1 DEF BundlesInv, CacheFits, FitsKey, SweepFindsAll, Cached
<1>4. CallsFit'
  BY DEF BundlesInv, BundlesTypeOK, CallsFit, CallFits
<1>5. QED
  BY <1>2, <1>3, <1>4 DEF BundlesInv

\* The same with a text that is kept under a key it fits.
LEMMA TextKept ==
  ASSUME BundlesInv, NEW c \in Builds, builds[c].pc \notin {"idle", "done"},
         NEW pc \in {"done", "keep preview"}, Goes(c, pc),
         NEW b, b = [builds[c] EXCEPT !.pc = pc], CallFits(b),
         NEW k \in BundleKeys, FitsKey(k, builds[c].text), Keep(k, builds[c].text), Elsewhere
  PROVE  BundlesInv'
<1>1. ~BundlesIdle /\ ~sweep.alone
  BY DEF BundlesIdle, BundlesInv, SweepFindsAll
<1>2. builds[c] \in BuildCall
  BY DEF BundlesInv, BundlesTypeOK
<1>3. b \in BuildCall /\ builds' = [builds EXCEPT ![c] = b] /\ builds[c].text \in Text
  BY <1>2 DEF BuildCall, Goes
<1>4. /\ Cached' = Cached \cup {k}
      /\ bundles'[k] = builds[c].text
      /\ \A o \in Cached \ {k} : bundles'[o] = bundles[o]
  BY DEF Keep, Cached
<1>5. UNCHANGED <<entry, store, sweep, floor>>
  BY DEF Elsewhere
<1>7. BundlesTypeOK'
  <2>1. builds' \in [Builds -> BuildCall]
    BY <1>3 DEF BundlesInv, BundlesTypeOK
  <2>2. Cached' \subseteq BundleKeys /\ \A o \in Cached' : bundles'[o] \in Text
    BY <1>3, <1>4 DEF BundlesInv, BundlesTypeOK
  <2>3. hasToken' = hasToken
    BY DEF Elsewhere
  <2>4. QED
    BY <1>5, <2>1, <2>2, <2>3 DEF BundlesInv, BundlesTypeOK
<1>8. CacheFits'
  BY <1>4, <1>5 DEF BundlesInv, CacheFits, FitsKey
<1>9. CallsFit'
  BY <1>3, <1>5 DEF BundlesInv, BundlesTypeOK, CallsFit, CallFits
<1>10. SweepFindsAll'
  BY <1>1, <1>5 DEF SweepFindsAll
<1>11. QED
  BY <1>7, <1>8, <1>9, <1>10 DEF BundlesInv

LEMMA BeginBuildKeeps ==
  ASSUME BundlesInv, NEW c \in Builds, NEW kind \in BundleCalls, BeginBuild(c, kind)
  PROVE  BundlesInv'
<1> DEFINE b == [pc |-> CASE kind \in Previews -> "look for preview"
                          [] kind \in Remote -> "look"
                          [] OTHER -> "build",
                 kind |-> kind,
                 key |-> IF kind \in Previews THEN PreviewKey(kind) ELSE NoKey,
                 text |-> NoText,
                 needs |-> [file |-> entry, store |-> floor, mode |-> ""]]
<1>1. /\ builds' = [builds EXCEPT ![c] = b]
      /\ sweep' = [sweep EXCEPT !.alone = FALSE]
      /\ UNCHANGED <<entry, store, hasToken, bundles, sweeps, floor>>
  BY DEF BeginBuild
<1>2. entry \in Nat \ {0} /\ floor \in Nat
  BY DEF BundlesInv, BundlesTypeOK
<1>3. NoText \in Text /\ [file |-> entry, store |-> floor, mode |-> ""] \in Text
  BY <1>2 DEF NoText, FromFile, Text
<1>4. b.key \in BundleKeys
  BY <1>2 DEF BundleKeys, PreviewKey
<1>5. b.pc \in {"look for preview", "look", "build"}
  OBVIOUS
<1>6. b \in BuildCall
  <2> DEFINE step == CASE kind \in Previews -> "look for preview"
                       [] kind \in Remote -> "look"
                       [] OTHER -> "build"
             key == IF kind \in Previews THEN PreviewKey(kind) ELSE NoKey
             needed == [file |-> entry, store |-> floor, mode |-> ""]
  <2>1. step \in {"look for preview", "look", "build"} /\ key \in BundleKeys /\ needed \in Text
    BY <1>3, <1>4, <1>5
  <2>2. b = [pc |-> step, kind |-> kind, key |-> key, text |-> NoText, needs |-> needed]
    OBVIOUS
  <2> HIDE DEF step, key, needed
  <2>3. [pc |-> step, kind |-> kind, key |-> key, text |-> NoText, needs |-> needed] \in BuildCall
    BY <1>3, <2>1 DEF BuildCall
  <2>4. QED
    BY <2>2, <2>3
<1>7. CallFits(b)
  BY <1>2, AtLeastOrders DEF CallFits, HasKey, PreviewKey, BundleCalls, Previews, Remote
<1> HIDE DEF b
<1>8. sweep' \in CacheSweep /\ sweep'.alone = FALSE
  BY <1>1 DEF BundlesInv, BundlesTypeOK, CacheSweep
<1>9. BundlesTypeOK'
  BY <1>1, <1>6, <1>8 DEF BundlesInv, BundlesTypeOK, Cached
<1>10. CacheFits'
  BY <1>1 DEF BundlesInv, CacheFits, FitsKey, Cached
<1>11. CallsFit'
  BY <1>1, <1>7 DEF BundlesInv, BundlesTypeOK, CallsFit, CallFits
<1>12. SweepFindsAll'
  BY <1>8 DEF SweepFindsAll
<1>13. QED
  BY <1>9, <1>10, <1>11, <1>12 DEF BundlesInv

\* A call that looks, builds or asks, or fails.
LEMMA BuildKeeps ==
  ASSUME BundlesInv, NEW c \in Builds,
         \/ LookForPreview(c) \/ Build(c) \/ LookForBundle(c) \/ TokenRead(c)
         \/ SiteGivesBundle(c) \/ SiteTakesUpload(c) \/ BuildFails(c)
  PROVE  BundlesInv'
<1>1. builds[c] \in BuildCall /\ CallFits(builds[c])
  BY DEF BundlesInv, BundlesTypeOK, CallsFit
<1>2. /\ entry \in Nat \ {0} /\ store \in Nat /\ floor \in Nat /\ AtLeast(store, floor)
      /\ \A k \in Cached : bundles[k] \in Text /\ FitsKey(k, bundles[k])
  BY DEF BundlesInv, BundlesTypeOK, CacheFits
<1>3. ASSUME NEW pc, Goes(c, pc) PROVE builds' = [builds EXCEPT ![c] = [builds[c] EXCEPT !.pc = pc]]
  BY <1>3 DEF Goes
<1>4. ASSUME NEW pc, NEW text, Gets(c, pc, text)
      PROVE  builds' = [builds EXCEPT ![c] = [builds[c] EXCEPT !.pc = pc, !.text = text]]
  BY <1>4 DEF Gets
<1>5. IdleBuild \in BuildCall /\ CallFits(IdleBuild)
  <2>1. NoText \in Text /\ NoText.file = 0 /\ NoText.store = 0 /\ NoKey \in BundleKeys
    BY DEF NoText, FromFile, Text, BundleKeys
  <2>2. IdleBuild \in BuildCall
    BY <2>1 DEF IdleBuild, BuildCall
  <2>3. CallFits(IdleBuild)
    BY <1>2, <2>1, AtLeastOrders DEF IdleBuild, CallFits, HasKey
  <2>4. QED
    BY <2>2, <2>3
<1>6. CASE LookForPreview(c)
  <2>1. builds[c].pc = "look for preview" /\ builds[c].kind \in Previews
        /\ UNCHANGED <<entry, store, hasToken, bundles, sweep, floor>>
    BY <1>1, <1>6 DEF LookForPreview, CallFits, Elsewhere
  <2>2. CASE builds[c].key \in Cached
    <3> DEFINE b == [builds[c] EXCEPT !.pc = "done", !.text = bundles[builds[c].key]]
    <3>1. builds' = [builds EXCEPT ![c] = b]
      BY <1>4, <1>6, <2>2 DEF LookForPreview
    <3>2. b \in BuildCall
      BY <1>1, <1>2, <2>2 DEF BuildCall
    <3>3. CallFits(b)
      <4>1. /\ b.pc = "done" /\ b.kind = builds[c].kind /\ b.needs = builds[c].needs
            /\ b.text = bundles[builds[c].key]
        BY <1>1 DEF BuildCall
      <4>2. /\ AtLeast(floor, b.needs.store) /\ AtLeast(entry, b.needs.file) /\ HasKey(builds[c])
            /\ b.kind = "local preview" => \E v \in Nat \ {0} : v = b.needs.file /\ builds[c].key = LocalPreviewKey(v)
            /\ b.kind = "remote preview" => builds[c].key = RemotePreviewKey
        BY <1>1, <2>1, <4>1, BuildCallFields DEF CallFits, HasKey
      <4>3. FitsKey(builds[c].key, b.text) /\ b.text.store \in Nat /\ b.needs.store \in Nat
        BY <1>1, <1>2, <2>2, <4>1, <3>2, BuildCallFields
      <4>4. b.kind = "local preview" \/ b.kind = "remote preview"
        BY <2>1, <4>1 DEF Previews
      <4> HIDE DEF b
      <4>5. b.kind = "remote preview" => AtLeast(b.text.store, b.needs.store)
        <5> SUFFICES ASSUME b.kind = "remote preview" PROVE AtLeast(b.text.store, b.needs.store)
          OBVIOUS
        <5>1. AtLeast(b.text.store, floor)
          BY <4>2, <4>3 DEF FitsKey
        <5>2. AtLeast(floor, b.needs.store) /\ b.text.store \in Nat /\ b.needs.store \in Nat /\ floor \in Nat
          BY <1>2, <4>2, <4>3
        <5>3. QED
          BY <5>1, <5>2, AtLeastGoesOn, Zenon
      <4>6. b.kind = "local preview" => AtLeast(b.text.file, b.needs.file)
        BY <4>2, <4>3 DEF FitsKey
      <4>7. QED
        BY <4>1, <4>2, <4>4, <4>5, <4>6 DEF CallFits, HasKey, Remote
    <3> HIDE DEF b
    <3>4. QED
      BY <1>2, <2>1, <3>1, <3>2, <3>3, BuildGoes
  <2>3. CASE builds[c].key \notin Cached
    <3> DEFINE b == [builds[c] EXCEPT !.pc = IF builds[c].kind \in Remote THEN "look" ELSE "build"]
    <3>1. builds' = [builds EXCEPT ![c] = b]
      BY <1>3, <1>6, <2>3 DEF LookForPreview
    <3>2. PICK pc \in {"look", "build"} : b = [builds[c] EXCEPT !.pc = pc]
                                         /\ pc = IF builds[c].kind \in Remote THEN "look" ELSE "build"
      OBVIOUS
    <3> HIDE DEF b
    <3>3. b \in BuildCall
      BY <1>1, <3>2, BuildCallFields
    <3>4. /\ b.kind = builds[c].kind /\ b.key = builds[c].key /\ b.needs = builds[c].needs /\ b.pc = pc
      BY <1>1, <3>2 DEF BuildCall
    <3>5. HasKey(b)
      BY <1>1, <2>1, <3>4 DEF CallFits, HasKey
    <3>6. CallFits(b)
      <4>1. AtLeast(floor, b.needs.store) /\ AtLeast(entry, b.needs.file)
        BY <1>1, <3>4 DEF CallFits
      <4>2. pc = "build" => b.kind \in BundleCalls \ Remote
        BY <2>1, <3>2, <3>4 DEF Previews, BundleCalls, Remote
      <4>3. pc = "look" => b.kind \in Remote
        BY <3>2, <3>4
      <4>4. QED
        BY <3>4, <3>5, <4>1, <4>2, <4>3 DEF CallFits
    <3>7. QED
      BY <1>2, <2>1, <3>1, <3>3, <3>6, BuildGoes
  <2>4. QED
    BY <2>2, <2>3
<1>7. CASE Build(c)
  <2> DEFINE b == [builds[c] EXCEPT !.pc = CASE builds[c].kind = "local start" -> "done"
                                             [] builds[c].kind = "upload" -> "token"
                                             [] OTHER -> "keep preview",
                                    !.text = FromFile(entry)]
  <2>1. builds' = [builds EXCEPT ![c] = b] /\ builds[c].pc = "build"
        /\ UNCHANGED <<entry, store, hasToken, bundles, sweep, floor>>
    BY <1>4, <1>7 DEF Build, Elsewhere
  <2>2. FromFile(entry) \in Text /\ FromFile(entry).file = entry
    BY <1>2 DEF FromFile, Text
  <2>3. b.pc \in {"done", "token", "keep preview"} /\ b \in BuildCall
    BY <1>1, <2>2 DEF BuildCall
  <2>4. b.text.file = entry
    BY <1>1, <2>2 DEF BuildCall
  <2>8. /\ b.kind = builds[c].kind /\ b.key = builds[c].key /\ b.needs = builds[c].needs
        /\ b.pc = "done" <=> b.kind = "local start"
        /\ b.pc = "keep preview" <=> b.kind \notin {"local start", "upload"}
    BY <1>1, <2>2 DEF BuildCall
  <2>5. builds[c].kind \notin Remote /\ builds[c].kind \in BundleCalls
    BY <1>1, <2>1 DEF CallFits, BuildCall
  <2> HIDE DEF b
  <2>6. CallFits(b)
    <3>1. AtLeast(floor, b.needs.store) /\ AtLeast(entry, b.needs.file)
      BY <1>1, <2>8, BuildCallFields DEF CallFits
    <3>2. HasKey(b)
      BY <1>1, <2>1, <2>8 DEF CallFits, HasKey
    <3>3. b.kind \in {"local start", "upload", "local preview"}
      BY <1>1, <2>1, <2>5, <2>8 DEF CallFits, BundleCalls, Remote, Previews
    <3>4. AtLeast(b.text.file, b.needs.file)
      BY <2>4, <3>1
    <3>5. QED
      BY <2>3, <2>8, <3>1, <3>2, <3>3, <3>4 DEF CallFits, Remote, Previews
  <2>7. QED
    BY <1>2, <2>1, <2>3, <2>6, BuildGoes
<1>8. CASE LookForBundle(c)
  <2>1. builds[c].pc = "look" /\ builds[c].kind \in Remote
        /\ UNCHANGED <<entry, store, hasToken, bundles, sweep, floor>>
    BY <1>1, <1>8 DEF LookForBundle, CallFits, Elsewhere
  <2>2. CASE BundleKey \in Cached
    <3> DEFINE b == [builds[c] EXCEPT !.pc = AfterGetBundle(c), !.text = bundles[BundleKey]]
    <3>1. builds' = [builds EXCEPT ![c] = b]
      BY <1>4, <1>8, <2>2 DEF LookForBundle
    <3>2. b \in BuildCall
      BY <1>1, <1>2, <2>2 DEF BuildCall, AfterGetBundle
    <3>3. /\ b.text = bundles[BundleKey] /\ AtLeast(b.text.store, floor)
          /\ b.text.store \in Nat /\ b.needs.store \in Nat
      <4>1. b.text = bundles[BundleKey]
        BY <1>1 DEF BuildCall
      <4>2. b.text.store \in Nat /\ b.needs.store \in Nat
        BY <3>2, BuildCallFields
      <4>3. AtLeast(b.text.store, floor)
        BY <1>2, <2>2, <4>1 DEF FitsKey
      <4>4. QED
        BY <4>1, <4>2, <4>3
    <3>4. CallFits(b)
      <4>1. /\ b.kind = builds[c].kind /\ b.key = builds[c].key /\ b.needs = builds[c].needs
            /\ b.pc = AfterGetBundle(c)
        BY <1>1 DEF BuildCall
      <4>2. AtLeast(floor, b.needs.store) /\ AtLeast(b.text.store, floor)
        BY <1>1, <3>3, <4>1 DEF CallFits
      <4> HIDE DEF b
      <4>3. AtLeast(b.text.store, b.needs.store)
        <5>1. AtLeast(floor, b.needs.store) /\ AtLeast(b.text.store, floor)
          BY <4>2
        <5>2. floor \in Nat /\ b.text.store \in Nat /\ b.needs.store \in Nat
          BY <1>2, <3>3
        <5>3. QED
          BY <5>1, <5>2, AtLeastGoesOn, Zenon
      <4>4. QED
        BY <1>1, <2>1, <4>1, <4>2, <4>3 DEF CallFits, HasKey, AfterGetBundle, Remote, Previews
    <3> HIDE DEF b
    <3>5. QED
      BY <1>2, <2>1, <3>1, <3>2, <3>4, BuildGoes
  <2>3. CASE BundleKey \notin Cached
    <3> DEFINE b == [builds[c] EXCEPT !.pc = "token"]
    <3>1. builds' = [builds EXCEPT ![c] = b]
      BY <1>3, <1>8, <2>3 DEF LookForBundle
    <3>2. b \in BuildCall /\ CallFits(b)
      BY <1>1, <2>1 DEF BuildCall, CallFits, HasKey
    <3> HIDE DEF b
    <3>3. QED
      BY <1>2, <2>1, <3>1, <3>2, BuildGoes
  <2>4. QED
    BY <2>2, <2>3
<1>9. CASE TokenRead(c)
  <2>1. builds[c].pc = "token" /\ UNCHANGED <<entry, store, hasToken, bundles, sweep, floor>>
    BY <1>9 DEF TokenRead, Elsewhere
  <2>2. CASE hasToken
    <3> DEFINE b == [builds[c] EXCEPT !.pc = "ask"]
    <3>1. builds' = [builds EXCEPT ![c] = b]
      BY <1>3, <1>9, <2>2 DEF TokenRead
    <3>2. b \in BuildCall /\ CallFits(b)
      BY <1>1, <2>1 DEF BuildCall, CallFits, HasKey
    <3> HIDE DEF b
    <3>3. QED
      BY <1>2, <2>1, <3>1, <3>2, BuildGoes
  <2>3. CASE ~hasToken
    <3>1. builds' = [builds EXCEPT ![c] = IdleBuild]
      BY <1>9, <2>3 DEF TokenRead
    <3>2. QED
      BY <1>2, <1>5, <2>1, <3>1, BuildGoes
  <2>4. QED
    BY <2>2, <2>3
<1>10. CASE SiteGivesBundle(c)
  <2> DEFINE b == [builds[c] EXCEPT !.pc = "keep", !.text = FromStore(store, ModeOf(builds[c].kind))]
  <2>1. builds[c].pc = "ask" /\ builds[c].kind \in Remote /\ builds' = [builds EXCEPT ![c] = b]
        /\ UNCHANGED <<entry, store, hasToken, bundles, sweep, floor>>
    BY <1>4, <1>10 DEF SiteGivesBundle, Elsewhere
  <2>2. FromStore(store, ModeOf(builds[c].kind)) \in Text /\ FromStore(store, ModeOf(builds[c].kind)).store = store
    BY <1>2 DEF FromStore, Text, ModeOf
  <2>3. b \in BuildCall /\ CallFits(b)
    BY <1>1, <1>2, <2>1, <2>2 DEF BuildCall, CallFits, HasKey
  <2> HIDE DEF b
  <2>4. QED
    BY <1>2, <2>1, <2>3, BuildGoes
<1>11. CASE SiteTakesUpload(c)
  <2> DEFINE b == [builds[c] EXCEPT !.pc = "done"]
  <2>1. builds[c].pc = "ask" /\ builds[c].kind = "upload" /\ builds' = [builds EXCEPT ![c] = b]
        /\ store' = store + 1 /\ UNCHANGED <<entry, hasToken, bundles, sweep, floor>>
    BY <1>3, <1>11 DEF SiteTakesUpload
  <2>2. b \in BuildCall /\ CallFits(b)
    BY <1>1, <2>1 DEF BuildCall, CallFits, HasKey, Remote
  <2> HIDE DEF b
  <2>3. QED
    BY <1>2, <2>1, <2>2, BuildGoes
<1>12. CASE BuildFails(c)
  <2>1. builds[c].pc \in {"build", "ask"} /\ builds' = [builds EXCEPT ![c] = IdleBuild]
        /\ UNCHANGED <<entry, store, hasToken, bundles, sweep, floor>>
    BY <1>12 DEF BuildFails, Elsewhere
  <2>2. QED
    BY <1>2, <1>5, <2>1, BuildGoes
<1>13. QED
  BY <1>6, <1>7, <1>8, <1>9, <1>10, <1>11, <1>12

\* A call keeps what it got.
LEMMA KeepKeeps ==
  ASSUME BundlesInv, NEW c \in Builds, KeepBundle(c) \/ KeepPreview(c)
  PROVE  BundlesInv'
<1>1. builds[c] \in BuildCall /\ CallFits(builds[c])
  BY DEF BundlesInv, BundlesTypeOK, CallsFit
<1>2. floor \in Nat /\ builds[c].text.store \in Nat /\ builds[c].needs.store \in Nat
      /\ builds[c].needs.file \in Nat
  BY <1>1 DEF BundlesInv, BundlesTypeOK, BuildCall, Text
<1>3. CASE KeepBundle(c)
  <2>1. builds[c].pc = "keep" /\ Keep(BundleKey, builds[c].text) /\ Goes(c, AfterGetBundle(c)) /\ Elsewhere
    BY <1>3 DEF KeepBundle
  <2>2. builds[c].kind \in Remote /\ AtLeast(builds[c].text.store, floor)
    BY <1>1, <2>1 DEF CallFits
  <2>3. AfterGetBundle(c) \in {"done", "keep preview"} /\ BundleKey \in BundleKeys
    BY DEF AfterGetBundle, BundleKeys
  <2> DEFINE b == [builds[c] EXCEPT !.pc = AfterGetBundle(c)]
  <2>4. CallFits(b)
    <3>1. /\ b.kind = builds[c].kind /\ b.key = builds[c].key /\ b.needs = builds[c].needs
          /\ b.text = builds[c].text /\ b.pc = AfterGetBundle(c)
      BY <1>1 DEF BuildCall
    <3> HIDE DEF b
    <3>2. AtLeast(builds[c].text.store, builds[c].needs.store)
      <4>1. AtLeast(floor, builds[c].needs.store)
        BY <1>1 DEF CallFits
      <4>2. QED
        BY <1>2, <2>2, <4>1, AtLeastOrders
    <3>3. QED
      BY <1>1, <2>1, <2>2, <3>1, <3>2 DEF CallFits, HasKey, AfterGetBundle, Remote, Previews
  <2>5. FitsKey(BundleKey, builds[c].text)
    BY <2>2, KeysDiffer DEF FitsKey
  <2> HIDE DEF b
  <2>6. b = [builds[c] EXCEPT !.pc = AfterGetBundle(c)]
    BY DEF b
  <2>7. QED
    BY <2>1, <2>3, <2>4, <2>5, <2>6, TextKept
<1>4. CASE KeepPreview(c)
  <2>1. builds[c].pc = "keep preview" /\ Keep(builds[c].key, builds[c].text) /\ Goes(c, "done") /\ Elsewhere
    BY <1>4 DEF KeepPreview
  <2> DEFINE b == [builds[c] EXCEPT !.pc = "done"]
  <2>2. CallFits(b)
    <3>1. /\ b.kind = builds[c].kind /\ b.key = builds[c].key /\ b.needs = builds[c].needs
          /\ b.text = builds[c].text /\ b.pc = "done"
      BY <1>1 DEF BuildCall
    <3> HIDE DEF b
    <3>2. builds[c].kind \in Remote => AtLeast(builds[c].text.store, builds[c].needs.store)
      <4> SUFFICES ASSUME builds[c].kind \in Remote
                   PROVE  AtLeast(builds[c].text.store, builds[c].needs.store)
        OBVIOUS
      <4>1. AtLeast(floor, builds[c].needs.store) /\ AtLeast(builds[c].text.store, floor)
        BY <1>1, <2>1 DEF CallFits
      <4>2. floor \in Nat /\ builds[c].text.store \in Nat /\ builds[c].needs.store \in Nat
        BY <1>2
      <4>3. QED
        BY <4>1, <4>2, AtLeastGoesOn, Zenon
    <3>3. QED
      BY <1>1, <2>1, <3>1, <3>2 DEF CallFits, HasKey, Remote, Previews
  <2>3. FitsKey(builds[c].key, builds[c].text)
    <3>1. CASE builds[c].kind = "local preview"
      <4>1. \E v \in Nat \ {0} : AtLeast(builds[c].text.file, v) /\ builds[c].key = LocalPreviewKey(v)
        BY <1>1, <1>2, <2>1, <3>1 DEF CallFits, HasKey, Remote
      <4>2. QED
        BY <4>1, KeysDiffer DEF FitsKey
    <3>2. CASE builds[c].kind = "remote preview"
      <4>1. AtLeast(builds[c].text.store, floor) /\ builds[c].key = RemotePreviewKey
        BY <1>1, <2>1, <3>2 DEF CallFits, HasKey, Remote
      <4>2. QED
        BY <4>1, KeysDiffer DEF FitsKey
    <3>3. QED
      BY <1>1, <2>1, <3>1, <3>2 DEF CallFits, Previews
  <2>4. builds[c].key \in BundleKeys
    BY <1>1 DEF BuildCall
  <2> HIDE DEF b
  <2>5. b = [builds[c] EXCEPT !.pc = "done"]
    BY DEF b
  <2>6. QED
    BY <2>1, <2>2, <2>3, <2>4, <2>5, TextKept
<1>5. QED
  BY <1>3, <1>4

\* What happens beside the calls.
LEMMA BesideKeeps ==
  ASSUME BundlesInv, Edit \/ LogIn \/ Expires \/ ReadKeys \/ DeleteKeys
  PROVE  BundlesInv'
<1>1. CASE Edit
  <2>1. entry' = entry + 1 /\ UNCHANGED <<store, hasToken, bundles, builds, sweep, floor>>
    BY <1>1 DEF Edit
  <2>2. \A c \in Builds : builds[c].needs.file \in Nat
    BY BuildCallFields DEF BundlesInv, BundlesTypeOK
  <2>3. CallsFit'
    <3> SUFFICES ASSUME NEW c \in Builds PROVE CallFits(builds[c])'
      BY DEF CallsFit
    <3>1. CallFits(builds[c]) /\ entry \in Nat
      BY DEF BundlesInv, BundlesTypeOK, CallsFit
    <3>2. AtLeast(entry, builds[c].needs.file)
      BY <3>1 DEF CallFits
    <3>3. AtLeast(entry', builds[c].needs.file)
      BY <2>1, <2>2, <3>1, <3>2, AtLeastOrders
    <3>4. QED
      BY <2>1, <3>1, <3>3 DEF CallFits
  <2>4. entry' \in Nat \ {0}
    BY <2>1 DEF BundlesInv, BundlesTypeOK
  <2>5. BundlesTypeOK'
    BY <2>1, <2>4 DEF BundlesInv, BundlesTypeOK, Cached
  <2>6. CacheFits' /\ SweepFindsAll'
    BY <2>1 DEF BundlesInv, CacheFits, FitsKey, SweepFindsAll, Cached, BundlesIdle
  <2>7. QED
    BY <2>3, <2>5, <2>6 DEF BundlesInv
<1>2. CASE /\ UNCHANGED <<entry, store, bundles, builds, sweep, floor>>
           /\ hasToken' \in BOOLEAN
  <2>1. UNCHANGED <<entry, store, bundles, builds, sweep, floor>>
    BY <1>2
  <2>2. hasToken' \in BOOLEAN
    BY <1>2
  <2>3. BundlesTypeOK'
    BY <2>1, <2>2 DEF BundlesInv, BundlesTypeOK, Cached
  <2>4. CacheFits' /\ SweepFindsAll'
    BY <2>1 DEF BundlesInv, CacheFits, FitsKey, SweepFindsAll, Cached, BundlesIdle
  <2>5. CallsFit'
    BY <2>1 DEF BundlesInv, CallsFit, CallFits
  <2>6. QED
    BY <2>3, <2>4, <2>5 DEF BundlesInv
<1>6. CASE LogIn
  <2>1. UNCHANGED <<entry, store, bundles, builds, sweep, floor>> /\ hasToken' \in BOOLEAN
    BY <1>6 DEF LogIn
  <2>2. QED
    BY <1>2, <2>1
<1>3. CASE Expires
  <2>1. CASE UNCHANGED bundles
    <3>1. UNCHANGED <<entry, store, bundles, builds, sweep, floor>> /\ hasToken' \in {hasToken, FALSE}
      BY <1>3, <2>1 DEF Expires
    <3>2. hasToken' \in BOOLEAN
      BY <3>1 DEF BundlesInv, BundlesTypeOK
    <3>3. QED
      BY <1>2, <3>1, <3>2
  <2>2. ASSUME NEW gone \in Cached, bundles' = [k \in Cached \ {gone} |-> bundles[k]]
        PROVE  BundlesInv'
    <3>1. Cached' = Cached \ {gone} /\ \A k \in Cached' : bundles'[k] = bundles[k]
      BY <2>2 DEF Cached
    <3>2. UNCHANGED <<entry, store, builds, sweep, floor>> /\ hasToken' \in {hasToken, FALSE}
      BY <1>3 DEF Expires
    <3>3. BundlesTypeOK'
      BY <3>1, <3>2 DEF BundlesInv, BundlesTypeOK
    <3>4. CacheFits' /\ SweepFindsAll'
      BY <3>1, <3>2 DEF BundlesInv, CacheFits, FitsKey, SweepFindsAll, BundlesIdle
    <3>5. CallsFit'
      BY <3>2 DEF BundlesInv, CallsFit, CallFits
    <3>6. QED
      BY <3>3, <3>4, <3>5 DEF BundlesInv
  <2>3. QED
    BY <1>3, <2>1, <2>2 DEF Expires
<1>4. CASE ReadKeys
  <2>1. /\ sweep' = [keys |-> Cached, token |-> hasToken, alone |-> BundlesIdle]
        /\ UNCHANGED <<entry, store, hasToken, bundles, builds, floor>>
    BY <1>4 DEF ReadKeys
  <2>2. BundlesIdle \in BOOLEAN /\ Cached \subseteq BundleKeys
    BY DEF BundlesIdle, BundlesInv, BundlesTypeOK
  <2>3. hasToken \in BOOLEAN
    BY DEF BundlesInv, BundlesTypeOK
  <2>4. sweep' \in CacheSweep /\ sweep'.alone = BundlesIdle /\ sweep'.keys = Cached
    BY <2>1, <2>2, <2>3 DEF CacheSweep
  <2>5. BundlesTypeOK' /\ CacheFits' /\ CallsFit'
    BY <2>1, <2>4 DEF BundlesInv, BundlesTypeOK, CacheFits, FitsKey, CallsFit, CallFits, Cached
  <2>6. SweepFindsAll'
    BY <2>1, <2>4 DEF SweepFindsAll, Cached, BundlesIdle
  <2>7. QED
    BY <2>5, <2>6 DEF BundlesInv
<1>5. CASE DeleteKeys
  <2>1. /\ bundles' = [k \in Cached \ sweep.keys |-> bundles[k]]
        /\ sweep' = NoSweep
        /\ floor' = IF sweep.alone THEN store ELSE floor
        /\ UNCHANGED <<entry, store, builds>>
    BY <1>5 DEF DeleteKeys
  <2>2. Cached' = Cached \ sweep.keys /\ \A k \in Cached' : bundles'[k] = bundles[k]
    BY <2>1 DEF Cached
  <2>3. sweep' \in CacheSweep /\ sweep'.alone = FALSE
    BY <2>1 DEF NoSweep, CacheSweep
  <2>4. /\ entry \in Nat \ {0} /\ store \in Nat /\ floor \in Nat /\ floor' \in Nat
        /\ AtLeast(store, floor') /\ AtLeast(floor', floor)
    BY <2>1, AtLeastOrders DEF BundlesInv, BundlesTypeOK
  <2>5. BundlesTypeOK'
    <3>1. hasToken' \in BOOLEAN
      BY <1>5 DEF DeleteKeys, BundlesInv, BundlesTypeOK
    <3>2. Cached' \subseteq BundleKeys /\ \A k \in Cached' : bundles'[k] \in Text
      BY <2>2 DEF BundlesInv, BundlesTypeOK
    <3>3. QED
      BY <2>1, <2>3, <2>4, <3>1, <3>2 DEF BundlesInv, BundlesTypeOK
  <2>6. CacheFits'
    <3>1. CASE sweep.alone
      BY <2>2, <3>1 DEF BundlesInv, SweepFindsAll, CacheFits
    <3>2. CASE ~sweep.alone
      BY <2>1, <2>2, <3>2 DEF BundlesInv, CacheFits, FitsKey
    <3>3. QED
      BY <3>1, <3>2
  <2>7. CallsFit'
    <3> SUFFICES ASSUME NEW c \in Builds PROVE CallFits(builds[c])'
      BY DEF CallsFit
    <3>1. CallFits(builds[c]) /\ builds[c].needs.store \in Nat
      BY BuildCallFields DEF BundlesInv, BundlesTypeOK, CallsFit
    <3>2. sweep.alone => builds[c].pc \in {"idle", "done"}
      BY DEF BundlesInv, SweepFindsAll, BundlesIdle
    <3>3. QED
      <4>1. AtLeast(floor', builds[c].needs.store)
        <5>1. AtLeast(floor, builds[c].needs.store)
          BY <3>1 DEF CallFits
        <5>2. QED
          BY <2>4, <3>1, <5>1, AtLeastOrders
      <4>2. CASE sweep.alone
        BY <2>1, <3>1, <3>2, <4>1, <4>2 DEF CallFits
      <4>3. CASE ~sweep.alone
        BY <2>1, <3>1, <4>3 DEF CallFits
      <4>4. QED
        BY <4>2, <4>3
  <2>8. QED
    BY <2>3, <2>5, <2>6, <2>7 DEF BundlesInv, SweepFindsAll
<1>7. QED
  BY <1>1, <1>3, <1>4, <1>5, <1>6

\* The inductive invariant holds for any slots and bounds.
THEOREM BundlesInvCorrect == BundlesSpec => []BundlesInv
<1>1. BundlesInit => BundlesInv
  <2> SUFFICES ASSUME BundlesInit PROVE BundlesInv
    OBVIOUS
  <2>0. NoText \in Text /\ NoText.file = 0 /\ NoText.store = 0 /\ NoKey \in BundleKeys
    BY DEF NoText, FromFile, Text, BundleKeys
  <2>1. IdleBuild \in BuildCall /\ NoText.file = 0 /\ NoText.store = 0
    BY <2>0 DEF IdleBuild, BuildCall
  <2>2. Cached = {}
    BY DEF BundlesInit, Cached
  <2>3. BundlesTypeOK /\ CacheFits /\ SweepFindsAll
    <3>1. AtLeast(1, 0)
      BY DEF AtLeast
    <3>2. NoSweep \in CacheSweep /\ NoSweep.alone = FALSE
      BY DEF NoSweep, CacheSweep
    <3>3. BundlesTypeOK
      <4>1. entry \in Nat \ {0} /\ store \in Nat /\ floor \in Nat /\ AtLeast(store, floor) /\ hasToken \in BOOLEAN
        <5>1. AtLeast(store, floor)
          BY DEF BundlesInit, AtLeast
        <5>2. entry \in Nat \ {0} /\ store \in Nat /\ floor \in Nat
          BY DEF BundlesInit
        <5>3. hasToken \in BOOLEAN
          BY DEF BundlesInit
        <5>4. QED
          BY <5>1, <5>2, <5>3
      <4>2. Cached \subseteq BundleKeys /\ \A k \in Cached : bundles[k] \in Text
        BY <2>2
      <4>3. builds \in [Builds -> BuildCall] /\ sweep \in CacheSweep
        BY <2>1, <3>2 DEF BundlesInit
      <4>4. QED
        BY <4>1, <4>2, <4>3 DEF BundlesTypeOK
    <3>4. CacheFits /\ SweepFindsAll
      BY <2>2, <3>2 DEF BundlesInit, CacheFits, SweepFindsAll
    <3>5. QED
      BY <3>3, <3>4
  <2>4. CallsFit
    BY <2>1, AtLeastOrders DEF BundlesInit, CallsFit, CallFits, HasKey, IdleBuild
  <2>5. QED
    BY <2>3, <2>4 DEF BundlesInv
<1>2. BundlesInv /\ [BundlesNext]_bundlesVars => BundlesInv'
  <2> SUFFICES ASSUME BundlesInv, [BundlesNext]_bundlesVars PROVE BundlesInv'
    OBVIOUS
  <2>1. CASE UNCHANGED bundlesVars
    BY <2>1 DEF bundlesVars, BundlesInv, BundlesTypeOK, CacheFits, FitsKey, CallsFit, CallFits,
                SweepFindsAll, Cached, BundlesIdle
  <2>2. CASE BundlesNext
    BY <2>2, BeginBuildKeeps, BuildKeeps, KeepKeeps, BesideKeeps DEF BundlesNext
  <2>3. QED
    BY <2>1, <2>2
<1>3. QED
  BY <1>1, <1>2, PTL DEF BundlesSpec

\* However calls, edits, expiries and emptyings of the cache mix, no call gets a text older
\* than the one the last emptying promised it, and no preview of a local strategy one older
\* than its file was.
THEOREM TextsAreCurrentCorrect == BundlesSpec => []TextsAreCurrent
<1>1. BundlesInv => TextsAreCurrent
  BY DEF BundlesInv, CallsFit, CallFits, TextsAreCurrent, NewAfterEmptying, PreviewShowsEntry, Done,
         AtLeast
<1>2. QED
  BY <1>1, BundlesInvCorrect, PTL
=============================================================================
