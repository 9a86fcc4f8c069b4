------------------------------ MODULE DataFeed ------------------------------
(***************************************************************************)
(* DataFeedFactory and its DataFeeds: the streams of tickers, order books, *)
(* orders, balances and positions that runtimes subscribe to.  A feed      *)
(* polls its exchange in an asynchronous loop and passes what comes to its *)
(* subscribers; monitoring, every five seconds, drops feeds without        *)
(* subscribers and restarts loops that have stopped.  Feeds of one         *)
(* exchange share its SDK, and with it the flag isFailed and the time of   *)
(* the next retry (ExchangeSdkFactory).                                    *)
(*                                                                         *)
(* A call of the SDK settles in one step and the loop that awaits it goes  *)
(* on in another; timers do not fire in between.  How long the backoff is  *)
(* (retriesCounter) is abstracted: it ends some time after the last call.  *)
(* The synchronous flow of back tests is the subject of TesterTick.        *)
(***************************************************************************)
EXTENDS Naturals, FiniteSets

CONSTANTS
  Keys,         \* of the map dataFeeds
  Sdks,
  Feeds,        \* DataFeed objects
  NoFeed,
  Subscribers,  \* callbacks of the runtimes
  KeyOf,        \* the key of what a subscriber subscribes to
  SdkOf,        \* the SDK of its exchange, market type and API key
  Throwers,     \* subscribers whose callback throws
  MaxSequence,  \* bound: ids that feeds of a key give
  MaxFailures   \* bound: calls of an exchange that fail

ASSUME SubscribersTyped ==
  /\ KeyOf \in [Subscribers -> Keys] /\ SdkOf \in [Subscribers -> Sdks]
  /\ Throwers \subseteq Subscribers
ASSUME SdksExist == Sdks # {}
ASSUME NoFeedIsNone == NoFeed \notin Feeds
ASSUME FeedBounds == MaxSequence \in [Keys -> Nat] /\ MaxFailures \in Nat

VARIABLES
  dataFeeds,  \* the map of the factory
  feed,       \* the fields of the feeds
  loop,       \* how many loops of a feed await, or resume with data or an error
  isFailed,   \* of each SDK
  retryDue,   \* nextRetryTms of the SDK has passed
  held,       \* the id a subscriber holds, 0 without a subscription
  served,     \* history: has had data since its feed's loop was last (re)started
  failures    \* how many calls have failed

vars == <<dataFeeds, feed, loop, isFailed, retryDue, held, served, failures>>

NewFeed(sdk) == [sdk |-> sdk, subscribers |-> {}, sequence |-> 0,
                 isStarted |-> FALSE, isStopped |-> FALSE]
NoLoop == [await |-> 0, data |-> 0, error |-> 0]
Loops(f) == loop[f].await + loop[f].data + loop[f].error

\* Objects that nobody refers to stand for new ones.
Unused == {f \in Feeds : Loops(f) = 0 /\ \A k \in Keys : dataFeeds[k] # f}

\* Subscribers of the fields fd of a feed, and those a datum reaches: delivery
\* goes in the order of the ids up to the first one that throws.
Names(fd) == {r.who : r \in fd.subscribers}
Reached(fd) ==
  {r.who : r \in {q \in fd.subscribers :
                    \A t \in fd.subscribers : t.who \in Throwers => q.id < t.id}}

Init ==
  /\ dataFeeds = [k \in Keys |-> NoFeed]
  /\ feed = [f \in Feeds |-> NewFeed(CHOOSE x \in Sdks : TRUE)]
  /\ loop = [f \in Feeds |-> NoLoop]
  /\ isFailed = [x \in Sdks |-> FALSE]
  /\ retryDue = [x \in Sdks |-> FALSE]
  /\ held = [s \in Subscribers |-> 0]
  /\ served = [s \in Subscribers |-> FALSE]
  /\ failures = 0

-----------------------------------------------------------------------------
(* The loop of run().                                                      *)

\* Its top, for a feed f whose fields are now fd: stop, or call the SDK.
LoopTop(f, fd, pending) ==
  IF fd.isStopped \/ fd.subscribers = {} \/ isFailed[fd.sdk]
  THEN /\ feed' = [feed EXCEPT ![f] = [fd EXCEPT !.isStopped = TRUE]]
       /\ loop' = [loop EXCEPT ![f] = pending]
       /\ UNCHANGED retryDue
  ELSE /\ feed' = [feed EXCEPT ![f] = fd]
       /\ loop' = [loop EXCEPT ![f] = [pending EXCEPT !.await = @ + 1]]
       /\ retryDue' = [retryDue EXCEPT ![fd.sdk] = FALSE]

\* A call of the SDK succeeds: _superWsMethodCall clears the flag.
CallSucceeds(f) ==
  /\ loop[f].await > 0
  /\ loop' = [loop EXCEPT ![f].await = @ - 1, ![f].data = @ + 1]
  /\ isFailed' = [isFailed EXCEPT ![feed[f].sdk] = FALSE]
  /\ UNCHANGED <<dataFeeds, feed, retryDue, held, served, failures>>

CallFails(f) ==
  /\ failures < MaxFailures
  /\ loop[f].await > 0
  /\ loop' = [loop EXCEPT ![f].await = @ - 1, ![f].error = @ + 1]
  /\ isFailed' = [isFailed EXCEPT ![feed[f].sdk] = TRUE]
  /\ failures' = failures + 1
  /\ UNCHANGED <<dataFeeds, feed, retryDue, held, served>>

\* onData, then the top of the loop; a subscriber that throws ends the loop as
\* an error of the exchange would.
Deliver(f) ==
  /\ loop[f].data > 0
  /\ served' = [s \in Subscribers |-> served[s] \/ s \in Reached(feed[f])]
  /\ LET pending == [loop[f] EXCEPT !.data = @ - 1]
     IN IF Names(feed[f]) \cap Throwers = {}
        THEN LoopTop(f, feed[f], pending)
        ELSE /\ feed' = [feed EXCEPT ![f].isStopped = TRUE]
             /\ loop' = [loop EXCEPT ![f] = pending]
             /\ UNCHANGED retryDue
  /\ UNCHANGED <<dataFeeds, isFailed, held, failures>>

\* Mutant: the error is logged and the loop left, but not marked as stopped.
CatchUnstopped(f) ==
  /\ loop[f].error > 0
  /\ loop' = [loop EXCEPT ![f].error = @ - 1]
  /\ served' = [s \in Subscribers |-> served[s] /\ s \notin Names(feed[f])]
  /\ UNCHANGED <<dataFeeds, feed, isFailed, retryDue, held, failures>>

\* The catch of the loop.
Catch(f) ==
  /\ loop[f].error > 0
  /\ loop' = [loop EXCEPT ![f].error = @ - 1]
  /\ feed' = [feed EXCEPT ![f].isStopped = TRUE]
  /\ served' = [s \in Subscribers |-> served[s] /\ s \notin Names(feed[f])]
  /\ UNCHANGED <<dataFeeds, isFailed, retryDue, held, failures>>

-----------------------------------------------------------------------------
(* subscribe... and unsubscribe...                                         *)

\* selectDataFeed: the feed of the key, or a new one, and its fields.
Selected(k) == IF dataFeeds[k] # NoFeed THEN dataFeeds[k] ELSE CHOOSE f \in Unused : TRUE
Fields(k, sdk) == IF dataFeeds[k] # NoFeed THEN feed[dataFeeds[k]] ELSE NewFeed(sdk)
CanSelect(k) == dataFeeds[k] # NoFeed \/ Unused # {}

\* Mutant: the ids count the subscribers that are there.
NextIdBySize(fd) == Cardinality(fd.subscribers) + 1

\* The id that the next subscriber of a feed gets.
NextId(fd) == fd.sequence + 1

\* The first subscriber starts the loop; a later one finds it running, or
\* stopped until monitoring comes by.
Subscribe(s) ==
  LET k == KeyOf[s]
      f == Selected(k)
      old == Fields(k, SdkOf[s])
      id == NextId(old)
      new == [old EXCEPT !.subscribers = {r \in @ : r.id # id} \cup {[id |-> id, who |-> s]},
                         !.sequence = @ + 2, !.isStarted = TRUE]
  IN /\ held[s] = 0
     /\ CanSelect(k)
     /\ old.sequence < MaxSequence[k]
     /\ dataFeeds' = [dataFeeds EXCEPT ![k] = f]
     /\ IF old.isStarted
        THEN feed' = [feed EXCEPT ![f] = new] /\ UNCHANGED <<loop, retryDue>>
        ELSE LoopTop(f, new, loop[f])
     /\ held' = [held EXCEPT ![s] = id]
     /\ served' = [served EXCEPT ![s] = FALSE]
     /\ UNCHANGED <<isFailed, failures>>

\* Also without a subscription, when a context stops that never had one: the
\* feed is then made for nothing.
Unsubscribe(s) ==
  LET k == KeyOf[s]
      f == Selected(k)
      old == Fields(k, SdkOf[s])
  IN /\ CanSelect(k)
     /\ dataFeeds' = [dataFeeds EXCEPT ![k] = f]
     /\ feed' = [feed EXCEPT ![f] =
                   [old EXCEPT !.subscribers = {r \in @ : r.id # held[s]}]]
     /\ held' = [held EXCEPT ![s] = 0]
     /\ served' = [served EXCEPT ![s] = FALSE]
     /\ UNCHANGED <<loop, isFailed, retryDue, failures>>

-----------------------------------------------------------------------------
(* monitoring, and time.                                                   *)

\* A loop waits in the queue of microtasks, which are served before timers.
Microtasks == \E f \in Feeds : loop[f].data + loop[f].error > 0

\* Mutant: a feed that has failed is never due.
RetriedHealthy ==
  {k \in Keys : /\ dataFeeds[k] # NoFeed
                /\ LET fd == feed[dataFeeds[k]]
                   IN fd.subscribers # {} /\ fd.isStopped /\ ~isFailed[fd.sdk]}

\* Feeds that monitoring restarts.
Retried ==
  {k \in Keys : /\ dataFeeds[k] # NoFeed
                /\ LET fd == feed[dataFeeds[k]]
                   IN /\ fd.subscribers # {}
                      /\ fd.isStopped
                      /\ ~isFailed[fd.sdk] \/ retryDue[fd.sdk]}

\* Feeds it drops.
Dropped ==
  {k \in Keys : dataFeeds[k] # NoFeed /\ feed[dataFeeds[k]].subscribers = {}}

\* retry() clears the flag and runs the loop, which finds it cleared and calls.
\* What a dropped feed's loop still reads, its subscribers, is as in a new one.
Monitoring ==
  LET again == {dataFeeds[k] : k \in Retried}
      gone == {dataFeeds[k] : k \in Dropped}
      sdks == {feed[f].sdk : f \in again}
  IN /\ ~Microtasks
     /\ dataFeeds' = [k \in Keys |-> IF k \in Dropped THEN NoFeed ELSE dataFeeds[k]]
     /\ feed' = [f \in Feeds |->
                   CASE f \in again -> [feed[f] EXCEPT !.isStarted = TRUE, !.isStopped = FALSE]
                     [] f \in gone -> NewFeed(feed[f].sdk)
                     [] OTHER -> feed[f]]
     /\ loop' = [f \in Feeds |->
                   IF f \in again THEN [loop[f] EXCEPT !.await = @ + 1] ELSE loop[f]]
     /\ isFailed' = [x \in Sdks |-> isFailed[x] /\ x \notin sdks]
     /\ retryDue' = [x \in Sdks |-> retryDue[x] /\ x \notin sdks]
     /\ served' = [s \in Subscribers |->
                     served[s] /\ \A f \in again : s \notin Names(feed[f])]
     /\ UNCHANGED <<held, failures>>

\* The backoff since the last call of an SDK has passed.
BackoffEnds(x) ==
  /\ isFailed[x]
  /\ ~retryDue[x]
  /\ retryDue' = [retryDue EXCEPT ![x] = TRUE]
  /\ UNCHANGED <<dataFeeds, feed, loop, isFailed, held, served, failures>>

-----------------------------------------------------------------------------
Settle(f) == CallSucceeds(f) \/ CallFails(f)
Resume(f) == Deliver(f) \/ Catch(f)

Next ==
  \/ \E s \in Subscribers : Subscribe(s) \/ Unsubscribe(s)
  \/ \E f \in Feeds : Settle(f) \/ Resume(f)
  \/ Monitoring
  \/ \E x \in Sdks : BackoffEnds(x)

Spec == Init /\ [][Next]_vars

\* Exchanges answer, promises are served, timers fire and time goes on; the
\* timer of monitoring waits for microtasks and comes in the end.
Fairness ==
  /\ \A f \in Feeds : WF_vars(Settle(f) \/ Resume(f))
  /\ SF_vars(Monitoring)
  /\ \A x \in Sdks : WF_vars(BackoffEnds(x))

FairSpec == Spec /\ Fairness

-----------------------------------------------------------------------------
(* Properties.                                                             *)

\* However subscriptions, settled calls and retries interleave, a feed has one
\* loop from its start until it is stopped and none when it is stopped: no
\* datum comes twice, and isStopped, on which monitoring relies, is true.
OneLoopUnlessStopped ==
  \A k \in Keys : dataFeeds[k] # NoFeed =>
    LET f == dataFeeds[k]
    IN Loops(f) = (IF feed[f].isStarted /\ ~feed[f].isStopped THEN 1 ELSE 0)

\* A subscriber that holds an id is found under it in the feed that the map has
\* for its key, though feeds are dropped and made anew with ids from the start:
\* nobody is forgotten, and an unsubscription hits the one it is meant for.
SubscriberInFeed ==
  \A s \in Subscribers : held[s] # 0 =>
    /\ dataFeeds[KeyOf[s]] # NoFeed
    /\ [id |-> held[s], who |-> s] \in feed[dataFeeds[KeyOf[s]]].subscribers

\* Once an exchange answers, whoever is subscribed gets data, through stopped
\* loops, shared failures and retries; a callback that throws can only keep it
\* from the subscribers of its own feed.
FeedDelivers ==
  \A s \in {q \in Subscribers : \A t \in Throwers : KeyOf[t] # KeyOf[q]} :
    held[s] # 0 /\ ~served[s] ~> held[s] = 0 \/ served[s]
=============================================================================
