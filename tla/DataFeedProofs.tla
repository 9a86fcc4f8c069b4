---------------------------- MODULE DataFeedProofs ----------------------------
(***************************************************************************)
(* Proofs about DataFeed, for every set of keys, SDKs, feeds and           *)
(* subscribers, every choice of throwing callbacks and every bound.        *)
(***************************************************************************)
EXTENDS DataFeed, TLAPS

\* A subscription of a feed, its fields, and the counts of its loops.
SubscriptionType == [id : Nat, who : Subscribers]
FieldsType == [sdk : Sdks, subscribers : SUBSET SubscriptionType, sequence : Nat,
               isStarted : BOOLEAN, isStopped : BOOLEAN]
LoopType == [await : Nat, data : Nat, error : Nat]

FeedTypeOK ==
  /\ dataFeeds \in [Keys -> Feeds \cup {NoFeed}]
  /\ feed \in [Feeds -> FieldsType]
  /\ loop \in [Feeds -> LoopType]
  /\ isFailed \in [Sdks -> BOOLEAN]
  /\ retryDue \in [Sdks -> BOOLEAN]
  /\ held \in [Subscribers -> Nat]
  /\ served \in [Subscribers -> BOOLEAN]
  /\ failures \in Nat

\* No two keys share a feed.
FeedsApart ==
  \A j, k \in Keys : dataFeeds[j] = dataFeeds[k] /\ j # k => dataFeeds[j] = NoFeed

\* A feed has given every id its subscribers have, and each only once.
IdsGivenOnce ==
  \A f \in Feeds : \A r, t \in feed[f].subscribers :
    r.id \in 1 .. feed[f].sequence /\ (r.id = t.id => r = t)

\* The converse of SubscriberInFeed: who is in a feed holds the id it is there
\* under, and the map has that feed for its key.  A feed that monitoring has
\* dropped serves nobody, though its loop may still be on its way.
OnlyHolders ==
  \A f \in Feeds : \A r \in feed[f].subscribers :
    dataFeeds[KeyOf[r.who]] = f /\ held[r.who] = r.id

FeedInv ==
  /\ FeedTypeOK
  /\ FeedsApart
  /\ OneLoopUnlessStopped
  /\ IdsGivenOnce
  /\ OnlyHolders
  /\ SubscriberInFeed

-----------------------------------------------------------------------------
(* Operators.                                                              *)

USE SubscribersTyped, SdksExist, NoFeedIsNone, FeedBounds

\* The feed of a key, or an unused one, and its fields: what subscriptions
\* and unsubscriptions rely on.
LEMMA SelectedFeed ==
  ASSUME FeedTypeOK, NEW s \in Subscribers, CanSelect(KeyOf[s])
  PROVE  /\ Selected(KeyOf[s]) \in Feeds
         /\ Fields(KeyOf[s], SdkOf[s]) \in FieldsType
         /\ dataFeeds[KeyOf[s]] # NoFeed =>
              /\ Selected(KeyOf[s]) = dataFeeds[KeyOf[s]]
              /\ Fields(KeyOf[s], SdkOf[s]) = feed[dataFeeds[KeyOf[s]]]
         /\ dataFeeds[KeyOf[s]] = NoFeed =>
              /\ Selected(KeyOf[s]) \in Unused
              /\ Fields(KeyOf[s], SdkOf[s]) = NewFeed(SdkOf[s])
<1> DEFINE k == KeyOf[s]
<1>1. k \in Keys /\ SdkOf[s] \in Sdks
  OBVIOUS
<1>2. CASE dataFeeds[k] # NoFeed
  BY <1>1, <1>2 DEF FeedTypeOK, Selected, Fields
<1>3. CASE dataFeeds[k] = NoFeed
  <2>1. Unused # {}
    BY <1>3 DEF CanSelect
  <2>2. Selected(k) \in Unused
    BY <1>3, <2>1 DEF Selected
  <2>3. Fields(k, SdkOf[s]) = NewFeed(SdkOf[s])
    BY <1>3 DEF Fields
  <2>4. NewFeed(SdkOf[s]) \in FieldsType
    BY <1>1 DEF NewFeed, FieldsType
  <2>5. QED
    BY <1>3, <2>2, <2>3, <2>4 DEF Unused
<1>4. QED
  BY <1>2, <1>3

\* The top of the loop leaves the subscribers and the ids alone, and has one
\* loop on its way unless it stops the feed.
LEMMA TopOfLoop ==
  ASSUME FeedTypeOK, NEW f \in Feeds, NEW fd \in FieldsType, NEW pending \in LoopType,
         LoopTop(f, fd, pending)
  PROVE  \E new \in FieldsType, left \in LoopType :
           /\ feed' = [feed EXCEPT ![f] = new]
           /\ loop' = [loop EXCEPT ![f] = left]
           /\ retryDue' \in [Sdks -> BOOLEAN]
           /\ new.subscribers = fd.subscribers
           /\ new.sequence = fd.sequence
           /\ new.isStarted = fd.isStarted
           /\ left.data = pending.data /\ left.error = pending.error
           /\ \/ new.isStopped /\ left.await = pending.await
              \/ ~new.isStopped /\ left.await = pending.await + 1
<1>1. CASE fd.isStopped \/ fd.subscribers = {} \/ isFailed[fd.sdk]
  <2> DEFINE new == [fd EXCEPT !.isStopped = TRUE]
  <2>1. /\ new \in FieldsType /\ new.isStopped
        /\ new.subscribers = fd.subscribers /\ new.sequence = fd.sequence
        /\ new.isStarted = fd.isStarted
    BY DEF FieldsType
  <2>2. feed' = [feed EXCEPT ![f] = new] /\ loop' = [loop EXCEPT ![f] = pending]
    BY <1>1 DEF LoopTop
  <2>3. retryDue' \in [Sdks -> BOOLEAN]
    BY <1>1 DEF LoopTop, FeedTypeOK
  <2> HIDE DEF new
  <2>4. QED
    BY <2>1, <2>2, <2>3
<1>2. CASE ~(fd.isStopped \/ fd.subscribers = {} \/ isFailed[fd.sdk])
  <2> DEFINE left == [pending EXCEPT !.await = @ + 1]
  <2>1. /\ left \in LoopType /\ left.await = pending.await + 1
        /\ left.data = pending.data /\ left.error = pending.error
    BY DEF LoopType
  <2>2. feed' = [feed EXCEPT ![f] = fd] /\ loop' = [loop EXCEPT ![f] = left]
    BY <1>2 DEF LoopTop
  <2>3. retryDue' \in [Sdks -> BOOLEAN]
    BY <1>2 DEF LoopTop, FeedTypeOK, FieldsType
  <2> HIDE DEF left
  <2>4. QED
    BY <1>2, <2>1, <2>2, <2>3
<1>3. QED
  BY <1>1, <1>2

-----------------------------------------------------------------------------
(* A step changes what invariants say of a feed only at that feed.         *)

\* A step of a feed's own loop keeps the invariant when it keeps the fields but
\* isStopped, and stops the feed exactly when the loop goes.
LEMMA LoopStep ==
  ASSUME FeedInv, NEW f \in Feeds, NEW new \in FieldsType, NEW left \in LoopType,
         UNCHANGED <<dataFeeds, held>>,
         feed' = [feed EXCEPT ![f] = new],
         loop' = [loop EXCEPT ![f] = left],
         new.subscribers = feed[f].subscribers,
         new.sequence = feed[f].sequence,
         (\E k \in Keys : dataFeeds[k] = f) =>
           left.await + left.data + left.error =
             (IF new.isStarted /\ ~new.isStopped THEN 1 ELSE 0),
         isFailed' \in [Sdks -> BOOLEAN],
         retryDue' \in [Sdks -> BOOLEAN],
         served' \in [Subscribers -> BOOLEAN],
         failures' \in Nat
  PROVE  FeedInv'
<1>1. FeedTypeOK'
  BY DEF FeedInv, FeedTypeOK
<1>2. \A g \in Feeds : /\ feed'[g].subscribers = feed[g].subscribers
                       /\ feed'[g].sequence = feed[g].sequence
  BY DEF FeedInv, FeedTypeOK
<1>3. FeedsApart'
  BY DEF FeedInv, FeedsApart
<1>4. OneLoopUnlessStopped'
  <2> SUFFICES ASSUME NEW k \in Keys, dataFeeds[k] # NoFeed
               PROVE  Loops(dataFeeds[k])' =
                        (IF feed'[dataFeeds[k]].isStarted /\ ~feed'[dataFeeds[k]].isStopped
                         THEN 1 ELSE 0)
    BY DEF OneLoopUnlessStopped, Loops
  <2>1. dataFeeds[k] \in Feeds
    BY DEF FeedInv, FeedTypeOK
  <2>2. CASE dataFeeds[k] = f
    BY <2>2 DEF FeedInv, FeedTypeOK, Loops
  <2>3. CASE dataFeeds[k] # f
    BY <2>1, <2>3 DEF FeedInv, FeedTypeOK, Loops, OneLoopUnlessStopped
  <2>4. QED
    BY <2>2, <2>3
<1>5. IdsGivenOnce'
  BY <1>2 DEF FeedInv, IdsGivenOnce
<1>6. OnlyHolders'
  BY <1>2 DEF FeedInv, OnlyHolders
<1>7. SubscriberInFeed'
  <2>1. \A s \in Subscribers : KeyOf[s] \in Keys
    OBVIOUS
  <2>2. QED
    BY <1>2, <2>1 DEF FeedInv, SubscriberInFeed, FeedTypeOK
<1>8. QED
  BY <1>1, <1>3, <1>4, <1>5, <1>6, <1>7 DEF FeedInv

LEMMA CallSucceedsKeeps ==
  ASSUME FeedInv, NEW f \in Feeds, CallSucceeds(f) PROVE FeedInv'
<1> DEFINE left == [loop[f] EXCEPT !.await = @ - 1, !.data = @ + 1]
<1>1. /\ left \in LoopType
      /\ left.await + left.data + left.error = Loops(f)
  BY DEF FeedInv, FeedTypeOK, CallSucceeds, LoopType, Loops
<1>2. loop' = [loop EXCEPT ![f] = left]
  BY DEF CallSucceeds, FeedInv, FeedTypeOK, LoopType
<1>3. feed[f] \in FieldsType /\ feed' = [feed EXCEPT ![f] = feed[f]]
  BY DEF CallSucceeds, FeedInv, FeedTypeOK
<1>4. isFailed' \in [Sdks -> BOOLEAN]
  BY DEF CallSucceeds, FeedInv, FeedTypeOK, FieldsType
<1> HIDE DEF left
<1>5. (\E k \in Keys : dataFeeds[k] = f) =>
        left.await + left.data + left.error =
          (IF feed[f].isStarted /\ ~feed[f].isStopped THEN 1 ELSE 0)
  BY <1>1 DEF FeedInv, OneLoopUnlessStopped
<1>6. /\ UNCHANGED <<dataFeeds, held>>
      /\ retryDue' \in [Sdks -> BOOLEAN] /\ served' \in [Subscribers -> BOOLEAN]
      /\ failures' \in Nat
  BY DEF CallSucceeds, FeedInv, FeedTypeOK
<1>7. QED
  BY <1>1, <1>2, <1>3, <1>4, <1>5, <1>6, LoopStep

LEMMA CallFailsKeeps ==
  ASSUME FeedInv, NEW f \in Feeds, CallFails(f) PROVE FeedInv'
<1> DEFINE left == [loop[f] EXCEPT !.await = @ - 1, !.error = @ + 1]
<1>1. /\ left \in LoopType
      /\ left.await + left.data + left.error = Loops(f)
  BY DEF FeedInv, FeedTypeOK, CallFails, LoopType, Loops
<1>2. loop' = [loop EXCEPT ![f] = left]
  BY DEF CallFails, FeedInv, FeedTypeOK, LoopType
<1>3. feed[f] \in FieldsType /\ feed' = [feed EXCEPT ![f] = feed[f]]
  BY DEF CallFails, FeedInv, FeedTypeOK
<1>4. isFailed' \in [Sdks -> BOOLEAN]
  BY DEF CallFails, FeedInv, FeedTypeOK, FieldsType
<1> HIDE DEF left
<1>5. (\E k \in Keys : dataFeeds[k] = f) =>
        left.await + left.data + left.error =
          (IF feed[f].isStarted /\ ~feed[f].isStopped THEN 1 ELSE 0)
  BY <1>1 DEF FeedInv, OneLoopUnlessStopped
<1>6. /\ UNCHANGED <<dataFeeds, held>>
      /\ retryDue' \in [Sdks -> BOOLEAN] /\ served' \in [Subscribers -> BOOLEAN]
      /\ failures' \in Nat
  BY DEF CallFails, FeedInv, FeedTypeOK
<1>7. QED
  BY <1>1, <1>2, <1>3, <1>4, <1>5, <1>6, LoopStep

\* The one loop of a feed of the map comes to its end or to its top.
LEMMA DeliverKeeps ==
  ASSUME FeedInv, NEW f \in Feeds, Deliver(f) PROVE FeedInv'
<1> DEFINE pending == [loop[f] EXCEPT !.data = @ - 1]
<1>1. /\ feed[f] \in FieldsType /\ loop[f] \in LoopType /\ pending \in LoopType
      /\ pending.await + pending.data + pending.error = Loops(f) - 1
  BY DEF FeedInv, FeedTypeOK, Deliver, LoopType, Loops
<1>2. (\E k \in Keys : dataFeeds[k] = f) =>
        /\ Loops(f) = 1
        /\ feed[f].isStarted
  <2>1. Loops(f) # 0
    BY <1>1 DEF Deliver, Loops, LoopType
  <2>2. QED
    BY <2>1 DEF FeedInv, OneLoopUnlessStopped
<1>3. /\ UNCHANGED <<dataFeeds, held, isFailed, failures>>
      /\ served' \in [Subscribers -> BOOLEAN]
  BY DEF Deliver, FeedInv, FeedTypeOK
<1>4. CASE Names(feed[f]) \cap Throwers = {}
  <2>1. LoopTop(f, feed[f], pending)
    BY <1>4 DEF Deliver
  <2> HIDE DEF pending
  <2>2. PICK new \in FieldsType, left \in LoopType :
          /\ feed' = [feed EXCEPT ![f] = new]
          /\ loop' = [loop EXCEPT ![f] = left]
          /\ retryDue' \in [Sdks -> BOOLEAN]
          /\ new.subscribers = feed[f].subscribers
          /\ new.sequence = feed[f].sequence
          /\ new.isStarted = feed[f].isStarted
          /\ left.data = pending.data /\ left.error = pending.error
          /\ \/ new.isStopped /\ left.await = pending.await
             \/ ~new.isStopped /\ left.await = pending.await + 1
    BY <1>1, <2>1, TopOfLoop DEF FeedInv
  <2>3. (\E k \in Keys : dataFeeds[k] = f) =>
          left.await + left.data + left.error =
            (IF new.isStarted /\ ~new.isStopped THEN 1 ELSE 0)
    BY <1>1, <1>2, <2>2 DEF LoopType
  <2>4. QED
    BY <1>3, <2>2, <2>3, LoopStep DEF FeedInv, FeedTypeOK
<1>5. CASE Names(feed[f]) \cap Throwers # {}
  <2> DEFINE new == [feed[f] EXCEPT !.isStopped = TRUE]
  <2>1. /\ new \in FieldsType /\ new.isStopped
        /\ new.subscribers = feed[f].subscribers /\ new.sequence = feed[f].sequence
    BY <1>1 DEF FieldsType
  <2>2. /\ feed' = [feed EXCEPT ![f] = new]
        /\ loop' = [loop EXCEPT ![f] = pending]
        /\ UNCHANGED retryDue
    BY <1>5 DEF Deliver, FeedInv, FeedTypeOK
  <2> HIDE DEF new, pending
  <2>3. (\E k \in Keys : dataFeeds[k] = f) =>
          pending.await + pending.data + pending.error =
            (IF new.isStarted /\ ~new.isStopped THEN 1 ELSE 0)
    BY <1>1, <1>2, <2>1
  <2>4. QED
    BY <1>1, <1>3, <2>1, <2>2, <2>3, LoopStep DEF FeedInv, FeedTypeOK
<1>6. QED
  BY <1>4, <1>5

LEMMA CatchKeeps ==
  ASSUME FeedInv, NEW f \in Feeds, Catch(f) PROVE FeedInv'
<1> DEFINE left == [loop[f] EXCEPT !.error = @ - 1]
           new == [feed[f] EXCEPT !.isStopped = TRUE]
<1>1. /\ left \in LoopType
      /\ left.await + left.data + left.error = Loops(f) - 1
      /\ Loops(f) # 0
  BY DEF FeedInv, FeedTypeOK, Catch, LoopType, Loops
<1>2. /\ new \in FieldsType /\ new.isStopped
      /\ new.subscribers = feed[f].subscribers /\ new.sequence = feed[f].sequence
  <2>1. feed[f] \in FieldsType
    BY DEF FeedInv, FeedTypeOK
  <2>2. QED
    BY <2>1 DEF FieldsType
<1>3. loop' = [loop EXCEPT ![f] = left] /\ feed' = [feed EXCEPT ![f] = new]
  BY DEF Catch, FeedInv, FeedTypeOK, LoopType, FieldsType
<1>4. (\E k \in Keys : dataFeeds[k] = f) => Loops(f) = 1
  BY <1>1 DEF FeedInv, OneLoopUnlessStopped
<1>5. served' \in [Subscribers -> BOOLEAN]
  BY DEF Catch, FeedInv, FeedTypeOK
<1> HIDE DEF left, new
<1>6. (\E k \in Keys : dataFeeds[k] = f) =>
        left.await + left.data + left.error =
          (IF new.isStarted /\ ~new.isStopped THEN 1 ELSE 0)
  BY <1>1, <1>2, <1>4
<1>7. /\ UNCHANGED <<dataFeeds, held>>
      /\ isFailed' \in [Sdks -> BOOLEAN] /\ retryDue' \in [Sdks -> BOOLEAN]
      /\ failures' \in Nat
  BY DEF Catch, FeedInv, FeedTypeOK
<1>8. QED
  BY <1>1, <1>2, <1>3, <1>5, <1>6, <1>7, LoopStep

\* A call that selects the feed of its key and changes only that feed and what
\* one subscriber of it holds keeps the invariant when the new fields do.
LEMMA SelectStep ==
  ASSUME FeedInv, NEW s \in Subscribers, NEW f \in Feeds, NEW n \in Nat,
         NEW new \in FieldsType, NEW left \in LoopType,
         dataFeeds[KeyOf[s]] # NoFeed => f = dataFeeds[KeyOf[s]],
         dataFeeds[KeyOf[s]] = NoFeed => f \in Unused,
         dataFeeds' = [dataFeeds EXCEPT ![KeyOf[s]] = f],
         feed' = [feed EXCEPT ![f] = new],
         loop' = [loop EXCEPT ![f] = left],
         held' = [held EXCEPT ![s] = n],
         left.await + left.data + left.error =
           (IF new.isStarted /\ ~new.isStopped THEN 1 ELSE 0),
         \A r, t \in new.subscribers : r.id \in 1 .. new.sequence /\ (r.id = t.id => r = t),
         \A r \in new.subscribers : KeyOf[r.who] = KeyOf[s] /\ held'[r.who] = r.id,
         \A t \in Subscribers : KeyOf[t] = KeyOf[s] /\ held'[t] # 0 =>
                                 [id |-> held'[t], who |-> t] \in new.subscribers,
         isFailed' \in [Sdks -> BOOLEAN],
         retryDue' \in [Sdks -> BOOLEAN],
         served' \in [Subscribers -> BOOLEAN],
         failures' \in Nat
  PROVE  FeedInv'
<1> DEFINE k == KeyOf[s]
<1>1. FeedTypeOK'
  BY DEF FeedInv, FeedTypeOK
<1>2. /\ dataFeeds'[k] = f
      /\ \A j \in Keys : j # k => dataFeeds'[j] = dataFeeds[j]
      /\ feed'[f] = new /\ loop'[f] = left
      /\ \A g \in Feeds : g # f => feed'[g] = feed[g] /\ loop'[g] = loop[g]
      /\ \A t \in Subscribers : t # s => held'[t] = held[t]
      /\ k \in Keys
  BY DEF FeedInv, FeedTypeOK
<1>3. \A j \in Keys : j # k => dataFeeds[j] # f
  BY <1>2 DEF FeedInv, FeedsApart, Unused
<1>4. \A j \in Keys : j # k /\ dataFeeds[j] # NoFeed => dataFeeds[j] \in Feeds
  BY DEF FeedInv, FeedTypeOK
<1>5. FeedsApart'
  BY <1>2, <1>3 DEF FeedInv, FeedsApart
<1>6. OneLoopUnlessStopped'
  BY <1>2, <1>3, <1>4 DEF FeedInv, OneLoopUnlessStopped, Loops
<1>7. IdsGivenOnce'
  BY <1>2 DEF FeedInv, IdsGivenOnce
<1>8. OnlyHolders'
  <2> SUFFICES ASSUME NEW g \in Feeds, NEW r \in feed'[g].subscribers
               PROVE  dataFeeds'[KeyOf[r.who]] = g /\ held'[r.who] = r.id
    BY DEF OnlyHolders
  <2>1. CASE g = f
    BY <1>2, <2>1
  <2>2. CASE g # f
    <3>1. r \in feed[g].subscribers /\ r.who \in Subscribers
      BY <1>2, <2>2 DEF FeedInv, FeedTypeOK, FieldsType, SubscriptionType
    <3>2. dataFeeds[KeyOf[r.who]] = g /\ held[r.who] = r.id
      BY <3>1 DEF FeedInv, OnlyHolders
    <3>3. KeyOf[r.who] # k
      BY <2>2, <3>2
    <3>4. QED
      BY <1>2, <3>1, <3>2, <3>3
  <2>3. QED
    BY <2>1, <2>2
<1>9. SubscriberInFeed'
  <2> SUFFICES ASSUME NEW t \in Subscribers, held'[t] # 0
               PROVE  /\ dataFeeds'[KeyOf[t]] # NoFeed
                      /\ [id |-> held'[t], who |-> t] \in feed'[dataFeeds'[KeyOf[t]]].subscribers
    BY DEF SubscriberInFeed
  <2>1. CASE KeyOf[t] = k
    BY <1>2, <2>1
  <2>2. CASE KeyOf[t] # k
    <3>1. KeyOf[t] \in Keys /\ t # s
      BY <2>2
    <3>2. held'[t] = held[t] /\ dataFeeds'[KeyOf[t]] = dataFeeds[KeyOf[t]]
      BY <1>2, <2>2, <3>1
    <3>3. /\ dataFeeds[KeyOf[t]] # NoFeed
          /\ [id |-> held[t], who |-> t] \in feed[dataFeeds[KeyOf[t]]].subscribers
      BY <3>2 DEF FeedInv, SubscriberInFeed
    <3>4. QED
      BY <1>2, <1>3, <1>4, <2>2, <3>1, <3>2, <3>3
  <2>3. QED
    BY <2>1, <2>2
<1>10. QED
  BY <1>1, <1>5, <1>6, <1>7, <1>8, <1>9 DEF FeedInv

\* What the invariant says of the fields a call selects.
LEMMA SelectedFields ==
  ASSUME FeedInv, NEW s \in Subscribers, CanSelect(KeyOf[s])
  PROVE  LET f == Selected(KeyOf[s])
             old == Fields(KeyOf[s], SdkOf[s])
         IN /\ old.isStarted /\ ~old.isStopped => Loops(f) = 1
            /\ ~(old.isStarted /\ ~old.isStopped) => Loops(f) = 0
            /\ \A r, t \in old.subscribers : r.id \in 1 .. old.sequence /\ (r.id = t.id => r = t)
            /\ \A r \in old.subscribers : KeyOf[r.who] = KeyOf[s] /\ held[r.who] = r.id
            /\ \A t \in Subscribers : KeyOf[t] = KeyOf[s] /\ held[t] # 0 =>
                                      [id |-> held[t], who |-> t] \in old.subscribers
<1> DEFINE k == KeyOf[s]
           f == Selected(k)
           old == Fields(k, SdkOf[s])
<1>1. k \in Keys
  OBVIOUS
<1>2. CASE dataFeeds[k] # NoFeed
  <2>1. f \in Feeds /\ f = dataFeeds[k] /\ old = feed[f]
    BY <1>2, SelectedFeed DEF FeedInv
  <2> HIDE DEF f, old
  <2>2. \A r \in old.subscribers : KeyOf[r.who] = k /\ held[r.who] = r.id
    <3> SUFFICES ASSUME NEW r \in old.subscribers
                 PROVE  KeyOf[r.who] = k /\ held[r.who] = r.id
      OBVIOUS
    <3>1. dataFeeds[KeyOf[r.who]] = f /\ held[r.who] = r.id
      BY <2>1 DEF FeedInv, OnlyHolders
    <3>2. KeyOf[r.who] \in Keys
      BY <2>1 DEF FeedInv, FeedTypeOK, FieldsType, SubscriptionType
    <3>3. QED
      BY <1>1, <2>1, <3>1, <3>2 DEF FeedInv, FeedsApart
  <2>3. Loops(f) = (IF old.isStarted /\ ~old.isStopped THEN 1 ELSE 0)
    BY <1>1, <1>2, <2>1 DEF FeedInv, OneLoopUnlessStopped
  <2>4. \A r, t \in old.subscribers : r.id \in 1 .. old.sequence /\ (r.id = t.id => r = t)
    BY <2>1 DEF FeedInv, IdsGivenOnce
  <2>5. \A t \in Subscribers : KeyOf[t] = k /\ held[t] # 0 =>
                                [id |-> held[t], who |-> t] \in old.subscribers
    BY <2>1 DEF FeedInv, SubscriberInFeed
  <2>6. QED
    BY <2>2, <2>3, <2>4, <2>5 DEF f, old
<1>3. CASE dataFeeds[k] = NoFeed
  <2>1. f \in Unused /\ old = NewFeed(SdkOf[s])
    BY <1>3, SelectedFeed DEF FeedInv
  <2> HIDE DEF f, old
  <2>2. /\ Loops(f) = 0
        /\ old.subscribers = {} /\ ~old.isStarted
    BY <2>1 DEF Unused, NewFeed
  <2>3. \A t \in Subscribers : KeyOf[t] = k => held[t] = 0
    BY <1>3 DEF FeedInv, SubscriberInFeed
  <2>4. QED
    BY <2>2, <2>3 DEF f, old
<1>4. QED
  BY <1>2, <1>3

\* The subscriptions after a new one with an id beyond those given.
LEMMA SubscribeKeeps ==
  ASSUME FeedInv, NEW s \in Subscribers, Subscribe(s) PROVE FeedInv'
<1> DEFINE k == KeyOf[s]
           f == Selected(k)
           old == Fields(k, SdkOf[s])
           id == NextId(old)
           entry == [id |-> id, who |-> s]
           new == [old EXCEPT !.subscribers = {r \in @ : r.id # id} \cup {entry},
                              !.sequence = @ + 2, !.isStarted = TRUE]
<1>1. /\ held[s] = 0 /\ CanSelect(k)
      /\ dataFeeds' = [dataFeeds EXCEPT ![k] = f]
      /\ IF old.isStarted
         THEN feed' = [feed EXCEPT ![f] = new] /\ UNCHANGED <<loop, retryDue>>
         ELSE LoopTop(f, new, loop[f])
      /\ held' = [held EXCEPT ![s] = id]
      /\ served' = [served EXCEPT ![s] = FALSE]
      /\ UNCHANGED <<isFailed, failures>>
  BY DEF Subscribe
<1>2. /\ f \in Feeds /\ old \in FieldsType
      /\ dataFeeds[k] # NoFeed => f = dataFeeds[k]
      /\ dataFeeds[k] = NoFeed => f \in Unused
  BY <1>1, SelectedFeed DEF FeedInv
<1>3. /\ old.isStarted /\ ~old.isStopped => Loops(f) = 1
      /\ ~(old.isStarted /\ ~old.isStopped) => Loops(f) = 0
      /\ \A r, t \in old.subscribers : r.id \in 1 .. old.sequence /\ (r.id = t.id => r = t)
      /\ \A r \in old.subscribers : KeyOf[r.who] = k /\ held[r.who] = r.id
      /\ \A t \in Subscribers : KeyOf[t] = k /\ held[t] # 0 =>
                                [id |-> held[t], who |-> t] \in old.subscribers
  BY <1>1, SelectedFields
<1> HIDE DEF f, old
<1>4. /\ id \in Nat /\ id # 0 /\ id = old.sequence + 1
      /\ entry \in SubscriptionType /\ entry.id = id /\ entry.who = s
      /\ \A r \in old.subscribers : r \in SubscriptionType /\ r.id # id
  BY <1>2, <1>3 DEF NextId, FieldsType, SubscriptionType
<1> HIDE DEF entry
<1>5. /\ new.subscribers = old.subscribers \cup {entry}
      /\ new.sequence = old.sequence + 2
      /\ new.isStarted /\ new.isStopped = old.isStopped
      /\ new \in FieldsType
  <2> DEFINE with == old.subscribers \cup {entry}
             next == old.sequence + 2
  <2>1. {r \in old.subscribers : r.id # id} = old.subscribers
    BY <1>4
  <2>2. new = [old EXCEPT !.subscribers = with, !.sequence = next, !.isStarted = TRUE]
    BY <2>1
  <2>3. with \in SUBSET SubscriptionType /\ next \in Nat
    BY <1>2, <1>4 DEF FieldsType
  <2> HIDE DEF new, with, next
  <2>4. /\ new \in FieldsType
        /\ new.subscribers = with /\ new.sequence = next
        /\ new.isStarted /\ new.isStopped = old.isStopped
    BY <1>2, <2>2, <2>3 DEF FieldsType
  <2>5. QED
    BY <2>4 DEF with, next
<1> HIDE DEF new
<1>6. PICK changed \in FieldsType, left \in LoopType :
        /\ feed' = [feed EXCEPT ![f] = changed]
        /\ loop' = [loop EXCEPT ![f] = left]
        /\ retryDue' \in [Sdks -> BOOLEAN]
        /\ changed.subscribers = new.subscribers
        /\ changed.sequence = new.sequence
        /\ left.await + left.data + left.error =
             (IF changed.isStarted /\ ~changed.isStopped THEN 1 ELSE 0)
  <2>1. loop[f] \in LoopType
    BY <1>2 DEF FeedInv, FeedTypeOK
  <2>2. CASE old.isStarted
    <3>1. feed' = [feed EXCEPT ![f] = new]
      BY <1>1, <2>2
    <3>2. loop' = [loop EXCEPT ![f] = loop[f]] /\ retryDue' \in [Sdks -> BOOLEAN]
      BY <1>1, <2>2 DEF FeedInv, FeedTypeOK
    <3>3. loop[f].await + loop[f].data + loop[f].error =
            (IF new.isStarted /\ ~new.isStopped THEN 1 ELSE 0)
      BY <1>2, <1>3, <1>5, <2>2 DEF Loops, FieldsType
    <3>4. QED
      BY <1>5, <2>1, <3>1, <3>2, <3>3
  <2>3. CASE ~old.isStarted
    <3>1. /\ FeedTypeOK /\ f \in Feeds /\ new \in FieldsType /\ loop[f] \in LoopType
          /\ LoopTop(f, new, loop[f])
      BY <1>1, <1>2, <1>5, <2>1, <2>3 DEF FeedInv
    <3>2. PICK changed \in FieldsType, left \in LoopType :
            /\ feed' = [feed EXCEPT ![f] = changed]
            /\ loop' = [loop EXCEPT ![f] = left]
            /\ retryDue' \in [Sdks -> BOOLEAN]
            /\ changed.subscribers = new.subscribers
            /\ changed.sequence = new.sequence
            /\ changed.isStarted = new.isStarted
            /\ left.data = loop[f].data /\ left.error = loop[f].error
            /\ \/ changed.isStopped /\ left.await = loop[f].await
               \/ ~changed.isStopped /\ left.await = loop[f].await + 1
      BY <3>1, TopOfLoop
    <3>3. Loops(f) = 0
      BY <1>3, <2>3
    <3>4. left.await + left.data + left.error =
            (IF changed.isStarted /\ ~changed.isStopped THEN 1 ELSE 0)
      BY <1>5, <2>1, <3>2, <3>3 DEF Loops, LoopType, FieldsType
    <3>5. QED
      BY <3>2, <3>4
  <2>4. QED
    BY <2>2, <2>3
<1>7. \A r, t \in changed.subscribers :
        r.id \in 1 .. changed.sequence /\ (r.id = t.id => r = t)
  BY <1>2, <1>3, <1>4, <1>5, <1>6 DEF FieldsType, SubscriptionType
<1>8. /\ held'[s] = id
      /\ \A t \in Subscribers : t # s => held'[t] = held[t]
  BY <1>1 DEF FeedInv, FeedTypeOK
<1>9. \A r \in changed.subscribers : KeyOf[r.who] = k /\ held'[r.who] = r.id
  <2> SUFFICES ASSUME NEW r \in changed.subscribers
               PROVE  KeyOf[r.who] = k /\ held'[r.who] = r.id
    OBVIOUS
  <2>1. CASE r = entry
    BY <1>4, <1>8, <2>1
  <2>2. CASE r # entry
    <3>1. r \in old.subscribers /\ r.who \in Subscribers /\ r.id # 0
      BY <1>3, <1>4, <1>5, <1>6, <2>2, <1>1 DEF SubscriptionType
    <3>2. QED
      BY <1>1, <1>3, <1>8, <3>1
  <2>3. QED
    BY <2>1, <2>2
<1>10. \A t \in Subscribers : KeyOf[t] = k /\ held'[t] # 0 =>
                              [id |-> held'[t], who |-> t] \in changed.subscribers
  BY <1>3, <1>5, <1>6, <1>8 DEF entry
<1>11. /\ isFailed' \in [Sdks -> BOOLEAN]
       /\ served' \in [Subscribers -> BOOLEAN]
       /\ failures' \in Nat
  BY <1>1 DEF FeedInv, FeedTypeOK
<1>12. QED
  BY <1>1, <1>2, <1>4, <1>6, <1>7, <1>9, <1>10, <1>11, SelectStep

LEMMA UnsubscribeKeeps ==
  ASSUME FeedInv, NEW s \in Subscribers, Unsubscribe(s) PROVE FeedInv'
<1> DEFINE k == KeyOf[s]
           f == Selected(k)
           old == Fields(k, SdkOf[s])
           new == [old EXCEPT !.subscribers = {r \in @ : r.id # held[s]}]
<1>1. /\ CanSelect(k)
      /\ dataFeeds' = [dataFeeds EXCEPT ![k] = f]
      /\ feed' = [feed EXCEPT ![f] = new]
      /\ held' = [held EXCEPT ![s] = 0]
      /\ served' = [served EXCEPT ![s] = FALSE]
      /\ UNCHANGED <<loop, isFailed, retryDue, failures>>
  BY DEF Unsubscribe
<1>2. /\ f \in Feeds /\ old \in FieldsType
      /\ dataFeeds[k] # NoFeed => f = dataFeeds[k]
      /\ dataFeeds[k] = NoFeed => f \in Unused
  BY <1>1, SelectedFeed DEF FeedInv
<1>3. /\ old.isStarted /\ ~old.isStopped => Loops(f) = 1
      /\ ~(old.isStarted /\ ~old.isStopped) => Loops(f) = 0
      /\ \A r, t \in old.subscribers : r.id \in 1 .. old.sequence /\ (r.id = t.id => r = t)
      /\ \A r \in old.subscribers : KeyOf[r.who] = k /\ held[r.who] = r.id
      /\ \A t \in Subscribers : KeyOf[t] = k /\ held[t] # 0 =>
                                [id |-> held[t], who |-> t] \in old.subscribers
  BY <1>1, SelectedFields
<1> HIDE DEF f, old
<1>4. /\ new \in FieldsType
      /\ new.subscribers = {r \in old.subscribers : r.id # held[s]}
      /\ new.sequence = old.sequence
      /\ new.isStarted = old.isStarted /\ new.isStopped = old.isStopped
  BY <1>2 DEF FieldsType
<1> HIDE DEF new
<1>5. PICK left \in LoopType :
        /\ loop' = [loop EXCEPT ![f] = left]
        /\ left.await + left.data + left.error =
             (IF new.isStarted /\ ~new.isStopped THEN 1 ELSE 0)
  <2>1. loop[f] \in LoopType /\ loop' = [loop EXCEPT ![f] = loop[f]]
    BY <1>1, <1>2 DEF FeedInv, FeedTypeOK
  <2>2. loop[f].await + loop[f].data + loop[f].error =
          (IF new.isStarted /\ ~new.isStopped THEN 1 ELSE 0)
    BY <1>3, <1>4 DEF Loops
  <2>3. QED
    BY <2>1, <2>2
<1>6. \A r, t \in new.subscribers :
        r.id \in 1 .. new.sequence /\ (r.id = t.id => r = t)
  BY <1>3, <1>4
<1>7. /\ held'[s] = 0
      /\ \A t \in Subscribers : t # s => held'[t] = held[t]
  BY <1>1 DEF FeedInv, FeedTypeOK
<1>8. \A r \in new.subscribers : KeyOf[r.who] = k /\ held'[r.who] = r.id
  <2> SUFFICES ASSUME NEW r \in new.subscribers
               PROVE  KeyOf[r.who] = k /\ held'[r.who] = r.id
    OBVIOUS
  <2>1. r \in old.subscribers /\ r.who \in Subscribers /\ r.id # held[s]
    BY <1>2, <1>4 DEF FieldsType, SubscriptionType
  <2>2. QED
    BY <1>3, <1>7, <2>1
\* Two who hold one id would be in one entry.
<1>9. \A t \in Subscribers : KeyOf[t] = k /\ held'[t] # 0 =>
                             [id |-> held'[t], who |-> t] \in new.subscribers
  <2> SUFFICES ASSUME NEW t \in Subscribers, KeyOf[t] = k, held'[t] # 0
               PROVE  [id |-> held'[t], who |-> t] \in new.subscribers
    OBVIOUS
  <2>1. t # s /\ held'[t] = held[t]
    BY <1>7
  <2>2. [id |-> held[t], who |-> t] \in old.subscribers
    BY <1>3, <2>1
  <2>3. held[t] # held[s]
    <3> SUFFICES ASSUME held[t] = held[s] PROVE FALSE
      OBVIOUS
    <3>1. [id |-> held[s], who |-> s] \in old.subscribers
      BY <1>3, <2>1
    <3>2. [id |-> held[t], who |-> t] = [id |-> held[s], who |-> s]
      BY <1>3, <2>2, <3>1
    <3>3. QED
      BY <2>1, <3>2
  <2>4. QED
    BY <1>4, <2>1, <2>2, <2>3
<1>10. /\ isFailed' \in [Sdks -> BOOLEAN]
       /\ retryDue' \in [Sdks -> BOOLEAN]
       /\ served' \in [Subscribers -> BOOLEAN]
       /\ failures' \in Nat
  BY <1>1 DEF FeedInv, FeedTypeOK
<1>11. PICK none \in Nat : held' = [held EXCEPT ![s] = none]
  BY <1>1
<1>12. dataFeeds' = [dataFeeds EXCEPT ![k] = f] /\ feed' = [feed EXCEPT ![f] = new]
  BY <1>1
<1>13. QED
  BY <1>2, <1>4, <1>5, <1>6, <1>8, <1>9, <1>10, <1>11, <1>12, SelectStep

\* Monitoring drops feeds nobody subscribes to, so nobody loses an id, and
\* restarts feeds that are stopped, so they have no loop yet.
LEMMA MonitoringKeeps ==
  ASSUME FeedInv, Monitoring PROVE FeedInv'
<1> DEFINE again == {dataFeeds[k] : k \in Retried}
           gone == {dataFeeds[k] : k \in Dropped}
           sdks == {feed[f].sdk : f \in again}
<1>1. /\ dataFeeds' = [k \in Keys |-> IF k \in Dropped THEN NoFeed ELSE dataFeeds[k]]
      /\ feed' = [f \in Feeds |->
                    CASE f \in again -> [feed[f] EXCEPT !.isStarted = TRUE, !.isStopped = FALSE]
                      [] f \in gone -> NewFeed(feed[f].sdk)
                      [] OTHER -> feed[f]]
      /\ loop' = [f \in Feeds |->
                    IF f \in again THEN [loop[f] EXCEPT !.await = @ + 1] ELSE loop[f]]
      /\ isFailed' = [x \in Sdks |-> isFailed[x] /\ x \notin sdks]
      /\ retryDue' = [x \in Sdks |-> retryDue[x] /\ x \notin sdks]
      /\ served' = [s \in Subscribers |->
                      served[s] /\ \A f \in again : s \notin Names(feed[f])]
      /\ UNCHANGED <<held, failures>>
  BY DEF Monitoring
<1>2. \A f \in again : /\ f \in Feeds /\ feed[f].subscribers # {}
                      /\ feed[f].isStopped /\ (\E k \in Keys : dataFeeds[k] = f)
  BY DEF FeedInv, FeedTypeOK, Retried
<1>3. \A f \in gone : f \in Feeds /\ feed[f].subscribers = {}
  BY DEF FeedInv, FeedTypeOK, Dropped
<1>4. \A k \in Keys : dataFeeds'[k] # NoFeed =>
                     /\ dataFeeds'[k] = dataFeeds[k] /\ dataFeeds[k] \in Feeds
                     /\ dataFeeds[k] \notin gone
  BY <1>1, <1>3 DEF FeedInv, FeedTypeOK, Dropped
<1>5. \A k \in Keys : dataFeeds[k] # NoFeed /\ feed[dataFeeds[k]].subscribers # {} =>
                     dataFeeds'[k] = dataFeeds[k]
  BY <1>1 DEF Dropped
<1> HIDE DEF again, gone, sdks
<1>6. \A f \in Feeds : feed[f] \in FieldsType /\ loop[f] \in LoopType
  BY DEF FeedInv, FeedTypeOK
<1>7. \A f \in again : feed'[f] = [feed[f] EXCEPT !.isStarted = TRUE, !.isStopped = FALSE]
  <2>1. \A f \in again : f \notin gone
    BY <1>2, <1>3
  <2>2. QED
    BY <1>1, <1>2, <2>1
<1>8. \A f \in again : /\ feed'[f] \in FieldsType
                      /\ feed'[f].subscribers = feed[f].subscribers
                      /\ feed'[f].sequence = feed[f].sequence
                      /\ feed'[f].isStarted = TRUE /\ feed'[f].isStopped = FALSE
  <2> SUFFICES ASSUME NEW f \in again
               PROVE  /\ feed'[f] \in FieldsType
                      /\ feed'[f].subscribers = feed[f].subscribers
                      /\ feed'[f].sequence = feed[f].sequence
                      /\ feed'[f].isStarted = TRUE /\ feed'[f].isStopped = FALSE
    OBVIOUS
  <2>1. feed'[f] = [feed[f] EXCEPT !.isStarted = TRUE, !.isStopped = FALSE]
    BY <1>7
  <2>2. feed[f] \in FieldsType
    BY <1>2, <1>6
  <2>3. QED
    BY <2>1, <2>2 DEF FieldsType
<1>9. \A f \in gone : f \notin again =>
                      feed'[f] \in FieldsType /\ feed'[f].subscribers = {}
  <2>1. \A f \in gone : f \notin again => feed'[f] = NewFeed(feed[f].sdk)
    BY <1>1, <1>3
  <2>2. QED
    <3> SUFFICES ASSUME NEW f \in gone, f \notin again
                 PROVE  feed'[f] \in FieldsType /\ feed'[f].subscribers = {}
      OBVIOUS
    <3>1. feed'[f] = NewFeed(feed[f].sdk)
      BY <2>1
    <3>2. feed[f].sdk \in Sdks
      BY <1>3, <1>6 DEF FieldsType
    <3>3. QED
      BY <3>1, <3>2 DEF FieldsType, NewFeed
<1>10. \A f \in Feeds : f \notin again /\ f \notin gone => feed'[f] = feed[f]
  BY <1>1
<1>11. \A f \in Feeds : /\ loop'[f] \in LoopType
                       /\ Loops(f)' = IF f \in again THEN Loops(f) + 1 ELSE Loops(f)
  <2> SUFFICES ASSUME NEW f \in Feeds
               PROVE  /\ loop'[f] \in LoopType
                      /\ Loops(f)' = IF f \in again THEN Loops(f) + 1 ELSE Loops(f)
    OBVIOUS
  <2>1. CASE f \in again
    <3>1. loop'[f] = [loop[f] EXCEPT !.await = loop[f].await + 1]
      BY <1>1, <2>1
    <3>2. QED
      BY <1>6, <2>1, <3>1 DEF Loops, LoopType
  <2>2. CASE f \notin again
    BY <1>1, <1>6, <2>2 DEF Loops
  <2>3. QED
    BY <2>1, <2>2
<1>12. FeedTypeOK'
  <2>1. dataFeeds' \in [Keys -> Feeds \cup {NoFeed}]
    BY <1>1 DEF FeedInv, FeedTypeOK
  <2>2. feed' \in [Feeds -> FieldsType]
    <3> DEFINE after(f) ==
                 CASE f \in again -> [feed[f] EXCEPT !.isStarted = TRUE, !.isStopped = FALSE]
                   [] f \in gone -> NewFeed(feed[f].sdk)
                   [] OTHER -> feed[f]
    <3>1. feed' = [f \in Feeds |-> after(f)]
      BY <1>1
    <3> HIDE DEF after
    <3>2. ASSUME NEW f \in Feeds PROVE feed'[f] \in FieldsType
      <4>1. CASE f \in again
        BY <1>8, <4>1
      <4>2. CASE f \in gone /\ f \notin again
        BY <1>9, <4>2
      <4>3. CASE f \notin gone /\ f \notin again
        BY <1>6, <1>10, <4>3
      <4>4. QED
        BY <4>1, <4>2, <4>3
    <3>3. \A f \in Feeds : after(f) \in FieldsType
      BY <3>1, <3>2
    <3>4. QED
      BY <3>1, <3>3
  <2>3. loop' \in [Feeds -> LoopType]
    <3>1. \A f \in Feeds : loop'[f] \in LoopType
      BY <1>11
    <3>2. loop' = [f \in Feeds |-> loop'[f]]
      BY <1>1
    <3>3. QED
      BY <3>1, <3>2
  <2>4. /\ isFailed' \in [Sdks -> BOOLEAN] /\ retryDue' \in [Sdks -> BOOLEAN]
        /\ served' \in [Subscribers -> BOOLEAN]
    BY <1>1
  <2>5. QED
    BY <1>1, <2>1, <2>2, <2>3, <2>4 DEF FeedInv, FeedTypeOK
<1>13. FeedsApart'
  BY <1>4 DEF FeedInv, FeedsApart
<1>14. OneLoopUnlessStopped'
  <2> SUFFICES ASSUME NEW k \in Keys, NEW f \in Feeds, f = dataFeeds[k], f = dataFeeds'[k],
                      f \notin gone
               PROVE  Loops(f)' =
                        (IF feed'[f].isStarted /\ ~feed'[f].isStopped THEN 1 ELSE 0)
    BY <1>4 DEF OneLoopUnlessStopped, Loops
  <2>1. Loops(f) = (IF feed[f].isStarted /\ ~feed[f].isStopped THEN 1 ELSE 0)
    BY DEF FeedInv, OneLoopUnlessStopped
  <2>2. CASE f \in again
    <3>1. Loops(f) = 0
      BY <1>2, <2>1, <2>2
    <3>2. Loops(f)' = 1
      BY <1>11, <2>2, <3>1
    <3>3. QED
      BY <1>8, <2>2, <3>2
  <2>3. CASE f \notin again
    <3>1. Loops(f)' = Loops(f)
      BY <1>11, <2>3
    <3>2. feed'[f] = feed[f]
      BY <1>10, <2>3
    <3>3. QED
      BY <2>1, <3>1, <3>2
  <2>4. QED
    BY <2>2, <2>3
<1>15. \A f \in Feeds : \/ feed'[f].subscribers = {}
                       \/ /\ feed'[f].subscribers = feed[f].subscribers
                          /\ feed'[f].sequence = feed[f].sequence
  BY <1>8, <1>9, <1>10
<1>16. IdsGivenOnce'
  BY <1>15 DEF FeedInv, IdsGivenOnce
<1>17. OnlyHolders'
  <2> SUFFICES ASSUME NEW f \in Feeds, NEW r \in feed'[f].subscribers
               PROVE  dataFeeds'[KeyOf[r.who]] = f /\ held'[r.who] = r.id
    BY DEF OnlyHolders
  <2>1. r \in feed[f].subscribers
    BY <1>15
  <2>2. r.who \in Subscribers
    BY <1>6, <2>1 DEF FieldsType, SubscriptionType
  <2>3. dataFeeds[KeyOf[r.who]] = f /\ held[r.who] = r.id /\ KeyOf[r.who] \in Keys
    BY <2>1, <2>2 DEF FeedInv, OnlyHolders
  <2>4. QED
    BY <1>1, <1>5, <2>1, <2>3
<1>18. SubscriberInFeed'
  <2> SUFFICES ASSUME NEW s \in Subscribers, held'[s] # 0
               PROVE  /\ dataFeeds'[KeyOf[s]] # NoFeed
                      /\ [id |-> held'[s], who |-> s] \in feed'[dataFeeds'[KeyOf[s]]].subscribers
    BY DEF SubscriberInFeed
  <2> DEFINE f == dataFeeds[KeyOf[s]]
  <2>1. /\ KeyOf[s] \in Keys /\ held'[s] = held[s]
        /\ f # NoFeed /\ [id |-> held[s], who |-> s] \in feed[f].subscribers
    BY <1>1 DEF FeedInv, SubscriberInFeed
  <2>2. dataFeeds'[KeyOf[s]] = f /\ f \in Feeds /\ f \notin gone
    BY <1>3, <1>4, <1>5, <2>1
  <2>3. feed'[f].subscribers = feed[f].subscribers
    BY <1>8, <1>10, <2>2
  <2>4. QED
    BY <2>1, <2>2, <2>3
<1>19. QED
  BY <1>12, <1>13, <1>14, <1>16, <1>17, <1>18 DEF FeedInv

LEMMA BackoffEndsKeeps ==
  ASSUME FeedInv, NEW x \in Sdks, BackoffEnds(x) PROVE FeedInv'
BY DEF BackoffEnds, FeedInv, FeedTypeOK, FeedsApart, OneLoopUnlessStopped, Loops,
       IdsGivenOnce, OnlyHolders, SubscriberInFeed

-----------------------------------------------------------------------------
(* Theorems.                                                               *)

\* The invariant holds through every interleaving of subscriptions, settled
\* and failed calls, deliveries, errors, retries and dropped feeds.
THEOREM FeedInvCorrect == Spec => []FeedInv
<1>1. Init => FeedInv
  BY DEF Init, FeedInv, FeedTypeOK, FeedsApart, OneLoopUnlessStopped, IdsGivenOnce,
         OnlyHolders, SubscriberInFeed, NewFeed, NoLoop, FieldsType, LoopType
<1>2. FeedInv /\ [Next]_vars => FeedInv'
  <2> SUFFICES ASSUME FeedInv, [Next]_vars PROVE FeedInv'
    OBVIOUS
  <2>1. CASE \E s \in Subscribers : Subscribe(s) \/ Unsubscribe(s)
    BY <2>1, SubscribeKeeps, UnsubscribeKeeps
  <2>2. CASE \E f \in Feeds : Settle(f)
    BY <2>2, CallSucceedsKeeps, CallFailsKeeps DEF Settle
  <2>3. CASE \E f \in Feeds : Resume(f)
    BY <2>3, DeliverKeeps, CatchKeeps DEF Resume
  <2>4. CASE Monitoring
    BY <2>4, MonitoringKeeps
  <2>5. CASE \E x \in Sdks : BackoffEnds(x)
    BY <2>5, BackoffEndsKeeps
  <2>6. CASE UNCHANGED vars
    BY <2>6 DEF vars, FeedInv, FeedTypeOK, FeedsApart, OneLoopUnlessStopped, Loops,
                IdsGivenOnce, OnlyHolders, SubscriberInFeed
  <2>7. QED
    BY <2>1, <2>2, <2>3, <2>4, <2>5, <2>6 DEF Next
<1>3. QED
  BY <1>1, <1>2, PTL DEF Spec

\* A feed of the map never has two loops, however its loop settles, fails, is
\* retried by monitoring or meets a new first subscriber (run and retry).
THEOREM OneLoopCorrect == Spec => []OneLoopUnlessStopped
BY FeedInvCorrect, PTL DEF FeedInv

\* Who holds an id is in the feed of its key under that id.
THEOREM SubscriberInFeedCorrect == Spec => []SubscriberInFeed
BY FeedInvCorrect, PTL DEF FeedInv

\* Nobody else is in any feed: a loop whose feed monitoring has dropped, or
\* whose subscribers have left, reaches no callback.
THEOREM OnlyHoldersServed == Spec => []OnlyHolders
BY FeedInvCorrect, PTL DEF FeedInv
=============================================================================
