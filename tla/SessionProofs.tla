---------------------------- MODULE SessionProofs ----------------------------
(***************************************************************************)
(* Proofs about the tabs' sockets (Session) and the requests that the      *)
(* client makes over them (Requests), for any tabs, users, pairs and calls *)
(* and for every bound.                                                    *)
(*                                                                         *)
(* The session has two inductive invariants: what the gateway knows of the *)
(* sockets and the feeds of the subscriptions, and on top of it where an   *)
(* event may be on its way.                                                *)
(***************************************************************************)
EXTENDS Session, Requests, FiniteSetTheorems, SequenceTheorems, TLAPS

-----------------------------------------------------------------------------
(* Sequences.                                                              *)

\* A sequence without its first element.
LEMMA Rest ==
  ASSUME NEW S, NEW s \in Seq(S), s # <<>>
  PROVE  /\ Head(s) \in S /\ Head(s) = s[1] /\ Tail(s) \in Seq(S)
         /\ Len(s) \in Nat /\ Len(s) > 0 /\ Len(Tail(s)) = Len(s) - 1
         /\ \A i \in 1 .. Len(s) - 1 : Tail(s)[i] = s[i + 1]
<1>1. Len(s) \in Nat /\ Len(s) > 0
  BY EmptySeq
<1>2. QED
  BY <1>1, HeadTailProperties

\* A sequence with one more element.
LEMMA OneMore ==
  ASSUME NEW S, NEW s \in Seq(S), NEW x \in S
  PROVE  /\ Append(s, x) \in Seq(S) /\ Len(s) \in Nat /\ Len(Append(s, x)) = Len(s) + 1
         /\ \A i \in 1 .. Len(s) : Append(s, x)[i] = s[i]
         /\ Append(s, x)[Len(s) + 1] = x
BY AppendProperties

-----------------------------------------------------------------------------
(* The records of the sockets and of their subscriptions.                  *)

Messages ==
  [n : Nat, what : {"list", "login"}, pair : {None}]
    \cup [n : Nat, what : {"subscribe", "unsubscribe"}, pair : Pairs]
AuthCalls == [socket : Sockets, pc : {"site", "params", "standalone"}, message : Messages \cup {None}]

SessionTypeOK ==
  /\ bound \in Bounds /\ isStandalone \in BOOLEAN
  /\ token \in [Tabs -> Accounts \cup {None}]
  /\ socket \in [Tabs -> Sockets \cup {None}]
  /\ socketAuth \in [Tabs -> BOOLEAN]
  /\ queue \in [Tabs -> Seq(Messages)] /\ sendBuffer \in [Tabs -> Seq(Messages)]
  /\ emitted \in Nat
  /\ owner \in Seq(Tabs) /\ Len(owner) <= MaxSockets
  /\ handshake \in Seq(Accounts \cup {None}) /\ Len(handshake) = Len(owner)
  /\ toServer \in [Sockets -> Seq(Messages)]
  /\ toClient \in [Sockets -> Seq({"authenticated", "unauthorized"})]
  /\ user \in [Sockets -> AllUsers \cup {None}]
  /\ authCalls \subseteq AuthCalls
  /\ connections \in [AllUsers -> Records \cup {None}]
  /\ tickers \subseteq [pair : Pairs, id : Nat]
  /\ sequence \in [Pairs -> Nat]
  /\ received \in [Sockets -> Seq(Nat)]
  /\ heardOf \subseteq Made

ListedIn(records, u) == IF u = None THEN {} ELSE IF records[u] = None THEN {} ELSE records[u].socketClients
SubscribedIn(records, u) ==
  IF records[u] = None THEN {} ELSE {AtFeed(x) : x \in records[u].exchangeTickerSubscribes}

\* The feeds hold what these records list and what was lost, each for one user.
Held(records, held, lost) ==
  /\ \A x \in held : (\E u \in AllUsers : x \in SubscribedIn(records, u)) <=> x \notin lost
  /\ \A u \in AllUsers : SubscribedIn(records, u) \subseteq held
  /\ \A u, v \in AllUsers : u # v => SubscribedIn(records, u) \cap SubscribedIn(records, v) = {}
  /\ lost \subseteq held

Numbered == \A x \in tickers : x.id <= sequence[x.pair]

\* What the gateway has heard of the sockets.
SocketsKnown ==
  /\ \A t \in Tabs : socket[t] # None => socket[t] \in Made /\ owner[socket[t]] = t
  /\ \A s \in heardOf : ~Current(s) /\ toServer[s] = <<>>
  /\ \A s \in Sockets \ Made : user[s] = None /\ received[s] = <<>> /\ toServer[s] = <<>>
  /\ \A c \in authCalls :
       /\ c.socket \in Made
       /\ c.socket \in heardOf => c.socket \in uncleaned
       /\ c.pc = "standalone" => isStandalone
       /\ c.pc = "params" => handshake[c.socket] \in Accounts

\* Every socket with a user is listed until the gateway hears of its end.
UsersListed ==
  ~isStandalone => \A s \in Made \ heardOf : user[s] \in Accounts => s \in Listed(user[s])

RecordsInv ==
  /\ SessionTypeOK
  /\ Held(connections, tickers, orphans)
  /\ Numbered
  /\ SocketsKnown
  /\ UsersListed
  /\ ClosedIsUnlisted

-----------------------------------------------------------------------------
(* The events on their way.                                                *)

Numbers(q) == {q[i].n : i \in 1 .. Len(q)}
\* Of events, of which those in L are logins: x may come before y.
Before(L, x, y) == x < y \/ (x \in L /\ x # y)
Ordered(L, q) == \A i, j \in 1 .. Len(q) : i < j => Before(L, q[i].n, q[j].n)
Got(s) == {received[s][i] : i \in 1 .. Len(received[s])}

\* Where an event may be, and of what tab or socket.
PlaceKinds == {"queue", "buffer", "wire", "got"}
Of(place) == IF place \in {"queue", "buffer"} THEN Tabs ELSE Sockets
EventsAt(place, x) ==
  CASE place = "queue" -> Numbers(queue[x])
    [] place = "buffer" -> Numbers(sendBuffer[x])
    [] place = "wire" -> Numbers(toServer[x])
    [] place = "got" -> Got(x)

\* An event is in one place at most, and was emitted.
InOnePlace ==
  /\ \A k \in PlaceKinds : \A x \in Of(k) : EventsAt(k, x) \subseteq 1 .. emitted
  /\ \A k, l \in PlaceKinds : \A x \in Of(k), y \in Of(l) :
       k # l \/ x # y => EventsAt(k, x) \cap EventsAt(l, y) = {}

EventsInOrder ==
  /\ \A t \in Tabs : Ordered(logins, queue[t]) /\ Ordered(logins, sendBuffer[t])
  /\ \A s \in Sockets :
       /\ Ordered(logins, toServer[s])
       /\ \A i, j \in 1 .. Len(received[s]) : i < j => Before(logins, received[s][i], received[s][j])
       /\ \A x \in Got(s), y \in Numbers(toServer[s]) : Before(logins, x, y)

\* Nothing waits where the tab does not put it any more, and before its first
\* authentication a tab sends nothing but logins.
NothingWaits ==
  /\ \A t \in Tabs : /\ socketAuth[t] => queue[t] = <<>>
                     /\ ~socketAuth[t] => Numbers(sendBuffer[t]) \subseteq logins
                     /\ socket[t] # None => sendBuffer[t] = <<>>
  /\ \A s \in Made : ~socketAuth[owner[s]] => Numbers(toServer[s]) \cup Got(s) \subseteq logins

EventsKept == InOnePlace /\ EventsInOrder /\ NothingWaits
EventsInv == RecordsInv /\ EventsKept

-----------------------------------------------------------------------------
(* What a message does to the records.                                     *)

FeedsOf(X) == {AtFeed(x) : x \in X}
WithList(records, u, X) == [records EXCEPT ![u].exchangeTickerSubscribes = X]

\* The list of a record is replaced.
LEMMA ListReplaced ==
  ASSUME NEW records \in [AllUsers -> Records \cup {None}], NEW u \in AllUsers, records[u] # None,
         NEW X \in SUBSET Subscriptions, NEW new,
         new = WithList(records, u, X)
  PROVE  /\ new \in [AllUsers -> Records \cup {None}]
         /\ SubscribedIn(new, u) = FeedsOf(X)
         /\ \A v \in AllUsers : v # u => SubscribedIn(new, v) = SubscribedIn(records, v)
         /\ \A v \in AllUsers \cup {None} : ListedIn(new, v) = ListedIn(records, v)
<1>1. None \notin Records /\ None \notin AllUsers
  BY SessionAssumption
<1>2. records[u] \in Records
  OBVIOUS
<1> DEFINE r == [records[u] EXCEPT !.exchangeTickerSubscribes = X]
<1>3. /\ r \in Records /\ r.exchangeTickerSubscribes = X
      /\ r.socketClients = records[u].socketClients
  BY <1>2 DEF Records
<1>4. new = [records EXCEPT ![u] = r]
  BY DEF WithList
<1> HIDE DEF r
<1>5. new \in [AllUsers -> Records \cup {None}] /\ new[u] = r /\ \A v \in AllUsers : v # u => new[v] = records[v]
  BY <1>3, <1>4
<1>6. r # None
  BY <1>1, <1>3
<1>7. SubscribedIn(new, u) = FeedsOf(X)
  BY <1>3, <1>5, <1>6 DEF SubscribedIn, FeedsOf
<1>8. \A v \in AllUsers : v # u => SubscribedIn(new, v) = SubscribedIn(records, v)
  BY <1>5 DEF SubscribedIn
<1>9. \A v \in AllUsers \cup {None} : ListedIn(new, v) = ListedIn(records, v)
  BY <1>1, <1>3, <1>5, <1>6 DEF ListedIn
<1>10. QED
  BY <1>5, <1>7, <1>8, <1>9

\* It gets one more.
LEMMA ListGrows ==
  ASSUME NEW records \in [AllUsers -> Records \cup {None}], NEW u \in AllUsers, records[u] # None,
         NEW sub \in Subscriptions, NEW X, X = records[u].exchangeTickerSubscribes \cup {sub}, NEW new,
         new = WithList(records, u, X)
  PROVE  /\ new \in [AllUsers -> Records \cup {None}]
         /\ SubscribedIn(new, u) = SubscribedIn(records, u) \cup {AtFeed(sub)}
         /\ \A v \in AllUsers : v # u => SubscribedIn(new, v) = SubscribedIn(records, v)
         /\ \A v \in AllUsers \cup {None} : ListedIn(new, v) = ListedIn(records, v)
<1>1. records[u] \in Records
  OBVIOUS
<1>2. X \in SUBSET Subscriptions
  BY <1>1 DEF Records
<1>3. FeedsOf(X) = SubscribedIn(records, u) \cup {AtFeed(sub)}
  BY DEF SubscribedIn, FeedsOf
<1>5. /\ new \in [AllUsers -> Records \cup {None}]
      /\ SubscribedIn(new, u) = FeedsOf(X)
      /\ \A v \in AllUsers : v # u => SubscribedIn(new, v) = SubscribedIn(records, v)
      /\ \A v \in AllUsers \cup {None} : ListedIn(new, v) = ListedIn(records, v)
  BY <1>2, ListReplaced
<1>6. QED
  BY <1>3, <1>5

RecordsStay(records, new) ==
  /\ new \in [AllUsers -> Records \cup {None}]
  /\ \A v \in AllUsers \cup {None} : ListedIn(new, v) = ListedIn(records, v)

\* A subscription gets an id that its feed has not given.
LEMMA SubscribeKeeps ==
  ASSUME NEW u \in AllUsers \cup {None}, NEW p \in Pairs, NEW listener \in Tabs,
         NEW records \in [AllUsers -> Records \cup {None}], NEW lost,
         NEW sub, sub = [pair |-> p, id |-> sequence[p] + 1, listener |-> listener],
         NEW none \in BOOLEAN, none <=> (u = None \/ records[u] = None),
         tickers \subseteq [pair : Pairs, id : Nat], sequence \in [Pairs -> Nat],
         Held(records, tickers, lost), Numbered,
         sequence' = [sequence EXCEPT ![p] = @ + 2], tickers' = tickers \cup {AtFeed(sub)},
         connections' = IF none THEN records
                        ELSE [records EXCEPT ![u].exchangeTickerSubscribes = @ \cup {sub}],
         orphans' = IF none THEN lost \cup {AtFeed(sub)} ELSE lost
  PROVE  /\ tickers' \subseteq [pair : Pairs, id : Nat] /\ sequence' \in [Pairs -> Nat]
         /\ Held(connections', tickers', orphans') /\ Numbered'
         /\ RecordsStay(records, connections')
<1> DEFINE f == AtFeed(sub)
<1>1. f \in [pair : Pairs, id : Nat] /\ f.pair = p /\ f.id = sequence[p] + 1 /\ sub \in Subscriptions
  BY DEF AtFeed, Subscriptions
<1>2. f \notin tickers
  <2>1. sequence[p] \in Nat
    OBVIOUS
  <2>2. QED
    BY <1>1, <2>1 DEF Numbered
<1>3. tickers' = tickers \cup {f}
  OBVIOUS
<1>4. orphans' = IF none THEN lost \cup {f} ELSE lost
  OBVIOUS
<1> HIDE DEF f
<1>5. tickers' \subseteq [pair : Pairs, id : Nat] /\ sequence' \in [Pairs -> Nat]
  BY <1>1, <1>3
<1>6. Numbered'
  <2> SUFFICES ASSUME NEW x \in tickers' PROVE x.id <= sequence'[x.pair]
    BY DEF Numbered
  <2>1. x \in tickers => x.id <= sequence[x.pair] /\ x.pair \in Pairs /\ x.id \in Nat
    BY DEF Numbered
  <2>2. \A q \in Pairs : sequence[q] \in Nat /\ sequence'[q] = IF q = p THEN sequence[q] + 2 ELSE sequence[q]
    OBVIOUS
  <2>3. QED
    BY <1>1, <1>3, <2>1, <2>2
<1>7. CASE none
  BY <1>2, <1>3, <1>4, <1>5, <1>6, <1>7 DEF Held, RecordsStay
<1>8. CASE ~none
  <2>1. u \in AllUsers /\ records[u] # None
    BY <1>8
  <2>2. PICK X : X = records[u].exchangeTickerSubscribes \cup {sub}
    OBVIOUS
  <2>3. PICK new : new = connections' /\ new = WithList(records, u, X)
    BY <1>8, <2>2 DEF WithList
  <2>4. /\ new \in [AllUsers -> Records \cup {None}]
        /\ SubscribedIn(new, u) = SubscribedIn(records, u) \cup {AtFeed(sub)}
        /\ \A v \in AllUsers : v # u => SubscribedIn(new, v) = SubscribedIn(records, v)
        /\ \A v \in AllUsers \cup {None} : ListedIn(new, v) = ListedIn(records, v)
    <3>1. sub \in Subscriptions
      BY <1>1
    <3>2. records \in [AllUsers -> Records \cup {None}]
      OBVIOUS
    <3>3. QED
      BY ONLY <2>1, <2>2, <2>3, <3>1, <3>2, ListGrows
  <2>6. /\ SubscribedIn(connections', u) = SubscribedIn(records, u) \cup {f}
        /\ \A v \in AllUsers : v # u => SubscribedIn(connections', v) = SubscribedIn(records, v)
        /\ RecordsStay(records, connections')
    BY <2>3, <2>4 DEF RecordsStay, f
  <2>7. orphans' = lost
    BY <1>4, <1>8
  <2>8. Held(connections', tickers', orphans')
    <3>1. /\ \A x \in tickers : (\E v \in AllUsers : x \in SubscribedIn(records, v)) <=> x \notin lost
          /\ \A v \in AllUsers : SubscribedIn(records, v) \subseteq tickers
          /\ \A v, w \in AllUsers : v # w => SubscribedIn(records, v) \cap SubscribedIn(records, w) = {}
          /\ lost \subseteq tickers
      BY DEF Held
    <3>2. PICK now : now = connections'
      OBVIOUS
    <3>3. \A v \in AllUsers : \A x : x \in SubscribedIn(now, v) <=> x \in SubscribedIn(records, v) \/ (v = u /\ x = f)
      BY <2>6, <3>2
    <3>4. Held(now, tickers \cup {f}, lost)
      BY <1>2, <2>1, <3>1, <3>3 DEF Held
    <3>5. QED
      BY <1>3, <2>7, <3>2, <3>4
  <2>9. QED
    BY <1>5, <1>6, <2>6, <2>8
<1>9. QED
  BY <1>7, <1>8

\* The one that is taken back goes with those of the same id.
LEMMA UnsubscribeHolds ==
  ASSUME NEW u \in AllUsers \cup {None}, NEW records \in [AllUsers -> Records \cup {None}], NEW lost,
         NEW mine, mine # {} => u # None /\ records[u] # None /\ mine \subseteq records[u].exchangeTickerSubscribes,
         tickers \subseteq [pair : Pairs, id : Nat], Held(records, tickers, lost), Numbered,
         Unsubscribe(u, records, lost, mine), sequence' = sequence
  PROVE  /\ tickers' \subseteq tickers /\ Held(connections', tickers', orphans') /\ Numbered'
         /\ RecordsStay(records, connections')
<1>1. /\ u \in AllUsers /\ records[u] # None /\ mine # {}
      /\ mine \subseteq records[u].exchangeTickerSubscribes
  BY DEF Unsubscribe
<1>2. records[u] \in Records
  BY <1>1
<1>3. PICK first \in mine :
        /\ tickers' = tickers \ {AtFeed(first)}
        /\ connections' = [records EXCEPT ![u].exchangeTickerSubscribes =
                             @ \ {x \in records[u].exchangeTickerSubscribes : x.id = first.id}]
        /\ orphans' = lost \cup ({AtFeed(x) : x \in {y \in records[u].exchangeTickerSubscribes : y.id = first.id}}
                                  \ {AtFeed(first)})
  BY DEF Unsubscribe
<1> DEFINE list == records[u].exchangeTickerSubscribes
           alike == {x \in list : x.id = first.id}
           A == {AtFeed(x) : x \in alike}
           f == AtFeed(first)
           X == list \ alike
<1>4. /\ tickers' = tickers \ {f} /\ orphans' = lost \cup (A \ {f})
      /\ connections' = [records EXCEPT ![u].exchangeTickerSubscribes = X]
  BY <1>3
<1>5. f \in A /\ A \subseteq SubscribedIn(records, u)
  BY <1>1 DEF SubscribedIn
<1>6. FeedsOf(X) = SubscribedIn(records, u) \ A
  <2>1. \A x \in list, y \in alike : AtFeed(x) = AtFeed(y) => x \in alike
    <3> SUFFICES ASSUME NEW x \in list, NEW y \in alike, AtFeed(x) = AtFeed(y) PROVE x.id = y.id
      OBVIOUS
    <3>1. AtFeed(x).id = x.id /\ AtFeed(y).id = y.id
      BY DEF AtFeed
    <3>2. QED
      BY <3>1
  <2>2. SubscribedIn(records, u) = {AtFeed(x) : x \in list}
    BY <1>1 DEF SubscribedIn
  <2>5. FeedsOf(X) = {AtFeed(x) : x \in X}
    BY DEF FeedsOf
  <2>3. X \cup alike = list /\ X \cap alike = {} /\ alike \subseteq list
    OBVIOUS
  <2> HIDE DEF X, list, alike
  <2>4. QED
    BY <2>1, <2>2, <2>3, <2>5
<1>7. X \in SUBSET Subscriptions
  BY <1>2 DEF Records
<1> HIDE DEF X, A, f, list, alike
<1>8. PICK new : new = connections'
  OBVIOUS
<1>9. /\ SubscribedIn(new, u) = SubscribedIn(records, u) \ A
      /\ \A v \in AllUsers : v # u => SubscribedIn(new, v) = SubscribedIn(records, v)
      /\ new \in [AllUsers -> Records \cup {None}]
      /\ \A v \in AllUsers \cup {None} : ListedIn(new, v) = ListedIn(records, v)
  <2>1. new = WithList(records, u, X)
    BY <1>4, <1>8 DEF WithList
  <2>2. QED
    BY <1>1, <1>6, <1>7, <2>1, ListReplaced
<1>10. Held(new, tickers \ {f}, lost \cup (A \ {f}))
  <2>1. /\ \A x \in tickers : (\E v \in AllUsers : x \in SubscribedIn(records, v)) <=> x \notin lost
        /\ \A v \in AllUsers : SubscribedIn(records, v) \subseteq tickers
        /\ \A v, w \in AllUsers : v # w => SubscribedIn(records, v) \cap SubscribedIn(records, w) = {}
        /\ lost \subseteq tickers
    BY DEF Held
  <2>2. \A v \in AllUsers : \A x : x \in SubscribedIn(new, v) <=> x \in SubscribedIn(records, v) /\ x \notin A
    BY <1>1, <1>5, <1>9, <2>1
  <2>3. QED
    BY <1>1, <1>5, <2>1, <2>2 DEF Held
<1>11. QED
  BY <1>4, <1>8, <1>9, <1>10 DEF Numbered, RecordsStay

LEMMA MadeSockets ==
  ASSUME SessionTypeOK
  PROVE  /\ Made = 1 .. Len(owner) /\ Made \subseteq Sockets /\ Len(owner) \in Nat
         /\ MaxSockets \in Nat /\ None \notin Sockets
         /\ \A s \in Made : owner[s] \in Tabs /\ handshake[s] \in Accounts \cup {None}
<1>1. MaxSockets \in Nat /\ None \notin Nat
  BY SessionAssumption
<1>2. /\ owner \in Seq(Tabs) /\ Len(owner) \in Nat /\ DOMAIN owner = 1 .. Len(owner)
      /\ \A s \in 1 .. Len(owner) : owner[s] \in Tabs
  BY LenProperties, ElementOfSeq DEF SessionTypeOK
<1>3. \A s \in 1 .. Len(handshake) : handshake[s] \in Accounts \cup {None}
  BY ElementOfSeq DEF SessionTypeOK
<1>4. QED
  BY <1>1, <1>2, <1>3 DEF Made, Sockets, SessionTypeOK

LEMMA WorkKeeps ==
  ASSUME SessionTypeOK, NEW s \in Made, NEW u \in AllUsers \cup {None},
         NEW records \in [AllUsers -> Records \cup {None}], NEW lost, NEW m \in Messages \cup {None},
         Held(records, tickers, lost), Numbered, Work(s, u, records, lost, m)
  PROVE  /\ tickers' \subseteq [pair : Pairs, id : Nat] /\ sequence' \in [Pairs -> Nat]
         /\ Held(connections', tickers', orphans') /\ Numbered'
         /\ RecordsStay(records, connections')
<1>1. tickers \subseteq [pair : Pairs, id : Nat] /\ sequence \in [Pairs -> Nat]
  BY DEF SessionTypeOK
<1>2. PICK listener \in Tabs : listener = owner[s]
  BY MadeSockets
<1>3. PICK none \in BOOLEAN : none <=> ((IF u = None THEN None ELSE records[u]) = None)
  OBVIOUS
<1>4. none <=> (u = None \/ records[u] = None)
  BY <1>3
<1> DEFINE what == IF m = None THEN "list" ELSE m.what
           mine == IF none THEN {}
                   ELSE {x \in records[u].exchangeTickerSubscribes :
                           x.pair = m.pair /\ x.listener = listener}
           sub == [pair |-> m.pair, id |-> sequence[m.pair] + 1, listener |-> listener]
<1>5. \/ connections' = records /\ UNCHANGED <<tickers, sequence>> /\ orphans' = lost
      \/ /\ what = "subscribe"
         /\ sequence' = [sequence EXCEPT ![m.pair] = @ + 2]
         /\ tickers' = tickers \cup {AtFeed(sub)}
         /\ connections' = IF none THEN records
                           ELSE [records EXCEPT ![u].exchangeTickerSubscribes = @ \cup {sub}]
         /\ orphans' = IF none THEN lost \cup {AtFeed(sub)} ELSE lost
      \/ Unsubscribe(u, records, lost, mine) /\ sequence' = sequence
  BY <1>2, <1>3, <1>4 DEF Work
<1>6. what = "subscribe" => m.pair \in Pairs
  BY DEF Messages
<1>7. mine # {} => u # None /\ records[u] # None /\ mine \subseteq records[u].exchangeTickerSubscribes
  BY <1>4
<1> HIDE DEF what, mine, sub
<1>8. CASE connections' = records /\ UNCHANGED <<tickers, sequence>> /\ orphans' = lost
  BY <1>1, <1>8 DEF Numbered, RecordsStay
<1>9. CASE /\ what = "subscribe"
           /\ sequence' = [sequence EXCEPT ![m.pair] = @ + 2]
           /\ tickers' = tickers \cup {AtFeed(sub)}
           /\ connections' = IF none THEN records
                             ELSE [records EXCEPT ![u].exchangeTickerSubscribes = @ \cup {sub}]
           /\ orphans' = IF none THEN lost \cup {AtFeed(sub)} ELSE lost
  <2>1. PICK p \in Pairs : p = m.pair
    BY <1>6, <1>9
  <2>2. sub = [pair |-> p, id |-> sequence[p] + 1, listener |-> listener]
    BY <2>1 DEF sub
  <2>3. sequence' = [sequence EXCEPT ![p] = @ + 2]
    BY <1>9, <2>1
  <2>4. QED
    BY <1>1, <1>4, <1>9, <2>2, <2>3, SubscribeKeeps
<1>10. CASE Unsubscribe(u, records, lost, mine) /\ sequence' = sequence
  BY <1>1, <1>7, <1>10, UnsubscribeHolds
<1>11. QED
  BY <1>5, <1>8, <1>9, <1>10

-----------------------------------------------------------------------------
(* The steps of the tabs and the connections.                              *)

\* What a tab does changes its sockets' messages, and may end its connection.
LEMMA TabStep ==
  ASSUME RecordsInv, SessionTypeOK', UNCHANGED <<isStandalone, owner, handshake, gatewayVars>>,
         \A t \in Tabs : socket'[t] = socket[t] \/ socket'[t] = None,
         \A s \in Sockets : toServer'[s] # <<>> =>
           toServer[s] # <<>> \/ \E t \in Tabs : socket[t] = s
  PROVE  RecordsInv'
<1>1. /\ UNCHANGED <<isStandalone, owner, handshake, heardOf, user, authCalls, connections, tickers,
                     sequence, received, uncleaned, orphans>>
      /\ Made' = Made
  BY DEF gatewayVars, Made
<1>2. Made \subseteq Sockets /\ None \notin Sockets /\ heardOf \subseteq Made
  BY MadeSockets DEF RecordsInv, SessionTypeOK
<1>3. SocketsKnown'
  <2>1. \A t \in Tabs : socket'[t] # None => socket'[t] \in Made /\ owner[socket'[t]] = t
    BY DEF RecordsInv, SocketsKnown
  <2>2. ASSUME NEW s \in heardOf PROVE socket'[owner[s]] # s /\ toServer'[s] = <<>>
    <3>1. owner[s] \in Tabs /\ s \in Sockets
      BY <1>2, MadeSockets DEF RecordsInv
    <3>2. socket[owner[s]] # s /\ toServer[s] = <<>>
      BY DEF RecordsInv, SocketsKnown, Current
    <3>3. \A t \in Tabs : socket[t] # s
      BY <1>2, <3>1, <3>2 DEF RecordsInv, SocketsKnown
    <3>4. QED
      BY <1>2, <3>1, <3>2, <3>3
  <2>3. ASSUME NEW s \in Sockets \ Made PROVE user[s] = None /\ received[s] = <<>> /\ toServer'[s] = <<>>
    <3>1. user[s] = None /\ received[s] = <<>> /\ toServer[s] = <<>>
      BY DEF RecordsInv, SocketsKnown
    <3>2. \A t \in Tabs : socket[t] # s
      BY <1>2, <2>3 DEF RecordsInv, SocketsKnown
    <3>3. QED
      BY <3>1, <3>2
  <2>4. QED
    BY <1>1, <2>1, <2>2, <2>3 DEF RecordsInv, SocketsKnown, Current
<1>4. UsersListed' /\ ClosedIsUnlisted' /\ Numbered' /\ Held(connections, tickers, orphans)'
  BY <1>1 DEF RecordsInv, UsersListed, ClosedIsUnlisted, Listed, Numbered, Held, SubscribedIn
<1>5. QED
  BY <1>3, <1>4 DEF RecordsInv

LEMMA TabKeeps ==
  ASSUME RecordsInv, NEW t \in Tabs,
         \/ WsConnect(t) \/ ForceReconnect(t) \/ ClientReceives(t) \/ ConnectionLost(t)
         \/ \E what \in {"list", "login"} : EmitSocketEvent(t, what, None)
         \/ \E what \in {"subscribe", "unsubscribe"}, p \in Pairs : EmitSocketEvent(t, what, p)
  PROVE  RecordsInv'
<1>1. /\ SessionTypeOK /\ None \notin Sockets
      /\ socket[t] \in Sockets \cup {None} /\ (socket[t] # None => socket[t] \in Sockets)
      /\ queue[t] \in Seq(Messages) /\ sendBuffer[t] \in Seq(Messages)
  BY MadeSockets DEF RecordsInv, SessionTypeOK
<1>2. CASE WsConnect(t)
  <2>1. SessionTypeOK'
    BY <1>1, <1>2 DEF WsConnect, SessionTypeOK, gatewayVars, wireVars, Made
  <2>2. QED
    BY <1>2, <2>1, TabStep DEF WsConnect, wireVars
<1>3. CASE ForceReconnect(t)
  <2>1. /\ token' \in [Tabs -> Accounts \cup {None}] /\ socket' \in [Tabs -> Sockets \cup {None}]
        /\ sendBuffer' \in [Tabs -> Seq(Messages)]
    <3>1. <<>> \in Seq(Messages)
      OBVIOUS
    <3>2. QED
      BY <1>1, <1>3, <3>1 DEF ForceReconnect, SessionTypeOK
  <2>2. toClient' \in [Sockets -> Seq({"authenticated", "unauthorized"})]
    <3>1. <<>> \in Seq({"authenticated", "unauthorized"})
      OBVIOUS
    <3>2. QED
      BY <1>1, <1>3, <3>1 DEF ForceReconnect, SessionTypeOK
  <2>3. SessionTypeOK'
    BY <1>1, <1>3, <2>1, <2>2 DEF ForceReconnect, SessionTypeOK, gatewayVars, Made
  <2>4. \A x \in Tabs : socket'[x] = socket[x] \/ socket'[x] = None
    BY <1>1, <1>3 DEF ForceReconnect, SessionTypeOK
  <2>5. QED
    BY <1>3, <2>3, <2>4, TabStep DEF ForceReconnect
<1>4. CASE ClientReceives(t)
  <2>1. socket[t] \in Sockets /\ toServer[socket[t]] \in Seq(Messages)
    BY <1>1, <1>4 DEF ClientReceives, SessionTypeOK
  <2>2. toServer[socket[t]] \o queue[t] \in Seq(Messages) /\ <<>> \in Seq(Messages)
    BY <1>1, <2>1, ConcatProperties
  <2>3. /\ toServer' = toServer \/ toServer' = [toServer EXCEPT ![socket[t]] = @ \o queue[t]]
        /\ toServer' \in [Sockets -> Seq(Messages)]
        /\ queue' \in [Tabs -> Seq(Messages)] /\ socketAuth' \in [Tabs -> BOOLEAN]
    <3> DEFINE q == toServer[socket[t]] \o queue[t]
    <3>1. /\ toServer \in [Sockets -> Seq(Messages)] /\ queue \in [Tabs -> Seq(Messages)]
          /\ socketAuth \in [Tabs -> BOOLEAN]
      BY <1>1 DEF SessionTypeOK
    <3>2. \/ UNCHANGED <<toServer, queue, socketAuth>>
          \/ /\ toServer' = [toServer EXCEPT ![socket[t]] = q]
             /\ queue' = [queue EXCEPT ![t] = <<>>] /\ socketAuth' = [socketAuth EXCEPT ![t] = TRUE]
      BY <1>4 DEF ClientReceives
    <3>3. q \in Seq(Messages)
      BY <2>2
    <3>4. toServer' = toServer \/ toServer' = [toServer EXCEPT ![socket[t]] = @ \o queue[t]]
      BY <3>2
    <3> HIDE DEF q
    <3>5. QED
      BY <2>1, <2>2, <3>1, <3>2, <3>3, <3>4
  <2>4. toClient' \in [Sockets -> Seq({"authenticated", "unauthorized"})]
    <3>1. toClient[socket[t]] \in Seq({"authenticated", "unauthorized"}) /\ toClient[socket[t]] # <<>>
      <4>1. toClient \in [Sockets -> Seq({"authenticated", "unauthorized"})]
        BY <1>1 DEF SessionTypeOK
      <4>2. toClient[socket[t]] # <<>>
        BY <1>4 DEF ClientReceives
      <4>3. QED
        BY <2>1, <4>1, <4>2
    <3>2. Tail(toClient[socket[t]]) \in Seq({"authenticated", "unauthorized"})
      BY <3>1, Rest
    <3>3. QED
      BY <1>1, <1>4, <2>1, <3>2 DEF ClientReceives, SessionTypeOK
  <2>5. SessionTypeOK'
    BY <1>1, <1>4, <2>3, <2>4 DEF ClientReceives, SessionTypeOK, gatewayVars, Made
  <2>6. \A s \in Sockets : toServer'[s] # <<>> => toServer[s] # <<>> \/ socket[t] = s
    BY <1>1, <2>1, <2>3 DEF SessionTypeOK
  <2>7. QED
    BY <1>4, <2>5, <2>6, TabStep DEF ClientReceives
<1>5. CASE ConnectionLost(t)
  <2>1. socket[t] \in Sockets
    BY <1>1, <1>5 DEF ConnectionLost
  <2>2. <<>> \in Seq(Messages) /\ <<>> \in Seq({"authenticated", "unauthorized"})
    OBVIOUS
  <2>3. /\ toServer' \in [Sockets -> Seq(Messages)] /\ socket' \in [Tabs -> Sockets \cup {None}]
        /\ toClient' \in [Sockets -> Seq({"authenticated", "unauthorized"})]
    BY <1>1, <1>5, <2>1, <2>2 DEF ConnectionLost, SessionTypeOK
  <2>4. SessionTypeOK'
    BY <1>1, <1>5, <2>3 DEF ConnectionLost, SessionTypeOK, gatewayVars, Made
  <2>5. \A x \in Tabs : socket'[x] = socket[x] \/ socket'[x] = None
    BY <1>1, <1>5 DEF ConnectionLost, SessionTypeOK
  <2>6. \A s \in Sockets : toServer'[s] # <<>> => toServer[s] # <<>>
    BY <1>1, <1>5, <2>1 DEF ConnectionLost, SessionTypeOK
  <2>7. QED
    BY <1>5, <2>4, <2>5, <2>6, TabStep DEF ConnectionLost
<1>6. CASE \/ \E what \in {"list", "login"} : EmitSocketEvent(t, what, None)
           \/ \E what \in {"subscribe", "unsubscribe"}, p \in Pairs : EmitSocketEvent(t, what, p)
  <2>1. PICK what, p : EmitSocketEvent(t, what, p) /\ [n |-> emitted + 1, what |-> what, pair |-> p] \in Messages
    <3>1. emitted + 1 \in Nat
      BY <1>1 DEF SessionTypeOK
    <3>2. QED
      BY <1>6, <3>1 DEF Messages
  <2>2. PICK m \in Messages : m = Event(emitted + 1, what, p)
    BY <2>1 DEF Event
  <2>3. emitted' \in Nat /\ (socket[t] # None => socket[t] \in Sockets)
    BY <1>1, <2>1 DEF EmitSocketEvent, SessionTypeOK
  <2>4. \/ queue' = [queue EXCEPT ![t] = Append(@, m)] /\ UNCHANGED <<sendBuffer, toServer>>
        \/ /\ socket[t] # None
           /\ toServer' = [toServer EXCEPT ![socket[t]] = Append(@, m)]
           /\ UNCHANGED <<queue, sendBuffer>>
        \/ sendBuffer' = [sendBuffer EXCEPT ![t] = Append(@, m)] /\ UNCHANGED <<queue, toServer>>
        \/ UNCHANGED <<queue, sendBuffer, toServer>>
    BY <2>1, <2>2 DEF EmitSocketEvent
  <2>5. /\ queue' \in [Tabs -> Seq(Messages)] /\ sendBuffer' \in [Tabs -> Seq(Messages)]
        /\ toServer' \in [Sockets -> Seq(Messages)]
        /\ \A s \in Sockets : toServer'[s] # <<>> => toServer[s] # <<>> \/ socket[t] = s
    <3>1. /\ queue \in [Tabs -> Seq(Messages)] /\ sendBuffer \in [Tabs -> Seq(Messages)]
          /\ toServer \in [Sockets -> Seq(Messages)]
      BY <1>1 DEF SessionTypeOK
    <3>2. CASE queue' = [queue EXCEPT ![t] = Append(@, m)] /\ UNCHANGED <<sendBuffer, toServer>>
      <4>1. Append(queue[t], m) \in Seq(Messages)
        BY <1>1, OneMore
      <4>2. QED
        BY <3>1, <3>2, <4>1
    <3>3. CASE sendBuffer' = [sendBuffer EXCEPT ![t] = Append(@, m)] /\ UNCHANGED <<queue, toServer>>
      <4>1. Append(sendBuffer[t], m) \in Seq(Messages)
        BY <1>1, OneMore
      <4>2. QED
        BY <3>1, <3>3, <4>1
    <3>4. CASE /\ socket[t] # None
               /\ toServer' = [toServer EXCEPT ![socket[t]] = Append(@, m)]
               /\ UNCHANGED <<queue, sendBuffer>>
      <4>1. toServer[socket[t]] \in Seq(Messages) /\ socket[t] \in Sockets
        BY <2>3, <3>1, <3>4
      <4>2. Append(toServer[socket[t]], m) \in Seq(Messages)
        BY <4>1, OneMore
      <4>3. QED
        BY <3>1, <3>4, <4>1, <4>2
    <3>5. CASE UNCHANGED <<queue, sendBuffer, toServer>>
      BY <3>1, <3>5
    <3>6. QED
      BY <2>4, <3>2, <3>3, <3>4, <3>5
  <2>6. SessionTypeOK'
    BY <1>1, <2>1, <2>3, <2>5 DEF EmitSocketEvent, SessionTypeOK, gatewayVars, Made
  <2>7. QED
    BY <2>1, <2>5, <2>6, TabStep DEF EmitSocketEvent
<1>7. QED
  BY <1>2, <1>3, <1>4, <1>5, <1>6

\* A tab connects.
LEMMA ConnectsKeeps ==
  ASSUME RecordsInv, NEW t \in Tabs, Connects(t)
  PROVE  RecordsInv'
<1>1. PICK s : s = Len(owner) + 1
  OBVIOUS
<1>2. /\ SessionTypeOK /\ Made = 1 .. Len(owner) /\ Made \subseteq Sockets /\ Len(owner) \in Nat
      /\ None \notin Sockets /\ \A x \in Made : owner[x] \in Tabs
  BY MadeSockets DEF RecordsInv
<1>3. s \in Sockets /\ s \notin Made /\ Len(owner) + 1 <= MaxSockets
  <2>1. bound.sockets \in 0 .. MaxSockets /\ s <= bound.sockets
    BY <1>1, <1>2, SessionAssumption DEF Connects, SessionTypeOK
  <2>2. MaxSockets \in Nat
    BY SessionAssumption
  <2>3. QED
    BY <1>1, <1>2, <2>1, <2>2 DEF Sockets
<1>4. /\ owner' = Append(owner, t) /\ handshake' = Append(handshake, token[t])
      /\ socket' = [socket EXCEPT ![t] = s] /\ toServer' = [toServer EXCEPT ![s] = sendBuffer[t]]
      /\ sendBuffer' = [sendBuffer EXCEPT ![t] = <<>>]
      /\ authCalls' = authCalls \cup {[socket |-> s, pc |-> "site", message |-> None]}
      /\ UNCHANGED <<bound, isStandalone, token, opened, socketAuth, queue, emitted, forced, toClient,
                     heardOf, user, connections, tickers, sequence, received, uncleaned, orphans>>
      /\ socket[t] = None
  BY <1>1 DEF Connects
<1>5. /\ owner' \in Seq(Tabs) /\ Len(owner') = Len(owner) + 1 /\ owner'[s] = t
      /\ \A x \in Made : owner'[x] = owner[x]
  BY <1>1, <1>2, <1>4, OneMore DEF SessionTypeOK
<1>6. /\ handshake' \in Seq(Accounts \cup {None}) /\ Len(handshake') = Len(owner) + 1
      /\ \A x \in Made : handshake'[x] = handshake[x]
  <2>1. handshake \in Seq(Accounts \cup {None}) /\ token[t] \in Accounts \cup {None} /\ Len(handshake) = Len(owner)
    BY <1>2 DEF SessionTypeOK
  <2>2. QED
    BY <1>2, <1>4, <2>1, OneMore
<1>7. Made' = Made \cup {s} /\ heardOf' \subseteq Made'
  <2>1. DOMAIN owner' = 1 .. Len(owner')
    BY <1>5, LenProperties
  <2>2. QED
    BY <1>1, <1>2, <1>4, <1>5, <2>1 DEF Made, SessionTypeOK
<1>8. SessionTypeOK'
  <2>1. socket' \in [Tabs -> Sockets \cup {None}] /\ toServer' \in [Sockets -> Seq(Messages)]
        /\ sendBuffer' \in [Tabs -> Seq(Messages)]
    BY <1>2, <1>3, <1>4 DEF SessionTypeOK
  <2>2. authCalls' \subseteq AuthCalls
    BY <1>2, <1>3, <1>4 DEF SessionTypeOK, AuthCalls
  <2>3. QED
    BY <1>2, <1>3, <1>4, <1>5, <1>6, <1>7, <2>1, <2>2 DEF SessionTypeOK
<1>9. SocketsKnown'
  <2>1. \A x \in Tabs : socket'[x] # None => socket'[x] \in Made' /\ owner'[socket'[x]] = x
    BY <1>2, <1>3, <1>4, <1>5, <1>7 DEF RecordsInv, SocketsKnown, SessionTypeOK
  <2>2. ASSUME NEW x \in heardOf PROVE socket'[owner'[x]] # x /\ toServer'[x] = <<>>
    <3>1. x \in Made /\ x # s /\ owner'[x] = owner[x] /\ owner[x] \in Tabs
      BY <1>2, <1>3, <1>5 DEF SessionTypeOK
    <3>2. socket[owner[x]] # x /\ toServer[x] = <<>>
      BY DEF RecordsInv, SocketsKnown, Current
    <3>3. QED
      BY <1>2, <1>3, <1>4, <3>1, <3>2 DEF SessionTypeOK
  <2>3. \A x \in Sockets \ Made' : user'[x] = None /\ received'[x] = <<>> /\ toServer'[x] = <<>>
    BY <1>2, <1>3, <1>4, <1>7 DEF RecordsInv, SocketsKnown, SessionTypeOK
  <2>4. ASSUME NEW x \in authCalls'
        PROVE  /\ x.socket \in Made'
               /\ x.socket \in heardOf => x.socket \in uncleaned
               /\ x.pc = "standalone" => isStandalone
               /\ x.pc = "params" => handshake'[x.socket] \in Accounts
    <3>1. CASE x \in authCalls
      BY <1>6, <1>7, <3>1 DEF RecordsInv, SocketsKnown
    <3>2. CASE x = [socket |-> s, pc |-> "site", message |-> None]
      <4>1. x.socket = s /\ x.pc = "site"
        BY <3>2
      <4>2. s \notin heardOf
        BY <1>2, <1>3 DEF SessionTypeOK
      <4>3. QED
        BY <1>7, <4>1, <4>2
    <3>3. QED
      BY <1>4, <3>1, <3>2
  <2>5. QED
    BY <1>4, <2>1, <2>2, <2>3, <2>4 DEF SocketsKnown, Current
<1>10. UsersListed'
  <2>1. user[s] = None /\ None \notin Accounts
    BY <1>3, SessionAssumption DEF RecordsInv, SocketsKnown, AllUsers
  <2>2. QED
    BY <1>4, <1>7, <2>1 DEF RecordsInv, UsersListed, Listed
<1>11. ClosedIsUnlisted' /\ Numbered' /\ Held(connections, tickers, orphans)'
  BY <1>4 DEF RecordsInv, ClosedIsUnlisted, Listed, Numbered, Held, SubscribedIn
<1>12. QED
  BY <1>8, <1>9, <1>10, <1>11 DEF RecordsInv

-----------------------------------------------------------------------------
(* The steps of the gateway.                                               *)

LEMMA ListedSockets ==
  ASSUME SessionTypeOK, NEW u \in AllUsers \cup {None}
  PROVE  /\ Listed(u) \subseteq Sockets /\ IsFiniteSet(Listed(u)) /\ Cardinality(Listed(u)) \in Nat
         /\ Listed(u) = ListedIn(connections, u)
<1>1. Listed(u) = ListedIn(connections, u)
  BY DEF Listed, ListedIn
<1>2. Listed(u) \subseteq Sockets
  <2>1. CASE u = None \/ connections[u] = None
    BY <2>1 DEF Listed
  <2>2. CASE u # None /\ connections[u] # None
    <3>1. connections[u] \in Records
      BY <2>2 DEF SessionTypeOK
    <3>2. QED
      BY <2>2, <3>1 DEF Listed, Records
  <2>3. QED
    BY <2>1, <2>2
<1>3. IsFiniteSet(Sockets)
  BY SessionAssumption, FS_Interval DEF Sockets
<1>4. QED
  BY <1>1, <1>2, <1>3, FS_Subset, FS_CardinalityType

\* The gateway hears that a socket is gone.
LEMMA DisconnectKeeps ==
  ASSUME RecordsInv, NEW s \in Sockets, HandleDisconnect(s)
  PROVE  RecordsInv'
<1>1. PICK u \in AllUsers \cup {None} : u = user[s]
  BY DEF RecordsInv, SessionTypeOK
<1>2. /\ SessionTypeOK /\ s \in Made /\ ~Current(s) /\ s \notin heardOf /\ toServer[s] = <<>>
      /\ heardOf' = heardOf \cup {s}
      /\ uncleaned' = IF NotAlone(s) THEN uncleaned \cup {s} ELSE uncleaned
      /\ UNCHANGED <<bound, isStandalone, token, socket, opened, socketAuth, queue, sendBuffer, emitted,
                     forced, owner, handshake, toServer, toClient, user, authCalls, sequence, received, orphans>>
  BY DEF HandleDisconnect, RecordsInv, tabVars, wireVars
<1>3. \/ /\ Cardinality(Listed(u)) = 1
         /\ tickers' = tickers \ Subscribed(u)
         /\ connections' = [connections EXCEPT ![u] = None]
      \/ Cardinality(Listed(u)) # 1 /\ UNCHANGED <<tickers, connections>>
  BY <1>1 DEF HandleDisconnect
<1>4. /\ None \notin AllUsers /\ IsFiniteSet(Listed(u)) /\ Cardinality(Listed(u)) \in Nat
      /\ Cardinality(Listed(u)) = 1 => \A x, y \in Listed(u) : x = y
      /\ \A x : x \in Listed(u) => Cardinality(Listed(u)) > 0
  <2>1. IsFiniteSet(Listed(u)) /\ Cardinality(Listed(u)) \in Nat
    BY <1>2, ListedSockets
  <2>2. Cardinality(Listed(u)) = 1 => \E y : Listed(u) = {y}
    BY <2>1, FS_Singleton
  <2>3. Cardinality(Listed(u)) = 0 => Listed(u) = {}
    BY <2>1, FS_EmptySet
  <2>4. QED
    BY <2>1, <2>2, <2>3, SessionAssumption
<1>5. CASE Cardinality(Listed(u)) = 1
  <2>1. u \in AllUsers /\ connections[u] # None
    <3>1. Listed(u) # {}
      BY <1>5, FS_EmptySet
    <3>2. QED
      BY <1>4, <3>1 DEF Listed
  <2>2. /\ connections' \in [AllUsers -> Records \cup {None}] /\ connections'[u] = None
        /\ \A v \in AllUsers : v # u => connections'[v] = connections[v]
        /\ tickers' = tickers \ SubscribedIn(connections, u)
    BY <1>2, <1>3, <1>5, <2>1 DEF SessionTypeOK, Subscribed, SubscribedIn
  <2>3. Held(connections, tickers, orphans)'
    <3>1. PICK new : new = connections'
      OBVIOUS
    <3>2. /\ SubscribedIn(new, u) = {}
          /\ \A v \in AllUsers : v # u => SubscribedIn(new, v) = SubscribedIn(connections, v)
      BY <2>1, <2>2, <3>1 DEF SubscribedIn
    <3>3. /\ \A x \in tickers : (\E v \in AllUsers : x \in SubscribedIn(connections, v)) <=> x \notin orphans
          /\ \A v \in AllUsers : SubscribedIn(connections, v) \subseteq tickers
          /\ \A v, w \in AllUsers : v # w => SubscribedIn(connections, v) \cap SubscribedIn(connections, w) = {}
          /\ orphans \subseteq tickers
      BY DEF RecordsInv, Held
    <3>4. Held(new, tickers \ SubscribedIn(connections, u), orphans)
      BY <2>1, <3>2, <3>3 DEF Held
    <3>5. QED
      BY <1>2, <2>2, <3>1, <3>4
  <2>4. Listed(u)' = {} /\ \A v \in AllUsers : v # u => Listed(v)' = Listed(v)
    BY <2>2 DEF Listed
  <2>5. UsersListed'
    <3> SUFFICES ASSUME ~isStandalone, NEW x \in Made \ heardOf', user[x] \in Accounts
                 PROVE  x \in Listed(user[x])'
      BY <1>2 DEF UsersListed, Made
    <3>1. x \in Listed(user[x])
      BY <1>2 DEF RecordsInv, UsersListed
    <3>2. user[x] # u
      <4>1. SUFFICES ASSUME user[x] = u PROVE FALSE
        OBVIOUS
      <4>2. s \in Listed(u)
        BY <1>1, <1>2, <4>1 DEF RecordsInv, UsersListed
      <4>3. x \in Listed(u)
        BY <3>1, <4>1
      <4>4. x = s
        BY <1>4, <1>5, <4>2, <4>3
      <4>5. QED
        BY <1>2, <4>4
    <3>3. PICK w : w = user[x]
      OBVIOUS
    <3>4. x \in Listed(w)'
      BY <2>4, <3>1, <3>2, <3>3 DEF AllUsers
    <3>5. QED
      BY <1>2, <3>3, <3>4 DEF Listed
  <2>6. ClosedIsUnlisted'
    <3> SUFFICES ASSUME NEW v \in AllUsers, NEW x \in heardOf', x \in Listed(v)' PROVE x \in uncleaned'
      BY DEF ClosedIsUnlisted
    <3>1. v # u /\ x \in Listed(v)
      BY <2>4
    <3>2. CASE x \in heardOf
      BY <1>2, <3>1, <3>2 DEF RecordsInv, ClosedIsUnlisted
    <3>3. CASE x = s
      BY <1>1, <1>2, <3>1, <3>3 DEF NotAlone
    <3>4. QED
      BY <1>2, <3>2, <3>3
  <2>7. Numbered' /\ tickers' \subseteq tickers
    BY <1>2, <2>2 DEF RecordsInv, Numbered
  <2>8. SessionTypeOK'
    BY <1>2, <2>2, <2>7 DEF SessionTypeOK, Made
  <2>9. SocketsKnown'
    BY <1>2 DEF RecordsInv, SocketsKnown, Current, Made, NotAlone
  <2>10. QED
    BY <2>3, <2>5, <2>6, <2>7, <2>8, <2>9 DEF RecordsInv
<1>6. CASE Cardinality(Listed(u)) # 1
  <2>1. UNCHANGED <<tickers, connections>>
    BY <1>3, <1>6
  <2>2. SessionTypeOK'
    BY <1>2, <2>1 DEF SessionTypeOK, Made
  <2>3. SocketsKnown'
    BY <1>2 DEF RecordsInv, SocketsKnown, Current, Made, NotAlone
  <2>4. UsersListed' /\ Numbered' /\ Held(connections, tickers, orphans)'
    BY <1>2, <2>1 DEF RecordsInv, UsersListed, Listed, Numbered, Held, SubscribedIn, Made
  <2>5. ClosedIsUnlisted'
    <3> SUFFICES ASSUME NEW v \in AllUsers, NEW x \in heardOf', x \in Listed(v) PROVE x \in uncleaned'
      BY <2>1 DEF ClosedIsUnlisted, Listed
    <3>1. CASE x \in heardOf
      BY <1>2, <3>1 DEF RecordsInv, ClosedIsUnlisted
    <3>2. CASE x = s /\ v # u
      BY <1>1, <1>2, <3>2 DEF NotAlone
    <3>3. CASE x = s /\ v = u
      <4>1. Cardinality(Listed(u)) > 1
        BY <1>4, <1>6, <3>3
      <4>2. QED
        BY <1>1, <1>2, <3>3, <4>1 DEF NotAlone
    <3>4. QED
      BY <1>2, <3>1, <3>2, <3>3
  <2>6. QED
    BY <2>2, <2>3, <2>4, <2>5 DEF RecordsInv
<1>7. QED
  BY <1>5, <1>6

\* A message arrives.
LEMMA MessageKeeps ==
  ASSUME RecordsInv, NEW s \in Sockets, HandleMessage(s)
  PROVE  RecordsInv'
<1>1. PICK m : m = Head(toServer[s])
  OBVIOUS
<1>2. /\ SessionTypeOK /\ s \in Made /\ toServer[s] # <<>> /\ toServer[s] \in Seq(Messages)
      /\ toServer' = [toServer EXCEPT ![s] = Tail(@)]
      /\ received' = [received EXCEPT ![s] = Append(@, m.n)]
      /\ UNCHANGED <<bound, isStandalone, token, socket, opened, socketAuth, queue, sendBuffer, emitted,
                     forced, owner, handshake, toClient, heardOf, user, uncleaned>>
  BY <1>1 DEF HandleMessage, RecordsInv, SessionTypeOK, tabVars
<1>3. m \in Messages /\ Tail(toServer[s]) \in Seq(Messages) /\ m.n \in Nat
  <2>1. m \in Messages /\ Tail(toServer[s]) \in Seq(Messages)
    BY <1>1, <1>2, Rest
  <2>2. QED
    BY <2>1 DEF Messages
<1>4. s \notin heardOf
  BY <1>2 DEF RecordsInv, SocketsKnown
<1>5. /\ authCalls' = authCalls \/ authCalls' = authCalls \cup {[socket |-> s, pc |-> "site", message |-> m]}
      /\ tickers' \subseteq [pair : Pairs, id : Nat] /\ sequence' \in [Pairs -> Nat]
      /\ Held(connections', tickers', orphans') /\ Numbered'
      /\ RecordsStay(connections, connections')
  <2>1. CASE user[s] = None
    <3>1. /\ authCalls' = authCalls \cup {[socket |-> s, pc |-> "site", message |-> m]}
          /\ UNCHANGED <<connections, tickers, sequence, orphans>>
      BY <1>1, <2>1 DEF HandleMessage
    <3>2. QED
      BY <1>2, <3>1 DEF RecordsInv, SessionTypeOK, Numbered, RecordsStay
  <2>2. CASE user[s] # None
    <3>1. Work(s, user[s], connections, orphans, m) /\ authCalls' = authCalls
      BY <1>1, <2>2 DEF HandleMessage
    <3>2. user[s] \in AllUsers \cup {None} /\ connections \in [AllUsers -> Records \cup {None}]
      BY <1>2 DEF SessionTypeOK
    <3>3. PICK u \in AllUsers \cup {None}, records \in [AllUsers -> Records \cup {None}], lost \in {orphans} :
            u = user[s] /\ records = connections /\ lost = orphans
      BY <3>2
    <3>4. Held(records, tickers, lost) /\ Numbered /\ Work(s, u, records, lost, m)
      BY <3>1, <3>3 DEF RecordsInv
    <3>5. QED
      BY <1>2, <1>3, <3>1, <3>3, <3>4, WorkKeeps
  <2>3. QED
    BY <2>1, <2>2
<1>6. \A v \in AllUsers \cup {None} : Listed(v)' = Listed(v)
  <2>1. \A v \in AllUsers \cup {None} : Listed(v) = ListedIn(connections, v) /\ Listed(v)' = ListedIn(connections, v)'
    BY DEF Listed, ListedIn
  <2>2. PICK new : new = connections'
    OBVIOUS
  <2>3. \A v \in AllUsers \cup {None} : ListedIn(new, v) = ListedIn(connections, v)
    BY <1>5, <2>2 DEF RecordsStay
  <2>4. QED
    BY <2>1, <2>2, <2>3 DEF ListedIn
<1>7. SessionTypeOK'
  <2>1. authCalls' \subseteq AuthCalls
    BY <1>2, <1>3, <1>5 DEF SessionTypeOK, AuthCalls
  <2>2. toServer' \in [Sockets -> Seq(Messages)] /\ received' \in [Sockets -> Seq(Nat)]
    <3>1. received[s] \in Seq(Nat) /\ toServer \in [Sockets -> Seq(Messages)] /\ received \in [Sockets -> Seq(Nat)]
      BY <1>2 DEF SessionTypeOK
    <3>2. Append(received[s], m.n) \in Seq(Nat)
      BY <1>3, <3>1, OneMore
    <3>3. QED
      BY <1>2, <1>3, <3>1, <3>2
  <2>3. QED
    BY <1>2, <1>5, <2>1, <2>2 DEF SessionTypeOK, RecordsStay, Made
<1>8. SocketsKnown'
  <2>1. \A x \in heardOf : ~Current(x)' /\ toServer'[x] = <<>>
    BY <1>2, <1>4 DEF RecordsInv, SocketsKnown, Current, SessionTypeOK
  <2>2. \A x \in Sockets \ Made : user[x] = None /\ received'[x] = <<>> /\ toServer'[x] = <<>>
    BY <1>2 DEF RecordsInv, SocketsKnown, SessionTypeOK
  <2>3. ASSUME NEW c \in authCalls'
        PROVE  /\ c.socket \in Made
               /\ c.socket \in heardOf => c.socket \in uncleaned
               /\ c.pc = "standalone" => isStandalone
               /\ c.pc = "params" => handshake[c.socket] \in Accounts
    <3>1. CASE c \in authCalls
      BY <3>1 DEF RecordsInv, SocketsKnown
    <3>2. CASE c = [socket |-> s, pc |-> "site", message |-> m]
      <4>1. c.socket = s /\ c.pc = "site"
        BY <3>2
      <4>2. QED
        BY <1>2, <1>4, <4>1
    <3>3. QED
      BY <1>5, <3>1, <3>2
  <2>4. QED
    BY <1>2, <2>1, <2>2, <2>3 DEF RecordsInv, SocketsKnown, Made
<1>9. UsersListed'
  <2>1. \A x \in Made : user[x] \in AllUsers \cup {None}
    BY <1>2, MadeSockets DEF SessionTypeOK
  <2>2. QED
    BY <1>2, <1>6, <2>1 DEF RecordsInv, UsersListed, Made
<1>10. ClosedIsUnlisted'
  BY <1>2, <1>6 DEF RecordsInv, ClosedIsUnlisted
<1>11. QED
  BY <1>5, <1>7, <1>8, <1>9, <1>10 DEF RecordsInv

\* The site answers a call of authUser.
LEMMA SiteAnswersKeeps ==
  ASSUME RecordsInv, NEW c \in authCalls, SiteAnswers(c)
  PROVE  RecordsInv'
<1>1. /\ SessionTypeOK /\ c \in AuthCalls /\ c.socket \in Made
      /\ c.socket \in heardOf => c.socket \in uncleaned
      /\ handshake[c.socket] \in Accounts \cup {None}
      /\ UNCHANGED <<bound, isStandalone, token, socket, opened, socketAuth, queue, sendBuffer, emitted,
                     forced, owner, handshake, toServer, toClient, heardOf, user, connections, tickers,
                     sequence, received, uncleaned, orphans>>
  BY MadeSockets DEF SiteAnswers, RecordsInv, SessionTypeOK, SocketsKnown, tabVars, wireVars
<1>2. PICK d \in AuthCalls :
        /\ authCalls' = (authCalls \ {c}) \cup {d} /\ d.socket = c.socket
        /\ d.pc = "standalone" => isStandalone
        /\ d.pc = "params" => handshake[d.socket] \in Accounts
  <2>1. CASE handshake[c.socket] # None /\ authCalls' = (authCalls \ {c}) \cup {[c EXCEPT !.pc = "params"]}
    <3>1. [c EXCEPT !.pc = "params"] \in AuthCalls
      BY <1>1 DEF AuthCalls
    <3>2. [c EXCEPT !.pc = "params"].socket = c.socket /\ [c EXCEPT !.pc = "params"].pc = "params"
      BY <1>1 DEF AuthCalls
    <3>3. QED
      BY <1>1, <2>1, <3>1, <3>2
  <2>2. CASE isStandalone /\ authCalls' = (authCalls \ {c}) \cup {[c EXCEPT !.pc = "standalone"]}
    <3>1. [c EXCEPT !.pc = "standalone"] \in AuthCalls
      BY <1>1 DEF AuthCalls
    <3>2. [c EXCEPT !.pc = "standalone"].socket = c.socket /\ [c EXCEPT !.pc = "standalone"].pc = "standalone"
      BY <1>1 DEF AuthCalls
    <3>3. QED
      BY <2>2, <3>1, <3>2
  <2>3. QED
    BY <2>1, <2>2 DEF SiteAnswers
<1>3. SessionTypeOK'
  BY <1>1, <1>2 DEF SessionTypeOK, Made
<1>4. SocketsKnown'
  BY <1>1, <1>2 DEF RecordsInv, SocketsKnown, Current, Made
<1>5. UsersListed' /\ ClosedIsUnlisted' /\ Numbered' /\ Held(connections, tickers, orphans)'
  BY <1>1 DEF RecordsInv, UsersListed, ClosedIsUnlisted, Listed, Numbered, Held, SubscribedIn, Made
<1>6. QED
  BY <1>3, <1>4, <1>5 DEF RecordsInv

\* handleConnection ends, with a listing in which the sockets stay known.
LEMMA EndsKeeps ==
  ASSUME RecordsInv, NEW c \in authCalls, NEW what \in {"authenticated", "unauthorized"},
         NEW u \in AllUsers \cup {None},
         NEW records \in [AllUsers -> Records \cup {None}], NEW lost,
         Held(records, tickers, lost),
         ~isStandalone => \A x \in Made \ heardOf :
           LET w == IF x = c.socket THEN u ELSE user[x] IN w \in Accounts => x \in ListedIn(records, w),
         \A v \in AllUsers : ListedIn(records, v) \cap heardOf \subseteq uncleaned,
         Ends(c, what, u, records, lost)
  PROVE  RecordsInv'
<1>1. PICK s \in Made : s = c.socket
  BY DEF RecordsInv, SocketsKnown
<1>2. /\ SessionTypeOK /\ s \in Sockets /\ c.message \in Messages \cup {None} /\ Numbered
      /\ Made = 1 .. Len(owner)
  BY <1>1, MadeSockets DEF RecordsInv, SessionTypeOK, AuthCalls
<1>3. /\ user' = [user EXCEPT ![s] = u]
      /\ Work(s, u, records, lost, c.message)
      /\ authCalls' = authCalls \ {c}
      /\ UNCHANGED <<bound, isStandalone, token, socket, opened, socketAuth, queue, sendBuffer, emitted,
                     forced, owner, handshake, toServer, heardOf, received, uncleaned>>
  BY <1>1 DEF Ends, tabVars
<1>4. /\ tickers' \subseteq [pair : Pairs, id : Nat] /\ sequence' \in [Pairs -> Nat]
      /\ Held(connections', tickers', orphans') /\ Numbered'
      /\ RecordsStay(records, connections')
  BY <1>2, <1>3, WorkKeeps
<1>5. \A v \in AllUsers \cup {None} : Listed(v)' = ListedIn(records, v)
  <2>1. \A v \in AllUsers \cup {None} : Listed(v)' = ListedIn(connections, v)'
    BY DEF Listed, ListedIn
  <2>2. PICK new : new = connections'
    OBVIOUS
  <2>3. \A v \in AllUsers \cup {None} : ListedIn(new, v) = ListedIn(records, v)
    BY <1>4, <2>2 DEF RecordsStay
  <2>4. QED
    BY <2>1, <2>2, <2>3 DEF ListedIn
<1>6. SessionTypeOK'
  <2>1. toClient' \in [Sockets -> Seq({"authenticated", "unauthorized"})]
    <3>1. toClient[s] \in Seq({"authenticated", "unauthorized"})
          /\ toClient \in [Sockets -> Seq({"authenticated", "unauthorized"})]
      BY <1>2 DEF SessionTypeOK
    <3>2. Append(toClient[s], what) \in Seq({"authenticated", "unauthorized"})
      BY <3>1, OneMore
    <3>3. toClient' = toClient \/ toClient' = [toClient EXCEPT ![s] = Append(@, what)]
      BY <1>1 DEF Ends, Tell
    <3>4. QED
      BY <3>1, <3>2, <3>3
  <2>2. user' \in [Sockets -> AllUsers \cup {None}]
    BY <1>2, <1>3 DEF SessionTypeOK
  <2>3. QED
    BY <1>2, <1>3, <1>4, <2>1, <2>2 DEF SessionTypeOK, RecordsStay, Made
<1>7. SocketsKnown'
  <2>1. \A x \in Sockets \ Made : user'[x] = None
    BY <1>1, <1>2, <1>3 DEF RecordsInv, SocketsKnown, SessionTypeOK
  <2>2. QED
    BY <1>3, <2>1 DEF RecordsInv, SocketsKnown, Current, Made
<1>8. UsersListed'
  <2> SUFFICES ASSUME ~isStandalone, NEW x \in Made \ heardOf, user'[x] \in Accounts
               PROVE  x \in Listed(user[x])'
    BY <1>3 DEF UsersListed, Made
  <2>1. PICK w : w = IF x = c.socket THEN u ELSE user[x]
    OBVIOUS
  <2>2. user'[x] = w
    BY <1>1, <1>2, <1>3, <2>1, MadeSockets DEF SessionTypeOK
  <2>3. x \in ListedIn(records, w) /\ w \in AllUsers
    BY <2>1, <2>2 DEF AllUsers
  <2>4. Listed(user[x])' = ListedIn(records, w)
    <3>1. Listed(w)' = ListedIn(records, w)
      BY <1>5, <2>3
    <3>2. Listed(user[x])' = Listed(w)'
      BY <2>2 DEF Listed
    <3>3. QED
      BY <3>1, <3>2
  <2>5. QED
    BY <2>3, <2>4
<1>9. ClosedIsUnlisted'
  BY <1>3, <1>5 DEF ClosedIsUnlisted
<1>10. QED
  BY <1>4, <1>6, <1>7, <1>8, <1>9 DEF RecordsInv

LEMMA AuthEndsKeep ==
  ASSUME RecordsInv, NEW c \in authCalls, Rejected(c) \/ Authenticated(c) \/ AuthenticatedStandalone(c)
  PROVE  RecordsInv'
<1>1. PICK s \in Made : s = c.socket
  BY DEF RecordsInv, SocketsKnown
<1>2. /\ SessionTypeOK /\ s \in Sockets /\ Made \subseteq Sockets
      /\ user[s] \in AllUsers \cup {None} /\ connections \in [AllUsers -> Records \cup {None}]
      /\ s \in heardOf => s \in uncleaned
      /\ None \notin AllUsers /\ Incognito \notin Accounts /\ None \notin Records
  BY <1>1, MadeSockets, SessionAssumption DEF RecordsInv, SessionTypeOK, SocketsKnown
<1>3. /\ \A v \in AllUsers \cup {None} : Listed(v) = ListedIn(connections, v)
      /\ \A v \in AllUsers : ListedIn(connections, v) \cap heardOf \subseteq uncleaned
      /\ ~isStandalone => \A x \in Made \ heardOf : user[x] \in Accounts => x \in ListedIn(connections, user[x])
  BY DEF RecordsInv, UsersListed, ClosedIsUnlisted, Listed, ListedIn
<1>4. Held(connections, tickers, orphans)
  BY DEF RecordsInv
<1>5. CASE Rejected(c)
  <2>1. Ends(c, "unauthorized", user[s], connections, orphans)
    BY <1>1, <1>5 DEF Rejected
  <2>2. PICK u \in AllUsers \cup {None}, records \in [AllUsers -> Records \cup {None}], lost \in {orphans} :
          u = user[s] /\ records = connections /\ lost = orphans
    BY <1>2
  <2>3. ~isStandalone => \A x \in Made \ heardOf :
          LET w == IF x = c.socket THEN u ELSE user[x] IN w \in Accounts => x \in ListedIn(records, w)
    BY <1>1, <1>3, <2>2
  <2>4. QED
    BY <1>3, <1>4, <2>1, <2>2, <2>3, EndsKeeps
<1>6. CASE Authenticated(c)
  <2>1. PICK u \in Accounts : u = handshake[s]
    BY <1>1, <1>6 DEF Authenticated, RecordsInv, SocketsKnown
  <2>2. PICK r, records : 
          /\ r = Joined(connections[u], s)
          /\ records = [connections EXCEPT ![u] = r]
    OBVIOUS
  <2>3. u \in AllUsers
    BY DEF AllUsers
  <2>4. Ends(c, "authenticated", u, records, orphans)
    BY <1>1, <1>6, <2>1, <2>2 DEF Authenticated
  <2>5. /\ r \in Records /\ r # None
        /\ r.socketClients = ListedIn(connections, u) \cup {s}
        /\ FeedsOf(r.exchangeTickerSubscribes) = SubscribedIn(connections, u)
    <3>1. CASE connections[u] = None
      <4>1. r = [socketClients |-> {s}, exchangeTickerSubscribes |-> {}]
        BY <2>2, <3>1 DEF Joined, NewRecord
      <4>2. r.socketClients = {s} /\ r.exchangeTickerSubscribes = {} /\ r \in Records
        BY <1>2, <4>1 DEF Records
      <4>3. ListedIn(connections, u) = {} /\ SubscribedIn(connections, u) = {}
        BY <3>1 DEF ListedIn, SubscribedIn
      <4>4. QED
        BY <1>2, <4>2, <4>3 DEF FeedsOf
    <3>2. CASE connections[u] # None
      <4>1. connections[u] \in Records
        BY <1>2, <2>3, <3>2
      <4>2. r = [connections[u] EXCEPT !.socketClients = @ \cup {s}]
        BY <2>2, <3>2 DEF Joined
      <4>3. /\ r \in Records /\ r.socketClients = connections[u].socketClients \cup {s}
            /\ r.exchangeTickerSubscribes = connections[u].exchangeTickerSubscribes
        BY <1>2, <4>1, <4>2 DEF Records
      <4>4. u # None
        BY <1>2, <2>3
      <4>5. QED
        BY <1>2, <3>2, <4>3, <4>4 DEF ListedIn, SubscribedIn, FeedsOf
    <3>3. QED
      BY <3>1, <3>2
  <2>6. /\ records \in [AllUsers -> Records \cup {None}] /\ records[u] = r
        /\ \A v \in AllUsers : v # u => records[v] = connections[v]
    BY <1>2, <2>2, <2>3, <2>5
  <2>7. /\ ListedIn(records, u) = ListedIn(connections, u) \cup {s}
        /\ \A v \in AllUsers : v # u => ListedIn(records, v) = ListedIn(connections, v)
        /\ \A v \in AllUsers : SubscribedIn(records, v) = SubscribedIn(connections, v)
    <3>1. ListedIn(records, u) = r.socketClients /\ SubscribedIn(records, u) = FeedsOf(r.exchangeTickerSubscribes)
      BY <1>2, <2>3, <2>5, <2>6 DEF ListedIn, SubscribedIn, FeedsOf
    <3>2. \A v \in AllUsers : v # u => /\ ListedIn(records, v) = ListedIn(connections, v)
                                       /\ SubscribedIn(records, v) = SubscribedIn(connections, v)
      BY <2>6 DEF ListedIn, SubscribedIn
    <3>3. QED
      BY <2>5, <3>1, <3>2
  <2>8. Held(records, tickers, orphans)
    BY <1>4, <2>7 DEF Held
  <2>9. ~isStandalone => \A x \in Made \ heardOf :
          LET w == IF x = c.socket THEN u ELSE user[x] IN w \in Accounts => x \in ListedIn(records, w)
    <3> SUFFICES ASSUME ~isStandalone, NEW x \in Made \ heardOf, NEW w \in Accounts,
                        w = IF x = c.socket THEN u ELSE user[x]
                 PROVE  x \in ListedIn(records, w)
      OBVIOUS
    <3>1. CASE x = s
      BY <1>1, <2>7, <3>1
    <3>2. CASE x # s
      <4>1. w = user[x] /\ x \in ListedIn(connections, w) /\ w \in AllUsers
        BY <1>1, <1>3, <3>2 DEF AllUsers
      <4>2. QED
        BY <2>7, <4>1
    <3>3. QED
      BY <3>1, <3>2
  <2>10. \A v \in AllUsers : ListedIn(records, v) \cap heardOf \subseteq uncleaned
    BY <1>2, <1>3, <2>7
  <2>11. QED
    BY <2>3, <2>4, <2>6, <2>8, <2>9, <2>10, EndsKeeps
<1>7. CASE AuthenticatedStandalone(c)
  <2>1. isStandalone
    BY <1>7 DEF AuthenticatedStandalone, RecordsInv, SocketsKnown
  <2>2. PICK r, records, lost :
          /\ r = NewRecord(s)
          /\ records = [connections EXCEPT ![Incognito] = r]
          /\ lost = orphans \cup SubscribedIn(connections, Incognito)
    OBVIOUS
  <2>3. Incognito \in AllUsers
    BY DEF AllUsers
  <2>4. Ends(c, "authenticated", Incognito, records, lost)
    BY <1>1, <1>7, <2>2 DEF AuthenticatedStandalone, Subscribed, SubscribedIn
  <2>5. r \in Records /\ r # None /\ r.socketClients = {s} /\ r.exchangeTickerSubscribes = {}
    BY <1>2, <2>2 DEF NewRecord, Records
  <2>6. /\ records \in [AllUsers -> Records \cup {None}] /\ records[Incognito] = r
        /\ \A v \in AllUsers : v # Incognito => records[v] = connections[v]
    BY <1>2, <2>2, <2>3, <2>5
  <2>7. /\ ListedIn(records, Incognito) = {s} /\ SubscribedIn(records, Incognito) = {}
        /\ \A v \in AllUsers : v # Incognito => /\ ListedIn(records, v) = ListedIn(connections, v)
                                                /\ SubscribedIn(records, v) = SubscribedIn(connections, v)
    BY <1>2, <2>3, <2>5, <2>6 DEF ListedIn, SubscribedIn
  <2>8. Held(records, tickers, lost)
    <3>1. /\ \A x \in tickers : (\E v \in AllUsers : x \in SubscribedIn(connections, v)) <=> x \notin orphans
          /\ \A v \in AllUsers : SubscribedIn(connections, v) \subseteq tickers
          /\ \A v, w \in AllUsers : v # w => SubscribedIn(connections, v) \cap SubscribedIn(connections, w) = {}
          /\ orphans \subseteq tickers
      BY <1>4 DEF Held
    <3>2. QED
      BY <2>2, <2>3, <2>7, <3>1 DEF Held
  <2>9. \A v \in AllUsers : ListedIn(records, v) \cap heardOf \subseteq uncleaned
    BY <1>2, <1>3, <2>7
  <2>10. QED
    BY <2>1, <2>3, <2>4, <2>6, <2>8, <2>9, EndsKeeps
<1>8. QED
  BY <1>5, <1>6, <1>7

\* The monitoring removes a feed.
LEMMA FeedRemovedKeeps ==
  ASSUME RecordsInv, NEW p \in Pairs, FeedRemoved(p)
  PROVE  RecordsInv'
<1>1. /\ \A x \in tickers : x.pair # p
      /\ sequence' = [sequence EXCEPT ![p] = 0]
      /\ UNCHANGED <<bound, isStandalone, token, socket, opened, socketAuth, queue, sendBuffer, emitted,
                     forced, owner, handshake, toServer, toClient, heardOf, user, authCalls, connections,
                     tickers, received, uncleaned, orphans>>
  BY DEF FeedRemoved, tabVars, wireVars
<1>2. SessionTypeOK'
  BY <1>1 DEF RecordsInv, SessionTypeOK, Made
<1>3. Numbered'
  BY <1>1 DEF RecordsInv, Numbered, SessionTypeOK
<1>4. SocketsKnown' /\ UsersListed' /\ ClosedIsUnlisted' /\ Held(connections, tickers, orphans)'
  BY <1>1 DEF RecordsInv, SocketsKnown, Current, UsersListed, ClosedIsUnlisted, Listed, Held, SubscribedIn, Made
<1>5. QED
  BY <1>2, <1>3, <1>4 DEF RecordsInv

LEMMA RecordsInitially ==
  ASSUME SessionInit
  PROVE  RecordsInv
<1>1. MaxSockets \in Nat /\ Made = {} /\ Len(owner) = 0
  BY SessionAssumption DEF SessionInit, Made
<1>2. SessionTypeOK
  BY <1>1 DEF SessionInit, SessionTypeOK
<1>3. \A u \in AllUsers : SubscribedIn(connections, u) = {} /\ Listed(u) = {}
  BY DEF SessionInit, SubscribedIn, Listed
<1>4. Held(connections, tickers, orphans) /\ Numbered /\ ClosedIsUnlisted
  BY <1>3 DEF SessionInit, Held, Numbered, ClosedIsUnlisted
<1>5. SocketsKnown /\ UsersListed
  BY <1>1 DEF SessionInit, SocketsKnown, UsersListed
<1>6. QED
  BY <1>2, <1>4, <1>5 DEF RecordsInv

LEMMA RecordsStep ==
  ASSUME RecordsInv, [SessionNext]_sessionVars
  PROVE  RecordsInv'
<1>1. CASE UNCHANGED sessionVars
  <2>1. UNCHANGED <<bound, isStandalone, token, socket, opened, socketAuth, queue, sendBuffer, emitted, forced,
                    owner, handshake, toServer, toClient, heardOf, user, authCalls, connections, tickers,
                    sequence, received, uncleaned, orphans>>
    BY <1>1 DEF sessionVars, tabVars, wireVars, gatewayVars
  <2>2. SessionTypeOK'
    BY <2>1 DEF RecordsInv, SessionTypeOK, Made
  <2>3. SocketsKnown'
    BY <2>1 DEF RecordsInv, SocketsKnown, Current, Made
  <2>4. UsersListed' /\ ClosedIsUnlisted' /\ Numbered' /\ Held(connections, tickers, orphans)'
    BY <2>1 DEF RecordsInv, UsersListed, ClosedIsUnlisted, Listed, Numbered, Held, SubscribedIn, Made
  <2>5. QED
    BY <2>2, <2>3, <2>4 DEF RecordsInv
<1>2. CASE \E t \in Tabs :
             \/ WsConnect(t) \/ ForceReconnect(t) \/ ClientReceives(t) \/ Connects(t) \/ ConnectionLost(t)
             \/ \E what \in {"list", "login"} : EmitSocketEvent(t, what, None)
             \/ \E what \in {"subscribe", "unsubscribe"}, p \in bound.pairs : EmitSocketEvent(t, what, p)
  <2>1. bound.pairs \subseteq Pairs
    BY SessionAssumption DEF RecordsInv, SessionTypeOK
  <2>2. QED
    BY <1>2, <2>1, TabKeeps, ConnectsKeeps
<1>3. CASE \E s \in Sockets : HandleDisconnect(s) \/ HandleMessage(s)
  BY <1>3, DisconnectKeeps, MessageKeeps
<1>4. CASE \E p \in Pairs : FeedRemoved(p)
  BY <1>4, FeedRemovedKeeps
<1>5. CASE \E c \in authCalls : SiteAnswers(c) \/ Rejected(c) \/ Authenticated(c) \/ AuthenticatedStandalone(c)
  BY <1>5, SiteAnswersKeeps, AuthEndsKeep
<1>6. QED
  BY <1>1, <1>2, <1>3, <1>4, <1>5 DEF SessionNext

\* What is known of the sockets, the records and the subscriptions stays so.
THEOREM RecordsInvCorrect == SessionSpec => []RecordsInv
<1>1. SessionInit => RecordsInv
  BY RecordsInitially
<1>2. RecordsInv /\ [SessionNext]_sessionVars => RecordsInv'
  BY RecordsStep
<1>3. QED
  BY <1>1, <1>2, PTL DEF SessionSpec

LEMMA FollowsFromRecordsInv ==
  ASSUME RecordsInv
  PROVE  RecordsFollowSockets
<1>1. OpenIsListed
  <2> SUFFICES ASSUME NEW s \in Made, Current(s), user[s] \in Accounts, ~isStandalone
               PROVE  s \in Listed(user[s])
    BY DEF OpenIsListed
  <2>1. s \notin heardOf
    BY DEF RecordsInv, SocketsKnown
  <2>2. QED
    BY <2>1 DEF RecordsInv, UsersListed
<1>2. TickersHeld
  <2>1. \A u \in AllUsers : Subscribed(u) = SubscribedIn(connections, u)
    BY DEF Subscribed, SubscribedIn
  <2>2. /\ \A x \in tickers : (\E v \in AllUsers : x \in Subscribed(v)) <=> x \notin orphans
        /\ \A v \in AllUsers : Subscribed(v) \subseteq tickers
    BY <2>1 DEF RecordsInv, Held
  <2>3. QED
    BY <2>2 DEF TickersHeld
<1>3. QED
  BY <1>1, <1>2 DEF RecordsInv, RecordsFollowSockets

\* The ConnectionService's records follow the sockets and their ticker
\* subscriptions (connection.service.ts, events.gateway.ts).
THEOREM RecordsFollowSocketsCorrect == SessionSpec => []RecordsFollowSockets
BY RecordsInvCorrect, FollowsFromRecordsInv, PTL

-----------------------------------------------------------------------------
(* The steps of the events.                                                 *)

LEMMA NumbersGrow ==
  ASSUME NEW q \in Seq(Messages), NEW m \in Messages, NEW L
  PROVE  /\ Numbers(Append(q, m)) = Numbers(q) \cup {m.n}
         /\ Ordered(L, q) /\ (\A x \in Numbers(q) : Before(L, x, m.n)) => Ordered(L, Append(q, m))
<1> DEFINE r == Append(q, m)
<1>1. /\ Len(q) \in Nat /\ Len(r) = Len(q) + 1 /\ r[Len(q) + 1] = m
      /\ \A i \in 1 .. Len(q) : r[i] = q[i]
  BY OneMore
<1> HIDE DEF r
<1>2. Numbers(r) = Numbers(q) \cup {m.n}
  BY <1>1 DEF Numbers
<1>3. ASSUME Ordered(L, q), \A x \in Numbers(q) : Before(L, x, m.n),
             NEW i \in 1 .. Len(r), NEW j \in 1 .. Len(r), i < j
      PROVE  Before(L, r[i].n, r[j].n)
  <2>1. i \in 1 .. Len(q) /\ r[i] = q[i]
    BY <1>1, <1>3
  <2>2. CASE j = Len(q) + 1
    BY <1>1, <1>3, <2>1, <2>2 DEF Numbers
  <2>3. CASE j # Len(q) + 1
    BY <1>1, <1>3, <2>1, <2>3 DEF Ordered
  <2>4. QED
    BY <2>2, <2>3
<1>4. QED
  BY <1>2, <1>3 DEF Ordered, r

LEMMA NumbersShrink ==
  ASSUME NEW q \in Seq(Messages), q # <<>>, NEW L, Ordered(L, q)
  PROVE  /\ Numbers(Tail(q)) \subseteq Numbers(q) /\ Head(q).n \in Numbers(q) /\ Ordered(L, Tail(q))
         /\ \A x \in Numbers(Tail(q)) : Before(L, Head(q).n, x)
<1> DEFINE r == Tail(q)
<1>1. /\ Head(q) = q[1] /\ Len(q) \in Nat /\ Len(q) > 0 /\ Len(r) = Len(q) - 1
      /\ \A i \in 1 .. Len(q) - 1 : r[i] = q[i + 1]
  BY Rest
<1> HIDE DEF r
<1>2. \A i \in 1 .. Len(r) : i + 1 \in 1 .. Len(q) /\ r[i] = q[i + 1] /\ 1 < i + 1
  BY <1>1
<1>3. 1 \in 1 .. Len(q)
  BY <1>1
<1>4. Numbers(r) \subseteq Numbers(q) /\ Head(q).n \in Numbers(q)
  BY <1>1, <1>2, <1>3 DEF Numbers
<1>5. \A x \in Numbers(r) : Before(L, Head(q).n, x)
  BY <1>1, <1>2, <1>3 DEF Numbers, Ordered
<1>6. Ordered(L, r)
  <2> SUFFICES ASSUME NEW i \in 1 .. Len(r), NEW j \in 1 .. Len(r), i < j PROVE Before(L, r[i].n, r[j].n)
    BY DEF Ordered
  <2>1. i + 1 < j + 1
    OBVIOUS
  <2>2. QED
    BY <1>2, <2>1 DEF Ordered
<1>7. QED
  BY <1>4, <1>5, <1>6 DEF r

\* A sequence behind another one.
LEMMA NumbersJoin ==
  ASSUME NEW p \in Seq(Messages), NEW q \in Seq(Messages)
  PROVE  /\ Numbers(p \o q) = Numbers(p) \cup Numbers(q)
         /\ \A L : Ordered(L, p) /\ Ordered(L, q) /\ (\A x \in Numbers(p), y \in Numbers(q) : Before(L, x, y))
              => Ordered(L, p \o q)
<1> DEFINE r == p \o q
<1>1. /\ Len(p) \in Nat /\ Len(q) \in Nat /\ Len(r) = Len(p) + Len(q)
      /\ \A i \in 1 .. Len(r) : r[i] = IF i <= Len(p) THEN p[i] ELSE q[i - Len(p)]
  BY ConcatProperties
<1> HIDE DEF r
<1>2. /\ \A i \in 1 .. Len(p) : i \in 1 .. Len(r) /\ r[i] = p[i]
      /\ \A i \in 1 .. Len(q) : i + Len(p) \in 1 .. Len(r) /\ r[i + Len(p)] = q[i]
  <2>1. ASSUME NEW i \in 1 .. Len(p) PROVE i \in 1 .. Len(r) /\ i <= Len(p)
    BY <1>1
  <2>2. ASSUME NEW i \in 1 .. Len(q)
        PROVE  i + Len(p) \in 1 .. Len(r) /\ ~(i + Len(p) <= Len(p)) /\ (i + Len(p)) - Len(p) = i
    BY <1>1
  <2>3. QED
    BY <1>1, <2>1, <2>2
<1>3. \A i \in 1 .. Len(r) : \/ i \in 1 .. Len(p) /\ r[i] = p[i]
                             \/ i - Len(p) \in 1 .. Len(q) /\ r[i] = q[i - Len(p)] /\ i \notin 1 .. Len(p)
  BY <1>1
<1>4. Numbers(r) = Numbers(p) \cup Numbers(q)
  <2>1. ASSUME NEW x \in Numbers(p) \cup Numbers(q) PROVE x \in Numbers(r)
    BY <1>2 DEF Numbers
  <2>2. ASSUME NEW x \in Numbers(r) PROVE x \in Numbers(p) \cup Numbers(q)
    BY <1>3 DEF Numbers
  <2>3. QED
    BY <2>1, <2>2
<1>5. ASSUME NEW L, Ordered(L, p), Ordered(L, q), \A x \in Numbers(p), y \in Numbers(q) : Before(L, x, y),
             NEW i \in 1 .. Len(r), NEW j \in 1 .. Len(r), i < j
      PROVE  Before(L, r[i].n, r[j].n)
  <2>1. CASE j \in 1 .. Len(p)
    <3>1. i \in 1 .. Len(p)
      BY <1>1, <1>5, <2>1
    <3>2. QED
      BY <1>2, <1>5, <2>1, <3>1 DEF Ordered
  <2>2. CASE i \in 1 .. Len(p) /\ j \notin 1 .. Len(p)
    BY <1>3, <1>5, <2>2 DEF Numbers
  <2>3. CASE i \notin 1 .. Len(p) /\ j \notin 1 .. Len(p)
    <3>1. i - Len(p) < j - Len(p)
      BY <1>1, <1>5
    <3>2. QED
      BY <1>3, <1>5, <2>3, <3>1 DEF Ordered
  <2>4. QED
    BY <2>1, <2>2, <2>3
<1>6. QED
  BY <1>4, <1>5 DEF Ordered, r

LEMMA NothingNumbered == Numbers(<<>>) = {} /\ \A L : Ordered(L, <<>>)
BY DEF Numbers, Ordered

\* What is in order stays so when there are more logins.
LEMMA MoreLogins ==
  ASSUME NEW L, NEW M, L \subseteq M
  PROVE  /\ \A x, y : Before(L, x, y) => Before(M, x, y)
         /\ \A q : Ordered(L, q) => Ordered(M, q)
BY DEF Before, Ordered

\* Events leave their place, or come to one where no other has them.
LEMMA PlacesChange ==
  ASSUME InOnePlace, emitted \in Nat, emitted' \in Nat, emitted <= emitted',
         NEW k0 \in PlaceKinds, NEW x0 \in Of(k0), NEW M, M \subseteq 1 .. emitted',
         \A k \in PlaceKinds : \A x \in Of(k) :
           IF k = k0 /\ x = x0 THEN EventsAt(k, x)' \subseteq EventsAt(k, x) \cup M
           ELSE EventsAt(k, x)' \subseteq EventsAt(k, x) /\ EventsAt(k, x)' \cap M = {}
  PROVE  InOnePlace'
<1>1. ASSUME NEW k \in PlaceKinds, NEW x \in Of(k)
      PROVE  EventsAt(k, x)' \subseteq 1 .. emitted'
  <2>1. EventsAt(k, x) \subseteq 1 .. emitted
    BY DEF InOnePlace
  <2>2. 1 .. emitted \subseteq 1 .. emitted'
    OBVIOUS
  <2>3. QED
    BY <2>1, <2>2
<1>2. ASSUME NEW k \in PlaceKinds, NEW l \in PlaceKinds, NEW x \in Of(k), NEW y \in Of(l), k # l \/ x # y
      PROVE  EventsAt(k, x)' \cap EventsAt(l, y)' = {}
  <2>1. EventsAt(k, x) \cap EventsAt(l, y) = {}
    BY <1>2 DEF InOnePlace
  <2>2. CASE k = k0 /\ x = x0
    <3>1. EventsAt(k, x)' \subseteq EventsAt(k, x) \cup M
      BY <2>2
    <3>2. EventsAt(l, y)' \subseteq EventsAt(l, y) /\ EventsAt(l, y)' \cap M = {}
      BY <1>2, <2>2
    <3>3. QED
      BY <2>1, <3>1, <3>2
  <2>3. CASE l = k0 /\ y = x0
    <3>1. EventsAt(l, y)' \subseteq EventsAt(l, y) \cup M
      BY <2>3
    <3>2. EventsAt(k, x)' \subseteq EventsAt(k, x) /\ EventsAt(k, x)' \cap M = {}
      BY <1>2, <2>3
    <3>3. QED
      BY <2>1, <3>1, <3>2
  <2>4. CASE ~(k = k0 /\ x = x0) /\ ~(l = k0 /\ y = x0)
    <3>1. EventsAt(k, x)' \subseteq EventsAt(k, x) /\ EventsAt(l, y)' \subseteq EventsAt(l, y)
      BY <2>4
    <3>2. QED
      BY <2>1, <3>1
  <2>5. QED
    BY <2>2, <2>3, <2>4
<1>3. QED
  BY <1>1, <1>2 DEF InOnePlace, Of

\* The same of the four places.
Moves(k0, x0, M) ==
  /\ \A x \in Tabs : IF k0 = "queue" /\ x = x0
                    THEN Numbers(queue'[x]) \subseteq Numbers(queue[x]) \cup M
                    ELSE Numbers(queue'[x]) \subseteq Numbers(queue[x]) \ M
  /\ \A x \in Tabs : IF k0 = "buffer" /\ x = x0
                    THEN Numbers(sendBuffer'[x]) \subseteq Numbers(sendBuffer[x]) \cup M
                    ELSE Numbers(sendBuffer'[x]) \subseteq Numbers(sendBuffer[x]) \ M
  /\ \A x \in Sockets : IF k0 = "wire" /\ x = x0
                       THEN Numbers(toServer'[x]) \subseteq Numbers(toServer[x]) \cup M
                       ELSE Numbers(toServer'[x]) \subseteq Numbers(toServer[x]) \ M
  /\ \A x \in Sockets : IF k0 = "got" /\ x = x0 THEN Got(x)' \subseteq Got(x) \cup M
                       ELSE Got(x)' \subseteq Got(x) \ M

LEMMA EventsMove ==
  ASSUME InOnePlace, emitted \in Nat, emitted' \in Nat, emitted <= emitted',
         NEW k0 \in PlaceKinds, NEW x0 \in Of(k0), NEW M, M \subseteq 1 .. emitted',
         Moves(k0, x0, M)
  PROVE  InOnePlace'
<1>1. ASSUME NEW k \in PlaceKinds, NEW x \in Of(k)
      PROVE  IF k = k0 /\ x = x0 THEN EventsAt(k, x)' \subseteq EventsAt(k, x) \cup M
             ELSE EventsAt(k, x)' \subseteq EventsAt(k, x) /\ EventsAt(k, x)' \cap M = {}
  <2>1. CASE k = "queue"
    <3>1. EventsAt(k, x) = Numbers(queue[x]) /\ EventsAt(k, x)' = Numbers(queue'[x]) /\ x \in Tabs
      BY <2>1 DEF EventsAt, Of
    <3>2. QED
      BY <2>1, <3>1 DEF Moves
  <2>2. CASE k = "buffer"
    <3>1. EventsAt(k, x) = Numbers(sendBuffer[x]) /\ EventsAt(k, x)' = Numbers(sendBuffer'[x]) /\ x \in Tabs
      BY <2>2 DEF EventsAt, Of
    <3>2. QED
      BY <2>2, <3>1 DEF Moves
  <2>3. CASE k = "wire"
    <3>1. EventsAt(k, x) = Numbers(toServer[x]) /\ EventsAt(k, x)' = Numbers(toServer'[x]) /\ x \in Sockets
      BY <2>3 DEF EventsAt, Of
    <3>2. QED
      BY <2>3, <3>1 DEF Moves
  <2>4. CASE k = "got"
    <3>1. EventsAt(k, x) = Got(x) /\ EventsAt(k, x)' = Got(x)' /\ x \in Sockets
      BY <2>4 DEF EventsAt, Of
    <3>2. QED
      BY <2>4, <3>1 DEF Moves
  <2>5. QED
    BY <2>1, <2>2, <2>3, <2>4 DEF PlaceKinds
<1>2. QED
  BY <1>1, PlacesChange

\* Nothing new, and some of it may be lost.
LEMMA EventsShrink ==
  ASSUME EventsInv, UNCHANGED <<emitted, logins, owner, received, socketAuth, queue>>,
         \A t \in Tabs : sendBuffer'[t] = sendBuffer[t] \/ sendBuffer'[t] = <<>>,
         \A s \in Sockets : toServer'[s] = toServer[s] \/ toServer'[s] = <<>>,
         \A t \in Tabs : socket'[t] = socket[t] \/ socket'[t] = None
  PROVE  EventsKept'
<1>1. emitted \in Nat /\ Made \subseteq Sockets
  BY MadeSockets DEF EventsInv, RecordsInv, SessionTypeOK
<1>2. ASSUME NEW k \in PlaceKinds, NEW x \in Of(k)
      PROVE  EventsAt(k, x)' \subseteq EventsAt(k, x)
  <2>1. CASE k = "queue"
    BY <2>1 DEF EventsAt, Of
  <2>2. CASE k = "got"
    BY <2>2 DEF EventsAt, Of, Got
  <2>3. CASE k = "buffer"
    BY <2>3, NothingNumbered DEF EventsAt, Of
  <2>4. CASE k = "wire"
    BY <2>4, NothingNumbered DEF EventsAt, Of
  <2>5. QED
    BY <2>1, <2>2, <2>3, <2>4 DEF PlaceKinds
<1>3. InOnePlace'
  <2>1. ASSUME NEW k \in PlaceKinds, NEW x \in Of(k)
        PROVE  EventsAt(k, x)' \subseteq 1 .. emitted'
    BY <1>2 DEF EventsInv, EventsKept, InOnePlace
  <2>2. ASSUME NEW k \in PlaceKinds, NEW l \in PlaceKinds, NEW x \in Of(k), NEW y \in Of(l), k # l \/ x # y
        PROVE  EventsAt(k, x)' \cap EventsAt(l, y)' = {}
    <3>1. EventsAt(k, x) \cap EventsAt(l, y) = {}
      BY <2>2 DEF EventsInv, EventsKept, InOnePlace
    <3>2. QED
      BY <1>2, <3>1
  <2>3. QED
    BY <2>1, <2>2 DEF InOnePlace, Of
<1>4. EventsInOrder'
  <2>1. \A t \in Tabs : Ordered(logins, queue[t]) /\ Ordered(logins, sendBuffer'[t])
    BY NothingNumbered DEF EventsInv, EventsKept, EventsInOrder
  <2>2. ASSUME NEW s \in Sockets
        PROVE  /\ Ordered(logins, toServer'[s])
               /\ \A i, j \in 1 .. Len(received[s]) : i < j => Before(logins, received[s][i], received[s][j])
               /\ \A x \in Got(s), y \in Numbers(toServer'[s]) : Before(logins, x, y)
    BY NothingNumbered DEF EventsInv, EventsKept, EventsInOrder
  <2>3. QED
    BY <2>1, <2>2 DEF EventsInOrder, Got
<1>5. NothingWaits'
  <2>1. /\ \A t \in Tabs : Numbers(sendBuffer'[t]) \subseteq Numbers(sendBuffer[t])
        /\ \A s \in Sockets : Numbers(toServer'[s]) \subseteq Numbers(toServer[s])
    BY NothingNumbered
  <2>2. NothingWaits /\ \A s \in Sockets : Got(s)' = Got(s)
    BY DEF EventsInv, EventsKept, Got
  <2>3. ASSUME NEW t \in Tabs
        PROVE  /\ socketAuth[t] => queue[t] = <<>>
               /\ ~socketAuth[t] => Numbers(sendBuffer'[t]) \subseteq logins
               /\ socket'[t] # None => sendBuffer'[t] = <<>>
    BY <2>1, <2>2 DEF NothingWaits
  <2>4. ASSUME NEW s \in Made, ~socketAuth[owner[s]]
        PROVE  Numbers(toServer'[s]) \cup Got(s)' \subseteq logins
    BY <1>1, <2>1, <2>2, <2>4 DEF NothingWaits
  <2>5. QED
    BY <2>3, <2>4 DEF NothingWaits, Made
<1>6. QED
  BY <1>3, <1>4, <1>5 DEF EventsKept

\* A tab emits an event.
LEMMA EmitEvents ==
  ASSUME EventsInv, NEW t \in Tabs, NEW what, NEW p, EmitSocketEvent(t, what, p),
         Event(emitted + 1, what, p) \in Messages
  PROVE  EventsKept'
<1>1. PICK m \in Messages : m = Event(emitted + 1, what, p)
  OBVIOUS
<1>2. /\ SessionTypeOK /\ Made \subseteq Sockets /\ emitted \in Nat /\ emitted' = emitted + 1 /\ m.n = emitted + 1
      /\ socket[t] # None => socket[t] \in Sockets /\ socket[t] \in Made /\ owner[socket[t]] = t
      /\ UNCHANGED <<received, socket, socketAuth, owner>>
      /\ logins \subseteq logins' /\ (what = "login" => m.n \in logins')
  BY <1>1, MadeSockets DEF EventsInv, RecordsInv, SessionTypeOK, SocketsKnown, EmitSocketEvent, Event, gatewayVars
<1>3. InOnePlace /\ EventsInOrder /\ NothingWaits
  BY DEF EventsInv, EventsKept
<1>4. \A k \in PlaceKinds : \A x \in Of(k) : EventsAt(k, x) \subseteq 1 .. emitted
  BY <1>3 DEF InOnePlace
<1>5. \A i \in 1 .. emitted : Before(logins', i, m.n)
  BY <1>2 DEF Before
<1>6. /\ \A x \in Tabs : EventsAt("queue", x) = Numbers(queue[x])
      /\ \A x \in Tabs : EventsAt("buffer", x) = Numbers(sendBuffer[x])
      /\ \A x \in Sockets : EventsAt("wire", x) = Numbers(toServer[x])
      /\ \A x \in Sockets : EventsAt("got", x) = Got(x) /\ Got(x)' = Got(x)
      /\ Of("queue") = Tabs /\ Of("buffer") = Tabs /\ Of("wire") = Sockets /\ Of("got") = Sockets
  BY <1>2 DEF EventsAt, Of, Got
<1> DEFINE M == {emitted + 1}
<1>7. /\ M \subseteq 1 .. emitted' /\ emitted' \in Nat /\ emitted <= emitted'
      /\ \A x \in Tabs : Numbers(queue[x]) \cap M = {} /\ Numbers(sendBuffer[x]) \cap M = {}
      /\ \A x \in Sockets : Numbers(toServer[x]) \cap M = {} /\ Got(x) \cap M = {}
  <2>1. \A X : X \subseteq 1 .. emitted => X \cap M = {}
    BY <1>2
  <2>2. \A k \in PlaceKinds : \A x \in Of(k) : EventsAt(k, x) \cap M = {}
    BY <1>4, <2>1
  <2>3. M \subseteq 1 .. emitted' /\ emitted' \in Nat /\ emitted <= emitted'
    BY <1>2
  <2>4. QED
    BY <1>6, <2>2, <2>3 DEF PlaceKinds
<1>8. \/ ~socketAuth[t] /\ queue' = [queue EXCEPT ![t] = Append(@, m)] /\ UNCHANGED <<sendBuffer, toServer>>
      \/ /\ socketAuth[t] \/ m.n \in logins'
         /\ socket[t] # None
         /\ toServer' = [toServer EXCEPT ![socket[t]] = Append(@, m)]
         /\ UNCHANGED <<queue, sendBuffer>>
      \/ /\ socketAuth[t] \/ m.n \in logins'
         /\ socket[t] = None
         /\ sendBuffer' = [sendBuffer EXCEPT ![t] = Append(@, m)] /\ UNCHANGED <<queue, toServer>>
      \/ UNCHANGED <<queue, sendBuffer, toServer>>
  BY <1>1, <1>2 DEF EmitSocketEvent
<1>9. /\ queue \in [Tabs -> Seq(Messages)] /\ sendBuffer \in [Tabs -> Seq(Messages)]
      /\ toServer \in [Sockets -> Seq(Messages)]
  BY <1>2 DEF SessionTypeOK
<1>10. /\ \A x \in Tabs : Ordered(logins', queue[x]) /\ Ordered(logins', sendBuffer[x])
       /\ \A z \in Sockets :
            /\ Ordered(logins', toServer[z])
            /\ \A i, j \in 1 .. Len(received[z]) : i < j => Before(logins', received[z][i], received[z][j])
            /\ \A x \in Got(z), y \in Numbers(toServer[z]) : Before(logins', x, y)
  <2>1. /\ \A x, y : Before(logins, x, y) => Before(logins', x, y)
        /\ \A q : Ordered(logins, q) => Ordered(logins', q)
    <3>1. PICK L : L = logins'
      OBVIOUS
    <3>2. QED
      BY <1>2, <3>1, MoreLogins
  <2>2. QED
    BY <1>3, <2>1 DEF EventsInOrder
<1>11. /\ \A x \in Tabs : /\ socketAuth[x] => queue[x] = <<>>
                          /\ ~socketAuth[x] => Numbers(sendBuffer[x]) \subseteq logins'
                          /\ socket[x] # None => sendBuffer[x] = <<>>
       /\ \A z \in Made : ~socketAuth[owner[z]] => Numbers(toServer[z]) \cup Got(z) \subseteq logins'
  BY <1>2, <1>3 DEF NothingWaits
<1>12. /\ \A x \in Tabs : \A i \in Numbers(queue[x]) : Before(logins', i, m.n)
       /\ \A x \in Tabs : \A i \in Numbers(sendBuffer[x]) : Before(logins', i, m.n)
       /\ \A z \in Sockets : \A i \in Numbers(toServer[z]) \cup Got(z) : Before(logins', i, m.n)
  BY <1>4, <1>5, <1>6 DEF PlaceKinds
<1>13. CASE UNCHANGED <<queue, sendBuffer, toServer>>
  <2>1. PICK k0 \in PlaceKinds, x0 \in Tabs \cup Sockets : x0 \in Of(k0) /\ k0 = "queue" /\ x0 = t
    BY <1>6 DEF PlaceKinds
  <2>2. Moves(k0, x0, M)
    BY <1>6, <1>7, <1>13 DEF Moves
  <2> HIDE DEF M
  <2>3. InOnePlace'
    BY <1>2, <1>3, <1>7, <2>1, <2>2, EventsMove
  <2>4. EventsInOrder'
    BY <1>2, <1>6, <1>10, <1>13 DEF EventsInOrder
  <2>5. NothingWaits'
    BY <1>2, <1>6, <1>11, <1>13 DEF NothingWaits, Made
  <2>6. QED
    BY <2>3, <2>4, <2>5 DEF EventsKept
<1>14. CASE ~socketAuth[t] /\ queue' = [queue EXCEPT ![t] = Append(@, m)] /\ UNCHANGED <<sendBuffer, toServer>>
  <2>1. /\ Numbers(queue'[t]) = Numbers(queue[t]) \cup M /\ Ordered(logins', queue'[t])
        /\ \A x \in Tabs : x # t => queue'[x] = queue[x]
    <3>1. queue[t] \in Seq(Messages) /\ queue'[t] = Append(queue[t], m)
      BY <1>9, <1>14
    <3>2. PICK L : L = logins'
      OBVIOUS
    <3>3. QED
      BY <1>2, <1>10, <1>12, <1>14, <3>1, <3>2, NumbersGrow
  <2>2. PICK k0 \in PlaceKinds, x0 \in Tabs \cup Sockets : x0 \in Of(k0) /\ k0 = "queue" /\ x0 = t
    BY <1>6 DEF PlaceKinds
  <2>3. Moves(k0, x0, M)
    BY <1>6, <1>7, <1>14, <2>1, <2>2 DEF Moves
  <2> HIDE DEF M
  <2>4. InOnePlace'
    BY <1>2, <1>3, <1>7, <2>2, <2>3, EventsMove
  <2>5. EventsInOrder'
    BY <1>2, <1>6, <1>10, <1>14, <2>1 DEF EventsInOrder
  <2>6. NothingWaits'
    BY <1>2, <1>6, <1>11, <1>14, <2>1 DEF NothingWaits, Made
  <2>7. QED
    BY <2>4, <2>5, <2>6 DEF EventsKept
<1>15. CASE /\ socketAuth[t] \/ m.n \in logins'
            /\ socket[t] = None
            /\ sendBuffer' = [sendBuffer EXCEPT ![t] = Append(@, m)] /\ UNCHANGED <<queue, toServer>>
  <2>1. /\ Numbers(sendBuffer'[t]) = Numbers(sendBuffer[t]) \cup M /\ Ordered(logins', sendBuffer'[t])
        /\ \A x \in Tabs : x # t => sendBuffer'[x] = sendBuffer[x]
    <3>1. sendBuffer[t] \in Seq(Messages) /\ sendBuffer'[t] = Append(sendBuffer[t], m)
      BY <1>9, <1>15
    <3>2. PICK L : L = logins'
      OBVIOUS
    <3>3. QED
      BY <1>2, <1>10, <1>12, <1>15, <3>1, <3>2, NumbersGrow
  <2>2. PICK k0 \in PlaceKinds, x0 \in Tabs \cup Sockets : x0 \in Of(k0) /\ k0 = "buffer" /\ x0 = t
    BY <1>6 DEF PlaceKinds
  <2>3. Moves(k0, x0, M)
    BY <1>6, <1>7, <1>15, <2>1, <2>2 DEF Moves
  <2>4. ~socketAuth[t] => Numbers(sendBuffer'[t]) \subseteq logins'
    BY <1>2, <1>11, <1>15, <2>1
  <2> HIDE DEF M
  <2>5. InOnePlace'
    BY <1>2, <1>3, <1>7, <2>2, <2>3, EventsMove
  <2>6. EventsInOrder'
    BY <1>2, <1>6, <1>10, <1>15, <2>1 DEF EventsInOrder
  <2>7. NothingWaits'
    BY <1>2, <1>6, <1>11, <1>15, <2>1, <2>4 DEF NothingWaits, Made
  <2>8. QED
    BY <2>5, <2>6, <2>7 DEF EventsKept
<1>16. CASE /\ socketAuth[t] \/ m.n \in logins'
            /\ socket[t] # None
            /\ toServer' = [toServer EXCEPT ![socket[t]] = Append(@, m)]
            /\ UNCHANGED <<queue, sendBuffer>>
  <2>1. PICK s \in Made : s = socket[t] /\ s \in Sockets /\ owner[s] = t
    BY <1>2, <1>16
  <2>2. /\ Numbers(toServer'[s]) = Numbers(toServer[s]) \cup M /\ Ordered(logins', toServer'[s])
        /\ \A x \in Sockets : x # s => toServer'[x] = toServer[x]
    <3>1. toServer[s] \in Seq(Messages) /\ toServer'[s] = Append(toServer[s], m)
      BY <1>9, <1>16, <2>1
    <3>2. PICK L : L = logins'
      OBVIOUS
    <3>3. QED
      BY <1>2, <1>9, <1>10, <1>12, <1>16, <2>1, <3>1, <3>2, NumbersGrow
  <2>3. PICK k0 \in PlaceKinds, x0 \in Tabs \cup Sockets : x0 \in Of(k0) /\ k0 = "wire" /\ x0 = s
    BY <1>6, <2>1 DEF PlaceKinds
  <2>4. Moves(k0, x0, M)
    BY <1>6, <1>7, <1>16, <2>2, <2>3 DEF Moves
  <2>5. ~socketAuth[t] => Numbers(toServer'[s]) \cup Got(s) \subseteq logins'
    BY <1>2, <1>11, <1>16, <2>1, <2>2
  <2>6. ASSUME NEW x \in Got(s), NEW y \in Numbers(toServer'[s]) PROVE Before(logins', x, y)
    <3>1. y \in Numbers(toServer[s]) \/ y = m.n
      BY <1>2, <2>2
    <3>2. QED
      BY <1>10, <1>12, <2>1, <3>1
  <2> HIDE DEF M
  <2>7. InOnePlace'
    BY <1>2, <1>3, <1>7, <2>3, <2>4, EventsMove
  <2>8. EventsInOrder'
    <3>1. ASSUME NEW z \in Sockets
          PROVE  /\ Ordered(logins', toServer'[z])
                 /\ \A i, j \in 1 .. Len(received[z]) : i < j => Before(logins', received[z][i], received[z][j])
                 /\ \A x \in Got(z), y \in Numbers(toServer'[z]) : Before(logins', x, y)
      BY <1>10, <2>2, <2>6
    <3>2. QED
      BY <1>2, <1>6, <1>10, <1>16, <3>1 DEF EventsInOrder
  <2>9. NothingWaits'
    <3>1. ASSUME NEW z \in Made, ~socketAuth[owner[z]]
          PROVE  Numbers(toServer'[z]) \cup Got(z) \subseteq logins'
      BY <1>2, <1>11, <2>1, <2>2, <2>5, <3>1
    <3>2. QED
      BY <1>2, <1>6, <1>11, <1>16, <3>1 DEF NothingWaits, Made
  <2>10. QED
    BY <2>7, <2>8, <2>9 DEF EventsKept
<1>17. QED
  BY <1>8, <1>13, <1>14, <1>15, <1>16

\* The answer to authUser arrives, and the queue goes out.
LEMMA ReceiveEvents ==
  ASSUME EventsInv, NEW t \in Tabs, ClientReceives(t)
  PROVE  EventsKept'
<1>1. /\ SessionTypeOK /\ Made \subseteq Sockets /\ emitted \in Nat
      /\ UNCHANGED <<received, socket, owner, emitted, logins, sendBuffer>>
  BY MadeSockets DEF EventsInv, RecordsInv, SessionTypeOK, ClientReceives, gatewayVars
<1>2. PICK s \in Made : s = socket[t] /\ s \in Sockets /\ owner[s] = t
  BY <1>1 DEF ClientReceives, EventsInv, RecordsInv, SocketsKnown
<1>3. /\ InOnePlace /\ EventsInOrder /\ NothingWaits
      /\ queue \in [Tabs -> Seq(Messages)] /\ toServer \in [Sockets -> Seq(Messages)]
      /\ socketAuth \in [Tabs -> BOOLEAN]
  BY <1>1 DEF EventsInv, EventsKept, SessionTypeOK
<1>4. CASE UNCHANGED <<socketAuth, toServer, queue>>
  BY <1>1, <1>4, EventsShrink
<1>5. CASE /\ socketAuth' = [socketAuth EXCEPT ![t] = TRUE]
           /\ toServer' = [toServer EXCEPT ![s] = @ \o queue[t]]
           /\ queue' = [queue EXCEPT ![t] = <<>>]
  <2>1. /\ queue[t] \in Seq(Messages) /\ toServer[s] \in Seq(Messages)
        /\ queue'[t] = <<>> /\ \A x \in Tabs : x # t => queue'[x] = queue[x]
        /\ toServer'[s] = toServer[s] \o queue[t] /\ \A x \in Sockets : x # s => toServer'[x] = toServer[x]
        /\ socketAuth'[t] /\ \A x \in Tabs : x # t => socketAuth'[x] = socketAuth[x]
    BY <1>2, <1>3, <1>5
  <2>2. CASE socketAuth[t]
    <3>1. queue[t] = <<>> /\ toServer'[s] = toServer[s]
      BY <1>3, <2>1, <2>2, ConcatEmptySeq DEF NothingWaits
    <3>2. toServer' = toServer /\ queue' = queue /\ socketAuth' = socketAuth
      BY <1>2, <1>3, <1>5, <2>1, <2>2, <3>1
    <3>3. QED
      BY <1>1, <3>2, EventsShrink
  <2>3. CASE ~socketAuth[t]
    <3>1. Numbers(toServer[s]) \cup Got(s) \subseteq logins
      BY <1>2, <1>3, <2>3 DEF NothingWaits
    <3>2. Numbers(toServer'[s]) = Numbers(toServer[s]) \cup Numbers(queue[t])
      BY <2>1, NumbersJoin
    <3>3. \A x \in Sockets : Got(x)' = Got(x)
      BY <1>1 DEF Got
    <3>4. PICK M : M = Numbers(queue[t])
      OBVIOUS
    <3>5. /\ M \subseteq 1 .. emitted'
          /\ \A x \in Tabs : (x # t => Numbers(queue[x]) \cap M = {}) /\ Numbers(sendBuffer[x]) \cap M = {}
          /\ \A x \in Sockets : Numbers(toServer[x]) \cap M = {} /\ Got(x) \cap M = {}
      <4>1. /\ \A x \in Tabs : EventsAt("queue", x) = Numbers(queue[x]) /\ EventsAt("buffer", x) = Numbers(sendBuffer[x])
            /\ \A x \in Sockets : EventsAt("wire", x) = Numbers(toServer[x]) /\ EventsAt("got", x) = Got(x)
            /\ Of("queue") = Tabs /\ Of("buffer") = Tabs /\ Of("wire") = Sockets /\ Of("got") = Sockets
        BY DEF EventsAt, Of
      <4>2. \A k \in PlaceKinds : \A x \in Of(k) :
              EventsAt(k, x) \subseteq 1 .. emitted /\ (k # "queue" \/ x # t => EventsAt(k, x) \cap EventsAt("queue", t) = {})
        BY <1>3, <4>1 DEF InOnePlace, PlaceKinds
      <4>3. M = EventsAt("queue", t)
        BY <3>4, <4>1
      <4>4. QED
        BY <1>1, <4>1, <4>2, <4>3 DEF PlaceKinds
    <3>6. InOnePlace'
      <4>1. PICK k0 \in PlaceKinds, x0 \in Tabs \cup Sockets : x0 \in Of(k0) /\ k0 = "wire" /\ x0 = s
        BY <1>2 DEF PlaceKinds, Of
      <4>2. Moves(k0, x0, M)
        <5>1. \A x \in Tabs : Numbers(queue'[x]) \subseteq Numbers(queue[x]) \ M
          BY <2>1, <3>4, <3>5, NothingNumbered
        <5>2. \A x \in Tabs : Numbers(sendBuffer'[x]) \subseteq Numbers(sendBuffer[x]) \ M
          BY <1>1, <3>5
        <5>3. \A x \in Sockets : IF x = s THEN Numbers(toServer'[x]) \subseteq Numbers(toServer[x]) \cup M
                                 ELSE Numbers(toServer'[x]) \subseteq Numbers(toServer[x]) \ M
          BY <2>1, <3>2, <3>4, <3>5
        <5>4. \A x \in Sockets : Got(x)' \subseteq Got(x) \ M
          BY <3>3, <3>5
        <5>5. QED
          BY <4>1, <5>1, <5>2, <5>3, <5>4 DEF Moves
      <4>3. emitted <= emitted' /\ emitted' \in Nat
        BY <1>1
      <4>4. QED
        BY <1>1, <1>3, <3>5, <4>1, <4>2, <4>3, EventsMove
    <3>7. EventsInOrder'
      <4>1. \A x \in Numbers(toServer[s]) \cup Got(s), y \in Numbers(queue[t]) : Before(logins, x, y)
        <5>1. ASSUME NEW x \in Numbers(toServer[s]) \cup Got(s), NEW y \in Numbers(queue[t])
              PROVE  Before(logins, x, y)
          <6>1. x \in logins /\ x \notin M /\ y \in M
            BY <1>2, <3>1, <3>4, <3>5
          <6>2. QED
            BY <6>1 DEF Before
        <5>2. QED
          BY <5>1
      <4>2. Ordered(logins, toServer'[s])
        <5>1. Ordered(logins, toServer[s]) /\ Ordered(logins, queue[t])
          BY <1>2, <1>3 DEF EventsInOrder
        <5>2. QED
          BY <2>1, <4>1, <5>1, NumbersJoin
      <4>3. ASSUME NEW z \in Sockets
            PROVE  /\ Ordered(logins, toServer'[z])
                   /\ \A i, j \in 1 .. Len(received[z]) : i < j => Before(logins, received[z][i], received[z][j])
                   /\ \A x \in Got(z), y \in Numbers(toServer'[z]) : Before(logins, x, y)
        <5>1. CASE z = s
          BY <1>3, <3>2, <4>1, <4>2, <5>1 DEF EventsInOrder
        <5>2. CASE z # s
          BY <1>3, <2>1, <5>2 DEF EventsInOrder
        <5>3. QED
          BY <5>1, <5>2
      <4>4. \A x \in Tabs : Ordered(logins, queue'[x]) /\ Ordered(logins, sendBuffer[x])
        BY <1>3, <2>1, NothingNumbered DEF EventsInOrder
      <4>5. QED
        BY <1>1, <3>3, <4>3, <4>4 DEF EventsInOrder
    <3>8. NothingWaits'
      <4>1. \A x \in Tabs : /\ socketAuth'[x] => queue'[x] = <<>>
                            /\ ~socketAuth'[x] => Numbers(sendBuffer[x]) \subseteq logins
                            /\ socket[x] # None => sendBuffer[x] = <<>>
        BY <1>3, <2>1 DEF NothingWaits
      <4>2. \A x \in Made : ~socketAuth'[owner[x]] => Numbers(toServer'[x]) \cup Got(x) \subseteq logins
        <5>1. \A x \in Made : owner[x] \in Tabs /\ x \in Sockets
          BY <1>1, MadeSockets
        <5>2. ASSUME NEW x \in Made, ~socketAuth'[owner[x]]
              PROVE  Numbers(toServer'[x]) \cup Got(x) \subseteq logins
          <6>1. owner[x] # t /\ x # s
            BY <1>2, <2>1, <5>2
          <6>2. ~socketAuth[owner[x]] /\ toServer'[x] = toServer[x]
            BY <2>1, <5>1, <5>2, <6>1
          <6>3. QED
            BY <1>3, <6>2 DEF NothingWaits
        <5>3. QED
          BY <5>2
      <4>3. Made \subseteq Sockets
        BY <1>1
      <4>4. QED
        BY <1>1, <3>3, <4>1, <4>2, <4>3 DEF NothingWaits, Made
    <3>9. QED
      BY <3>6, <3>7, <3>8 DEF EventsKept
  <2>4. QED
    BY <2>2, <2>3
<1>6. QED
  BY <1>2, <1>4, <1>5 DEF ClientReceives

\* A new socket takes what was emitted without one.
LEMMA ConnectEvents ==
  ASSUME EventsInv, NEW t \in Tabs, Connects(t)
  PROVE  EventsKept'
<1>1. PICK s : s = Len(owner) + 1
  OBVIOUS
<1>2. /\ SessionTypeOK /\ Made \subseteq Sockets /\ emitted \in Nat /\ Made = 1 .. Len(owner) /\ Len(owner) \in Nat
      /\ \A x \in Made : owner[x] \in Tabs
      /\ UNCHANGED <<received, emitted, logins, queue, socketAuth>>
      /\ owner' = Append(owner, t) /\ socket' = [socket EXCEPT ![t] = s]
      /\ toServer' = [toServer EXCEPT ![s] = sendBuffer[t]]
      /\ sendBuffer' = [sendBuffer EXCEPT ![t] = <<>>]
  BY <1>1, MadeSockets DEF EventsInv, RecordsInv, SessionTypeOK, Connects
<1>3. s \in Sockets /\ s \notin Made
  <2>1. bound.sockets \in 0 .. MaxSockets /\ s <= bound.sockets
    BY <1>1, <1>2, SessionAssumption DEF Connects, SessionTypeOK
  <2>2. MaxSockets \in Nat
    BY SessionAssumption
  <2>3. QED
    BY <1>1, <1>2, <2>1, <2>2 DEF Sockets
<1>4. Made' = Made \cup {s} /\ owner'[s] = t /\ \A x \in Made : owner'[x] = owner[x]
  <2>1. /\ owner' \in Seq(Tabs) /\ Len(owner') = Len(owner) + 1 /\ owner'[s] = t
        /\ \A x \in Made : owner'[x] = owner[x]
    BY <1>1, <1>2, OneMore DEF SessionTypeOK
  <2>2. DOMAIN owner' = 1 .. Len(owner')
    BY <2>1, LenProperties
  <2>3. QED
    BY <1>1, <1>2, <2>1, <2>2 DEF Made
<1>5. /\ InOnePlace /\ EventsInOrder /\ NothingWaits
      /\ toServer[s] = <<>> /\ received[s] = <<>>
      /\ sendBuffer \in [Tabs -> Seq(Messages)] /\ toServer \in [Sockets -> Seq(Messages)]
      /\ socket \in [Tabs -> Sockets \cup {None}]
  BY <1>2, <1>3 DEF EventsInv, EventsKept, SessionTypeOK, RecordsInv, SocketsKnown
<1>6. /\ toServer'[s] = sendBuffer[t] /\ \A x \in Sockets : x # s => toServer'[x] = toServer[x]
      /\ sendBuffer'[t] = <<>> /\ \A x \in Tabs : x # t => sendBuffer'[x] = sendBuffer[x]
      /\ \A x \in Tabs : x # t => socket'[x] = socket[x]
  BY <1>2, <1>3, <1>5
<1>7. Got(s) = {} /\ \A x \in Sockets : Got(x)' = Got(x)
  BY <1>2, <1>5 DEF Got
<1>8. PICK M : M = Numbers(sendBuffer[t])
  OBVIOUS
<1>9. /\ M \subseteq 1 .. emitted'
      /\ \A x \in Tabs : (x # t => Numbers(sendBuffer[x]) \cap M = {}) /\ Numbers(queue[x]) \cap M = {}
      /\ \A x \in Sockets : Numbers(toServer[x]) \cap M = {} /\ Got(x) \cap M = {}
  <2>1. /\ \A x \in Tabs : EventsAt("queue", x) = Numbers(queue[x]) /\ EventsAt("buffer", x) = Numbers(sendBuffer[x])
        /\ \A x \in Sockets : EventsAt("wire", x) = Numbers(toServer[x]) /\ EventsAt("got", x) = Got(x)
        /\ Of("queue") = Tabs /\ Of("buffer") = Tabs /\ Of("wire") = Sockets /\ Of("got") = Sockets
    BY DEF EventsAt, Of
  <2>2. \A k \in PlaceKinds : \A x \in Of(k) :
          EventsAt(k, x) \subseteq 1 .. emitted /\ (k # "buffer" \/ x # t => EventsAt(k, x) \cap EventsAt("buffer", t) = {})
    BY <1>5, <2>1 DEF InOnePlace, PlaceKinds
  <2>3. M = EventsAt("buffer", t)
    BY <1>8, <2>1
  <2>4. QED
    BY <1>2, <2>1, <2>2, <2>3 DEF PlaceKinds
<1>10. InOnePlace'
  <2>1. PICK k0 \in PlaceKinds, x0 \in Tabs \cup Sockets : x0 \in Of(k0) /\ k0 = "wire" /\ x0 = s
    BY <1>3 DEF PlaceKinds, Of
  <2>2. Moves(k0, x0, M)
    BY <1>2, <1>5, <1>6, <1>7, <1>8, <1>9, <2>1, NothingNumbered DEF Moves
  <2>3. emitted <= emitted' /\ emitted' \in Nat
    BY <1>2
  <2>4. QED
    BY <1>2, <1>5, <1>9, <2>1, <2>2, <2>3, EventsMove
<1>11. EventsInOrder'
  <2>1. ASSUME NEW z \in Sockets
        PROVE  /\ Ordered(logins, toServer'[z])
               /\ \A i, j \in 1 .. Len(received[z]) : i < j => Before(logins, received[z][i], received[z][j])
               /\ \A x \in Got(z), y \in Numbers(toServer'[z]) : Before(logins, x, y)
    <3>1. CASE z = s
      BY <1>5, <1>6, <1>7, <3>1 DEF EventsInOrder
    <3>2. CASE z # s
      BY <1>5, <1>6, <3>2 DEF EventsInOrder
    <3>3. QED
      BY <3>1, <3>2
  <2>2. \A x \in Tabs : Ordered(logins, queue[x]) /\ Ordered(logins, sendBuffer'[x])
    BY <1>5, <1>6, NothingNumbered DEF EventsInOrder
  <2>3. QED
    BY <1>2, <1>7, <2>1, <2>2 DEF EventsInOrder
<1>12. NothingWaits'
  <2>1. \A x \in Tabs : /\ socketAuth[x] => queue[x] = <<>>
                        /\ ~socketAuth[x] => Numbers(sendBuffer'[x]) \subseteq logins
                        /\ socket'[x] # None => sendBuffer'[x] = <<>>
    BY <1>5, <1>6, NothingNumbered DEF NothingWaits
  <2>2. ASSUME NEW x \in Made', ~socketAuth[owner'[x]]
        PROVE  Numbers(toServer'[x]) \cup Got(x) \subseteq logins
    <3>1. CASE x = s
      BY <1>4, <1>5, <1>6, <1>7, <2>2, <3>1 DEF NothingWaits
    <3>2. CASE x # s
      BY <1>2, <1>3, <1>4, <1>5, <1>6, <2>2, <3>2 DEF NothingWaits
    <3>3. QED
      BY <3>1, <3>2
  <2>3. Made' \subseteq Sockets
    BY <1>2, <1>3, <1>4
  <2>4. QED
    BY <1>2, <1>7, <2>1, <2>2, <2>3 DEF NothingWaits
<1>13. QED
  BY <1>10, <1>11, <1>12 DEF EventsKept

\* A message is delivered.
LEMMA MessageEvents ==
  ASSUME EventsInv, NEW s \in Sockets, HandleMessage(s)
  PROVE  EventsKept'
<1>1. PICK m : m = Head(toServer[s])
  OBVIOUS
<1>2. /\ SessionTypeOK /\ Made \subseteq Sockets /\ emitted \in Nat /\ s \in Made
      /\ toServer[s] # <<>> /\ toServer[s] \in Seq(Messages)
      /\ UNCHANGED <<socket, owner, emitted, logins, queue, sendBuffer, socketAuth>>
      /\ toServer' = [toServer EXCEPT ![s] = Tail(@)]
      /\ received' = [received EXCEPT ![s] = Append(@, m.n)]
  BY <1>1, MadeSockets DEF EventsInv, RecordsInv, HandleMessage, SessionTypeOK, tabVars
<1>3. /\ InOnePlace /\ EventsInOrder /\ NothingWaits
      /\ received \in [Sockets -> Seq(Nat)] /\ received[s] \in Seq(Nat)
      /\ toServer \in [Sockets -> Seq(Messages)]
  BY <1>2 DEF EventsInv, EventsKept, SessionTypeOK
<1>4. /\ Numbers(Tail(toServer[s])) \subseteq Numbers(toServer[s]) /\ m.n \in Numbers(toServer[s])
      /\ Ordered(logins, Tail(toServer[s])) /\ \A x \in Numbers(Tail(toServer[s])) : Before(logins, m.n, x)
  <2>1. Ordered(logins, toServer[s])
    BY <1>3 DEF EventsInOrder
  <2>2. QED
    BY <1>1, <1>2, <2>1, NumbersShrink
<1>5. /\ toServer'[s] = Tail(toServer[s]) /\ \A x \in Sockets : x # s => toServer'[x] = toServer[x]
      /\ received'[s] = Append(received[s], m.n) /\ \A x \in Sockets : x # s => received'[x] = received[x]
  BY <1>2, <1>3
<1>6. m.n \in Nat
  <2>1. m \in Messages
    BY <1>1, <1>2, Rest
  <2>2. QED
    BY <2>1 DEF Messages
<1>7. /\ Len(received[s]) \in Nat /\ Len(received'[s]) = Len(received[s]) + 1
      /\ \A i \in 1 .. Len(received[s]) : received'[s][i] = received[s][i]
      /\ received'[s][Len(received[s]) + 1] = m.n
  BY <1>3, <1>5, <1>6, OneMore
<1>8. /\ Got(s)' = Got(s) \cup {m.n}
      /\ \A x \in Sockets : x # s => Got(x)' = Got(x)
  <2>1. Got(s)' = {received'[s][i] : i \in 1 .. Len(received'[s])}
    BY DEF Got
  <2>2. Got(s)' = Got(s) \cup {m.n}
    BY <1>7, <2>1 DEF Got
  <2>3. QED
    BY <1>5, <2>2 DEF Got
<1>9. PICK M : M = {m.n}
  OBVIOUS
<1>10. /\ M \subseteq 1 .. emitted'
       /\ \A x \in Tabs : Numbers(sendBuffer[x]) \cap M = {} /\ Numbers(queue[x]) \cap M = {}
       /\ \A x \in Sockets : (x # s => Numbers(toServer[x]) \cap M = {}) /\ Got(x) \cap M = {}
  <2>1. /\ \A x \in Tabs : EventsAt("queue", x) = Numbers(queue[x]) /\ EventsAt("buffer", x) = Numbers(sendBuffer[x])
        /\ \A x \in Sockets : EventsAt("wire", x) = Numbers(toServer[x]) /\ EventsAt("got", x) = Got(x)
        /\ Of("queue") = Tabs /\ Of("buffer") = Tabs /\ Of("wire") = Sockets /\ Of("got") = Sockets
    BY DEF EventsAt, Of
  <2>2. \A k \in PlaceKinds : \A x \in Of(k) :
          EventsAt(k, x) \subseteq 1 .. emitted /\ (k # "wire" \/ x # s => EventsAt(k, x) \cap EventsAt("wire", s) = {})
    BY <1>3, <2>1 DEF InOnePlace, PlaceKinds
  <2>3. M \subseteq EventsAt("wire", s)
    BY <1>4, <1>9, <2>1
  <2>4. \A X : X \cap EventsAt("wire", s) = {} => X \cap M = {}
    BY <2>3
  <2>5. \A k \in PlaceKinds : \A x \in Of(k) :
          EventsAt(k, x) \subseteq 1 .. emitted /\ (k # "wire" \/ x # s => EventsAt(k, x) \cap M = {})
    BY <2>2, <2>4
  <2>6. M \subseteq 1 .. emitted
    BY <2>1, <2>3, <2>5 DEF PlaceKinds
  <2>7. QED
    BY <1>2, <2>1, <2>5, <2>6 DEF PlaceKinds
<1>11. InOnePlace'
  <2>1. PICK k0 \in PlaceKinds, x0 \in Tabs \cup Sockets : x0 \in Of(k0) /\ k0 = "got" /\ x0 = s
    BY DEF PlaceKinds, Of
  <2>2. Numbers(toServer'[s]) \cap M = {}
    <3>1. \A x \in Numbers(Tail(toServer[s])) : x # m.n
      BY <1>4, <1>6 DEF Before
    <3>2. QED
      BY <1>5, <1>9, <3>1
  <2>3. Moves(k0, x0, M)
    BY <1>2, <1>4, <1>5, <1>8, <1>9, <1>10, <2>1, <2>2 DEF Moves
  <2>4. emitted <= emitted' /\ emitted' \in Nat
    BY <1>2
  <2>5. QED
    BY <1>2, <1>3, <1>10, <2>1, <2>3, <2>4, EventsMove
<1>12. EventsInOrder'
  <2>1. \A x \in Got(s) : Before(logins, x, m.n)
    BY <1>3, <1>4 DEF EventsInOrder
  <2>2. ASSUME NEW z \in Sockets
        PROVE  /\ Ordered(logins, toServer'[z])
               /\ \A i, j \in 1 .. Len(received'[z]) : i < j => Before(logins, received'[z][i], received'[z][j])
               /\ \A x \in Got(z)', y \in Numbers(toServer'[z]) : Before(logins, x, y)
    <3>1. CASE z # s
      BY <1>3, <1>5, <1>8, <3>1 DEF EventsInOrder
    <3>2. CASE z = s
      <4>1. ASSUME NEW i \in 1 .. Len(received'[s]), NEW j \in 1 .. Len(received'[s]), i < j
            PROVE  Before(logins, received'[s][i], received'[s][j])
        <5>1. i \in 1 .. Len(received[s]) /\ received'[s][i] = received[s][i] /\ received[s][i] \in Got(s)
          BY <1>7, <4>1 DEF Got
        <5>2. CASE j = Len(received[s]) + 1
          BY <1>7, <2>1, <5>1, <5>2
        <5>3. CASE j # Len(received[s]) + 1
          <6>1. j \in 1 .. Len(received[s]) /\ received'[s][j] = received[s][j]
            BY <1>7, <5>3
          <6>2. QED
            BY <1>3, <4>1, <5>1, <6>1 DEF EventsInOrder
        <5>4. QED
          BY <5>2, <5>3
      <4>2. ASSUME NEW x \in Got(s)', NEW y \in Numbers(toServer'[s]) PROVE Before(logins, x, y)
        <5>1. y \in Numbers(toServer[s]) /\ Before(logins, m.n, y)
          BY <1>4, <1>5
        <5>2. x \in Got(s) \/ x = m.n
          BY <1>8
        <5>3. \A z1 \in Got(s), z2 \in Numbers(toServer[s]) : Before(logins, z1, z2)
          BY <1>3 DEF EventsInOrder
        <5>4. QED
          BY <5>1, <5>2, <5>3
      <4>3. Ordered(logins, toServer'[s])
        BY <1>4, <1>5
      <4>4. QED
        BY <3>2, <4>1, <4>2, <4>3
    <3>3. QED
      BY <3>1, <3>2
  <2>3. \A x \in Tabs : Ordered(logins, queue[x]) /\ Ordered(logins, sendBuffer[x])
    BY <1>3 DEF EventsInOrder
  <2>4. QED
    BY <1>2, <2>2, <2>3 DEF EventsInOrder
<1>13. NothingWaits'
  <2>1. \A x \in Made : x \in Sockets /\ (~socketAuth[owner[x]] => Numbers(toServer[x]) \cup Got(x) \subseteq logins)
    BY <1>2, <1>3 DEF NothingWaits
  <2>2. Numbers(toServer'[s]) \cup Got(s)' \subseteq Numbers(toServer[s]) \cup Got(s)
    BY <1>4, <1>5, <1>8
  <2>3. ASSUME NEW x \in Made, ~socketAuth[owner[x]]
        PROVE  Numbers(toServer'[x]) \cup Got(x)' \subseteq logins
    BY <1>5, <1>8, <2>1, <2>2, <2>3
  <2>4. QED
    BY <1>2, <1>3, <2>3 DEF NothingWaits, Made
<1>14. QED
  BY <1>11, <1>12, <1>13 DEF EventsKept

\* A step that leaves the events where they are.
LEMMA EventsRest ==
  ASSUME EventsInv,
         UNCHANGED <<emitted, logins, owner, received, socketAuth, queue, sendBuffer, toServer, socket>>
  PROVE  EventsKept'
BY EventsShrink

LEMMA TabEvents ==
  ASSUME EventsInv, NEW t \in Tabs,
         \/ WsConnect(t) \/ ForceReconnect(t) \/ ClientReceives(t) \/ Connects(t) \/ ConnectionLost(t)
         \/ \E what \in {"list", "login"} : EmitSocketEvent(t, what, None)
         \/ \E what \in {"subscribe", "unsubscribe"}, p \in Pairs : EmitSocketEvent(t, what, p)
  PROVE  EventsKept'
<1>1. /\ emitted \in Nat
      /\ socket \in [Tabs -> Sockets \cup {None}] /\ sendBuffer \in [Tabs -> Seq(Messages)]
      /\ toServer \in [Sockets -> Seq(Messages)]
  BY DEF EventsInv, RecordsInv, SessionTypeOK
<1>2. CASE WsConnect(t)
  BY <1>2, EventsRest DEF WsConnect, wireVars, gatewayVars
<1>3. CASE ForceReconnect(t)
  <2>1. /\ UNCHANGED <<emitted, logins, owner, received, socketAuth, queue, toServer>>
        /\ socket' = [socket EXCEPT ![t] = None] /\ sendBuffer' = [sendBuffer EXCEPT ![t] = <<>>]
    BY <1>3 DEF ForceReconnect, gatewayVars
  <2>2. QED
    BY <1>1, <2>1, EventsShrink
<1>4. CASE ConnectionLost(t)
  <2>1. /\ UNCHANGED <<emitted, logins, owner, received, socketAuth, queue, sendBuffer>>
        /\ socket' = [socket EXCEPT ![t] = None] /\ toServer' = [toServer EXCEPT ![socket[t]] = <<>>]
    BY <1>4 DEF ConnectionLost, gatewayVars
  <2>2. QED
    BY <1>1, <2>1, EventsShrink
<1>5. CASE \E what \in {"list", "login"} : EmitSocketEvent(t, what, None)
  <2>1. PICK what \in {"list", "login"} : EmitSocketEvent(t, what, None)
    BY <1>5
  <2>2. Event(emitted + 1, what, None) \in Messages
    BY <1>1 DEF Event, Messages
  <2>3. QED
    BY <2>1, <2>2, EmitEvents
<1>6. CASE \E what \in {"subscribe", "unsubscribe"}, p \in Pairs : EmitSocketEvent(t, what, p)
  <2>1. PICK what \in {"subscribe", "unsubscribe"}, p \in Pairs : EmitSocketEvent(t, what, p)
    BY <1>6
  <2>2. Event(emitted + 1, what, p) \in Messages
    BY <1>1 DEF Event, Messages
  <2>3. QED
    BY <2>1, <2>2, EmitEvents
<1>7. QED
  BY <1>2, <1>3, <1>4, <1>5, <1>6, ReceiveEvents, ConnectEvents

LEMMA EventsStep ==
  ASSUME EventsInv, [SessionNext]_sessionVars
  PROVE  EventsInv'
<1>1. RecordsInv'
  <2>1. RecordsInv
    BY DEF EventsInv
  <2>2. QED
    BY <2>1, RecordsStep
<1> SUFFICES EventsKept'
  BY <1>1 DEF EventsInv
<1>2. CASE UNCHANGED sessionVars
  BY <1>2, EventsRest DEF sessionVars, tabVars, wireVars, gatewayVars
<1>3. CASE \E t \in Tabs :
             \/ WsConnect(t) \/ ForceReconnect(t) \/ ClientReceives(t) \/ Connects(t) \/ ConnectionLost(t)
             \/ \E what \in {"list", "login"} : EmitSocketEvent(t, what, None)
             \/ \E what \in {"subscribe", "unsubscribe"}, p \in bound.pairs : EmitSocketEvent(t, what, p)
  <2>1. bound.pairs \subseteq Pairs
    BY SessionAssumption DEF EventsInv, RecordsInv, SessionTypeOK
  <2>2. PICK t \in Tabs :
             \/ WsConnect(t) \/ ForceReconnect(t) \/ ClientReceives(t) \/ Connects(t) \/ ConnectionLost(t)
             \/ \E what \in {"list", "login"} : EmitSocketEvent(t, what, None)
             \/ \E what \in {"subscribe", "unsubscribe"}, p \in Pairs : EmitSocketEvent(t, what, p)
    BY <1>3, <2>1
  <2>3. QED
    BY <2>2, TabEvents
<1>4. ASSUME NEW s \in Sockets, HandleDisconnect(s) \/ HandleMessage(s)
      PROVE  EventsKept'
  <2>1. CASE HandleDisconnect(s)
    <3>1. UNCHANGED <<emitted, logins, owner, received, socketAuth, queue, sendBuffer, toServer, socket>>
      BY <2>1 DEF HandleDisconnect, tabVars, wireVars
    <3>2. QED
      BY <3>1, EventsRest
  <2>2. CASE HandleMessage(s)
    BY <2>2, MessageEvents
  <2>3. QED
    BY <1>4, <2>1, <2>2
<1>5. CASE \E p \in Pairs : FeedRemoved(p)
  BY <1>5, EventsRest DEF FeedRemoved, tabVars, wireVars
<1>6. ASSUME NEW c \in authCalls,
             SiteAnswers(c) \/ Rejected(c) \/ Authenticated(c) \/ AuthenticatedStandalone(c)
      PROVE  EventsKept'
  <2>1. CASE SiteAnswers(c)
    BY <2>1, EventsRest DEF SiteAnswers, tabVars, wireVars
  <2>2. CASE Rejected(c)
    BY <2>2, EventsRest DEF Rejected, Ends, tabVars
  <2>3. CASE Authenticated(c)
    BY <2>3, EventsRest DEF Authenticated, Ends, tabVars
  <2>4. CASE AuthenticatedStandalone(c)
    BY <2>4, EventsRest DEF AuthenticatedStandalone, Ends, tabVars
  <2>5. QED
    BY <1>6, <2>1, <2>2, <2>3, <2>4
<1>7. QED
  BY <1>2, <1>3, <1>4, <1>5, <1>6 DEF SessionNext

LEMMA EventsInitially ==
  ASSUME SessionInit
  PROVE  EventsInv
<1>1. RecordsInv
  BY RecordsInitially
<1>2. /\ \A t \in Tabs : queue[t] = <<>> /\ sendBuffer[t] = <<>> /\ ~socketAuth[t]
      /\ \A s \in Sockets : toServer[s] = <<>> /\ received[s] = <<>>
      /\ Made \subseteq Sockets
  BY <1>1, MadeSockets DEF SessionInit, RecordsInv
<1>3. \A s \in Sockets : Got(s) = {}
  BY <1>2 DEF Got
<1>4. \A k \in PlaceKinds : \A x \in Of(k) : EventsAt(k, x) = {}
  BY <1>2, <1>3, NothingNumbered DEF PlaceKinds, Of, EventsAt
<1>5. InOnePlace
  BY <1>4 DEF InOnePlace
<1>6. EventsInOrder /\ NothingWaits
  BY <1>2, <1>3, NothingNumbered DEF EventsInOrder, NothingWaits
<1>7. QED
  BY <1>1, <1>5, <1>6 DEF EventsInv, EventsKept

\* Every event is in one place, and the places are in order, but for logins.
THEOREM EventsInvCorrect == SessionSpec => []EventsInv
<1>1. SessionInit => EventsInv
  BY EventsInitially
<1>2. EventsInv /\ [SessionNext]_sessionVars => EventsInv'
  BY EventsStep
<1>3. QED
  BY <1>1, <1>2, PTL DEF SessionSpec

LEMMA OnceFromEventsInv ==
  ASSUME EventsInv
  PROVE  EventsArriveOnce
<1>1. Made \subseteq Sockets /\ received \in [Sockets -> Seq(Nat)]
  BY MadeSockets DEF EventsInv, RecordsInv, SessionTypeOK
<1>2. \A s \in Made : DOMAIN received[s] = 1 .. Len(received[s])
  BY <1>1, LenProperties
<1>3. \A s \in Made : Range(received[s]) = Got(s)
  BY <1>2 DEF Range, Got
<1>4. \A s1, s2 \in Made : s1 # s2 => Got(s1) \cap Got(s2) = {}
  <2>1. "got" \in PlaceKinds /\ Of("got") = Sockets /\ \A s \in Sockets : EventsAt("got", s) = Got(s)
    BY DEF PlaceKinds, Of, EventsAt
  <2>2. QED
    BY <1>1, <2>1 DEF EventsInv, EventsKept, InOnePlace
<1>5. \A s \in Made : \A i, j \in 1 .. Len(received[s]) : i < j =>
        received[s][i] < received[s][j] \/ (received[s][i] \in logins /\ received[s][i] # received[s][j])
  BY <1>1 DEF EventsInv, EventsKept, EventsInOrder, Before
<1>6. QED
  BY <1>2, <1>3, <1>4, <1>5 DEF EventsArriveOnce

\* Over reconnects and repeated authentications no event of a tab arrives twice,
\* and a socket delivers its events in order, but for a login that overtakes what
\* waits for the authentication (socket.ts).
THEOREM EventsArriveOnceCorrect == SessionSpec => []EventsArriveOnce
BY EventsInvCorrect, OnceFromEventsInv, PTL

-----------------------------------------------------------------------------
(* Requests.                                                               *)

RequestsTypeOK ==
  /\ kind \in [Calls -> Kinds \cup {"none"}]
  /\ asked \in [Calls -> {"no", "waits", "resolved", "rejected"}]
  /\ heard \subseteq Calls
  /\ taken \in [Calls -> SUBSET Calls]
  /\ handled \subseteq Calls
  /\ answers \in Seq([to : Calls, error : BOOLEAN])
  /\ mixed \subseteq Calls

\* A request that was not made has no kind, and nobody works for it.
NotMadeYet ==
  \A r \in Calls : asked[r] = "no" => r \notin heard /\ ~ToCome(r)

\* Whoever waits while another answer of its kind is to come has met that one: be it
\* that it was asked later or that the other was.
MeetingsKnown ==
  \A r \in heard : \A q \in Calls :
    q # r /\ ToCome(q) /\ kind[q] = kind[r] /\ kind[r] # "action" => r \in mixed

RequestsInv == RequestsTypeOK /\ NotMadeYet /\ MeetingsKnown /\ OwnAnswers

\* What is to come after an answer was sent, and after one was taken.
LEMMA AnswerSent ==
  ASSUME RequestsTypeOK, NEW r \in Calls, Replies(r)
  PROVE  \A q \in Calls : ToCome(q)' => ToCome(q)
<1>1. PICK error \in BOOLEAN : answers' = Append(answers, [to |-> r, error |-> error])
  BY DEF Replies
<1> SUFFICES ASSUME NEW q \in Calls, NEW i \in 1 .. Len(answers'), answers'[i].to = q
             PROVE  ToCome(q)
  BY DEF Replies, ToCome
<1>2. CASE i \in 1 .. Len(answers)
  BY <1>1, <1>2 DEF ToCome, RequestsTypeOK
<1>3. CASE i \notin 1 .. Len(answers)
  <2>1. answers'[i] = [to |-> r, error |-> error]
    BY <1>1, <1>3 DEF RequestsTypeOK
  <2>2. QED
    BY <2>1 DEF Replies, ToCome
<1>4. QED
  BY <1>2, <1>3

\* The client takes an answer: the requests that wait for it hear it.
LEMMA AnswerTaken ==
  ASSUME RequestsTypeOK, Receive
  PROVE  /\ Head(answers) \in [to : Calls, error : BOOLEAN]
         /\ ToCome(Head(answers).to)
         /\ \A q \in Calls : ToCome(q)' => ToCome(q)
<1>1. answers # <<>> /\ answers' = Tail(answers) /\ answers \in Seq([to : Calls, error : BOOLEAN])
  BY DEF Receive, RequestsTypeOK
<1>2. Head(answers) = answers[1] /\ 1 \in 1 .. Len(answers)
  BY <1>1
<1>3. \A i \in 1 .. Len(answers') : answers'[i] = answers[i + 1] /\ i + 1 \in 1 .. Len(answers)
  BY <1>1
<1>4. ASSUME NEW q \in Calls, ToCome(q)' PROVE ToCome(q)
  BY <1>3, <1>4 DEF ToCome, Receive
<1>5. Head(answers) \in [to : Calls, error : BOOLEAN]
  BY <1>1, HeadTailProperties, Zenon
<1>6. answers[1].to = Head(answers).to
  BY <1>2
<1>7. ToCome(Head(answers).to)
  BY <1>2, <1>6, Zenon DEF ToCome
<1>8. QED
  BY <1>4, <1>5, <1>7

\* Every step keeps the invariant of the requests.
LEMMA RequestsStep ==
  ASSUME RequestsInv, [RequestsNext]_requestsVars
  PROVE  RequestsInv'
<1> USE DEF RequestsInv
<1>1. ASSUME NEW r \in Calls, NEW k \in Kinds, Ask(r, k) PROVE RequestsInv'
  <2>1. \A q \in Calls : ToCome(q)' <=> ToCome(q) \/ q = r
    BY <1>1 DEF Ask, ToCome, RequestsTypeOK
  <2>2. RequestsTypeOK'
    BY <1>1 DEF Ask, RequestsTypeOK, Kinds
  <2>3. NotMadeYet'
    BY <1>1, <2>1 DEF Ask, RequestsTypeOK, NotMadeYet
  <2>4. ASSUME NEW p \in heard', NEW q \in Calls, q # p, ToCome(q)', kind'[q] = kind'[p], kind'[p] # "action"
        PROVE  p \in mixed'
    <3>1. CASE p = r
      BY <1>1, <2>1, <2>4, <3>1 DEF Ask, RequestsTypeOK, ComparesId
    <3>2. CASE p # r /\ q = r
      BY <1>1, <2>4, <3>2 DEF Ask, RequestsTypeOK, ComparesId
    <3>3. CASE p # r /\ q # r
      BY <1>1, <2>1, <2>4, <3>3 DEF Ask, RequestsTypeOK, MeetingsKnown
    <3>4. QED
      BY <3>1, <3>2, <3>3
  <2>5. OwnAnswers'
    BY <1>1 DEF Ask, RequestsTypeOK, OwnAnswers
  <2>6. QED
    BY <2>2, <2>3, <2>4, <2>5 DEF MeetingsKnown
<1>2. ASSUME NEW r \in Calls, Replies(r) PROVE RequestsInv'
  <2>1. \A q \in Calls : ToCome(q)' => ToCome(q)
    BY <1>2, AnswerSent
  <2>2. RequestsTypeOK'
    BY <1>2 DEF Replies, RequestsTypeOK
  <2>3. QED
    BY <1>2, <2>1, <2>2 DEF Replies, NotMadeYet, MeetingsKnown, OwnAnswers, RequestsTypeOK
<1>3. ASSUME NEW r \in Calls, NeverReplies(r) PROVE RequestsInv'
  BY <1>3 DEF NeverReplies, RequestsTypeOK, NotMadeYet, MeetingsKnown, OwnAnswers, ToCome
<1>4. ASSUME NEW r \in Calls, TimesOut(r) PROVE RequestsInv'
  <2>1. RequestsTypeOK'
    BY <1>4 DEF TimesOut, RequestsTypeOK
  <2>2. NotMadeYet'
    BY <1>4 DEF TimesOut, RequestsTypeOK, NotMadeYet, ToCome
  <2>3. MeetingsKnown'
    BY <1>4 DEF TimesOut, RequestsTypeOK, MeetingsKnown, ToCome
  <2>4. QED
    BY <1>4, <2>1, <2>2, <2>3 DEF TimesOut, OwnAnswers
<1>5. ASSUME Receive PROVE RequestsInv'
  <2> DEFINE it == Head(answers)
             those == {r \in Calls : Concerns(r, it)}
  <2>1. /\ it \in [to : Calls, error : BOOLEAN]
        /\ ToCome(it.to)
        /\ \A q \in Calls : ToCome(q)' => ToCome(q)
    BY <1>5, AnswerTaken
  <2>2. /\ answers' \in Seq([to : Calls, error : BOOLEAN])
        /\ asked' = [r \in Calls |-> IF r \in those /\ asked[r] = "waits" THEN Outcome(r, it) ELSE asked[r]]
        /\ taken' = [r \in Calls |-> IF r \in those THEN taken[r] \cup {it.to} ELSE taken[r]]
        /\ heard' \subseteq heard
        /\ UNCHANGED <<kind, handled, mixed>>
    BY <1>5 DEF Receive, RequestsTypeOK
  <2>3. \A r \in Calls : Outcome(r, it) \in {"waits", "resolved", "rejected"}
    BY DEF Outcome
  <2>4. \A r \in those : r = it.to \/ r \in mixed
    BY <2>1 DEF Concerns, ComparesId, MeetingsKnown
  <2> HIDE DEF it, those
  <2>5. RequestsTypeOK'
    BY <2>1, <2>2, <2>3 DEF RequestsTypeOK
  <2>6. NotMadeYet'
    BY <2>1, <2>2, <2>3 DEF NotMadeYet
  <2>7. MeetingsKnown'
    BY <2>1, <2>2 DEF MeetingsKnown
  <2>8. OwnAnswers'
    BY <2>1, <2>2, <2>4 DEF OwnAnswers
  <2>9. QED
    BY <2>5, <2>6, <2>7, <2>8
<1>6. ASSUME UNCHANGED requestsVars PROVE RequestsInv'
  BY <1>6 DEF requestsVars, RequestsTypeOK, NotMadeYet, MeetingsKnown, OwnAnswers, ToCome
<1>7. QED
  BY <1>1, <1>2, <1>3, <1>4, <1>5, <1>6 DEF RequestsNext

\* The inductive invariant holds for any number of requests.
THEOREM RequestsInvCorrect == RequestsSpec => []RequestsInv
<1>1. RequestsInit => RequestsInv
  BY DEF RequestsInit, RequestsInv, RequestsTypeOK, NotMadeYet, MeetingsKnown, OwnAnswers, ToCome
<1>2. QED
  BY <1>1, RequestsStep, PTL DEF RequestsSpec

\* However answers, time-outs and requests interleave, a request takes the answer of
\* another only where its kind compares no id and the two met.
THEOREM OwnAnswersCorrect == RequestsSpec => []OwnAnswers
<1>1. RequestsInv => OwnAnswers
  BY DEF RequestsInv
<1>2. QED
  BY <1>1, RequestsInvCorrect, PTL
=============================================================================
