------------------------------ MODULE Session ------------------------------
(***************************************************************************)
(* Sockets of the browser's tabs, from socket.ts to the ConnectionService: *)
(* a tab queues its events, but for a login, until it is authenticated,    *)
(* reconnects by itself when the connection is lost and on purpose after a *)
(* login or a logout; the gateway authenticates every socket (and once     *)
(* more for each message of a socket without a user), lists it under its   *)
(* user, and drops the ticker subscriptions of a user whose only socket    *)
(* disconnects.                                                            *)
(*                                                                         *)
(* The site's API and socket.io are external.  A connection may be lost    *)
(* long before the gateway hears of it.  A message is the number of the    *)
(* event among all that the tabs emit, with what the gateway does for it.  *)
(*                                                                         *)
(* A tab listens to a pair with one listenerId.  The ids of subscriptions  *)
(* are counted by each data feed, that is by pair; those of the scripts,   *)
(* which the feeds count too, are left out.                                *)
(***************************************************************************)
EXTENDS Naturals, Sequences, FiniteSets, Functions

CONSTANTS
  Tabs,        \* each with the access token of one user
  Accounts,    \* users that the site knows
  Incognito,   \* '0', the user of a standalone application without the site
  MaxSockets,  \* how many connections are made
  Pairs,       \* exchange, market and symbol of a ticker
  Bounds,      \* of a behaviour: how many tabs are opened, connections made,
               \* events and logins emitted and reconnects forced, and what pairs are listened to
  None         \* no socket, no user, no record, no message

AllUsers == Accounts \cup {Incognito}
Sockets == 1 .. MaxSockets
Subscriptions == [pair : Pairs, id : Nat, listener : Tabs]
Records == [socketClients : SUBSET Sockets, exchangeTickerSubscribes : SUBSET Subscriptions]

ASSUME SessionAssumption ==
  /\ None \notin Nat \cup AllUsers \cup Records
  /\ Incognito \notin Accounts
  /\ MaxSockets \in Nat
  /\ Bounds \subseteq [tabs : Nat, sockets : 0 .. MaxSockets, events : Nat, logins : Nat,
                forced : Nat, pairs : SUBSET Pairs]

VARIABLES
  bound,
  isStandalone,
  \* the tab
  token,         \* the user its token stands for, None after a logout
  socket,        \* its connected socket
  opened,        \* it has called wsConnect, and socket.io keeps connecting
  socketAuth,
  queue,         \* _events
  sendBuffer,    \* of socket.io: emitted while not connected
  emitted,       \* how many events were emitted
  logins,        \* history: which of them were logins
  forced,        \* and reconnects forced
  \* connections
  owner,         \* the tab of each socket made so far
  handshake,     \* and the token it was made with
  toServer,
  toClient,
  heardOf,       \* sockets whose disconnect the gateway has handled
  \* the gateway
  user,          \* client.user
  authCalls,     \* calls of authUser in progress
  connections,   \* of the ConnectionService
  tickers,       \* ticker subscriptions the data feeds hold
  sequence,      \* of each data feed: the ids it has given
  received,      \* history: events each socket has delivered
  uncleaned,     \* history: sockets that were not the only one, or were being
                 \* authenticated, when they disconnected
  orphans        \* history: subscriptions made without a record of their user,
                 \* whose record was replaced, or that went with another one's

tabVars == <<token, socket, opened, socketAuth, queue, sendBuffer, emitted, logins, forced>>
wireVars == <<owner, handshake, toServer, toClient>>
gatewayVars ==
  <<heardOf, user, authCalls, connections, tickers, sequence, received, uncleaned, orphans>>
sessionVars == <<bound, isStandalone, tabVars, wireVars, gatewayVars>>

Made == DOMAIN owner
Event(n, what, pair) == [n |-> n, what |-> what, pair |-> pair]
Listed(u) ==  \* getUserConnections, which finds nothing without a user
  IF u = None THEN {} ELSE IF connections[u] = None THEN {} ELSE connections[u].socketClients
\* A subscription of a record as its data feed knows it.
AtFeed(x) == [pair |-> x.pair, id |-> x.id]
Subscribed(u) ==
  IF connections[u] = None THEN {} ELSE {AtFeed(x) : x \in connections[u].exchangeTickerSubscribes}

SessionInit ==
  /\ bound \in Bounds
  /\ isStandalone \in BOOLEAN
  /\ token \in [Tabs -> Accounts]
  /\ socket = [t \in Tabs |-> None]
  /\ opened = [t \in Tabs |-> FALSE]
  /\ socketAuth = [t \in Tabs |-> FALSE]
  /\ queue = [t \in Tabs |-> <<>>]
  /\ sendBuffer = [t \in Tabs |-> <<>>]
  /\ emitted = 0
  /\ logins = {}
  /\ forced = 0
  /\ owner = <<>>
  /\ handshake = <<>>
  /\ toServer = [s \in Sockets |-> <<>>]
  /\ toClient = [s \in Sockets |-> <<>>]
  /\ heardOf = {}
  /\ user = [s \in Sockets |-> None]
  /\ authCalls = {}
  /\ connections = [u \in AllUsers |-> None]
  /\ tickers = {}
  /\ sequence = [p \in Pairs |-> 0]
  /\ received = [s \in Sockets |-> <<>>]
  /\ uncleaned = {}
  /\ orphans = {}

-----------------------------------------------------------------------------
(* The tab.                                                                *)

\* auth() of the application's start.  (Called again it finds the socket.)
WsConnect(t) ==
  /\ ~opened[t]
  /\ Cardinality({x \in Tabs : opened[x]}) < bound.tabs
  /\ opened' = [opened EXCEPT ![t] = TRUE]
  /\ UNCHANGED <<bound, isStandalone, token, socket, socketAuth, queue, sendBuffer, emitted, logins, forced, wireVars, gatewayVars>>

\* forceReconnect: the answer to a login, or a logout.  The new socket has a
\* buffer of its own; _socketAuth and _events stay as they are.
ForceReconnect(t) ==
  /\ opened[t]
  /\ forced < bound.forced
  /\ forced' = forced + 1
  /\ \E u \in Accounts \cup {None} : u # token[t] /\ token' = [token EXCEPT ![t] = u]
  /\ socket' = [socket EXCEPT ![t] = None]
  /\ sendBuffer' = [sendBuffer EXCEPT ![t] = <<>>]
  /\ toClient' = [s \in Sockets |-> IF s = socket[t] THEN <<>> ELSE toClient[s]]
  /\ UNCHANGED <<bound, isStandalone, opened, socketAuth, queue, emitted, logins, owner, handshake, toServer, gatewayVars>>

\* A login goes out at once, past the queue; before wsConnect it goes nowhere.
EmitSocketEvent(t, what, pair) ==
  LET event == Event(emitted + 1, what, pair)
      sent == what = "login" \/ socketAuth[t]
  IN
  /\ emitted < bound.events
  /\ what = "login" => Cardinality(logins) < bound.logins
  /\ emitted' = emitted + 1
  /\ logins' = IF what = "login" THEN logins \cup {emitted'} ELSE logins
  /\ \/ /\ ~sent
        /\ queue' = [queue EXCEPT ![t] = Append(@, event)]
        /\ UNCHANGED <<sendBuffer, toServer>>
     \/ /\ sent /\ socket[t] # None
        /\ toServer' = [toServer EXCEPT ![socket[t]] = Append(@, event)]
        /\ UNCHANGED <<queue, sendBuffer>>
     \/ /\ sent /\ socket[t] = None /\ opened[t]
        /\ sendBuffer' = [sendBuffer EXCEPT ![t] = Append(@, event)]
        /\ UNCHANGED <<queue, toServer>>
     \/ /\ sent /\ ~opened[t]
        /\ UNCHANGED <<queue, sendBuffer, toServer>>
  /\ UNCHANGED <<bound, isStandalone, token, socket, opened, socketAuth, forced, owner, handshake, toClient, gatewayVars>>

\* Mutant: the queue is not emptied when it is sent.
ClientReceivesKeeps(t) ==
  /\ socket[t] # None
  /\ toClient[socket[t]] # <<>>
  /\ toClient' = [toClient EXCEPT ![socket[t]] = Tail(@)]
  /\ \/ /\ Head(toClient[socket[t]]) = "authenticated"
        /\ socketAuth' = [socketAuth EXCEPT ![t] = TRUE]
        /\ toServer' = [toServer EXCEPT ![socket[t]] = @ \o queue[t]]
     \/ /\ Head(toClient[socket[t]]) = "unauthorized"
        /\ UNCHANGED <<socketAuth, toServer>>
  /\ UNCHANGED <<bound, isStandalone, token, socket, opened, queue, sendBuffer, emitted, logins, forced, owner, handshake, gatewayVars>>

\* The queue goes out behind what the answer finds on its way.
ClientReceives(t) ==
  /\ socket[t] # None
  /\ toClient[socket[t]] # <<>>
  /\ toClient' = [toClient EXCEPT ![socket[t]] = Tail(@)]
  /\ \/ /\ Head(toClient[socket[t]]) = "authenticated"
        /\ socketAuth' = [socketAuth EXCEPT ![t] = TRUE]
        /\ toServer' = [toServer EXCEPT ![socket[t]] = @ \o queue[t]]
        /\ queue' = [queue EXCEPT ![t] = <<>>]
     \/ /\ Head(toClient[socket[t]]) = "unauthorized"
        /\ UNCHANGED <<socketAuth, toServer, queue>>
  /\ UNCHANGED <<bound, isStandalone, token, socket, opened, sendBuffer, emitted, logins, forced, owner, handshake, gatewayVars>>

-----------------------------------------------------------------------------
(* Connections.                                                            *)

\* socket.io connects: the gateway's handleConnection calls authUser, and what
\* was emitted without a connection goes out.
Connects(t) ==
  LET s == Len(owner) + 1 IN
  /\ opened[t] /\ socket[t] = None
  /\ s <= bound.sockets
  /\ owner' = Append(owner, t)
  /\ handshake' = Append(handshake, token[t])
  /\ socket' = [socket EXCEPT ![t] = s]
  /\ toServer' = [toServer EXCEPT ![s] = sendBuffer[t]]
  /\ sendBuffer' = [sendBuffer EXCEPT ![t] = <<>>]
  /\ authCalls' = authCalls \cup {[socket |-> s, pc |-> "site", message |-> None]}
  /\ UNCHANGED <<bound, isStandalone, token, opened, socketAuth, queue, emitted, logins, forced, toClient, heardOf, user,
                 connections, tickers, sequence, received, uncleaned, orphans>>

\* What is on its way is lost; the tab knows, and connects again.
ConnectionLost(t) ==
  /\ socket[t] # None
  /\ toServer' = [toServer EXCEPT ![socket[t]] = <<>>]
  /\ toClient' = [toClient EXCEPT ![socket[t]] = <<>>]
  /\ socket' = [socket EXCEPT ![t] = None]
  /\ UNCHANGED <<bound, isStandalone, token, opened, socketAuth, queue, sendBuffer, emitted, logins, forced, owner, handshake, gatewayVars>>

Current(s) == socket[owner[s]] = s

\* A disconnect of s does not clean up: another socket of the user is listed,
\* s is listed under another user too, or it is still being authenticated.
NotAlone(s) ==
  \/ Cardinality(Listed(user[s])) > 1
  \/ \E u \in AllUsers \ {user[s]} : s \in Listed(u)
  \/ \E c \in authCalls : c.socket = s

\* Mutant: the record goes, the subscriptions of its user stay at the feeds.
HandleDisconnectKeeps(s) ==
  LET u == user[s] IN
  /\ s \in Made /\ ~Current(s) /\ s \notin heardOf
  /\ toServer[s] = <<>>
  /\ heardOf' = heardOf \cup {s}
  /\ connections' = IF Cardinality(Listed(u)) = 1
                    THEN [connections EXCEPT ![u] = None] ELSE connections
  /\ uncleaned' = IF NotAlone(s) THEN uncleaned \cup {s} ELSE uncleaned
  /\ UNCHANGED <<bound, isStandalone, tabVars, wireVars, user, authCalls, tickers, sequence, received, orphans>>

\* handleDisconnect, once what the socket had sent is received.
HandleDisconnect(s) ==
  LET u == user[s] IN
  /\ s \in Made /\ ~Current(s) /\ s \notin heardOf
  /\ toServer[s] = <<>>
  /\ heardOf' = heardOf \cup {s}
  /\ \/ /\ Cardinality(Listed(u)) = 1
        /\ tickers' = tickers \ Subscribed(u)
        /\ connections' = [connections EXCEPT ![u] = None]
     \/ /\ Cardinality(Listed(u)) # 1
        /\ UNCHANGED <<tickers, connections>>
  /\ uncleaned' = IF NotAlone(s) THEN uncleaned \cup {s} ELSE uncleaned
  /\ UNCHANGED <<bound, isStandalone, tabVars, wireVars, user, authCalls, sequence, received, orphans>>

-----------------------------------------------------------------------------
(* The gateway's messages and authUser.                                    *)

\* The first subscription of this listener in the list: that of the lowest id.
IsFirst(x, mine) == x \in mine /\ \A y \in mine : x.id <= y.id

\* Mutant: a subscription is taken from its feed, and stays in the list.
UnsubscribeKeeps(u, records, left, mine) ==
  \E first \in mine :
    /\ IsFirst(first, mine)
    /\ tickers' = tickers \ {AtFeed(first)}
    /\ connections' = records
    /\ orphans' = left

\* It is taken from its feed by pair and id, and from the list by its id alone:
\* those of other pairs with the same id stay at their feeds for good.
Unsubscribe(u, records, left, mine) ==
  \E first \in mine :
    LET alike == {x \in records[u].exchangeTickerSubscribes : x.id = first.id} IN
    /\ IsFirst(first, mine)
    /\ tickers' = tickers \ {AtFeed(first)}
    /\ connections' = [records EXCEPT ![u].exchangeTickerSubscribes = @ \ alike]
    /\ orphans' = left \cup ({AtFeed(x) : x \in alike} \ {AtFeed(first)})

\* What processMessage does for a message of a socket with user u (None: it
\* throws when it reads the user's id, a ticker subscription already made),
\* with these records, when the subscriptions in left are in none of them.
Work(s, u, records, left, message) ==
  LET record == IF u = None THEN None ELSE records[u]
      what == IF message = None THEN "list" ELSE message.what
      sub == [pair |-> message.pair, id |-> sequence[message.pair] + 1, listener |-> owner[s]]
      mine == IF record = None THEN {}
              ELSE {x \in record.exchangeTickerSubscribes :
                      x.pair = message.pair /\ x.listener = owner[s]}
  IN
  \/ /\ what \in {"list", "login"} \/ (what = "unsubscribe" /\ mine = {})
     /\ connections' = records
     /\ UNCHANGED <<tickers, sequence>>
     /\ orphans' = left
  \/ /\ what = "subscribe"
     /\ sequence' = [sequence EXCEPT ![message.pair] = @ + 2]
     /\ tickers' = tickers \cup {AtFeed(sub)}
     /\ connections' = IF record = None THEN records
                       ELSE [records EXCEPT ![u].exchangeTickerSubscribes = @ \cup {sub}]
     /\ orphans' = IF record = None THEN left \cup {AtFeed(sub)} ELSE left
  \/ /\ what = "unsubscribe"
     /\ Unsubscribe(u, records, left, mine)
     /\ UNCHANGED sequence

\* A message arrives: a socket without a user is authenticated first.
HandleMessage(s) ==
  LET message == Head(toServer[s]) IN
  /\ s \in Made /\ toServer[s] # <<>>
  /\ toServer' = [toServer EXCEPT ![s] = Tail(@)]
  /\ received' = [received EXCEPT ![s] = Append(@, message.n)]
  /\ \/ /\ user[s] = None
        /\ authCalls' = authCalls \cup {[socket |-> s, pc |-> "site", message |-> message]}
        /\ UNCHANGED <<connections, tickers, sequence, orphans>>
     \/ /\ user[s] # None
        /\ Work(s, user[s], connections, orphans, message)
        /\ UNCHANGED authCalls
  /\ UNCHANGED <<bound, isStandalone, tabVars, owner, handshake, toClient, heardOf, user, uncleaned>>

\* The site knows the token; or it does not, or fails, and a standalone
\* application goes on without.
SiteAnswers(c) ==
  /\ c.pc = "site"
  /\ \/ handshake[c.socket] # None /\ authCalls' = (authCalls \ {c}) \cup {[c EXCEPT !.pc = "params"]}
     \/ isStandalone /\ authCalls' = (authCalls \ {c}) \cup {[c EXCEPT !.pc = "standalone"]}
  /\ UNCHANGED <<bound, isStandalone, tabVars, wireVars, heardOf, user, connections, tickers, sequence, received, uncleaned, orphans>>

Tell(s, what) ==
  toClient' = IF Current(s) THEN [toClient EXCEPT ![s] = Append(@, what)] ELSE toClient

\* The end of handleConnection: the client is told, a message goes on.
Ends(c, what, u, records, left) ==
  /\ Tell(c.socket, what)
  /\ user' = [user EXCEPT ![c.socket] = u]
  /\ Work(c.socket, u, records, left, c.message)
  /\ authCalls' = authCalls \ {c}
  /\ UNCHANGED <<bound, isStandalone, tabVars, owner, handshake, toServer, heardOf, received, uncleaned>>

\* The site does not know the token, or the secret is not the server's.
Rejected(c) ==
  /\ c.pc = "site"
  /\ Ends(c, "unauthorized", user[c.socket], connections, orphans)

NewRecord(s) == [socketClients |-> {s}, exchangeTickerSubscribes |-> {}]
Joined(record, s) ==
  IF record = None THEN NewRecord(s) ELSE [record EXCEPT !.socketClients = @ \cup {s}]

\* Mutant: an existing record is not looked for.
AuthenticatedAnew(c) ==
  LET u == handshake[c.socket] IN
  /\ c.pc = "params"
  /\ Ends(c, "authenticated", u, [connections EXCEPT ![u] = NewRecord(c.socket)], orphans \cup Subscribed(u))

\* updateParamsList is done: the socket is listed, in a new record if none is.
Authenticated(c) ==
  LET u == handshake[c.socket] IN
  /\ c.pc = "params"
  /\ Ends(c, "authenticated", u,
          [connections EXCEPT ![u] = Joined(@, c.socket)], orphans)

\* Without the site the user is '0', always with a new record.
AuthenticatedStandalone(c) ==
  /\ c.pc = "standalone"
  /\ Ends(c, "authenticated", Incognito,
          [connections EXCEPT ![Incognito] = NewRecord(c.socket)], orphans \cup Subscribed(Incognito))

\* The factory's monitoring removes a feed that nobody is subscribed to; the next
\* one of the pair counts from the start.
FeedRemoved(p) ==
  /\ sequence[p] > 0
  /\ \A x \in tickers : x.pair # p
  /\ sequence' = [sequence EXCEPT ![p] = 0]
  /\ UNCHANGED <<bound, isStandalone, tabVars, wireVars, heardOf, user, authCalls, connections, tickers,
                 received, uncleaned, orphans>>

SessionNext ==
  \/ \E t \in Tabs :
       \/ WsConnect(t)
       \/ ForceReconnect(t)
       \/ \E what \in {"list", "login"} : EmitSocketEvent(t, what, None)
       \/ \E what \in {"subscribe", "unsubscribe"}, p \in bound.pairs : EmitSocketEvent(t, what, p)
       \/ ClientReceives(t)
       \/ Connects(t)
       \/ ConnectionLost(t)
  \/ \E s \in Sockets : HandleDisconnect(s) \/ HandleMessage(s)
  \/ \E p \in Pairs : FeedRemoved(p)
  \/ \E c \in authCalls : SiteAnswers(c) \/ Rejected(c) \/ Authenticated(c) \/ AuthenticatedStandalone(c)

SessionSpec == SessionInit /\ [][SessionNext]_sessionVars

-----------------------------------------------------------------------------
(* Properties.                                                             *)

\* Whatever is queued, buffered and flushed over reconnects and repeated
\* authentications (socket.ts), no event arrives twice, and a socket delivers
\* its events in the order in which the tab emitted them, but for a login, which
\* may overtake what is queued: nothing else overtakes another event.
EventsArriveOnce ==
  /\ \A s \in Made : \A i, j \in DOMAIN received[s] : i < j =>
       \/ received[s][i] < received[s][j]
       \/ received[s][i] \in logins /\ received[s][i] # received[s][j]
  /\ \A s1, s2 \in Made : s1 # s2 => Range(received[s1]) \cap Range(received[s2]) = {}

\* A socket with a user gets the user's broadcasts (getUserConnections), as
\* long as it is open: only the record of '0' is replaced by another login.
OpenIsListed ==
  \A s \in Made : Current(s) /\ user[s] \in Accounts /\ ~isStandalone => s \in Listed(user[s])

\* A closed socket that stays in the list of its user, and keeps the user's
\* ticker subscriptions for good, was not the only one or was still being
\* authenticated when it disconnected (handleDisconnect).
ClosedIsUnlisted ==
  \A u \in AllUsers : Listed(u) \cap heardOf \subseteq uncleaned

\* The data feeds hold the ticker subscriptions that the records list, which
\* a disconnect or an unsubscribe can end, and those that lost their record or
\* went from the list with another one's.
TickersHeld ==
  UNION {Subscribed(u) : u \in AllUsers} = tickers \ orphans

\* The ConnectionService's records follow the sockets and their subscriptions.
RecordsFollowSockets == OpenIsListed /\ ClosedIsUnlisted /\ TickersHeld
=============================================================================
