----------------------------- MODULE BarsLoader -----------------------------
(***************************************************************************)
(* HistoryBarsLoader, which gets the candles of a chart from the engine,   *)
(* month by month, and keeps what it has put together.  Its requests       *)
(* compare no id: an answer goes to every load that waits, and the file    *)
(* name inside the archive decides whether it is of use.  The gateway's    *)
(* failing answer to a chart of a running script comes under the same      *)
(* event, without an archive.                                              *)
(***************************************************************************)
EXTENDS Naturals, Sequences, FiniteSets, Functions

CONSTANTS
  Ranges,      \* of each load that may be made: its months, in order
  MaxFailures, \* bound: failing answers to charts of running scripts
  MaxReplies   \* bound: replies on their way

Loads == DOMAIN Ranges
MonthsOf == UNION {Range(Ranges[l]) : l \in Loads}

ASSUME LoaderAssumption == \A l \in Loads : Ranges[l] \in Seq(MonthsOf) \ {<<>>}

NoArchive == "no archive"

VARIABLES
  loads,      \* of each load: [pc, bars (months put together), hand (a reply)]
  waiting,    \* subscribed callbacks: [load, month]; one that timed out stays
  requested,  \* requests that the engine works on: [load, month]
  replies,    \* on their way: a month's archive, {} (null) or {NoArchive}
  cache,      \* of each load's key: {}, or {the months kept}
  failures,   \* so far
  spoilt      \* history: loads that were cut by a failing answer of a chart

loaderVars == <<loads, waiting, requested, replies, cache, failures, spoilt>>

LoaderInit ==
  /\ loads = [l \in Loads |-> [pc |-> "idle", bars |-> <<>>, hand |-> {}]]
  /\ waiting = {}
  /\ requested = {}
  /\ replies = <<>>
  /\ cache = [l \in Loads |-> {}]
  /\ failures = 0
  /\ spoilt = {}

\* The request for the month that follows the bars of load l.
NextRequest(l, bars) == [load |-> l, month |-> Ranges[l][Len(bars) + 1]]

\* downloadFromEngineServer: the callback is there, the message is sent.
Download(l, bars) ==
  /\ loads' = [loads EXCEPT ![l] = [pc |-> "waits", bars |-> bars, hand |-> {}]]
  /\ waiting' = waiting \cup {NextRequest(l, bars)}
  /\ requested' = requested \cup {NextRequest(l, bars)}

\* The end of a load, with its bars kept or not.
LoadEnds(l, bars, keeps) ==
  /\ loads' = [loads EXCEPT ![l] = [pc |-> "idle", bars |-> bars, hand |-> {}]]
  /\ cache' = [cache EXCEPT ![l] = IF keeps THEN {bars} ELSE @]

\* getBars, when the chart asks: what was kept is given at once.
GetBars(l) ==
  /\ loads[l].pc = "idle"
  /\ cache[l] = {}
  /\ Download(l, <<>>)
  /\ UNCHANGED <<replies, cache, failures, spoilt>>

\* The gateway's answer: the archive of the month, or null after an error.
EngineReplies(request) ==
  /\ Len(replies) < MaxReplies
  /\ requested' = requested \ {request}
  /\ \E reply \in {{request.month}, {}} : replies' = Append(replies, reply)
  /\ UNCHANGED <<loads, waiting, cache, failures, spoilt>>

\* A chart of a running script cannot be loaded: the answer has the event of
\* the tester's and an empty list for data.
RuntimeBarsFail ==
  /\ failures < MaxFailures /\ Len(replies) < MaxReplies
  /\ failures' = failures + 1
  /\ replies' = Append(replies, {NoArchive})
  /\ UNCHANGED <<loads, waiting, requested, cache, spoilt>>

\* The reply is given to every callback, each of which then unsubscribes.
ReplyArrives ==
  LET given == {l \in Loads : loads[l].pc = "waits" /\ NextRequest(l, loads[l].bars) \in waiting}
  IN
  /\ replies # <<>>
  /\ replies' = Tail(replies)
  /\ waiting' = {}
  /\ loads' = [l \in Loads |-> IF l \in given THEN [loads[l] EXCEPT !.pc = "got", !.hand = Head(replies)]
                                              ELSE loads[l]]
  /\ UNCHANGED <<requested, cache, failures, spoilt>>

\* After 20 s without a reply: the load ends with the bars that it has.
ReplyTimesOut(l) ==
  /\ loads[l].pc = "waits"
  /\ LoadEnds(l, loads[l].bars, FALSE)
  /\ UNCHANGED <<waiting, requested, replies, failures, spoilt>>

\* Mutant: the archive is unpacked whatever the name of its file.
HoldsAny(reply, month) == reply \notin {{}, {NoArchive}}

\* unpack finds the file of the month in the archive.
Holds(reply, month) == month \in reply

\* The month is added, and the next one asked for.
TakeMonth(l) ==
  /\ loads[l].pc = "got"
  /\ Holds(loads[l].hand, NextRequest(l, loads[l].bars).month)
  /\ \E month \in loads[l].hand :
       LET bars == Append(loads[l].bars, month) IN
       \/ /\ Len(bars) < Len(Ranges[l])
          /\ Download(l, bars)
          /\ UNCHANGED cache
       \/ /\ Len(bars) = Len(Ranges[l])
          /\ LoadEnds(l, bars, TRUE)
          /\ UNCHANGED <<waiting, requested>>
  /\ UNCHANGED <<replies, failures, spoilt>>

\* Null, or an archive without the file: the bars there are, not kept.
StopShort(l) ==
  /\ loads[l].pc = "got" /\ loads[l].hand # {NoArchive}
  /\ ~Holds(loads[l].hand, NextRequest(l, loads[l].bars).month)
  /\ LoadEnds(l, loads[l].bars, FALSE)
  /\ UNCHANGED <<waiting, requested, replies, failures, spoilt>>

\* Without an archive, unpack throws: this only leaves the loop over several
\* months, after which the bars there are are kept.
UnpackThrows(l) ==
  /\ loads[l].pc = "got" /\ loads[l].hand = {NoArchive}
  /\ LoadEnds(l, loads[l].bars, Len(Ranges[l]) > 1)
  /\ spoilt' = spoilt \cup {l}
  /\ UNCHANGED <<waiting, requested, replies, failures>>

LoaderNext ==
  \/ \E l \in Loads : \/ GetBars(l)
                      \/ ReplyTimesOut(l)
                      \/ TakeMonth(l)
                      \/ StopShort(l)
                      \/ UnpackThrows(l)
  \/ \E request \in requested : EngineReplies(request)
  \/ RuntimeBarsFail
  \/ ReplyArrives

LoaderSpec == LoaderInit /\ [][LoaderNext]_loaderVars

-----------------------------------------------------------------------------
(* Properties.                                                             *)

\* What is kept for a chart is all its months in order, whatever answers its
\* requests were given: those of others (requestId is not compared), late
\* ones, failing ones.  Only the failing answer of a running script's chart,
\* which comes under the tester's event, leaves it short.
KeptIsWhole ==
  \A l \in Loads : \A bars \in cache[l] :
    \/ bars = Ranges[l]
    \/ l \in spoilt /\ bars = SubSeq(Ranges[l], 1, Len(bars))
=============================================================================
