---------------------------- MODULE ChartPlayback ----------------------------
(***************************************************************************)
(* The player of a chart in the browser: the button, the events between it *)
(* and the datafeed, and ChartPlayer, whose play() goes through the        *)
(* candles tick by tick and sleeps after each.  A loop that sleeps learns  *)
(* of a pause only when it wakes up, and a play within its sleep starts    *)
(* another beside it.                                                      *)
(*                                                                         *)
(* A candle is its place among the candles of the chart; it is drawn in up *)
(* to MaxTicks ticks, whose prices are left out.  The chart is external:   *)
(* it refuses a tick of a candle older than its last one.                  *)
(***************************************************************************)
EXTENDS Naturals, Sequences, FiniteSets

CONSTANTS
  Candles,   \* how many candles the chart has
  MaxTicks,  \* ticks of a candle
  MaxClicks  \* on the button

ASSUME PlaybackAssumption ==
  Candles \in Nat \ {0} /\ MaxTicks \in Nat \ {0} /\ MaxClicks \in Nat

VARIABLES
  ready, playing, isEnd,  \* the component's state
  loading,     \* loadChart: "no", "history" or "candles"
  \* the current ChartPlayer, the last of those that were made
  players, candles, lastCandle, isPause,
  loops,       \* calls of play() asleep
  chart,       \* the last candle of the chart
  whole,       \* history: candles drawn to their end since the chart was loaded
  missing,     \* history: the candles could not be loaded
  doubled,     \* history: two loops of a player have run at a time
  clicks

playerVars == <<players, candles, lastCandle, isPause>>
uiVars == <<ready, playing, isEnd>>
playbackVars == <<uiVars, loading, playerVars, loops, chart, whole, missing, doubled, clicks>>

NoCandle == 0
AllCandles == [i \in 1 .. Candles |-> i]

PlaybackInit ==
  /\ ready = FALSE /\ playing = FALSE /\ isEnd = FALSE
  /\ loading = "history"
  /\ players = 0
  /\ candles = <<>>
  /\ lastCandle = NoCandle
  /\ isPause = FALSE
  /\ loops = {}
  /\ chart = NoCandle
  /\ whole = {}
  /\ missing = FALSE
  /\ doubled = FALSE
  /\ clicks = 0

-----------------------------------------------------------------------------
(* ChartPlayer.                                                            *)

\* Loop l draws its candle and sleeps, after the last tick with last set; or
\* the chart refuses, and the loop dies of it.
Draws(l, others) ==
  LET candle == l.list[l.at] IN
  \/ /\ candle < chart
     /\ loops' = others
     /\ UNCHANGED <<chart, whole, doubled>>
  \/ /\ candle >= chart
     /\ chart' = candle
     /\ \E last \in (IF l.tick = MaxTicks THEN {TRUE} ELSE BOOLEAN) :
          /\ loops' = others \cup {[l EXCEPT !.last = last]}
          /\ whole' = IF last THEN whole \cup {candle} ELSE whole
     /\ doubled' = (doubled \/ \E o \in others : o.player = l.player)

\* Mutant: from the candle behind it.
FromLastNext(list, candle) ==
  LET at == {i \in 1 .. Len(list) : list[i] = candle} IN
  IF list = <<>> THEN list
  ELSE SubSeq(list, IF at = {} THEN Len(list) ELSE 1 + CHOOSE i \in at : TRUE, Len(list))

\* The candles from the last one played on; without one, findIndex gives -1
\* and slice(-1) the last candle alone.
FromLast(list, candle) ==
  LET at == {i \in 1 .. Len(list) : list[i] = candle} IN
  IF list = <<>> THEN list
  ELSE SubSeq(list, IF at = {} THEN Len(list) ELSE CHOOSE i \in at : TRUE, Len(list))

Pause ==
  /\ isPause' = TRUE
  /\ candles' = FromLast(candles, lastCandle)
  /\ UNCHANGED <<players, lastCandle>>

\* play() of player p with these candles, up to its first sleep; there may be
\* none to play, which is the end at once.
PlayFrom(p, list) ==
  \/ /\ list # <<>>
     /\ Draws([player |-> p, list |-> list, at |-> 1, tick |-> 1, last |-> FALSE, born |-> clicks'], loops)
     /\ lastCandle' = list[1]
     /\ candles' = list
     /\ isPause' = FALSE
     /\ playing' = TRUE
     /\ isEnd' = FALSE
  \/ /\ list = <<>>
     /\ UNCHANGED <<loops, chart, whole, doubled, lastCandle>>
     /\ candles' = list
     /\ isPause' = TRUE
     /\ playing' = FALSE
     /\ isEnd' = TRUE

\* What a loop sees of its player's isPause: a player that was replaced had
\* come to its end, and was paused.
Paused(l) == l.player = players => isPause

\* A loop wakes up in the middle of a candle.  Near the candle's end it goes
\* on without a look at isPause.
WakesInCandle(l) ==
  /\ ~l.last
  /\ \/ Draws([l EXCEPT !.tick = @ + 1], loops \ {l})
     \/ Paused(l) /\ loops' = loops \ {l} /\ UNCHANGED <<chart, whole, doubled>>
  /\ UNCHANGED <<uiVars, loading, playerVars, missing, clicks>>

\* It wakes up after a candle: the next one is the last played, even if the
\* loop then sees that it is paused.
WakesAfterCandle(l) ==
  /\ l.last /\ l.at < Len(l.list)
  /\ lastCandle' = IF l.player = players THEN l.list[l.at + 1] ELSE lastCandle
  /\ \/ ~Paused(l) /\ Draws([l EXCEPT !.at = @ + 1, !.tick = 1, !.last = FALSE], loops \ {l})
     \/ Paused(l) /\ loops' = loops \ {l} /\ UNCHANGED <<chart, whole, doubled>>
  /\ UNCHANGED <<uiVars, loading, players, candles, isPause, missing, clicks>>

\* After the last candle: the end is told to the button, and the player paused.
WakesAtEnd(l) ==
  /\ l.last /\ l.at = Len(l.list)
  /\ loops' = loops \ {l}
  /\ playing' = FALSE
  /\ isEnd' = TRUE
  /\ IF l.player = players THEN Pause ELSE UNCHANGED playerVars
  /\ UNCHANGED <<ready, loading, chart, whole, missing, doubled, clicks>>

-----------------------------------------------------------------------------
(* The component and the datafeed.                                         *)

HistoryLoaded ==
  /\ loading = "history"
  /\ loading' = "candles"
  /\ chart' = NoCandle
  /\ UNCHANGED <<uiVars, playerVars, loops, whole, missing, doubled, clicks>>

\* A new player; the first one waits for the button, the ones after an end are
\* played.  The candles may be missing, when their download fails.
CandlesLoaded ==
  /\ loading = "candles"
  /\ loading' = "no"
  /\ ready' = TRUE
  /\ players' = players + 1
  /\ UNCHANGED clicks
  /\ \E list \in {AllCandles, <<>>} :
       /\ missing' = (list = <<>>)
       /\ \/ /\ players = 0
             /\ candles' = list
             /\ isPause' = FALSE
             /\ UNCHANGED <<playing, isEnd, lastCandle, loops, chart, whole, doubled>>
          \/ players > 0 /\ PlayFrom(players + 1, list)

Clicked == ready /\ clicks < MaxClicks /\ clicks' = clicks + 1

\* Mutant: play() does not take the pause back.
ClickPlayPaused ==
  /\ Clicked /\ ~isEnd /\ ~playing
  /\ playing' = TRUE
  /\ \/ isPause /\ UNCHANGED <<isEnd, candles, lastCandle, isPause, loops, chart, whole, doubled>>
     \/ ~isPause /\ PlayFrom(players, candles)
  /\ UNCHANGED <<ready, loading, players, missing>>

ClickPlay ==
  /\ Clicked /\ ~isEnd /\ ~playing
  /\ PlayFrom(players, candles)
  /\ UNCHANGED <<ready, loading, players, missing>>

ClickPause ==
  /\ Clicked /\ ~isEnd /\ playing
  /\ playing' = FALSE
  /\ Pause
  /\ UNCHANGED <<ready, isEnd, loading, loops, chart, whole, missing, doubled>>

\* After the end the chart is loaded anew.
ClickAgain ==
  /\ Clicked /\ isEnd
  /\ ready' = FALSE
  /\ loading' = "history"
  /\ chart' = NoCandle
  /\ whole' = {}
  /\ UNCHANGED <<playing, isEnd, playerVars, loops, missing, doubled>>

PlaybackNext ==
  \/ HistoryLoaded
  \/ CandlesLoaded
  \/ ClickPlay
  \/ ClickPause
  \/ ClickAgain
  \/ \E l \in loops : WakesInCandle(l) \/ WakesAfterCandle(l) \/ WakesAtEnd(l)

PlaybackSpec == PlaybackInit /\ [][PlaybackNext]_playbackVars

-----------------------------------------------------------------------------
(* Properties.                                                             *)

\* Over pauses and resumes, unless two loops have drawn on one chart,
\* the end comes when every candle has been drawn to its end (pause, play).
EndShowsAll ==
  isEnd /\ ready /\ ~missing /\ ~doubled => whole = 1 .. Candles

\* While the button says that the chart plays, a loop of the current player is
\* on its way, unless two loops have drawn on one chart.
PlayingIsPlayed ==
  playing /\ ~doubled => ~isPause /\ \E l \in loops : l.player = players

\* Both: the chart does what the buttons say (TradingViewPlayerLight).
PlaybackFollowsButtons == EndShowsAll /\ PlayingIsPlayed
=============================================================================
