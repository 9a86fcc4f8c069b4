------------------------------ MODULE LogView ------------------------------
(***************************************************************************)
(* The log of a script and the view of it.  A line goes to the transport   *)
(* of the logger, which writes it to the file of the script later on, and  *)
(* most lines go at once as an event to the sockets of the account: some   *)
(* that the engine writes do not.  The view asks for the file when it is   *)
(* opened and when it is refreshed, puts the answer in the place of what   *)
(* it has, and appends the lines of the events (useLogs, logsSlice,        *)
(* ScriptLogsService, getRuntimeLogger).                                   *)
(***************************************************************************)
EXTENDS Naturals, Sequences, FiniteSets, SequencesExt

CONSTANTS
  Logs,      \* artifacts ids of the scripts' logs
  MaxLines,  \* bound: lines in all
  MaxAsks,   \* bound: openings and refreshes of the view
  NoLogs     \* no log is open

VARIABLES
  lines,      \* lines so far; a line is its number
  transport,  \* of each log: lines that are not written yet
  file,       \* of each log: lines in its file
  asking,     \* requests on their way to the gateway
  pushed,     \* on their way to the client: [log, set, lines]
  view,       \* of each log: the lines of the store
  open,       \* the log that the view shows
  asks,       \* so far
  gone        \* history: of each log, lines that may be missing from the view
              \* until the file is read again

logVars == <<lines, transport, file, asking, pushed, view, open, asks, gone>>

LogInit ==
  /\ lines = 0
  /\ transport = [l \in Logs |-> <<>>]
  /\ file = [l \in Logs |-> <<>>]
  /\ asking = <<>>
  /\ pushed = <<>>
  /\ view = [l \in Logs |-> <<>>]
  /\ open = NoLogs
  /\ asks = 0
  /\ gone = [l \in Logs |-> {}]

\* _log: a line of level debug is not for the file, but is shown.
Log(l) ==
  /\ lines < MaxLines
  /\ lines' = lines + 1
  /\ \E debug \in BOOLEAN :
       transport' = IF debug THEN transport ELSE [transport EXCEPT ![l] = Append(@, lines')]
  /\ pushed' = Append(pushed, [log |-> l, set |-> FALSE, lines |-> <<lines'>>])
  /\ UNCHANGED <<file, asking, view, open, asks, gone>>

\* A line for the file alone: errors of the SDK and fatal ones, whose event (if
\* there is one) names no log, the bundler's warning, the record of an SDK call.
LogWithoutEvent(l) ==
  /\ lines < MaxLines
  /\ lines' = lines + 1
  /\ transport' = [transport EXCEPT ![l] = Append(@, lines')]
  /\ gone' = [gone EXCEPT ![l] = @ \cup {lines'}]
  /\ UNCHANGED <<file, asking, pushed, view, open, asks>>

\* The transport writes a line (external: pino/file, not synchronous).
Write(l) ==
  /\ transport[l] # <<>>
  /\ transport' = [transport EXCEPT ![l] = Tail(@)]
  /\ file' = [file EXCEPT ![l] = Append(@, Head(transport[l]))]
  /\ UNCHANGED <<lines, asking, pushed, view, open, asks, gone>>

\* The view is opened on a log or turned to it: the file is asked for, and the
\* events are listened to.
OpenLog(l) ==
  /\ open # l
  /\ asks < MaxAsks
  /\ asks' = asks + 1
  /\ open' = l
  /\ asking' = Append(asking, l)
  /\ UNCHANGED <<lines, transport, file, pushed, view, gone>>

Refresh ==
  /\ open # NoLogs
  /\ asks < MaxAsks
  /\ asks' = asks + 1
  /\ asking' = Append(asking, open)
  /\ UNCHANGED <<lines, transport, file, pushed, view, open, gone>>

CloseLog ==
  /\ open # NoLogs
  /\ open' = NoLogs
  /\ UNCHANGED <<lines, transport, file, asking, pushed, view, asks, gone>>

\* The gateway reads the file; lines in the transport are not in it yet.  When it
\* cannot, be it that a line is half written, the answer has no lines.
ReadLog ==
  LET l == Head(asking) IN
  /\ asking # <<>>
  /\ asking' = Tail(asking)
  /\ \/ /\ pushed' = Append(pushed, [log |-> l, set |-> TRUE, lines |-> file[l]])
        /\ gone' = [gone EXCEPT ![l] = ToSet(transport[l])]
     \/ /\ pushed' = Append(pushed, [log |-> l, set |-> TRUE, lines |-> <<>>])
        /\ gone' = [gone EXCEPT ![l] = ToSet(transport[l]) \cup ToSet(file[l])]
  /\ UNCHANGED <<lines, transport, file, view, open, asks>>

\* Mutant: the answer is put behind the lines that are there.
SetLogsBehind ==
  /\ pushed # <<>> /\ Head(pushed).set
  /\ pushed' = Tail(pushed)
  /\ view' = [view EXCEPT ![Head(pushed).log] = @ \o Head(pushed).lines]
  /\ UNCHANGED <<lines, transport, file, asking, open, asks, gone>>

\* setLogs
SetLogs ==
  /\ pushed # <<>> /\ Head(pushed).set
  /\ pushed' = Tail(pushed)
  /\ view' = [view EXCEPT ![Head(pushed).log] = Head(pushed).lines]
  /\ UNCHANGED <<lines, transport, file, asking, open, asks, gone>>

\* Mutant: a line that comes takes the place of those that are there.
UpdateLogsAlone ==
  LET l == Head(pushed).log IN
  /\ pushed # <<>> /\ ~Head(pushed).set
  /\ pushed' = Tail(pushed)
  /\ IF l = open
     THEN view' = [view EXCEPT ![l] = Head(pushed).lines] /\ UNCHANGED gone
     ELSE gone' = [gone EXCEPT ![l] = @ \cup ToSet(Head(pushed).lines)] /\ UNCHANGED view
  /\ UNCHANGED <<lines, transport, file, asking, open, asks>>

\* updateLogs, for the log that is listened to.
UpdateLogs ==
  LET l == Head(pushed).log IN
  /\ pushed # <<>> /\ ~Head(pushed).set
  /\ pushed' = Tail(pushed)
  /\ IF l = open
     THEN view' = [view EXCEPT ![l] = @ \o Head(pushed).lines] /\ UNCHANGED gone
     ELSE gone' = [gone EXCEPT ![l] = @ \cup ToSet(Head(pushed).lines)] /\ UNCHANGED view
  /\ UNCHANGED <<lines, transport, file, asking, open, asks>>

\* The connection is lost and made again: what was on its way is lost.
Reconnect ==
  /\ pushed # <<>>
  /\ pushed' = <<>>
  /\ asking' = <<>>
  /\ gone' = [l \in Logs |-> gone[l] \cup
                UNION {ToSet(pushed[i].lines) : i \in {j \in 1 .. Len(pushed) : pushed[j].log = l}}]
  /\ UNCHANGED <<lines, transport, file, view, open, asks>>

LogNext ==
  \/ \E l \in Logs : Log(l) \/ LogWithoutEvent(l) \/ Write(l) \/ OpenLog(l)
  \/ Refresh
  \/ CloseLog
  \/ ReadLog
  \/ SetLogs
  \/ UpdateLogs
  \/ Reconnect

LogSpec == LogInit /\ [][LogNext]_logVars

-----------------------------------------------------------------------------
(* Properties.                                                             *)

\* A line is shown once and in order, though it comes by the file and by its
\* event, in either order of the answer and the event.
LinesShownOnce ==
  \A l \in Logs : \A i, j \in 1 .. Len(view[l]) : i < j => view[l][i] < view[l][j]

\* When all has arrived, the log that is open shows every line of its file,
\* except those that came without an event or that the transport still had when
\* the file was last read, all until then if it could not be read, and those that
\* came while another log was open or went with a connection.
LinesAreThere ==
  (asking = <<>> /\ pushed = <<>> /\ open # NoLogs)
    => ToSet(file[open]) \subseteq ToSet(view[open]) \cup gone[open]

\* Both: the open log shows what its file holds (useLogs, logs-slice).
LogFollowsFile == LinesShownOnce /\ LinesAreThere
=============================================================================
