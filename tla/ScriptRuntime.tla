--------------------------- MODULE ScriptRuntime ---------------------------
(***************************************************************************)
(* The life of a trading runtime inside the engine's main process:         *)
(* ScriptService (run / stop / stopAll / restoreRunningProcesses), the     *)
(* process map of ScriptProcessFactory (register / stop / stopAll), the    *)
(* flags of a ScriptProcess (init / start / stop), the persisted           *)
(* ENABLED_RUNTIME_PREFIX marks, and the process handlers of main.ts that  *)
(* stop everything (SIGINT, the exception handler) or bring the runtimes   *)
(* back at boot.                                                           *)
(*                                                                         *)
(* The engine is single threaded: what happens between two awaits is one   *)
(* step, and a call that awaits is a slot with a program counter.  A call  *)
(* of run() occupies a slot of RunCalls, a call of stop() or stopAll() a   *)
(* slot of StopCalls.                                                      *)
(***************************************************************************)
EXTENDS Naturals, FiniteSets

CONSTANTS
  Runtimes,    \* runtime ids (rows of the Runtime table)
  Procs,       \* ScriptProcess objects; one that nothing refers to is reused
  NoProc,      \* "no entry" in the process map
  NoRuntime,   \* the id of a slot no call uses
  RunCalls,    \* slots for calls of ScriptService.run
  StopCalls,   \* slots for calls of ScriptService.stop / stopAll
  Limit,       \* ACCOUNT_LIMIT_RUNTIMES
  Overlap,     \* may a call about a runtime overlap another one about it?
  Events       \* which of EventKinds happen

EventKinds == {"throw",     \* a script, the bundler or the exchange fails a call
               "crash",     \* the engine's process dies
               "sigint",    \* SIGINT, or a client's reboot request
               "fatal",     \* an error the exception handler has no case for
               "expire",    \* a mark outlives the cache's time to live
               "remove",    \* a client deletes a runtime
               "scripts"}   \* scripts start and stop runtimes while a boot restores

ASSUME RuntimesFinite == IsFiniteSet(Runtimes)
ASSUME LimitNat == Limit \in Nat
ASSUME NoProcFresh == NoProc \notin Procs
ASSUME NoRuntimeFresh == NoRuntime \notin Runtimes
ASSUME SwitchTypes == Overlap \in BOOLEAN /\ Events \subseteq EventKinds

VARIABLES
  mode,         \* "off", "restoring" (before app.listen) or "up"
  toRestore,    \* ids restoreRunningProcesses has still to run
  runIsLocked,  \* ScriptService.runIsLocked
  runs,         \* the calls of run() in flight
  stops,        \* the calls of stop() and stopAll() in flight
  entry,        \* the process of each entry of ScriptProcessFactory.processes
  isEnabled,    \* its meta.isEnabled
  procs,        \* the flags of each ScriptProcess and whether it has feeds
  marks,        \* ids with an ENABLED_RUNTIME_PREFIX key in the cache
  rows,         \* ids with a row in the Runtime table
  owed          \* history: runtimes that ran when the engine last went down

memory == <<runIsLocked, runs, stops, entry, isEnabled, procs>>
vars == <<mode, toRestore, memory, marks, rows, owed>>

RunPCs == {"idle", "lookup", "limit", "build", "init", "start", "mark"}
IdleRun == [pc |-> "idle", id |-> NoRuntime, p |-> NoProc, restore |-> FALSE]
IdleStop == [pc |-> "idle", keys |-> {}, pending |-> {}, exit |-> FALSE]
NewProcess == [isInited |-> FALSE, isStopped |-> FALSE, feeds |-> FALSE]

RunCallType == [pc : RunPCs, id : Runtimes \cup {NoRuntime},
                p : Procs \cup {NoProc}, restore : BOOLEAN]
StopCallType == [pc : {"idle", "stopping", "rejected"}, keys : SUBSET Runtimes,
                 pending : SUBSET Runtimes, exit : BOOLEAN]
ProcessType == [isInited : BOOLEAN, isStopped : BOOLEAN, feeds : BOOLEAN]

Enabled == {id \in Runtimes : isEnabled[id]}
Running == {p \in Procs : procs[p].feeds}
Starting == {c \in RunCalls : runs[c].pc # "idle"}
Serving == mode \in {"restoring", "up"}

\* Before app.listen only scripts that already run can call the service.
CallersExist ==
  \/ mode = "up"
  \/ mode = "restoring" /\ Running # {} /\ "scripts" \in Events

\* No reference to the process is left: its object stands for a fresh one.
Garbage(p) ==
  /\ ~procs[p].feeds
  /\ \A id \in Runtimes : entry[id] # p
  /\ \A c \in RunCalls : runs[c].p # p

AboutRun(id) == \E c \in RunCalls : runs[c].id = id
AboutStop(id) == \E c \in StopCalls : stops[c].pc # "idle" /\ id \in stops[c].keys

-----------------------------------------------------------------------------
Init ==
  /\ mode = "up"
  /\ toRestore = {}
  /\ runIsLocked = FALSE
  /\ runs = [c \in RunCalls |-> IdleRun]
  /\ stops = [c \in StopCalls |-> IdleStop]
  /\ entry = [id \in Runtimes |-> NoProc]
  /\ isEnabled = [id \in Runtimes |-> FALSE]
  /\ procs = [p \in Procs |-> NewProcess]
  /\ marks = {}
  /\ rows = Runtimes
  /\ owed = {}

-----------------------------------------------------------------------------
(* run(id): take the lock, register, mark, release the lock.               *)

\* Mutant: run() takes the lock without looking whether it is free.
TakeLockUnchecked(c, id, restore) ==
  /\ runs[c].pc = "idle"
  /\ runIsLocked' = TRUE
  /\ runs' = [runs EXCEPT ![c] = [pc |-> "lookup", id |-> id, p |-> NoProc,
                                  restore |-> restore]]
  /\ UNCHANGED <<mode, stops, entry, isEnabled, procs, marks, rows, owed>>

TakeLock(c, id, restore) ==
  /\ runs[c].pc = "idle"
  /\ ~runIsLocked
  /\ runIsLocked' = TRUE
  /\ runs' = [runs EXCEPT ![c] = [pc |-> "lookup", id |-> id, p |-> NoProc,
                                  restore |-> restore]]
  /\ UNCHANGED <<mode, stops, entry, isEnabled, procs, marks, rows, owed>>

\* A client, or a system runtime, asks for a start.
RunCall(c, id) ==
  /\ CallersExist
  /\ Overlap \/ ~(AboutStop(id) \/ id \in toRestore)
  /\ TakeLock(c, id, FALSE)
  /\ UNCHANGED toRestore

\* Mutant: no finally, a start that throws keeps the lock.
RunThrowsLocked(c) ==
  /\ runs' = [runs EXCEPT ![c] = IdleRun]
  /\ toRestore' = IF runs[c].restore THEN {} ELSE toRestore
  /\ UNCHANGED <<mode, runIsLocked, stops, entry, isEnabled, procs, marks, rows, owed>>

\* run() throws: the lock is released by its finally, and a restore that
\* awaited this run gives up on the runtimes it has not reached.
RunThrows(c) ==
  /\ runIsLocked' = FALSE
  /\ runs' = [runs EXCEPT ![c] = IdleRun]
  /\ toRestore' = IF runs[c].restore THEN {} ELSE toRestore
  /\ UNCHANGED <<mode, stops, entry, isEnabled, procs, marks, rows, owed>>

RunGoes(c, pc) ==
  /\ runs' = [runs EXCEPT ![c].pc = pc]
  /\ UNCHANGED <<mode, toRestore, runIsLocked, stops, entry, isEnabled, procs,
                 marks, rows, owed>>

\* getRuntimeById has answered: an unknown runtime is logged and register()
\* returns, so run() goes on to mark it; an enabled one is refused.
RunLookup(c) ==
  /\ runs[c].pc = "lookup"
  /\ IF runs[c].id \notin rows THEN RunGoes(c, "mark")
     ELSE IF isEnabled[runs[c].id] THEN RunThrows(c)
     ELSE RunGoes(c, "limit")

\* Mutant: the limit is off by one.
RunLimitByOne(c) ==
  /\ runs[c].pc = "limit"
  /\ IF Cardinality(Enabled) > Limit THEN RunThrows(c) ELSE RunGoes(c, "build")

\* Mutant: the limit did not parse, and nothing compares with NaN.
RunLimitNaN(c) == runs[c].pc = "limit" /\ RunGoes(c, "build")

\* The account's limit has been fetched: count the enabled entries.
RunLimit(c) ==
  /\ runs[c].pc = "limit"
  /\ IF Cardinality(Enabled) >= Limit THEN RunThrows(c) ELSE RunGoes(c, "build")

\* Bundle, parameters and markets are there: create the process, put it in
\* the map in place of whatever the map held, and start its init.
RunBuild(c) ==
  /\ runs[c].pc = "build"
  /\ \E p \in Procs :
       /\ Garbage(p)
       /\ procs' = [procs EXCEPT ![p] = NewProcess]
       /\ entry' = [entry EXCEPT ![runs[c].id] = p]
       /\ isEnabled' = [isEnabled EXCEPT ![runs[c].id] = FALSE]
       /\ runs' = [runs EXCEPT ![c] = [@ EXCEPT !.pc = "init", !.p = p]]
  /\ UNCHANGED <<mode, toRestore, runIsLocked, stops, marks, rows, owed>>

\* init() has resolved; start() calls the script's run().
RunInit(c) ==
  /\ runs[c].pc = "init"
  /\ procs' = [procs EXCEPT ![runs[c].p].isInited = TRUE]
  /\ runs' = [runs EXCEPT ![c].pc = "start"]
  /\ UNCHANGED <<mode, toRestore, runIsLocked, stops, entry, isEnabled, marks,
                 rows, owed>>

\* Mutant: the entry is enabled, the feeds are not subscribed.
RunStartNoFeeds(c) ==
  /\ runs[c].pc = "start"
  /\ entry' = [entry EXCEPT ![runs[c].id] = runs[c].p]
  /\ isEnabled' = [isEnabled EXCEPT ![runs[c].id] = TRUE]
  /\ runs' = [runs EXCEPT ![c].pc = "mark"]
  /\ UNCHANGED <<mode, toRestore, runIsLocked, stops, procs, marks, rows, owed>>

\* The script's run() has resolved: subscribe the feeds and enable the entry.
\* Neither looks at isStopped.
RunStart(c) ==
  /\ runs[c].pc = "start"
  /\ procs' = [procs EXCEPT ![runs[c].p].feeds = TRUE]
  /\ entry' = [entry EXCEPT ![runs[c].id] = runs[c].p]
  /\ isEnabled' = [isEnabled EXCEPT ![runs[c].id] = TRUE]
  /\ runs' = [runs EXCEPT ![c].pc = "mark"]
  /\ UNCHANGED <<mode, toRestore, runIsLocked, stops, marks, rows, owed>>

\* The bundler, the exchange or the script fails the registration.
RunFails(c) ==
  /\ "throw" \in Events
  /\ runs[c].pc \in {"build", "init", "start"}
  /\ RunThrows(c)

\* The mark is written and the lock released.
RunMark(c) ==
  /\ runs[c].pc = "mark"
  /\ marks' = marks \cup {runs[c].id}
  /\ runIsLocked' = FALSE
  /\ runs' = [runs EXCEPT ![c] = IdleRun]
  /\ UNCHANGED <<mode, toRestore, stops, entry, isEnabled, procs, rows, owed>>

-----------------------------------------------------------------------------
(* stop(id) and stopAll(): both run ScriptProcess.stop on entries of the   *)
(* map at once, delete an entry when its stop has resolved, and clear the  *)
(* marks when all have.                                                    *)

\* Mutant: the process is marked as stopped and keeps its feeds.
StopProcessFed(pr) == [pr EXCEPT !.isStopped = TRUE]

\* The synchronous part of ScriptProcess.stop.
StopProcess(pr) ==
  IF pr.isStopped THEN pr
  ELSE [pr EXCEPT !.isStopped = TRUE, !.feeds = pr.feeds /\ ~pr.isInited]

\* Whether it then awaits the script's own stop().
AwaitsScript(pr) == pr.isInited /\ ~pr.isStopped

Drop(ids) ==
  /\ entry' = [id \in Runtimes |-> IF id \in ids THEN NoProc ELSE entry[id]]
  /\ isEnabled' = [id \in Runtimes |-> isEnabled[id] /\ id \notin ids]

BeginStop(c, keys, exit) ==
  LET present == {id \in keys : entry[id] # NoProc}
      waiting == {id \in present : AwaitsScript(procs[entry[id]])}
  IN /\ stops[c].pc = "idle"
     /\ procs' = [p \in Procs |-> IF \E id \in present : entry[id] = p
                                  THEN StopProcess(procs[p]) ELSE procs[p]]
     /\ Drop(present \ waiting)
     /\ stops' = [stops EXCEPT ![c] = [pc |-> "stopping", keys |-> keys,
                                       pending |-> waiting, exit |-> exit]]
     /\ UNCHANGED <<mode, toRestore, runIsLocked, runs, marks, rows>>

\* A client, a system runtime or the script itself (forceStop) asks for a stop.
StopCall(c, id) ==
  /\ CallersExist
  /\ Overlap \/ ~(AboutRun(id) \/ AboutStop(id) \/ id \in toRestore)
  /\ BeginStop(c, {id}, FALSE)
  /\ owed' = owed \ {id}

Keys == {id \in Runtimes : entry[id] # NoProc}

\* SIGINT, also sent by the client's reboot request.
Sigint(c) ==
  /\ "sigint" \in Events
  /\ Serving
  /\ BeginStop(c, Keys, TRUE)
  /\ owed' = {id \in Enabled : ~AboutRun(id)}

\* An SDK error, or any error without a known cause, reaches the handler.
FatalException(c) ==
  /\ "fatal" \in Events
  /\ Serving
  /\ BeginStop(c, Keys, FALSE)
  /\ owed' = owed \ Keys

\* Mutant: the entry is not deleted when the script has stopped.
ScriptStoppedKept(c, id) ==
  /\ id \in stops[c].pending
  /\ stops' = [stops EXCEPT ![c].pending = @ \ {id}]
  /\ UNCHANGED <<mode, toRestore, runIsLocked, runs, entry, isEnabled, procs, marks,
                 rows, owed>>

\* The script's stop() has resolved: the entry under that key is deleted,
\* whichever process it holds by now.
ScriptStopped(c, id) ==
  /\ id \in stops[c].pending
  /\ Drop({id})
  /\ stops' = [stops EXCEPT ![c].pending = @ \ {id}]
  /\ UNCHANGED <<mode, toRestore, runIsLocked, runs, procs, marks, rows, owed>>

\* Mutant: a stop that throws ends the stops beside it.
StopThrowsForAll(c, id) ==
  /\ "throw" \in Events
  /\ id \in stops[c].pending
  /\ stops' = [stops EXCEPT ![c] = [pc |-> "rejected", keys |-> @.keys, exit |-> @.exit,
                                    pending |-> {}]]
  /\ UNCHANGED <<mode, toRestore, runIsLocked, runs, entry, isEnabled, procs, marks,
                 rows, owed>>

\* The script's stop() throws: the entry stays, the call rejects, the stops
\* it started beside this one go on.
ScriptStopThrows(c, id) ==
  /\ "throw" \in Events
  /\ id \in stops[c].pending
  /\ stops' = [stops EXCEPT ![c] = [pc |-> "rejected", keys |-> @.keys, exit |-> @.exit,
                                    pending |-> @.pending \ {id}]]
  /\ UNCHANGED <<mode, toRestore, runIsLocked, runs, entry, isEnabled, procs, marks,
                 rows, owed>>

StopRejected(c) ==
  /\ stops[c].pc = "rejected"
  /\ stops[c].pending = {}
  /\ stops' = [stops EXCEPT ![c] = IdleStop]
  /\ UNCHANGED <<mode, toRestore, runIsLocked, runs, entry, isEnabled, procs, marks,
                 rows, owed>>

\* The engine is gone: memory is lost, the database is not.
LoseMemory ==
  /\ mode' = "off"
  /\ toRestore' = {}
  /\ runIsLocked' = FALSE
  /\ runs' = [c \in RunCalls |-> IdleRun]
  /\ stops' = [c \in StopCalls |-> IdleStop]
  /\ entry' = [id \in Runtimes |-> NoProc]
  /\ isEnabled' = [id \in Runtimes |-> FALSE]
  /\ procs' = [p \in Procs |-> NewProcess]
  /\ UNCHANGED rows

\* Mutant: a stop clears every mark, not those of its keys.
UnmarkAll(c) ==
  /\ stops[c].pc = "stopping"
  /\ stops[c].pending = {}
  /\ marks' = {}
  /\ IF stops[c].exit
     THEN LoseMemory /\ UNCHANGED owed
     ELSE /\ stops' = [stops EXCEPT ![c] = IdleStop]
          /\ UNCHANGED <<mode, toRestore, runIsLocked, runs, entry, isEnabled, procs,
                         rows, owed>>

\* Every stop has resolved: the marks of all the keys are cleared (all callers
\* of stop pass softMode, stopAll does not look at its own)
\* and after a SIGINT the process exits.
Unmark(c) ==
  /\ stops[c].pc = "stopping"
  /\ stops[c].pending = {}
  /\ marks' = marks \ stops[c].keys
  /\ IF stops[c].exit
     THEN LoseMemory /\ UNCHANGED owed
     ELSE /\ stops' = [stops EXCEPT ![c] = IdleStop]
          /\ UNCHANGED <<mode, toRestore, runIsLocked, runs, entry, isEnabled, procs,
                         rows, owed>>

-----------------------------------------------------------------------------
(* The database, crashes and boots.                                        *)

RemoveRuntime(id) ==
  /\ "remove" \in Events
  /\ mode = "up"
  /\ id \in rows
  /\ rows' = rows \ {id}
  /\ UNCHANGED <<mode, toRestore, memory, marks, owed>>

\* A mark is written with the cache's default time to live and never renewed.
ExpireMark(id) ==
  /\ "expire" \in Events
  /\ id \in marks
  /\ marks' = marks \ {id}
  /\ UNCHANGED <<mode, toRestore, memory, rows, owed>>

Crash ==
  /\ "crash" \in Events
  /\ Serving
  /\ LoseMemory
  /\ owed' = {id \in Enabled : ~AboutRun(id)}
  /\ UNCHANGED marks

Boot ==
  /\ mode = "off"
  /\ mode' = "restoring"
  /\ toRestore' = marks
  /\ UNCHANGED <<memory, marks, rows, owed>>

RestoreAwaits == \E c \in RunCalls : runs[c].restore

\* Mutant: the loop ends with the first runtime.
RestoreOnlyFirst(c, id) ==
  /\ mode = "restoring"
  /\ ~RestoreAwaits
  /\ id \in toRestore
  /\ TakeLock(c, id, TRUE)
  /\ toRestore' = {}

\* The loop of restoreRunningProcesses, in the database's order of the keys;
\* run() throws at once when a script's own start holds the lock.
RestoreNext(c, id) ==
  /\ mode = "restoring"
  /\ ~RestoreAwaits
  /\ id \in toRestore
  /\ TakeLock(c, id, TRUE)
  /\ toRestore' = toRestore \ {id}

RestoreRefused ==
  /\ mode = "restoring"
  /\ ~RestoreAwaits
  /\ toRestore # {}
  /\ runIsLocked
  /\ toRestore' = {}
  /\ UNCHANGED <<mode, memory, marks, rows, owed>>

RestoreDone ==
  /\ mode = "restoring"
  /\ ~RestoreAwaits
  /\ toRestore = {}
  /\ mode' = "up"
  /\ UNCHANGED <<toRestore, memory, marks, rows, owed>>

-----------------------------------------------------------------------------
RunStep(c) ==
  RunLookup(c) \/ RunLimit(c) \/ RunBuild(c) \/ RunInit(c) \/ RunStart(c)
    \/ RunFails(c) \/ RunMark(c)

StopStep(c) ==
  \/ \E id \in Runtimes : ScriptStopped(c, id) \/ ScriptStopThrows(c, id)
  \/ StopRejected(c)
  \/ Unmark(c)

RestoreStep ==
  \/ \E c \in RunCalls, id \in Runtimes : RestoreNext(c, id)
  \/ RestoreRefused
  \/ RestoreDone

Next ==
  \/ \E c \in RunCalls : RunStep(c)
  \/ \E c \in RunCalls, id \in Runtimes : RunCall(c, id)
  \/ \E c \in StopCalls : StopStep(c) \/ Sigint(c) \/ FatalException(c)
  \/ \E c \in StopCalls, id \in Runtimes : StopCall(c, id)
  \/ \E id \in Runtimes : RemoveRuntime(id) \/ ExpireMark(id)
  \/ RestoreStep
  \/ Crash
  \/ Boot

Spec == Init /\ [][Next]_vars

\* Promises the engine awaits (database, exchange, the script's own methods)
\* settle, and a boot goes on; nobody is obliged to call the service.
Fairness ==
  /\ \A c \in RunCalls : WF_vars(RunStep(c))
  /\ \A c \in StopCalls : WF_vars(StopStep(c))
  /\ WF_vars(RestoreStep)

FairSpec == Spec /\ Fairness

-----------------------------------------------------------------------------
(* Properties.                                                             *)

\* Every variable has its type (the maps and flags of the three classes).
TypeOK ==
  /\ mode \in {"off", "restoring", "up"}
  /\ toRestore \in SUBSET Runtimes
  /\ runIsLocked \in BOOLEAN
  /\ runs \in [RunCalls -> RunCallType]
  /\ stops \in [StopCalls -> StopCallType]
  /\ entry \in [Runtimes -> Procs \cup {NoProc}]
  /\ isEnabled \in [Runtimes -> BOOLEAN]
  /\ procs \in [Procs -> ProcessType]
  /\ marks \in SUBSET Runtimes
  /\ rows \in SUBSET Runtimes
  /\ owed \in SUBSET Runtimes

\* runIsLocked admits one start at a time and is held exactly while a start
\* is in flight, whichever way the start ends (the finally of run).
LockHeldByOneRun ==
  /\ \A c, d \in Starting : c = d
  /\ runIsLocked <=> Starting # {}

\* processesLimit is checked several awaits before the entry is enabled: the
\* enabled entries still never exceed the limit.
EnabledWithinLimit == Cardinality(Enabled) <= Limit

\* An enabled entry holds a process whose script has been initialised, and
\* that process has its feeds unless somebody has stopped it.
EnabledHasFeeds ==
  \A id \in Enabled :
    /\ entry[id] # NoProc
    /\ procs[entry[id]].isInited
    /\ procs[entry[id]].feeds \/ procs[entry[id]].isStopped

\* register puts its process over the entry of an earlier, failed start
\* without stopping that process: it never overwrites one that has feeds.
OnlyIdleProcessReplaced ==
  [][\A id \in Runtimes :
       entry[id] \in Procs /\ entry'[id] \in Procs /\ entry'[id] # entry[id]
         => ~procs[entry[id]].feeds]_vars

\* A process that receives market data is the enabled process of some
\* runtime, so that stop(id) can reach it.
NoOrphanProcess ==
  \A p \in Running : \E id \in Enabled : entry[id] = p

\* ACCOUNT_LIMIT_RUNTIMES bounds the processes that really run.
RunningWithinLimit == Cardinality(Running) <= Limit

\* Once its run() has returned, an enabled runtime has its mark: a crash
\* would find it.
EnabledIsMarked ==
  \A id \in Enabled : AboutRun(id) \/ id \in marks

\* When a boot has finished restoring, the runtimes that ran as the engine
\* went down (and still have a row) run again.
RestoreRevives ==
  [][mode = "restoring" /\ mode' = "up" => owed \cap rows \subseteq Enabled']_vars

\* No start holds runIsLocked for ever, whatever throws on its way, a boot's
\* restore comes to its end, so that app.listen is reached, and so does every
\* stop that a script is awaited for, also behind one that threw.
CallsEnd ==
  /\ runIsLocked ~> ~runIsLocked
  /\ mode = "restoring" ~> mode # "restoring"
  /\ \A c \in StopCalls, id \in Runtimes :
       id \in stops[c].pending ~> id \notin stops[c].pending

\* A stop, of one runtime or of all, is over for a runtime only when it has
\* left the map or its own script has thrown; one that throws leaves those
\* beside it on their way.
StopTakesEffect ==
  [][\A c \in StopCalls, id \in Runtimes :
       isEnabled'[id] /\ id \in stops[c].pending \ stops'[c].pending
         => /\ stops'[c].pc = "rejected"
            /\ stops'[c].pending = stops[c].pending \ {id}]_vars

-----------------------------------------------------------------------------
(* The strengthening of the safety properties that every step preserves.   *)

\* A call in flight names a runtime; from init on it holds a process.
CallsNamed ==
  \A c \in Starting :
    /\ runs[c].id \in Runtimes
    /\ runs[c].pc \in {"init", "start"} => runs[c].p \in Procs

\* The checks of register still hold when the process is enabled.
ChecksStillHold ==
  \A c \in RunCalls :
    /\ runs[c].pc \in {"limit", "build", "init", "start"} => ~isEnabled[runs[c].id]
    /\ runs[c].pc \in {"build", "init", "start"} => Cardinality(Enabled) < Limit

\* The process being started has no feeds yet and is in no other entry.
StartedIsFresh ==
  \A c \in RunCalls : runs[c].pc \in {"init", "start"} =>
    /\ ~procs[runs[c].p].feeds
    /\ \A id \in Runtimes : entry[id] = runs[c].p => id = runs[c].id
    /\ runs[c].pc = "start" => procs[runs[c].p].isInited

\* No process is in two entries.
EntriesDistinct ==
  \A id1, id2 \in Runtimes : entry[id1] = entry[id2] /\ entry[id1] \in Procs => id1 = id2

\* An entry that has feeds is enabled.
FeedsEnabled ==
  \A id \in Runtimes : entry[id] \in Procs /\ procs[entry[id]].feeds => isEnabled[id]

IInv ==
  /\ TypeOK
  /\ CallsNamed
  /\ LockHeldByOneRun
  /\ EnabledWithinLimit
  /\ ChecksStillHold
  /\ StartedIsFresh
  /\ EntriesDistinct
  /\ FeedsEnabled
  /\ EnabledHasFeeds

\* What a client of the engine may rely on: runtimes start while the limit
\* allows it and stop.
Registry == INSTANCE RuntimeRegistry WITH running <- Enabled
RegistrySpec == Registry!Spec
=============================================================================
