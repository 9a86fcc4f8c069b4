--------------------------- MODULE TesterScheduler --------------------------
(***************************************************************************)
(* ScriptTesterService: the back tests of a scenario run in child          *)
(* processes, no more than maxChild at once; the rest waits in a queue.    *)
(* runScenarioInChild walks through the sets, runInChild starts one,       *)
(* onChildStop reports an ended one and lets processQueue start the next.  *)
(*                                                                         *)
(* Each of them is an asynchronous call, and what is here a step is what   *)
(* the code does between two awaits.  The pid of a set's child stands as   *)
(* the set itself.  Every set is run once.                                 *)
(***************************************************************************)
EXTENDS Naturals, FiniteSets, Sequences

CONSTANTS
  Scenarios,
  Sets,        \* their parameter sets, one back test each
  ScenarioOf,  \* the scenario of a set
  MaxChild,    \* ACCOUNT_LIMIT_TESTER_MAX_PROCESSES
  OwnPid,      \* process.pid of the engine
  NoPid,       \* child.pid of a process that did not spawn
  NoSet,
  Events       \* which of EventKinds happen

EventKinds == {"cache",   \* results of the same parameters exist already
               "fork",    \* a child process does not spawn
               "send",    \* a message to a child that is just exiting fails
               "stop"}    \* a client stops all tests

ASSUME ScenarioOfType == ScenarioOf \in [Sets -> Scenarios]
ASSUME MaxChildPositive == MaxChild \in Nat \ {0}
ASSUME PidsDiffer == OwnPid # NoPid /\ {OwnPid, NoPid, NoSet} \cap Sets = {}
ASSUME EventsType == Events \subseteq EventKinds

VARIABLES
  launch,       \* the call of runScenarioInChild for each scenario
  task,         \* what the call of runInChild for a set awaits
  queue,        \* sets that wait for a child process
  processes,    \* the keys of the processes map
  child,        \* the child process of each set
  handlers,     \* the calls of onChildStop in flight
  resultQueue,
  status,       \* ScenarioSet.status: 0 new, 1 done, 2 running, 3 failed
  isDone,       \* ScenarioSet.isDone
  scenarioDone  \* Scenario.isDone

vars == <<launch, task, queue, processes, child, handlers, resultQueue, status,
          isDone, scenarioDone>>

SetsOf(sc) == {s \in Sets : ScenarioOf[s] = sc}
Alive == {s \in Sets : child[s] \in {"forked", "running", "exiting", "warned"}}

Handler(s, kind, st) ==
  [set |-> s, kind |-> kind, status |-> st, pc |-> "scenario", next |-> NoSet]

\* The promise of runInChild(s) is pending; behind a cached result it includes
\* the call of onChildStop.
Busy(s) ==
  \/ task[s] # "none"
  \/ \E h \in handlers : h.set = s /\ h.kind = "cached"

Init ==
  /\ launch = [sc \in Scenarios |-> [pc |-> "idle", left |-> SetsOf(sc), now |-> NoSet]]
  /\ task = [s \in Sets |-> "none"]
  /\ queue = <<>>
  /\ processes = {}
  /\ child = [s \in Sets |-> "none"]
  /\ handlers = {}
  /\ resultQueue = <<>>
  /\ status = [s \in Sets |-> 0]
  /\ isDone = [s \in Sets |-> FALSE]
  /\ scenarioDone = [sc \in Scenarios |-> FALSE]

-----------------------------------------------------------------------------
(* runInChild.                                                             *)

\* The limit is looked at before the cache is asked for results, and not
\* again behind that await.
CheckSlots(s) ==
  IF Cardinality(processes) >= MaxChild
  THEN /\ queue' = Append(queue, s)
       /\ task' = [task EXCEPT ![s] = "none"]
  ELSE /\ task' = [task EXCEPT ![s] = "existed"]
       /\ UNCHANGED queue

\* A set whose key of artifacts has changed is written first.
TaskArtifacts(s) ==
  /\ task[s] = "artifacts"
  /\ CheckSlots(s)
  /\ UNCHANGED <<launch, processes, child, handlers, resultQueue, status, isDone,
                 scenarioDone>>

\* No results: fork.  A process that does not spawn has no pid.
TaskForks(s) ==
  /\ task[s] = "existed"
  /\ task' = [task EXCEPT ![s] = "none"]
  /\ \/ /\ child' = [child EXCEPT ![s] = "forked"]
        /\ processes' = processes \cup {s}
     \/ /\ "fork" \in Events
        /\ child' = [child EXCEPT ![s] = "failed"]
        /\ processes' = processes \cup {NoPid}
  /\ UNCHANGED <<launch, queue, handlers, resultQueue, status, isDone, scenarioDone>>

\* Another set has left results under the same key: the engine's own pid takes
\* a slot.
TaskCached(s) ==
  /\ "cache" \in Events
  /\ task[s] = "existed"
  /\ task' = [task EXCEPT ![s] = "cached"]
  /\ processes' = processes \cup {OwnPid}
  /\ UNCHANGED <<launch, queue, child, handlers, resultQueue, status, isDone,
                 scenarioDone>>

TaskDone(s) ==
  /\ task[s] = "cached"
  /\ task' = [task EXCEPT ![s] = "none"]
  /\ isDone' = [isDone EXCEPT ![s] = TRUE]
  /\ handlers' = handlers \cup {Handler(s, "cached", 1)}
  /\ UNCHANGED <<launch, queue, processes, child, resultQueue, status, scenarioDone>>

-----------------------------------------------------------------------------
(* runScenarioInChild, once the quotes are there.                          *)

RunScenario(sc) ==
  /\ launch[sc].pc = "idle"
  /\ launch' = [launch EXCEPT ![sc].pc = "bundle"]
  /\ UNCHANGED <<task, queue, processes, child, handlers, resultQueue, status, isDone,
                 scenarioDone>>

\* The bundle of the next set is ready: run it and wait for that call.
LaunchSet(sc, s) ==
  /\ launch[sc].pc = "bundle"
  /\ s \in launch[sc].left
  /\ launch' = [launch EXCEPT ![sc] = [pc |-> "await", left |-> @.left \ {s}, now |-> s]]
  /\ \/ /\ task' = [task EXCEPT ![s] = "artifacts"]
        /\ UNCHANGED queue
     \/ CheckSlots(s)
  /\ UNCHANGED <<processes, child, handlers, resultQueue, status, isDone, scenarioDone>>

LaunchGoesOn(sc) ==
  /\ launch[sc].pc = "await"
  /\ ~Busy(launch[sc].now)
  /\ launch' = [launch EXCEPT ![sc].pc = IF launch[sc].left = {} THEN "end" ELSE "bundle"]
  /\ UNCHANGED <<task, queue, processes, child, handlers, resultQueue, status, isDone,
                 scenarioDone>>

-----------------------------------------------------------------------------
(* Child processes.                                                        *)

\* 'spawn'.
ChildSpawned(s) ==
  /\ child[s] = "forked"
  /\ child' = [child EXCEPT ![s] = "running"]
  /\ resultQueue' = Append(resultQueue, <<s, 2>>)
  /\ UNCHANGED <<launch, task, queue, processes, handlers, status, isDone, scenarioDone>>

\* The child reaches the end of its data and marks its set as done, or fails,
\* or runs out of time, memory or the client's patience.
ChildExits(s) ==
  /\ child[s] = "running"
  /\ child' = [child EXCEPT ![s] = "exiting"]
  /\ \/ isDone' = [isDone EXCEPT ![s] = TRUE]
     \/ UNCHANGED isDone
  /\ UNCHANGED <<launch, task, queue, processes, handlers, resultQueue, status,
                 scenarioDone>>

\* 'error': the child did not spawn, or could not be sent a message.
ChildError(s) ==
  /\ \/ child[s] = "failed" /\ handlers' = handlers \cup {Handler(s, "failed", 3)}
     \/ /\ "send" \in Events
        /\ child[s] = "exiting"
        /\ handlers' = handlers \cup {Handler(s, "error", 3)}
  /\ child' = [child EXCEPT ![s] = IF @ = "failed" THEN "erred" ELSE "warned"]
  /\ UNCHANGED <<launch, task, queue, processes, resultQueue, status, isDone,
                 scenarioDone>>

\* 'close' comes behind an exit, and behind the error of a failed spawn.
ChildCloses(s) ==
  /\ child[s] \in {"exiting", "warned", "erred"}
  /\ handlers' = handlers \cup
                 {Handler(s, IF child[s] = "erred" THEN "failed" ELSE "close", 1)}
  /\ child' = [child EXCEPT ![s] = "closed"]
  /\ UNCHANGED <<launch, task, queue, processes, resultQueue, status, isDone,
                 scenarioDone>>

-----------------------------------------------------------------------------
(* onChildStop and processQueue.                                           *)

Becomes(h, g) == handlers' = (handlers \ {h}) \cup {g}

\* Mutant: only the handler of "error" frees the slot.
FreeSlotOnError(h) ==
  /\ h.pc = "scenario"
  /\ processes' = IF h.kind = "error" THEN processes \ {h.set} ELSE processes
  /\ Becomes(h, [h EXCEPT !.pc = "report"])
  /\ UNCHANGED <<launch, task, queue, child, resultQueue, status, isDone, scenarioDone>>

\* The scenario has been read: the slot is freed if there is a pid, and the
\* report is about to be made.
FreeSlot(h) ==
  /\ h.pc = "scenario"
  /\ processes' = IF h.kind \in {"close", "error"} THEN processes \ {h.set} ELSE processes
  /\ Becomes(h, [h EXCEPT !.pc = "report"])
  /\ UNCHANGED <<launch, task, queue, child, resultQueue, status, isDone, scenarioDone>>

\* Mutant: one slot too few.
FinishByOne(h) ==
  /\ resultQueue' = Append(resultQueue, <<h.set, h.status>>)
  /\ IF Cardinality(processes) + 1 >= MaxChild \/ queue = <<>>
     THEN /\ handlers' = handlers \ {h}
          /\ UNCHANGED <<task, queue>>
     ELSE /\ task' = [task EXCEPT ![Head(queue)] = "existed"]
          /\ queue' = Tail(queue)
          /\ Becomes(h, [h EXCEPT !.pc = "queue", !.next = Head(queue)])

\* Mutant: the set is read from the queue and stays in it.
FinishPeeks(h) ==
  /\ resultQueue' = Append(resultQueue, <<h.set, h.status>>)
  /\ IF Cardinality(processes) >= MaxChild \/ queue = <<>>
     THEN /\ handlers' = handlers \ {h}
          /\ UNCHANGED <<task, queue>>
     ELSE /\ task' = [task EXCEPT ![Head(queue)] = "existed"]
          /\ queue' = queue
          /\ Becomes(h, [h EXCEPT !.pc = "queue", !.next = Head(queue)])

\* The result is queued; then processQueue takes one set if there is room, and
\* its runInChild, which looks at the room again, asks the cache.
Finish(h) ==
  /\ resultQueue' = Append(resultQueue, <<h.set, h.status>>)
  /\ IF Cardinality(processes) >= MaxChild \/ queue = <<>>
     THEN /\ handlers' = handlers \ {h}
          /\ UNCHANGED <<task, queue>>
     ELSE /\ task' = [task EXCEPT ![Head(queue)] = "existed"]
          /\ queue' = Tail(queue)
          /\ Becomes(h, [h EXCEPT !.pc = "queue", !.next = Head(queue)])

\* Mutant: the sets are asked for their status, which the timer writes.
MakeReportByStatus(h) ==
  /\ h.pc = "report"
  /\ IF \A s \in SetsOf(ScenarioOf[h.set]) : status[s] = 1
     THEN Becomes(h, [h EXCEPT !.pc = "mark"]) /\ UNCHANGED <<task, queue, resultQueue>>
     ELSE Finish(h)
  /\ UNCHANGED <<launch, processes, child, status, isDone, scenarioDone>>

\* updateScenarioReport has read the sets: with all of them done the scenario
\* is marked before the report is saved.
MakeReport(h) ==
  /\ h.pc = "report"
  /\ IF \A s \in SetsOf(ScenarioOf[h.set]) : isDone[s]
     THEN Becomes(h, [h EXCEPT !.pc = "mark"]) /\ UNCHANGED <<task, queue, resultQueue>>
     ELSE Finish(h)
  /\ UNCHANGED <<launch, processes, child, status, isDone, scenarioDone>>

MarkScenario(h) ==
  /\ h.pc = "mark"
  /\ scenarioDone' = [scenarioDone EXCEPT ![ScenarioOf[h.set]] = TRUE]
  /\ Finish(h)
  /\ UNCHANGED <<launch, processes, child, status, isDone>>

\* The runInChild that processQueue awaits has ended.
QueueProcessed(h) ==
  /\ h.pc = "queue"
  /\ ~Busy(h.next)
  /\ handlers' = handlers \ {h}
  /\ UNCHANGED <<launch, task, queue, processes, child, resultQueue, status, isDone,
                 scenarioDone>>

\* The timer that writes the results to the database.  A write is taken to end
\* before the timer fires again.
WriteResult ==
  /\ resultQueue # <<>>
  /\ LET result == Head(resultQueue) IN status' = [status EXCEPT ![result[1]] = result[2]]
  /\ resultQueue' = Tail(resultQueue)
  /\ UNCHANGED <<launch, task, queue, processes, child, handlers, isDone, scenarioDone>>

\* stopAllProcesses: the children are told to stop, the queue is dropped.
StopAllProcesses ==
  /\ "stop" \in Events
  /\ queue' = <<>>
  /\ UNCHANGED <<launch, task, processes, child, handlers, resultQueue, status, isDone,
                 scenarioDone>>

-----------------------------------------------------------------------------
TaskStep(s) == TaskArtifacts(s) \/ TaskForks(s) \/ TaskCached(s) \/ TaskDone(s)
LaunchStep(sc) == (\E s \in Sets : LaunchSet(sc, s)) \/ LaunchGoesOn(sc)
ChildStep(s) == ChildSpawned(s) \/ ChildExits(s) \/ ChildError(s) \/ ChildCloses(s)
HandlerStep(h) == FreeSlot(h) \/ MakeReport(h) \/ MarkScenario(h) \/ QueueProcessed(h)
HandlerStepOf(s) == \E h \in handlers : h.set = s /\ HandlerStep(h)

Next ==
  \/ \E sc \in Scenarios : RunScenario(sc) \/ LaunchStep(sc)
  \/ \E s \in Sets : TaskStep(s) \/ ChildStep(s) \/ HandlerStepOf(s)
  \/ WriteResult
  \/ StopAllProcesses

Spec == Init /\ [][Next]_vars

\* Something always goes on: promises settle, the timer runs, and a child ends,
\* because its data does or, if it still reports its load, by execTimeout.
FairStep ==
  \/ \E sc \in Scenarios : LaunchStep(sc)
  \/ \E s \in Sets : TaskStep(s) \/ ChildStep(s) \/ HandlerStepOf(s)
  \/ WriteResult

Fairness == WF_vars(FairStep)

FairSpec == Spec /\ Fairness

-----------------------------------------------------------------------------
(* Properties.                                                             *)

InQueue(s) == {n \in DOMAIN queue : queue[n] = s}

\* However launches, ends of children and the queue interleave, a set waits in
\* one place only: it is never queued twice, nor queued while it runs.
SetInOnePlace ==
  \A s \in Sets :
    LET places == Cardinality(InQueue(s)) + (IF task[s] # "none" THEN 1 ELSE 0)
                    + (IF child[s] # "none" THEN 1 ELSE 0)
    IN places <= 1

\* Who will look at the queue: a runInChild on its way to a slot, an onChildStop
\* that has freed its slot or has none to free, and a child that did not spawn,
\* whose error and close are still to come.
Asking == {s \in Sets : task[s] \in {"existed", "cached"}}
Looking == {h \in handlers : \/ h.pc \in {"report", "mark"}
                             \/ h.pc = "scenario" /\ h.kind \in {"cached", "failed"}}
Unspawned == {s \in Sets : child[s] \in {"failed", "erred"}}

\* No lost wake-up: a set only waits in the queue while the slots are taken, or
\* for each free one somebody is on the way who will look at the queue
\* (processQueue).
NoIdleSlot ==
  queue # <<>> =>
    Cardinality(processes) + Cardinality(Asking) + Cardinality(Looking)
      + Cardinality(Unspawned) >= MaxChild

\* No call and no process is concerned with the set.
Settled(s) ==
  /\ task[s] = "none"
  /\ child[s] \in {"none", "closed"}
  /\ \A h \in handlers : h.set # s

\* The last of the handlers that run beside each other sees that all sets are
\* done: the scenario is then marked as done.
ScenarioMarkedDone ==
  \A sc \in Scenarios :
    SetsOf(sc) # {} /\ (\A s \in SetsOf(sc) : isDone[s] /\ Settled(s)) => scenarioDone[sc]

\* All three: the bookkeeping of sets, slots and scenarios.
SetsAreServed == SetInOnePlace /\ NoIdleSlot /\ ScenarioMarkedDone

\* The queue is empty again and again, which is that a set that waits gets its
\* turn, unless a slot is lost for good: to the engine's own pid (a cached
\* result) or to a child that did not spawn.  And the slot of every child is
\* given back in the end.
SlotLost == {OwnPid, NoPid} \cap processes # {}
QueueAndSlotsMove ==
  /\ []<>(queue = <<>> \/ SlotLost)
  /\ []<>(processes \cap Sets = {})

\* ACCOUNT_LIMIT_TESTER_MAX_PROCESSES as the README has it: so many test
\* processes run at once.
MaxChildRespected == Cardinality(Alive) <= MaxChild
=============================================================================
