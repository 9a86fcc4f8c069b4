------------------------ MODULE TesterSchedulerProofs ------------------------
(***************************************************************************)
(* Proofs about TesterScheduler, for any scenarios and sets, any number of *)
(* child processes, and whichever of the events happen.                    *)
(***************************************************************************)
EXTENDS TesterScheduler, FiniteSetTheorems, TLAPS

Tasks == {"none", "artifacts", "existed", "cached"}
Children == {"none", "forked", "failed", "running", "exiting", "warned", "erred", "closed"}
LaunchType == [pc : {"idle", "bundle", "await", "end"}, left : SUBSET Sets, now : Sets \cup {NoSet}]
HandlerType == [set : Sets, kind : {"cached", "failed", "error", "close"}, status : {1, 3},
                pc : {"scenario", "report", "mark", "queue"}, next : Sets \cup {NoSet}]

SchedulerTypeOK ==
  /\ launch \in [Scenarios -> LaunchType]
  /\ task \in [Sets -> Tasks]
  /\ queue \in Seq(Sets)
  /\ processes \subseteq Sets \cup {OwnPid, NoPid}
  /\ child \in [Sets -> Children]
  /\ handlers \subseteq HandlerType
  /\ resultQueue \in Seq(Sets \X {1, 2, 3})
  /\ status \in [Sets -> {0, 1, 2, 3}]
  /\ isDone \in [Sets -> BOOLEAN]
  /\ scenarioDone \in [Scenarios -> BOOLEAN]

-----------------------------------------------------------------------------
(* The queue.                                                              *)

In(q, s) == \E n \in DOMAIN q : q[n] = s
NoneTwice(q) == \A m, n \in DOMAIN q : q[m] = q[n] => m = n

\* A set that is not queued yet is appended.
LEMMA AppendKeepsApart ==
  ASSUME NEW S, NEW q \in Seq(S), NEW s \in S, NoneTwice(q), ~In(q, s)
  PROVE  /\ Append(q, s) \in Seq(S)
         /\ NoneTwice(Append(q, s))
         /\ \A t : In(Append(q, s), t) <=> In(q, t) \/ t = s
<1>1. /\ Append(q, s) \in Seq(S) /\ Len(q) \in Nat /\ DOMAIN q = 1 .. Len(q)
      /\ DOMAIN Append(q, s) = 1 .. (Len(q) + 1)
      /\ \A n \in 1 .. Len(q) : Append(q, s)[n] = q[n]
      /\ Append(q, s)[Len(q) + 1] = s
  OBVIOUS
<1>2. NoneTwice(Append(q, s))
  BY <1>1 DEF NoneTwice, In
<1>3. ASSUME NEW t PROVE In(Append(q, s), t) <=> In(q, t) \/ t = s
  BY <1>1 DEF In
<1>4. QED
  BY <1>1, <1>2, <1>3

\* The head is taken from the queue.
LEMMA TailKeepsApart ==
  ASSUME NEW S, NEW q \in Seq(S), q # <<>>, NoneTwice(q)
  PROVE  /\ Head(q) \in S /\ Tail(q) \in Seq(S)
         /\ NoneTwice(Tail(q))
         /\ In(q, Head(q)) /\ ~In(Tail(q), Head(q))
         /\ \A t : In(Tail(q), t) => In(q, t)
<1>1. /\ Head(q) \in S /\ Tail(q) \in Seq(S) /\ Len(q) \in Nat \ {0} /\ DOMAIN q = 1 .. Len(q)
      /\ DOMAIN Tail(q) = 1 .. (Len(q) - 1)
      /\ \A n \in 1 .. (Len(q) - 1) : Tail(q)[n] = q[n + 1]
      /\ Head(q) = q[1]
  OBVIOUS
<1>2. NoneTwice(Tail(q))
  BY <1>1 DEF NoneTwice
<1>3. In(q, Head(q)) /\ ~In(Tail(q), Head(q))
  BY <1>1 DEF NoneTwice, In
<1>4. ASSUME NEW t, In(Tail(q), t) PROVE In(q, t)
  <2>1. PICK n \in 1 .. (Len(q) - 1) : Tail(q)[n] = t
    BY <1>1, <1>4 DEF In
  <2>2. n + 1 \in DOMAIN q /\ q[n + 1] = t
    BY <1>1, <2>1
  <2>3. QED
    BY <2>2 DEF In
<1>5. QED
  BY <1>1, <1>2, <1>3, <1>4

-----------------------------------------------------------------------------
(* A set in one place.                                                     *)

\* A queued set has not been started, and a started one has no child yet.
QueuedIdle == \A s \in Sets : In(queue, s) => task[s] = "none" /\ child[s] = "none"
TaskFirst == \A s \in Sets : task[s] # "none" => child[s] = "none"

\* Slots are held for children that were made.
SlotsOfChildren == \A s \in Sets : s \in processes => child[s] # "none"

\* An end is reported of a set that is neither started nor queued any more.
HandlersLast == \A h \in handlers : task[h.set] = "none" /\ ~In(queue, h.set)

\* Nothing has been done with the sets that a scenario has left to launch.
LeftUntouched ==
  \A sc \in Scenarios : \A s \in launch[sc].left :
    /\ ScenarioOf[s] = sc /\ task[s] = "none" /\ child[s] = "none" /\ ~In(queue, s)
    /\ \A h \in handlers : h.set # s

\* Each handler comes of an event of its own of the set's child, or of results
\* that were there.
HandlersOfChildren ==
  \A h \in handlers :
    \/ h.kind = "cached" /\ h.status = 1 /\ child[h.set] = "none"
    \/ h.kind = "failed" /\ h.status = 3 /\ child[h.set] \in {"erred", "closed"}
    \/ h.kind = "failed" /\ h.status = 1 /\ child[h.set] = "closed"
    \/ h.kind = "error" /\ h.status = 3 /\ child[h.set] \in {"warned", "closed"}
    \/ h.kind = "close" /\ h.status = 1 /\ child[h.set] = "closed"
HandlersDiffer ==
  \A h, g \in handlers : h.set = g.set /\ h.kind = g.kind /\ h.status = g.status => h = g

PlaceInv ==
  /\ SchedulerTypeOK /\ NoneTwice(queue) /\ QueuedIdle /\ TaskFirst /\ SlotsOfChildren
  /\ HandlersLast /\ LeftUntouched /\ HandlersOfChildren /\ HandlersDiffer

\* runInChild at its look at the slots: the set is queued, or goes on.
LEMMA CheckSlotsKeepsPlaces ==
  ASSUME PlaceInv, NEW s \in Sets, CheckSlots(s), child[s] = "none", ~In(queue, s),
         \A h \in handlers : h.set # s,
         \A sc \in Scenarios : launch'[sc].left \subseteq launch[sc].left \ {s},
         launch' \in [Scenarios -> LaunchType],
         UNCHANGED <<processes, child, handlers, resultQueue, status, isDone, scenarioDone>>
  PROVE  PlaceInv'
<1> USE PlaceInv DEF PlaceInv
<1>1. /\ task' \in [Sets -> Tasks] /\ queue' \in Seq(Sets) /\ NoneTwice(queue')
      /\ \A t \in Sets : t # s => task'[t] = task[t]
      /\ \A t \in Sets : In(queue', t) => t = s \/ In(queue, t)
      /\ In(queue', s) => task'[s] = "none"
  <2>1. CASE Cardinality(processes) >= MaxChild
    <3>1. queue' = Append(queue, s) /\ task' = [task EXCEPT ![s] = "none"]
      BY <2>1 DEF CheckSlots
    <3>2. QED
      BY <3>1, AppendKeepsApart DEF SchedulerTypeOK, Tasks
  <2>2. CASE ~(Cardinality(processes) >= MaxChild)
    <3>1. queue' = queue /\ task' = [task EXCEPT ![s] = "existed"]
      BY <2>2 DEF CheckSlots
    <3>2. QED
      BY <3>1 DEF SchedulerTypeOK, Tasks
  <2>3. QED
    BY <2>1, <2>2
<1>2. SchedulerTypeOK'
  BY <1>1 DEF SchedulerTypeOK
<1>3. QueuedIdle' /\ TaskFirst' /\ SlotsOfChildren'
  BY <1>1 DEF QueuedIdle, TaskFirst, SlotsOfChildren
<1>4. HandlersLast' 
  BY <1>1 DEF HandlersLast, SchedulerTypeOK, HandlerType
<1>5. LeftUntouched'
  BY <1>1 DEF LeftUntouched, SchedulerTypeOK, LaunchType
<1>6. HandlersOfChildren' /\ HandlersDiffer'
  BY DEF HandlersOfChildren, HandlersDiffer
<1>7. QED
  BY <1>1, <1>2, <1>3, <1>4, <1>5, <1>6

\* The end of onChildStop: the next set is taken from the queue, or none.
LEMMA FinishKeepsPlaces ==
  ASSUME PlaceInv, NEW h \in handlers, Finish(h),
         scenarioDone' \in [Scenarios -> BOOLEAN],
         UNCHANGED <<launch, processes, child, status, isDone>>
  PROVE  PlaceInv'
<1> USE PlaceInv DEF PlaceInv
<1>1. resultQueue' \in Seq(Sets \X {1, 2, 3})
  BY DEF SchedulerTypeOK, HandlerType, Finish
<1>2. /\ task' \in [Sets -> Tasks] /\ queue' \in Seq(Sets) /\ NoneTwice(queue')
      /\ \A t \in Sets : In(queue', t) => In(queue, t) /\ task'[t] = task[t]
      /\ \A t \in Sets : task'[t] = task[t] \/ In(queue, t)
      /\ handlers' \subseteq HandlerType
      /\ \A g \in handlers' : g \notin handlers =>
           /\ g.set = h.set /\ g.kind = h.kind /\ g.status = h.status
           /\ handlers' = (handlers \ {h}) \cup {g}
  <2>1. CASE Cardinality(processes) >= MaxChild \/ queue = <<>>
    BY <2>1 DEF Finish, SchedulerTypeOK
  <2>2. CASE ~(Cardinality(processes) >= MaxChild \/ queue = <<>>)
    <3> DEFINE g == [h EXCEPT !.pc = "queue", !.next = Head(queue)]
    <3>1. /\ task' = [task EXCEPT ![Head(queue)] = "existed"]
          /\ queue' = Tail(queue)
          /\ handlers' = (handlers \ {h}) \cup {g}
      BY <2>2 DEF Finish, Becomes
    <3>2. /\ Head(queue) \in Sets /\ queue' \in Seq(Sets) /\ NoneTwice(queue')
          /\ In(queue, Head(queue)) /\ ~In(queue', Head(queue))
          /\ \A t : In(queue', t) => In(queue, t)
      BY <2>2, <3>1, TailKeepsApart DEF SchedulerTypeOK
    <3>3. g \in HandlerType /\ g.set = h.set /\ g.kind = h.kind /\ g.status = h.status
      BY <3>2 DEF SchedulerTypeOK, HandlerType
    <3>4. task' \in [Sets -> Tasks]
      BY <3>1, <3>2 DEF SchedulerTypeOK, Tasks
    <3> HIDE DEF g
    <3>5. \A t \in Sets : /\ In(queue', t) => In(queue, t) /\ task'[t] = task[t]
                          /\ task'[t] = task[t] \/ In(queue, t)
      BY <3>1, <3>2 DEF SchedulerTypeOK
    <3>6. handlers' \subseteq HandlerType
      BY <3>1, <3>3 DEF SchedulerTypeOK
    <3>7. ASSUME NEW f \in handlers', f \notin handlers
          PROVE  /\ f.set = h.set /\ f.kind = h.kind /\ f.status = h.status
                 /\ handlers' = (handlers \ {h}) \cup {f}
      BY <3>1, <3>3, <3>7
    <3>8. QED
      BY <3>2, <3>4, <3>5, <3>6, <3>7
  <2>3. QED
    BY <2>1, <2>2
<1>3. \A g \in handlers' : \E f \in handlers : f.set = g.set /\ f.kind = g.kind /\ f.status = g.status
  BY <1>2
<1>4. SchedulerTypeOK'
  BY <1>1, <1>2 DEF SchedulerTypeOK
<1>5. QueuedIdle' /\ TaskFirst' /\ SlotsOfChildren'
  BY <1>2 DEF QueuedIdle, TaskFirst, SlotsOfChildren
<1>6. HandlersLast'
  BY <1>2, <1>3 DEF HandlersLast, SchedulerTypeOK, HandlerType
<1>7. LeftUntouched'
  BY SMTT(30), <1>2, <1>3 DEF LeftUntouched, SchedulerTypeOK, LaunchType
<1>8. HandlersOfChildren'
  BY <1>3 DEF HandlersOfChildren
<1>9. HandlersDiffer'
  BY <1>2 DEF HandlersDiffer
<1>10. QED
  BY <1>2, <1>4, <1>5, <1>6, <1>7, <1>8, <1>9

\* A handler goes on to its next step.
LEMMA BecomesKeepsPlaces ==
  ASSUME PlaceInv, NEW h \in handlers, NEW pc \in {"scenario", "report", "mark", "queue"},
         Becomes(h, [h EXCEPT !.pc = pc]), processes' \subseteq processes,
         UNCHANGED <<launch, task, queue, child, resultQueue, status, isDone, scenarioDone>>
  PROVE  PlaceInv'
<1> USE PlaceInv DEF PlaceInv
<1> DEFINE g == [h EXCEPT !.pc = pc]
<1>1. handlers' = (handlers \ {h}) \cup {g}
  BY DEF Becomes
<1>2. g \in HandlerType /\ g.set = h.set /\ g.kind = h.kind /\ g.status = h.status
  BY DEF SchedulerTypeOK, HandlerType
<1> HIDE DEF g
<1>3. SchedulerTypeOK'
  BY <1>1, <1>2 DEF SchedulerTypeOK
<1>4. QueuedIdle' /\ TaskFirst' /\ SlotsOfChildren'
  BY DEF QueuedIdle, TaskFirst, SlotsOfChildren
<1>5. HandlersLast' /\ LeftUntouched'
  BY <1>1, <1>2 DEF HandlersLast, LeftUntouched
<1>6. HandlersOfChildren' /\ HandlersDiffer'
  BY <1>1, <1>2 DEF HandlersOfChildren, HandlersDiffer
<1>7. QED
  BY <1>3, <1>4, <1>5, <1>6

\* A handler begins: the first of its kind for a set that is on its way no more.
LEMMA HandlerKeepsPlaces ==
  ASSUME PlaceInv, NEW s \in Sets, NEW kind \in {"cached", "failed", "error", "close"},
         NEW st \in {1, 3}, handlers' = handlers \cup {Handler(s, kind, st)},
         ~In(queue, s), \A sc \in Scenarios : s \notin launch[sc].left,
         child' \in [Sets -> Children],
         \A t \in Sets \ {s} : child'[t] = child[t] /\ task'[t] = task[t],
         child[s] = "none" <=> child'[s] = "none",
         child[s] \in {"closed", "warned", "erred"} => child'[s] \in {child[s], "closed"},
         task' \in [Sets -> Tasks], task'[s] = "none",
         \/ kind = "cached" /\ st = 1 /\ child'[s] = "none" /\ \A h \in handlers : h.set # s
         \/ kind = "failed" /\ st = 3 /\ child[s] = "failed" /\ child'[s] = "erred"
         \/ kind = "failed" /\ st = 1 /\ child[s] = "erred" /\ child'[s] = "closed"
         \/ kind = "error" /\ st = 3 /\ child[s] = "exiting" /\ child'[s] = "warned"
         \/ kind = "close" /\ st = 1 /\ child[s] \in {"exiting", "warned"} /\ child'[s] = "closed",
         isDone' \in [Sets -> BOOLEAN],
         UNCHANGED <<launch, queue, processes, resultQueue, status, scenarioDone>>
  PROVE  PlaceInv'
<1> USE PlaceInv DEF PlaceInv
<1>1. /\ Handler(s, kind, st) \in HandlerType /\ Handler(s, kind, st).set = s
      /\ Handler(s, kind, st).kind = kind /\ Handler(s, kind, st).status = st
  BY DEF HandlerType, Handler
<1>2. SchedulerTypeOK'
  BY <1>1 DEF SchedulerTypeOK
<1>3. QueuedIdle' /\ TaskFirst' /\ SlotsOfChildren'
  BY DEF QueuedIdle, TaskFirst, SlotsOfChildren
<1>4. HandlersLast'
  BY <1>1 DEF HandlersLast, SchedulerTypeOK, HandlerType
<1>5. LeftUntouched'
  BY <1>1 DEF LeftUntouched, SchedulerTypeOK, LaunchType
<1>6. HandlersOfChildren'
  BY <1>1 DEF HandlersOfChildren, SchedulerTypeOK, HandlerType
<1>7. \A h \in handlers : ~(h.set = s /\ h.kind = kind /\ h.status = st)
  BY <1>1 DEF HandlersOfChildren
<1>8. HandlersDiffer'
  BY <1>1, <1>7 DEF HandlersDiffer
<1>9. QED
  BY <1>2, <1>3, <1>4, <1>5, <1>6, <1>8

\* Every step keeps every set in its place.
LEMMA PlacesStep == PlaceInv /\ [Next]_vars => PlaceInv'
<1> SUFFICES ASSUME PlaceInv, [Next]_vars PROVE PlaceInv'
  OBVIOUS
<1> USE DEF PlaceInv
<1>1. ASSUME NEW sc \in Scenarios, RunScenario(sc) PROVE PlaceInv'
  <2>1. launch' \in [Scenarios -> LaunchType] /\ \A r \in Scenarios : launch'[r].left = launch[r].left
    BY ZenonT(30), <1>1 DEF RunScenario, SchedulerTypeOK, LaunchType
  <2>2. SchedulerTypeOK'
    BY <1>1, <2>1 DEF RunScenario, SchedulerTypeOK
  <2>3. LeftUntouched'
    BY <1>1, <2>1 DEF RunScenario, LeftUntouched
  <2>4. QED
    BY <1>1, <2>2, <2>3 DEF RunScenario, QueuedIdle, TaskFirst, SlotsOfChildren, HandlersLast,
      HandlersOfChildren, HandlersDiffer
<1>2. ASSUME NEW sc \in Scenarios, NEW s \in Sets, LaunchSet(sc, s) PROVE PlaceInv'
  <2>1. /\ launch' \in [Scenarios -> LaunchType]
        /\ \A r \in Scenarios : launch'[r].left \subseteq launch[r].left
        /\ s \in launch[sc].left /\ s \notin launch'[sc].left
    BY <1>2 DEF LaunchSet, SchedulerTypeOK, LaunchType
  <2>2. /\ ScenarioOf[s] = sc /\ task[s] = "none" /\ child[s] = "none" /\ ~In(queue, s)
        /\ \A h \in handlers : h.set # s
    BY <2>1 DEF LeftUntouched
  <2>3. \A r \in Scenarios : launch'[r].left \subseteq launch[r].left \ {s}
    BY <2>1, <2>2 DEF LeftUntouched
  <2>4. CASE CheckSlots(s)
    BY <1>2, <2>1, <2>2, <2>3, <2>4, CheckSlotsKeepsPlaces DEF LaunchSet
  <2>5. CASE task' = [task EXCEPT ![s] = "artifacts"] /\ UNCHANGED queue
    <3>1. task' \in [Sets -> Tasks] /\ task'[s] = "artifacts" /\ \A t \in Sets \ {s} : task'[t] = task[t]
      BY <2>5 DEF SchedulerTypeOK, Tasks
    <3>2. UNCHANGED <<queue, processes, child, handlers, resultQueue, status, isDone, scenarioDone>>
      BY <1>2, <2>5 DEF LaunchSet
    <3>3. SchedulerTypeOK'
      BY <2>1, <3>1, <3>2 DEF SchedulerTypeOK
    <3>4. QueuedIdle' /\ TaskFirst' /\ SlotsOfChildren'
      BY <2>2, <3>1, <3>2 DEF QueuedIdle, TaskFirst, SlotsOfChildren
    <3>5. HandlersLast'
      BY <2>2, <3>1, <3>2 DEF HandlersLast, SchedulerTypeOK, HandlerType
    <3>6. LeftUntouched'
      BY <2>1, <2>2, <2>3, <3>1, <3>2 DEF LeftUntouched, SchedulerTypeOK, LaunchType
    <3>7. QED
      BY <3>2, <3>3, <3>4, <3>5, <3>6 DEF HandlersOfChildren, HandlersDiffer
  <2>6. QED
    BY <1>2, <2>4, <2>5 DEF LaunchSet
<1>3. ASSUME NEW sc \in Scenarios, LaunchGoesOn(sc) PROVE PlaceInv'
  <2>1. launch' \in [Scenarios -> LaunchType] /\ \A r \in Scenarios : launch'[r].left = launch[r].left
    <3> DEFINE pc == IF launch[sc].left = {} THEN "end" ELSE "bundle"
    <3>1. pc \in {"end", "bundle"} /\ launch' = [launch EXCEPT ![sc].pc = pc]
      BY <1>3 DEF LaunchGoesOn
    <3> HIDE DEF pc
    <3> DEFINE x == [launch[sc] EXCEPT !.pc = pc]
    <3>2. launch \in [Scenarios -> LaunchType] /\ launch[sc] \in LaunchType
      BY DEF SchedulerTypeOK
    <3>3. x \in LaunchType /\ x.left = launch[sc].left
      BY <3>1, <3>2 DEF LaunchType
    <3>4. launch' = [launch EXCEPT ![sc] = x]
      BY <3>1
    <3> HIDE DEF x
    <3>5. QED
      BY <3>2, <3>3, <3>4
  <2>2. SchedulerTypeOK'
    BY <1>3, <2>1 DEF LaunchGoesOn, SchedulerTypeOK
  <2>3. LeftUntouched'
    BY <1>3, <2>1 DEF LaunchGoesOn, LeftUntouched
  <2>4. QED
    BY <1>3, <2>2, <2>3 DEF LaunchGoesOn, QueuedIdle, TaskFirst, SlotsOfChildren, HandlersLast,
      HandlersOfChildren, HandlersDiffer
<1>4. ASSUME NEW s \in Sets, TaskArtifacts(s) PROVE PlaceInv'
  <2>1. task[s] = "artifacts" /\ child[s] = "none" /\ ~In(queue, s) /\ \A h \in handlers : h.set # s
    BY <1>4 DEF TaskArtifacts, TaskFirst, QueuedIdle, HandlersLast
  <2>2. /\ launch' \in [Scenarios -> LaunchType]
        /\ \A sc \in Scenarios : launch'[sc].left \subseteq launch[sc].left \ {s}
    BY <1>4, <2>1 DEF TaskArtifacts, LeftUntouched, SchedulerTypeOK
  <2>3. QED
    BY <1>4, <2>1, <2>2, CheckSlotsKeepsPlaces DEF TaskArtifacts
<1>5. ASSUME NEW s \in Sets, TaskForks(s) PROVE PlaceInv'
  <2>1. /\ task[s] = "existed" /\ child[s] = "none" /\ ~In(queue, s)
        /\ (\A h \in handlers : h.set # s) /\ \A sc \in Scenarios : s \notin launch[sc].left
    BY <1>5 DEF TaskForks, TaskFirst, QueuedIdle, HandlersLast, LeftUntouched
  <2>2. /\ task' \in [Sets -> Tasks] /\ task'[s] = "none"
        /\ child' \in [Sets -> Children] /\ child'[s] # "none"
        /\ \A t \in Sets \ {s} : task'[t] = task[t] /\ child'[t] = child[t]
        /\ processes' \subseteq processes \cup {s, NoPid}
    BY <1>5 DEF TaskForks, SchedulerTypeOK, Tasks, Children
  <2>3. UNCHANGED <<launch, queue, handlers, resultQueue, status, isDone, scenarioDone>>
    BY <1>5 DEF TaskForks
  <2>4. SchedulerTypeOK'
    BY <2>2, <2>3 DEF SchedulerTypeOK
  <2>5. QueuedIdle' /\ TaskFirst' /\ SlotsOfChildren'
    BY <2>1, <2>2, <2>3, PidsDiffer DEF QueuedIdle, TaskFirst, SlotsOfChildren
  <2>6. HandlersLast' /\ HandlersOfChildren' /\ HandlersDiffer'
    BY <2>1, <2>2, <2>3 DEF HandlersLast, HandlersOfChildren, HandlersDiffer, SchedulerTypeOK, HandlerType
  <2>7. LeftUntouched'
    BY <2>1, <2>2, <2>3 DEF LeftUntouched, SchedulerTypeOK, LaunchType
  <2>8. QED
    BY <2>3, <2>4, <2>5, <2>6, <2>7
<1>6. ASSUME NEW s \in Sets, TaskCached(s) PROVE PlaceInv'
  <2>1. task[s] = "existed" /\ UNCHANGED <<launch, queue, child, handlers, resultQueue, status, isDone, scenarioDone>>
    BY <1>6 DEF TaskCached
  <2>2. /\ task' \in [Sets -> Tasks] /\ task'[s] = "cached"
        /\ \A t \in Sets \ {s} : task'[t] = task[t]
        /\ processes' = processes \cup {OwnPid}
    BY <1>6 DEF TaskCached, SchedulerTypeOK, Tasks
  <2>3. SchedulerTypeOK'
    BY <2>1, <2>2 DEF SchedulerTypeOK
  <2>4. QueuedIdle' /\ TaskFirst' /\ SlotsOfChildren'
    BY <2>1, <2>2, PidsDiffer DEF QueuedIdle, TaskFirst, SlotsOfChildren
  <2>5. HandlersLast' /\ HandlersOfChildren' /\ HandlersDiffer'
    BY <2>1, <2>2 DEF HandlersLast, HandlersOfChildren, HandlersDiffer, SchedulerTypeOK, HandlerType
  <2>6. LeftUntouched'
    BY <2>1, <2>2 DEF LeftUntouched, SchedulerTypeOK, LaunchType
  <2>7. QED
    BY <2>1, <2>3, <2>4, <2>5, <2>6
<1>7. ASSUME NEW s \in Sets, TaskDone(s) PROVE PlaceInv'
  <2>1. /\ task[s] = "cached" /\ child[s] = "none" /\ ~In(queue, s)
        /\ (\A h \in handlers : h.set # s) /\ \A sc \in Scenarios : s \notin launch[sc].left
    BY <1>7 DEF TaskDone, TaskFirst, QueuedIdle, HandlersLast, LeftUntouched
  <2>2. /\ task' \in [Sets -> Tasks] /\ task'[s] = "none" /\ \A t \in Sets \ {s} : task'[t] = task[t]
        /\ isDone' \in [Sets -> BOOLEAN]
    BY <1>7 DEF TaskDone, SchedulerTypeOK, Tasks
  <2>3. /\ handlers' = handlers \cup {Handler(s, "cached", 1)}
        /\ UNCHANGED <<launch, queue, processes, child, resultQueue, status, scenarioDone>>
    BY <1>7 DEF TaskDone
  <2>4. child' \in [Sets -> Children]
    BY <2>3 DEF SchedulerTypeOK
  <2>5. QED
    BY <2>1, <2>2, <2>3, <2>4, HandlerKeepsPlaces
<1>8. ASSUME NEW s \in Sets, ChildSpawned(s) \/ ChildExits(s) PROVE PlaceInv'
  <2>1. /\ child[s] \in {"forked", "running"} /\ child' \in [Sets -> Children]
        /\ child'[s] \in {"running", "exiting"}
        /\ \A t \in Sets \ {s} : child'[t] = child[t]
    BY <1>8 DEF ChildSpawned, ChildExits, SchedulerTypeOK, Children
  <2>2. /\ isDone' \in [Sets -> BOOLEAN]
        /\ UNCHANGED <<launch, task, queue, processes, handlers, status, scenarioDone>>
    BY <1>8 DEF ChildSpawned, ChildExits, SchedulerTypeOK
  <2>3. resultQueue' \in Seq(Sets \X {1, 2, 3})
    <3>1. <<s, 2>> \in Sets \X {1, 2, 3} /\ resultQueue \in Seq(Sets \X {1, 2, 3})
      BY DEF SchedulerTypeOK
    <3>2. resultQueue' \in {resultQueue, Append(resultQueue, <<s, 2>>)}
      BY <1>8 DEF ChildSpawned, ChildExits
    <3>3. QED
      BY <3>1, <3>2
  <2>4. SchedulerTypeOK'
    BY <2>1, <2>2, <2>3 DEF SchedulerTypeOK
  <2>5. QueuedIdle' /\ TaskFirst' /\ SlotsOfChildren'
    BY <2>1, <2>2 DEF QueuedIdle, TaskFirst, SlotsOfChildren
  <2>6. HandlersLast' /\ HandlersOfChildren' /\ HandlersDiffer'
    BY <2>1, <2>2 DEF HandlersLast, HandlersOfChildren, HandlersDiffer, SchedulerTypeOK, HandlerType
  <2>7. LeftUntouched'
    BY <2>1, <2>2 DEF LeftUntouched, SchedulerTypeOK, LaunchType
  <2>8. QED
    BY <2>2, <2>4, <2>5, <2>6, <2>7
<1>9. ASSUME NEW s \in Sets, ChildError(s) PROVE PlaceInv'
  <2>1. /\ child[s] \in {"failed", "exiting"} /\ ~In(queue, s) /\ task[s] = "none"
        /\ \A sc \in Scenarios : s \notin launch[sc].left
    BY <1>9 DEF ChildError, TaskFirst, QueuedIdle, LeftUntouched
  <2>2. /\ child' \in [Sets -> Children]
        /\ child'[s] = IF child[s] = "failed" THEN "erred" ELSE "warned"
        /\ \A t \in Sets \ {s} : child'[t] = child[t]
    BY <1>9 DEF ChildError, SchedulerTypeOK, Children
  <2>3. /\ UNCHANGED <<launch, task, queue, processes, resultQueue, status, scenarioDone>>
        /\ isDone' \in [Sets -> BOOLEAN] /\ task' \in [Sets -> Tasks]
    BY <1>9 DEF ChildError, SchedulerTypeOK
  <2>4. CASE child[s] = "failed"
    <3>1. handlers' = handlers \cup {Handler(s, "failed", 3)}
      BY <1>9, <2>4 DEF ChildError
    <3>2. QED
      BY <2>1, <2>2, <2>3, <2>4, <3>1, HandlerKeepsPlaces
  <2>5. CASE child[s] = "exiting"
    <3>1. handlers' = handlers \cup {Handler(s, "error", 3)}
      BY <1>9, <2>5 DEF ChildError
    <3>2. QED
      BY <2>1, <2>2, <2>3, <2>5, <3>1, HandlerKeepsPlaces
  <2>6. QED
    BY <2>1, <2>4, <2>5
<1>10. ASSUME NEW s \in Sets, ChildCloses(s) PROVE PlaceInv'
  <2>1. /\ child[s] \in {"exiting", "warned", "erred"} /\ ~In(queue, s) /\ task[s] = "none"
        /\ \A sc \in Scenarios : s \notin launch[sc].left
    BY <1>10 DEF ChildCloses, TaskFirst, QueuedIdle, LeftUntouched
  <2>2. /\ child' \in [Sets -> Children] /\ child'[s] = "closed"
        /\ \A t \in Sets \ {s} : child'[t] = child[t]
    BY <1>10 DEF ChildCloses, SchedulerTypeOK, Children
  <2>3. /\ UNCHANGED <<launch, task, queue, processes, resultQueue, status, scenarioDone>>
        /\ isDone' \in [Sets -> BOOLEAN] /\ task' \in [Sets -> Tasks]
    BY <1>10 DEF ChildCloses, SchedulerTypeOK
  <2>4. CASE child[s] = "erred"
    <3>1. handlers' = handlers \cup {Handler(s, "failed", 1)}
      BY <1>10, <2>4 DEF ChildCloses
    <3>2. QED
      BY <2>1, <2>2, <2>3, <2>4, <3>1, HandlerKeepsPlaces
  <2>5. CASE child[s] \in {"exiting", "warned"}
    <3>1. handlers' = handlers \cup {Handler(s, "close", 1)}
      BY <1>10, <2>5 DEF ChildCloses
    <3>2. QED
      BY <2>1, <2>2, <2>3, <2>5, <3>1, HandlerKeepsPlaces
  <2>6. QED
    BY <2>1, <2>4, <2>5
<1>11. ASSUME NEW h \in handlers, FreeSlot(h) PROVE PlaceInv'
  BY <1>11, BecomesKeepsPlaces DEF FreeSlot
<1>12. ASSUME NEW h \in handlers, MakeReport(h) PROVE PlaceInv'
  <2>1. CASE Finish(h)
    <3>1. scenarioDone' \in [Scenarios -> BOOLEAN]
      BY <1>12 DEF MakeReport, SchedulerTypeOK
    <3>2. QED
      BY <1>12, <2>1, <3>1, FinishKeepsPlaces DEF MakeReport
  <2>2. CASE Becomes(h, [h EXCEPT !.pc = "mark"]) /\ UNCHANGED <<task, queue, resultQueue>>
    BY <1>12, <2>2, BecomesKeepsPlaces DEF MakeReport
  <2>3. QED
    BY <1>12, <2>1, <2>2 DEF MakeReport
<1>13. ASSUME NEW h \in handlers, MarkScenario(h) PROVE PlaceInv'
  <2>1. scenarioDone' \in [Scenarios -> BOOLEAN]
    BY <1>13 DEF MarkScenario, SchedulerTypeOK
  <2>2. QED
    BY <1>13, <2>1, FinishKeepsPlaces DEF MarkScenario
<1>14. ASSUME NEW h \in handlers, QueueProcessed(h) PROVE PlaceInv'
  <2>1. /\ handlers' \subseteq handlers
        /\ UNCHANGED <<launch, task, queue, processes, child, resultQueue, status, isDone, scenarioDone>>
    BY <1>14 DEF QueueProcessed
  <2>2. QED
    BY <2>1 DEF SchedulerTypeOK, QueuedIdle, TaskFirst, SlotsOfChildren, HandlersLast, LeftUntouched,
      HandlersOfChildren, HandlersDiffer
<1>15. CASE WriteResult
  <2>1. /\ resultQueue' \in Seq(Sets \X {1, 2, 3}) /\ status' \in [Sets -> {0, 1, 2, 3}]
    <3>1. resultQueue # <<>> /\ resultQueue \in Seq(Sets \X {1, 2, 3}) /\ resultQueue' = Tail(resultQueue)
      BY <1>15 DEF WriteResult, SchedulerTypeOK
    <3>2. Head(resultQueue) \in Sets \X {1, 2, 3} /\ resultQueue' \in Seq(Sets \X {1, 2, 3})
      BY <3>1
    <3>3. status' = [status EXCEPT ![Head(resultQueue)[1]] = Head(resultQueue)[2]]
      BY <1>15 DEF WriteResult
    <3>4. Head(resultQueue)[2] \in {0, 1, 2, 3}
      BY <3>2
    <3>5. QED
      BY <3>2, <3>3, <3>4 DEF SchedulerTypeOK
  <2>2. UNCHANGED <<launch, task, queue, processes, child, handlers, isDone, scenarioDone>>
    BY <1>15 DEF WriteResult
  <2>3. QED
    BY <2>1, <2>2 DEF SchedulerTypeOK, QueuedIdle, TaskFirst, SlotsOfChildren, HandlersLast,
      LeftUntouched, HandlersOfChildren, HandlersDiffer
<1>16. CASE StopAllProcesses
  <2>1. /\ queue' = <<>> /\ UNCHANGED <<launch, task, processes, child, handlers, resultQueue, status, isDone,
                                        scenarioDone>>
    BY <1>16 DEF StopAllProcesses
  <2>2. queue' \in Seq(Sets) /\ NoneTwice(queue') /\ \A s : ~In(queue', s)
    BY <2>1 DEF NoneTwice, In
  <2>3. QED
    BY <2>1, <2>2 DEF SchedulerTypeOK, QueuedIdle, TaskFirst, SlotsOfChildren, HandlersLast,
      LeftUntouched, HandlersOfChildren, HandlersDiffer
<1>17. CASE UNCHANGED vars
  BY <1>17 DEF vars, SchedulerTypeOK, QueuedIdle, TaskFirst, SlotsOfChildren, HandlersLast,
    LeftUntouched, HandlersOfChildren, HandlersDiffer
<1>18. QED
  BY <1>1, <1>2, <1>3, <1>4, <1>5, <1>6, <1>7, <1>8, <1>9, <1>10, <1>11, <1>12, <1>13, <1>14, <1>15,
     <1>16, <1>17 DEF Next, LaunchStep, TaskStep, ChildStep, HandlerStepOf, HandlerStep

\* At the start nothing has been done with any set.
LEMMA PlacesInit == Init => PlaceInv
<1> SUFFICES ASSUME Init PROVE PlaceInv
  OBVIOUS
<1>1. \A sc \in Scenarios : launch[sc].left = SetsOf(sc)
  BY DEF Init
<1>2. SchedulerTypeOK
  BY DEF Init, SchedulerTypeOK, LaunchType, SetsOf, Tasks, Children
<1>3. LeftUntouched
  BY <1>1 DEF Init, LeftUntouched, SetsOf, In
<1>4. QED
  BY <1>2, <1>3 DEF Init, PlaceInv, NoneTwice, QueuedIdle, TaskFirst, SlotsOfChildren, HandlersLast,
    HandlersOfChildren, HandlersDiffer, In

\* So a set waits, is asked for or has its child, but one of them only.
LEMMA PlacesAreOne == PlaceInv => SetInOnePlace
<1> SUFFICES ASSUME PlaceInv, NEW s \in Sets
             PROVE  Cardinality(InQueue(s)) + (IF task[s] # "none" THEN 1 ELSE 0)
                      + (IF child[s] # "none" THEN 1 ELSE 0) <= 1
  BY DEF SetInOnePlace
<1>1. CASE In(queue, s)
  <2>1. PICK n \in DOMAIN queue : queue[n] = s
    BY <1>1 DEF In
  <2>2. InQueue(s) = {n}
    BY <2>1 DEF InQueue, PlaceInv, NoneTwice
  <2>3. Cardinality(InQueue(s)) = 1
    BY <2>2, FS_Singleton
  <2>4. task[s] = "none" /\ child[s] = "none"
    BY <1>1 DEF PlaceInv, QueuedIdle
  <2>5. QED
    BY <2>3, <2>4
<1>2. CASE ~In(queue, s)
  <2>1. InQueue(s) = {}
    BY <1>2 DEF InQueue, In
  <2>2. Cardinality(InQueue(s)) = 0
    BY <2>1, FS_EmptySet
  <2>3. task[s] = "none" \/ child[s] = "none"
    BY DEF PlaceInv, TaskFirst
  <2>4. QED
    BY <2>2, <2>3
<1>3. QED
  BY <1>1, <1>2

-----------------------------------------------------------------------------
(* The mark of a scenario.                                                 *)

\* Something will still look whether all sets of the scenario are done.
Reporting(sc) ==
  \/ \E s \in SetsOf(sc) : child[s] \notin {"none", "closed"}
  \/ \E h \in handlers : h.set \in SetsOf(sc) /\ h.pc \in {"scenario", "report", "mark"}

MarkInv ==
  \A sc \in Scenarios :
    SetsOf(sc) # {} /\ (\A s \in SetsOf(sc) : isDone[s]) => scenarioDone[sc] \/ Reporting(sc)

LEMMA MarkInit == Init => MarkInv
BY DEF Init, MarkInv, SetsOf

\* A set is marked by its child that still has to close, or together with its
\* handler; and a handler leaves with a scenario marked, or with a set that is not.
LEMMA MarkStep == PlaceInv /\ MarkInv /\ [Next]_vars => MarkInv'
<1> SUFFICES ASSUME PlaceInv, MarkInv, [Next]_vars,
                    NEW sc \in Scenarios, SetsOf(sc) # {}, \A s \in SetsOf(sc) : isDone'[s]
             PROVE  scenarioDone'[sc] \/ Reporting(sc)'
  BY DEF MarkInv, SetsOf
<1> USE DEF PlaceInv
<1>1. ASSUME UNCHANGED <<handlers, child, isDone, scenarioDone>>
      PROVE  scenarioDone'[sc] \/ Reporting(sc)'
  BY <1>1 DEF MarkInv, Reporting, SetsOf
<1>2. ASSUME NEW r \in Scenarios, RunScenario(r) \/ LaunchStep(r)
      PROVE  scenarioDone'[sc] \/ Reporting(sc)'
  BY <1>1, <1>2 DEF RunScenario, LaunchStep, LaunchSet, LaunchGoesOn
<1>3. ASSUME NEW s \in Sets, TaskArtifacts(s) \/ TaskCached(s)
      PROVE  scenarioDone'[sc] \/ Reporting(sc)'
  BY <1>1, <1>3 DEF TaskArtifacts, TaskCached
<1>4. CASE WriteResult \/ StopAllProcesses \/ UNCHANGED vars
  BY <1>1, <1>4 DEF WriteResult, StopAllProcesses, vars
<1>5. ASSUME NEW s \in Sets, TaskForks(s)
      PROVE  scenarioDone'[sc] \/ Reporting(sc)'
  <2>1. /\ UNCHANGED <<handlers, isDone, scenarioDone>>
        /\ \A t \in Sets : child'[t] # child[t] => child'[t] \in {"forked", "failed"}
    BY <1>5 DEF TaskForks, SchedulerTypeOK
  <2>2. QED
    BY <2>1 DEF MarkInv, Reporting, SetsOf
<1>6. ASSUME NEW s \in Sets, TaskDone(s)
      PROVE  scenarioDone'[sc] \/ Reporting(sc)'
  <2>1. /\ handlers' = handlers \cup {Handler(s, "cached", 1)}
        /\ UNCHANGED <<child, scenarioDone>>
        /\ \A t \in Sets \ {s} : isDone'[t] = isDone[t]
    BY <1>6 DEF TaskDone, SchedulerTypeOK
  <2>2. Handler(s, "cached", 1).set = s /\ Handler(s, "cached", 1).pc = "scenario"
    BY DEF Handler
  <2>3. CASE s \in SetsOf(sc)
    BY <2>1, <2>2, <2>3 DEF Reporting, SetsOf
  <2>4. CASE s \notin SetsOf(sc)
    <3>1. scenarioDone[sc] \/ Reporting(sc)
      BY <2>1, <2>4 DEF MarkInv, SetsOf
    <3>2. QED
      BY <2>1, <3>1 DEF Reporting, SetsOf
  <2>5. QED
    BY <2>3, <2>4
<1>7. ASSUME NEW s \in Sets, ChildSpawned(s) \/ ChildExits(s)
      PROVE  scenarioDone'[sc] \/ Reporting(sc)'
  <2>1. /\ UNCHANGED <<handlers, scenarioDone>>
        /\ child'[s] \in {"running", "exiting"}
        /\ \A t \in Sets \ {s} : isDone'[t] = isDone[t] /\ child'[t] = child[t]
    BY <1>7 DEF ChildSpawned, ChildExits, SchedulerTypeOK
  <2>2. CASE s \in SetsOf(sc)
    BY <2>1, <2>2 DEF Reporting, SetsOf
  <2>3. CASE s \notin SetsOf(sc)
    <3>1. scenarioDone[sc] \/ Reporting(sc)
      BY <2>1, <2>3 DEF MarkInv, SetsOf
    <3>2. QED
      BY <2>1, <2>3, <3>1 DEF Reporting, SetsOf
  <2>4. QED
    BY <2>2, <2>3
<1>8. ASSUME NEW s \in Sets, ChildError(s) \/ ChildCloses(s)
      PROVE  scenarioDone'[sc] \/ Reporting(sc)'
  <2>1. PICK kind \in {"failed", "error", "close"}, st \in {1, 3} :
          handlers' = handlers \cup {Handler(s, kind, st)}
    BY <1>8 DEF ChildError, ChildCloses
  <2>2. /\ UNCHANGED <<isDone, scenarioDone>>
        /\ \A t \in Sets \ {s} : child'[t] = child[t]
    BY <1>8 DEF ChildError, ChildCloses, SchedulerTypeOK
  <2>3. Handler(s, kind, st).set = s /\ Handler(s, kind, st).pc = "scenario"
    BY DEF Handler
  <2>4. CASE s \in SetsOf(sc)
    BY <2>1, <2>3, <2>4 DEF Reporting, SetsOf
  <2>5. CASE s \notin SetsOf(sc)
    <3>1. scenarioDone[sc] \/ Reporting(sc)
      BY <2>2 DEF MarkInv, SetsOf
    <3>2. QED
      BY <2>1, <2>2, <2>5, <3>1 DEF Reporting, SetsOf
  <2>6. QED
    BY <2>4, <2>5
<1>9. ASSUME NEW h \in handlers, NEW pc \in {"report", "mark"}, Becomes(h, [h EXCEPT !.pc = pc]),
             UNCHANGED <<child, isDone, scenarioDone>>
      PROVE  scenarioDone'[sc] \/ Reporting(sc)'
  <2> DEFINE g == [h EXCEPT !.pc = pc]
  <2>1. handlers' = (handlers \ {h}) \cup {g} /\ g.set = h.set /\ g.pc = pc
    BY <1>9 DEF Becomes, SchedulerTypeOK, HandlerType
  <2> HIDE DEF g
  <2>2. scenarioDone[sc] \/ Reporting(sc)
    BY <1>9 DEF MarkInv, SetsOf
  <2>3. QED
    BY <1>9, <2>1, <2>2 DEF Reporting, SetsOf
<1>10. ASSUME NEW h \in handlers, FreeSlot(h)
       PROVE  scenarioDone'[sc] \/ Reporting(sc)'
  BY <1>9, <1>10 DEF FreeSlot
<1>11. ASSUME NEW h \in handlers, Finish(h)
       PROVE  \A g \in handlers : g # h => g \in handlers'
  BY <1>11 DEF Finish, Becomes
<1>12. ASSUME NEW h \in handlers, MakeReport(h)
       PROVE  scenarioDone'[sc] \/ Reporting(sc)'
  <2>1. UNCHANGED <<child, isDone, scenarioDone>>
    BY <1>12 DEF MakeReport
  <2>2. CASE \A s \in SetsOf(ScenarioOf[h.set]) : isDone[s]
    BY <1>9, <1>12, <2>1, <2>2 DEF MakeReport
  <2>3. CASE ~\A s \in SetsOf(ScenarioOf[h.set]) : isDone[s]
    <3>1. Finish(h)
      BY <1>12, <2>3 DEF MakeReport
    <3>2. h.set \notin SetsOf(sc)
      BY <2>1, <2>3 DEF SetsOf
    <3>3. scenarioDone[sc] \/ Reporting(sc)
      BY <2>1 DEF MarkInv, SetsOf
    <3>4. QED
      BY <1>11, <2>1, <3>1, <3>2, <3>3 DEF Reporting, SetsOf
  <2>4. QED
    BY <2>2, <2>3
<1>13. ASSUME NEW h \in handlers, MarkScenario(h)
       PROVE  scenarioDone'[sc] \/ Reporting(sc)'
  <2>1. /\ UNCHANGED <<child, isDone>> /\ Finish(h)
        /\ scenarioDone' = [scenarioDone EXCEPT ![ScenarioOf[h.set]] = TRUE]
    BY <1>13 DEF MarkScenario
  <2>2. CASE h.set \in SetsOf(sc)
    BY <2>1, <2>2 DEF SetsOf, SchedulerTypeOK
  <2>3. CASE h.set \notin SetsOf(sc)
    <3>1. scenarioDone[sc] \/ Reporting(sc)
      BY <2>1 DEF MarkInv, SetsOf
    <3>2. scenarioDone[sc] => scenarioDone'[sc]
      BY <2>1 DEF SchedulerTypeOK
    <3>3. QED
      BY <1>11, <2>1, <2>3, <3>1, <3>2 DEF Reporting, SetsOf
  <2>4. QED
    BY <2>2, <2>3
<1>14. ASSUME NEW h \in handlers, QueueProcessed(h)
       PROVE  scenarioDone'[sc] \/ Reporting(sc)'
  <2>1. UNCHANGED <<child, isDone, scenarioDone>> /\ handlers' = handlers \ {h} /\ h.pc = "queue"
    BY <1>14 DEF QueueProcessed
  <2>2. scenarioDone[sc] \/ Reporting(sc)
    BY <2>1 DEF MarkInv, SetsOf
  <2>3. QED
    BY <2>1, <2>2 DEF Reporting, SetsOf
<1>15. QED
  BY <1>2, <1>3, <1>4, <1>5, <1>6, <1>7, <1>8, <1>10, <1>12, <1>13, <1>14
     DEF Next, TaskStep, ChildStep, HandlerStepOf, HandlerStep

\* Once all sets are settled nobody reports any more.
LEMMA MarkIsMade == MarkInv => ScenarioMarkedDone
BY DEF MarkInv, ScenarioMarkedDone, Reporting, Settled

-----------------------------------------------------------------------------
(* Slots and wake-ups.                                                     *)

Counted == /\ IsFiniteSet(processes) /\ IsFiniteSet(Asking)
           /\ IsFiniteSet(Looking) /\ IsFiniteSet(Unspawned)

\* How many slots are taken, and how many will look at the queue.
Watch == Cardinality(processes) + Cardinality(Asking) + Cardinality(Looking) + Cardinality(Unspawned)

SlotInv == Counted /\ NoIdleSlot

\* What comes to a finite set, or leaves it, changes its number by one.
LEMMA OneComes ==
  ASSUME NEW S, IsFiniteSet(S), NEW x
  PROVE  /\ IsFiniteSet(S \cup {x}) /\ Cardinality(S) \in Nat /\ Cardinality(S \cup {x}) \in Nat
         /\ Cardinality(S \cup {x}) >= Cardinality(S)
         /\ x \notin S => Cardinality(S \cup {x}) = Cardinality(S) + 1
<1>1. /\ IsFiniteSet(S \cup {x}) /\ Cardinality(S) \in Nat
      /\ Cardinality(S \cup {x}) = IF x \in S THEN Cardinality(S) ELSE Cardinality(S) + 1
  BY FS_AddElement, FS_CardinalityType
<1> DEFINE m == Cardinality(S \cup {x})
           n == Cardinality(S)
<1> HIDE DEF m, n
<1>2. IsFiniteSet(S \cup {x}) /\ n \in Nat /\ m = IF x \in S THEN n ELSE n + 1
  BY <1>1 DEF m, n
<1>3. m \in Nat /\ m >= n
  BY <1>2
<1>4. QED
  BY <1>2, <1>3 DEF m, n

LEMMA OneLeaves ==
  ASSUME NEW S, IsFiniteSet(S), NEW x
  PROVE  /\ IsFiniteSet(S \ {x}) /\ Cardinality(S) \in Nat /\ Cardinality(S \ {x}) \in Nat
         /\ Cardinality(S \ {x}) >= Cardinality(S) - 1
<1>1. /\ IsFiniteSet(S \ {x}) /\ Cardinality(S) \in Nat /\ Cardinality(S \ {x}) \in Nat
      /\ Cardinality(S \ {x}) = IF x \in S THEN Cardinality(S) - 1 ELSE Cardinality(S)
  BY FS_RemoveElement, FS_CardinalityType
<1> DEFINE m == Cardinality(S \ {x})
           n == Cardinality(S)
<1> HIDE DEF m, n
<1>2. IsFiniteSet(S \ {x}) /\ m \in Nat /\ n \in Nat /\ m = IF x \in S THEN n - 1 ELSE n
  BY <1>1 DEF m, n
<1>3. m >= n - 1
  BY <1>2
<1>4. QED
  BY <1>2, <1>3 DEF m, n

LEMMA CountsAreNumbers ==
  Counted => /\ Cardinality(processes) \in Nat /\ Cardinality(Asking) \in Nat
             /\ Cardinality(Looking) \in Nat /\ Cardinality(Unspawned) \in Nat
BY FS_CardinalityType DEF Counted

\* The slots are all taken: whoever is queued has to wait.
LEMMA FullIsWatched ==
  ASSUME Counted, Cardinality(processes) >= MaxChild PROVE Watch >= MaxChild
BY CountsAreNumbers, MaxChildPositive DEF Watch

\* It suffices that the watch does not get smaller with a queue that was there.
LEMMA WatchSuffices ==
  ASSUME SlotInv, Counted', queue' # <<>> => queue # <<>>, Watch' >= Watch
  PROVE  SlotInv'
<1>1. Watch \in Nat /\ Watch' \in Nat
  <2>1. /\ Cardinality(processes') \in Nat /\ Cardinality(Asking') \in Nat
        /\ Cardinality(Looking') \in Nat /\ Cardinality(Unspawned') \in Nat
    BY FS_CardinalityType DEF Counted
  <2>2. QED
    BY <2>1, CountsAreNumbers DEF Watch, SlotInv
<1>2. queue # <<>> => Watch >= MaxChild
  BY DEF SlotInv, NoIdleSlot, Watch
<1>3. queue' # <<>> => Watch' >= MaxChild
  BY <1>1, <1>2, MaxChildPositive
<1>4. QED
  BY <1>3 DEF SlotInv, NoIdleSlot, Watch

\* runInChild looks at the slots: a full house queues the set, and else the set
\* is on its way to a slot.
LEMMA CheckSlotsIsWatched ==
  ASSUME PlaceInv, SlotInv, NEW s \in Sets, CheckSlots(s), task[s] \in {"none", "artifacts"},
         UNCHANGED <<processes, child, handlers>>
  PROVE  SlotInv'
<1>1. UNCHANGED <<processes, Looking, Unspawned>>
  BY DEF Looking, Unspawned
<1>2. CASE Cardinality(processes) >= MaxChild
  <2>1. Asking' = Asking
    BY <1>2 DEF CheckSlots, Asking, PlaceInv, SchedulerTypeOK
  <2>2. Counted' /\ Watch' = Watch
    BY <1>1, <2>1 DEF Counted, Watch, SlotInv
  <2>3. Watch' >= MaxChild
    BY <1>2, <2>2, FullIsWatched DEF SlotInv
  <2>4. QED
    BY <2>2, <2>3 DEF SlotInv, NoIdleSlot, Watch
<1>3. CASE ~(Cardinality(processes) >= MaxChild)
  <2>1. Asking' = Asking \cup {s} /\ s \notin Asking /\ queue' = queue
    BY <1>3 DEF CheckSlots, Asking, PlaceInv, SchedulerTypeOK
  <2>2. Counted' /\ Cardinality(Asking') = Cardinality(Asking) + 1
    BY <1>1, <2>1, OneComes DEF Counted, SlotInv
  <2>3. Watch' >= Watch
    BY <1>1, <2>2, CountsAreNumbers DEF Watch, SlotInv
  <2>4. QED
    BY <2>1, <2>2, <2>3, WatchSuffices
<1>4. QED
  BY <1>2, <1>3

\* onChildStop ends: it leaves full slots, an empty queue, or the next set on its
\* way in its place.
LEMMA FinishIsWatched ==
  ASSUME PlaceInv, SlotInv, NEW h \in handlers, Finish(h), h.pc \in {"report", "mark"},
         UNCHANGED <<processes, child>>
  PROVE  SlotInv'
<1>1. UNCHANGED <<processes, Unspawned>>
  BY DEF Unspawned
<1>2. Looking' = Looking \ {h}
  BY ZenonT(30) DEF Finish, Becomes, Looking, PlaceInv, SchedulerTypeOK, HandlerType
<1>3. IsFiniteSet(Looking') /\ Cardinality(Looking') >= Cardinality(Looking) - 1
  BY <1>2, OneLeaves DEF SlotInv, Counted
<1>4. CASE Cardinality(processes) >= MaxChild \/ queue = <<>>
  <2>1. Asking' = Asking /\ queue' = queue
    BY <1>4 DEF Finish, Asking
  <2>2. Counted'
    BY <1>1, <1>3, <2>1 DEF Counted, SlotInv
  <2>3. Cardinality(processes') >= MaxChild => Watch' >= MaxChild
    <3>1. /\ Cardinality(processes') \in Nat /\ Cardinality(Asking') \in Nat
          /\ Cardinality(Looking') \in Nat /\ Cardinality(Unspawned') \in Nat
      BY <2>2, FS_CardinalityType DEF Counted
    <3>2. QED
      BY <3>1, MaxChildPositive DEF Watch
  <2>4. QED
    BY <1>1, <1>4, <2>1, <2>2, <2>3 DEF SlotInv, NoIdleSlot, Watch
<1>5. CASE ~(Cardinality(processes) >= MaxChild \/ queue = <<>>)
  <2>1. Head(queue) \in Sets /\ In(queue, Head(queue))
    BY <1>5, TailKeepsApart DEF PlaceInv, SchedulerTypeOK
  <2>2. task[Head(queue)] = "none"
    BY <2>1 DEF PlaceInv, QueuedIdle
  <2>3. Asking' = Asking \cup {Head(queue)} /\ Head(queue) \notin Asking
    BY <1>5, <2>1, <2>2 DEF Finish, Asking, PlaceInv, SchedulerTypeOK
  <2>4. Counted' /\ Cardinality(Asking') = Cardinality(Asking) + 1
    BY <1>1, <1>3, <2>3, OneComes DEF Counted, SlotInv
  <2>5. Watch' >= Watch
    <3>1. Cardinality(Looking') \in Nat
      BY <1>3, FS_CardinalityType
    <3>2. QED
      BY <1>1, <1>3, <2>4, <3>1, CountsAreNumbers DEF Watch, SlotInv
  <2>6. QED
    BY <1>5, <2>4, <2>5, WatchSuffices
<1>6. QED
  BY <1>4, <1>5

\* A new handler that has no slot to free looks at the queue in the place of the
\* call, or of the child, that it comes from.
LEMMA HandlerDiffersFromAll ==
  ASSUME PlaceInv, NEW s \in Sets, NEW kind, NEW st,
         \/ kind = "cached" /\ task[s] # "none"
         \/ kind = "failed" /\ st = 1 /\ child[s] = "erred"
  PROVE  Handler(s, kind, st) \notin handlers
BY DEF PlaceInv, HandlersLast, HandlersOfChildren, Handler

\* Every step keeps slots, handlers and calls enough to serve the queue.
LEMMA SlotStep == PlaceInv /\ SlotInv /\ [Next]_vars => SlotInv'
<1> SUFFICES ASSUME PlaceInv, SlotInv, [Next]_vars PROVE SlotInv'
  OBVIOUS
<1> USE DEF PlaceInv
<1>1. ASSUME queue' # <<>> => queue # <<>>,
             UNCHANGED <<processes, Asking, Looking, Unspawned>>
      PROVE  SlotInv'
  BY <1>1 DEF SlotInv, Counted, NoIdleSlot
<1>2. ASSUME NEW sc \in Scenarios, RunScenario(sc) PROVE SlotInv'
  BY <1>1, <1>2 DEF RunScenario, Asking, Looking, Unspawned
<1>3. ASSUME NEW sc \in Scenarios, NEW s \in Sets, LaunchSet(sc, s) PROVE SlotInv'
  <2>1. task[s] = "none" /\ UNCHANGED <<processes, child, handlers>>
    BY <1>3 DEF LaunchSet, LeftUntouched
  <2>2. CASE CheckSlots(s)
    BY <2>1, <2>2, CheckSlotsIsWatched
  <2>3. CASE task' = [task EXCEPT ![s] = "artifacts"] /\ UNCHANGED queue
    BY <1>1, <2>1, <2>3 DEF Asking, Looking, Unspawned, SchedulerTypeOK
  <2>4. QED
    BY <1>3, <2>2, <2>3 DEF LaunchSet
<1>4. ASSUME NEW sc \in Scenarios, LaunchGoesOn(sc) PROVE SlotInv'
  BY <1>1, <1>4 DEF LaunchGoesOn, Asking, Looking, Unspawned
<1>5. ASSUME NEW s \in Sets, TaskArtifacts(s) PROVE SlotInv'
  BY <1>5, CheckSlotsIsWatched DEF TaskArtifacts
<1>6. ASSUME NEW s \in Sets, TaskForks(s) PROVE SlotInv'
  <2>1. /\ task[s] = "existed" /\ child[s] = "none" /\ s \notin processes
        /\ Asking' = Asking \ {s} /\ Looking' = Looking /\ queue' = queue
    BY <1>6 DEF TaskForks, TaskFirst, SlotsOfChildren, Asking, Looking, SchedulerTypeOK
  <2>2. \/ processes' = processes \cup {s} /\ Unspawned' = Unspawned
        \/ /\ processes' = processes \cup {NoPid}
           /\ Unspawned' = Unspawned \cup {s} /\ s \notin Unspawned
    BY <1>6, <2>1 DEF TaskForks, Unspawned, SchedulerTypeOK
  <2>3. IsFiniteSet(Asking') /\ Cardinality(Asking') \in Nat /\ Cardinality(Asking') >= Cardinality(Asking) - 1
    BY <2>1, OneLeaves DEF SlotInv, Counted
  <2>4. CASE processes' = processes \cup {s} /\ Unspawned' = Unspawned
    <3>1. IsFiniteSet(processes') /\ Cardinality(processes') = Cardinality(processes) + 1
      BY <2>1, <2>4, OneComes DEF SlotInv, Counted
    <3>2. Counted' /\ Watch' >= Watch
      BY <2>1, <2>3, <2>4, <3>1, CountsAreNumbers DEF SlotInv, Counted, Watch
    <3>3. QED
      BY <2>1, <3>2, WatchSuffices
  <2>5. CASE /\ processes' = processes \cup {NoPid}
             /\ Unspawned' = Unspawned \cup {s} /\ s \notin Unspawned
    <3>1. IsFiniteSet(processes') /\ Cardinality(processes') >= Cardinality(processes)
          /\ Cardinality(processes') \in Nat
      BY <2>5, OneComes DEF SlotInv, Counted
    <3>2. IsFiniteSet(Unspawned') /\ Cardinality(Unspawned') = Cardinality(Unspawned) + 1
      BY <2>5, OneComes DEF SlotInv, Counted
    <3>3. Counted' /\ Watch' >= Watch
      BY <2>1, <2>3, <3>1, <3>2, CountsAreNumbers DEF SlotInv, Counted, Watch
    <3>4. QED
      BY <2>1, <3>3, WatchSuffices
  <2>6. QED
    BY <2>2, <2>4, <2>5
<1>7. ASSUME NEW s \in Sets, TaskCached(s) PROVE SlotInv'
  <2>1. /\ processes' = processes \cup {OwnPid} /\ queue' = queue
        /\ Asking' = Asking /\ Looking' = Looking /\ Unspawned' = Unspawned
    BY <1>7 DEF TaskCached, Asking, Looking, Unspawned, SchedulerTypeOK
  <2>2. IsFiniteSet(processes') /\ Cardinality(processes') >= Cardinality(processes)
        /\ Cardinality(processes') \in Nat
    BY <2>1, OneComes DEF SlotInv, Counted
  <2>3. Counted' /\ Watch' >= Watch
    BY <2>1, <2>2, CountsAreNumbers DEF SlotInv, Counted, Watch
  <2>4. QED
    BY <2>1, <2>3, WatchSuffices
<1>8. ASSUME NEW s \in Sets, TaskDone(s) PROVE SlotInv'
  <2>1. /\ task[s] = "cached" /\ queue' = queue /\ processes' = processes /\ Unspawned' = Unspawned
        /\ Asking' = Asking \ {s} /\ handlers' = handlers \cup {Handler(s, "cached", 1)}
    BY <1>8 DEF TaskDone, Asking, Unspawned, SchedulerTypeOK
  <2>2. Handler(s, "cached", 1) \notin handlers
    BY <2>1, HandlerDiffersFromAll
  <2>3. Looking' = Looking \cup {Handler(s, "cached", 1)} /\ Handler(s, "cached", 1) \notin Looking
    BY <2>1, <2>2 DEF Looking, Handler
  <2>4. IsFiniteSet(Looking') /\ Cardinality(Looking') = Cardinality(Looking) + 1
    BY <2>3, OneComes DEF SlotInv, Counted
  <2>5. IsFiniteSet(Asking') /\ Cardinality(Asking') \in Nat /\ Cardinality(Asking') >= Cardinality(Asking) - 1
    BY <2>1, OneLeaves DEF SlotInv, Counted
  <2>6. Counted' /\ Watch' >= Watch
    BY <2>1, <2>4, <2>5, CountsAreNumbers DEF SlotInv, Counted, Watch
  <2>7. QED
    BY <2>1, <2>6, WatchSuffices
<1>9. ASSUME NEW s \in Sets, ChildSpawned(s) \/ ChildExits(s) PROVE SlotInv'
  <2>1. UNCHANGED <<queue, processes, task, handlers>> /\ Unspawned' = Unspawned
    BY <1>9 DEF ChildSpawned, ChildExits, Unspawned, SchedulerTypeOK
  <2>2. QED
    BY <1>1, <2>1 DEF Asking, Looking
<1>10. ASSUME NEW s \in Sets, ChildError(s) PROVE SlotInv'
  <2>1. UNCHANGED <<queue, processes, task>> /\ Asking' = Asking
    BY <1>10 DEF ChildError, Asking
  <2>2. CASE child[s] = "failed"
    <3>1. handlers' = handlers \cup {Handler(s, "failed", 3)} /\ Unspawned' = Unspawned
      BY <1>10, <2>2 DEF ChildError, Unspawned, SchedulerTypeOK
    <3>2. Looking' = Looking \cup {Handler(s, "failed", 3)}
      BY <3>1 DEF Looking, Handler
    <3>3. IsFiniteSet(Looking') /\ Cardinality(Looking') >= Cardinality(Looking)
          /\ Cardinality(Looking') \in Nat
      BY <3>2, OneComes DEF SlotInv, Counted
    <3>4. Counted' /\ Watch' >= Watch
      BY <2>1, <3>1, <3>3, CountsAreNumbers DEF SlotInv, Counted, Watch
    <3>5. QED
      BY <2>1, <3>4, WatchSuffices
  <2>3. CASE child[s] # "failed"
    <3>1. handlers' = handlers \cup {Handler(s, "error", 3)} /\ Unspawned' = Unspawned
      BY <1>10, <2>3 DEF ChildError, Unspawned, SchedulerTypeOK
    <3>2. Looking' = Looking
      BY <3>1 DEF Looking, Handler
    <3>3. QED
      BY <1>1, <2>1, <3>1, <3>2
  <2>4. QED
    BY <2>2, <2>3
<1>11. ASSUME NEW s \in Sets, ChildCloses(s) PROVE SlotInv'
  <2>1. UNCHANGED <<queue, processes, task>> /\ Asking' = Asking
    BY <1>11 DEF ChildCloses, Asking
  <2>2. CASE child[s] = "erred"
    <3>1. handlers' = handlers \cup {Handler(s, "failed", 1)} /\ Unspawned' = Unspawned \ {s}
      BY <1>11, <2>2 DEF ChildCloses, Unspawned, SchedulerTypeOK
    <3>2. Handler(s, "failed", 1) \notin handlers
      BY <2>2, HandlerDiffersFromAll
    <3>3. Looking' = Looking \cup {Handler(s, "failed", 1)} /\ Handler(s, "failed", 1) \notin Looking
      BY <3>1, <3>2 DEF Looking, Handler
    <3>4. IsFiniteSet(Looking') /\ Cardinality(Looking') = Cardinality(Looking) + 1
      BY <3>3, OneComes DEF SlotInv, Counted
    <3>5. IsFiniteSet(Unspawned') /\ Cardinality(Unspawned') \in Nat
          /\ Cardinality(Unspawned') >= Cardinality(Unspawned) - 1
      BY <3>1, OneLeaves DEF SlotInv, Counted
    <3>6. Counted' /\ Watch' >= Watch
      BY <2>1, <3>4, <3>5, CountsAreNumbers DEF SlotInv, Counted, Watch
    <3>7. QED
      BY <2>1, <3>6, WatchSuffices
  <2>3. CASE child[s] # "erred"
    <3>1. handlers' = handlers \cup {Handler(s, "close", 1)} /\ Unspawned' = Unspawned
      BY <1>11, <2>3 DEF ChildCloses, Unspawned, SchedulerTypeOK
    <3>2. Looking' = Looking
      BY <3>1 DEF Looking, Handler
    <3>3. QED
      BY <1>1, <2>1, <3>1, <3>2
  <2>4. QED
    BY <2>2, <2>3
<1>12. ASSUME NEW h \in handlers, FreeSlot(h) PROVE SlotInv'
  <2> DEFINE g == [h EXCEPT !.pc = "report"]
  <2>1. /\ h.pc = "scenario" /\ handlers' = (handlers \ {h}) \cup {g}
        /\ g.pc = "report" /\ g.set = h.set /\ g.kind = h.kind /\ g.status = h.status
    BY <1>12 DEF FreeSlot, Becomes, SchedulerTypeOK, HandlerType
  <2> HIDE DEF g
  <2>2. g \notin handlers
    BY <2>1 DEF HandlersDiffer
  <2>3. UNCHANGED <<queue, task, child>> /\ Asking' = Asking /\ Unspawned' = Unspawned
    BY <1>12 DEF FreeSlot, Asking, Unspawned
  <2>4. CASE h.kind \in {"close", "error"}
    <3>1. processes' = processes \ {h.set} /\ Looking' = Looking \cup {g} /\ g \notin Looking
      BY <1>12, <2>1, <2>2, <2>4 DEF FreeSlot, Looking
    <3>2. IsFiniteSet(Looking') /\ Cardinality(Looking') = Cardinality(Looking) + 1
      BY <3>1, OneComes DEF SlotInv, Counted
    <3>3. IsFiniteSet(processes') /\ Cardinality(processes') \in Nat
          /\ Cardinality(processes') >= Cardinality(processes) - 1
      BY <3>1, OneLeaves DEF SlotInv, Counted
    <3>4. Counted' /\ Watch' >= Watch
      BY <2>3, <3>2, <3>3, CountsAreNumbers DEF SlotInv, Counted, Watch
    <3>5. QED
      BY <2>3, <3>4, WatchSuffices
  <2>5. CASE h.kind \notin {"close", "error"}
    <3>1. processes' = processes /\ Looking' = (Looking \ {h}) \cup {g} /\ g \notin Looking \ {h}
      BY <1>12, <2>1, <2>2, <2>5 DEF FreeSlot, Looking, SchedulerTypeOK, HandlerType
    <3>2. IsFiniteSet(Looking \ {h}) /\ Cardinality(Looking \ {h}) \in Nat
          /\ Cardinality(Looking \ {h}) >= Cardinality(Looking) - 1
      BY OneLeaves DEF SlotInv, Counted
    <3>3. IsFiniteSet(Looking') /\ Cardinality(Looking') = Cardinality(Looking \ {h}) + 1
      BY <3>1, <3>2, OneComes
    <3>4. Counted' /\ Watch' >= Watch
      BY <2>3, <3>1, <3>2, <3>3, CountsAreNumbers DEF SlotInv, Counted, Watch
    <3>5. QED
      BY <2>3, <3>4, WatchSuffices
  <2>6. QED
    BY <2>4, <2>5
<1>13. ASSUME NEW h \in handlers, MakeReport(h) PROVE SlotInv'
  <2>1. CASE Finish(h)
    BY <1>13, <2>1, FinishIsWatched DEF MakeReport
  <2>2. CASE Becomes(h, [h EXCEPT !.pc = "mark"]) /\ UNCHANGED <<task, queue, resultQueue>>
    <3> DEFINE g == [h EXCEPT !.pc = "mark"]
    <3>1. /\ h.pc = "report" /\ handlers' = (handlers \ {h}) \cup {g}
          /\ g.pc = "mark" /\ g.set = h.set /\ g.kind = h.kind /\ g.status = h.status
      BY <1>13, <2>2 DEF MakeReport, Becomes, SchedulerTypeOK, HandlerType
    <3> HIDE DEF g
    <3>2. g \notin handlers
      BY <3>1 DEF HandlersDiffer
    <3>3. UNCHANGED <<queue, task, child, processes>> /\ Asking' = Asking /\ Unspawned' = Unspawned
      BY <1>13, <2>2 DEF MakeReport, Asking, Unspawned
    <3>4. Looking' = (Looking \ {h}) \cup {g} /\ g \notin Looking \ {h}
      BY <3>1, <3>2 DEF Looking
    <3>5. IsFiniteSet(Looking \ {h}) /\ Cardinality(Looking \ {h}) \in Nat
          /\ Cardinality(Looking \ {h}) >= Cardinality(Looking) - 1
      BY OneLeaves DEF SlotInv, Counted
    <3>6. IsFiniteSet(Looking') /\ Cardinality(Looking') = Cardinality(Looking \ {h}) + 1
      BY <3>4, <3>5, OneComes
    <3>7. Counted' /\ Watch' >= Watch
      BY <3>3, <3>5, <3>6, CountsAreNumbers DEF SlotInv, Counted, Watch
    <3>8. QED
      BY <3>3, <3>7, WatchSuffices
  <2>3. QED
    BY <1>13, <2>1, <2>2 DEF MakeReport
<1>14. ASSUME NEW h \in handlers, MarkScenario(h) PROVE SlotInv'
  BY <1>14, FinishIsWatched DEF MarkScenario
<1>15. ASSUME NEW h \in handlers, QueueProcessed(h) PROVE SlotInv'
  <2>1. UNCHANGED <<queue, task, child, processes>> /\ handlers' = handlers \ {h} /\ h.pc = "queue"
    BY <1>15 DEF QueueProcessed
  <2>2. Looking' = Looking /\ Asking' = Asking /\ Unspawned' = Unspawned
    BY <2>1 DEF Looking, Asking, Unspawned
  <2>3. QED
    BY <1>1, <2>1, <2>2
<1>16. CASE WriteResult \/ StopAllProcesses \/ UNCHANGED vars
  <2>1. /\ UNCHANGED <<task, processes, child, handlers>>
        /\ queue' # <<>> => queue # <<>>
    BY <1>16 DEF WriteResult, StopAllProcesses, vars
  <2>2. QED
    BY <1>1, <2>1 DEF Looking, Asking, Unspawned
<1>17. QED
  BY <1>2, <1>3, <1>4, <1>5, <1>6, <1>7, <1>8, <1>9, <1>10, <1>11, <1>12, <1>13, <1>14, <1>15, <1>16
     DEF Next, LaunchStep, TaskStep, ChildStep, HandlerStepOf, HandlerStep

LEMMA SlotInit == Init => SlotInv
<1> SUFFICES ASSUME Init PROVE SlotInv
  OBVIOUS
<1>1. processes = {} /\ Asking = {} /\ Looking = {} /\ Unspawned = {} /\ queue = <<>>
  BY DEF Init, Asking, Looking, Unspawned
<1>2. QED
  BY <1>1, FS_EmptySet DEF SlotInv, Counted, NoIdleSlot

-----------------------------------------------------------------------------
(* Theorems.                                                               *)

SchedulerInv == PlaceInv /\ MarkInv /\ SlotInv

\* Sets, slots, handlers and marks fit together in every reachable state,
\* whatever scenarios are started and however their calls interleave.
THEOREM SchedulerInvCorrect == Spec => []SchedulerInv
<1>1. Init => SchedulerInv
  BY PlacesInit, MarkInit, SlotInit DEF SchedulerInv
<1>2. SchedulerInv /\ [Next]_vars => SchedulerInv'
  BY PlacesStep, MarkStep, SlotStep DEF SchedulerInv
<1>3. QED
  BY <1>1, <1>2, PTL DEF Spec

\* A set waits in one place only, no free slot is forgotten while a set waits,
\* and the scenario whose sets are all done is marked by the last of the calls of
\* onChildStop: for any number of scenarios, sets and slots.
THEOREM SetsAreServedCorrect == Spec => []SetsAreServed
<1>1. SchedulerInv => SetsAreServed
  BY PlacesAreOne, MarkIsMade DEF SchedulerInv, SetsAreServed, SlotInv
<1>2. QED
  BY <1>1, SchedulerInvCorrect, PTL
=============================================================================
