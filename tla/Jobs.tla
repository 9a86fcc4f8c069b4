-------------------------------- MODULE Jobs --------------------------------
(***************************************************************************)
(* The jobs of an account as its pages see and change them: the requests   *)
(* to list, save, remove, run and stop a runtime that EventsGateway takes, *)
(* ScriptService and the rows of ScriptStorageService, from one await to   *)
(* the next.                                                               *)
(*                                                                         *)
(* How a start and a stop work inside is ScriptRuntime's matter: here an   *)
(* entry of the process map has the arguments its script was given.  A row *)
(* is known by its version, which is that of its arguments.                *)
(***************************************************************************)
EXTENDS Naturals

CONSTANTS
  JobIds,        \* runtimes
  JobPages,      \* pages
  JobCalls,      \* slots for requests that are being handled
  MaxRequests,   \* bound: requests
  MaxRowVersion  \* bound: how often a row is saved

VARIABLES
  jobRows,    \* the rows of the database
  jobProcs,   \* ScriptProcessFactory.processes, and how often each was made
  starting,   \* ScriptService.runIsLocked
  jobCalls,   \* the requests that are being handled
  halting,    \* the exception handler's stopAll: entries it still stops
  list,       \* the list that each page shows
  jobClicks,  \* how many requests there were
  seen,       \* history: the list a page was sent since the last change, if any
  lastBy,     \* history: the page whose request made that change, unless the script
              \* has refused it, or nobody
  missed      \* history: jobs that were saved while a request was using the row, or
              \* whose script has refused it

jobsVars == <<jobRows, jobProcs, starting, jobCalls, halting, list, jobClicks, seen, lastBy,
              missed>>

NewRow == [state |-> "new", version |-> 0]
RemovedRow == [state |-> "removed", version |-> 0]
SavedRow(version) == [state |-> "saved", version |-> version]
IsSaved(row) == row.state = "saved"

NoEntry == [state |-> "none", args |-> 0, made |-> 0]
NoCall == [pc |-> "idle", kind |-> "", page |-> {}, job |-> {}, row |-> NewRow, made |-> 0,
           rows |-> <<>>, isRecent |-> FALSE, throws |-> "nothing"]

\* factory.check
IsEnabled(j) == jobProcs[j].state = "enabled"

JobsInit ==
  /\ jobRows \in [JobIds -> {NewRow, SavedRow(1)}]
  /\ jobProcs = [j \in JobIds |-> NoEntry]
  /\ starting = FALSE
  /\ jobCalls = [c \in JobCalls |-> NoCall]
  /\ halting = {}
  /\ list = [p \in JobPages |-> <<>>]
  /\ jobClicks = 0
  /\ seen = [p \in JobPages |-> "nothing"]
  /\ lastBy = {}
  /\ missed = {}

-----------------------------------------------------------------------------
Does(c, pc, j) == jobCalls[c].pc = pc /\ jobCalls[c].job = {j}
CallAt(c, pc) == [jobCalls EXCEPT ![c].pc = pc]
Continues(c, pc) == jobCalls' = CallAt(c, pc) /\ UNCHANGED halting
SameJobs == UNCHANGED <<jobRows, jobProcs>>
SamePages == UNCHANGED <<list, jobClicks>>
NoChange == UNCHANGED <<seen, lastBy>>

\* Something that lists tell of has changed.
Change(by) == seen' = [p \in JobPages |-> "nothing"] /\ lastBy' = by

\* A page offers what its list has: an update, a removal, a stop of what runs and a
\* start of what does not; a new job, of an id of its own, always.
Offered(p, kind, j) ==
  CASE kind = "list" -> TRUE
    [] kind = "create" -> jobRows[j] = NewRow /\ \A c \in JobCalls : ~Does(c, "write", j)
    [] OTHER -> /\ j \in DOMAIN list[p]
                /\ kind = "run" => ~list[p][j].isEnabled
                /\ kind = "stop" => list[p][j].isEnabled

FirstStep(kind) ==
  CASE kind = "list" -> "list"
    [] kind = "run" -> "lock"
    [] kind = "stop" -> "stop"
    [] OTHER -> "write"

Request(c, p, kind, j) ==
  /\ jobCalls[c] = NoCall
  /\ jobClicks < MaxRequests
  /\ Offered(p, kind, j)
  /\ jobCalls' = [jobCalls EXCEPT ![c] = [NoCall EXCEPT !.pc = FirstStep(kind), !.kind = kind,
                                                  !.page = {p}, !.job = {j}]]
  /\ jobClicks' = jobClicks + 1
  /\ SameJobs /\ NoChange /\ UNCHANGED <<starting, halting, list, missed>>

\* A request is over, by an exception with a cause, too, which is only logged; one
\* without a cause ends all runtimes, and the pages are sent the list of the scenarios.
Over(c) == jobCalls' = [jobCalls EXCEPT ![c] = NoCall] /\ UNCHANGED halting

ThrowsFatal(c) ==
  /\ jobCalls' = [jobCalls EXCEPT ![c] = NoCall]
  /\ halting' = halting \cup {j \in JobIds : jobProcs[j].state # "none"}

-----------------------------------------------------------------------------
(* saveRuntime, updateRuntime, removeRuntime.                              *)

\* A request is to give the script the row, or gives it.
IsUsed(j) ==
  \E c \in JobCalls : \/ \E pc \in {"check", "read", "apply"} : Does(c, pc, j)
                      \/ \E pc \in {"register", "make", "start"} : Does(c, pc, j)

\* The database creates, updates or deletes the row; one that is not there throws.
\* Lists that have been read are old now.
WriteRow(c, j) ==
  LET kind == jobCalls[c].kind
  IN /\ Does(c, "write", j)
     /\ IF kind # "create" /\ ~IsSaved(jobRows[j])
        THEN ThrowsFatal(c) /\ NoChange /\ UNCHANGED <<jobRows, missed>>
        ELSE /\ jobRows[j].version < MaxRowVersion
             /\ jobRows' = [jobRows EXCEPT ![j] = IF kind = "remove" THEN RemovedRow
                                                  ELSE SavedRow(@.version + 1)]
             /\ jobCalls' = [d \in JobCalls |->
                               IF d # c THEN [jobCalls[d] EXCEPT !.isRecent = FALSE]
                               ELSE [jobCalls[c] EXCEPT
                                       !.pc = IF kind = "update" THEN "check" ELSE "list"]]
             /\ Change(jobCalls[c].page)
             /\ missed' = IF IsUsed(j) THEN missed \cup {j} ELSE missed
             /\ UNCHANGED halting
     /\ SamePages /\ UNCHANGED <<jobProcs, starting>>

\* Mutant: the arguments are those from before the save.
CheckWithOldArgs(c, j) ==
  /\ Does(c, "check", j)
  /\ jobCalls' = IF IsEnabled(j)
                 THEN [jobCalls EXCEPT ![c].pc = "apply", ![c].made = jobProcs[j].made,
                                       ![c].row = SavedRow(jobRows[j].version - 1)]
                 ELSE CallAt(c, "list")
  /\ SameJobs /\ SamePages /\ NoChange /\ UNCHANGED <<starting, halting, missed>>

\* Only a process that is enabled by now is given the new arguments.
CheckEnabled(c, j) ==
  /\ Does(c, "check", j)
  /\ jobCalls' = IF IsEnabled(j)
                 THEN [jobCalls EXCEPT ![c].pc = "read", ![c].made = jobProcs[j].made]
                 ELSE CallAt(c, "list")
  /\ SameJobs /\ SamePages /\ NoChange /\ UNCHANGED <<starting, halting, missed>>

\* getRuntimeById for forceUpdateProcessArgs or for register.
ReadRow(c, j) ==
  /\ Does(c, "read", j) \/ Does(c, "load", j)
  /\ jobCalls' = [jobCalls EXCEPT ![c].pc = IF @ = "read" THEN "apply" ELSE "register",
                            ![c].row = jobRows[j]]
  /\ SameJobs /\ SamePages /\ NoChange /\ UNCHANGED <<starting, halting, missed>>

\* The process that was enabled then is given the arguments, which its script may
\* refuse by an exception: no list is sent then.  With the row gone this throws, and
\* not where the script's exceptions get their cause.
ApplyArgs(c, j) ==
  /\ Does(c, "apply", j)
  /\ \/ /\ IsSaved(jobCalls[c].row)
        /\ jobProcs' = IF IsEnabled(j) /\ jobProcs[j].made = jobCalls[c].made
                       THEN [jobProcs EXCEPT ![j].args = jobCalls[c].row.version]
                       ELSE jobProcs
        /\ Continues(c, "list")
        /\ UNCHANGED <<lastBy, missed>>
     \/ /\ IsSaved(jobCalls[c].row)
        /\ Over(c)
        /\ lastBy' = lastBy \ jobCalls[c].page
        /\ missed' = missed \cup {j}
        /\ UNCHANGED jobProcs
     \/ /\ ~IsSaved(jobCalls[c].row)
        /\ ThrowsFatal(c)
        /\ UNCHANGED <<jobProcs, lastBy, missed>>
  /\ SamePages /\ UNCHANGED <<jobRows, starting, seen>>

-----------------------------------------------------------------------------
(* run and stop.                                                           *)

TakeRunLock(c) ==
  /\ jobCalls[c].pc = "lock"
  /\ IF starting THEN Over(c) /\ UNCHANGED starting
     ELSE Continues(c, "load") /\ starting' = TRUE
  /\ SameJobs /\ SamePages /\ NoChange /\ UNCHANGED missed

\* register goes on with the row it has read: without one it returns, and throws when
\* the runtime is enabled, for which no list is sent.
Register(c, j) ==
  /\ Does(c, "register", j)
  /\ \/ ~IsSaved(jobCalls[c].row) /\ Continues(c, "list") /\ starting' = FALSE
     \/ IsSaved(jobCalls[c].row) /\ IsEnabled(j) /\ Over(c) /\ starting' = FALSE
     \/ IsSaved(jobCalls[c].row) /\ ~IsEnabled(j) /\ Continues(c, "make") /\ UNCHANGED starting
  /\ SameJobs /\ SamePages /\ NoChange /\ UNCHANGED missed

\* The bundle and the markets are there: the script is made.
MakeProcess(c, j) ==
  LET made == jobProcs[j].made + 1
  IN /\ Does(c, "make", j)
     /\ jobProcs' = [jobProcs EXCEPT ![j] = [state |-> "made", args |-> jobCalls[c].row.version,
                                             made |-> made]]
     /\ jobCalls' = [jobCalls EXCEPT ![c].pc = "start", ![c].made = made]
     /\ missed' = IF jobCalls[c].row = jobRows[j] THEN missed \ {j} ELSE missed
     /\ SamePages /\ NoChange /\ UNCHANGED <<jobRows, starting, halting>>

\* The second set of register, whatever has become of the entry.
Started(c, j) ==
  /\ Does(c, "start", j)
  /\ jobProcs' = [jobProcs EXCEPT ![j] = [state |-> "enabled", args |-> jobCalls[c].row.version,
                                          made |-> jobCalls[c].made]]
  /\ Continues(c, "list")
  /\ starting' = FALSE
  /\ Change(jobCalls[c].page)
  /\ SamePages /\ UNCHANGED <<jobRows, missed>>

\* The script, the bundler or, without a cause, the markets throw: the list is sent to
\* everybody before the exception goes on.
StartThrows(c) ==
  /\ jobCalls[c].pc \in {"make", "start"}
  /\ \E throws \in {"cause"} \cup (IF jobCalls[c].pc = "make" THEN {"fatal"} ELSE {}) :
       jobCalls' = [jobCalls EXCEPT ![c].pc = "list", ![c].throws = throws]
  /\ starting' = FALSE
  /\ SameJobs /\ SamePages /\ NoChange /\ UNCHANGED <<halting, missed>>

BeginStopOf(c, j) ==
  /\ Does(c, "stop", j)
  /\ Continues(c, IF jobProcs[j].state = "none" THEN "list" ELSE "stopping")
  /\ SameJobs /\ SamePages /\ NoChange /\ UNCHANGED <<starting, missed>>

Deleted(j) == jobProcs' = [jobProcs EXCEPT ![j].state = "none", ![j].args = 0]

\* The script has stopped, and whichever entry is there is deleted; or it throws.
Stopped(c, j) ==
  /\ Does(c, "stopping", j)
  /\ \/ Deleted(j) /\ Continues(c, "list") /\ Change(jobCalls[c].page)
     \/ Over(c) /\ NoChange /\ UNCHANGED jobProcs
  /\ SamePages /\ UNCHANGED <<jobRows, starting, missed>>

\* stopAll goes on with each entry, or its script throws.
Halted(j) ==
  /\ j \in halting
  /\ halting' = halting \ {j}
  /\ \/ Deleted(j) /\ Change({})
     \/ NoChange /\ UNCHANGED jobProcs
  /\ SamePages /\ UNCHANGED <<jobRows, starting, jobCalls, missed>>

-----------------------------------------------------------------------------
(* getRuntimeList: the rows are read, then it is looked which of them run. *)

ListRows(c) ==
  /\ jobCalls[c].pc = "list"
  /\ jobCalls' = [jobCalls EXCEPT ![c].pc = "answer", ![c].isRecent = TRUE, ![c].rows = jobRows]
  /\ SameJobs /\ SamePages /\ NoChange /\ UNCHANGED <<starting, halting, missed>>

Listing(rows) ==
  [j \in {i \in JobIds : IsSaved(rows[i])} |->
     [version |-> rows[j].version, isEnabled |-> IsEnabled(j)]]

\* The page that has asked is sent the list; after a start that failed, everybody.
SentTo(c) == IF jobCalls[c].throws = "nothing" THEN jobCalls[c].page ELSE JobPages

SendList(c) ==
  /\ jobCalls[c].pc = "answer"
  /\ list' = [p \in JobPages |-> IF p \in SentTo(c) THEN Listing(jobCalls[c].rows) ELSE list[p]]
  /\ seen' = [p \in JobPages |->
                IF p \notin SentTo(c) THEN seen[p]
                ELSE IF jobCalls[c].isRecent THEN "recent" ELSE "older"]
  /\ IF jobCalls[c].throws = "fatal" THEN ThrowsFatal(c) ELSE Over(c)
  /\ SameJobs /\ UNCHANGED <<starting, jobClicks, lastBy, missed>>

JobRequests == {"list", "create", "update", "remove", "run", "stop"}

JobsNext ==
  \/ \E c \in JobCalls, p \in JobPages, kind \in JobRequests, j \in JobIds : Request(c, p, kind, j)
  \/ \E c \in JobCalls, j \in JobIds :
       \/ WriteRow(c, j) \/ CheckEnabled(c, j) \/ ReadRow(c, j) \/ ApplyArgs(c, j)
       \/ Register(c, j) \/ MakeProcess(c, j) \/ Started(c, j)
       \/ BeginStopOf(c, j) \/ Stopped(c, j)
  \/ \E c \in JobCalls : TakeRunLock(c) \/ StartThrows(c) \/ ListRows(c) \/ SendList(c)
  \/ \E j \in JobIds : Halted(j)

JobsSpec == JobsInit /\ [][JobsNext]_jobsVars

-----------------------------------------------------------------------------
(* Properties.                                                             *)

Quiet == halting = {} /\ \A c \in JobCalls : jobCalls[c] = NoCall

\* With no request under way a running script has the arguments of its row, unless
\* the row was saved while a start or another save was on its way to the script, or
\* the script has refused it (register, updateRuntime, forceUpdateProcessArgs).
ArgsFollowRow ==
  Quiet => \A j \in JobIds \ missed :
    IsEnabled(j) /\ IsSaved(jobRows[j]) => jobProcs[j].args = jobRows[j].version

\* A page whose list was read after the last change of a row shows the jobs as they
\* are, though the rows and the processes are looked at in two steps; and the page
\* whose request made the last change has been sent a list since, unless the script
\* threw at it (getRuntimeList, processMessage).
PagesShowJobs ==
  /\ \A p \in JobPages : seen[p] = "recent" => list[p] = Listing(jobRows)
  /\ Quiet => \A p \in lastBy : seen[p] # "nothing"

\* Both: rows, scripts and pages agree.
JobsAgree == ArgsFollowRow /\ PagesShowJobs
=============================================================================
