---------------------------- MODULE HistoryBars ----------------------------
(***************************************************************************)
(* HistoryBarsService: a test needs the candles of every month between its *)
(* start and its end in files on the disk.  Whoever prepares them (a       *)
(* scenario in the engine before its children start, a child of the        *)
(* asynchronous tester for each month it comes to) looks for the file,     *)
(* downloads it from the first source that has it, shares it through s3,   *)
(* and unpacks it into the folder that all of them read.                   *)
(*                                                                         *)
(* Sources, s3 and the unpacking library are external; what the library    *)
(* writes is there in part before it is there whole.  A child can be       *)
(* killed at any moment (stopAllProcesses, a timeout).                     *)
(***************************************************************************)
EXTENDS Naturals, Sequences

CONSTANTS
  Files,      \* months of candles
  Engine,     \* preparations by the engine: scenarios that are started
  Children,   \* preparations by children of the asynchronous tester
  Months,     \* the files that each needs, in order
  FallbackSources  \* how many sources there are beside s3

Preparers == Engine \cup Children

ASSUME HistoryBarsAssumption ==
  /\ Engine \cap Children = {}
  /\ Months \in [Preparers -> Seq(Files)]
  /\ FallbackSources \in Nat

VARIABLES
  isStandaloneEngine,  \* without s3
  disk,                \* of each file: "absent", "part" or "whole"
  work,                \* of each preparer: [at, pc, source]
  interrupted          \* history: files whose writing was broken off

barsVars == <<isStandaloneEngine, disk, work, interrupted>>

File(p) == Months[p][work[p].at]
At(p, pc) == work[p].pc = pc
Go(p, pc) == work' = [work EXCEPT ![p].pc = pc]
Writers(f) == {p \in Preparers : At(p, "writing") /\ File(p) = f}

\* getBarsSync reads, month by month, what the disk has when it is called.
ReadBars(p, i) == disk[Months[p][i]]

BarsInit ==
  /\ isStandaloneEngine \in BOOLEAN
  /\ disk = [f \in Files |-> "absent"]
  /\ work = [p \in Preparers |-> [at |-> 0, pc |-> "idle", source |-> 0]]
  /\ interrupted = {}

\* Mutant: the last month is left out.
NextMonthShort(p) ==
  work' = [work EXCEPT ![p] = IF @.at + 1 < Len(Months[p]) \/ @.at = 0
                              THEN [at |-> @.at + 1, pc |-> "check", source |-> 0]
                              ELSE [@ EXCEPT !.pc = "done"]]

\* The file of this month is done with; the next one is looked for.
NextMonth(p) ==
  work' = [work EXCEPT ![p] = IF @.at < Len(Months[p])
                              THEN [at |-> @.at + 1, pc |-> "check", source |-> 0]
                              ELSE [@ EXCEPT !.pc = "done"]]

\* prepareTesterSource
Prepare(p) ==
  /\ At(p, "idle")
  /\ NextMonth(p)
  /\ UNCHANGED <<isStandaloneEngine, disk, interrupted>>

\* Any file of the name will do; without one the sources are asked, s3 first.
CheckCsv(p) ==
  /\ At(p, "check")
  /\ \/ disk[File(p)] # "absent" /\ NextMonth(p)
     \/ disk[File(p)] = "absent" /\ ~isStandaloneEngine /\ Go(p, "s3")
     \/ disk[File(p)] = "absent" /\ isStandaloneEngine /\ Go(p, "source")
  /\ UNCHANGED <<isStandaloneEngine, disk, interrupted>>

S3Answers(p) ==
  /\ At(p, "s3")
  /\ Go(p, "unpack") \/ Go(p, "source")
  /\ UNCHANGED <<isStandaloneEngine, disk, interrupted>>

\* A source has the file (and it is uploaded first, unless standalone), or the
\* next one is asked.
SourceAnswers(p) ==
  /\ At(p, "source")
  /\ work[p].source < FallbackSources
  /\ \/ ~isStandaloneEngine /\ Go(p, "upload")
     \/ isStandaloneEngine /\ Go(p, "unpack")
     \/ work' = [work EXCEPT ![p].source = @ + 1]
  /\ UNCHANGED <<isStandaloneEngine, disk, interrupted>>

\* The upload may fail: the file is used all the same.
Uploaded(p) ==
  /\ At(p, "upload")
  /\ Go(p, "unpack")
  /\ UNCHANGED <<isStandaloneEngine, disk, interrupted>>

\* Mutant: what is null is unpacked like anything else.
NotFoundUnpacked(p) ==
  /\ At(p, "source")
  /\ work[p].source = FallbackSources
  /\ Go(p, "stuck")
  /\ UNCHANGED <<isStandaloneEngine, disk, interrupted>>

\* No source has it: an error, which ends the preparation.
NotFound(p) ==
  /\ At(p, "source")
  /\ work[p].source = FallbackSources
  /\ Go(p, "failed")
  /\ UNCHANGED <<isStandaloneEngine, disk, interrupted>>

\* decompress: an existing file is written anew.
Unpack(p) ==
  /\ At(p, "unpack")
  /\ disk' = [disk EXCEPT ![File(p)] = "part"]
  /\ Go(p, "writing")
  /\ UNCHANGED <<isStandaloneEngine, interrupted>>

Unpacked(p) ==
  /\ At(p, "writing")
  /\ disk' = [disk EXCEPT ![File(p)] = "whole"]
  /\ NextMonth(p)
  /\ UNCHANGED <<isStandaloneEngine, interrupted>>

\* The inner catch logs the error: the promise is neither resolved nor rejected.
UnpackFails(p) ==
  /\ At(p, "unpack") \/ At(p, "writing")
  /\ interrupted' = interrupted \cup {File(p)}
  /\ Go(p, "stuck")
  /\ UNCHANGED <<isStandaloneEngine, disk>>

\* A child is killed.
ChildKilled(p) ==
  /\ p \in Children
  /\ work[p].pc \notin {"done", "failed", "killed"}
  /\ interrupted' = IF At(p, "writing") THEN interrupted \cup {File(p)} ELSE interrupted
  /\ Go(p, "killed")
  /\ UNCHANGED <<isStandaloneEngine, disk>>

Prepares(p) ==
  \/ Prepare(p)
  \/ CheckCsv(p)
  \/ S3Answers(p)
  \/ SourceAnswers(p)
  \/ Uploaded(p)
  \/ NotFound(p)
  \/ Unpack(p)
  \/ Unpacked(p)
  \/ UnpackFails(p)

BarsNext == \E p \in Preparers : Prepares(p) \/ ChildKilled(p)

\* A source answers or fails, and the engine goes on.
BarsFairness == WF_barsVars(\E p \in Preparers : Prepares(p))

BarsSpec == BarsInit /\ [][BarsNext]_barsVars /\ BarsFairness

-----------------------------------------------------------------------------
(* Properties.                                                             *)

\* A test that starts after its preparation reads no gap and no half of a
\* file: one that it needs is there in part only while another preparation writes it over, or when
\* writing it was broken off, which nothing makes good (checkAndDownloadCsv).
PreparedIsWhole ==
  \A p \in Preparers : At(p, "done") =>
    \A i \in 1 .. Len(Months[p]) :
      \/ ReadBars(p, i) = "whole"
      \/ /\ ReadBars(p, i) = "part"
         /\ Writers(Months[p][i]) # {} \/ Months[p][i] \in interrupted

\* Whatever is being prepared ends, well or with an error that the client is
\* told, unless a file could not be unpacked: then it hangs for ever.
PreparationEnds ==
  []<>(interrupted # {} \/ \A p \in Engine : work[p].pc \in {"idle", "done", "failed"})
=============================================================================
