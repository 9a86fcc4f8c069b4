--------------------------- MODULE ServicesProofs ---------------------------
(***************************************************************************)
(* Proofs about the other parts around the engine that ServicesMC and the  *)
(* other MC modules check one at a time: what a test reads, what a chart   *)
(* keeps of its months and plays of its candles, what the pages know of    *)
(* the jobs and show of a report and of a log, the parameters of an        *)
(* account, the sets of a scenario and the figures of its report.  Each    *)
(* section has the inductive invariant of its part, lemmas for its steps   *)
(* and its theorems.                                                       *)
(***************************************************************************)
EXTENDS BarsLoader, HistoryBars, Jobs, ReportView, LogView, Settings, ChartPlayback,
        ScenarioGrid, ScenarioReport, SessionProofs, InductionProofs

-----------------------------------------------------------------------------
(* Bars of history.                                                        *)

Preparing == {"check", "s3", "source", "upload", "unpack", "writing", "stuck", "failed"}

BarsTypeOK ==
  /\ isStandaloneEngine \in BOOLEAN
  /\ disk \in [Files -> {"absent", "part", "whole"}]
  /\ work \in [Preparers -> [at : Nat, pc : Preparing \cup {"idle", "done", "killed"}, source : Nat]]
  /\ interrupted \subseteq Files
  /\ \A p \in Preparers :
       /\ work[p].at <= Len(Months[p])
       /\ work[p].pc \in Preparing => work[p].at >= 1
       /\ work[p].pc = "idle" => work[p].at = 0

\* A file that is there in part is being written, or writing it was broken off.
PartsExplained ==
  \A f \in Files : disk[f] = "part" => Writers(f) # {} \/ f \in interrupted

\* The months that a preparation has behind it have a file.  No file is ever
\* removed, though one that is there is written over by whoever missed it before.
MonthsBehindThere ==
  \A p \in Preparers : \A i \in 1 .. Len(Months[p]) :
    At(p, "done") \/ i < work[p].at => disk[Months[p][i]] # "absent"

BarsInv == BarsTypeOK /\ PartsExplained /\ MonthsBehindThere

\* A month of a range is a file.
LEMMA MonthIsFile ==
  ASSUME BarsTypeOK, NEW p \in Preparers
  PROVE  /\ Len(Months[p]) \in Nat
         /\ \A i \in 1 .. Len(Months[p]) : Months[p][i] \in Files
         /\ work[p].pc \in Preparing => work[p].at \in 1 .. Len(Months[p]) /\ File(p) \in Files
<1>1. Months[p] \in Seq(Files)
  BY HistoryBarsAssumption
<1>2. work[p].pc \in Preparing => work[p].at \in 1 .. Len(Months[p])
  BY <1>1 DEF BarsTypeOK
<1>3. QED
  BY <1>1, <1>2 DEF File

\* What a step that goes on within a month leaves as it was.
LEMMA GoKeeps ==
  ASSUME BarsInv, NEW p \in Preparers, NEW pc \in Preparing \cup {"killed"}, Go(p, pc),
         work[p].pc \in Preparing \/ pc = "killed",
         At(p, "writing") => File(p) \in interrupted',
         work[p].pc # "done",
         interrupted \subseteq interrupted', interrupted' \subseteq Files,
         UNCHANGED <<isStandaloneEngine, disk>>
  PROVE  BarsInv'
<1>1. /\ work' = [work EXCEPT ![p].pc = pc]
      /\ work'[p] = [at |-> work[p].at, pc |-> pc, source |-> work[p].source]
      /\ \A q \in Preparers : q # p => work'[q] = work[q]
      /\ \A q \in Preparers : work'[q].at = work[q].at
  BY DEF Go, BarsInv, BarsTypeOK
<1>2. work'[p].pc = pc
  BY <1>1
<1>3. BarsTypeOK'
  BY <1>1, <1>2 DEF BarsInv, BarsTypeOK, Preparing
<1>4. PartsExplained'
  <2> SUFFICES ASSUME NEW f \in Files, disk[f] = "part", f \notin interrupted'
               PROVE  Writers(f)' # {}
    BY DEF PartsExplained
  <2>1. PICK q \in Preparers : At(q, "writing") /\ File(q) = f
    BY DEF BarsInv, PartsExplained, Writers
  <2>2. q # p
    BY <2>1
  <2>3. QED
    BY <1>1, <2>1, <2>2 DEF Writers, At, File
<1>5. MonthsBehindThere'
  BY <1>1, <1>2 DEF BarsInv, MonthsBehindThere, At, Preparing
<1>6. QED
  BY <1>3, <1>4, <1>5 DEF BarsInv

\* The step to the next month, of which the month behind has a file.
LEMMA NextMonthKeeps ==
  ASSUME BarsInv, NEW p \in Preparers, NextMonth(p),
         work[p].pc \in {"idle", "check", "writing"},
         disk' \in [Files -> {"absent", "part", "whole"}],
         \A f \in Files : disk[f] # "absent" => disk'[f] # "absent",
         \A f \in Files : disk'[f] = "part" => disk[f] = "part",
         At(p, "writing") => disk'[File(p)] = "whole",
         At(p, "check") => disk'[File(p)] # "absent",
         UNCHANGED <<isStandaloneEngine, interrupted>>
  PROVE  BarsInv'
<1>1. \A q \in Preparers : q # p => work'[q] = work[q]
  BY DEF NextMonth, BarsInv, BarsTypeOK
<1>2. /\ work[p].at \in Nat /\ Len(Months[p]) \in Nat /\ work[p].at <= Len(Months[p])
      /\ work[p].pc # "idle" => work[p].at >= 1
  BY MonthIsFile DEF BarsInv, BarsTypeOK, Preparing
<1>3. /\ BarsTypeOK'
      /\ work'[p].pc \in {"check", "done"}
      /\ \A i \in 1 .. Len(Months[p]) : At(p, "done")' \/ i < work'[p].at => i <= work[p].at
  <2>1. CASE work[p].at < Len(Months[p])
    <3>1. /\ work' = [work EXCEPT ![p] = [at |-> work[p].at + 1, pc |-> "check", source |-> 0]]
          /\ work'[p] = [at |-> work[p].at + 1, pc |-> "check", source |-> 0]
      BY <2>1 DEF NextMonth, BarsInv, BarsTypeOK
    <3>2. work'[p].at = work[p].at + 1 /\ work'[p].pc = "check"
      BY <3>1
    <3>3. BarsTypeOK'
      BY <1>1, <1>2, <2>1, <3>1, <3>2 DEF BarsInv, BarsTypeOK, Preparing
    <3>4. QED
      BY <1>2, <3>2, <3>3 DEF At
  <2>2. CASE ~(work[p].at < Len(Months[p]))
    <3>1. /\ work' = [work EXCEPT ![p] = [work[p] EXCEPT !.pc = "done"]]
          /\ work'[p] = [at |-> work[p].at, pc |-> "done", source |-> work[p].source]
      BY <2>2 DEF NextMonth, BarsInv, BarsTypeOK
    <3>2. work'[p].at = work[p].at /\ work'[p].pc = "done"
      BY <3>1
    <3>3. BarsTypeOK'
      BY <1>1, <1>2, <3>1, <3>2 DEF BarsInv, BarsTypeOK, Preparing
    <3>4. QED
      BY <1>2, <2>2, <3>2, <3>3 DEF At
  <2>3. QED
    BY <2>1, <2>2
<1>4. PartsExplained'
  <2> SUFFICES ASSUME NEW f \in Files, disk'[f] = "part", f \notin interrupted'
               PROVE  Writers(f)' # {}
    BY DEF PartsExplained
  <2>1. PICK q \in Preparers : At(q, "writing") /\ File(q) = f
    BY DEF BarsInv, PartsExplained, Writers
  <2>2. q # p
    BY <2>1
  <2>3. QED
    BY <1>1, <2>1, <2>2 DEF Writers, At, File
<1>5. ASSUME NEW q \in Preparers, NEW i \in 1 .. Len(Months[q]), At(q, "done")' \/ i < work'[q].at
      PROVE  disk'[Months[q][i]] # "absent"
  <2>1. Months[q][i] \in Files
    BY MonthIsFile DEF BarsInv
  <2>2. CASE q # p
    BY <1>1, <1>5, <2>1, <2>2 DEF BarsInv, MonthsBehindThere, At
  <2>3. CASE q = p /\ i < work[p].at
    BY <2>1, <2>3 DEF BarsInv, MonthsBehindThere
  <2>4. CASE q = p /\ ~(i < work[p].at)
    <3>1. i = work[p].at
      BY <1>2, <1>3, <1>5, <2>4
    <3>2. work[p].pc # "idle"
      BY <3>1 DEF BarsInv, BarsTypeOK
    <3>3. QED
      BY <2>4, <3>1, <3>2 DEF At, File
  <2>5. QED
    BY <2>2, <2>3, <2>4
<1>6. QED
  BY <1>3, <1>4, <1>5 DEF BarsInv, MonthsBehindThere

\* Every step keeps the invariant of the bars.
LEMMA BarsStep ==
  ASSUME BarsInv, [BarsNext]_barsVars
  PROVE  BarsInv'
<1>1. ASSUME NEW p \in Preparers, Prepares(p) PROVE BarsInv'
  <2> DEFINE f == File(p)
  <2>1. /\ work[p].pc \in Preparing => f \in Files
        /\ disk \in [Files -> {"absent", "part", "whole"}]
        /\ interrupted \subseteq Files
    BY MonthIsFile DEF BarsInv, BarsTypeOK
  <2>2. CASE Prepare(p)
    BY <2>1, <2>2, NextMonthKeeps DEF Prepare, At
  <2>3. CASE CheckCsv(p)
    <3>1. CASE NextMonth(p) /\ disk[File(p)] # "absent"
      BY <2>1, <2>3, <3>1, NextMonthKeeps DEF CheckCsv, At
    <3>2. CASE Go(p, "s3") \/ Go(p, "source")
      BY <2>1, <2>3, <3>2, GoKeeps DEF CheckCsv, At, Preparing
    <3>3. QED
      BY <2>3, <3>1, <3>2 DEF CheckCsv
  <2>4. CASE S3Answers(p)
    BY <2>1, <2>4, GoKeeps DEF S3Answers, At, Preparing
  <2>5. CASE SourceAnswers(p)
    <3>1. CASE Go(p, "upload") \/ Go(p, "unpack")
      BY <2>1, <2>5, <3>1, GoKeeps DEF SourceAnswers, At, Preparing
    <3>2. CASE work' = [work EXCEPT ![p].source = @ + 1]
      <4>1. \A q \in Preparers : work'[q].pc = work[q].pc /\ work'[q].at = work[q].at
        BY <3>2 DEF BarsInv, BarsTypeOK
      <4>2. BarsTypeOK'
        BY <2>5, <3>2, <4>1 DEF SourceAnswers, BarsInv, BarsTypeOK
      <4>3. QED
        BY <2>5, <4>1, <4>2
        DEF SourceAnswers, BarsInv, PartsExplained, MonthsBehindThere, Writers, At, File
    <3>3. QED
      BY <2>5, <3>1, <3>2 DEF SourceAnswers
  <2>11. CASE Uploaded(p)
    BY <2>1, <2>11, GoKeeps DEF Uploaded, At, Preparing
  <2>6. CASE NotFound(p)
    BY <2>1, <2>6, GoKeeps DEF NotFound, At, Preparing
  <2>7. CASE Unpack(p)
    <3>1. /\ disk' = [disk EXCEPT ![f] = "part"] /\ f \in Files
          /\ Go(p, "writing") /\ work[p].pc = "unpack"
          /\ UNCHANGED <<isStandaloneEngine, interrupted>>
      BY <2>1, <2>7 DEF Unpack, At, Preparing
    <3>2. /\ work'[p] = [at |-> work[p].at, pc |-> "writing", source |-> work[p].source]
          /\ \A q \in Preparers : q # p => work'[q] = work[q]
      BY <3>1 DEF Go, BarsInv, BarsTypeOK
    <3>3. work'[p].pc = "writing" /\ \A q \in Preparers : work'[q].at = work[q].at
      BY <3>2
    <3>4. BarsTypeOK'
      BY <3>1, <3>2, <3>3 DEF Go, BarsInv, BarsTypeOK, Preparing
    <3>5. ASSUME NEW g \in Files, disk'[g] = "part", g \notin interrupted PROVE Writers(g)' # {}
      <4>1. CASE g = f
        BY <3>3, <4>1 DEF Writers, At, File
      <4>2. CASE g # f
        <5>1. PICK q \in Preparers : At(q, "writing") /\ File(q) = g
          BY <3>1, <3>5, <4>2, <2>1 DEF BarsInv, PartsExplained, Writers
        <5>2. QED
          BY <3>1, <3>2, <5>1 DEF Writers, At, File
      <4>3. QED
        BY <4>1, <4>2
    <3>6. MonthsBehindThere'
      BY <2>1, <3>1, <3>2, <3>3, MonthIsFile DEF BarsInv, MonthsBehindThere, At
    <3>7. QED
      BY <3>1, <3>4, <3>5, <3>6 DEF BarsInv, PartsExplained
  <2>8. CASE Unpacked(p)
    <3>1. /\ disk' = [disk EXCEPT ![File(p)] = "whole"] /\ File(p) \in Files
      BY <2>1, <2>8 DEF Unpacked, At, Preparing
    <3>2. QED
      BY <2>1, <2>8, <3>1, NextMonthKeeps DEF Unpacked, At
  <2>9. CASE UnpackFails(p)
    BY <2>1, <2>9, GoKeeps DEF UnpackFails, At, Preparing
  <2>10. QED
    BY <1>1, <2>2, <2>3, <2>4, <2>5, <2>11, <2>6, <2>7, <2>8, <2>9 DEF Prepares
<1>2. ASSUME NEW p \in Preparers, ChildKilled(p) PROVE BarsInv'
  <2>1. /\ work[p].pc \in Preparing => File(p) \in Files
        /\ interrupted \subseteq Files
    BY MonthIsFile DEF BarsInv, BarsTypeOK
  <2>2. QED
    BY <1>2, <2>1, GoKeeps DEF ChildKilled, At, Preparing
<1>3. ASSUME UNCHANGED barsVars PROVE BarsInv'
  BY <1>3 DEF barsVars, BarsInv, BarsTypeOK, PartsExplained, MonthsBehindThere, Writers, At, File
<1>4. QED
  BY <1>1, <1>2, <1>3 DEF BarsNext

\* The inductive invariant holds for any preparers, files and sources.
THEOREM BarsInvCorrect == BarsSpec => []BarsInv
<1>1. BarsInit => BarsInv
  <2>1. \A p \in Preparers : Len(Months[p]) \in Nat
    BY HistoryBarsAssumption
  <2>2. QED
    BY <2>1 DEF BarsInit, BarsInv, BarsTypeOK, PartsExplained, MonthsBehindThere, Preparing, At
<1>2. QED
  BY <1>1, BarsStep, PTL DEF BarsSpec

\* Several preparers of one file, children that are killed and archives that do not unpack
\* leave no gap to a test that is prepared, and no unexplained half of a file.
THEOREM PreparedIsWholeCorrect == BarsSpec => []PreparedIsWhole
<1>1. ASSUME BarsInv PROVE PreparedIsWhole
  <2> SUFFICES ASSUME NEW p \in Preparers, At(p, "done"), NEW i \in 1 .. Len(Months[p]),
                      disk[Months[p][i]] # "whole"
               PROVE  /\ disk[Months[p][i]] = "part"
                      /\ Writers(Months[p][i]) # {} \/ Months[p][i] \in interrupted
    BY DEF PreparedIsWhole, ReadBars
  <2>1. Months[p][i] \in Files /\ disk[Months[p][i]] # "absent"
    BY <1>1, MonthIsFile DEF BarsInv, MonthsBehindThere
  <2>2. disk[Months[p][i]] = "part"
    BY <1>1, <2>1 DEF BarsInv, BarsTypeOK
  <2>3. QED
    BY <1>1, <2>1, <2>2 DEF BarsInv, PartsExplained
<1>2. QED
  BY <1>1, BarsInvCorrect, PTL
-----------------------------------------------------------------------------
(* The client's loader of bars.                                            *)

\* The first of the months, in order.
BeginsLike(bars, months) ==
  Len(bars) <= Len(months) /\ \A i \in 1 .. Len(bars) : bars[i] = months[i]

\* A reply has one month in it, or none.
Reply == {{}} \cup {{x} : x \in MonthsOf \cup {NoArchive}}

LoaderTypeOK ==
  /\ loads \in [Loads -> [pc : {"idle", "waits", "got"}, bars : Seq(MonthsOf), hand : Reply]]
  /\ requested \subseteq [load : Loads, month : MonthsOf]
  /\ replies \in Seq(Reply)
  /\ cache \in [Loads -> SUBSET Seq(MonthsOf)]
  /\ spoilt \subseteq Loads

\* What a load has put together is the first of its months; while it waits or has a
\* reply in its hand, a month is missing.
LoadsBeginRight ==
  \A l \in Loads :
    /\ BeginsLike(loads[l].bars, Ranges[l])
    /\ loads[l].pc # "idle" => Len(loads[l].bars) < Len(Ranges[l])

LoaderInv == LoaderTypeOK /\ LoadsBeginRight /\ KeptIsWhole

\* The months of a load.
LEMMA MonthsOfLoad ==
  ASSUME NEW l \in Loads
  PROVE  /\ Ranges[l] \in Seq(MonthsOf) /\ Len(Ranges[l]) \in Nat /\ Len(Ranges[l]) # 0
         /\ \A i \in 1 .. Len(Ranges[l]) : Ranges[l][i] \in MonthsOf
<1>1. Ranges[l] \in Seq(MonthsOf) /\ Ranges[l] # <<>>
  BY LoaderAssumption
<1>2. QED
  BY <1>1, EmptySeq

\* Bars that begin like the months are a part of them, and with the next month they
\* still begin like them.
LEMMA BarsOfMonths ==
  ASSUME NEW M, NEW bars \in Seq(M), NEW months \in Seq(M), BeginsLike(bars, months)
  PROVE  /\ bars = SubSeq(months, 1, Len(bars))
         /\ Len(bars) = Len(months) => bars = months
         /\ Len(bars) < Len(months) => BeginsLike(Append(bars, months[Len(bars) + 1]), months)
<1>1. /\ Len(bars) \in Nat /\ Len(months) \in Nat /\ Len(bars) <= Len(months)
      /\ \A i \in 1 .. Len(bars) : bars[i] = months[i]
  BY DEF BeginsLike
<1>2. bars = SubSeq(months, 1, Len(bars))
  <2> DEFINE part == SubSeq(months, 1, Len(bars))
  <2>1. /\ part \in Seq(M) /\ Len(part) = Len(bars)
        /\ \A i \in 1 .. Len(part) : part[i] = months[i]
    BY <1>1
  <2>2. QED
    BY <1>1, <2>1, SeqEqual
<1>3. Len(bars) = Len(months) => bars = months
  BY <1>1, SeqEqual
<1>4. Len(bars) < Len(months) => BeginsLike(Append(bars, months[Len(bars) + 1]), months)
  BY <1>1 DEF BeginsLike
<1>5. QED
  BY <1>2, <1>3, <1>4

\* The request for a month that is missing.
LEMMA MissingMonth ==
  ASSUME NEW l \in Loads, NEW bars \in Seq(MonthsOf), Len(bars) < Len(Ranges[l])
  PROVE  NextRequest(l, bars) \in [load : Loads, month : MonthsOf]
<1>1. Len(bars) + 1 \in 1 .. Len(Ranges[l])
  BY MonthsOfLoad
<1>2. Ranges[l][Len(bars) + 1] \in MonthsOf
  BY <1>1, MonthsOfLoad
<1>3. QED
  BY <1>2 DEF NextRequest

\* A load that asks for its next month.
LEMMA DownloadKeeps ==
  ASSUME LoaderInv, NEW l \in Loads, NEW bars \in Seq(MonthsOf),
         BeginsLike(bars, Ranges[l]), Len(bars) < Len(Ranges[l]),
         Download(l, bars), UNCHANGED <<replies, cache, spoilt>>
  PROVE  LoaderInv'
<1> DEFINE it == [pc |-> "waits", bars |-> bars, hand |-> {}]
<1>1. /\ it \in [pc : {"idle", "waits", "got"}, bars : Seq(MonthsOf), hand : Reply]
      /\ it.bars = bars
  BY DEF Reply
<1>2. loads' = [loads EXCEPT ![l] = it] /\ requested' = requested \cup {NextRequest(l, bars)}
  BY DEF Download
<1> HIDE DEF it
<1>3. LoaderTypeOK'
  BY <1>1, <1>2, MissingMonth DEF LoaderInv, LoaderTypeOK
<1>4. LoadsBeginRight'
  BY <1>1, <1>2 DEF LoaderInv, LoaderTypeOK, LoadsBeginRight
<1>5. KeptIsWhole'
  BY DEF LoaderInv, KeptIsWhole
<1>6. QED
  BY <1>3, <1>4, <1>5 DEF LoaderInv

\* A load that ends: what it keeps is whole, or it is spoilt.
LEMMA LoadEndsKeeps ==
  ASSUME LoaderInv, NEW l \in Loads, NEW bars \in Seq(MonthsOf), NEW keeps \in BOOLEAN,
         BeginsLike(bars, Ranges[l]), keeps => Len(bars) = Len(Ranges[l]) \/ l \in spoilt',
         LoadEnds(l, bars, keeps), spoilt' \subseteq Loads, spoilt \subseteq spoilt',
         UNCHANGED <<requested, replies>>
  PROVE  LoaderInv'
<1> DEFINE it == [pc |-> "idle", bars |-> bars, hand |-> {}]
<1>1. /\ it \in [pc : {"idle", "waits", "got"}, bars : Seq(MonthsOf), hand : Reply]
      /\ it.bars = bars /\ it.pc = "idle"
  BY DEF Reply
<1>2. /\ loads' = [loads EXCEPT ![l] = it]
      /\ cache' = [cache EXCEPT ![l] = IF keeps THEN {bars} ELSE cache[l]]
  BY DEF LoadEnds, LoaderInv, LoaderTypeOK
<1> HIDE DEF it
<1>3. LoaderTypeOK'
  BY <1>1, <1>2 DEF LoaderInv, LoaderTypeOK
<1>4. LoadsBeginRight'
  BY <1>1, <1>2 DEF LoaderInv, LoaderTypeOK, LoadsBeginRight
<1>5. ASSUME NEW k \in Loads, NEW kept \in cache'[k]
      PROVE  kept = Ranges[k] \/ (k \in spoilt' /\ kept = SubSeq(Ranges[k], 1, Len(kept)))
  <2>1. CASE kept \in cache[k]
    BY <2>1 DEF LoaderInv, KeptIsWhole
  <2>2. CASE kept \notin cache[k]
    <3>1. k = l /\ keeps /\ kept = bars
      BY <1>2, <1>5, <2>2 DEF LoaderInv, LoaderTypeOK
    <3>2. QED
      BY <3>1, MonthsOfLoad, BarsOfMonths
  <2>3. QED
    BY <2>1, <2>2
<1>6. QED
  BY <1>3, <1>4, <1>5 DEF LoaderInv, KeptIsWhole

\* Every step keeps the invariant of the loader.
LEMMA LoaderStep ==
  ASSUME LoaderInv, [LoaderNext]_loaderVars
  PROVE  LoaderInv'
<1>1. ASSUME NEW l \in Loads PROVE /\ loads[l].bars \in Seq(MonthsOf)
                                   /\ loads[l].hand \in Reply
                                   /\ BeginsLike(loads[l].bars, Ranges[l])
                                   /\ loads[l].pc # "idle" => Len(loads[l].bars) < Len(Ranges[l])
  BY DEF LoaderInv, LoaderTypeOK, LoadsBeginRight
<1>2. spoilt \subseteq Loads
  BY DEF LoaderInv, LoaderTypeOK
<1>3. ASSUME NEW l \in Loads, GetBars(l) PROVE LoaderInv'
  <2>1. <<>> \in Seq(MonthsOf) /\ BeginsLike(<<>>, Ranges[l]) /\ Len(<<>>) < Len(Ranges[l])
    BY MonthsOfLoad DEF BeginsLike
  <2>2. QED
    BY <1>3, <2>1, DownloadKeeps DEF GetBars
<1>4. ASSUME NEW l \in Loads, ReplyTimesOut(l) PROVE LoaderInv'
  BY <1>1, <1>2, <1>4, LoadEndsKeeps DEF ReplyTimesOut
<1>5. ASSUME NEW l \in Loads, TakeMonth(l) PROVE LoaderInv'
  <2>1. loads[l].pc = "got" /\ NextRequest(l, loads[l].bars).month \in loads[l].hand
    BY <1>5 DEF TakeMonth, Holds
  <2> DEFINE month == Ranges[l][Len(loads[l].bars) + 1]
             bars == Append(loads[l].bars, month)
  <2>2. NextRequest(l, loads[l].bars).month = month
    BY DEF NextRequest
  <2>3. loads[l].hand = {month}
    BY <1>1, <2>1, <2>2 DEF Reply
  <2>4. /\ UNCHANGED <<replies, failures, spoilt>>
        /\ \/ Len(bars) < Len(Ranges[l]) /\ Download(l, bars) /\ UNCHANGED cache
           \/ /\ Len(bars) = Len(Ranges[l])
              /\ LoadEnds(l, bars, TRUE)
              /\ UNCHANGED <<waiting, requested>>
    BY <1>5, <2>3 DEF TakeMonth
  <2>5. bars \in Seq(MonthsOf) /\ BeginsLike(bars, Ranges[l])
    <3>1. Len(loads[l].bars) + 1 \in 1 .. Len(Ranges[l])
      BY <1>1, <2>1, MonthsOfLoad
    <3>2. month \in MonthsOf
      BY <3>1, MonthsOfLoad
    <3>3. QED
      BY <1>1, <2>1, <3>2, MonthsOfLoad, BarsOfMonths
  <2> HIDE DEF month, bars
  <2>6. CASE Len(bars) < Len(Ranges[l]) /\ Download(l, bars) /\ UNCHANGED cache
    BY <2>4, <2>5, <2>6, DownloadKeeps
  <2>7. CASE Len(bars) = Len(Ranges[l]) /\ LoadEnds(l, bars, TRUE) /\ UNCHANGED <<waiting, requested>>
    BY <1>2, <2>4, <2>5, <2>7, LoadEndsKeeps
  <2>8. QED
    BY <2>4, <2>6, <2>7
<1>6. ASSUME NEW l \in Loads, StopShort(l) PROVE LoaderInv'
  BY <1>1, <1>2, <1>6, LoadEndsKeeps DEF StopShort
<1>7. ASSUME NEW l \in Loads, UnpackThrows(l) PROVE LoaderInv'
  <2> DEFINE keeps == Len(Ranges[l]) > 1
  <2>1. /\ LoadEnds(l, loads[l].bars, keeps)
        /\ spoilt' = spoilt \cup {l} /\ UNCHANGED <<requested, replies>>
    BY <1>7 DEF UnpackThrows
  <2>2. keeps \in BOOLEAN
    OBVIOUS
  <2> HIDE DEF keeps
  <2>3. QED
    BY <1>1, <1>2, <2>1, <2>2, LoadEndsKeeps
<1>8. ASSUME NEW request \in requested, EngineReplies(request) PROVE LoaderInv'
  <2>1. request.month \in MonthsOf
    BY DEF LoaderInv, LoaderTypeOK
  <2>2. PICK reply \in Reply : replies' = Append(replies, reply)
    BY <1>8, <2>1 DEF EngineReplies, Reply
  <2>3. LoaderTypeOK'
    BY <1>8, <2>2 DEF EngineReplies, LoaderInv, LoaderTypeOK
  <2>4. QED
    BY <1>8, <2>3 DEF EngineReplies, LoaderInv, LoadsBeginRight, KeptIsWhole
<1>9. ASSUME RuntimeBarsFail PROVE LoaderInv'
  <2>1. {NoArchive} \in Reply
    BY DEF Reply
  <2>2. LoaderTypeOK'
    BY <1>9, <2>1 DEF RuntimeBarsFail, LoaderInv, LoaderTypeOK
  <2>3. QED
    BY <1>9, <2>2 DEF RuntimeBarsFail, LoaderInv, LoadsBeginRight, KeptIsWhole
<1>10. ASSUME ReplyArrives PROVE LoaderInv'
  <2> DEFINE given == {l \in Loads : loads[l].pc = "waits" /\ NextRequest(l, loads[l].bars) \in waiting}
  <2>1. Head(replies) \in Reply /\ Tail(replies) \in Seq(Reply)
    BY <1>10, HeadTailProperties, Zenon DEF ReplyArrives, LoaderInv, LoaderTypeOK
  <2>2. /\ replies' = Tail(replies)
        /\ loads' = [l \in Loads |-> IF l \in given
                                     THEN [loads[l] EXCEPT !.pc = "got", !.hand = Head(replies)]
                                     ELSE loads[l]]
        /\ UNCHANGED <<requested, cache, failures, spoilt>>
    BY <1>10 DEF ReplyArrives
  <2>3. \A l \in Loads : loads'[l].bars = loads[l].bars /\ (loads[l].pc = "idle" => loads'[l].pc = "idle")
    BY <2>2 DEF LoaderInv, LoaderTypeOK
  <2>4. LoaderTypeOK'
    BY <2>1, <2>2 DEF LoaderInv, LoaderTypeOK
  <2>5. QED
    BY <2>2, <2>3, <2>4 DEF LoaderInv, LoadsBeginRight, KeptIsWhole
<1>11. ASSUME UNCHANGED loaderVars PROVE LoaderInv'
  BY <1>11 DEF loaderVars, LoaderInv, LoaderTypeOK, LoadsBeginRight, KeptIsWhole
<1>12. QED
  BY <1>3, <1>4, <1>5, <1>6, <1>7, <1>8, <1>9, <1>10, <1>11 DEF LoaderNext

\* The inductive invariant holds for any loads and ranges of months.
THEOREM LoaderInvCorrect == LoaderSpec => []LoaderInv
<1>1. LoaderInit => LoaderInv
  BY MonthsOfLoad
  DEF LoaderInit, LoaderInv, LoaderTypeOK, LoadsBeginRight, KeptIsWhole, BeginsLike, Reply
<1>2. QED
  BY <1>1, LoaderStep, PTL DEF LoaderSpec

\* Whatever replies its requests are given, late ones, those of other charts or null, a chart
\* keeps all its months in order, but for the failing answer of a running script's chart.
THEOREM KeptIsWholeCorrect == LoaderSpec => []KeptIsWhole
<1>1. LoaderInv => KeptIsWhole
  BY DEF LoaderInv
<1>2. QED
  BY <1>1, LoaderInvCorrect, PTL
-----------------------------------------------------------------------------
(* Jobs.                                                                   *)

RowType == [state : {"new", "saved", "removed"}, version : Nat]
EntryType == [state : {"none", "made", "enabled"}, args : Nat, made : Nat]
InStart == {"load", "register", "make", "start"}
CallType ==
  [pc : {"idle", "write", "check", "read", "apply", "lock", "stop", "stopping", "list", "answer"}
          \cup InStart,
   kind : JobRequests \cup {""},
   page : {{}} \cup {{p} : p \in JobPages},
   job : {{}} \cup {{j} : j \in JobIds},
   row : RowType,
   made : Nat,
   rows : {<<>>} \cup [JobIds -> RowType],
   isRecent : BOOLEAN,
   throws : {"nothing", "cause", "fatal"}]

JobsTypeOK ==
  /\ jobRows \in [JobIds -> RowType]
  /\ jobProcs \in [JobIds -> EntryType]
  /\ starting \in BOOLEAN
  /\ jobCalls \in [JobCalls -> CallType]
  /\ seen \in [JobPages -> {"nothing", "recent", "older"}]
  /\ lastBy \subseteq JobPages
  /\ missed \subseteq JobIds
  /\ DOMAIN list = JobPages

Creates(x) == x.pc = "write" /\ x.kind = "create"

\* One start is under way, and holds runIsLocked.
StartsApart ==
  \A c, d \in JobCalls :
    jobCalls[c].pc \in InStart => starting /\ (jobCalls[d].pc \in InStart => c = d)

\* The id of a new job is its own.
CreatesApart ==
  \A c, d \in JobCalls :
    Creates(jobCalls[c]) /\ Creates(jobCalls[d]) /\ jobCalls[c].job = jobCalls[d].job => c = d

\* What a request knows of its job: which of its processes there was, whether the row it
\* has read is still the row, unless the job was missed, and whether there was one at all.
FitsJob(x, j) ==
  /\ x.pc = "write" => x.kind \in {"create", "update", "remove"}
  /\ x.pc \in {"read", "apply"} => x.made <= jobProcs[j].made
  /\ x.pc = "start" => x.made = jobProcs[j].made
  /\ x.pc = "make" => ~IsEnabled(j)
  /\ jobRows[j].state = "new" => x.pc \in {"idle", "list", "answer"} \/ Creates(x)
  /\ Creates(x) => jobRows[j].state = "new"
  /\ j \notin missed /\ \/ x.pc \in {"register", "make", "start"}
                        \/ x.pc = "apply" /\ x.made = jobProcs[j].made
       => x.row = jobRows[j]

FitsRows(x) ==
  x.pc = "answer" =>
    /\ x.rows \in [JobIds -> RowType]
    /\ \A j \in JobIds : IsSaved(x.rows[j]) => jobRows[j].state # "new"
    /\ x.isRecent => x.rows = jobRows

CallsFit ==
  \A c \in JobCalls : FitsRows(jobCalls[c]) /\ \A j \in jobCalls[c].job : FitsJob(jobCalls[c], j)

\* A job that has no row yet is in no list and does not run.
NewUntouched ==
  \A j \in JobIds : jobRows[j].state = "new" =>
    ~IsEnabled(j) /\ \A p \in JobPages : j \notin DOMAIN list[p]

\* The request is about to give the script its row.
Brings(x, j) ==
  /\ x.job = {j}
  /\ \/ x.pc = "check"
     \/ x.pc = "read" /\ x.made = jobProcs[j].made
     \/ x.pc = "apply" /\ x.made = jobProcs[j].made /\ x.row = jobRows[j]

\* What ArgsFollowRow becomes while requests are under way.
ArgsOnTheWay ==
  \A j \in JobIds \ missed :
    IsEnabled(j) /\ IsSaved(jobRows[j]) =>
      jobProcs[j].args = jobRows[j].version \/ \E c \in JobCalls : Brings(jobCalls[c], j)

\* The request will send its page a list, or take the page out of lastBy.
Answering(x, p) ==
  /\ x.page = {p}
  /\ \/ x.pc \in {"list", "answer"}
     \/ x.pc \in {"check", "read"} /\ \A j \in x.job : IsSaved(jobRows[j])
     \/ x.pc = "apply" /\ IsSaved(x.row)

\* What PagesShowJobs becomes while requests are under way.
ListsOnTheWay ==
  \A p \in lastBy : seen[p] = "nothing" => \E c \in JobCalls : Answering(jobCalls[c], p)

ListsRecent == \A p \in JobPages : seen[p] = "recent" => list[p] = Listing(jobRows)

JobsInv ==
  /\ JobsTypeOK /\ StartsApart /\ CreatesApart /\ CallsFit /\ NewUntouched
  /\ ArgsOnTheWay /\ ListsOnTheWay /\ ListsRecent

\* The members of a request's fields.
LEMMA CallFields ==
  ASSUME NEW x \in CallType
  PROVE  /\ x.job \in {{}} \cup {{j} : j \in JobIds} /\ x.page \in {{}} \cup {{p} : p \in JobPages}
         /\ x.made \in Nat /\ x.row \in RowType /\ x.row.version \in Nat
<1>1. /\ x.job \in {{}} \cup {{j} : j \in JobIds} /\ x.page \in {{}} \cup {{p} : p \in JobPages}
      /\ x.made \in Nat /\ x.row \in RowType
  BY DEF CallType
<1>2. x.row.version \in Nat
  BY <1>1 DEF RowType
<1>3. QED
  BY <1>1, <1>2

\* A step of one request that changes nothing but what the request knows: x is what it
\* becomes.
LEMMA CallMoves ==
  ASSUME JobsInv, NEW c \in JobCalls, NEW x \in CallType,
         jobCalls' = [jobCalls EXCEPT ![c] = x],
         UNCHANGED <<jobRows, jobProcs, list, seen>>,
         starting' \in BOOLEAN,
         x.pc \in InStart => starting' /\ (jobCalls[c].pc \in InStart \/ ~starting),
         starting /\ ~starting' => jobCalls[c].pc \in InStart,
         FitsRows(x), \A j \in x.job : FitsJob(x, j),
         Creates(x) => \A d \in JobCalls : ~(Creates(jobCalls[d]) /\ jobCalls[d].job = x.job),
         missed \subseteq missed', missed' \subseteq JobIds, lastBy' \subseteq lastBy,
         \A j \in JobIds \ missed' :
           Brings(jobCalls[c], j) /\ IsEnabled(j) /\ IsSaved(jobRows[j]) => Brings(x, j),
         \A p \in lastBy' : Answering(jobCalls[c], p) => Answering(x, p)
  PROVE  JobsInv'
<1>1. jobCalls'[c] = x /\ \A d \in JobCalls : d # c => jobCalls'[d] = jobCalls[d]
  BY DEF JobsInv, JobsTypeOK
<1>2. JobsTypeOK'
  BY DEF JobsInv, JobsTypeOK
<1>3. StartsApart'
  BY <1>1 DEF JobsInv, StartsApart
<1>4. CreatesApart'
  BY <1>1 DEF JobsInv, CreatesApart
<1>5. CallsFit'
  <2> SUFFICES ASSUME NEW d \in JobCalls
               PROVE  FitsRows(jobCalls[d])' /\ \A j \in jobCalls'[d].job : FitsJob(jobCalls[d], j)'
    BY DEF CallsFit
  <2>1. CASE d = c
    BY <1>1, <2>1 DEF FitsRows, FitsJob, IsEnabled
  <2>2. CASE d # c
    BY <1>1, <2>2 DEF JobsInv, CallsFit, FitsRows, FitsJob, IsEnabled
  <2>3. QED
    BY <2>1, <2>2
<1>6. NewUntouched'
  BY DEF JobsInv, NewUntouched, IsEnabled
<1>7. ArgsOnTheWay'
  <2> SUFFICES ASSUME NEW j \in JobIds \ missed', IsEnabled(j), IsSaved(jobRows[j]),
                      jobProcs[j].args # jobRows[j].version
               PROVE  \E d \in JobCalls : Brings(jobCalls[d], j)'
    BY DEF ArgsOnTheWay, IsEnabled
  <2>1. PICK d \in JobCalls : Brings(jobCalls[d], j)
    BY DEF JobsInv, ArgsOnTheWay
  <2>2. Brings(jobCalls[d], j)'
    BY <1>1, <2>1 DEF Brings
  <2>3. QED
    BY <2>2
<1>8. ListsOnTheWay'
  <2> SUFFICES ASSUME NEW p \in lastBy', seen[p] = "nothing"
               PROVE  \E d \in JobCalls : Answering(jobCalls[d], p)'
    BY DEF ListsOnTheWay
  <2>1. PICK d \in JobCalls : Answering(jobCalls[d], p)
    BY DEF JobsInv, ListsOnTheWay
  <2>2. Answering(jobCalls[d], p)'
    BY <1>1, <2>1 DEF Answering
  <2>3. QED
    BY <2>2
<1>9. ListsRecent'
  BY DEF JobsInv, ListsRecent, Listing, IsEnabled
<1>10. QED
  BY <1>2, <1>3, <1>4, <1>5, <1>6, <1>7, <1>8, <1>9 DEF JobsInv

\* The steps that CallMoves covers.
LEMMA RequestsOfJobsMove ==
  ASSUME JobsInv, NEW c \in JobCalls, NEW p \in JobPages, NEW kind_ \in JobRequests, NEW j \in JobIds,
         Request(c, p, kind_, j)
  PROVE  JobsInv'
<1> DEFINE x == [NoCall EXCEPT !.pc = FirstStep(kind_), !.kind = kind_, !.page = {p}, !.job = {j}]
<1>1. /\ jobCalls' = [jobCalls EXCEPT ![c] = x] /\ jobCalls[c] = NoCall
      /\ UNCHANGED <<jobRows, jobProcs, list, seen, starting, lastBy, missed>>
      /\ Offered(p, kind_, j)
  BY DEF Request, SameJobs, NoChange
<1>2. /\ x.pc = FirstStep(kind_) /\ x.kind = kind_ /\ x.job = {j} /\ x.row = NewRow
      /\ x.pc \in {"list", "lock", "stop", "write"}
      /\ (x.pc = "list" <=> kind_ = "list")
  BY DEF NoCall, FirstStep
<1>3. x \in CallType
  <2>1. NewRow \in RowType
    BY DEF NewRow, RowType
  <2>2. FirstStep(kind_) \in {"list", "lock", "stop", "write"}
    BY DEF FirstStep
  <2>3. QED
    BY <2>1, <2>2 DEF CallType, NoCall
<1>4. kind_ \notin {"list", "create"} => jobRows[j].state # "new"
  BY <1>1 DEF Offered, JobsInv, NewUntouched
<1>5. Creates(x) => jobRows[j].state = "new" /\ \A d \in JobCalls : ~Does(d, "write", j)
  <2>1. Creates(x) => kind_ = "create"
    BY <1>2 DEF Creates
  <2>2. kind_ = "create" => jobRows[j] = NewRow /\ \A d \in JobCalls : ~Does(d, "write", j)
    BY <1>1 DEF Offered
  <2>3. NewRow.state = "new"
    BY DEF NewRow
  <2>4. QED
    BY <2>1, <2>2, <2>3
<1> HIDE DEF x
<1>6. jobCalls[c].pc = "idle"
  <2>1. NoCall.pc = "idle"
    BY DEF NoCall
  <2>2. QED
    BY <1>1, <2>1
<1>7. FitsRows(x) /\ \A i \in x.job : FitsJob(x, i)
  BY <1>2, <1>4, <1>5 DEF FitsRows, FitsJob, Creates, JobRequests, FirstStep
<1>8. Creates(x) => \A d \in JobCalls : ~(Creates(jobCalls[d]) /\ jobCalls[d].job = x.job)
  BY <1>2, <1>5 DEF Does, Creates
<1>9. (\A i \in JobIds : ~Brings(jobCalls[c], i)) /\ \A q \in JobPages : ~Answering(jobCalls[c], q)
  BY <1>6 DEF Brings, Answering
<1>10. missed \subseteq JobIds /\ lastBy \subseteq JobPages /\ starting \in BOOLEAN
  BY DEF JobsInv, JobsTypeOK
<1>11. x.pc \notin InStart
  BY <1>2 DEF InStart
<1>12. QED
  BY <1>1, <1>3, <1>7, <1>8, <1>9, <1>10, <1>11, CallMoves

\* A request that is over, whose page waits for no list of it.
LEMMA CallEnds ==
  ASSUME JobsInv, NEW c \in JobCalls,
         jobCalls' = [jobCalls EXCEPT ![c] = NoCall],
         UNCHANGED <<jobRows, jobProcs, list, seen>>,
         starting' = (IF jobCalls[c].pc \in InStart THEN FALSE ELSE starting),
         missed \subseteq missed', missed' \subseteq JobIds, lastBy' \subseteq lastBy,
         \A j \in JobIds \ missed' :
           ~(Brings(jobCalls[c], j) /\ IsEnabled(j) /\ IsSaved(jobRows[j])),
         \A p \in lastBy' : ~Answering(jobCalls[c], p)
  PROVE  JobsInv'
<1>1. /\ NoCall.pc = "idle" /\ NoCall.kind = "" /\ NoCall.job = {}
      /\ NoCall \in CallType
  BY DEF NoCall, CallType, NewRow, RowType
<1>2. FitsRows(NoCall) /\ (\A j \in NoCall.job : FitsJob(NoCall, j)) /\ ~Creates(NoCall)
  BY <1>1 DEF FitsRows, Creates
<1>3. starting \in BOOLEAN /\ NoCall.pc \notin InStart
  BY <1>1 DEF JobsInv, JobsTypeOK, InStart
<1> HIDE DEF NoCall
<1>4. QED
  BY <1>1, <1>2, <1>3, CallMoves

\* A request goes on to another await and learns nothing.
LEMMA CallContinues ==
  ASSUME JobsInv, NEW c \in JobCalls, NEW pc \in {"list", "load", "stopping", "make"},
         jobCalls' = CallAt(c, pc),
         UNCHANGED <<jobRows, jobProcs, list, seen, lastBy, missed>>,
         starting' \in BOOLEAN,
         pc \in InStart => starting' /\ (jobCalls[c].pc \in InStart \/ ~starting),
         starting /\ ~starting' => jobCalls[c].pc \in InStart,
         pc # "list" => /\ jobCalls[c].pc \notin {"idle", "write", "list", "answer", "check", "read", "apply"},
         pc = "make" => /\ jobCalls[c].pc = "register"
                        /\ \A j \in jobCalls[c].job : ~IsEnabled(j),
         \A j \in JobIds : Brings(jobCalls[c], j) => ~IsEnabled(j)
  PROVE  JobsInv'
<1> DEFINE old == jobCalls[c]
           x == [old EXCEPT !.pc = pc]
<1>1. old \in CallType /\ FitsRows(old) /\ \A j \in old.job : FitsJob(old, j)
  BY DEF JobsInv, JobsTypeOK, CallsFit
<1>2. /\ jobCalls' = [jobCalls EXCEPT ![c] = x]
      /\ x \in CallType
      /\ x.pc = pc /\ x.job = old.job /\ x.page = old.page /\ x.row = old.row
  <2>1. jobCalls' = [jobCalls EXCEPT ![c] = x]
    BY DEF CallAt
  <2>2. x \in CallType
    BY <1>1 DEF CallType, InStart
  <2>3. QED
    BY <1>1, <2>1, <2>2 DEF CallType
<1> HIDE DEF x, old
<1>3. FitsRows(x) /\ (\A j \in x.job : FitsJob(x, j)) /\ ~Creates(x)
  BY <1>1, <1>2 DEF old, FitsRows, FitsJob, Creates
<1>4. \A p \in lastBy : Answering(jobCalls[c], p) => Answering(x, p)
  BY <1>2 DEF old, Answering
<1>5. missed \subseteq JobIds
  BY DEF JobsInv, JobsTypeOK
<1>6. QED
  BY <1>2, <1>3, <1>4, <1>5, CallMoves DEF old

\* The steps of an update: is the process enabled?
LEMMA CheckEnabledKeeps ==
  ASSUME JobsInv, NEW c \in JobCalls, NEW j \in JobIds, CheckEnabled(c, j)
  PROVE  JobsInv'
<1> DEFINE old == jobCalls[c]
<1>1. /\ old \in CallType /\ FitsRows(old) /\ FitsJob(old, j)
      /\ old.pc = "check" /\ old.job = {j} /\ jobProcs[j].made \in Nat
      /\ starting \in BOOLEAN /\ missed \subseteq JobIds
      /\ UNCHANGED <<jobRows, jobProcs, list, seen, lastBy, missed, starting>>
  BY DEF CheckEnabled, Does, SameJobs, SamePages, NoChange, JobsInv, JobsTypeOK, CallsFit, EntryType
<1>2. CASE ~IsEnabled(j)
  <2>1. jobCalls' = CallAt(c, "list")
    BY <1>2 DEF CheckEnabled
  <2>2. \A i \in JobIds : Brings(old, i) => ~IsEnabled(i)
    BY <1>1, <1>2 DEF Brings
  <2>3. QED
    BY <1>1, <2>1, <2>2, CallContinues DEF InStart
<1>3. CASE IsEnabled(j)
  <2> DEFINE x == [old EXCEPT !.pc = "read", !.made = jobProcs[j].made]
  <2>1. /\ jobCalls' = [jobCalls EXCEPT ![c] = x]
        /\ x \in CallType
        /\ x.pc = "read" /\ x.job = old.job /\ x.page = old.page /\ x.made = jobProcs[j].made
    BY <1>1, <1>3 DEF CheckEnabled, CallType
  <2> HIDE DEF x, old
  <2>2. FitsRows(x) /\ (\A i \in x.job : FitsJob(x, i)) /\ ~Creates(x) /\ x.pc \notin InStart
    BY <1>1, <2>1 DEF FitsRows, FitsJob, Creates, InStart
  <2>3. \A i \in JobIds : Brings(old, i) => Brings(x, i)
    BY <1>1, <2>1 DEF Brings
  <2>4. \A p \in lastBy : Answering(old, p) => Answering(x, p)
    BY <1>1, <2>1 DEF Answering
  <2>5. QED
    BY <1>1, <2>1, <2>2, <2>3, <2>4, CallMoves DEF old
<1>4. QED
  BY <1>2, <1>3

\* The row of the job is read again, for an update or for a start.
LEMMA ReadRowKeeps ==
  ASSUME JobsInv, NEW c \in JobCalls, NEW j \in JobIds, ReadRow(c, j)
  PROVE  JobsInv'
<1> DEFINE old == jobCalls[c]
           x == [old EXCEPT !.pc = IF old.pc = "read" THEN "apply" ELSE "register",
                            !.row = jobRows[j]]
<1>1. /\ old \in CallType /\ FitsRows(old) /\ FitsJob(old, j)
      /\ old.pc \in {"read", "load"} /\ old.job = {j} /\ jobRows[j] \in RowType
      /\ starting \in BOOLEAN /\ missed \subseteq JobIds
      /\ UNCHANGED <<jobRows, jobProcs, list, seen, lastBy, missed, starting>>
  BY DEF ReadRow, Does, SameJobs, SamePages, NoChange, JobsInv, JobsTypeOK, CallsFit
<1>2. old.pc \in InStart => starting
  BY DEF JobsInv, StartsApart
<1>3. /\ jobCalls' = [jobCalls EXCEPT ![c] = x]
      /\ x \in CallType
      /\ x.pc = (IF old.pc = "read" THEN "apply" ELSE "register")
      /\ x.job = old.job /\ x.page = old.page /\ x.made = old.made /\ x.row = jobRows[j]
  <2>1. jobCalls' = [jobCalls EXCEPT ![c] = x]
    BY DEF ReadRow
  <2>2. x \in CallType
    BY <1>1 DEF CallType, InStart
  <2>3. QED
    BY <1>1, <2>1, <2>2 DEF CallType
<1> HIDE DEF x, old
<1>4. FitsRows(x) /\ (\A i \in x.job : FitsJob(x, i)) /\ ~Creates(x)
  BY <1>1, <1>3 DEF FitsRows, FitsJob, Creates
<1>5. x.pc \in InStart => starting /\ old.pc \in InStart
  BY <1>1, <1>2, <1>3 DEF InStart
<1>6. \A i \in JobIds : Brings(old, i) => Brings(x, i)
  BY <1>1, <1>3 DEF Brings
<1>7. \A p \in lastBy : Answering(old, p) => Answering(x, p)
  BY <1>1, <1>3 DEF Answering
<1>8. QED
  BY <1>1, <1>3, <1>4, <1>5, <1>6, <1>7, CallMoves DEF old

\* The process gets the arguments of the row that was read.
LEMMA ApplyArgsKeeps ==
  ASSUME JobsInv, NEW c \in JobCalls, NEW j \in JobIds, ApplyArgs(c, j)
  PROVE  JobsInv'
<1> DEFINE old == jobCalls[c]
<1>1. /\ old \in CallType /\ FitsRows(old) /\ FitsJob(old, j)
      /\ old.pc = "apply" /\ old.job = {j}
      /\ starting \in BOOLEAN /\ missed \subseteq JobIds /\ lastBy \subseteq JobPages
      /\ UNCHANGED <<jobRows, list, seen, starting>>
  BY DEF ApplyArgs, Does, SamePages, JobsInv, JobsTypeOK, CallsFit
<1>2. CASE IsSaved(old.row) /\ Continues(c, "list") /\ UNCHANGED <<lastBy, missed>>
           /\ jobProcs' = IF IsEnabled(j) /\ jobProcs[j].made = old.made
                          THEN [jobProcs EXCEPT ![j].args = old.row.version]
                          ELSE jobProcs
  <2> DEFINE x == [old EXCEPT !.pc = "list"]
  <2>1. /\ x \in CallType
        /\ x.pc = "list" /\ x.job = old.job /\ x.page = old.page
        /\ jobCalls' = [jobCalls EXCEPT ![c] = x]
    BY <1>1, <1>2 DEF Continues, CallAt, CallType
  <2>2. old.row.version \in Nat
    BY <1>1 DEF CallType, RowType
  <2> HIDE DEF x
  <2>3. /\ jobCalls'[c] = x /\ \A d \in JobCalls : d # c => jobCalls'[d] = jobCalls[d]
        /\ jobCalls' \in [JobCalls -> CallType]
    BY <2>1 DEF JobsInv, JobsTypeOK
  <2>4. /\ jobProcs' \in [JobIds -> EntryType]
        /\ \A i \in JobIds : /\ jobProcs'[i].state = jobProcs[i].state
                             /\ jobProcs'[i].made = jobProcs[i].made
                             /\ i # j => jobProcs'[i].args = jobProcs[i].args
        /\ jobProcs'[j].args = IF IsEnabled(j) /\ jobProcs[j].made = old.made
                               THEN old.row.version ELSE jobProcs[j].args
    BY <1>2, <2>2 DEF JobsInv, JobsTypeOK, EntryType
  <2>5. JobsTypeOK'
    BY <1>1, <1>2, <2>3, <2>4 DEF JobsInv, JobsTypeOK
  <2>6. StartsApart' /\ CreatesApart'
    BY <1>1, <2>1, <2>3 DEF JobsInv, StartsApart, CreatesApart, Creates, InStart
  <2>7. CallsFit'
    <3> SUFFICES ASSUME NEW d \in JobCalls
                 PROVE  FitsRows(jobCalls[d])' /\ \A i \in jobCalls'[d].job : FitsJob(jobCalls[d], i)'
      BY DEF CallsFit
    <3>1. jobCalls'[d].job \subseteq JobIds
      <4>1. jobCalls'[d].job \in {{}} \cup {{i} : i \in JobIds}
        BY <2>3 DEF CallType
      <4>2. QED
        BY <4>1
    <3>2. CASE d = c
      BY <1>1, <2>1, <2>3, <3>2 DEF FitsRows, FitsJob, Creates
    <3>3. CASE d # c
      BY <1>1, <1>2, <2>3, <2>4, <3>1, <3>3 DEF JobsInv, CallsFit, FitsRows, FitsJob, IsEnabled
    <3>4. QED
      BY <3>2, <3>3
  <2>8. NewUntouched'
    BY <1>1, <2>4 DEF JobsInv, NewUntouched, IsEnabled
  <2>9. ArgsOnTheWay'
    <3> SUFFICES ASSUME NEW i \in JobIds \ missed, IsEnabled(i), IsSaved(jobRows[i]),
                        jobProcs'[i].args # jobRows[i].version
                 PROVE  \E d \in JobCalls : Brings(jobCalls[d], i)'
      BY <1>1, <1>2, <2>4 DEF ArgsOnTheWay, IsEnabled
    <3>1. ~(i = j /\ old.made = jobProcs[j].made)
      BY <1>1, <2>4 DEF FitsJob
    <3>2. PICK d \in JobCalls : Brings(jobCalls[d], i)
      BY <2>4, <3>1 DEF JobsInv, ArgsOnTheWay
    <3>3. d # c
      BY <1>1, <3>1, <3>2 DEF Brings
    <3>4. Brings(jobCalls[d], i)'
      BY <1>1, <2>3, <2>4, <3>2, <3>3 DEF Brings
    <3>5. QED
      BY <3>4
  <2>10. ListsOnTheWay'
    <3> SUFFICES ASSUME NEW p \in lastBy, seen[p] = "nothing"
                 PROVE  \E d \in JobCalls : Answering(jobCalls[d], p)'
      BY <1>1, <1>2 DEF ListsOnTheWay
    <3>1. PICK d \in JobCalls : Answering(jobCalls[d], p)
      BY DEF JobsInv, ListsOnTheWay
    <3>2. Answering(jobCalls[d], p)'
      BY <1>1, <2>1, <2>3, <3>1 DEF Answering
    <3>3. QED
      BY <3>2
  <2>11. ListsRecent'
    BY <1>1, <2>4 DEF JobsInv, ListsRecent, Listing, IsEnabled
  <2>12. QED
    BY <2>5, <2>6, <2>7, <2>8, <2>9, <2>10, <2>11 DEF JobsInv
<1>3. CASE /\ Over(c) /\ lastBy' = lastBy \ old.page /\ missed' = missed \cup {j} /\ UNCHANGED jobProcs
  <2>1. \A p \in lastBy' : ~Answering(old, p)
    BY <1>3 DEF Answering
  <2>2. \A i \in JobIds \ missed' : ~Brings(old, i)
    BY <1>1, <1>3 DEF Brings
  <2>3. QED
    BY <1>1, <1>3, <2>1, <2>2, CallEnds DEF Over, InStart
<1>4. CASE ~IsSaved(old.row) /\ ThrowsFatal(c) /\ UNCHANGED <<jobProcs, lastBy, missed>>
  <2>1. \A p \in lastBy' : ~Answering(old, p)
    BY <1>1, <1>4 DEF Answering
  <2>2. \A i \in JobIds : ~(Brings(old, i) /\ IsSaved(jobRows[i]))
    BY <1>1, <1>4 DEF Brings
  <2>3. QED
    BY <1>1, <1>4, <2>1, <2>2, CallEnds DEF ThrowsFatal, InStart
<1>5. QED
  BY <1>2, <1>3, <1>4 DEF ApplyArgs

\* The steps of a start that leave processes and rows alone.
LEMMA StartSteps ==
  ASSUME JobsInv, NEW c \in JobCalls,
         \/ TakeRunLock(c)
         \/ StartThrows(c)
         \/ \E j \in JobIds : Register(c, j)
  PROVE  JobsInv'
<1> DEFINE old == jobCalls[c]
<1>1. /\ old \in CallType /\ FitsRows(old) /\ \A j \in old.job : FitsJob(old, j)
      /\ starting \in BOOLEAN /\ missed \subseteq JobIds /\ lastBy \subseteq JobPages
      /\ old.pc \in InStart => starting
  BY DEF JobsInv, JobsTypeOK, CallsFit, StartsApart
<1>2. /\ UNCHANGED <<jobRows, jobProcs, list, seen, lastBy, missed>>
      /\ old.pc \in {"lock", "make", "start", "register"}
  BY DEF TakeRunLock, StartThrows, Register, Does, SameJobs, SamePages, NoChange
<1>3. (\A i \in JobIds : ~Brings(old, i)) /\ \A p \in JobPages : ~Answering(old, p)
  BY <1>2 DEF Brings, Answering
<1>4. CASE TakeRunLock(c)
  <2>1. CASE starting
    BY <1>1, <1>2, <1>3, <1>4, <2>1, CallEnds DEF TakeRunLock, Over, InStart
  <2>2. CASE ~starting
    BY <1>1, <1>2, <1>3, <1>4, <2>2, CallContinues DEF TakeRunLock, Continues, InStart
  <2>3. QED
    BY <2>1, <2>2
<1>5. CASE StartThrows(c)
  <2>1. PICK throws \in {"cause", "fatal"} :
             jobCalls' = [jobCalls EXCEPT ![c].pc = "list", ![c].throws = throws]
    BY <1>5 DEF StartThrows
  <2> DEFINE x == [old EXCEPT !.pc = "list", !.throws = throws]
  <2>2. /\ jobCalls' = [jobCalls EXCEPT ![c] = x]
        /\ x \in CallType /\ x.pc = "list" /\ x.job = old.job /\ x.page = old.page
    BY <1>1, <2>1 DEF CallType
  <2>3. starting' = FALSE /\ old.pc \in InStart
    BY <1>5 DEF StartThrows, InStart
  <2> HIDE DEF x, old
  <2>4. FitsRows(x) /\ (\A i \in x.job : FitsJob(x, i)) /\ ~Creates(x) /\ x.pc \notin InStart
    BY <2>2 DEF FitsRows, FitsJob, Creates, InStart
  <2>5. QED
    BY <1>1, <1>2, <1>3, <2>2, <2>3, <2>4, CallMoves DEF old
<1>6. ASSUME NEW j \in JobIds, Register(c, j) PROVE JobsInv'
  <2>1. old.pc = "register" /\ old.job = {j}
    BY <1>6 DEF Register, Does
  <2>2. CASE starting' = FALSE /\ (Continues(c, "list") \/ Over(c))
    BY <1>1, <1>2, <1>3, <2>1, <2>2, CallContinues, CallEnds DEF Continues, Over, InStart
  <2>3. CASE starting' = starting /\ Continues(c, "make") /\ ~IsEnabled(j)
    BY <1>1, <1>2, <1>3, <2>1, <2>3, CallContinues DEF Continues, InStart
  <2>4. QED
    BY <1>6, <2>2, <2>3 DEF Register
<1>7. QED
  BY <1>4, <1>5, <1>6

\* A process takes the place of the one in the map.
LEMMA MakeProcessKeeps ==
  ASSUME JobsInv, NEW c \in JobCalls, NEW j \in JobIds, MakeProcess(c, j)
  PROVE  JobsInv'
<1> DEFINE old == jobCalls[c]
           made == jobProcs[j].made + 1
           x == [old EXCEPT !.pc = "start", !.made = made]
           entry == [state |-> "made", args |-> old.row.version, made |-> made]
<1>0. /\ old \in CallType /\ FitsRows(old) /\ FitsJob(old, j)
      /\ old.pc = "make" /\ old.job = {j} /\ jobProcs[j] \in EntryType
      /\ UNCHANGED <<jobRows, list, seen, starting, lastBy>>
      /\ missed' = IF old.row = jobRows[j] THEN missed \ {j} ELSE missed
  BY DEF MakeProcess, Does, SamePages, NoChange, JobsInv, JobsTypeOK, CallsFit
<1>1. /\ old \in CallType /\ FitsRows(old) /\ FitsJob(old, j)
      /\ old.pc = "make" /\ old.job = {j} /\ made \in Nat /\ made > jobProcs[j].made
      /\ old.row.version \in Nat
      /\ UNCHANGED <<jobRows, list, seen, starting, lastBy>>
      /\ missed' = IF old.row = jobRows[j] THEN missed \ {j} ELSE missed
  <2>1. made \in Nat /\ made > jobProcs[j].made
    BY <1>0 DEF EntryType
  <2>2. old.row.version \in Nat
    BY <1>0 DEF CallType, RowType
  <2>3. QED
    BY <1>0, <2>1, <2>2
<1>2. /\ jobCalls' = [jobCalls EXCEPT ![c] = x]
      /\ x \in CallType
      /\ x.pc = "start" /\ x.job = old.job /\ x.page = old.page /\ x.made = made /\ x.row = old.row
  BY <1>1 DEF MakeProcess, CallType, InStart
<1>3. jobProcs' = [jobProcs EXCEPT ![j] = entry]
  BY DEF MakeProcess
<1>4. entry \in EntryType /\ entry.state = "made" /\ entry.made = made
  BY <1>1 DEF EntryType
<1> HIDE DEF x, entry, made, old
<1>5. /\ jobCalls'[c] = x /\ \A d \in JobCalls : d # c => jobCalls'[d] = jobCalls[d]
      /\ jobProcs'[j] = entry /\ \A i \in JobIds : i # j => jobProcs'[i] = jobProcs[i]
  BY <1>2, <1>3 DEF JobsInv, JobsTypeOK
<1>6. JobsTypeOK'
  BY <1>1, <1>2, <1>3, <1>4 DEF JobsInv, JobsTypeOK
<1>7. StartsApart' /\ CreatesApart'
  BY <1>1, <1>2, <1>5 DEF JobsInv, StartsApart, CreatesApart, Creates, InStart, old
<1>8. \A d \in JobCalls : d # c => jobCalls[d].pc \notin InStart
  BY <1>1 DEF JobsInv, StartsApart, InStart, old
<1>9. CallsFit'
  <2> SUFFICES ASSUME NEW d \in JobCalls
               PROVE  FitsRows(jobCalls[d])' /\ \A i \in jobCalls'[d].job : FitsJob(jobCalls[d], i)'
    BY DEF CallsFit
  <2> SUFFICES ASSUME NEW i \in jobCalls'[d].job PROVE FitsJob(jobCalls[d], i)'
    BY <1>1, <1>2, <1>5 DEF FitsRows, JobsInv, CallsFit
  <2>2. CASE d = c
    <3>1. i = j
      BY <1>1, <1>2, <1>5, <2>2
    <3>2. jobRows[j].state # "new" /\ (j \notin missed' => x.row = jobRows[j])
      BY <1>1, <1>2 DEF FitsJob, Creates
    <3>3. QED
      BY <1>1, <1>2, <1>4, <1>5, <2>2, <3>1, <3>2 DEF FitsJob, Creates, IsEnabled
  <2>3. CASE d # c
    <3>1. /\ jobCalls'[d] = jobCalls[d] /\ FitsJob(jobCalls[d], i) /\ i \in JobIds
          /\ jobCalls[d].pc \notin InStart
          /\ jobCalls[d].made \in Nat /\ jobProcs[j].made \in Nat
      <4>1. jobCalls[d] \in CallType /\ jobCalls'[d] = jobCalls[d] /\ jobProcs[j] \in EntryType
        BY <1>5, <2>3 DEF JobsInv, JobsTypeOK
      <4>2. i \in JobIds /\ jobCalls[d].made \in Nat
        BY <4>1, CallFields
      <4>3. jobProcs[j].made \in Nat
        BY <4>1 DEF EntryType
      <4>4. QED
        BY <1>8, <2>3, <4>1, <4>2, <4>3 DEF JobsInv, CallsFit
    <3>2. CASE i # j
      BY <1>1, <1>5, <3>1, <3>2 DEF FitsJob, IsEnabled
    <3>3. CASE i = j
      <4>1. jobCalls[d].pc \in {"read", "apply"} => jobCalls[d].made < made
        BY <1>1, <3>1, <3>3 DEF FitsJob, made
      <4>2. jobProcs'[i].made = made /\ made \in Nat /\ ~IsEnabled(i)'
        BY <1>1, <1>4, <1>5, <3>3 DEF IsEnabled
      <4>3. QED
        BY <1>1, <1>5, <3>1, <3>3, <4>1, <4>2 DEF FitsJob, InStart
    <3>4. QED
      BY <3>2, <3>3
  <2>4. QED
    BY <2>2, <2>3
<1>10. NewUntouched'
  BY <1>1, <1>4, <1>5 DEF JobsInv, NewUntouched, IsEnabled
<1>11. ArgsOnTheWay'
  <2> SUFFICES ASSUME NEW i \in JobIds \ missed', IsEnabled(i)', IsSaved(jobRows[i]),
                      jobProcs'[i].args # jobRows[i].version
               PROVE  \E d \in JobCalls : Brings(jobCalls[d], i)'
    BY <1>1 DEF ArgsOnTheWay
  <2>1. i # j /\ i \notin missed
    BY <1>1, <1>4, <1>5 DEF IsEnabled
  <2>2. PICK d \in JobCalls : Brings(jobCalls[d], i)
    BY <1>5, <2>1 DEF JobsInv, ArgsOnTheWay, IsEnabled
  <2>3. d # c
    BY <1>1, <2>1, <2>2 DEF Brings, old
  <2>4. Brings(jobCalls[d], i)'
    BY <1>1, <1>5, <2>1, <2>2, <2>3 DEF Brings
  <2>5. QED
    BY <2>4
<1>12. ListsOnTheWay'
  <2> SUFFICES ASSUME NEW p \in lastBy, seen[p] = "nothing"
               PROVE  \E d \in JobCalls : Answering(jobCalls[d], p)'
    BY <1>1 DEF ListsOnTheWay
  <2>1. PICK d \in JobCalls : Answering(jobCalls[d], p)
    BY DEF JobsInv, ListsOnTheWay
  <2>2. d # c
    BY <1>1, <2>1 DEF Answering, old
  <2>3. Answering(jobCalls[d], p)'
    BY <1>1, <1>5, <2>1, <2>2 DEF Answering
  <2>4. QED
    BY <2>3
<1>13. ListsRecent'
  <2>1. ~IsEnabled(j)
    BY <1>1 DEF FitsJob
  <2>5. ~IsEnabled(j)'
    BY <1>4, <1>5 DEF IsEnabled
  <2>2. \A i \in JobIds : (jobProcs'[i].state = "enabled") = (jobProcs[i].state = "enabled")
    BY <1>5, <2>1, <2>5 DEF IsEnabled
  <2>3. Listing(jobRows)' = Listing(jobRows)
    BY <1>1, <2>2 DEF Listing, IsEnabled
  <2>4. QED
    BY <1>1, <2>3 DEF JobsInv, ListsRecent
<1>14. QED
  BY <1>6, <1>7, <1>9, <1>10, <1>11, <1>12, <1>13 DEF JobsInv

\* The entry of a job changes, and the request that has changed it goes on to the list.
LEMMA EntryChanges ==
  ASSUME JobsInv, NEW j \in JobIds, NEW entry \in EntryType, NEW by \in SUBSET JobPages,
         jobProcs' = [jobProcs EXCEPT ![j] = entry],
         entry.made = jobProcs[j].made,
         entry.state = "enabled" =>
           /\ jobRows[j].state # "new"
           /\ j \notin missed => entry.args = jobRows[j].version
           /\ \A d \in JobCalls : jobCalls'[d].pc # "make",
         jobCalls' \in [JobCalls -> CallType],
         \A d \in JobCalls :
           \/ jobCalls'[d] = jobCalls[d]
           \/ /\ jobCalls'[d].pc = "list"
              /\ jobCalls'[d].job = jobCalls[d].job /\ jobCalls'[d].page = jobCalls[d].page
              /\ jobCalls[d].pc \in {"start", "stopping"},
         by = {} \/ \E d \in JobCalls : jobCalls'[d].pc = "list" /\ jobCalls'[d].page = by,
         Change(by),
         UNCHANGED <<jobRows, list, missed>>,
         starting' \in BOOLEAN,
         starting' # starting => \A d \in JobCalls : jobCalls'[d].pc \notin InStart
  PROVE  JobsInv'
<1>1. jobProcs'[j] = entry /\ \A i \in JobIds : i # j => jobProcs'[i] = jobProcs[i]
  BY DEF JobsInv, JobsTypeOK
<1>2. \A i \in JobIds : jobProcs'[i].made = jobProcs[i].made
  BY <1>1
<1>3. seen' = [p \in JobPages |-> "nothing"] /\ lastBy' = by
  BY DEF Change
<1>4. JobsTypeOK'
  BY <1>3 DEF JobsInv, JobsTypeOK
<1>5. StartsApart'
  BY DEF JobsInv, StartsApart, InStart
<1>6. CreatesApart'
  BY DEF JobsInv, CreatesApart, Creates
<1>7. CallsFit'
  <2> SUFFICES ASSUME NEW d \in JobCalls
               PROVE  FitsRows(jobCalls[d])' /\ \A i \in jobCalls'[d].job : FitsJob(jobCalls[d], i)'
    BY DEF CallsFit
  <2>1. /\ FitsRows(jobCalls[d]) /\ \A i \in jobCalls[d].job : FitsJob(jobCalls[d], i)
        /\ jobCalls[d].job \subseteq JobIds
    <3>1. jobCalls[d].job \in {{}} \cup {{i} : i \in JobIds}
      BY DEF JobsInv, JobsTypeOK, CallType
    <3>2. QED
      BY <3>1 DEF JobsInv, CallsFit
  <2>2. CASE jobCalls'[d] = jobCalls[d]
    <3>1. ASSUME NEW i \in jobCalls[d].job PROVE FitsJob(jobCalls[d], i)'
      <4>1. i \in JobIds /\ FitsJob(jobCalls[d], i) /\ jobProcs'[i].made = jobProcs[i].made
        BY <1>2, <2>1, <3>1
      <4>2. jobCalls[d].pc = "make" => ~IsEnabled(i)'
        BY <1>1, <2>2, <4>1 DEF FitsJob, IsEnabled
      <4>3. QED
        BY <2>2, <4>1, <4>2 DEF FitsJob
    <3>2. QED
      BY <2>1, <2>2, <3>1 DEF FitsRows
  <2>3. CASE jobCalls'[d].pc = "list" /\ jobCalls[d].pc \in {"start", "stopping"}
    BY <2>3 DEF FitsRows, FitsJob, Creates
  <2>4. QED
    BY <2>2, <2>3
<1>8. NewUntouched'
  BY <1>1 DEF JobsInv, NewUntouched, IsEnabled
<1>9. ArgsOnTheWay'
  <2> SUFFICES ASSUME NEW i \in JobIds \ missed, IsEnabled(i)', IsSaved(jobRows[i]),
                      jobProcs'[i].args # jobRows[i].version
               PROVE  \E d \in JobCalls : Brings(jobCalls[d], i)'
    BY DEF ArgsOnTheWay
  <2>1. i # j
    BY <1>1 DEF IsEnabled
  <2>2. PICK d \in JobCalls : Brings(jobCalls[d], i)
    BY <1>1, <2>1 DEF JobsInv, ArgsOnTheWay, IsEnabled
  <2>3. Brings(jobCalls[d], i)'
    BY <1>2, <2>2 DEF Brings
  <2>4. QED
    BY <2>3
<1>10. ListsOnTheWay'
  <2> SUFFICES ASSUME NEW p \in by PROVE \E d \in JobCalls : Answering(jobCalls[d], p)'
    BY <1>3 DEF ListsOnTheWay
  <2>1. PICK d \in JobCalls : jobCalls'[d].pc = "list" /\ jobCalls'[d].page = by
    OBVIOUS
  <2>2. jobCalls'[d].page \in {{}} \cup {{q} : q \in JobPages}
    BY DEF CallType
  <2>3. jobCalls'[d].page = {p}
    BY <2>1, <2>2
  <2>4. QED
    BY <2>1, <2>3 DEF Answering
<1>11. ListsRecent'
  BY <1>3 DEF ListsRecent
<1>12. QED
  BY <1>4, <1>5, <1>6, <1>7, <1>8, <1>9, <1>10, <1>11 DEF JobsInv

\* The start ends: the process is enabled with the row that was read.
LEMMA StartedKeeps ==
  ASSUME JobsInv, NEW c \in JobCalls, NEW j \in JobIds, Started(c, j)
  PROVE  JobsInv'
<1> DEFINE old == jobCalls[c]
           x == [old EXCEPT !.pc = "list"]
           entry == [state |-> "enabled", args |-> old.row.version, made |-> old.made]
<1>1. /\ old \in CallType /\ FitsJob(old, j) /\ old.pc = "start" /\ old.job = {j}
      /\ UNCHANGED <<jobRows, list, missed>> /\ starting' = FALSE /\ Change(old.page)
      /\ \A d \in JobCalls : d # c => jobCalls[d].pc \notin InStart
  BY DEF Started, Does, SamePages, JobsInv, JobsTypeOK, CallsFit, StartsApart, InStart
<1>2. /\ old.row.version \in Nat /\ old.made \in Nat /\ old.page \in SUBSET JobPages
  <2>1. /\ old.row.version \in Nat /\ old.made \in Nat
        /\ old.page \in {{}} \cup {{p} : p \in JobPages}
    BY <1>1, CallFields
  <2>2. QED
    BY <2>1
<1>3. entry \in EntryType /\ entry.made = old.made /\ entry.state = "enabled" /\ entry.args = old.row.version
  BY <1>2 DEF EntryType
<1>4. /\ x \in CallType /\ x.pc = "list" /\ x.job = old.job /\ x.page = old.page
      /\ jobCalls' = [jobCalls EXCEPT ![c] = x]
  BY <1>1 DEF Started, Continues, CallAt, CallType
<1>5. jobProcs' = [jobProcs EXCEPT ![j] = entry]
  BY DEF Started
<1> HIDE DEF x, entry
<1>6. /\ jobCalls'[c] = x /\ \A d \in JobCalls : d # c => jobCalls'[d] = jobCalls[d]
      /\ jobCalls' \in [JobCalls -> CallType]
  BY <1>4 DEF JobsInv, JobsTypeOK
<1>7. /\ jobRows[j].state # "new" /\ (j \notin missed => entry.args = jobRows[j].version)
      /\ entry.made = jobProcs[j].made
  BY <1>1, <1>3 DEF FitsJob, Creates
<1>8. \A d \in JobCalls : jobCalls'[d].pc \notin InStart /\ jobCalls'[d].pc # "make"
  BY <1>1, <1>4, <1>6 DEF InStart
<1> DEFINE by == old.page
<1>9. \E d \in JobCalls : jobCalls'[d].pc = "list" /\ jobCalls'[d].page = by
  BY <1>4, <1>6
<1>10. \A d \in JobCalls :
          \/ jobCalls'[d] = jobCalls[d]
          \/ /\ jobCalls'[d].pc = "list"
             /\ jobCalls'[d].job = jobCalls[d].job /\ jobCalls'[d].page = jobCalls[d].page
             /\ jobCalls[d].pc \in {"start", "stopping"}
  BY <1>1, <1>4, <1>6
<1>11. by \in SUBSET JobPages /\ Change(by)
  BY <1>1, <1>2
<1> HIDE DEF by, old
<1>12. QED
  BY <1>1, <1>3, <1>5, <1>6, <1>7, <1>8, <1>9, <1>10, <1>11, EntryChanges

\* What the invariant does not look at: the bounds and the list of halting entries.
LEMMA NothingOfJobs ==
  ASSUME JobsInv, UNCHANGED <<jobRows, jobProcs, starting, jobCalls, list, seen, lastBy, missed>>
  PROVE  JobsInv'
<1>1. JobsTypeOK' /\ StartsApart' /\ CreatesApart' /\ NewUntouched'
  BY DEF JobsInv, JobsTypeOK, StartsApart, CreatesApart, Creates, NewUntouched, IsEnabled
<1>2. CallsFit'
  BY DEF JobsInv, CallsFit, FitsRows, FitsJob, IsEnabled
<1>3. ArgsOnTheWay'
  BY DEF JobsInv, ArgsOnTheWay, Brings, IsEnabled
<1>4. ListsOnTheWay' /\ ListsRecent'
  BY DEF JobsInv, ListsOnTheWay, Answering, ListsRecent, Listing, IsEnabled
<1>5. QED
  BY <1>1, <1>2, <1>3, <1>4 DEF JobsInv

\* The steps of a stop.
LEMMA StopSteps ==
  ASSUME JobsInv, NEW j \in JobIds,
         \/ Halted(j)
         \/ \E c \in JobCalls : BeginStopOf(c, j) \/ Stopped(c, j)
  PROVE  JobsInv'
<1> DEFINE entry == [jobProcs[j] EXCEPT !.state = "none", !.args = 0]
<1>1. /\ jobProcs[j] \in EntryType /\ starting \in BOOLEAN /\ missed \subseteq JobIds
      /\ lastBy \subseteq JobPages /\ jobCalls \in [JobCalls -> CallType]
  BY DEF JobsInv, JobsTypeOK
<1>2. entry \in EntryType /\ entry.state = "none" /\ entry.made = jobProcs[j].made
  BY <1>1 DEF EntryType
<1>3. Deleted(j) => jobProcs' = [jobProcs EXCEPT ![j] = entry]
  BY DEF Deleted, JobsInv, JobsTypeOK
<1> HIDE DEF entry
<1>4. CASE Halted(j)
  <2>1. /\ UNCHANGED <<jobRows, list, missed, starting, jobCalls>>
        /\ \/ Deleted(j) /\ Change({})
           \/ UNCHANGED <<seen, lastBy, jobProcs>>
    BY <1>4 DEF Halted, SamePages, NoChange
  <2>2. CASE Deleted(j) /\ Change({})
    <3>1. {} \in SUBSET JobPages
      OBVIOUS
    <3>2. QED
      BY <1>1, <1>2, <1>3, <2>1, <2>2, <3>1, EntryChanges
  <2>3. CASE UNCHANGED <<seen, lastBy, jobProcs>>
    BY <2>1, <2>3, NothingOfJobs
  <2>4. QED
    BY <2>1, <2>2, <2>3
<1>5. ASSUME NEW c \in JobCalls, BeginStopOf(c, j) PROVE JobsInv'
  <2>1. \E pc \in {"list", "stopping"} : jobCalls' = CallAt(c, pc)
    BY <1>5 DEF BeginStopOf, Continues
  <2>2. /\ jobCalls[c].pc = "stop"
        /\ UNCHANGED <<jobRows, jobProcs, list, seen, lastBy, missed, starting>>
    BY <1>5 DEF BeginStopOf, Does, SameJobs, SamePages, NoChange
  <2>3. \A i \in JobIds : ~Brings(jobCalls[c], i)
    BY <2>2 DEF Brings
  <2>4. QED
    BY <1>1, <2>1, <2>2, <2>3, CallContinues DEF InStart
<1>6. ASSUME NEW c \in JobCalls, Stopped(c, j) PROVE JobsInv'
  <2> DEFINE old == jobCalls[c]
             x == [old EXCEPT !.pc = "list"]
             by == old.page
  <2>1. /\ old \in CallType /\ old.pc = "stopping" /\ UNCHANGED <<jobRows, list, missed, starting>>
        /\ \/ Deleted(j) /\ Continues(c, "list") /\ Change(by)
           \/ Over(c) /\ UNCHANGED <<seen, lastBy, jobProcs>>
    BY <1>1, <1>6 DEF Stopped, Does, SamePages, NoChange
  <2>2. CASE Deleted(j) /\ Continues(c, "list") /\ Change(by)
    <3>1. /\ x \in CallType /\ x.pc = "list" /\ x.job = old.job /\ x.page = by
          /\ jobCalls' = [jobCalls EXCEPT ![c] = x]
      BY <2>1, <2>2 DEF Continues, CallAt, CallType
    <3>2. by \in SUBSET JobPages
      BY <2>1 DEF CallType
    <3> HIDE DEF x, by
    <3>3. /\ jobCalls'[c] = x /\ \A d \in JobCalls : d # c => jobCalls'[d] = jobCalls[d]
          /\ jobCalls' \in [JobCalls -> CallType]
      BY <1>1, <3>1
    <3>4. \A d \in JobCalls :
             \/ jobCalls'[d] = jobCalls[d]
             \/ /\ jobCalls'[d].pc = "list"
                /\ jobCalls'[d].job = jobCalls[d].job /\ jobCalls'[d].page = jobCalls[d].page
                /\ jobCalls[d].pc \in {"start", "stopping"}
      BY <2>1, <3>1, <3>3 DEF by
    <3>5. \E d \in JobCalls : jobCalls'[d].pc = "list" /\ jobCalls'[d].page = by
      BY <3>1, <3>3
    <3>6. QED
      BY <1>1, <1>2, <1>3, <2>1, <2>2, <3>2, <3>3, <3>4, <3>5, EntryChanges
  <2>3. CASE Over(c) /\ UNCHANGED <<seen, lastBy, jobProcs>>
    <3>1. (\A i \in JobIds : ~Brings(old, i)) /\ \A p \in JobPages : ~Answering(old, p)
      BY <2>1 DEF Brings, Answering
    <3>2. QED
      BY <1>1, <2>1, <2>3, <3>1, CallEnds DEF Over, InStart
  <2>4. QED
    BY <2>1, <2>2, <2>3
<1>7. QED
  BY <1>4, <1>5, <1>6

\* The rows are read for a list.
LEMMA ListRowsKeeps ==
  ASSUME JobsInv, NEW c \in JobCalls, ListRows(c)
  PROVE  JobsInv'
<1> DEFINE old == jobCalls[c]
           x == [old EXCEPT !.pc = "answer", !.isRecent = TRUE, !.rows = jobRows]
<1>1. /\ old \in CallType /\ old.pc = "list" /\ jobRows \in [JobIds -> RowType]
      /\ UNCHANGED <<jobRows, jobProcs, list, seen, lastBy, missed, starting>>
      /\ starting \in BOOLEAN /\ missed \subseteq JobIds
  BY DEF ListRows, SameJobs, SamePages, NoChange, JobsInv, JobsTypeOK
<1>2. /\ jobCalls' = [jobCalls EXCEPT ![c] = x]
      /\ x \in CallType
      /\ x.pc = "answer" /\ x.rows = jobRows /\ x.page = old.page
  BY <1>1 DEF ListRows, CallType
<1> HIDE DEF x, old
<1>3. FitsRows(x) /\ (\A j \in x.job : FitsJob(x, j)) /\ ~Creates(x) /\ x.pc \notin InStart
  BY <1>1, <1>2 DEF FitsRows, FitsJob, Creates, InStart, IsSaved
<1>4. \A i \in JobIds : ~Brings(old, i)
  BY <1>1 DEF Brings
<1>5. \A p \in lastBy : Answering(old, p) => Answering(x, p)
  BY <1>2 DEF Answering
<1>6. QED
  BY <1>1, <1>2, <1>3, <1>4, <1>5, CallMoves DEF old

\* The list is completed with what runs and sent to its page.
LEMMA SendListKeeps ==
  ASSUME JobsInv, NEW c \in JobCalls, SendList(c)
  PROVE  JobsInv'
<1> DEFINE old == jobCalls[c]
<1>1. /\ old \in CallType /\ FitsRows(old) /\ old.pc = "answer"
      /\ jobCalls' = [jobCalls EXCEPT ![c] = NoCall]
      /\ UNCHANGED <<jobRows, jobProcs, starting, lastBy, missed>>
      /\ list' = [p \in JobPages |-> IF p \in SentTo(c) THEN Listing(old.rows) ELSE list[p]]
      /\ seen' = [p \in JobPages |-> IF p \notin SentTo(c) THEN seen[p]
                                     ELSE IF old.isRecent THEN "recent" ELSE "older"]
  BY DEF SendList, ThrowsFatal, Over, SameJobs, JobsInv, JobsTypeOK, CallsFit
<1>2. /\ NoCall \in CallType /\ NoCall.pc = "idle" /\ NoCall.job = {}
  BY DEF NoCall, CallType, NewRow, RowType
<1>3. /\ jobCalls'[c] = NoCall /\ \A d \in JobCalls : d # c => jobCalls'[d] = jobCalls[d]
  BY <1>1 DEF JobsInv, JobsTypeOK
<1>4. JobsTypeOK'
  BY <1>1, <1>2 DEF JobsInv, JobsTypeOK
<1>5. StartsApart' /\ CreatesApart'
  BY <1>1, <1>2, <1>3 DEF JobsInv, StartsApart, CreatesApart, Creates, InStart
<1>6. CallsFit'
  <2> SUFFICES ASSUME NEW d \in JobCalls
               PROVE  FitsRows(jobCalls[d])' /\ \A i \in jobCalls'[d].job : FitsJob(jobCalls[d], i)'
    BY DEF CallsFit
  <2>1. CASE d = c
    BY <1>2, <1>3, <2>1 DEF FitsRows
  <2>2. CASE d # c
    BY <1>1, <1>3, <2>2 DEF JobsInv, CallsFit, FitsRows, FitsJob, IsEnabled
  <2>3. QED
    BY <2>1, <2>2
<1>7. NewUntouched'
  <2> SUFFICES ASSUME NEW j \in JobIds, jobRows[j].state = "new"
               PROVE  ~IsEnabled(j) /\ \A p \in JobPages : j \notin DOMAIN list'[p]
    BY <1>1 DEF NewUntouched, IsEnabled
  <2>1. ~IsEnabled(j) /\ \A p \in JobPages : j \notin DOMAIN list[p]
    BY DEF JobsInv, NewUntouched
  <2>2. ~IsSaved(old.rows[j])
    BY <1>1 DEF FitsRows
  <2>3. j \notin DOMAIN Listing(old.rows)
    BY <2>2 DEF Listing
  <2>4. QED
    BY <1>1, <2>1, <2>3
<1>8. ArgsOnTheWay'
  <2> SUFFICES ASSUME NEW i \in JobIds \ missed, IsEnabled(i), IsSaved(jobRows[i]),
                      jobProcs[i].args # jobRows[i].version
               PROVE  \E d \in JobCalls : Brings(jobCalls[d], i)'
    BY <1>1 DEF ArgsOnTheWay, IsEnabled
  <2>1. PICK d \in JobCalls : Brings(jobCalls[d], i)
    BY DEF JobsInv, ArgsOnTheWay
  <2>2. d # c
    BY <1>1, <2>1 DEF Brings
  <2>3. Brings(jobCalls[d], i)'
    BY <1>1, <1>3, <2>1, <2>2 DEF Brings
  <2>4. QED
    BY <2>3
<1>9. ListsOnTheWay'
  <2> SUFFICES ASSUME NEW p \in lastBy, seen'[p] = "nothing"
               PROVE  \E d \in JobCalls : Answering(jobCalls[d], p)'
    BY <1>1 DEF ListsOnTheWay
  <2>1. p \in JobPages /\ p \notin SentTo(c) /\ seen[p] = "nothing"
    BY <1>1 DEF JobsInv, JobsTypeOK
  <2>2. PICK d \in JobCalls : Answering(jobCalls[d], p)
    BY <2>1 DEF JobsInv, ListsOnTheWay
  <2>3. d # c
    BY <2>1, <2>2 DEF Answering, SentTo
  <2>4. Answering(jobCalls[d], p)'
    BY <1>1, <1>3, <2>2, <2>3 DEF Answering
  <2>5. QED
    BY <2>4
<1>10. ListsRecent'
  <2> SUFFICES ASSUME NEW p \in JobPages, seen'[p] = "recent" PROVE list'[p] = Listing(jobRows)'
    BY DEF ListsRecent
  <2>1. Listing(jobRows)' = Listing(jobRows)
    BY <1>1 DEF Listing, IsEnabled
  <2>2. CASE p \in SentTo(c)
    BY <1>1, <2>1, <2>2 DEF FitsRows
  <2>3. CASE p \notin SentTo(c)
    BY <1>1, <2>1, <2>3 DEF JobsInv, ListsRecent
  <2>4. QED
    BY <2>2, <2>3
<1>11. QED
  BY <1>4, <1>5, <1>6, <1>7, <1>8, <1>9, <1>10 DEF JobsInv

\* A row is saved or removed; the jobs whose process is being made are missed.
LEMMA WriteRowKeeps ==
  ASSUME JobsInv, NEW c \in JobCalls, NEW j \in JobIds, WriteRow(c, j)
  PROVE  JobsInv'
<1> DEFINE old == jobCalls[c]
           row == IF old.kind = "remove" THEN RemovedRow ELSE SavedRow(jobRows[j].version + 1)
           x == [old EXCEPT !.pc = IF old.kind = "update" THEN "check" ELSE "list"]
<1>1. /\ old \in CallType /\ FitsJob(old, j) /\ old.pc = "write" /\ old.job = {j}
      /\ jobRows[j] \in RowType /\ jobRows[j].version \in Nat
      /\ missed \subseteq JobIds /\ starting \in BOOLEAN
      /\ UNCHANGED <<jobProcs, starting, list>>
  BY DEF WriteRow, Does, SamePages, JobsInv, JobsTypeOK, CallsFit, RowType
<1>2. CASE old.kind # "create" /\ ~IsSaved(jobRows[j])
  <2>1. ThrowsFatal(c) /\ UNCHANGED <<seen, lastBy, jobRows, missed>>
    BY <1>2 DEF WriteRow, NoChange
  <2>2. (\A i \in JobIds : ~Brings(old, i)) /\ \A p \in JobPages : ~Answering(old, p)
    BY <1>1 DEF Brings, Answering
  <2>3. lastBy \subseteq JobPages
    BY DEF JobsInv, JobsTypeOK
  <2>4. QED
    BY <1>1, <2>1, <2>2, <2>3, CallEnds DEF ThrowsFatal, InStart
<1>3. CASE ~(old.kind # "create" /\ ~IsSaved(jobRows[j]))
  <2> DEFINE by == old.page
  <2>1. /\ jobRows' = [jobRows EXCEPT ![j] = row]
        /\ jobCalls' = [d \in JobCalls |-> IF d # c THEN [jobCalls[d] EXCEPT !.isRecent = FALSE]
                                           ELSE x]
        /\ Change(by)
        /\ missed' = IF IsUsed(j) THEN missed \cup {j} ELSE missed
    BY <1>3 DEF WriteRow, JobsInv, JobsTypeOK
  <2>2. row \in RowType /\ row.state # "new" /\ (old.kind # "remove" => IsSaved(row))
    BY <1>1 DEF RowType, RemovedRow, SavedRow, IsSaved
  <2>3. /\ x \in CallType /\ x.pc = (IF old.kind = "update" THEN "check" ELSE "list")
        /\ x.job = {j} /\ x.page = by /\ x.kind = old.kind
    BY <1>1 DEF CallType
  <2>4. \A d \in JobCalls : d # c =>
          /\ jobCalls'[d] \in CallType
          /\ jobCalls'[d].pc = jobCalls[d].pc /\ jobCalls'[d].kind = jobCalls[d].kind
          /\ jobCalls'[d].job = jobCalls[d].job /\ jobCalls'[d].page = jobCalls[d].page
          /\ jobCalls'[d].row = jobCalls[d].row /\ jobCalls'[d].made = jobCalls[d].made
          /\ jobCalls'[d].rows = jobCalls[d].rows /\ ~jobCalls'[d].isRecent
    <3> SUFFICES ASSUME NEW d \in JobCalls, d # c
                 PROVE  LET y == jobCalls[d]
                            z == jobCalls'[d]
                        IN /\ z \in CallType
                           /\ z.pc = y.pc /\ z.kind = y.kind /\ z.job = y.job /\ z.page = y.page
                           /\ z.row = y.row /\ z.made = y.made /\ z.rows = y.rows /\ ~z.isRecent
      OBVIOUS
    <3>1. jobCalls[d] \in CallType /\ jobCalls'[d] = [jobCalls[d] EXCEPT !.isRecent = FALSE]
      BY <2>1 DEF JobsInv, JobsTypeOK
    <3>2. QED
      BY <3>1 DEF CallType
  <2> HIDE DEF row, x
  <2>5. jobCalls'[c] = x /\ jobCalls' \in [JobCalls -> CallType]
    BY <2>1, <2>3, <2>4
  <2>6. jobRows'[j] = row /\ \A i \in JobIds : i # j => jobRows'[i] = jobRows[i]
    BY <2>1 DEF JobsInv, JobsTypeOK
  <2>7. \A i \in JobIds : jobRows'[i].state = "new" => i # j /\ jobRows[i].state = "new"
    BY <2>2, <2>6
  <2>8. seen' = [p \in JobPages |-> "nothing"] /\ lastBy' = by
    BY <2>1 DEF Change
  <2>9. JobsTypeOK'
    <3>1. by \subseteq JobPages
      <4>1. by \in {{}} \cup {{p} : p \in JobPages}
        BY <1>1 DEF CallType
      <4>2. QED
        BY <4>1
    <3>2. jobRows' \in [JobIds -> RowType]
      BY <2>1, <2>2 DEF JobsInv, JobsTypeOK
    <3>3. QED
      BY <1>1, <2>1, <2>5, <2>8, <3>1, <3>2 DEF JobsInv, JobsTypeOK
  <2>10. StartsApart'
    BY <1>1, <2>3, <2>4, <2>5 DEF JobsInv, StartsApart, InStart
  <2>11. CreatesApart'
    BY <2>3, <2>4, <2>5 DEF JobsInv, CreatesApart, Creates
  <2>12. CallsFit'
    <3> SUFFICES ASSUME NEW d \in JobCalls
                 PROVE  FitsRows(jobCalls[d])' /\ \A i \in jobCalls'[d].job : FitsJob(jobCalls[d], i)'
      BY DEF CallsFit
    <3>1. CASE d = c
      BY <2>2, <2>3, <2>5, <2>6, <3>1 DEF FitsRows, FitsJob, Creates
    <3>2. CASE d # c
      <4>1. FitsRows(jobCalls[d]) /\ \A i \in jobCalls[d].job : FitsJob(jobCalls[d], i)
        BY DEF JobsInv, CallsFit
      <4>2. FitsRows(jobCalls[d])'
        BY <2>4, <2>7, <3>2, <4>1 DEF FitsRows
      <4>3. ASSUME NEW i \in jobCalls'[d].job PROVE FitsJob(jobCalls[d], i)'
        <5>1. /\ jobCalls[d] \in CallType /\ i \in jobCalls[d].job
          BY <2>4, <3>2, <4>3 DEF JobsInv, JobsTypeOK
        <5>2. i \in JobIds /\ jobCalls[d].job = {i}
          <6>1. jobCalls[d].job \in {{}} \cup {{k} : k \in JobIds}
            BY <5>1 DEF CallType
          <6>2. QED
            BY <5>1, <6>1
        <5>3. FitsJob(jobCalls[d], i)
          BY <4>1, <5>1
        <5>4. CASE i # j
          <6>1. jobRows'[i] = jobRows[i] /\ jobProcs' = jobProcs /\ (i \in missed' <=> i \in missed)
            BY <1>1, <2>1, <2>6, <5>2, <5>4
          <6>2. /\ jobCalls'[d].pc = jobCalls[d].pc /\ jobCalls'[d].kind = jobCalls[d].kind
                /\ jobCalls'[d].made = jobCalls[d].made /\ jobCalls'[d].row = jobCalls[d].row
            BY <2>4, <3>2
          <6>3. QED
            BY <5>3, <6>1, <6>2 DEF FitsJob, Creates, IsEnabled
        <5>5. CASE i = j
          <6>1. ~Creates(jobCalls[d])
            <7>1. CASE Creates(old)
              BY <1>1, <3>2, <5>2, <5>5, <7>1 DEF JobsInv, CreatesApart
            <7>2. CASE ~Creates(old)
              BY <1>1, <1>3, <5>3, <5>5, <7>2 DEF FitsJob, Creates, IsSaved
            <7>3. QED
              BY <7>1, <7>2
          <6>2. jobCalls[d].pc \in {"register", "make", "start", "apply"} => j \in missed'
            BY <2>1, <5>2, <5>5 DEF IsUsed, Does
          <6>3. QED
            BY <1>1, <2>2, <2>4, <2>6, <3>2, <5>3, <5>5, <6>1, <6>2 DEF FitsJob, Creates, IsEnabled
        <5>6. QED
          BY <5>4, <5>5
      <4>4. QED
        BY <4>2, <4>3
    <3>3. QED
      BY <3>1, <3>2
  <2>13. NewUntouched'
    BY <1>1, <2>7 DEF JobsInv, NewUntouched, IsEnabled
  <2>14. ArgsOnTheWay'
    <3> SUFFICES ASSUME NEW i \in JobIds \ missed', IsEnabled(i), IsSaved(jobRows'[i]),
                        jobProcs[i].args # jobRows'[i].version
                 PROVE  \E d \in JobCalls : Brings(jobCalls[d], i)'
      BY <1>1 DEF ArgsOnTheWay, IsEnabled
    <3>1. CASE i = j
      <4>1. old.kind = "update"
        <5>1. old.kind # "remove"
          BY <2>6, <3>1 DEF row, RemovedRow, IsSaved
        <5>2. old.kind # "create"
          BY <1>1, <3>1 DEF FitsJob, Creates, JobsInv, NewUntouched
        <5>3. old.kind \in {"update", "remove", "create"}
          BY <1>1 DEF FitsJob
        <5>4. QED
          BY <5>1, <5>2, <5>3
      <4>2. Brings(jobCalls[c], i)'
        BY <2>3, <2>5, <3>1, <4>1 DEF Brings
      <4>3. QED
        BY <4>2
    <3>2. CASE i # j
      <4>1. PICK d \in JobCalls : Brings(jobCalls[d], i)
        BY <2>1, <2>6, <3>2 DEF JobsInv, ArgsOnTheWay
      <4>2. d # c
        BY <1>1, <3>2, <4>1 DEF Brings
      <4>3. Brings(jobCalls[d], i)'
        BY <1>1, <2>4, <2>6, <3>2, <4>1, <4>2 DEF Brings
      <4>4. QED
        BY <4>3
    <3>3. QED
      BY <3>1, <3>2
  <2>15. ListsOnTheWay'
    <3> SUFFICES ASSUME NEW p \in by PROVE Answering(jobCalls[c], p)'
      BY <2>8 DEF ListsOnTheWay
    <3>1. by = {p}
      <4>1. by \in {{}} \cup {{q} : q \in JobPages}
        BY <1>1 DEF CallType
      <4>2. QED
        BY <4>1
    <3>2. old.kind = "update" => IsSaved(jobRows'[j])
      BY <2>2, <2>6
    <3>3. QED
      BY <2>3, <2>5, <3>1, <3>2 DEF Answering
  <2>16. ListsRecent'
    BY <2>8 DEF ListsRecent
  <2>17. QED
    BY <2>9, <2>10, <2>11, <2>12, <2>13, <2>14, <2>15, <2>16 DEF JobsInv
<1>4. QED
  BY <1>2, <1>3

\* Every step keeps the invariant of the jobs.
LEMMA JobsStep ==
  ASSUME JobsInv, [JobsNext]_jobsVars
  PROVE  JobsInv'
<1>1. ASSUME NEW c \in JobCalls, NEW j \in JobIds,
             \/ WriteRow(c, j) \/ CheckEnabled(c, j) \/ ReadRow(c, j) \/ ApplyArgs(c, j)
             \/ Register(c, j) \/ MakeProcess(c, j) \/ Started(c, j)
             \/ BeginStopOf(c, j) \/ Stopped(c, j)
      PROVE  JobsInv'
  BY <1>1, WriteRowKeeps, CheckEnabledKeeps, ReadRowKeeps, ApplyArgsKeeps, StartSteps,
     MakeProcessKeeps, StartedKeeps, StopSteps
<1>2. ASSUME NEW c \in JobCalls, TakeRunLock(c) \/ StartThrows(c) \/ ListRows(c) \/ SendList(c)
      PROVE  JobsInv'
  BY <1>2, StartSteps, ListRowsKeeps, SendListKeeps
<1>3. ASSUME NEW j \in JobIds, Halted(j) PROVE JobsInv'
  BY <1>3, StopSteps
<1>4. ASSUME UNCHANGED jobsVars PROVE JobsInv'
  BY <1>4, NothingOfJobs DEF jobsVars
<1>5. QED
  BY <1>1, <1>2, <1>3, <1>4, RequestsOfJobsMove DEF JobsNext

\* The inductive invariant holds for any runtimes, pages and requests at once.
THEOREM JobsInvCorrect == JobsSpec => []JobsInv
<1>1. ASSUME JobsInit PROVE JobsInv
  <2>1. /\ \A c \in JobCalls : jobCalls[c] = NoCall
        /\ \A j \in JobIds : jobProcs[j] = NoEntry
        /\ NoCall \in CallType /\ NoCall.pc = "idle" /\ NoCall.job = {}
        /\ NoEntry \in EntryType /\ NoEntry.state = "none"
    BY <1>1 DEF JobsInit, NoCall, NoEntry, CallType, EntryType, NewRow, RowType
  <2>2. JobsTypeOK
    <3>1. NewRow \in RowType /\ SavedRow(1) \in RowType
      BY DEF NewRow, SavedRow, RowType
    <3>2. jobRows \in [JobIds -> RowType]
      BY <1>1, <3>1 DEF JobsInit
    <3>3. jobProcs \in [JobIds -> EntryType] /\ jobCalls \in [JobCalls -> CallType]
      BY <1>1, <2>1 DEF JobsInit
    <3>4. QED
      BY <1>1, <3>2, <3>3 DEF JobsInit, JobsTypeOK
  <2>3. StartsApart /\ CreatesApart /\ CallsFit
    BY <2>1 DEF StartsApart, CreatesApart, Creates, CallsFit, FitsRows, InStart
  <2>4. NewUntouched /\ ArgsOnTheWay
    BY <1>1, <2>1 DEF JobsInit, NewUntouched, ArgsOnTheWay, IsEnabled
  <2>5. ListsOnTheWay /\ ListsRecent
    BY <1>1 DEF JobsInit, ListsOnTheWay, ListsRecent
  <2>6. QED
    BY <2>2, <2>3, <2>4, <2>5 DEF JobsInv
<1>2. QED
  BY <1>1, JobsStep, PTL DEF JobsSpec

\* Saves, starts, stops and lists of several pages interleave, and still a running script has
\* the arguments of its row, and each page the jobs as they are, when all is quiet, but for
\* the jobs that were missed.
THEOREM JobsAgreeCorrect == JobsSpec => []JobsAgree
<1>1. ASSUME JobsInv PROVE JobsAgree
  <2>1. Quiet => \A c \in JobCalls : jobCalls[c].pc = "idle"
    <3>1. NoCall.pc = "idle"
      BY DEF NoCall
    <3>2. QED
      BY <3>1 DEF Quiet
  <2>2. ArgsFollowRow
    BY <1>1, <2>1 DEF ArgsFollowRow, JobsInv, ArgsOnTheWay, Brings
  <2>3. PagesShowJobs
    BY <1>1, <2>1 DEF PagesShowJobs, JobsInv, JobsTypeOK, ListsRecent, ListsOnTheWay, Answering
  <2>4. QED
    BY <2>2, <2>3 DEF JobsAgree
<1>2. QED
  BY <1>1, JobsInvCorrect, PTL
-----------------------------------------------------------------------------
(* The page of a report.                                                   *)

ViewEvent == [report : Reports, version : Nat]

ViewTypeOK ==
  /\ saved \in [Reports -> Nat]
  /\ requests \in Seq(Reports)
  /\ events \in Seq(ViewEvent)
  /\ page \in Reports \cup {NoReport}
  /\ fetches \subseteq Reports

LEMMA EventTyped ==
  ASSUME ViewTypeOK, NEW i \in 1 .. Len(events)
  PROVE  events[i] \in ViewEvent /\ events[i].report \in Reports /\ events[i].version \in Nat
<1>1. events[i] \in ViewEvent
  BY ElementOfSeq DEF ViewTypeOK
<1>2. QED
  BY <1>1 DEF ViewEvent

AnswerAt(i, r) == events[i].report = r /\ events[i].version > 0
Announced(r, after) ==
  \E i \in 1 .. Len(events) : i > after /\ events[i].report = r /\ events[i].version = 0

\* Of the answers on their way one about report q is before any about r.
ComesFirst(q, r) ==
  \/ \E i \in 1 .. Len(events) : AnswerAt(i, q) /\ \A j \in 1 .. i : ~AnswerAt(j, r)
  \/ /\ \A j \in 1 .. Len(events) : ~AnswerAt(j, r)
     /\ \E i \in 1 .. Len(requests) : requests[i] = q /\ \A j \in 1 .. i : requests[j] # r

\* Whatever is fetched will be answered.
FetchesAnswered == \A r \in fetches : Coming(r)

\* An answer has the version that is saved, or the next save's announcement behind it.
AnswersRecent ==
  \A i \in 1 .. Len(events) :
    events[i].version > 0 =>
      events[i].version = saved[events[i].report] + 1 \/ Announced(events[i].report, i)

Shows(r) ==
  shown = IF saved[r] = 0 THEN NoReport ELSE [report |-> r, version |-> saved[r]]

\* What PageShowsLastReport becomes while answers and announcements are on their way.
PageFollows ==
  \A p \in Reports :
    page = p /\ listeners \subseteq {p} /\ p \notin late =>
      /\ p \in fetches => \A q \in fetches \ {p} : ComesFirst(q, p)
      /\ p \notin fetches => fetches = {} /\ (Shows(p) \/ Announced(p, 0))

ViewInv == ViewTypeOK /\ FetchesAnswered /\ AnswersRecent /\ PageFollows

\* A request is sent: what was on its way stays where it was.
LEMMA FetchKeeps ==
  ASSUME ViewTypeOK, NEW r \in Reports, requests' = Append(requests, r), events' = events
  PROVE  /\ requests' \in Seq(Reports)
         /\ Coming(r)' /\ \A q \in Reports : Coming(q) => Coming(q)'
         /\ \A q, p \in Reports : ComesFirst(q, p) => ComesFirst(q, p)'
         /\ \A q, p \in Reports : Coming(q) /\ ~Coming(p) => ComesFirst(q, p)'
<1>1. /\ requests' \in Seq(Reports) /\ Len(requests) \in Nat /\ Len(requests') = Len(requests) + 1
      /\ \A i \in 1 .. Len(requests) : requests'[i] = requests[i]
      /\ requests'[Len(requests) + 1] = r
  BY OneMore DEF ViewTypeOK
<1>2. Coming(r)' /\ \A q \in Reports : Coming(q) => Coming(q)'
  BY <1>1 DEF Coming
<1>3. ASSUME NEW q \in Reports, NEW p \in Reports, ComesFirst(q, p) PROVE ComesFirst(q, p)'
  BY <1>1, <1>3 DEF ComesFirst, AnswerAt
<1>4. ASSUME NEW q \in Reports, NEW p \in Reports, Coming(q), ~Coming(p) PROVE ComesFirst(q, p)
  <2>1. Len(events) \in Nat
    BY DEF ViewTypeOK
  <2>2. QED
    BY <1>1, <1>4, <2>1 DEF ComesFirst, AnswerAt, Coming
<1>5. QED
  BY <1>1, <1>2, <1>3, <1>4

\* An event is sent that is no answer.
LEMMA SaveKeeps ==
  ASSUME ViewInv, NEW r \in Reports, Save(r)
  PROVE  ViewInv'
<1> DEFINE event == [report |-> r, version |-> 0]
<1>1. /\ events' \in Seq(ViewEvent) /\ Len(events) \in Nat /\ Len(events') = Len(events) + 1
      /\ \A i \in 1 .. Len(events) : events'[i] = events[i]
      /\ events'[Len(events) + 1] = event
  <2>1. event \in ViewEvent
    BY DEF ViewEvent
  <2>2. QED
    BY <2>1, OneMore DEF ViewInv, ViewTypeOK, Save
<1>2. saved' \in [Reports -> Nat] /\ \A q \in Reports : q # r => saved'[q] = saved[q]
  BY DEF Save, ViewInv, ViewTypeOK
<1>3. UNCHANGED <<requests, page, shown, listeners, fetches, late>>
  BY DEF Save
<1>4. ViewTypeOK'
  BY <1>1, <1>2, <1>3 DEF ViewInv, ViewTypeOK
<1>5. FetchesAnswered'
  BY <1>1, <1>3 DEF ViewInv, FetchesAnswered, Coming
<1>6. Announced(r, 0)' /\ \A i \in 1 .. Len(events) : Announced(r, i)'
  BY <1>1 DEF Announced
<1>7. \A q \in Reports : \A i \in Nat : Announced(q, i) => Announced(q, i)'
  BY <1>1 DEF Announced
<1>8. AnswersRecent'
  <2> SUFFICES ASSUME NEW i \in 1 .. Len(events'), events'[i].version > 0
               PROVE  events'[i].version = saved'[events'[i].report] + 1 \/ Announced(events[i].report, i)'
    BY DEF AnswersRecent
  <2>1. i \in 1 .. Len(events) /\ events'[i] = events[i]
    BY <1>1
  <2>2. events[i].report \in Reports
    BY <2>1, EventTyped DEF ViewInv
  <2>3. QED
    BY <1>2, <1>6, <1>7, <2>1, <2>2 DEF ViewInv, AnswersRecent
<1>9. \A q, p \in Reports : ComesFirst(q, p) => ComesFirst(q, p)'
  BY SMTT(30), <1>1, <1>3 DEF ComesFirst, AnswerAt
<1>10. PageFollows'
  <2>1. ASSUME NEW q \in Reports, Shows(q) \/ Announced(q, 0)
        PROVE  Shows(q)' \/ Announced(q, 0)'
    <3>1. CASE q = r
      BY <1>6, <3>1
    <3>2. CASE q # r /\ Shows(q)
      BY <1>2, <1>3, <3>2 DEF Shows
    <3>3. CASE Announced(q, 0)
      BY <1>7, <3>3
    <3>4. QED
      BY <2>1, <3>1, <3>2, <3>3
  <2>2. QED
    BY <1>3, <1>9, <2>1 DEF ViewInv, ViewTypeOK, PageFollows
<1>11. QED
  BY <1>4, <1>5, <1>8, <1>10 DEF ViewInv

\* The gateway answers: the answer keeps the place of its request.
LEMMA AnswerKeeps ==
  ASSUME ViewInv, Answer
  PROVE  ViewInv'
<1> DEFINE r == Head(requests)
           event == [report |-> r, version |-> saved[r] + 1]
<1>1. /\ r \in Reports /\ r = requests[1]
      /\ requests' \in Seq(Reports) /\ Len(requests) \in Nat /\ Len(requests) > 0
      /\ Len(requests') = Len(requests) - 1
      /\ \A i \in 1 .. Len(requests) - 1 : requests'[i] = requests[i + 1]
  BY Rest DEF ViewInv, ViewTypeOK, Answer
<1>2. event \in ViewEvent /\ event.version > 0 /\ event.report = r /\ event.version = saved[r] + 1
  BY <1>1 DEF ViewInv, ViewTypeOK, ViewEvent
<1> HIDE DEF event
<1>3. /\ events' \in Seq(ViewEvent) /\ Len(events) \in Nat /\ Len(events') = Len(events) + 1
      /\ \A i \in 1 .. Len(events) : events'[i] = events[i]
      /\ events'[Len(events) + 1] = event
  BY <1>2, OneMore DEF ViewInv, ViewTypeOK, Answer, event
<1> HIDE DEF r
<1>4. UNCHANGED <<saved, page, shown, listeners, fetches, late>>
  BY DEF Answer
<1>5. ViewTypeOK'
  BY <1>1, <1>3, <1>4 DEF ViewInv, ViewTypeOK
<1>6. \A q \in Reports : Coming(q) => Coming(q)'
  <2> SUFFICES ASSUME NEW q \in Reports, Coming(q) PROVE Coming(q)'
    OBVIOUS
  <2>1. CASE \E i \in 1 .. Len(events) : events[i].report = q /\ events[i].version > 0
    BY <1>3, <2>1 DEF Coming
  <2>2. CASE q = r
    BY <1>2, <1>3, <2>2 DEF Coming
  <2>3. ASSUME NEW i \in 1 .. Len(requests), requests[i] = q, q # r PROVE Coming(q)'
    <3>1. i - 1 \in 1 .. Len(requests') /\ requests'[i - 1] = q
      BY <1>1, <2>3
    <3>2. QED
      BY <3>1 DEF Coming
  <2>4. QED
    BY <2>1, <2>2, <2>3 DEF Coming
<1>7. \A q \in Reports, i \in Nat : Announced(q, i) => Announced(q, i)'
  BY <1>3 DEF Announced
<1>8. AnswersRecent'
  <2> SUFFICES ASSUME NEW i \in 1 .. Len(events'), events'[i].version > 0
               PROVE  events'[i].version = saved[events'[i].report] + 1 \/ Announced(events[i].report, i)'
    BY <1>4 DEF AnswersRecent
  <2>1. CASE i \in 1 .. Len(events)
    <3>1. events[i].report \in Reports
      BY <2>1, EventTyped DEF ViewInv
    <3>2. QED
      BY <1>3, <1>7, <2>1, <3>1 DEF ViewInv, AnswersRecent
  <2>2. CASE i = Len(events) + 1
    BY <1>2, <1>3, <2>2
  <2>3. QED
    BY <1>3, <2>1, <2>2
<1>9. ASSUME NEW q \in Reports, NEW p \in Reports, ComesFirst(q, p), q # p PROVE ComesFirst(q, p)'
  <2>1. ASSUME NEW i \in 1 .. Len(events), AnswerAt(i, q), \A j \in 1 .. i : ~AnswerAt(j, p)
        PROVE  ComesFirst(q, p)'
    BY <1>3, <2>1 DEF ComesFirst, AnswerAt
  <2>2. ASSUME \A j \in 1 .. Len(events) : ~AnswerAt(j, p),
               NEW i \in 1 .. Len(requests), requests[i] = q, \A j \in 1 .. i : requests[j] # p
        PROVE  ComesFirst(q, p)'
    <3>1. r # p
      BY <1>1, <2>2
    <3>2. ASSUME NEW j \in 1 .. Len(events') PROVE ~AnswerAt(j, p)'
      <4>1. j \in 1 .. Len(events) \/ j = Len(events) + 1
        BY <1>3
      <4>2. CASE j \in 1 .. Len(events)
        BY <1>3, <2>2, <4>2 DEF AnswerAt
      <4>3. CASE j = Len(events) + 1
        BY <1>2, <1>3, <3>1, <4>3 DEF AnswerAt
      <4>4. QED
        BY <4>1, <4>2, <4>3
    <3>3. CASE q = r
      BY <1>2, <1>3, <3>2, <3>3 DEF ComesFirst, AnswerAt
    <3>4. CASE q # r
      <4>1. i - 1 \in 1 .. Len(requests') /\ requests'[i - 1] = q
        BY <1>1, <2>2, <3>4
      <4>2. \A j \in 1 .. i - 1 : requests'[j] # p
        BY <1>1, <2>2
      <4>3. QED
        BY <3>2, <4>1, <4>2 DEF ComesFirst
    <3>5. QED
      BY <3>3, <3>4
  <2>3. QED
    BY <1>9, <2>1, <2>2 DEF ComesFirst
<1>10. PageFollows'
  BY <1>4, <1>7, <1>9 DEF ViewInv, ViewTypeOK, PageFollows, Shows
<1>11. QED
  BY <1>4, <1>5, <1>6, <1>8, <1>10 DEF ViewInv, ViewTypeOK, FetchesAnswered

\* The first event is taken: what is about another report comes as it would.
LEMMA EventTaken ==
  ASSUME ViewTypeOK, events # <<>>, events' = Tail(events)
  PROVE  /\ events' \in Seq(ViewEvent) /\ Head(events) \in ViewEvent /\ Head(events) = events[1]
         /\ Len(events) \in Nat /\ Len(events) > 0 /\ Len(events') = Len(events) - 1
         /\ \A i \in 1 .. Len(events) - 1 : events'[i] = events[i + 1]
BY Rest DEF ViewTypeOK

\* The requests are those that were there, and perhaps more.
Longer ==
  /\ Len(requests) <= Len(requests')
  /\ \A i \in 1 .. Len(requests) : requests'[i] = requests[i]

\* What the events become when the first of them is taken.
LEMMA EventsShift ==
  ASSUME ViewInv, events # <<>>, events' = Tail(events), Len(requests') \in Nat
  PROVE  /\ \A r \in Reports : Announced(r, 0) /\ ~(Head(events).report = r /\ Head(events).version = 0)
                                 => Announced(r, 0)'
         /\ \A r \in Reports : Coming(r) /\ ~AnswerAt(1, r) /\ Longer => Coming(r)'
         /\ \A q, r \in Reports : ComesFirst(q, r) /\ ~AnswerAt(1, q) /\ Longer
                                    => ComesFirst(q, r)'
         /\ \A r \in Reports : AnswerAt(1, r) =>
              events[1].version = saved[r] + 1 \/ Announced(r, 0)'
         /\ saved' = saved => AnswersRecent'
<1>0. Len(requests) \in Nat
  BY LenProperties DEF ViewInv, ViewTypeOK
<1>1. /\ events' \in Seq(ViewEvent) /\ Head(events) \in ViewEvent /\ Head(events) = events[1]
      /\ Len(events) \in Nat /\ Len(events) > 0 /\ Len(events') = Len(events) - 1
      /\ \A i \in 1 .. Len(events) - 1 : events'[i] = events[i + 1]
  BY EventTaken DEF ViewInv
<1>2. \A i \in 1 .. Len(events) : i # 1 => i - 1 \in 1 .. Len(events') /\ events'[i - 1] = events[i]
  BY <1>1
<1>3. ASSUME NEW r \in Reports, NEW n \in Nat, Announced(r, n + 1) PROVE Announced(r, n)'
  <2>1. PICK i \in 1 .. Len(events) : i > n + 1 /\ events[i].report = r /\ events[i].version = 0
    BY <1>3 DEF Announced
  <2>2. i - 1 \in 1 .. Len(events') /\ events'[i - 1] = events[i] /\ i - 1 > n
    BY <1>1, <1>2, <2>1
  <2>3. QED
    BY <2>1, <2>2 DEF Announced
<1>4. ASSUME NEW r \in Reports, Announced(r, 0), ~(Head(events).report = r /\ Head(events).version = 0)
      PROVE  Announced(r, 0)'
  <2>1. PICK i \in 1 .. Len(events) : i > 0 /\ events[i].report = r /\ events[i].version = 0
    BY <1>4 DEF Announced
  <2>2. i > 1
    BY <1>1, <1>4, <2>1
  <2>3. Announced(r, 1)
    BY <2>1, <2>2 DEF Announced
  <2>4. QED
    BY <1>3, <2>3
<1>5. ASSUME NEW r \in Reports, Coming(r), ~AnswerAt(1, r), Longer PROVE Coming(r)'
  <2>1. ASSUME NEW i \in 1 .. Len(requests), requests[i] = r PROVE Coming(r)'
    <3>1. i \in 1 .. Len(requests') /\ requests'[i] = r
      BY <1>5, <1>0, <2>1 DEF Longer
    <3>2. QED
      BY <3>1 DEF Coming
  <2>2. ASSUME NEW i \in 1 .. Len(events), AnswerAt(i, r) PROVE Coming(r)'
    BY <1>2, <1>5, <2>2 DEF Coming, AnswerAt
  <2>3. QED
    BY <1>5, <2>1, <2>2 DEF Coming, AnswerAt
<1>6. ASSUME NEW q \in Reports, NEW r \in Reports, ComesFirst(q, r), ~AnswerAt(1, q), Longer
      PROVE  ComesFirst(q, r)'
  <2>1. ASSUME NEW i \in 1 .. Len(events), AnswerAt(i, q), \A j \in 1 .. i : ~AnswerAt(j, r)
        PROVE  ComesFirst(q, r)'
    <3>1. i # 1 /\ AnswerAt(i - 1, q)' /\ i - 1 \in 1 .. Len(events')
      BY <1>2, <1>6, <2>1 DEF AnswerAt
    <3>2. \A j \in 1 .. i - 1 : ~AnswerAt(j, r)'
      BY <1>1, <2>1 DEF AnswerAt
    <3>3. QED
      BY <3>1, <3>2 DEF ComesFirst
  <2>2. CASE /\ \A j \in 1 .. Len(events) : ~AnswerAt(j, r)
             /\ \E i \in 1 .. Len(requests) : requests[i] = q /\ \A j \in 1 .. i : requests[j] # r
    <3>1. \A j \in 1 .. Len(events') : ~AnswerAt(j, r)'
      BY <1>1, <2>2 DEF AnswerAt
    <3>2. PICK i \in 1 .. Len(requests) : requests[i] = q /\ \A j \in 1 .. i : requests[j] # r
      BY <2>2
    <3>3. i \in 1 .. Len(requests') /\ requests'[i] = q
      BY <1>0, <1>6, <3>2 DEF Longer
    <3>4. \A j \in 1 .. i : requests'[j] # r
      BY <1>0, <1>6, <3>2 DEF Longer
    <3>5. QED
      BY <3>1, <3>3, <3>4 DEF ComesFirst
  <2>3. QED
    BY <1>6, <2>1, <2>2 DEF ComesFirst
<1>7. ASSUME NEW r \in Reports, AnswerAt(1, r)
      PROVE  events[1].version = saved[r] + 1 \/ Announced(r, 0)'
  BY <1>1, <1>3, <1>7 DEF ViewInv, AnswersRecent, AnswerAt
<1>8. ASSUME saved' = saved PROVE AnswersRecent'
  <2> SUFFICES ASSUME NEW i \in 1 .. Len(events'), events'[i].version > 0
               PROVE  events'[i].version = saved[events'[i].report] + 1 \/ Announced(events[i].report, i)'
    BY <1>8 DEF AnswersRecent
  <2>1. i + 1 \in 1 .. Len(events) /\ events'[i] = events[i + 1] /\ i \in Nat
    BY <1>1
  <2>2. events[i + 1].report \in Reports
    BY <2>1, EventTyped DEF ViewInv
  <2>3. events[i + 1].version = saved[events[i + 1].report] + 1 \/ Announced(events[i + 1].report, i + 1)
    BY <2>1 DEF ViewInv, AnswersRecent
  <2>4. QED
    BY <1>3, <2>1, <2>2, <2>3
<1>9. QED
  BY <1>4, <1>5, <1>6, <1>7, <1>8

\* An event is taken: what its report's page needs is on its way, or was.
LEMMA HearUpdateKeeps ==
  ASSUME ViewInv, HearUpdate
  PROVE  ViewInv'
<1>0. PICK r \in Reports : r = Head(events).report
  BY EventTaken DEF ViewInv, ViewEvent, HearUpdate
<1>1. /\ events # <<>> /\ events' = Tail(events) /\ Head(events).version = 0
      /\ UNCHANGED <<saved, page, shown, listeners>>
  BY DEF HearUpdate
<1>2. /\ events' \in Seq(ViewEvent) /\ r = events[1].report /\ Head(events) = events[1]
      /\ \A q \in Reports : ~AnswerAt(1, q)
  <2>1. /\ events' \in Seq(ViewEvent) /\ Head(events) \in ViewEvent /\ Head(events) = events[1]
    BY <1>1, EventTaken DEF ViewInv
  <2>2. QED
    BY <1>0, <1>1, <2>1 DEF ViewEvent, AnswerAt
<1>3. requests \in Seq(Reports) /\ requests' \in Seq(Reports) /\ Len(requests') \in Nat /\ Longer
  <2>1. requests \in Seq(Reports) /\ Len(requests) \in Nat
    BY LenProperties DEF ViewInv, ViewTypeOK
  <2>2. CASE requests' = requests
    BY <2>1, <2>2 DEF Longer
  <2>3. CASE requests' = Append(requests, r)
    BY <1>2, <2>1, <2>3, OneMore DEF Longer
  <2>4. QED
    BY <2>2, <1>0, <2>3 DEF HearUpdate, Fetch
<1>4. AnswersRecent'
  BY <1>1, <1>3, EventsShift
<1>5. \A q \in Reports : Coming(q) => Coming(q)'
  BY <1>1, <1>2, <1>3, EventsShift
<1>6. \A q, p \in Reports : ComesFirst(q, p) => ComesFirst(q, p)'
  BY <1>1, <1>2, <1>3, EventsShift
<1>7. \A q \in Reports : q # r /\ Announced(q, 0) => Announced(q, 0)'
  BY <1>0, <1>1, <1>3, EventsShift
<1>8. CASE r \in listeners
  <2>1. fetches' = fetches \cup {r} /\ requests' = Append(requests, r) /\ late' = late
    BY <1>0, <1>8 DEF HearUpdate, Fetch
  <2>2. ViewTypeOK'
    BY <1>1, <1>2, <1>3, <2>1 DEF ViewInv, ViewTypeOK
  <2>3. FetchesAnswered'
    <3>1. Coming(r)'
      <4>1. Len(requests') \in 1 .. Len(requests') /\ requests'[Len(requests')] = r
        BY <1>2, <2>1, OneMore DEF ViewInv, ViewTypeOK
      <4>2. QED
        BY <4>1 DEF Coming
    <3>2. QED
      BY <1>5, <2>1, <3>1 DEF ViewInv, ViewTypeOK, FetchesAnswered
  <2>4. PageFollows'
    <3> SUFFICES ASSUME NEW p \in Reports, page = p, listeners \subseteq {p}, p \notin late
                 PROVE  p \in fetches' /\ \A q \in fetches' \ {p} : ComesFirst(q, p)'
      BY <1>1, <2>1 DEF PageFollows
    <3>1. r = p
      BY <1>8
    <3>2. QED
      BY <1>6, <2>1, <3>1 DEF ViewInv, ViewTypeOK, PageFollows
  <2>5. QED
    BY <1>4, <2>2, <2>3, <2>4 DEF ViewInv
<1>9. CASE r \notin listeners
  <2>1. late' = late \cup {r} /\ UNCHANGED <<fetches, requests>>
    BY <1>0, <1>9 DEF HearUpdate
  <2>2. ViewTypeOK'
    BY <1>1, <1>2, <2>1 DEF ViewInv, ViewTypeOK
  <2>3. FetchesAnswered'
    BY <1>5, <2>1 DEF ViewInv, ViewTypeOK, FetchesAnswered
  <2>4. PageFollows'
    <3> SUFFICES ASSUME NEW p \in Reports, page = p, listeners \subseteq {p}, p \notin late, p # r
                 PROVE  /\ p \in fetches => \A q \in fetches \ {p} : ComesFirst(q, p)'
                        /\ p \notin fetches => fetches = {} /\ (Shows(p)' \/ Announced(p, 0)')
      BY <1>1, <2>1 DEF PageFollows
    <3>1. Shows(p) => Shows(p)'
      BY <1>1 DEF Shows
    <3>2. QED
      BY <1>6, <1>7, <3>1 DEF ViewInv, ViewTypeOK, PageFollows
  <2>5. QED
    BY <1>4, <2>2, <2>3, <2>4 DEF ViewInv
<1>10. QED
  BY <1>8, <1>9

LEMMA TakeAnswerKeeps ==
  ASSUME ViewInv, TakeAnswer
  PROVE  ViewInv'
<1>0. PICK r \in Reports : r = Head(events).report
  BY EventTaken DEF ViewInv, ViewEvent, TakeAnswer
<1>1. /\ events # <<>> /\ events' = Tail(events) /\ Head(events).version > 0
      /\ UNCHANGED <<saved, requests, page, listeners, late>> /\ fetches' = fetches \ {r}
  BY <1>0 DEF TakeAnswer
<1>2. /\ events' \in Seq(ViewEvent) /\ r = events[1].report /\ Head(events) = events[1]
      /\ AnswerAt(1, r) /\ \A q \in Reports : q # r => ~AnswerAt(1, q)
      /\ events[1].version \in Nat /\ 1 \in 1 .. Len(events) /\ Len(events) \in Nat
  <2>1. /\ events' \in Seq(ViewEvent) /\ Head(events) \in ViewEvent /\ Head(events) = events[1]
        /\ Len(events) \in Nat /\ Len(events) > 0
    BY <1>1, EventTaken DEF ViewInv
  <2>2. QED
    BY <1>0, <1>1, <2>1 DEF ViewEvent, AnswerAt
<1>3. Len(requests') \in Nat /\ Longer
  <2>1. Len(requests) \in Nat
    BY LenProperties DEF ViewInv, ViewTypeOK
  <2>2. QED
    BY <1>1, <2>1 DEF Longer
<1>4. AnswersRecent' /\ (events[1].version = saved[r] + 1 \/ Announced(r, 0)')
  BY <1>1, <1>2, <1>3, EventsShift
<1>5. \A q \in Reports : q # r /\ Coming(q) => Coming(q)'
  BY <1>1, <1>2, <1>3, EventsShift
<1>6. \A q, p \in Reports : q # r /\ ComesFirst(q, p) => ComesFirst(q, p)'
  BY <1>1, <1>2, <1>3, EventsShift
<1>7. \A q \in Reports : Announced(q, 0) => Announced(q, 0)'
  BY <1>1, <1>3, EventsShift
<1>8. \A q \in Reports : ~ComesFirst(q, r) \/ q = r
  BY <1>2 DEF ComesFirst, AnswerAt
<1>9. ViewTypeOK'
  BY <1>1, <1>2 DEF ViewInv, ViewTypeOK
<1>10. FetchesAnswered'
  BY <1>1, <1>5 DEF ViewInv, ViewTypeOK, FetchesAnswered
<1>11. PageFollows'
  <2> SUFFICES ASSUME NEW p \in Reports, page = p, listeners \subseteq {p}, p \notin late
               PROVE  /\ p \in fetches' => \A q \in fetches' \ {p} : ComesFirst(q, p)'
                      /\ p \notin fetches' => fetches' = {} /\ (Shows(p)' \/ Announced(p, 0)')
    BY <1>1 DEF PageFollows
  <2>1. p \in Reports /\ fetches \subseteq Reports
    BY DEF ViewInv, ViewTypeOK
  <2>2. CASE p \in fetches /\ p # r
    BY <1>1, <1>6, <2>1, <2>2 DEF ViewInv, PageFollows
  <2>3. CASE p \in fetches /\ p = r
    <3>1. fetches' = {}
      BY <1>1, <1>8, <2>1, <2>3 DEF ViewInv, PageFollows
    <3>2. shown' = IF events[1].version = 1 THEN NoReport
                   ELSE [report |-> r, version |-> events[1].version - 1]
      BY <1>0, <1>2, <2>3 DEF TakeAnswer
    <3>3. saved[r] \in Nat
      BY <1>2 DEF ViewInv, ViewTypeOK
    <3>4. Shows(p)' \/ Announced(p, 0)'
      <4>1. CASE events[1].version = saved[r] + 1
        BY <1>1, <2>3, <3>2, <3>3, <4>1 DEF Shows
      <4>2. CASE Announced(r, 0)'
        BY <2>3, <4>2
      <4>3. QED
        BY <1>4, <4>1, <4>2
    <3>5. QED
      BY <3>1, <3>4
  <2>4. CASE p \notin fetches
    <3>1. fetches = {} /\ (Shows(p) \/ Announced(p, 0))
      BY <2>4 DEF ViewInv, PageFollows
    <3>2. shown' = shown
      BY <3>1 DEF TakeAnswer
    <3>3. Shows(p) => Shows(p)'
      BY <1>1, <3>2 DEF Shows
    <3>4. QED
      BY <1>1, <1>7, <2>1, <3>1, <3>3
  <2>5. QED
    BY <2>2, <2>3, <2>4
<1>12. QED
  BY <1>4, <1>9, <1>10, <1>11 DEF ViewInv

LEMMA OpenPageKeeps ==
  ASSUME ViewInv, NEW r \in Reports, OpenPage(r)
  PROVE  ViewInv'
<1>1. /\ page' = r /\ fetches' = fetches \cup {r} /\ requests' = Append(requests, r)
      /\ late' = IF Coming(r) /\ fetches \ {r} # {} THEN late \cup {r} ELSE late \ {r}
      /\ UNCHANGED <<saved, events, listeners>>
  BY DEF OpenPage, Fetch
<1>2. /\ requests' \in Seq(Reports) /\ Coming(r)' /\ \A q \in Reports : Coming(q) => Coming(q)'
      /\ \A q, p \in Reports : Coming(q) /\ ~Coming(p) => ComesFirst(q, p)'
  BY <1>1, FetchKeeps DEF ViewInv
<1>3. ViewTypeOK'
  BY <1>1, <1>2 DEF ViewInv, ViewTypeOK
<1>4. FetchesAnswered'
  BY <1>1, <1>2 DEF ViewInv, ViewTypeOK, FetchesAnswered
<1>5. AnswersRecent'
  BY <1>1 DEF ViewInv, AnswersRecent, Announced
<1>6. PageFollows'
  <2>1. ASSUME r \notin late', NEW q \in fetches \ {r} PROVE ComesFirst(q, r)'
    <3>1. ~Coming(r) /\ q \in Reports /\ Coming(q)
      BY <1>1, <2>1 DEF ViewInv, ViewTypeOK, FetchesAnswered
    <3>2. QED
      BY <1>2, <3>1
  <2>2. QED
    BY <1>1, <2>1 DEF PageFollows
<1>7. QED
  BY <1>3, <1>4, <1>5, <1>6 DEF ViewInv

LEMMA ViewStep == ViewInv /\ [ViewNext]_viewVars => ViewInv'
<1> SUFFICES ASSUME ViewInv, [ViewNext]_viewVars PROVE ViewInv'
  OBVIOUS
<1> USE DEF ViewInv
<1>1. CASE \E r \in Reports : OpenPage(r) \/ Save(r)
  BY <1>1, OpenPageKeeps, SaveKeeps
<1>2. ASSUME NEW r \in Reports, FetchTimesOut(r) PROVE ViewInv'
  <2>1. fetches' = fetches \ {r} /\ late' = late \cup {r}
        /\ UNCHANGED <<saved, requests, events, page, shown, listeners>>
    BY <1>2 DEF FetchTimesOut
  <2>2. ViewTypeOK' /\ FetchesAnswered'
    BY <2>1 DEF ViewTypeOK, FetchesAnswered, Coming
  <2>3. AnswersRecent'
    BY <2>1 DEF AnswersRecent, Announced
  <2>4. \A q, p \in Reports : ComesFirst(q, p) => ComesFirst(q, p)'
    BY <2>1 DEF ComesFirst, AnswerAt
  <2>5. PageFollows'
    BY <2>1, <2>4 DEF ViewTypeOK, PageFollows, Shows, Announced
  <2>6. QED
    BY <2>2, <2>3, <2>5
<1>3. CASE ClosePage \/ SubscribeUpdate \/ UNCHANGED viewVars
  <2>1. /\ UNCHANGED <<saved, requests, events, shown, fetches, late>>
        /\ \/ page' = NoReport /\ listeners' = listeners
           \/ page' = page /\ listeners' \in {listeners, listeners \cup {page}}
    BY <1>3 DEF ClosePage, SubscribeUpdate, viewVars
  <2>2. ViewTypeOK' /\ FetchesAnswered'
    BY <2>1 DEF ViewTypeOK, FetchesAnswered, Coming
  <2>3. AnswersRecent'
    BY <2>1 DEF AnswersRecent, Announced
  <2>4. \A q, p \in Reports : ComesFirst(q, p) => ComesFirst(q, p)'
    BY <2>1 DEF ComesFirst, AnswerAt
  <2>5. PageFollows'
    BY <2>1, <2>4, ViewAssumption DEF ViewTypeOK, PageFollows, Shows, Announced
  <2>6. QED
    BY <2>2, <2>3, <2>5
<1>4. QED
  BY <1>1, <1>2, <1>3, AnswerKeeps, HearUpdateKeeps, TakeAnswerKeeps DEF ViewNext

\* The inductive invariant holds for any reports, saves and pages.
THEOREM ViewInvCorrect == ViewSpec => []ViewInv
<1>1. ViewInit => ViewInv
  BY ViewAssumption DEF ViewInit, ViewInv, ViewTypeOK, FetchesAnswered, AnswersRecent, PageFollows
<1>2. QED
  BY <1>1, ViewStep, PTL DEF ViewSpec

\* Fetches, announcements, time-outs and pages that come and go interleave, and a page ends
\* up with the report that was last saved, but for what PageShowsLastReport excludes.
THEOREM PageShowsLastCorrect == ViewSpec => []PageShowsLastReport
<1>1. ViewInv => PageShowsLastReport
  BY DEF ViewInv, ViewTypeOK, PageFollows, PageShowsLastReport, Shows, Announced
<1>2. QED
  BY <1>1, ViewInvCorrect, PTL

-----------------------------------------------------------------------------
(* The log of a script.                                                    *)

Increasing(s) == \A i, j \in 1 .. Len(s) : i < j => s[i] < s[j]
Below(s, t) == \A x \in ToSet(s), y \in ToSet(t) : x < y
UpTo(s, n) == \A x \in ToSet(s) : x <= n

\* The members of a sequence, whatever is done with it.
LEMMA SetOf ==
  ASSUME NEW s \in Seq(Nat)
  PROVE  ToSet(s) \subseteq Nat /\ ToSet(s) = {s[i] : i \in 1 .. Len(s)} /\ Len(s) \in Nat
<1>1. s \in [1 .. Len(s) -> Nat] /\ DOMAIN s = 1 .. Len(s) /\ Len(s) \in Nat
  BY LenProperties
<1>2. QED
  BY <1>1 DEF ToSet

LEMMA SetOfAppend ==
  ASSUME NEW s \in Seq(Nat), NEW n \in Nat
  PROVE  /\ Append(s, n) \in Seq(Nat) /\ ToSet(Append(s, n)) = ToSet(s) \cup {n}
         /\ Increasing(s) /\ (\A x \in ToSet(s) : x < n) => Increasing(Append(s, n))
<1>1. /\ Append(s, n) \in Seq(Nat) /\ Len(s) \in Nat /\ Len(Append(s, n)) = Len(s) + 1
      /\ \A i \in 1 .. Len(s) : Append(s, n)[i] = s[i]
      /\ Append(s, n)[Len(s) + 1] = n
  BY OneMore
<1>2. \A i \in 1 .. Len(s) : s[i] \in ToSet(s)
  BY SetOf
<1> DEFINE a == Append(s, n)
<1> HIDE DEF a
<1>3. ToSet(a) = ToSet(s) \cup {n}
  <2>1. ToSet(a) = {a[i] : i \in 1 .. Len(a)} /\ ToSet(s) = {s[i] : i \in 1 .. Len(s)}
    BY <1>1, SetOf DEF a
  <2>2. \A i \in 1 .. Len(a) : i \in 1 .. Len(s) \/ i = Len(s) + 1
    BY <1>1 DEF a
  <2>3. \A i \in 1 .. Len(s) : i \in 1 .. Len(a)
    BY <1>1 DEF a
  <2>4. Len(s) + 1 \in 1 .. Len(a)
    BY <1>1 DEF a
  <2>5. QED
    BY <1>1, <2>1, <2>2, <2>3, <2>4 DEF a
<1>4. ASSUME Increasing(s), \A x \in ToSet(s) : x < n PROVE Increasing(a)
  BY <1>1, <1>2, <1>4 DEF Increasing, a
<1>5. QED
  BY <1>1, <1>3, <1>4 DEF a

LEMMA SetOfConcat ==
  ASSUME NEW s \in Seq(Nat), NEW t \in Seq(Nat)
  PROVE  /\ s \o t \in Seq(Nat) /\ ToSet(s \o t) = ToSet(s) \cup ToSet(t)
         /\ Increasing(s) /\ Increasing(t) /\ Below(s, t) => Increasing(s \o t)
<1> DEFINE c == s \o t
<1>1. /\ c \in Seq(Nat) /\ Len(s) \in Nat /\ Len(t) \in Nat /\ Len(c) = Len(s) + Len(t)
      /\ \A i \in 1 .. Len(c) : c[i] = IF i <= Len(s) THEN s[i] ELSE t[i - Len(s)]
  BY ConcatProperties
<1>2. /\ ToSet(c) = {c[i] : i \in 1 .. Len(c)} /\ ToSet(s) = {s[i] : i \in 1 .. Len(s)}
      /\ ToSet(t) = {t[i] : i \in 1 .. Len(t)} /\ ToSet(s) \subseteq Nat /\ ToSet(t) \subseteq Nat
  BY <1>1, SetOf
<1> HIDE DEF c
<1>3. \A i \in 1 .. Len(s) : i \in 1 .. Len(c) /\ c[i] = s[i]
  BY <1>1
<1>4. ASSUME NEW i \in 1 .. Len(t) PROVE i + Len(s) \in 1 .. Len(c) /\ c[i + Len(s)] = t[i]
  <2>1. i + Len(s) \in 1 .. Len(c) /\ ~(i + Len(s) <= Len(s)) /\ (i + Len(s)) - Len(s) = i
    BY <1>1
  <2>2. QED
    BY <1>1, <2>1
<1>5. \A i \in 1 .. Len(c) : \/ i \in 1 .. Len(s) /\ c[i] = s[i]
                             \/ i - Len(s) \in 1 .. Len(t) /\ c[i] = t[i - Len(s)]
  BY <1>1
<1>6. ToSet(c) = ToSet(s) \cup ToSet(t)
  <2>1. ToSet(c) \subseteq ToSet(s) \cup ToSet(t)
    BY <1>2, <1>5
  <2>2. ToSet(s) \subseteq ToSet(c) /\ ToSet(t) \subseteq ToSet(c)
    BY <1>2, <1>3, <1>4
  <2>3. QED
    BY <2>1, <2>2
<1>7. ASSUME Increasing(s), Increasing(t), Below(s, t) PROVE Increasing(c)
  <2> SUFFICES ASSUME NEW i \in 1 .. Len(c), NEW j \in 1 .. Len(c), i < j PROVE c[i] < c[j]
    BY DEF Increasing
  <2>1. CASE j \in 1 .. Len(s)
    BY <1>1, <1>3, <1>7, <2>1 DEF Increasing
  <2>2. CASE i \in 1 .. Len(s) /\ j - Len(s) \in 1 .. Len(t) /\ c[j] = t[j - Len(s)]
    BY <1>2, <1>3, <1>7, <2>2 DEF Below
  <2>3. CASE /\ i - Len(s) \in 1 .. Len(t) /\ c[i] = t[i - Len(s)]
             /\ j - Len(s) \in 1 .. Len(t) /\ c[j] = t[j - Len(s)]
    <3>1. i - Len(s) < j - Len(s)
      BY <1>1
    <3>2. QED
      BY <1>7, <2>3, <3>1 DEF Increasing
  <2>4. QED
    BY <1>1, <1>5, <2>1, <2>2, <2>3
<1>8. QED
  BY <1>1, <1>6, <1>7 DEF c

LEMMA SetOfRest ==
  ASSUME NEW s \in Seq(Nat), s # <<>>
  PROVE  /\ Head(s) \in Nat /\ Tail(s) \in Seq(Nat) /\ ToSet(s) = ToSet(Tail(s)) \cup {Head(s)}
         /\ Increasing(s) => Increasing(Tail(s)) /\ \A x \in ToSet(Tail(s)) : Head(s) < x
<1> DEFINE t == Tail(s)
<1>1. /\ Head(s) \in Nat /\ Head(s) = s[1] /\ t \in Seq(Nat)
      /\ Len(s) \in Nat /\ Len(s) > 0 /\ Len(t) = Len(s) - 1
      /\ \A i \in 1 .. Len(s) - 1 : t[i] = s[i + 1]
  BY Rest
<1>2. /\ ToSet(s) = {s[i] : i \in 1 .. Len(s)} /\ ToSet(t) = {t[i] : i \in 1 .. Len(t)}
  BY <1>1, SetOf
<1> HIDE DEF t
<1>3. \A i \in 1 .. Len(t) : i + 1 \in 1 .. Len(s) /\ t[i] = s[i + 1] /\ 1 < i + 1
  BY <1>1
<1>4. \A i \in 1 .. Len(s) : i = 1 \/ (i - 1 \in 1 .. Len(t) /\ t[i - 1] = s[i])
  BY <1>1
<1>5. ToSet(s) = ToSet(t) \cup {s[1]}
  <2>1. 1 \in 1 .. Len(s)
    BY <1>1
  <2>2. ToSet(s) \subseteq ToSet(t) \cup {s[1]}
    BY <1>2, <1>4
  <2>3. ToSet(t) \subseteq ToSet(s) /\ s[1] \in ToSet(s)
    BY <1>2, <1>3, <2>1
  <2>4. QED
    BY <2>2, <2>3
<1>6. ASSUME Increasing(s) PROVE Increasing(t) /\ \A x \in ToSet(t) : s[1] < x
  <2>1. Increasing(t)
    <3> SUFFICES ASSUME NEW i \in 1 .. Len(t), NEW j \in 1 .. Len(t), i < j PROVE t[i] < t[j]
      BY DEF Increasing
    <3>1. i + 1 < j + 1
      BY <1>1
    <3>2. QED
      BY <1>3, <1>6, <3>1 DEF Increasing
  <2>2. 1 \in 1 .. Len(s)
    BY <1>1
  <2>3. QED
    BY <1>2, <1>3, <1>6, <2>1, <2>2 DEF Increasing
<1>7. QED
  BY <1>1, <1>5, <1>6 DEF t

PushType == [log : Logs, set : BOOLEAN, lines : Seq(Nat)]

LogTypeOK ==
  /\ lines \in Nat
  /\ transport \in [Logs -> Seq(Nat)] /\ file \in [Logs -> Seq(Nat)] /\ view \in [Logs -> Seq(Nat)]
  /\ asking \in Seq(Logs)
  /\ pushed \in Seq(PushType)
  /\ open \in Logs \cup {NoLogs}
  /\ gone \in [Logs -> SUBSET Nat]

\* A line is in the file before those that are still in the transport.
LinesInOrder ==
  \A l \in Logs :
    /\ Increasing(file[l]) /\ Increasing(transport[l]) /\ Increasing(view[l])
    /\ Below(file[l], transport[l])
    /\ UpTo(file[l], lines) /\ UpTo(transport[l], lines) /\ UpTo(view[l], lines)

\* The lines of an event are newer than all that the view will have got by then.
PushedInOrder ==
  \A i \in 1 .. Len(pushed) :
    /\ Increasing(pushed[i].lines) /\ UpTo(pushed[i].lines, lines)
    /\ ~pushed[i].set =>
         /\ Below(view[pushed[i].log], pushed[i].lines)
         /\ \A j \in 1 .. Len(pushed) :
              j < i /\ pushed[j].log = pushed[i].log => Below(pushed[j].lines, pushed[i].lines)

SetsLog(i, l) == pushed[i].log = l /\ pushed[i].set

\* Of a line: it was lost, or it is on its way or in the view with no answer behind it.
Covered(l, x) ==
  \/ x \in gone[l]
  \/ \E i \in 1 .. Len(pushed) :
       /\ pushed[i].log = l /\ x \in ToSet(pushed[i].lines)
       /\ \A j \in 1 .. Len(pushed) : i < j => ~SetsLog(j, l)
  \/ x \in ToSet(view[l]) /\ \A j \in 1 .. Len(pushed) : ~SetsLog(j, l)

LinesCovered == \A l \in Logs : \A x \in ToSet(file[l]) \cup ToSet(transport[l]) : Covered(l, x)

LogInv == LogTypeOK /\ LinesInOrder /\ PushedInOrder /\ LinesCovered

LEMMA PushTyped ==
  ASSUME LogTypeOK, NEW i \in 1 .. Len(pushed)
  PROVE  pushed[i].log \in Logs /\ pushed[i].set \in BOOLEAN /\ pushed[i].lines \in Seq(Nat)
<1>1. pushed[i] \in PushType
  BY ElementOfSeq DEF LogTypeOK
<1>2. QED
  BY <1>1 DEF PushType

\* A message is put behind those that are on their way.
LEMMA PushKeeps ==
  ASSUME LogInv, NEW m \in PushType, pushed' = Append(pushed, m), view' = view,
         lines' \in Nat, lines <= lines',
         Increasing(m.lines), UpTo(m.lines, lines'),
         ~m.set => \A x \in ToSet(m.lines) : x > lines
  PROVE  /\ pushed' \in Seq(PushType) /\ PushedInOrder'
         /\ \A l \in Logs : \A x \in ToSet(m.lines) : m.log = l => Covered(l, x)'
         /\ \A l \in Logs, x \in Nat : Covered(l, x) /\ gone'[l] = gone[l] /\ ~(m.log = l /\ m.set)
                                        => Covered(l, x)'
<1>1. /\ pushed' \in Seq(PushType) /\ Len(pushed) \in Nat /\ Len(pushed') = Len(pushed) + 1
      /\ \A i \in 1 .. Len(pushed) : pushed'[i] = pushed[i]
      /\ pushed'[Len(pushed) + 1] = m
  BY OneMore DEF LogInv, LogTypeOK
<1>2. m.log \in Logs /\ m.set \in BOOLEAN /\ m.lines \in Seq(Nat) /\ ToSet(m.lines) \subseteq Nat
  <2>1. m.log \in Logs /\ m.set \in BOOLEAN /\ m.lines \in Seq(Nat)
    BY DEF PushType
  <2>2. QED
    BY <2>1, SetOf
<1>3. \A i \in 1 .. Len(pushed') : i \in 1 .. Len(pushed) \/ i = Len(pushed) + 1
  BY <1>1
<1>4. \A i \in 1 .. Len(pushed) : ToSet(pushed[i].lines) \subseteq Nat
  BY PushTyped, SetOf DEF LogInv
<1>5. \A l \in Logs : ToSet(view[l]) \subseteq Nat
  BY SetOf DEF LogInv, LogTypeOK
<1>6. PushedInOrder'
  <2> SUFFICES ASSUME NEW i \in 1 .. Len(pushed')
               PROVE  /\ Increasing(pushed'[i].lines) /\ UpTo(pushed'[i].lines, lines')
                      /\ ~pushed'[i].set =>
                           /\ Below(view[pushed'[i].log], pushed'[i].lines)
                           /\ \A j \in 1 .. Len(pushed') :
                                j < i /\ pushed'[j].log = pushed'[i].log
                                  => Below(pushed'[j].lines, pushed'[i].lines)
    BY DEF PushedInOrder, Below, UpTo, Increasing
  <2>1. CASE i \in 1 .. Len(pushed)
    <3>1. pushed'[i] = pushed[i]
      BY <1>1, <2>1
    <3>2. \A j \in 1 .. Len(pushed') : j < i => j \in 1 .. Len(pushed) /\ pushed'[j] = pushed[j]
      BY <1>1, <2>1
    <3>3. UpTo(pushed[i].lines, lines')
      <4>1. UpTo(pushed[i].lines, lines)
        BY <2>1 DEF LogInv, PushedInOrder
      <4>2. lines \in Nat /\ ToSet(pushed[i].lines) \subseteq Nat
        BY <1>4, <2>1 DEF LogInv, LogTypeOK
      <4>3. QED
        BY <4>1, <4>2 DEF UpTo
    <3>4. QED
      BY <2>1, <3>1, <3>2, <3>3 DEF LogInv, PushedInOrder
  <2>2. CASE i = Len(pushed) + 1
    <3>1. pushed'[i] = m
      BY <1>1, <2>2
    <3>2. ASSUME ~m.set, NEW s, ToSet(s) \subseteq Nat, UpTo(s, lines) PROVE Below(s, m.lines)
      BY <1>2, <3>2 DEF Below, UpTo, LogInv, LogTypeOK
    <3>3. ~m.set => Below(view[m.log], m.lines)
      BY <1>2, <1>5, <3>2 DEF LogInv, LinesInOrder
    <3>4. ~m.set => \A j \in 1 .. Len(pushed) : Below(pushed[j].lines, m.lines)
      BY <1>4, <3>2 DEF LogInv, PushedInOrder
    <3>5. \A j \in 1 .. Len(pushed') : j < i => j \in 1 .. Len(pushed) /\ pushed'[j] = pushed[j]
      BY <1>1, <2>2
    <3>6. QED
      BY <3>1, <3>3, <3>4, <3>5
  <2>3. QED
    BY <1>3, <2>1, <2>2
<1>7. ASSUME NEW l \in Logs, NEW x \in ToSet(m.lines), m.log = l PROVE Covered(l, x)'
  <2>1. /\ Len(pushed) + 1 \in 1 .. Len(pushed')
        /\ \A j \in 1 .. Len(pushed') : ~(Len(pushed) + 1 < j)
    BY <1>1
  <2>2. QED
    BY <1>1, <1>7, <2>1 DEF Covered
<1>8. ASSUME NEW l \in Logs, NEW x \in Nat, Covered(l, x), gone'[l] = gone[l], ~(m.log = l /\ m.set)
      PROVE  Covered(l, x)'
  <2>1. \A j \in 1 .. Len(pushed') : SetsLog(j, l)' => j \in 1 .. Len(pushed) /\ SetsLog(j, l)
    BY <1>1, <1>3, <1>8 DEF SetsLog
  <2>2. CASE x \in gone[l]
    BY <1>8, <2>2 DEF Covered
  <2>3. CASE x \in ToSet(view[l]) /\ \A j \in 1 .. Len(pushed) : ~SetsLog(j, l)
    BY <2>1, <2>3 DEF Covered
  <2>4. ASSUME NEW i \in 1 .. Len(pushed), pushed[i].log = l, x \in ToSet(pushed[i].lines),
               \A j \in 1 .. Len(pushed) : i < j => ~SetsLog(j, l)
        PROVE  Covered(l, x)'
    <3>1. i \in 1 .. Len(pushed') /\ pushed'[i] = pushed[i]
      BY <1>1
    <3>2. QED
      BY <2>1, <2>4, <3>1 DEF Covered
  <2>5. QED
    BY <1>8, <2>2, <2>3, <2>4 DEF Covered
<1>9. QED
  BY <1>1, <1>6, <1>7, <1>8

\* A new line goes to the transport or nowhere, and is on its way or given up.
LEMMA LineKeeps ==
  ASSUME LogInv, NEW l \in Logs, NEW n \in Nat, n = lines + 1, lines' = n,
         transport' = transport \/ transport' = [transport EXCEPT ![l] = Append(@, n)],
         UNCHANGED <<file, asking, view, open>>,
         pushed' \in Seq(PushType), PushedInOrder', gone' \in [Logs -> SUBSET Nat],
         Covered(l, n)', \A k \in Logs, x \in Nat : Covered(k, x) => Covered(k, x)'
  PROVE  LogInv'
<1>1. lines \in Nat /\ lines' = n /\ n > lines
  BY DEF LogInv, LogTypeOK
<1>2. /\ \A k \in Logs : k # l => transport'[k] = transport[k]
      /\ transport'[l] = transport[l] \/ transport'[l] = Append(transport[l], n)
      /\ transport[l] \in Seq(Nat) /\ UpTo(transport[l], lines)
  BY DEF LogInv, LogTypeOK, LinesInOrder
<1>3. /\ Append(transport[l], n) \in Seq(Nat) /\ ToSet(Append(transport[l], n)) = ToSet(transport[l]) \cup {n}
      /\ Increasing(Append(transport[l], n))
  <2>1. \A x \in ToSet(transport[l]) : x < n
    BY <1>1, <1>2, SetOf DEF UpTo
  <2>2. QED
    BY <1>1, <1>2, <2>1, SetOfAppend DEF LogInv, LinesInOrder
<1>4. LogTypeOK'
  <2>1. transport' \in [Logs -> Seq(Nat)]
    BY <1>3 DEF LogInv, LogTypeOK
  <2>2. QED
    BY <1>1, <2>1 DEF LogInv, LogTypeOK
<1>5. LinesInOrder'
  <2> SUFFICES ASSUME NEW k \in Logs
               PROVE  /\ Increasing(file[k]) /\ Increasing(transport'[k]) /\ Increasing(view[k])
                      /\ Below(file[k], transport'[k])
                      /\ UpTo(file[k], n) /\ UpTo(transport'[k], n) /\ UpTo(view[k], n)
    BY <1>1 DEF LinesInOrder, Increasing, Below, UpTo
  <2>1. /\ Increasing(file[k]) /\ Increasing(transport[k]) /\ Increasing(view[k])
        /\ Below(file[k], transport[k])
        /\ UpTo(file[k], lines) /\ UpTo(transport[k], lines) /\ UpTo(view[k], lines)
    BY DEF LogInv, LinesInOrder
  <2>2. ToSet(file[k]) \subseteq Nat /\ ToSet(transport[k]) \subseteq Nat /\ ToSet(view[k]) \subseteq Nat
    BY SetOf DEF LogInv, LogTypeOK
  <2>3. UpTo(file[k], n) /\ UpTo(transport[k], n) /\ UpTo(view[k], n)
    BY <1>1, <2>1, <2>2 DEF UpTo
  <2>4. CASE transport'[k] = transport[k]
    BY <2>1, <2>3, <2>4
  <2>5. CASE k = l /\ transport'[l] = Append(transport[l], n)
    <3>1. UpTo(transport'[k], n) /\ Below(file[k], transport'[k])
      BY <1>1, <1>3, <2>1, <2>2, <2>3, <2>5 DEF UpTo, Below
    <3>2. QED
      BY <1>3, <2>1, <2>3, <2>5, <3>1
  <2>6. QED
    BY <1>2, <2>4, <2>5
<1>6. LinesCovered'
  <2> SUFFICES ASSUME NEW k \in Logs, NEW x \in ToSet(file[k]) \cup ToSet(transport'[k])
               PROVE  Covered(k, x)'
    BY DEF LinesCovered, ToSet
  <2>1. CASE x \in ToSet(file[k]) \cup ToSet(transport[k])
    <3>1. x \in Nat /\ Covered(k, x)
      BY <2>1, SetOf DEF LogInv, LogTypeOK, LinesCovered
    <3>2. QED
      BY <3>1
  <2>2. CASE k = l /\ x = n
    BY <2>2
  <2>3. x \in ToSet(transport'[k]) => x \in ToSet(transport[k]) \/ (k = l /\ x = n)
    <3>1. CASE transport'[k] = transport[k]
      BY <3>1
    <3>2. CASE k = l /\ transport'[k] = Append(transport[k], n)
      BY <1>3, <3>2
    <3>3. QED
      BY <1>2, <3>1, <3>2
  <2>4. QED
    BY <2>1, <2>2, <2>3
<1>7. QED
  BY <1>4, <1>5, <1>6 DEF LogInv

LEMMA LogKeeps ==
  ASSUME LogInv, NEW l \in Logs, Log(l)
  PROVE  LogInv'
<1>0. PICK n \in Nat : n = lines + 1
  BY DEF LogInv, LogTypeOK
<1> DEFINE m == [log |-> l, set |-> FALSE, lines |-> <<n>>]
<1>1. lines \in Nat /\ lines' = n /\ n > lines
  BY <1>0 DEF LogInv, LogTypeOK, Log
<1>2. /\ <<n>> \in Seq(Nat) /\ ToSet(<<n>>) = {n} /\ Increasing(<<n>>)
  <2>1. <<n>> \in Seq(Nat) /\ Len(<<n>>) = 1 /\ <<n>>[1] = n
    BY <1>1
  <2>2. ASSUME NEW s \in Seq(Nat), Len(s) = 1 PROVE ToSet(s) = {s[1]} /\ Increasing(s)
    <3>1. ToSet(s) = {s[i] : i \in 1 .. 1}
      BY <2>2, SetOf
    <3>2. \A i \in 1 .. 1 : i = 1
      OBVIOUS
    <3>3. QED
      BY <2>2, <3>1, <3>2 DEF Increasing
  <2>3. QED
    BY <2>1, <2>2
<1>3. m \in PushType /\ m.log = l /\ ~m.set /\ m.lines = <<n>>
  BY <1>2 DEF PushType
<1>4. pushed' = Append(pushed, m) /\ UNCHANGED <<file, asking, view, open, gone>>
  BY <1>1 DEF Log
<1>5. transport' = transport \/ transport' = [transport EXCEPT ![l] = Append(@, n)]
  BY <1>1 DEF Log
<1> HIDE DEF m
<1>6. /\ pushed' \in Seq(PushType) /\ PushedInOrder'
      /\ Covered(l, n)'
      /\ \A k \in Logs, x \in Nat : Covered(k, x) => Covered(k, x)'
  <2>1. /\ Increasing(m.lines) /\ UpTo(m.lines, lines')
        /\ \A x \in ToSet(m.lines) : x > lines
    BY <1>1, <1>2, <1>3 DEF UpTo
  <2>2. QED
    BY <1>1, <1>2, <1>3, <1>4, <2>1, PushKeeps
<1>7. n = lines + 1 /\ gone' \in [Logs -> SUBSET Nat]
  BY <1>0, <1>4 DEF LogInv, LogTypeOK
<1>8. QED
  BY <1>1, <1>4, <1>5, <1>6, <1>7, LineKeeps

\* A line without an event may be missing until it is read.
LEMMA LogWithoutEventKeeps ==
  ASSUME LogInv, NEW l \in Logs, LogWithoutEvent(l)
  PROVE  LogInv'
<1>1. PICK n \in Nat : n = lines + 1
  BY DEF LogInv, LogTypeOK
<1>2. /\ lines \in Nat /\ lines' = n /\ n > lines
      /\ transport' = [transport EXCEPT ![l] = Append(@, n)]
      /\ gone' = [gone EXCEPT ![l] = @ \cup {n}]
      /\ UNCHANGED <<file, asking, pushed, view, open>>
  BY <1>1 DEF LogInv, LogTypeOK, LogWithoutEvent
<1>3. /\ gone' \in [Logs -> SUBSET Nat] /\ n \in gone'[l]
      /\ \A k \in Logs : gone[k] \subseteq gone'[k]
  BY <1>2 DEF LogInv, LogTypeOK
<1>4. pushed' \in Seq(PushType)
  BY <1>2 DEF LogInv, LogTypeOK
<1>5. PushedInOrder'
  <2>1. \A i \in 1 .. Len(pushed) : UpTo(pushed[i].lines, n)
    <3>1. ASSUME NEW i \in 1 .. Len(pushed) PROVE UpTo(pushed[i].lines, n)
      <4>1. UpTo(pushed[i].lines, lines) /\ ToSet(pushed[i].lines) \subseteq Nat
        BY PushTyped, SetOf DEF LogInv, PushedInOrder
      <4>2. QED
        BY <1>2, <4>1 DEF UpTo
    <3>2. QED
      BY <3>1
  <2>2. QED
    BY <1>2, <2>1 DEF LogInv, PushedInOrder, Increasing, Below, UpTo
<1>6. Covered(l, n)' /\ \A k \in Logs, x \in Nat : Covered(k, x) => Covered(k, x)'
  BY <1>2, <1>3 DEF Covered, SetsLog
<1>7. QED
  BY <1>1, <1>2, <1>3, <1>4, <1>5, <1>6, LineKeeps

\* The transport writes its first line: file and transport together have the same lines.
LEMMA WriteKeeps ==
  ASSUME LogInv, NEW l \in Logs, Write(l)
  PROVE  LogInv'
<1> DEFINE n == Head(transport[l])
           rest == Tail(transport[l])
           longer == Append(file[l], n)
<1>1. /\ transport[l] # <<>> /\ transport' = [transport EXCEPT ![l] = rest]
      /\ file' = [file EXCEPT ![l] = longer]
      /\ UNCHANGED <<lines, asking, pushed, view, open, gone>>
  BY DEF Write, LogInv, LogTypeOK
<1>2. /\ file[l] \in Seq(Nat) /\ transport[l] \in Seq(Nat) /\ lines \in Nat
      /\ Increasing(file[l]) /\ Increasing(transport[l]) /\ Below(file[l], transport[l])
      /\ UpTo(file[l], lines) /\ UpTo(transport[l], lines)
      /\ ToSet(file[l]) \subseteq Nat /\ ToSet(transport[l]) \subseteq Nat
  BY SetOf DEF LogInv, LogTypeOK, LinesInOrder
<1>3. /\ n \in Nat /\ rest \in Seq(Nat) /\ ToSet(transport[l]) = ToSet(rest) \cup {n}
      /\ Increasing(rest) /\ \A x \in ToSet(rest) : n < x
  BY <1>1, <1>2, SetOfRest
<1>4. /\ longer \in Seq(Nat) /\ ToSet(longer) = ToSet(file[l]) \cup {n} /\ Increasing(longer)
  <2>1. \A x \in ToSet(file[l]) : x < n
    BY <1>2, <1>3 DEF Below
  <2>2. QED
    BY <1>2, <1>3, <2>1, SetOfAppend
<1> HIDE DEF n, rest, longer
<1>5. /\ Below(longer, rest) /\ UpTo(longer, lines) /\ UpTo(rest, lines)
      /\ ToSet(longer) \cup ToSet(rest) = ToSet(file[l]) \cup ToSet(transport[l])
  BY <1>2, <1>3, <1>4 DEF Below, UpTo
<1>6. /\ transport'[l] = rest /\ file'[l] = longer
      /\ \A k \in Logs : k # l => transport'[k] = transport[k] /\ file'[k] = file[k]
      /\ transport' \in [Logs -> Seq(Nat)] /\ file' \in [Logs -> Seq(Nat)]
  BY <1>1, <1>3, <1>4 DEF LogInv, LogTypeOK
<1>7. LogTypeOK'
  BY <1>1, <1>6 DEF LogInv, LogTypeOK
<1>8. LinesInOrder'
  <2> SUFFICES ASSUME NEW k \in Logs
               PROVE  /\ Increasing(file'[k]) /\ Increasing(transport'[k]) /\ Increasing(view[k])
                      /\ Below(file'[k], transport'[k])
                      /\ UpTo(file'[k], lines) /\ UpTo(transport'[k], lines) /\ UpTo(view[k], lines)
    BY <1>1 DEF LinesInOrder, Increasing, Below, UpTo
  <2>1. CASE k = l
    BY <1>3, <1>4, <1>5, <1>6, <2>1 DEF LogInv, LinesInOrder
  <2>2. CASE k # l
    BY <1>6, <2>2 DEF LogInv, LinesInOrder
  <2>3. QED
    BY <2>1, <2>2
<1>9. LinesCovered'
  <2>1. \A k \in Logs : ToSet(file'[k]) \cup ToSet(transport'[k]) = ToSet(file[k]) \cup ToSet(transport[k])
    BY <1>5, <1>6
  <2>2. \A k \in Logs, x \in Nat : Covered(k, x) => Covered(k, x)'
    BY <1>1 DEF Covered, SetsLog
  <2>3. \A k \in Logs : ToSet(file[k]) \cup ToSet(transport[k]) \subseteq Nat
    BY SetOf DEF LogInv, LogTypeOK
  <2>4. QED
    BY <2>1, <2>2, <2>3 DEF LogInv, LinesCovered, ToSet
<1>10. PushedInOrder'
  BY <1>1 DEF LogInv, PushedInOrder, Below, UpTo, Increasing
<1>11. QED
  BY <1>7, <1>8, <1>9, <1>10 DEF LogInv

\* The gateway reads the file.
LEMMA ReadLogKeeps ==
  ASSUME LogInv, ReadLog
  PROVE  LogInv'
<1>0. PICK l \in Logs : l = Head(asking)
  BY Rest DEF LogInv, LogTypeOK, ReadLog
<1>1. PICK s \in Seq(Nat) :
        /\ Increasing(s) /\ UpTo(s, lines)
        /\ pushed' = Append(pushed, [log |-> l, set |-> TRUE, lines |-> s])
        /\ \E G \in SUBSET Nat :
             /\ gone' = [gone EXCEPT ![l] = G]
             /\ ToSet(transport[l]) \subseteq G /\ ToSet(file[l]) \subseteq G \cup ToSet(s)
  <2>1. /\ file[l] \in Seq(Nat) /\ Increasing(file[l]) /\ UpTo(file[l], lines)
        /\ ToSet(file[l]) \subseteq Nat /\ ToSet(transport[l]) \subseteq Nat
    BY SetOf DEF LogInv, LogTypeOK, LinesInOrder
  <2>2. <<>> \in Seq(Nat) /\ Increasing(<<>>) /\ UpTo(<<>>, lines)
    BY DEF Increasing, UpTo, ToSet
  <2>3. CASE /\ pushed' = Append(pushed, [log |-> l, set |-> TRUE, lines |-> file[l]])
             /\ gone' = [gone EXCEPT ![l] = ToSet(transport[l])]
    BY <2>1, <2>3
  <2>4. CASE /\ pushed' = Append(pushed, [log |-> l, set |-> TRUE, lines |-> <<>>])
             /\ gone' = [gone EXCEPT ![l] = ToSet(transport[l]) \cup ToSet(file[l])]
    BY <2>1, <2>2, <2>4
  <2>5. QED
    BY <1>0, <2>3, <2>4 DEF ReadLog
<1>2. PICK G \in SUBSET Nat :
        /\ gone' = [gone EXCEPT ![l] = G]
        /\ ToSet(transport[l]) \subseteq G /\ ToSet(file[l]) \subseteq G \cup ToSet(s)
  BY <1>1
<1> DEFINE m == [log |-> l, set |-> TRUE, lines |-> s]
<1>3. m \in PushType /\ m.log = l /\ m.set /\ m.lines = s
  BY DEF PushType
<1>4. /\ asking # <<>> /\ asking' = Tail(asking) /\ pushed' = Append(pushed, m)
      /\ UNCHANGED <<lines, transport, file, view, open>>
  BY <1>0, <1>1 DEF ReadLog
<1> HIDE DEF m
<1>5. /\ pushed' \in Seq(PushType) /\ PushedInOrder'
      /\ \A x \in ToSet(s) : Covered(l, x)'
      /\ \A k \in Logs, x \in Nat : Covered(k, x) /\ k # l /\ gone'[k] = gone[k] => Covered(k, x)'
  <2>1. lines \in Nat /\ Increasing(s) /\ UpTo(s, lines)
    BY <1>1 DEF LogInv, LogTypeOK
  <2>2. lines' = lines /\ lines <= lines' /\ lines' \in Nat /\ view' = view
    BY <1>4, <2>1
  <2>3. Increasing(m.lines) /\ UpTo(m.lines, lines') /\ (~m.set => \A x \in ToSet(m.lines) : x > lines)
    BY <1>3, <2>1, <2>2
  <2>4. /\ pushed' \in Seq(PushType) /\ PushedInOrder'
        /\ \A k \in Logs : \A x \in ToSet(m.lines) : m.log = k => Covered(k, x)'
        /\ \A k \in Logs, x \in Nat : Covered(k, x) /\ gone'[k] = gone[k] /\ ~(m.log = k /\ m.set)
                                         => Covered(k, x)'
    BY <1>3, <1>4, <2>2, <2>3, PushKeeps
  <2>5. \A x \in ToSet(s) : Covered(l, x)'
    BY <1>3, <2>4
  <2>6. QED
    BY <1>3, <2>4, <2>5
<1>6. /\ gone'[l] = G /\ \A k \in Logs : k # l => gone'[k] = gone[k]
      /\ gone' \in [Logs -> SUBSET Nat]
  BY <1>2 DEF LogInv, LogTypeOK
<1>7. LogTypeOK'
  <2>1. asking' \in Seq(Logs)
    BY <1>4, Rest DEF LogInv, LogTypeOK
  <2>2. QED
    BY <1>4, <1>5, <1>6, <2>1 DEF LogInv, LogTypeOK
<1>8. LinesInOrder'
  BY <1>4 DEF LogInv, LinesInOrder, Increasing, Below, UpTo
<1>9. LinesCovered'
  <2> SUFFICES ASSUME NEW k \in Logs, NEW x \in ToSet(file[k]) \cup ToSet(transport[k])
               PROVE  Covered(k, x)'
    BY <1>4 DEF LinesCovered, ToSet
  <2>1. CASE k = l /\ x \in G
    BY <1>6, <2>1 DEF Covered
  <2>2. CASE k = l /\ x \in ToSet(s)
    BY <1>5, <2>2
  <2>3. CASE k # l
    <3>1. x \in Nat /\ Covered(k, x)
      BY SetOf DEF LogInv, LogTypeOK, LinesCovered
    <3>2. QED
      BY <1>5, <1>6, <2>3, <3>1
  <2>4. QED
    BY <1>2, <2>1, <2>2, <2>3
<1>10. QED
  BY <1>5, <1>7, <1>8, <1>9 DEF LogInv

\* The client takes the first message, and puts its lines into the view, at the end or
\* in the place of all, or lets it go when its log is not open.
LEMMA ReceiveKeeps ==
  ASSUME LogInv, NEW l \in Logs, NEW s \in Seq(Nat), NEW set \in BOOLEAN,
         pushed # <<>>, pushed' = Tail(pushed), Head(pushed) = [log |-> l, set |-> set, lines |-> s],
         UNCHANGED <<lines, transport, file, asking, open>>,
         \/ set /\ view' = [view EXCEPT ![l] = s] /\ gone' = gone
         \/ ~set /\ view' = [view EXCEPT ![l] = @ \o s] /\ gone' = gone
         \/ ~set /\ view' = view /\ gone' = [gone EXCEPT ![l] = @ \cup ToSet(s)]
  PROVE  LogInv'
<1>1. /\ pushed' \in Seq(PushType) /\ Head(pushed) = pushed[1]
      /\ Len(pushed) \in Nat /\ Len(pushed) > 0 /\ Len(pushed') = Len(pushed) - 1
      /\ \A i \in 1 .. Len(pushed) - 1 : pushed'[i] = pushed[i + 1]
  BY Rest DEF LogInv, LogTypeOK
<1>2. \A i \in 1 .. Len(pushed') : i + 1 \in 1 .. Len(pushed) /\ pushed'[i] = pushed[i + 1] /\ 1 < i + 1
  BY <1>1
<1>3. \A i \in 1 .. Len(pushed) : i # 1 => i - 1 \in 1 .. Len(pushed') /\ pushed'[i - 1] = pushed[i]
  BY <1>1
<1>4. /\ pushed[1].log = l /\ pushed[1].lines = s /\ pushed[1].set = set /\ 1 \in 1 .. Len(pushed)
      /\ Increasing(s) /\ UpTo(s, lines) /\ (~set => Below(view[l], s))
      /\ view[l] \in Seq(Nat) /\ Increasing(view[l]) /\ UpTo(view[l], lines)
      /\ ToSet(s) \subseteq Nat /\ ToSet(view[l]) \subseteq Nat
  <2>1. pushed[1].log = l /\ pushed[1].lines = s /\ pushed[1].set = set /\ 1 \in 1 .. Len(pushed)
    BY <1>1
  <2>2. Increasing(s) /\ UpTo(s, lines) /\ (~set => Below(view[l], s))
    BY <2>1 DEF LogInv, PushedInOrder
  <2>3. view[l] \in Seq(Nat) /\ Increasing(view[l]) /\ UpTo(view[l], lines)
    BY DEF LogInv, LogTypeOK, LinesInOrder
  <2>4. QED
    BY <2>1, <2>2, <2>3, SetOf
<1>5. /\ view'[l] \in Seq(Nat) /\ Increasing(view'[l]) /\ ToSet(view'[l]) \subseteq ToSet(view[l]) \cup ToSet(s)
      /\ view' \in [Logs -> Seq(Nat)] /\ \A k \in Logs : k # l => view'[k] = view[k]
      /\ set => ToSet(view'[l]) = ToSet(s) /\ gone' = gone
      /\ ~set => \/ ToSet(view'[l]) = ToSet(view[l]) \cup ToSet(s) /\ gone' = gone
                 \/ view' = view /\ gone' = [gone EXCEPT ![l] = @ \cup ToSet(s)]
  <2>1. CASE set /\ view' = [view EXCEPT ![l] = s] /\ gone' = gone
    BY <1>4, <2>1 DEF LogInv, LogTypeOK
  <2>2. CASE ~set /\ view' = [view EXCEPT ![l] = @ \o s] /\ gone' = gone
    <3>1. view'[l] = view[l] \o s /\ \A k \in Logs : k # l => view'[k] = view[k]
      BY <2>2 DEF LogInv, LogTypeOK
    <3>2. /\ view[l] \o s \in Seq(Nat) /\ ToSet(view[l] \o s) = ToSet(view[l]) \cup ToSet(s)
          /\ Increasing(view[l] \o s)
      BY <1>4, <2>2, SetOfConcat
    <3>3. view' \in [Logs -> Seq(Nat)]
      BY <2>2, <3>2 DEF LogInv, LogTypeOK
    <3>4. QED
      BY <2>2, <3>1, <3>2, <3>3
  <2>3. CASE ~set /\ view' = view /\ gone' = [gone EXCEPT ![l] = @ \cup ToSet(s)]
    BY <1>4, <2>3 DEF LogInv, LogTypeOK
  <2>4. \/ set /\ view' = [view EXCEPT ![l] = s] /\ gone' = gone
        \/ ~set /\ view' = [view EXCEPT ![l] = @ \o s] /\ gone' = gone
        \/ ~set /\ view' = view /\ gone' = [gone EXCEPT ![l] = @ \cup ToSet(s)]
    OBVIOUS
  <2>5. QED
    BY <2>1, <2>2, <2>3, <2>4, Zenon
<1>6. LogTypeOK'
  <2>1. gone' \in [Logs -> SUBSET Nat]
    <3>1. gone \in [Logs -> SUBSET Nat] /\ gone[l] \cup ToSet(s) \in SUBSET Nat
      BY <1>4 DEF LogInv, LogTypeOK
    <3>2. gone' = gone \/ gone' = [gone EXCEPT ![l] = gone[l] \cup ToSet(s)]
      OBVIOUS
    <3>3. QED
      BY <3>1, <3>2
  <2>2. QED
    BY <1>1, <1>5, <2>1 DEF LogInv, LogTypeOK
<1>7. LinesInOrder'
  <2> SUFFICES ASSUME NEW k \in Logs
               PROVE  /\ Increasing(file[k]) /\ Increasing(transport[k]) /\ Increasing(view'[k])
                      /\ Below(file[k], transport[k])
                      /\ UpTo(file[k], lines) /\ UpTo(transport[k], lines) /\ UpTo(view'[k], lines)
    BY DEF LinesInOrder, Increasing, Below, UpTo
  <2>1. Increasing(view'[k]) /\ UpTo(view'[k], lines)
    <3>1. CASE k = l
      BY <1>4, <1>5, <3>1 DEF UpTo
    <3>2. CASE k # l
      BY <1>5, <3>2 DEF LogInv, LinesInOrder
    <3>3. QED
      BY <3>1, <3>2
  <2>2. QED
    BY <2>1 DEF LogInv, LinesInOrder
<1>8. PushedInOrder'
  <2> SUFFICES ASSUME NEW i \in 1 .. Len(pushed')
               PROVE  /\ Increasing(pushed'[i].lines) /\ UpTo(pushed'[i].lines, lines)
                      /\ ~pushed'[i].set =>
                           /\ Below(view'[pushed'[i].log], pushed'[i].lines)
                           /\ \A j \in 1 .. Len(pushed') :
                                j < i /\ pushed'[j].log = pushed'[i].log
                                  => Below(pushed'[j].lines, pushed'[i].lines)
    BY DEF PushedInOrder, Below, UpTo, Increasing
  <2>1. /\ Increasing(pushed[i + 1].lines) /\ UpTo(pushed[i + 1].lines, lines)
        /\ ~pushed[i + 1].set =>
             /\ Below(view[pushed[i + 1].log], pushed[i + 1].lines)
             /\ \A j \in 1 .. Len(pushed) :
                  j < i + 1 /\ pushed[j].log = pushed[i + 1].log
                    => Below(pushed[j].lines, pushed[i + 1].lines)
    BY <1>2 DEF LogInv, PushedInOrder
  <2>2. \A j \in 1 .. Len(pushed') : j < i => j + 1 < i + 1
    BY <1>1
  <2>3. pushed[i + 1].log \in Logs
    BY <1>2, PushTyped DEF LogInv
  <2>4. ~pushed[i + 1].set => Below(view'[pushed[i + 1].log], pushed[i + 1].lines)
    <3>1. CASE pushed[i + 1].log = l
      BY <1>2, <1>4, <1>5, <2>1, <3>1 DEF Below
    <3>2. CASE pushed[i + 1].log # l
      BY <1>5, <2>1, <2>3, <3>2
    <3>3. QED
      BY <3>1, <3>2
  <2>5. QED
    BY <1>2, <2>1, <2>2, <2>4
<1>9. LinesCovered'
  <2> SUFFICES ASSUME NEW k \in Logs, NEW x \in ToSet(file[k]) \cup ToSet(transport[k])
               PROVE  Covered(k, x)'
    BY DEF LinesCovered, ToSet
  <2>1. Covered(k, x)
    BY DEF LogInv, LinesCovered
  <2>2. \A j \in 1 .. Len(pushed') : SetsLog(j, k)' => SetsLog(j + 1, k)
    BY <1>2 DEF SetsLog
  <2>3. CASE x \in gone[k]
    <3>1. x \in gone'[k]
      BY <1>5, <2>3 DEF LogInv, LogTypeOK
    <3>2. QED
      BY <3>1 DEF Covered
  <2>4. CASE x \in ToSet(view[k]) /\ \A j \in 1 .. Len(pushed) : ~SetsLog(j, k)
    <3>1. x \in ToSet(view'[k])
      BY <1>4, <1>5, <2>4 DEF SetsLog
    <3>2. QED
      BY <1>2, <2>2, <2>4, <3>1 DEF Covered
  <2>5. ASSUME NEW i \in 1 .. Len(pushed), pushed[i].log = k, x \in ToSet(pushed[i].lines),
               \A j \in 1 .. Len(pushed) : i < j => ~SetsLog(j, k)
        PROVE  Covered(k, x)'
    <3>1. CASE i = 1
      <4>1. \A j \in 1 .. Len(pushed') : ~SetsLog(j, k)'
        BY <1>2, <2>2, <2>5, <3>1
      <4>2. k = l /\ x \in ToSet(s)
        BY <1>4, <2>5, <3>1
      <4>3. view' = view /\ gone' = [gone EXCEPT ![l] = @ \cup ToSet(s)] => x \in gone'[k]
        BY <4>2 DEF LogInv, LogTypeOK
      <4>4. x \in ToSet(view'[k]) \/ x \in gone'[k]
        BY <1>5, <4>2, <4>3
      <4>5. QED
        BY <4>1, <4>4 DEF Covered
    <3>2. CASE i # 1
      <4>1. i - 1 \in 1 .. Len(pushed') /\ pushed'[i - 1] = pushed[i]
        BY <1>3, <3>2
      <4>2. \A j \in 1 .. Len(pushed') : i - 1 < j => i < j + 1
        BY <1>1
      <4>3. \A j \in 1 .. Len(pushed') : i - 1 < j => ~SetsLog(j, k)'
        BY <1>2, <2>2, <2>5, <4>2
      <4>4. QED
        BY <2>5, <4>1, <4>3 DEF Covered
    <3>3. QED
      BY <3>1, <3>2
  <2>6. QED
    BY <2>1, <2>3, <2>4, <2>5 DEF Covered
<1>10. QED
  BY <1>6, <1>7, <1>8, <1>9 DEF LogInv

LEMMA ReconnectKeeps ==
  ASSUME LogInv, Reconnect
  PROVE  LogInv'
<1>1. /\ pushed' = <<>> /\ asking' = <<>> /\ UNCHANGED <<lines, transport, file, view, open>>
      /\ Len(pushed') = 0 /\ pushed' \in Seq(PushType) /\ asking' \in Seq(Logs)
  BY DEF Reconnect
<1>2. \A i \in 1 .. Len(pushed) : ToSet(pushed[i].lines) \subseteq Nat
  BY PushTyped, SetOf DEF LogInv
<1>3. /\ \A l \in Logs : gone[l] \subseteq gone'[l]
      /\ \A l \in Logs : \A i \in 1 .. Len(pushed) :
           pushed[i].log = l => ToSet(pushed[i].lines) \subseteq gone'[l]
  BY DEF Reconnect
<1>4. gone' \in [Logs -> SUBSET Nat]
  BY <1>2 DEF Reconnect, LogInv, LogTypeOK
<1>5. LogTypeOK'
  BY <1>1, <1>4 DEF LogInv, LogTypeOK
<1>6. LinesInOrder'
  BY <1>1 DEF LogInv, LinesInOrder, Increasing, Below, UpTo
<1>7. PushedInOrder'
  BY <1>1 DEF PushedInOrder
<1>8. LinesCovered'
  <2> SUFFICES ASSUME NEW k \in Logs, NEW x \in ToSet(file[k]) \cup ToSet(transport[k])
               PROVE  Covered(k, x)'
    BY <1>1 DEF LinesCovered, ToSet
  <2>1. x \in gone'[k] \/ x \in ToSet(view[k])
    BY <1>3 DEF LogInv, LinesCovered, Covered
  <2>2. QED
    BY <1>1, <2>1 DEF Covered, ToSet
<1>9. QED
  BY <1>5, <1>6, <1>7, <1>8 DEF LogInv

LEMMA LogStep == LogInv /\ [LogNext]_logVars => LogInv'
<1> SUFFICES ASSUME LogInv, [LogNext]_logVars PROVE LogInv'
  OBVIOUS
<1>1. CASE \E l \in Logs : Log(l) \/ LogWithoutEvent(l) \/ Write(l)
  BY <1>1, LogKeeps, LogWithoutEventKeeps, WriteKeeps
<1>2. CASE (\E l \in Logs : OpenLog(l)) \/ Refresh \/ CloseLog \/ UNCHANGED logVars
  <2>1. /\ UNCHANGED <<lines, transport, file, pushed, view, gone>>
        /\ open' \in Logs \cup {NoLogs} /\ asking' \in Seq(Logs)
    <3>1. asking \in Seq(Logs) /\ open \in Logs \cup {NoLogs}
      BY DEF LogInv, LogTypeOK
    <3>2. CASE \E l \in Logs : OpenLog(l)
      BY <3>1, <3>2, OneMore DEF OpenLog
    <3>3. CASE Refresh
      <4>1. open \in Logs
        BY <3>1, <3>3 DEF Refresh
      <4>2. QED
        BY <3>1, <3>3, <4>1, OneMore DEF Refresh
    <3>4. CASE CloseLog
      BY <3>1, <3>4 DEF CloseLog
    <3>5. CASE UNCHANGED logVars
      BY <3>1, <3>5 DEF logVars
    <3>6. QED
      BY <1>2, <3>2, <3>3, <3>4, <3>5
  <2>2. LogTypeOK' /\ LinesInOrder'
    BY <2>1 DEF LogInv, LogTypeOK, LinesInOrder, Increasing, Below, UpTo
  <2>3. PushedInOrder'
    BY <2>1 DEF LogInv, PushedInOrder, Increasing, Below, UpTo
  <2>4. LinesCovered'
    BY <2>1 DEF LogInv, LinesCovered, Covered, SetsLog
  <2>5. QED
    BY <2>2, <2>3, <2>4 DEF LogInv
<1>3. CASE SetLogs \/ UpdateLogs
  <2>1. pushed # <<>> /\ pushed' = Tail(pushed) /\ UNCHANGED <<lines, transport, file, asking, open>>
    BY <1>3 DEF SetLogs, UpdateLogs
  <2>2. Head(pushed) \in PushType
    BY <2>1, Rest DEF LogInv, LogTypeOK
  <2>3. PICK l \in Logs, set \in BOOLEAN, s \in Seq(Nat) :
             Head(pushed) = [log |-> l, set |-> set, lines |-> s]
    BY <2>2 DEF PushType
  <2>4. Head(pushed).log = l /\ Head(pushed).set = set /\ Head(pushed).lines = s
    BY <2>3
  <2>5. \/ set /\ view' = [view EXCEPT ![l] = s] /\ gone' = gone
        \/ ~set /\ view' = [view EXCEPT ![l] = @ \o s] /\ gone' = gone
        \/ ~set /\ view' = view /\ gone' = [gone EXCEPT ![l] = @ \cup ToSet(s)]
    BY <1>3, <2>4 DEF SetLogs, UpdateLogs
  <2>6. QED
    BY <2>1, <2>3, <2>5, ReceiveKeeps
<1>4. QED
  BY <1>1, <1>2, <1>3, ReadLogKeeps, ReconnectKeeps DEF LogNext

\* The inductive invariant holds for any logs, lines and refreshes.
THEOREM LogInvCorrect == LogSpec => []LogInv
<1>1. LogInit => LogInv
  <2> SUFFICES ASSUME LogInit PROVE LogInv
    OBVIOUS
  <2>1. LogTypeOK
    BY DEF LogInit, LogTypeOK
  <2>2. LinesInOrder /\ PushedInOrder /\ LinesCovered
    BY DEF LogInit, LinesInOrder, PushedInOrder, LinesCovered, Increasing, Below, UpTo, ToSet
  <2>3. QED
    BY <2>1, <2>2 DEF LogInv
<1>2. QED
  BY <1>1, LogStep, PTL DEF LogSpec

\* However answers, events, refreshes and reconnects follow each other, a line is shown once
\* and in order, and the open log shows all lines of its file but for those that
\* LinesAreThere excludes.
THEOREM LogFollowsFileCorrect == LogSpec => []LogFollowsFile
<1>1. LogInv => LogFollowsFile
  <2> SUFFICES ASSUME LogInv PROVE LogFollowsFile
    OBVIOUS
  <2>1. LinesShownOnce
    BY DEF LogInv, LinesInOrder, LinesShownOnce, Increasing
  <2>2. LinesAreThere
    BY DEF LogInv, LogTypeOK, LinesCovered, Covered, LinesAreThere
  <2>3. QED
    BY <2>1, <2>2 DEF LogFollowsFile
<1>2. QED
  BY <1>1, LogInvCorrect, PTL

-----------------------------------------------------------------------------
(* The parameters of an account.  A field that no two writers have met in has *)
(* one row at most, and what a call found of it is that row; a reader that met *)
(* no writer has read what was settled when it began.                          *)

Row == [id : Nat, name : Fields, value : Asked]

SettingsCall ==
  [pc : {"idle", "find", "use", "done", "failed"}, at : Nat, found : SUBSET Row, got : Seq(Asked)]

SettingsTypeOK ==
  /\ rows \subseteq Row
  /\ lastId \in Nat
  /\ calls \in [Asked -> SettingsCall]
  /\ settled \in [Fields -> Asked \cup {Absent}]
  /\ expected \in [Asked -> [Fields -> Asked \cup {Absent}]]
  /\ \A r \in Asked :
       /\ calls[r].at \in 1 .. Len(Asking[r].fields)
       /\ calls[r].pc = "idle" => calls[r].at = 1 /\ calls[r].got = <<>>

\* No two rows have an id, and no row one that is still to be given.
IdsOnce ==
  \A row \in rows : row.id \in 1 .. lastId /\ \A other \in rows : other.id = row.id => other = row

\* What a call has found is a row of the field it is at, whatever has become of it.
FoundHere ==
  \A r \in Asked : calls[r].pc = "use" =>
    \/ calls[r].found = {}
    \/ \E x \in Row : /\ calls[r].found = {x}
                      /\ x.id \in 1 .. lastId /\ x.name = Name(r)
                      /\ \A row \in rows : row.id = x.id => row.name = Name(r)

\* A writer that is active beside another request has met it.
Meetings ==
  \A w \in Asked \ Readers, o \in Asked : w # o /\ Active(w) /\ Active(o) =>
    IF o \in Readers THEN FieldsOf(w) \cap FieldsOf(o) = {} \/ o \in met
    ELSE FieldsOf(w) \cap FieldsOf(o) \subseteq met

\* A field that no two writers have met in has at most one row, with the settled value.
TableOf(f) ==
  \/ settled[f] = Absent /\ Rows(f) = {}
  \/ \E id \in 1 .. lastId : Rows(f) = {[id |-> id, name |-> f, value |-> settled[f]]}

Tables == \A f \in Fields \ met : TableOf(f)

\* What a call has found is what the table has of its field, unless it has met a writer.
Undisturbed(r) == Name(r) \notin met /\ (r \in Readers => r \notin met)

FoundIsThere ==
  \A r \in Asked : calls[r].pc = "use" /\ Undisturbed(r) => calls[r].found = Rows(Name(r))

\* What a reader that met no writer has read is what was settled when it began, and
\* while it reads, still is.
ReadSoFar ==
  \A r \in Readers : r \notin met /\ FieldsOf(r) \cap met = {} =>
    /\ \A i \in 1 .. Len(calls[r].got) : calls[r].got[i] = expected[r][Asking[r].fields[i]]
    /\ Active(r) => /\ Len(calls[r].got) = calls[r].at - 1
                    /\ \A f \in FieldsOf(r) : settled[f] = expected[r][f]
    /\ Len(calls[r].got) <= Len(Asking[r].fields)

SettingsInv ==
  /\ SettingsTypeOK
  /\ IdsOnce
  /\ FoundHere
  /\ Meetings
  /\ Tables
  /\ FoundIsThere
  /\ ReadSoFar

\* The field a request is at is one of its own.
LEMMA NamedField ==
  ASSUME SettingsTypeOK, NEW r \in Asked
  PROVE  Name(r) \in FieldsOf(r) /\ FieldsOf(r) \subseteq Fields
<1>1. Asking[r].fields \in Seq(Fields)
  BY SettingsAssumption
<1>2. Len(Asking[r].fields) \in Nat /\ \A i \in 1 .. Len(Asking[r].fields) : Asking[r].fields[i] \in Fields
  BY <1>1
<1>3. QED
  BY <1>2 DEF SettingsTypeOK, Name, FieldsOf

\* A request begins: who is on its way beside it has been met.
LEMMA BeginKeeps ==
  ASSUME SettingsInv, NEW r \in Asked, Begin(r)
  PROVE  SettingsInv'
<1> DEFINE others == {o \in Asked : Active(o) /\ FieldsOf(o) \cap FieldsOf(r) # {}}
           writers == others \ Readers
<1>1. /\ calls[r].pc = "idle"
      /\ calls' = [calls EXCEPT ![r].pc = "find"]
      /\ expected' = [expected EXCEPT ![r] = settled]
      /\ met' = met \cup
           (IF r \in Readers THEN IF writers # {} THEN {r} ELSE {}
            ELSE (others \cap Readers) \cup UNION {FieldsOf(o) \cap FieldsOf(r) : o \in writers})
      /\ UNCHANGED <<rows, lastId, settled>>
  BY DEF Begin
<1>2. met \subseteq met'
  BY <1>1
<1>3. /\ calls' \in [Asked -> SettingsCall]
      /\ \A o \in Asked \ {r} : calls'[o] = calls[o]
      /\ calls'[r].pc = "find" /\ calls'[r].at = 1 /\ calls'[r].got = <<>>
  BY <1>1 DEF SettingsInv, SettingsTypeOK, SettingsCall
<1>4. /\ \A o \in Asked \ {r} : expected'[o] = expected[o]
      /\ expected'[r] = settled
      /\ expected' \in [Asked -> [Fields -> Asked \cup {Absent}]]
  BY <1>1 DEF SettingsInv, SettingsTypeOK
<1>5. SettingsTypeOK'
  BY <1>1, <1>3, <1>4 DEF SettingsInv, SettingsTypeOK
<1>6. IdsOnce' /\ Tables'
  BY <1>1, <1>2 DEF SettingsInv, IdsOnce, Tables, TableOf, Rows
<1>7. FoundHere' /\ FoundIsThere'
  <2>1. FoundHere'
    BY <1>1, <1>3 DEF SettingsInv, FoundHere, Name
  <2>2. FoundIsThere'
    BY <1>1, <1>2, <1>3 DEF SettingsInv, FoundIsThere, Name, Undisturbed, Rows
  <2>3. QED
    BY <2>1, <2>2
<1>8. Meetings'
  <2> SUFFICES ASSUME NEW w \in Asked \ Readers, NEW o \in Asked, w # o, Active(w)', Active(o)'
               PROVE  IF o \in Readers THEN FieldsOf(w) \cap FieldsOf(o) = {} \/ o \in met'
                      ELSE FieldsOf(w) \cap FieldsOf(o) \subseteq met'
    BY DEF Meetings
  <2>1. CASE w # r /\ o # r
    BY <1>2, <1>3, <2>1 DEF SettingsInv, Meetings, Active
  <2>2. CASE w = r
    <3>1. Active(o)
      BY <1>3, <2>2 DEF Active
    <3>2. FieldsOf(w) \cap FieldsOf(o) = {} \/ o \in others
      BY <3>1, <2>2
    <3>3. CASE o \in Readers
      BY <1>1, <2>2, <3>2, <3>3
    <3>4. CASE o \notin Readers
      BY <1>1, <2>2, <3>2, <3>4
    <3>5. QED
      BY <3>3, <3>4
  <2>3. CASE o = r
    <3>1. Active(w)
      BY <1>3, <2>3 DEF Active
    <3>2. FieldsOf(w) \cap FieldsOf(o) = {} \/ w \in writers
      BY <3>1, <2>3
    <3>3. CASE o \in Readers
      BY <1>1, <2>3, <3>2, <3>3
    <3>4. CASE o \notin Readers
      BY <1>1, <2>3, <3>2, <3>4
    <3>5. QED
      BY <3>3, <3>4
  <2>4. QED
    BY <2>1, <2>2, <2>3
<1>9. ReadSoFar'
  <2> SUFFICES ASSUME NEW q \in Readers, q \notin met', FieldsOf(q) \cap met' = {}
               PROVE  /\ \A i \in 1 .. Len(calls'[q].got) :
                           calls'[q].got[i] = expected'[q][Asking[q].fields[i]]
                      /\ Active(q)' => /\ Len(calls'[q].got) = calls'[q].at - 1
                                       /\ \A f \in FieldsOf(q) : settled'[f] = expected'[q][f]
                      /\ Len(calls'[q].got) <= Len(Asking[q].fields)
    BY DEF ReadSoFar
  <2>1. CASE q = r
    <3>1. Len(calls'[q].got) = 0 /\ calls'[q].at = 1 /\ Len(Asking[q].fields) \in Nat
      BY <1>3, <2>1, SettingsAssumption DEF Readers
    <3>2. QED
      BY <1>1, <1>4, <2>1, <3>1
  <2>2. CASE q # r
    BY <1>1, <1>2, <1>3, <1>4, <2>2 DEF SettingsInv, ReadSoFar, Active, Readers
  <2>3. QED
    BY <2>1, <2>2
<1>10. QED
  BY <1>5, <1>6, <1>7, <1>8, <1>9 DEF SettingsInv

\* A step of a call that leaves the table alone, but for ReadSoFar.
Waits(r) == calls[r].pc \in {"find", "use"}

LEMMA ReadingKeeps ==
  ASSUME SettingsInv, NEW r \in Asked, Waits(r),
         NEW c \in SettingsCall, calls' = [calls EXCEPT ![r] = c],
         c.pc \in {"find", "use", "done", "failed"}, c.at \in 1 .. Len(Asking[r].fields),
         c.pc = "use" => /\ c.at = calls[r].at
                         /\ \/ c.found = {} /\ Rows(Name(r)) = {}
                            \/ \E x \in Rows(Name(r)) : c.found = {x},
         \/ c.got = calls[r].got /\ (c.at = calls[r].at \/ r \notin Readers)
         \/ r \in Readers /\ ReadSoFar',
         UNCHANGED <<rows, lastId, settled, expected, met>>
  PROVE  SettingsInv'
<1>1. /\ calls' \in [Asked -> SettingsCall]
      /\ \A o \in Asked \ {r} : calls'[o] = calls[o]
      /\ calls'[r] = c
  BY DEF SettingsInv, SettingsTypeOK
<1>2. SettingsTypeOK'
  BY <1>1 DEF SettingsInv, SettingsTypeOK
<1>3. IdsOnce' /\ Tables'
  BY DEF SettingsInv, IdsOnce, Tables, TableOf, Rows
<1>4. FoundHere'
  <2> SUFFICES ASSUME NEW o \in Asked, calls'[o].pc = "use"
               PROVE  \/ calls'[o].found = {}
                      \/ \E x \in Row : /\ calls'[o].found = {x}
                                        /\ x.id \in 1 .. lastId /\ x.name = Name(o)'
                                        /\ \A row \in rows : row.id = x.id => row.name = Name(o)'
    BY DEF FoundHere
  <2>1. CASE o # r
    BY <1>1, <2>1 DEF SettingsInv, FoundHere, Name
  <2>2. CASE o = r
    <3>1. Name(o)' = Name(r)
      BY <1>1, <2>2 DEF Name
    <3>2. CASE c.found = {}
      BY <1>1, <2>2, <3>2
    <3>3. ASSUME NEW x \in Rows(Name(r)), c.found = {x}
          PROVE  /\ x \in Row /\ x.id \in 1 .. lastId /\ x.name = Name(r)
                 /\ \A row \in rows : row.id = x.id => row.name = Name(r)
      BY <3>3 DEF SettingsInv, SettingsTypeOK, IdsOnce, Rows
    <3>4. QED
      BY <1>1, <2>2, <3>1, <3>2, <3>3
  <2>3. QED
    BY <2>1, <2>2
<1>5. Meetings'
  BY <1>1 DEF SettingsInv, Meetings, Active, Waits
<1>6. FoundIsThere'
  <2> SUFFICES ASSUME NEW o \in Asked, calls'[o].pc = "use", Undisturbed(o)'
               PROVE  calls'[o].found = Rows(Name(o))'
    BY DEF FoundIsThere
  <2>1. CASE o # r
    BY <1>1, <2>1 DEF SettingsInv, FoundIsThere, Name, Undisturbed, Rows
  <2>2. CASE o = r
    <3>1. Name(o)' = Name(r)
      BY <1>1, <2>2 DEF Name
    <3>2. Name(r) \in Fields \ met
      BY <2>2, <3>1, NamedField DEF Undisturbed, SettingsInv
    <3>3. TableOf(Name(r))
      BY <3>2 DEF SettingsInv, Tables
    <3>4. \A x \in Rows(Name(r)) : Rows(Name(r)) = {x}
      BY <3>3 DEF TableOf
    <3>5. c.found = Rows(Name(r))
      BY <1>1, <2>2, <3>4
    <3>6. Rows(Name(o))' = Rows(Name(r))
      BY <3>1 DEF Rows
    <3>7. QED
      BY <1>1, <2>2, <3>5, <3>6
  <2>3. QED
    BY <2>1, <2>2
<1>7. ReadSoFar'
  <2>1. CASE c.got = calls[r].got /\ (c.at = calls[r].at \/ r \notin Readers)
    BY <1>1, <2>1 DEF SettingsInv, ReadSoFar, Active, Waits
  <2>2. QED
    BY <2>1
<1>8. QED
  BY <1>2, <1>3, <1>4, <1>5, <1>6, <1>7 DEF SettingsInv

\* A writer changes rows of the field it is at only.
LEMMA WritingKeeps ==
  ASSUME SettingsInv, NEW r \in Asked \ Readers, calls[r].pc = "use", NEW f, f = Name(r),
         NEW c \in SettingsCall, calls' = [calls EXCEPT ![r] = c],
         c.pc \in {"find", "done", "failed"}, c.at \in 1 .. Len(Asking[r].fields),
         rows' \subseteq Row, lastId' \in Nat, lastId' >= lastId, IdsOnce',
         \A row \in rows' : row \in rows \/ row.name = f,
         \A row \in rows : row \in rows' \/ row.name = f,
         \A row \in rows' : row.id \in 1 .. lastId => \E old \in rows : old.id = row.id /\ old.name = row.name,
         settled' \in [Fields -> Asked \cup {Absent}],
         \A g \in Fields \ {f} : settled'[g] = settled[g],
         f \notin met => TableOf(f)',
         UNCHANGED <<expected, met>>
  PROVE  SettingsInv'
<1>1. /\ calls' \in [Asked -> SettingsCall]
      /\ \A o \in Asked \ {r} : calls'[o] = calls[o]
      /\ calls'[r] = c
  BY DEF SettingsInv, SettingsTypeOK
<1>2. SettingsTypeOK'
  BY <1>1 DEF SettingsInv, SettingsTypeOK
<1>3. \A g \in Fields \ {f} : {row \in rows' : row.name = g} = Rows(g)
  BY DEF Rows
<1>4. Tables'
  <2> SUFFICES ASSUME NEW g \in Fields \ met, g # f
               PROVE  TableOf(g)'
    BY DEF Tables
  <2>1. TableOf(g) /\ {row \in rows' : row.name = g} = Rows(g) /\ settled'[g] = settled[g]
    BY <1>3 DEF SettingsInv, Tables
  <2>2. \A id \in 1 .. lastId : id \in 1 .. lastId'
    BY DEF SettingsInv, SettingsTypeOK
  <2>3. QED
    BY <2>1, <2>2 DEF TableOf, Rows
<1>5. FoundHere'
  <2> SUFFICES ASSUME NEW o \in Asked, calls'[o].pc = "use", calls'[o].found # {}
               PROVE  \E x \in Row : /\ calls'[o].found = {x}
                                     /\ x.id \in 1 .. lastId' /\ x.name = Name(o)'
                                     /\ \A row \in rows' : row.id = x.id => row.name = Name(o)'
    BY DEF FoundHere
  <2>1. o # r /\ calls'[o] = calls[o] /\ Name(o)' = Name(o)
    BY <1>1 DEF Name
  <2>2. PICK x \in Row : /\ calls[o].found = {x} /\ x.id \in 1 .. lastId /\ x.name = Name(o)
                         /\ \A row \in rows : row.id = x.id => row.name = Name(o)
    BY <2>1 DEF SettingsInv, FoundHere
  <2>3. x.id \in 1 .. lastId'
    BY <2>2 DEF SettingsInv, SettingsTypeOK
  <2>4. QED
    BY <2>1, <2>2, <2>3
<1>6. Meetings'
  BY <1>1 DEF SettingsInv, Meetings, Active
<1>7. Active(r) /\ f \in FieldsOf(r)
  BY NamedField DEF Active, SettingsInv
<1>8. FoundIsThere'
  <2> SUFFICES ASSUME NEW o \in Asked, calls'[o].pc = "use", Undisturbed(o)'
               PROVE  calls'[o].found = Rows(Name(o))'
    BY DEF FoundIsThere
  <2>1. o # r /\ calls'[o] = calls[o] /\ Name(o)' = Name(o) /\ Undisturbed(o) /\ Active(o)
    BY <1>1 DEF Name, Undisturbed, Active
  <2>2. Name(o) \in FieldsOf(o) /\ Name(o) \in Fields
    BY NamedField DEF SettingsInv
  <2>3. Name(o) # f
    BY <1>7, <2>1, <2>2 DEF SettingsInv, Meetings, Undisturbed
  <2>4. Rows(Name(o))' = Rows(Name(o))
    BY <1>3, <2>1, <2>2, <2>3 DEF Rows
  <2>5. QED
    BY <2>1, <2>4 DEF SettingsInv, FoundIsThere
<1>9. ReadSoFar'
  <2> SUFFICES ASSUME NEW q \in Readers, q \notin met, FieldsOf(q) \cap met = {}
               PROVE  /\ \A i \in 1 .. Len(calls'[q].got) :
                           calls'[q].got[i] = expected[q][Asking[q].fields[i]]
                      /\ Active(q)' => /\ Len(calls'[q].got) = calls'[q].at - 1
                                       /\ \A g \in FieldsOf(q) : settled'[g] = expected[q][g]
                      /\ Len(calls'[q].got) <= Len(Asking[q].fields)
    BY DEF ReadSoFar
  <2>1. q \in Asked /\ q # r /\ calls'[q] = calls[q] /\ FieldsOf(q) \subseteq Fields
    BY <1>1, NamedField DEF Readers, SettingsInv
  <2>2. ASSUME Active(q) PROVE \A g \in FieldsOf(q) : settled'[g] = settled[g]
    <3>1. f \notin FieldsOf(q)
      BY <1>7, <2>1, <2>2 DEF SettingsInv, Meetings
    <3>2. QED
      BY <2>1, <3>1
  <2>3. Active(q)' => Active(q)
    BY <2>1 DEF Active
  <2>4. QED
    BY <2>1, <2>2, <2>3 DEF SettingsInv, ReadSoFar
<1>10. QED
  BY <1>2, <1>4, <1>5, <1>6, <1>8, <1>9 DEF SettingsInv

\* What a call does next with its fields.
LEMMA NextFieldCall ==
  ASSUME SettingsTypeOK, NEW r \in Asked, calls[r].pc = "use", NextField(r)
  PROVE  \E c \in SettingsCall : /\ calls' = [calls EXCEPT ![r] = c]
                                 /\ c.pc \in {"find", "done"}
                                 /\ c.at \in 1 .. Len(Asking[r].fields)
<1> DEFINE c == NextCall(r)
<1>1. calls' = [calls EXCEPT ![r] = c]
  BY DEF NextField
<1>2. calls[r] \in SettingsCall /\ calls[r].at \in 1 .. Len(Asking[r].fields) /\ Len(Asking[r].fields) \in Nat
  BY SettingsAssumption DEF SettingsTypeOK
<1>3. c \in SettingsCall /\ c.pc \in {"find", "done"} /\ c.at \in 1 .. Len(Asking[r].fields)
  <2>1. CASE calls[r].at < Len(Asking[r].fields)
    <3>1. c = [calls[r] EXCEPT !.pc = "find", !.at = calls[r].at + 1]
      BY <2>1 DEF NextCall
    <3>2. calls[r].at + 1 \in 1 .. Len(Asking[r].fields) /\ calls[r].at + 1 \in Nat
      BY <1>2, <2>1
    <3> HIDE DEF c
    <3>3. c.pc = "find" /\ c.at = calls[r].at + 1
      BY <1>2, <3>1 DEF SettingsCall
    <3>4. PICK n \in Nat : n = calls[r].at + 1
      BY <3>2
    <3>5. c = [calls[r] EXCEPT !.pc = "find", !.at = n]
      BY <3>1, <3>4
    <3>6. c \in SettingsCall
      BY <1>2, <3>5 DEF SettingsCall
    <3>7. QED
      BY <3>2, <3>3, <3>6
  <2>2. CASE ~(calls[r].at < Len(Asking[r].fields))
    <3>1. c = [calls[r] EXCEPT !.pc = "done"]
      BY <2>2 DEF NextCall
    <3> HIDE DEF c
    <3>3. QED
      BY <1>2, <3>1 DEF SettingsCall
  <2>3. QED
    BY <2>1, <2>2
<1>4. QED
  BY <1>1, <1>3

\* The same of one that fails.
LEMMA FailingCall ==
  ASSUME SettingsTypeOK, NEW r \in Asked, Fails(r)
  PROVE  \E c \in SettingsCall : /\ calls' = [calls EXCEPT ![r] = c]
                                 /\ c.pc = "failed" /\ c.at = calls[r].at /\ c.got = calls[r].got
<1> DEFINE c == [calls[r] EXCEPT !.pc = "failed"]
<1>1. calls' = [calls EXCEPT ![r] = c]
  BY DEF Fails
<1>2. calls[r] \in SettingsCall
  BY DEF SettingsTypeOK
<1>3. c \in SettingsCall /\ c.pc = "failed" /\ c.at = calls[r].at /\ c.got = calls[r].got
  BY <1>2 DEF SettingsCall
<1>4. QED
  BY <1>1, <1>3

LEMMA GetParamKeeps ==
  ASSUME SettingsInv, NEW r \in Asked, GetParam(r)
  PROVE  SettingsInv'
<1>1. PICK found \in {{row} : row \in Rows(Name(r))} \cup (IF Rows(Name(r)) = {} THEN {{}} ELSE {}) :
           calls' = [calls EXCEPT ![r].pc = "use", ![r].found = found]
  BY DEF GetParam
<1> DEFINE c == [calls[r] EXCEPT !.pc = "use", !.found = found]
<1>2. calls' = [calls EXCEPT ![r] = c]
  BY <1>1
<1>3. calls[r] \in SettingsCall /\ calls[r].at \in 1 .. Len(Asking[r].fields)
  BY DEF SettingsInv, SettingsTypeOK
<1>4. Rows(Name(r)) \subseteq Row
  BY DEF SettingsInv, SettingsTypeOK, Rows
<1>5. \/ found = {} /\ Rows(Name(r)) = {}
      \/ \E x \in Rows(Name(r)) : found = {x}
  BY <1>1
<1>6. /\ c \in SettingsCall /\ c.pc = "use" /\ c.at = calls[r].at
      /\ c.got = calls[r].got /\ c.found = found
  BY <1>3, <1>4, <1>5 DEF SettingsCall
<1>7. Waits(r) /\ UNCHANGED <<rows, lastId, settled, expected, met>>
  BY DEF GetParam, Waits
<1> HIDE DEF c
<1>8. QED
  BY <1>2, <1>3, <1>5, <1>6, <1>7, ReadingKeeps

\* A row that is made has an id that no row has.
LEMMA RowMade ==
  ASSUME SettingsInv, NEW r \in Asked \ Readers, calls[r].pc = "use", calls[r].found = {},
         rows' = rows \cup {[id |-> lastId + 1, name |-> Name(r), value |-> r]},
         lastId' = lastId + 1, settled' = [settled EXCEPT ![Name(r)] = r],
         NextField(r), UNCHANGED <<expected, met>>
  PROVE  SettingsInv'
<1>0. PICK f : f = Name(r)
  OBVIOUS
<1> DEFINE new == [id |-> lastId + 1, name |-> Name(r), value |-> r]
<1>1. PICK c \in SettingsCall : /\ calls' = [calls EXCEPT ![r] = c]
                                /\ c.pc \in {"find", "done"}
                                /\ c.at \in 1 .. Len(Asking[r].fields)
  BY NextFieldCall DEF SettingsInv
<1>2. Name(r) \in Fields /\ lastId \in Nat /\ rows \subseteq Row
  BY NamedField DEF SettingsInv, SettingsTypeOK
<1>3. new \in Row /\ new.id = lastId + 1 /\ new.name = Name(r)
  BY <1>2 DEF Row
<1>4. \A row \in rows : row.id \in 1 .. lastId
  BY DEF SettingsInv, IdsOnce
<1>5. rows' = rows \cup {new}
  OBVIOUS
<1> HIDE DEF new
<1>6. IdsOnce'
  BY <1>2, <1>3, <1>4, <1>5 DEF SettingsInv, IdsOnce
<1>7. \A row \in rows' : row.id \in 1 .. lastId => row \in rows
  BY <1>2, <1>3, <1>5
<1>8. settled' \in [Fields -> Asked \cup {Absent}] /\ settled'[f] = r
      /\ \A g \in Fields \ {f} : settled'[g] = settled[g]
  BY <1>0, <1>2 DEF SettingsInv, SettingsTypeOK
<1>9. f \notin met => TableOf(f)'
  <2> SUFFICES ASSUME f \notin met PROVE TableOf(f)'
    OBVIOUS
  <2>1. Rows(f) = {}
    BY <1>0 DEF SettingsInv, FoundIsThere, Undisturbed
  <2>3. {row \in rows' : row.name = f} = {new}
    BY <1>0, <1>3, <1>5, <2>1 DEF Rows
  <2>4. new = [id |-> lastId + 1, name |-> f, value |-> settled'[f]]
    BY <1>0, <1>8 DEF new
  <2>5. \E id \in 1 .. lastId' : {row \in rows' : row.name = f} = {[id |-> id, name |-> f, value |-> settled'[f]]}
    BY <1>2, <2>3, <2>4
  <2>6. QED
    BY <2>5 DEF TableOf, Rows
<1>10. \A row \in rows : row \in rows'
  BY <1>5
<1>11. \A row \in rows' : row \in rows \/ row.name = Name(r)
  BY <1>3, <1>5
<1>12. rows' \subseteq Row /\ lastId' \in Nat /\ lastId' >= lastId
  BY <1>2, <1>3, <1>5
<1>13. QED
  BY <1>0, <1>1, <1>6, <1>7, <1>8, <1>9, <1>10, <1>11, <1>12, WritingKeeps

\* The row that was found keeps its id and gets the new value.
LEMMA RowChanged ==
  ASSUME SettingsInv, NEW r \in Asked \ Readers, calls[r].pc = "use", Kept(r) # {},
         rows' = (rows \ Kept(r)) \cup {[row EXCEPT !.value = r] : row \in Kept(r)},
         settled' = [settled EXCEPT ![Name(r)] = r],
         NextField(r), UNCHANGED <<lastId, expected, met>>
  PROVE  SettingsInv'
<1>0. PICK f : f = Name(r)
  OBVIOUS
<1>1. PICK c \in SettingsCall : /\ calls' = [calls EXCEPT ![r] = c]
                                /\ c.pc \in {"find", "done"}
                                /\ c.at \in 1 .. Len(Asking[r].fields)
  BY NextFieldCall DEF SettingsInv
<1>2. f \in Fields /\ lastId \in Nat /\ rows \subseteq Row
  BY <1>0, NamedField DEF SettingsInv, SettingsTypeOK
<1>3. PICK x \in Row : /\ calls[r].found = {x} /\ x.id \in 1 .. lastId /\ x.name = f
                       /\ \A row \in rows : row.id = x.id => row.name = f
  BY <1>0 DEF SettingsInv, FoundHere, Kept
<1>4. PICK kept \in rows : kept.id = x.id
  BY <1>3 DEF Kept
<1>5. Kept(r) = {kept} /\ kept.name = f /\ kept \in Row
  BY <1>2, <1>3, <1>4 DEF SettingsInv, IdsOnce, Kept
<1> DEFINE new == [kept EXCEPT !.value = r]
<1>6. new \in Row /\ new.id = kept.id /\ new.name = f /\ new.value = r
  BY <1>5 DEF Row
<1>7. rows' = (rows \ {kept}) \cup {new}
  BY <1>5
<1> HIDE DEF new
<1>8. \A row \in rows : row.id \in 1 .. lastId /\ \A other \in rows : other.id = row.id => other = row
  BY DEF SettingsInv, IdsOnce
<1>9. IdsOnce'
  BY <1>6, <1>7, <1>8 DEF IdsOnce
<1>10. settled' \in [Fields -> Asked \cup {Absent}] /\ settled'[f] = r
       /\ \A g \in Fields \ {f} : settled'[g] = settled[g]
  BY <1>0, <1>2 DEF SettingsInv, SettingsTypeOK
<1>11. f \notin met => TableOf(f)'
  <2> SUFFICES ASSUME f \notin met PROVE TableOf(f)'
    OBVIOUS
  <2>1. Rows(f) = {x}
    BY <1>0, <1>3 DEF SettingsInv, FoundIsThere, Undisturbed
  <2>2. \A row \in rows : row.name = f => row = kept
    BY <1>5, <2>1 DEF Rows
  <2>3. {row \in rows' : row.name = f} = {new}
    BY <1>6, <1>7, <2>2
  <2>4. new = [id |-> kept.id, name |-> f, value |-> settled'[f]]
    BY <1>6, <1>10 DEF Row
  <2>5. \E id \in 1 .. lastId' : {row \in rows' : row.name = f} = {[id |-> id, name |-> f, value |-> settled'[f]]}
    BY <1>8, <2>3, <2>4
  <2>6. QED
    BY <2>5 DEF TableOf, Rows
<1>12. \A row \in rows' : row.id \in 1 .. lastId => \E old \in rows : old.id = row.id /\ old.name = row.name
  BY <1>5, <1>6, <1>7
<1>13. /\ \A row \in rows' : row \in rows \/ row.name = f
       /\ \A row \in rows : row \in rows' \/ row.name = f
       /\ rows' \subseteq Row
  BY <1>2, <1>5, <1>6, <1>7
<1>14. lastId' \in Nat /\ lastId' >= lastId
  BY <1>2
<1>15. settled' \in [Fields -> Asked \cup {Absent}] /\ \A g \in Fields \ {f} : settled'[g] = settled[g]
  BY <1>10
<1>16. c.pc \in {"find", "done", "failed"}
  BY <1>1
<1>17. QED
  BY <1>0, <1>1, <1>9, <1>11, <1>12, <1>13, <1>14, <1>15, <1>16, WritingKeeps, Zenon

\* A call that fails leaves everything as it is.
LEMMA FailKeeps ==
  ASSUME SettingsInv, NEW r \in Asked, calls[r].pc = "use", Fails(r),
         UNCHANGED <<rows, lastId, settled, expected, met>>
  PROVE  SettingsInv'
<1>1. PICK c \in SettingsCall : /\ calls' = [calls EXCEPT ![r] = c]
                                /\ c.pc = "failed" /\ c.at = calls[r].at /\ c.got = calls[r].got
  BY FailingCall DEF SettingsInv
<1>2. Waits(r) /\ c.at \in 1 .. Len(Asking[r].fields)
  BY <1>1 DEF Waits, SettingsInv, SettingsTypeOK
<1>3. QED
  BY <1>1, <1>2, ReadingKeeps

LEMMA UpdateParamKeeps ==
  ASSUME SettingsInv, NEW r \in Asked, UpdateParam(r)
  PROVE  SettingsInv'
<1>1. r \in Asked \ Readers /\ calls[r].pc = "use" /\ UNCHANGED <<expected, met>>
  BY DEF UpdateParam, Readers
<1>2. \/ /\ calls[r].found = {}
         /\ rows' = rows \cup {[id |-> lastId + 1, name |-> Name(r), value |-> r]}
         /\ lastId' = lastId + 1
         /\ settled' = [settled EXCEPT ![Name(r)] = r]
         /\ NextField(r)
      \/ /\ Kept(r) # {}
         /\ rows' = (rows \ Kept(r)) \cup {[row EXCEPT !.value = r] : row \in Kept(r)}
         /\ settled' = [settled EXCEPT ![Name(r)] = r]
         /\ NextField(r)
         /\ UNCHANGED lastId
      \/ Fails(r) /\ UNCHANGED <<rows, lastId, settled>>
  BY DEF UpdateParam
<1>3. QED
  BY <1>1, <1>2, RowMade, RowChanged, FailKeeps

\* The row that was found goes.
LEMMA DeleteParamKeeps ==
  ASSUME SettingsInv, NEW r \in Asked, DeleteParam(r)
  PROVE  SettingsInv'
<1>1. r \in Asked \ Readers /\ calls[r].pc = "use" /\ UNCHANGED <<lastId, expected, met>>
      /\ rows' = rows \ Kept(r)
  BY DEF DeleteParam, Readers
<1>2. CASE Kept(r) = {} /\ Fails(r) /\ UNCHANGED settled
  <2>1. UNCHANGED <<rows, lastId, settled, expected, met>>
    BY <1>1, <1>2
  <2>2. QED
    BY <1>1, <1>2, <2>1, FailKeeps
<1>3. CASE Kept(r) # {} /\ settled' = [settled EXCEPT ![Name(r)] = Absent] /\ NextField(r)
  <2>0. PICK f : f = Name(r)
    OBVIOUS
  <2>1. PICK c \in SettingsCall : /\ calls' = [calls EXCEPT ![r] = c]
                                  /\ c.pc \in {"find", "done"}
                                  /\ c.at \in 1 .. Len(Asking[r].fields)
    BY <1>1, <1>3, NextFieldCall DEF SettingsInv
  <2>2. f \in Fields /\ lastId \in Nat /\ rows \subseteq Row
    BY <2>0, NamedField DEF SettingsInv, SettingsTypeOK
  <2>3. PICK x \in Row : /\ calls[r].found = {x} /\ x.name = f
                         /\ \A row \in rows : row.id = x.id => row.name = f
    BY <1>1, <1>3, <2>0 DEF SettingsInv, FoundHere, Kept
  <2>4. IdsOnce'
    BY <1>1 DEF SettingsInv, IdsOnce
  <2>5. settled' \in [Fields -> Asked \cup {Absent}] /\ settled'[f] = Absent
        /\ \A g \in Fields \ {f} : settled'[g] = settled[g]
    BY <1>3, <2>0, <2>2 DEF SettingsInv, SettingsTypeOK
  <2>6. \A row \in Kept(r) : row.name = f
    BY <2>3 DEF Kept
  <2>7. f \notin met => TableOf(f)'
    <3> SUFFICES ASSUME f \notin met PROVE TableOf(f)'
      OBVIOUS
    <3>1. Rows(f) = {x}
      BY <1>1, <2>0, <2>3 DEF SettingsInv, FoundIsThere, Undisturbed
    <3>2. {row \in rows' : row.name = f} = {}
      BY <1>1, <2>3, <3>1 DEF Rows, Kept
    <3>3. QED
      BY <2>5, <3>2 DEF TableOf, Rows
  <2>8. /\ \A row \in rows' : row \in rows
        /\ \A row \in rows : row \in rows' \/ row.name = f
        /\ rows' \subseteq Row
        /\ lastId' \in Nat /\ lastId' >= lastId
    BY <1>1, <2>2, <2>6
  <2>9. \A row \in rows' : row.id \in 1 .. lastId => \E old \in rows : old.id = row.id /\ old.name = row.name
    BY <2>8
  <2>10. QED
    BY <1>1, <2>0, <2>1, <2>4, <2>5, <2>7, <2>8, <2>9, WritingKeeps
<1>4. QED
  BY <1>2, <1>3 DEF DeleteParam

\* A reader takes the value of the row it found: what was settled when it began, unless a
\* writer came between.
LEMMA TakeKeyKeeps ==
  ASSUME SettingsInv, NEW r \in Asked, TakeKey(r)
  PROVE  SettingsInv'
<1>1. r \in Readers /\ calls[r].pc = "use" /\ UNCHANGED <<rows, lastId, settled, expected, met>>
  BY DEF TakeKey
<1>2. CASE Fails(r)
  BY <1>1, <1>2, FailKeeps
<1>3. ASSUME NEW row \in calls[r].found,
             \/ /\ calls[r].at < Len(Asking[r].fields)
                /\ calls' = [calls EXCEPT ![r] = [pc |-> "find", at |-> calls[r].at + 1,
                                    found |-> {}, got |-> Append(calls[r].got, row.value)]]
             \/ /\ calls[r].at = Len(Asking[r].fields)
                /\ calls' = [calls EXCEPT ![r].pc = "done",
                                          ![r].got = Append(calls[r].got, row.value)]
      PROVE  SettingsInv'
  <2> DEFINE c == IF calls[r].at < Len(Asking[r].fields)
                  THEN [pc |-> "find", at |-> calls[r].at + 1, found |-> {},
                        got |-> Append(calls[r].got, row.value)]
                  ELSE [calls[r] EXCEPT !.pc = "done", !.got = Append(calls[r].got, row.value)]
  <2>1. /\ calls[r] \in SettingsCall /\ calls[r].at \in 1 .. Len(Asking[r].fields)
        /\ Len(Asking[r].fields) \in Nat /\ calls[r].got \in Seq(Asked) /\ calls[r].at \in Nat
    BY SettingsAssumption DEF SettingsInv, SettingsTypeOK, SettingsCall
  <2>2. calls' = [calls EXCEPT ![r] = c]
    <3>1. CASE calls[r].at < Len(Asking[r].fields)
      BY <1>3, <2>1, <3>1
    <3>2. CASE calls[r].at = Len(Asking[r].fields)
      <4> DEFINE d == [calls[r] EXCEPT !.pc = "done", !.got = Append(calls[r].got, row.value)]
      <4>1. ~(calls[r].at < Len(Asking[r].fields))
        BY <2>1, <3>2
      <4>2. c = d
        BY <4>1
      <4>3. calls' = [calls EXCEPT ![r].pc = "done", ![r].got = Append(calls[r].got, row.value)]
        BY <1>3, <4>1
      <4>4. calls' = [calls EXCEPT ![r] = d]
        BY <4>3
      <4>5. QED
        BY <4>2, <4>4
    <3>3. QED
      BY <1>3, <3>1, <3>2
  <2>3. row \in Row /\ calls[r].found = {row} /\ row.value \in Asked
    BY <1>1, <1>3 DEF SettingsInv, FoundHere, Row
  <2>4. Append(calls[r].got, row.value) \in Seq(Asked)
    BY <2>1, <2>3
  <2>5. /\ c \in SettingsCall /\ c.pc \in {"find", "done"} /\ c.at \in 1 .. Len(Asking[r].fields)
        /\ c.got = Append(calls[r].got, row.value)
        /\ c.pc = "find" => c.at = calls[r].at + 1
    <3>1. CASE calls[r].at < Len(Asking[r].fields)
      <4>1. c = [pc |-> "find", at |-> calls[r].at + 1, found |-> {},
                 got |-> Append(calls[r].got, row.value)]
        BY <3>1
      <4>2. calls[r].at + 1 \in 1 .. Len(Asking[r].fields)
        BY <2>1, <3>1
      <4> HIDE DEF c
      <4>3. QED
        BY <2>4, <4>1, <4>2 DEF SettingsCall
    <3>2. CASE calls[r].at = Len(Asking[r].fields)
      <4>1. c = [calls[r] EXCEPT !.pc = "done", !.got = Append(calls[r].got, row.value)]
        BY <2>1, <3>2
      <4> HIDE DEF c
      <4>2. QED
        BY <2>1, <2>4, <4>1 DEF SettingsCall
    <3>3. QED
      BY <1>3, <3>1, <3>2
  <2> HIDE DEF c
  <2>6. calls'[r] = c /\ \A o \in Asked \ {r} : calls'[o] = calls[o]
    BY <2>2 DEF SettingsInv, SettingsTypeOK
  <2>7. ReadSoFar'
    <3> SUFFICES ASSUME NEW q \in Readers, q \notin met, FieldsOf(q) \cap met = {}
                 PROVE  /\ \A i \in 1 .. Len(calls'[q].got) :
                             calls'[q].got[i] = expected[q][Asking[q].fields[i]]
                        /\ Active(q)' => /\ Len(calls'[q].got) = calls'[q].at - 1
                                         /\ \A f \in FieldsOf(q) : settled[f] = expected[q][f]
                        /\ Len(calls'[q].got) <= Len(Asking[q].fields)
      BY <1>1 DEF ReadSoFar
    <3>1. CASE q # r
      BY <2>6, <3>1 DEF SettingsInv, ReadSoFar, Active, Readers
    <3>2. CASE q = r
      <4>1. /\ \A i \in 1 .. Len(calls[r].got) : calls[r].got[i] = expected[r][Asking[r].fields[i]]
            /\ Len(calls[r].got) = calls[r].at - 1
            /\ \A f \in FieldsOf(r) : settled[f] = expected[r][f]
        BY <1>1, <3>2 DEF SettingsInv, ReadSoFar, Active
      <4>2. Name(r) \in FieldsOf(r) /\ Name(r) \in Fields
        BY NamedField DEF SettingsInv
      <4>3. Name(r) \notin met
        BY <3>2, <4>2
      <4>4. Rows(Name(r)) = {row}
        BY <1>1, <2>3, <3>2, <4>3 DEF SettingsInv, FoundIsThere, Undisturbed
      <4>5. row.value = settled[Name(r)]
        <5>1. PICK id \in 1 .. lastId :
                   Rows(Name(r)) = {[id |-> id, name |-> Name(r), value |-> settled[Name(r)]]}
          BY <4>2, <4>3, <4>4 DEF SettingsInv, Tables, TableOf
        <5>2. row = [id |-> id, name |-> Name(r), value |-> settled[Name(r)]]
          BY <4>4, <5>1
        <5>3. QED
          BY <5>2
      <4>6. row.value = expected[r][Asking[r].fields[calls[r].at]]
        BY <4>1, <4>2, <4>5 DEF Name
      <4>7. /\ Len(c.got) = calls[r].at
            /\ c.got[calls[r].at] = row.value
            /\ \A i \in 1 .. calls[r].at - 1 : c.got[i] = calls[r].got[i]
        BY <2>1, <2>3, <2>5, <4>1
      <4>8. \A i \in 1 .. Len(c.got) : c.got[i] = expected[r][Asking[r].fields[i]]
        <5> SUFFICES ASSUME NEW i \in 1 .. Len(c.got)
                     PROVE  c.got[i] = expected[r][Asking[r].fields[i]]
          OBVIOUS
        <5>1. calls[r].at \in Nat /\ Len(c.got) = calls[r].at
          BY <2>1, <4>7
        <5>2. CASE i = calls[r].at
          BY <4>6, <4>7, <5>2
        <5>3. CASE i \in 1 .. calls[r].at - 1
          <6>1. i \in 1 .. Len(calls[r].got)
            BY <4>1, <5>1, <5>3
          <6>2. c.got[i] = calls[r].got[i]
            BY <4>7, <5>3
          <6>3. QED
            BY <4>1, <6>1, <6>2
        <5>4. QED
          BY <5>1, <5>2, <5>3
      <4>9. Active(r)' => c.pc = "find"
        BY <2>5, <2>6 DEF Active
      <4>10. \A i \in 1 .. Len(calls'[q].got) : calls'[q].got[i] = expected[q][Asking[q].fields[i]]
        BY <2>6, <3>2, <4>8
      <4>11. Len(calls'[q].got) <= Len(Asking[q].fields)
        BY <2>1, <2>6, <3>2, <4>7
      <4>12. Active(q)' => Len(calls'[q].got) = calls'[q].at - 1
        <5>1. c.pc = "find" => Len(c.got) = c.at - 1
          BY <2>1, <2>5, <4>7
        <5>2. QED
          BY <2>6, <3>2, <4>9, <5>1
      <4>13. \A f \in FieldsOf(q) : settled[f] = expected[q][f]
        BY <3>2, <4>1
      <4>14. QED
        BY <4>10, <4>11, <4>12, <4>13
    <3>3. QED
      BY <3>1, <3>2
  <2>8. Waits(r)
    BY <1>1 DEF Waits
  <2>9. QED
    BY <1>1, <2>2, <2>5, <2>7, <2>8, ReadingKeeps
<1>4. QED
  BY <1>2, <1>3 DEF TakeKey

\* The inductive invariant holds for any fields and requests, of which any number are on
\* their way at once.
THEOREM SettingsInvCorrect == SettingsSpec => []SettingsInv
<1>1. SettingsInit => SettingsInv
  <2> SUFFICES ASSUME SettingsInit PROVE SettingsInv
    OBVIOUS
  <2>1. \A r \in Asked : 1 \in 1 .. Len(Asking[r].fields) /\ Len(Asking[r].fields) \in Nat
    BY SettingsAssumption
  <2>2. SettingsTypeOK
    BY <2>1 DEF SettingsInit, SettingsTypeOK, SettingsCall
  <2>3. IdsOnce /\ FoundHere /\ Meetings /\ Tables /\ FoundIsThere
    BY DEF SettingsInit, IdsOnce, FoundHere, Meetings, Tables, TableOf, Rows, FoundIsThere, Active
  <2>4. ReadSoFar
    <3>1. \A r \in Readers : calls[r].got = <<>> /\ Len(calls[r].got) = 0 /\ ~Active(r)
      BY DEF SettingsInit, Active, Readers
    <3>2. QED
      BY <2>1, <3>1 DEF ReadSoFar, Readers
  <2>5. QED
    BY <2>2, <2>3, <2>4 DEF SettingsInv
<1>2. SettingsInv /\ [SettingsNext]_settingsVars => SettingsInv'
  <2> SUFFICES ASSUME SettingsInv, [SettingsNext]_settingsVars PROVE SettingsInv'
    OBVIOUS
  <2>1. CASE UNCHANGED settingsVars
    <3>1. SettingsTypeOK' /\ IdsOnce' /\ FoundHere'
      BY <2>1 DEF settingsVars, SettingsInv, SettingsTypeOK, IdsOnce, FoundHere, Name
    <3>2. Meetings' /\ Tables' /\ FoundIsThere' /\ ReadSoFar'
      BY <2>1 DEF settingsVars, SettingsInv, Meetings, Tables, TableOf, Rows, FoundIsThere,
                  ReadSoFar, Active, Name, Undisturbed
    <3>3. QED
      BY <3>1, <3>2 DEF SettingsInv
  <2>2. CASE SettingsNext
    BY <2>2, BeginKeeps, GetParamKeeps, UpdateParamKeeps, DeleteParamKeeps, TakeKeyKeeps
    DEF SettingsNext
  <2>3. QED
    BY <2>1, <2>2
<1>3. QED
  BY <1>1, <1>2, PTL DEF SettingsSpec

\* What is saved is kept, and the keys that a start reads are of one state, however the
\* saves, deletions and readings of any requests mix, but for what has met a writer.
THEOREM SettingsFollowCorrect == SettingsSpec => []SettingsFollowRequests
<1>1. SettingsInv => SettingsFollowRequests
  <2> SUFFICES ASSUME SettingsInv PROVE SettingsFollowRequests
    OBVIOUS
  <2>1. TableFollowsRequests
    BY DEF SettingsInv, Tables, TableOf, TableFollowsRequests
  <2>2. KeysAreOfOneState
    BY DEF SettingsInv, ReadSoFar, KeysAreOfOneState
  <2>3. QED
    BY <2>1, <2>2 DEF SettingsFollowRequests
<1>2. QED
  BY <1>1, SettingsInvCorrect, PTL

-----------------------------------------------------------------------------
(* The player of a chart.  As long as no two loops of a player have run at *)
(* a time, it is in one of four phases, and its loop, if there is one, is   *)
(* at the candle that was drawn last.                                       *)

CandlesFrom(k) == [i \in 1 .. Candles - k + 1 |-> k + i - 1]
UpToCandle(c) == whole = 1 .. c - 1 \/ whole = 1 .. c
PlayLoop == [player : Nat, list : Seq(Nat), at : Nat, tick : Nat, last : BOOLEAN, born : Nat]

PlaybackTypeOK ==
  /\ ready \in BOOLEAN /\ playing \in BOOLEAN /\ isEnd \in BOOLEAN
  /\ isPause \in BOOLEAN /\ missing \in BOOLEAN /\ doubled \in BOOLEAN
  /\ players \in Nat /\ clicks \in Nat
  /\ loading \in {"no", "history", "candles"}
  /\ loading = "no" <=> ready
  /\ ready => players # 0
  /\ isEnd => players # 0
  /\ loops # {} => players # 0

ChartIsLoaded == ~ready /\ loops = {} /\ whole = {} /\ chart = NoCandle /\ ~playing

PlayAwaited ==
  /\ ready /\ loops = {} /\ ~playing /\ ~isEnd
  /\ \/ candles = <<>> /\ missing
     \/ \E k \in 1 .. Candles : candles = CandlesFrom(k) /\ UpToCandle(k) /\ chart \in 0 .. k

ChartHasEnded == ready /\ loops = {} /\ ~playing /\ isEnd /\ (missing \/ whole = 1 .. Candles)

\* Loop l has the candles from k on and is at candle c.
LoopIsAt(l, k, c) ==
  /\ l \in PlayLoop
  /\ k \in 1 .. Candles /\ c \in k .. Candles
  /\ l.player = players /\ l.list = CandlesFrom(k) /\ l.at = c - k + 1
  /\ lastCandle = c /\ chart = c
  /\ UpToCandle(c) /\ (l.last => whole = 1 .. c)
  /\ \/ playing /\ ~isPause /\ candles = CandlesFrom(k)
     \/ ~playing /\ isPause /\ candles = CandlesFrom(c)

ChartIsPlayed ==
  ready /\ ~isEnd /\ \E l \in loops : loops = {l} /\ \E k, c \in 1 .. Candles : LoopIsAt(l, k, c)

PlaybackInv ==
  /\ PlaybackTypeOK
  /\ doubled \/ ChartIsLoaded \/ PlayAwaited \/ ChartHasEnded \/ ChartIsPlayed

\* The candles from k on.
LEMMA CandlesOnward ==
  ASSUME NEW k \in 1 .. Candles
  PROVE  /\ CandlesFrom(k) \in Seq(Nat) /\ Len(CandlesFrom(k)) = Candles - k + 1
         /\ CandlesFrom(k) # <<>>
         /\ \A i \in 1 .. Candles - k + 1 : CandlesFrom(k)[i] = k + i - 1
<1>1. Candles \in Nat /\ Candles - k + 1 \in Nat /\ Candles - k + 1 > 0
  BY PlaybackAssumption
<1>2. \A i \in 1 .. Candles - k + 1 : k + i - 1 \in Nat
  BY <1>1
<1>3. CandlesFrom(k) \in Seq(Nat) /\ Len(CandlesFrom(k)) = Candles - k + 1
  BY <1>1, <1>2 DEF CandlesFrom
<1>4. QED
  BY <1>1, <1>3 DEF CandlesFrom

\* A pause keeps the candles from the one that is being played on.
LEMMA FromLastPlayed ==
  ASSUME NEW k \in 1 .. Candles, NEW c \in k .. Candles
  PROVE  FromLast(CandlesFrom(k), c) = CandlesFrom(c)
<1> DEFINE those == CandlesFrom(k)
           at == {i \in 1 .. Len(those) : those[i] = c}
<1>1. Candles \in Nat /\ k \in Nat /\ c \in Nat /\ c \in 1 .. Candles
  BY PlaybackAssumption
<1>2. those \in Seq(Nat) /\ Len(those) = Candles - k + 1 /\ those # <<>>
      /\ \A i \in 1 .. Candles - k + 1 : those[i] = k + i - 1
  BY CandlesOnward
<1>3. at = {c - k + 1}
  <2>1. c - k + 1 \in 1 .. Len(those) /\ those[c - k + 1] = c
    BY <1>1, <1>2
  <2>2. \A i \in 1 .. Len(those) : those[i] = c => i = c - k + 1
    BY <1>1, <1>2
  <2> HIDE DEF those
  <2>3. QED
    BY <2>1, <2>2
<1>4. (CHOOSE i \in at : TRUE) = c - k + 1
  <2>1. \E i : i \in at
    BY <1>3
  <2>2. (CHOOSE i \in at : TRUE) \in at
    BY <2>1
  <2>3. QED
    BY <1>3, <2>2
<1>5. FromLast(those, c) = SubSeq(those, c - k + 1, Len(those))
  BY <1>2, <1>3, <1>4 DEF FromLast
<1> HIDE DEF those
<1>6. c - k + 1 \in 1 .. Len(those) /\ Len(those) \in Nat
  BY <1>1, <1>2
<1>7. SubSeq(those, c - k + 1, Len(those)) = [i \in 1 .. Candles - c + 1 |-> c + i - 1]
  <2>1. SubSeq(those, c - k + 1, Len(those))
          = [i \in 1 .. (1 + Len(those)) - (c - k + 1) |-> those[(c - k + 1) + i - 1]]
    BY <1>2, <1>6
  <2>2. (1 + Len(those)) - (c - k + 1) = Candles - c + 1
    BY <1>1, <1>2
  <2>3. \A i \in 1 .. Candles - c + 1 : those[(c - k + 1) + i - 1] = c + i - 1
    BY <1>1, <1>2
  <2>4. QED
    BY <2>1, <2>2, <2>3
<1>8. QED
  BY <1>5, <1>7 DEF those, CandlesFrom

\* A loop that is alone draws its candle, which the chart takes.
LEMMA DrawsAlone ==
  ASSUME NEW l \in PlayLoop, NEW c \in Nat, l.list[l.at] = c, chart \in 0 .. c, c >= 1,
         doubled \in BOOLEAN, UpToCandle(c), Draws(l, {})
  PROVE  /\ chart' = c /\ doubled' = doubled
         /\ \E m \in PlayLoop : /\ loops' = {m}
                                /\ m.player = l.player /\ m.list = l.list /\ m.at = l.at
                                /\ UpToCandle(c)' /\ (m.last => whole' = 1 .. c)
<1>1. PICK last \in BOOLEAN : /\ loops' = {[l EXCEPT !.last = last]}
                              /\ whole' = IF last THEN whole \cup {c} ELSE whole
  <2>1. ~(c < chart)
    OBVIOUS
  <2>2. QED
    BY <2>1 DEF Draws
<1>2. chart' = c /\ doubled' = doubled
  <2>1. ~(c < chart)
    OBVIOUS
  <2>2. chart' = c /\ doubled' = (doubled \/ \E o \in {} : o.player = l.player)
    BY <2>1 DEF Draws
  <2>3. QED
    BY <2>2
<1> DEFINE m == [l EXCEPT !.last = last]
<1>3. /\ m \in PlayLoop /\ m.player = l.player /\ m.list = l.list /\ m.at = l.at /\ m.last = last
      /\ loops' = {m}
  BY <1>1 DEF PlayLoop
<1>4. (1 .. c - 1) \cup {c} = 1 .. c /\ (1 .. c) \cup {c} = 1 .. c
  OBVIOUS
<1>5. UpToCandle(c)' /\ (last => whole' = 1 .. c)
  BY <1>1, <1>4 DEF UpToCandle
<1> HIDE DEF m
<1>6. QED
  BY <1>2, <1>3, <1>5

\* A play that starts without another loop on its way.
LEMMA PlayStarts ==
  ASSUME PlaybackTypeOK, PlaybackTypeOK', NEW k \in 1 .. Candles, loops = {}, UpToCandle(k), chart \in 0 .. k,
         NEW p \in Nat, players' = p, ready', PlayFrom(p, CandlesFrom(k))
  PROVE  doubled' \/ ChartIsPlayed'
<1>0. k \in Nat /\ 1 \in 1 .. Candles - k + 1
  BY PlaybackAssumption
<1>1. CandlesFrom(k) \in Seq(Nat) /\ CandlesFrom(k) # <<>> /\ CandlesFrom(k)[1] = k /\ k \in Nat
  BY <1>0, CandlesOnward
<1> DEFINE l == [player |-> p, list |-> CandlesFrom(k), at |-> 1, tick |-> 1, last |-> FALSE, born |-> clicks']
<1>2. /\ Draws(l, {})
      /\ lastCandle' = k /\ candles' = CandlesFrom(k) /\ isPause' = FALSE /\ playing' = TRUE /\ isEnd' = FALSE
  BY <1>1 DEF PlayFrom
<1>3. l \in PlayLoop /\ l.list[l.at] = k /\ l.player = p /\ l.list = CandlesFrom(k) /\ l.at = 1
  BY <1>1 DEF PlayLoop, PlaybackTypeOK
<1> HIDE DEF l
<1>4. doubled \in BOOLEAN /\ k >= 1
  BY DEF PlaybackTypeOK
<1>5. chart' = k /\ \E m \in PlayLoop : /\ loops' = {m}
                                        /\ m.player = l.player /\ m.list = l.list /\ m.at = l.at
                                        /\ UpToCandle(k)' /\ (m.last => whole' = 1 .. k)
  BY <1>1, <1>2, <1>3, <1>4, DrawsAlone
<1>6. PICK m \in PlayLoop : /\ loops' = {m}
                            /\ m.player = l.player /\ m.list = l.list /\ m.at = l.at
                            /\ UpToCandle(k)' /\ (m.last => whole' = 1 .. k)
  BY <1>5
<1>7. LoopIsAt(m, k, k)'
  BY <1>1, <1>2, <1>3, <1>5, <1>6 DEF LoopIsAt, UpToCandle
<1>8. QED
  BY <1>2, <1>6, <1>7 DEF ChartIsPlayed

\* Every step keeps the types, and two loops that have run at a time stay noted.
LEMMA PlaybackTypes ==
  ASSUME PlaybackTypeOK, [PlaybackNext]_playbackVars
  PROVE  PlaybackTypeOK' /\ (doubled => doubled')
<1> USE DEF PlaybackTypeOK
<1>1. CASE UNCHANGED playbackVars
  BY <1>1 DEF playbackVars, uiVars, playerVars
<1>2. CASE HistoryLoaded
  BY <1>2 DEF HistoryLoaded, uiVars, playerVars
<1>3. ASSUME NEW p \in Nat, NEW those, PlayFrom(p, those)
      PROVE  /\ playing' \in BOOLEAN /\ isEnd' \in BOOLEAN /\ isPause' \in BOOLEAN /\ doubled' \in BOOLEAN
             /\ doubled => doubled'
             /\ those # <<>> => ~isEnd'
  BY <1>3 DEF PlayFrom, Draws
<1>4. CASE CandlesLoaded
  <2>1. PICK those \in {AllCandles, <<>>} :
          /\ missing' = (those = <<>>)
          /\ \/ /\ players = 0
                /\ candles' = those
                /\ isPause' = FALSE
                /\ UNCHANGED <<playing, isEnd, lastCandle, loops, chart, whole, doubled>>
             \/ players > 0 /\ PlayFrom(players + 1, those)
    BY <1>4 DEF CandlesLoaded
  <2>2. loading' = "no" /\ ready' = TRUE /\ players' = players + 1 /\ UNCHANGED clicks
    BY <1>4 DEF CandlesLoaded
  <2>3. missing' \in BOOLEAN
    BY <2>1
  <2>4. /\ playing' \in BOOLEAN /\ isEnd' \in BOOLEAN /\ isPause' \in BOOLEAN /\ doubled' \in BOOLEAN
        /\ doubled => doubled'
    <3>1. players + 1 \in Nat
      OBVIOUS
    <3>2. CASE players > 0 /\ PlayFrom(players + 1, those)
      BY <1>3, <3>1, <3>2
    <3>3. CASE isPause' = FALSE /\ UNCHANGED <<playing, isEnd, doubled>>
      BY <3>3
    <3>4. QED
      BY <2>1, <3>2, <3>3
  <2>5. players' \in Nat /\ players' # 0
    BY <2>2
  <2>6. QED
    BY <2>2, <2>3, <2>4, <2>5
<1>5. CASE ClickPlay
  <2>1. /\ playing' \in BOOLEAN /\ isEnd' \in BOOLEAN /\ isPause' \in BOOLEAN /\ doubled' \in BOOLEAN
        /\ doubled => doubled'
    BY <1>3, <1>5 DEF ClickPlay
  <2>2. clicks' = clicks + 1 /\ ready /\ UNCHANGED <<ready, loading, players, missing>>
    BY <1>5 DEF ClickPlay, Clicked
  <2>3. clicks' \in Nat
    BY <2>2
  <2>4. QED
    BY <2>1, <2>2, <2>3, Zenon
<1>6. CASE ClickPause
  <2>1. clicks' \in Nat
    BY <1>6 DEF ClickPause, Clicked
  <2>2. /\ playing' = FALSE /\ isPause' = TRUE
        /\ UNCHANGED <<ready, isEnd, loading, missing, doubled, players, loops>>
    BY <1>6 DEF ClickPause, Clicked, Pause
  <2>3. QED
    BY <2>1, <2>2, Zenon
<1>7. CASE ClickAgain
  <2>1. clicks' \in Nat
    BY <1>7 DEF ClickAgain, Clicked
  <2>2. /\ ready' = FALSE /\ loading' = "history"
        /\ UNCHANGED <<playing, isEnd, isPause, players, missing, doubled, loops>>
    BY <1>7 DEF ClickAgain, Clicked, playerVars
  <2>3. QED
    BY <2>1, <2>2
<1>8. ASSUME NEW l \in loops, WakesInCandle(l) \/ WakesAfterCandle(l)
      PROVE  /\ UNCHANGED <<uiVars, loading, players, isPause, missing, clicks>>
             /\ doubled' \in BOOLEAN /\ (doubled => doubled')
  BY <1>8 DEF WakesInCandle, WakesAfterCandle, Draws, playerVars
<1>9. ASSUME NEW l \in loops, WakesAtEnd(l)
      PROVE  /\ playing' = FALSE /\ isEnd' = TRUE /\ isPause' \in BOOLEAN
             /\ UNCHANGED <<ready, loading, players, missing, doubled, clicks>>
  BY <1>9 DEF WakesAtEnd, Pause, playerVars
<1>10. CASE \E l \in loops : WakesInCandle(l) \/ WakesAfterCandle(l)
  BY <1>8, <1>10 DEF uiVars
<1>11. CASE \E l \in loops : WakesAtEnd(l)
  BY <1>9, <1>11
<1> HIDE DEF PlaybackTypeOK
<1>12. QED
  BY <1>1, <1>2, <1>4, <1>5, <1>6, <1>7, <1>10, <1>11 DEF PlaybackNext

\* A loop that wakes up.
LEMMA WakingKeeps ==
  ASSUME PlaybackInv, PlaybackTypeOK', ~doubled, NEW l \in loops,
         WakesInCandle(l) \/ WakesAfterCandle(l) \/ WakesAtEnd(l)
  PROVE  doubled' \/ PlayAwaited' \/ ChartHasEnded' \/ ChartIsPlayed'
<1>1. ready /\ ~isEnd /\ loops = {l} /\ \E k, c \in 1 .. Candles : LoopIsAt(l, k, c)
  BY DEF PlaybackInv, ChartIsLoaded, PlayAwaited, ChartHasEnded, ChartIsPlayed
<1>2. PICK k \in 1 .. Candles, c \in 1 .. Candles : LoopIsAt(l, k, c)
  BY <1>1
<1>3. /\ Candles \in Nat /\ k \in Nat /\ c \in Nat /\ c \in k .. Candles
      /\ l \in PlayLoop /\ l.player = players /\ l.list = CandlesFrom(k) /\ l.at = c - k + 1
      /\ lastCandle = c /\ chart = c /\ UpToCandle(c) /\ (l.last => whole = 1 .. c)
      /\ \/ playing /\ ~isPause /\ candles = CandlesFrom(k)
         \/ ~playing /\ isPause /\ candles = CandlesFrom(c)
  BY <1>2, PlaybackAssumption DEF LoopIsAt
<1>4. /\ CandlesFrom(k) \in Seq(Nat) /\ Len(CandlesFrom(k)) = Candles - k + 1
      /\ \A i \in 1 .. Candles - k + 1 : CandlesFrom(k)[i] = k + i - 1
  BY CandlesOnward
<1>5. loops \ {l} = {}
  BY <1>1
<1>6. doubled \in BOOLEAN /\ players' \in Nat
  BY DEF PlaybackInv, PlaybackTypeOK
<1>7. CASE WakesInCandle(l)
  <2>1. UNCHANGED <<ready, playing, isEnd, players, candles, lastCandle, isPause, missing>>
    BY <1>7 DEF WakesInCandle, uiVars, playerVars
  <2>2. CASE Draws([l EXCEPT !.tick = @ + 1], {})
    <3> DEFINE d == [l EXCEPT !.tick = @ + 1]
    <3>1. d \in PlayLoop /\ d.player = l.player /\ d.list = l.list /\ d.at = l.at /\ Draws(d, {})
      <4>1. Draws(d, {})
        BY <2>2
      <4>2. l.tick + 1 \in Nat
        BY <1>3 DEF PlayLoop
      <4>3. d \in PlayLoop /\ d.player = l.player /\ d.list = l.list /\ d.at = l.at
        BY <1>3, <4>2 DEF PlayLoop
      <4>4. QED
        BY <4>1, <4>3
    <3> HIDE DEF d
    <3>2. d.list[d.at] = c /\ chart \in 0 .. c /\ c >= 1
      BY <1>3, <1>4, <3>1
    <3>3. chart' = c /\ \E m \in PlayLoop : /\ loops' = {m}
                                            /\ m.player = d.player /\ m.list = d.list /\ m.at = d.at
                                            /\ UpToCandle(c)' /\ (m.last => whole' = 1 .. c)
      BY <1>3, <1>6, <3>1, <3>2, DrawsAlone
    <3>4. PICK m \in PlayLoop : /\ loops' = {m}
                                /\ m.player = d.player /\ m.list = d.list /\ m.at = d.at
                                /\ UpToCandle(c)' /\ (m.last => whole' = 1 .. c)
      BY <3>3
    <3>5. LoopIsAt(m, k, c)'
      BY <1>3, <2>1, <3>1, <3>3, <3>4 DEF LoopIsAt, UpToCandle
    <3>6. QED
      BY <1>1, <2>1, <3>4, <3>5 DEF ChartIsPlayed
  <2>3. CASE Paused(l) /\ loops' = {} /\ UNCHANGED <<chart, whole, doubled>>
    <3>1. isPause /\ ~playing /\ candles = CandlesFrom(c)
      BY <1>3, <2>3 DEF Paused
    <3>2. UpToCandle(c)' /\ chart' \in 0 .. c
      BY <1>3, <2>3 DEF UpToCandle
    <3>3. QED
      BY <1>1, <1>3, <2>1, <2>3, <3>1, <3>2 DEF PlayAwaited
  <2>4. QED
    BY <1>5, <1>7, <2>2, <2>3 DEF WakesInCandle
<1>8. CASE WakesAfterCandle(l)
  <2>1. /\ UNCHANGED <<ready, playing, isEnd, players, candles, isPause, missing>>
        /\ l.last /\ l.at < Len(l.list) /\ lastCandle' = l.list[l.at + 1]
    BY <1>3, <1>8 DEF WakesAfterCandle, uiVars
  <2>2. whole = 1 .. c /\ c + 1 \in k .. Candles /\ l.list[l.at + 1] = c + 1 /\ lastCandle' = c + 1
    <3>1. c - k + 1 < Candles - k + 1
      BY <1>3, <1>4, <2>1
    <3>2. (c - k + 1) + 1 \in 1 .. Candles - k + 1 /\ k + ((c - k + 1) + 1) - 1 = c + 1
      BY <1>3, <3>1
    <3>3. CandlesFrom(k)[(c - k + 1) + 1] = c + 1
      BY <1>4, <3>2
    <3>4. l.list[l.at + 1] = c + 1
      BY <1>3, <3>3
    <3>5. QED
      BY <1>3, <2>1, <3>1, <3>4
  <2>3. CASE ~Paused(l) /\ Draws([l EXCEPT !.at = @ + 1, !.tick = 1, !.last = FALSE], {})
    <3> DEFINE d == [l EXCEPT !.at = @ + 1, !.tick = 1, !.last = FALSE]
    <3>1. d \in PlayLoop /\ d.player = l.player /\ d.list = l.list /\ d.at = l.at + 1 /\ Draws(d, {})
      <4>1. Draws(d, {})
        BY <2>3
      <4>2. l.at + 1 \in Nat
        BY <1>3 DEF PlayLoop
      <4>3. d \in PlayLoop /\ d.player = l.player /\ d.list = l.list /\ d.at = l.at + 1
        BY <1>3, <4>2 DEF PlayLoop
      <4>4. QED
        BY <4>1, <4>3
    <3> HIDE DEF d
    <3>2. d.list[d.at] = c + 1 /\ chart \in 0 .. c + 1 /\ c + 1 >= 1 /\ c + 1 \in Nat /\ UpToCandle(c + 1)
      BY <1>3, <2>2, <3>1 DEF UpToCandle
    <3>3. chart' = c + 1 /\ \E m \in PlayLoop : /\ loops' = {m}
                                            /\ m.player = d.player /\ m.list = d.list /\ m.at = d.at
                                            /\ UpToCandle(c + 1)' /\ (m.last => whole' = 1 .. c + 1)
      BY <1>6, <3>1, <3>2, DrawsAlone
    <3>4. PICK m \in PlayLoop : /\ loops' = {m}
                                /\ m.player = d.player /\ m.list = d.list /\ m.at = d.at
                                /\ UpToCandle(c + 1)' /\ (m.last => whole' = 1 .. c + 1)
      BY <3>3
    <3>5. playing /\ ~isPause /\ candles = CandlesFrom(k)
      BY <1>3, <2>3 DEF Paused
    <3>6. LoopIsAt(m, k, c + 1)'
      BY <1>3, <2>1, <2>2, <3>1, <3>3, <3>4, <3>5 DEF LoopIsAt, UpToCandle
    <3>7. c + 1 \in 1 .. Candles
      BY <1>3, <2>2
    <3>8. QED
      BY <1>1, <2>1, <3>4, <3>6, <3>7 DEF ChartIsPlayed
  <2>4. CASE Paused(l) /\ loops' = {} /\ UNCHANGED <<chart, whole, doubled>>
    <3>1. isPause /\ ~playing /\ candles = CandlesFrom(c)
      BY <1>3, <2>4 DEF Paused
    <3>2. UpToCandle(c)' /\ chart' \in 0 .. c
      BY <1>3, <2>4 DEF UpToCandle
    <3>3. QED
      BY <1>1, <1>3, <2>1, <2>4, <3>1, <3>2 DEF PlayAwaited
  <2>5. QED
    BY <1>5, <1>8, <2>3, <2>4 DEF WakesAfterCandle
<1>9. CASE WakesAtEnd(l)
  <2>1. l.last /\ l.at = Len(l.list) /\ loops' = {} /\ playing' = FALSE /\ isEnd' = TRUE
        /\ UNCHANGED <<ready, whole>>
    BY <1>5, <1>9 DEF WakesAtEnd
  <2>2. c = Candles /\ whole = 1 .. c
    BY <1>3, <1>4, <2>1
  <2>3. QED
    BY <1>1, <2>1, <2>2 DEF ChartHasEnded
<1>10. QED
  BY <1>7, <1>8, <1>9

\* The button.
LEMMA ClickKeeps ==
  ASSUME PlaybackInv, PlaybackTypeOK', ~doubled, ClickPlay \/ ClickPause \/ ClickAgain
  PROVE  doubled' \/ ChartIsLoaded' \/ PlayAwaited' \/ ChartHasEnded' \/ ChartIsPlayed'
<1>0. Candles \in Nat
  BY PlaybackAssumption
<1>1. CASE ClickPlay
  <2>1. /\ ready /\ ~isEnd /\ ~playing /\ PlayFrom(players, candles)
        /\ UNCHANGED <<ready, players, missing>>
    BY <1>1 DEF ClickPlay, Clicked
  <2>2. CASE loops = {} /\ candles = <<>> /\ missing
    BY <2>1, <2>2 DEF PlayFrom, ChartHasEnded
  <2>3. ASSUME NEW k \in 1 .. Candles, candles = CandlesFrom(k), UpToCandle(k), chart \in 0 .. k, loops = {}
        PROVE  doubled' \/ ChartIsPlayed'
    <3>1. players \in Nat /\ PlaybackTypeOK
      BY DEF PlaybackInv, PlaybackTypeOK
    <3>2. QED
      BY <2>1, <2>3, <3>1, PlayStarts
  <2>4. ASSUME NEW l \in loops, NEW k \in 1 .. Candles, NEW c \in 1 .. Candles, LoopIsAt(l, k, c)
        PROVE  doubled'
    <3>1. candles = CandlesFrom(c) /\ chart = c /\ l.player = players
      BY <2>1, <2>4 DEF LoopIsAt
    <3>2. CandlesFrom(c) # <<>> /\ CandlesFrom(c)[1] = c /\ c \in Nat
      <4>1. 1 \in 1 .. Candles - c + 1 /\ c + 1 - 1 = c /\ c \in Nat
        BY <1>0
      <4>2. QED
        BY <4>1, CandlesOnward
    <3> DEFINE n == [player |-> players, list |-> candles, at |-> 1, tick |-> 1, last |-> FALSE,
                     born |-> clicks']
    <3>3. Draws(n, loops) /\ n.player = players /\ n.list[n.at] = c
      BY <2>1, <3>1, <3>2 DEF PlayFrom
    <3> HIDE DEF n
    <3>4. ~(c < chart)
      BY <3>1, <3>2
    <3>5. doubled' = (doubled \/ \E o \in loops : o.player = n.player)
      BY <3>3, <3>4 DEF Draws
    <3>6. QED
      BY <3>1, <3>3, <3>5
  <2>5. PlayAwaited \/ ChartIsPlayed
    BY <2>1 DEF PlaybackInv, ChartIsLoaded, ChartHasEnded
  <2>6. QED
    BY <2>2, <2>3, <2>4, <2>5 DEF PlayAwaited, ChartIsPlayed
<1>2. CASE ClickPause
  <2>1. /\ ready /\ ~isEnd /\ playing /\ playing' = FALSE
        /\ isPause' = TRUE /\ candles' = FromLast(candles, lastCandle)
        /\ UNCHANGED <<ready, isEnd, loops, chart, whole, doubled, players, lastCandle>>
    BY <1>2 DEF ClickPause, Clicked, Pause
  <2>2. ChartIsPlayed
    BY <2>1 DEF PlaybackInv, ChartIsLoaded, PlayAwaited, ChartHasEnded
  <2>3. PICK l \in loops : loops = {l} /\ \E k, c \in 1 .. Candles : LoopIsAt(l, k, c)
    BY <2>2 DEF ChartIsPlayed
  <2>4. PICK k \in 1 .. Candles, c \in 1 .. Candles : LoopIsAt(l, k, c)
    BY <2>3
  <2>5. candles' = CandlesFrom(c)
    BY <2>1, <2>4, FromLastPlayed DEF LoopIsAt
  <2>6. LoopIsAt(l, k, c)'
    BY <2>1, <2>4, <2>5 DEF LoopIsAt, UpToCandle
  <2>7. QED
    BY <2>1, <2>3, <2>6 DEF ChartIsPlayed
<1>3. CASE ClickAgain
  <2>1. isEnd /\ ready /\ ready' = FALSE /\ chart' = NoCandle /\ whole' = {} /\ UNCHANGED <<playing, loops>>
    BY <1>3 DEF ClickAgain, Clicked
  <2>2. ChartHasEnded
    BY <2>1 DEF PlaybackInv, ChartIsLoaded, PlayAwaited, ChartIsPlayed
  <2>3. QED
    BY <2>1, <2>2 DEF ChartHasEnded, ChartIsLoaded
<1>4. QED
  BY <1>1, <1>2, <1>3

\* The chart and its candles arrive.
LEMMA LoadedKeeps ==
  ASSUME PlaybackInv, PlaybackTypeOK', ~doubled, HistoryLoaded \/ CandlesLoaded
  PROVE  doubled' \/ ChartIsLoaded' \/ PlayAwaited' \/ ChartHasEnded' \/ ChartIsPlayed'
<1>1. ChartIsLoaded /\ PlaybackTypeOK
  BY DEF PlaybackInv, PlaybackTypeOK, PlayAwaited, ChartHasEnded, ChartIsPlayed, HistoryLoaded, CandlesLoaded
<1>2. CASE HistoryLoaded
  BY <1>1, <1>2 DEF HistoryLoaded, ChartIsLoaded, uiVars
<1>3. CASE CandlesLoaded
  <2>1. PICK those \in {AllCandles, <<>>} :
          /\ missing' = (those = <<>>)
          /\ \/ /\ players = 0
                /\ candles' = those
                /\ isPause' = FALSE
                /\ UNCHANGED <<playing, isEnd, lastCandle, loops, chart, whole, doubled>>
             \/ players > 0 /\ PlayFrom(players + 1, those)
    BY <1>3 DEF CandlesLoaded
  <2>2. ready' /\ players' = players + 1
    BY <1>3 DEF CandlesLoaded
  <2>3. Candles \in Nat /\ 1 \in 1 .. Candles
    BY PlaybackAssumption
  <2>4. AllCandles = CandlesFrom(1) /\ AllCandles # <<>>
    <3>1. AllCandles = CandlesFrom(1)
      BY <2>3 DEF AllCandles, CandlesFrom
    <3>2. QED
      BY <2>3, <3>1, CandlesOnward
  <2>5. UpToCandle(1) /\ chart \in 0 .. 1 /\ chart = 0
    BY <1>1 DEF ChartIsLoaded, UpToCandle, NoCandle
  <2>6. CASE players = 0
    <3>1. candles' = those /\ UNCHANGED <<playing, isEnd, loops, chart, whole>>
      BY <2>1, <2>6
    <3>2. ~isEnd
      BY <1>1, <2>6 DEF PlaybackTypeOK
    <3>3. UpToCandle(1)' /\ chart' \in 0 .. 1
      BY <2>5, <3>1 DEF UpToCandle
    <3>4. PlayAwaited'
      BY <1>1, <2>1, <2>2, <2>3, <2>4, <3>1, <3>2, <3>3 DEF PlayAwaited, ChartIsLoaded
    <3>5. QED
      BY <3>4
  <2>7. CASE players > 0 /\ PlayFrom(players + 1, those)
    <3>1. CASE those = <<>>
      BY <1>1, <2>1, <2>2, <2>7, <3>1 DEF PlayFrom, ChartHasEnded, ChartIsLoaded
    <3>2. CASE those # <<>>
      <4>1. PlayFrom(players + 1, CandlesFrom(1)) /\ players + 1 \in Nat /\ loops = {}
        BY <1>1, <2>1, <2>4, <2>7, <3>2 DEF PlaybackTypeOK, ChartIsLoaded
      <4>2. QED
        BY <1>1, <2>2, <2>3, <2>5, <4>1, PlayStarts
    <3>3. QED
      BY <3>1, <3>2
  <2>8. QED
    BY <2>1, <2>6, <2>7
<1>4. QED
  BY <1>2, <1>3

\* The inductive invariant holds for charts and candles of any length and any clicks.
THEOREM PlaybackInvCorrect == PlaybackSpec => []PlaybackInv
<1>1. PlaybackInit => PlaybackInv
  <2> SUFFICES ASSUME PlaybackInit PROVE PlaybackInv
    OBVIOUS
  <2>1. PlaybackTypeOK
    BY DEF PlaybackInit, PlaybackTypeOK
  <2>2. ChartIsLoaded
    BY DEF PlaybackInit, ChartIsLoaded
  <2>3. QED
    BY <2>1, <2>2 DEF PlaybackInv
<1>2. PlaybackInv /\ [PlaybackNext]_playbackVars => PlaybackInv'
  <2> SUFFICES ASSUME PlaybackInv, [PlaybackNext]_playbackVars PROVE PlaybackInv'
    OBVIOUS
  <2>1. PlaybackTypeOK' /\ (doubled => doubled')
    BY PlaybackTypes DEF PlaybackInv
  <2>2. CASE doubled
    BY <2>1, <2>2 DEF PlaybackInv
  <2>3. CASE ~doubled
    <3>1. CASE UNCHANGED playbackVars
      BY <2>1, <3>1 DEF playbackVars, uiVars, playerVars, PlaybackInv, ChartIsLoaded, PlayAwaited,
                        ChartHasEnded, ChartIsPlayed, LoopIsAt, UpToCandle
    <3>2. CASE PlaybackNext
      BY <2>1, <2>3, <3>2, WakingKeeps, ClickKeeps, LoadedKeeps DEF PlaybackNext, PlaybackInv
    <3>3. QED
      BY <3>1, <3>2
  <2>4. QED
    BY <2>2, <2>3
<1>3. QED
  BY <1>1, <1>2, PTL DEF PlaybackSpec

\* Until two loops draw on one chart, its end comes when every candle was drawn to its end,
\* and while the button says that it plays a loop of the current player is on its way.
THEOREM PlaybackFollowsCorrect == PlaybackSpec => []PlaybackFollowsButtons
<1>1. PlaybackInv => PlaybackFollowsButtons
  <2> SUFFICES ASSUME PlaybackInv PROVE PlaybackFollowsButtons
    OBVIOUS
  <2>1. EndShowsAll
    BY DEF PlaybackInv, ChartIsLoaded, PlayAwaited, ChartHasEnded, ChartIsPlayed, EndShowsAll
  <2>2. PlayingIsPlayed
    BY DEF PlaybackInv, ChartIsLoaded, PlayAwaited, ChartHasEnded, ChartIsPlayed, LoopIsAt, PlayingIsPlayed
  <2>3. QED
    BY <2>1, <2>2 DEF PlaybackFollowsButtons
<1>2. QED
  BY <1>1, PlaybackInvCorrect, PTL
-----------------------------------------------------------------------------
(* The report of a scenario.                                               *)

\* The times that are added up, and what they say of chart j.
Done == DOMAIN charts[1] \ left

LastOf(j, times) ==
  LET got == times \cap DOMAIN charts[j] IN
  IF got = {} THEN NoNumber ELSE charts[j][Max(got)]

AreCharts(cs) == \E n \in Nat \ {0} :
  cs \in [1 .. n -> UNION {[times -> Profits] : times \in (SUBSET RunTimes) \ {{}}}]

Amounts == Nat \cup {NoNumber}

\* What is added up is a beginning of the first chart's times.
TimesInOrder ==
  /\ left \subseteq DOMAIN charts[1]
  /\ \A t \in Done, u \in left : t < u
  /\ IsFiniteSet(Done)

SeriesSoFar ==
  /\ series \in Seq(Int \cup {NoNumber}) /\ Len(series) = Cardinality(Done)
  /\ \A t \in Done : series[Cardinality({u \in Done : u <= t})] = TrueTotal(t)

LastKnown ==
  /\ lastProfit \in [DOMAIN charts -> Amounts]
  /\ \A j \in DOMAIN charts : lastProfit[j] = LastOf(j, Done)

LowestSoFar ==
  /\ drawdownMax \in Int /\ drawdownMax <= 0
  /\ \A t \in Done : TrueTotal(t) # NoNumber => TrueTotal(t) \in Int /\ drawdownMax <= -TrueTotal(t)
  /\ \/ drawdownMax = 0
     \/ \E t \in Done : TrueTotal(t) # NoNumber /\ drawdownMax = -TrueTotal(t)

ResultAtEnd == left = {} => profitResult = TrueTotal(Max(DOMAIN charts[1]))

ReportInv ==
  \/ ReportInit
  \/ /\ AreCharts(charts)
     /\ TimesInOrder /\ SeriesSoFar /\ LastKnown /\ LowestSoFar /\ ResultAtEnd
     /\ built => left = {}

\* The greatest element is the only one of its kind.
LEMMA MaxIs ==
  ASSUME NEW S, NEW m \in S, S \subseteq Int, \A x \in S : x <= m
  PROVE  Max(S) = m
<1>1. \A y \in S : (\A x \in S : x <= y) => y = m
  BY SMTT(30)
<1>2. Max(S) = CHOOSE y \in S : \A x \in S : y >= x
  BY DEF Max
<1>3. \A y : (y \in S /\ \A x \in S : y >= x) <=> y = m
  BY <1>1
<1>4. QED
  BY <1>2, <1>3

LEMMA MinIs ==
  ASSUME NEW S, NEW m \in S, S \subseteq Int, \A x \in S : m <= x
  PROVE  Min(S) = m
<1>1. \A y \in S : (\A x \in S : y <= x) => y = m
  BY SMTT(30)
<1>2. Min(S) = CHOOSE y \in S : \A x \in S : y =< x
  BY DEF Min
<1>3. \A y : (y \in S /\ \A x \in S : y <= x) <=> y = m
  BY <1>1
<1>4. QED
  BY <1>2, <1>3

\* A total is a number, unless one of its items is not.
LEMMA TotalType ==
  ASSUME NEW n \in Nat, NEW items, DOMAIN items = 1 .. n, items \in Seq(Amounts)
  PROVE  Total(items) \in Int \cup {NoNumber}
<1>1. Len(items) = n
  OBVIOUS
<1>2. CASE \A j \in 1 .. n : items[j] # NoNumber
  <2>1. \A j \in 1 .. n : items[j] \in Int
    BY <1>2 DEF Amounts
  <2>2. SumTo(items, n) \in Int
    BY <2>1, SumType
  <2>3. QED
    BY <1>1, <1>2, <2>2 DEF Total
<1>3. CASE \E j \in 1 .. n : items[j] = NoNumber
  BY <1>3 DEF Total
<1>4. QED
  BY <1>2, <1>3

\* The charts, their times and their profits.
LEMMA ChartsTyped ==
  ASSUME NEW cs, AreCharts(cs)
  PROVE  /\ cs # <<>> /\ 1 \in DOMAIN cs
         /\ \E n \in Nat : DOMAIN cs = 1 .. n
         /\ \A j \in DOMAIN cs : /\ DOMAIN cs[j] \subseteq Nat /\ DOMAIN cs[j] # {}
                                 /\ \A t \in DOMAIN cs[j] : cs[j][t] \in Nat
<1> DEFINE Charts == UNION {[times -> Profits] : times \in (SUBSET RunTimes) \ {{}}}
<1>1. ASSUME NEW ch \in Charts
      PROVE  DOMAIN ch \subseteq Nat /\ DOMAIN ch # {} /\ \A t \in DOMAIN ch : ch[t] \in Nat
  <2>1. PICK times \in (SUBSET RunTimes) \ {{}} : ch \in [times -> Profits]
    BY <1>1
  <2>2. /\ DOMAIN ch = times /\ \A t \in times : ch[t] \in Profits
        /\ times \subseteq RunTimes /\ times # {}
    BY <2>1
  <2>3. QED
    BY <2>2, ReportAssumption
<1> HIDE DEF Charts
<1>2. PICK n \in Nat \ {0} : cs \in [1 .. n -> Charts]
  BY DEF AreCharts, Charts
<1>3. DOMAIN cs = 1 .. n /\ 1 \in 1 .. n /\ cs # <<>>
  BY <1>2
<1>4. QED
  BY <1>1, <1>2, <1>3

LEMMA ReadReportsKeeps == ASSUME ReportInit, ReadReports PROVE ReportInv'
<1>1. AreCharts(charts')
  <2>1. MaxCharts \in Nat
    BY ReportAssumption
  <2>2. PICK n \in 1 .. MaxCharts :
          charts' \in [1 .. n -> UNION {[times -> Profits] : times \in (SUBSET RunTimes) \ {{}}}]
    BY DEF ReadReports
  <2>3. n \in Nat \ {0}
    BY <2>1
  <2>4. QED
    BY <2>2, <2>3 DEF AreCharts
<1>2. /\ left' = DOMAIN charts'[1] /\ lastProfit' = [j \in DOMAIN charts' |-> NoNumber]
      /\ series' = <<>> /\ drawdownMax' = 0 /\ profitResult' = 0 /\ built' = FALSE
  BY DEF ReadReports, ReportInit
<1>3. Done' = {}
  BY <1>2 DEF Done
<1>4. IsFiniteSet({}) /\ Cardinality({}) = 0
  BY FS_EmptySet
<1>5. TimesInOrder'
  BY <1>2, <1>3, <1>4 DEF TimesInOrder
<1>6. SeriesSoFar'
  BY <1>2, <1>3, <1>4 DEF SeriesSoFar
<1>7. LastKnown'
  BY <1>2, <1>3 DEF LastKnown, LastOf, Amounts
<1>8. LowestSoFar'
  BY <1>2, <1>3 DEF LowestSoFar
<1>9. left' # {}
  <2>1. DOMAIN charts'[1] # {}
    BY <1>1, ChartsTyped
  <2>2. QED
    BY <1>2, <2>1
<1>10. QED
  BY <1>1, <1>2, <1>5, <1>6, <1>7, <1>8, <1>9 DEF ReportInv, ResultAtEnd

\* One round adds up what is last known of every chart.
LEMMA ItemsLastKnown ==
  ASSUME AreCharts(charts), TimesInOrder, LastKnown, NEW time \in left,
         \A u \in left : time <= u
  PROVE  /\ \A j \in DOMAIN charts : /\ Item(j, time) = LastOf(j, Done \cup {time})
                                     /\ Item(j, time) = Known(j, time)
                                     /\ Item(j, time) \in Amounts
         /\ \A u \in DOMAIN charts[1] : u <= time <=> u \in Done \cup {time}
<1>1. /\ DOMAIN charts[1] \subseteq Nat
      /\ \A j \in DOMAIN charts : /\ DOMAIN charts[j] \subseteq Nat
                                  /\ \A t \in DOMAIN charts[j] : charts[j][t] \in Nat
  BY ChartsTyped
<1>2. time \in Nat /\ Done \subseteq Nat /\ left \subseteq Nat
  BY <1>1 DEF TimesInOrder, Done
<1>3. \A u \in Done : u < time
  BY DEF TimesInOrder
<1>4. ASSUME NEW u \in DOMAIN charts[1] PROVE u <= time <=> u \in Done \cup {time}
  <2>1. CASE u \in Done
    <3>1. u < time /\ u \in Nat
      BY <1>2, <1>3, <2>1
    <3>2. QED
      BY <1>2, <2>1, <3>1
  <2>2. CASE u \in left
    BY <1>2, <2>2 DEF Done
  <2>3. QED
    BY <2>1, <2>2 DEF Done
<1>5. ASSUME NEW j \in DOMAIN charts
      PROVE  /\ Item(j, time) = LastOf(j, Done \cup {time})
             /\ Item(j, time) = Known(j, time)
             /\ Item(j, time) \in Amounts
  <2>1. {t \in DOMAIN charts[1] \cap DOMAIN charts[j] : t <= time}
          = (Done \cup {time}) \cap DOMAIN charts[j]
    <3>1. Done \cup {time} \subseteq DOMAIN charts[1]
      BY DEF TimesInOrder, Done
    <3>2. QED
      BY <1>4, <3>1
  <2>2. Known(j, time) = LastOf(j, Done \cup {time})
    BY <2>1 DEF Known, LastOf
  <2>3. CASE time \in DOMAIN charts[j]
    <3> DEFINE got == (Done \cup {time}) \cap DOMAIN charts[j]
    <3>1. time \in got /\ got \subseteq Int
      <4>1. Done \cup {time} \subseteq Int
        BY <1>2
      <4>2. QED
        BY <2>3, <4>1
    <3>2. ASSUME NEW t \in got PROVE t <= time
      <4>1. t \in Nat /\ (t = time \/ t < time)
        BY <1>2, <1>3
      <4>2. QED
        BY <1>2, <4>1
    <3> HIDE DEF got
    <3>3. Max(got) = time /\ got # {}
      BY <3>1, <3>2, MaxIs
    <3>4. LastOf(j, Done \cup {time}) = charts[j][time]
      BY <3>3 DEF LastOf, got
    <3>5. QED
      BY <1>1, <2>2, <2>3, <3>4 DEF Item, Amounts
  <2>4. CASE time \notin DOMAIN charts[j]
    <3>1. (Done \cup {time}) \cap DOMAIN charts[j] = Done \cap DOMAIN charts[j]
      BY <2>4
    <3>2. LastOf(j, Done \cup {time}) = LastOf(j, Done)
      BY <3>1 DEF LastOf
    <3>3. QED
      BY <2>2, <2>4, <3>2 DEF Item, LastKnown
  <2>5. QED
    BY <2>3, <2>4
<1>6. QED
  BY <1>4, <1>5

\* Times that are added up later do not count for the earlier ones.
LEMMA EarlierTimes ==
  ASSUME TimesInOrder, Done \subseteq Nat, NEW time \in Nat, \A u \in Done : u < time,
         NEW t \in Done
  PROVE  /\ {u \in Done \cup {time} : u <= t} = {u \in Done : u <= t}
         /\ Cardinality({u \in Done : u <= t}) \in 1 .. Cardinality(Done)
<1>1. t \in Nat /\ ~(time <= t)
  BY SMT
<1>2. {u \in Done \cup {time} : u <= t} = {u \in Done : u <= t}
  BY <1>1
<1> DEFINE E == {u \in Done : u <= t}
<1>3. E \subseteq Done /\ t \in E /\ IsFiniteSet(Done)
  BY <1>1 DEF TimesInOrder
<1> HIDE DEF E
<1>4. IsFiniteSet(E) /\ Cardinality(E) <= Cardinality(Done)
  BY <1>3, FS_Subset
<1>5. Cardinality(E) \in Nat /\ Cardinality(Done) \in Nat /\ Cardinality(E) # 0
  BY <1>3, <1>4, FS_CardinalityType, FS_EmptySet
<1>6. QED
  BY <1>2, <1>4, <1>5 DEF E

LEMMA AddUpKeeps == ASSUME AreCharts(charts), ReportInv, AddUp PROVE ReportInv'
<1> DEFINE time == Min(left)
           items == [j \in DOMAIN charts |-> Item(j, time)]
           sum == Total(items)
<1>1. charts # <<>>
  BY ChartsTyped
<1>2. /\ TimesInOrder /\ SeriesSoFar /\ LastKnown /\ LowestSoFar /\ ResultAtEnd
      /\ built => left = {}
  BY <1>1 DEF ReportInv, ReportInit
<1>3. /\ left # {} /\ left' = left \ {time} /\ lastProfit' = items
      /\ series' = Append(series, sum)
      /\ drawdownMax' = IF sum # NoNumber /\ -sum < drawdownMax THEN -sum ELSE drawdownMax
      /\ profitResult' = IF left = {time} THEN sum ELSE profitResult
      /\ UNCHANGED <<charts, built>>
  BY DEF AddUp
<1>4. DOMAIN charts[1] \subseteq Nat
  BY ChartsTyped
<1>5. left \subseteq Nat /\ Done \subseteq Nat
  BY <1>2, <1>4 DEF TimesInOrder, Done
<1>6. time \in left /\ \A u \in left : time <= u
  <2>1. PICK m \in left : \A u \in left : m <= u
    BY <1>3, <1>5, Least
  <2>2. left \subseteq Int
    BY <1>5
  <2>3. Min(left) = m
    BY <2>1, <2>2, MinIs
  <2>4. QED
    BY <2>1, <2>3
<1>7. /\ \A j \in DOMAIN charts : /\ Item(j, time) = LastOf(j, Done \cup {time})
                                  /\ Item(j, time) = Known(j, time)
                                  /\ Item(j, time) \in Amounts
      /\ \A u \in DOMAIN charts[1] : u <= time <=> u \in Done \cup {time}
  BY <1>2, <1>6, ItemsLastKnown
<1>8. items \in [DOMAIN charts -> Amounts] /\ items = [j \in DOMAIN charts |-> Known(j, time)]
  BY <1>7
<1>9. sum = TrueTotal(time)
  BY <1>8 DEF TrueTotal
<1> HIDE DEF items
<1>10. sum \in Int \cup {NoNumber}
  <2>1. PICK n \in Nat : DOMAIN charts = 1 .. n
    BY ChartsTyped
  <2>2. DOMAIN items = 1 .. n /\ items \in Seq(Amounts)
    BY <1>8, <2>1
  <2>3. QED
    BY <2>1, <2>2, TotalType
<1> HIDE DEF time, sum
<1>11. Done' = Done \cup {time} /\ time \notin Done
  BY <1>2, <1>3, <1>6 DEF Done, TimesInOrder
<1>12. \A u \in Done : u < time
  BY <1>2, <1>6 DEF TimesInOrder
<1>13. time \in Nat
  BY <1>5, <1>6
<1>14. \A t : TrueTotal(t)' = TrueTotal(t)
  BY <1>3 DEF TrueTotal, Known
<1>15. IsFiniteSet(Done') /\ Cardinality(Done') = Cardinality(Done) + 1
  BY <1>2, <1>11, FS_AddElement DEF TimesInOrder
<1>16. TimesInOrder'
  <2>1. left' \subseteq DOMAIN charts'[1]
    BY <1>2, <1>3 DEF TimesInOrder
  <2>2. ASSUME NEW t \in Done', NEW u \in left' PROVE t < u
    <3>1. u \in left /\ u # time /\ time <= u /\ u \in Nat
      BY <1>3, <1>5, <1>6
    <3>2. CASE t = time
      BY <1>13, <3>1, <3>2
    <3>3. CASE t \in Done
      BY <1>2, <3>1, <3>3 DEF TimesInOrder
    <3>4. QED
      BY <1>11, <3>2, <3>3
  <2>3. QED
    BY <1>15, <2>1, <2>2 DEF TimesInOrder
<1>17. SeriesSoFar'
  <2> DEFINE n == Cardinality(Done)
  <2>1. /\ series \in Seq(Int \cup {NoNumber}) /\ Len(series) = n /\ n \in Nat
        /\ \A t \in Done : series[Cardinality({u \in Done : u <= t})] = TrueTotal(t)
    BY <1>2, FS_CardinalityType DEF SeriesSoFar, TimesInOrder
  <2> HIDE DEF n
  <2>2. /\ series' \in Seq(Int \cup {NoNumber}) /\ Len(series') = n + 1
        /\ series'[n + 1] = sum /\ \A k \in 1 .. n : series'[k] = series[k]
    BY <1>3, <1>10, <2>1
  <2>3. ASSUME NEW t \in Done' PROVE series'[Cardinality({u \in Done' : u <= t})] = TrueTotal(t)
    <3>1. CASE t = time
      <4>1. \A u \in Done' : u <= t
        BY <1>5, <1>11, <1>12, <1>13, <3>1
      <4>2. QED
        <5>1. {u \in Done' : u <= t} = Done'
          BY <4>1
        <5>2. QED
          BY <1>9, <1>15, <2>2, <3>1, <5>1 DEF n
    <3>2. CASE t \in Done
      <4>1. /\ {u \in Done' : u <= t} = {u \in Done : u <= t}
            /\ Cardinality({u \in Done : u <= t}) \in 1 .. n
        BY <1>2, <1>5, <1>11, <1>12, <1>13, <3>2, EarlierTimes DEF n
      <4>2. QED
        BY <2>1, <2>2, <3>2, <4>1
    <3>3. QED
      BY <1>11, <3>1, <3>2
  <2>4. QED
    BY <1>14, <1>15, <2>2, <2>3 DEF SeriesSoFar, n
<1>18. LastKnown'
  BY <1>3, <1>7, <1>8, <1>11 DEF LastKnown, LastOf, items
<1>19. LowestSoFar'
  BY <1>2, <1>3, <1>9, <1>10, <1>11, <1>14 DEF LowestSoFar
<1>20. ResultAtEnd'
  <2> SUFFICES ASSUME left' = {} PROVE profitResult' = TrueTotal(Max(DOMAIN charts[1]))
    BY <1>3, <1>14 DEF ResultAtEnd
  <2>1. left = {time} /\ profitResult' = sum
    BY <1>3, <1>6
  <2>2. /\ time \in DOMAIN charts[1] /\ DOMAIN charts[1] \subseteq Int
        /\ \A u \in DOMAIN charts[1] : u <= time
    BY <1>2, <1>4, <1>7, <2>1 DEF TimesInOrder, Done
  <2>3. Max(DOMAIN charts[1]) = time
    BY <2>2, MaxIs
  <2>4. QED
    BY <1>9, <2>1, <2>3
<1>21. QED
  BY <1>2, <1>3, <1>16, <1>17, <1>18, <1>19, <1>20 DEF ReportInv

\* What is said of the rounds does not depend on anything else.
LEMMA ReportUnchanged ==
  ASSUME TimesInOrder, SeriesSoFar, LastKnown, LowestSoFar, ResultAtEnd,
         UNCHANGED <<charts, left, lastProfit, series, drawdownMax, profitResult>>
  PROVE  TimesInOrder' /\ SeriesSoFar' /\ LastKnown' /\ LowestSoFar' /\ ResultAtEnd'
<1>1. Done' = Done /\ \A t : TrueTotal(t)' = TrueTotal(t)
  BY DEF Done, TrueTotal, Known
<1>2. \A j \in DOMAIN charts : LastOf(j, Done)' = LastOf(j, Done)
  BY <1>1 DEF LastOf
<1>3. TimesInOrder' /\ LowestSoFar' /\ ResultAtEnd'
  BY <1>1 DEF TimesInOrder, LowestSoFar, ResultAtEnd
<1>4. SeriesSoFar'
  BY <1>1 DEF SeriesSoFar
<1>5. LastKnown'
  BY <1>1, <1>2 DEF LastKnown, LastOf
<1>6. QED
  BY <1>3, <1>4, <1>5

\* Every state of a report has the invariant: the round so far has added up the
\* earliest times, with what they say of every chart.
THEOREM ReportInvCorrect == ReportSpec => []ReportInv
<1>1. ReportInit => ReportInv
  BY DEF ReportInv
<1>2. ReportInv /\ [ReportNext]_reportVars => ReportInv'
  <2> SUFFICES ASSUME ReportInv, [ReportNext]_reportVars PROVE ReportInv'
    OBVIOUS
  <2>1. CASE ReadReports
    <3>1. ReportInit
      BY <2>1, ChartsTyped DEF ReadReports, ReportInv
    <3>2. QED
      BY <2>1, <3>1, ReadReportsKeeps
  <2>2. CASE AddUp
    <3>1. AreCharts(charts)
      BY <2>2 DEF AddUp, ReportInv, ReportInit
    <3>2. QED
      BY <2>2, <3>1, AddUpKeeps
  <2>3. CASE SaveReport
    <3>1. UNCHANGED <<charts, left, lastProfit, series, drawdownMax, profitResult>>
          /\ left = {} /\ charts # <<>>
      BY <2>3 DEF SaveReport
    <3>2. /\ AreCharts(charts)
          /\ TimesInOrder /\ SeriesSoFar /\ LastKnown /\ LowestSoFar /\ ResultAtEnd
      BY <3>1 DEF ReportInv, ReportInit
    <3>3. QED
      BY <3>1, <3>2, ReportUnchanged DEF ReportInv
  <2>4. CASE UNCHANGED reportVars
    <3>1. UNCHANGED <<charts, left, lastProfit, series, drawdownMax, profitResult, built>>
      BY <2>4 DEF reportVars
    <3>2. CASE ReportInit
      BY <3>1, <3>2 DEF ReportInv, ReportInit
    <3>3. CASE ~ReportInit
      BY <3>1, <3>3, ReportUnchanged DEF ReportInv
    <3>4. QED
      BY <3>2, <3>3
  <2>5. QED
    BY <2>1, <2>2, <2>3, <2>4 DEF ReportNext
<1>3. QED
  BY <1>1, <1>2, PTL DEF ReportSpec

\* The report of a scenario adds up, at each time of the first chart, what is known of
\* every chart; its result is the total at the end, its drawdown the lowest total.
THEOREM ReportAddsUpCorrect == ReportSpec => []ReportAddsUp
<1>1. ReportInv => ReportAddsUp
  <2> SUFFICES ASSUME ReportInv, built PROVE ReportAddsUp
    BY DEF ReportAddsUp
  <2> DEFINE times == DOMAIN charts[1]
             totals == {TrueTotal(t) : t \in times} \ {NoNumber}
             lows == {0} \cup {-total : total \in totals}
  <2>1. /\ AreCharts(charts) /\ SeriesSoFar /\ LowestSoFar /\ ResultAtEnd
        /\ left = {}
    BY DEF ReportInv, ReportInit
  <2>2. Done = times
    BY <2>1 DEF Done
  <2>3. drawdownMax \in lows
    BY <2>1, <2>2 DEF LowestSoFar
  <2>4. lows \subseteq Int /\ \A low \in lows : drawdownMax <= low
    BY <2>1, <2>2 DEF LowestSoFar
  <2>5. drawdownMax = Min(lows)
    <3> HIDE DEF lows
    <3>1. QED
      BY <2>3, <2>4, MinIs
  <2>6. QED
    BY <2>1, <2>2, <2>5 DEF ReportAddsUp, SeriesSoFar, ResultAtEnd
<1>2. QED
  BY <1>1, ReportInvCorrect, PTL
-----------------------------------------------------------------------------
(* The sets of a scenario.                                                 *)

\* f lists every element of T once.
EachOnce(f, T) == \E n \in Nat :
  /\ f \in [1 .. n -> T]
  /\ \A k, l \in 1 .. n : f[k] = f[l] => k = l
  /\ \A t \in T : \E k \in 1 .. n : f[k] = t

Cell == [param : Nat, value : Int]

\* The rows that the first p ranges of the form stand for.
RowsOf(p) ==
  {r \in [1 .. p -> Cell] :
     \A i \in 1 .. p : r[i].param = i /\ r[i].value \in Meant(form[i])}

InLimit == IF Len(grid) < MaxSets THEN Len(grid) ELSE MaxSets

GridTypeOK ==
  /\ stage \in {"form", "compile", "saved"}
  /\ form \in Seq(ParamRanges)
  /\ stage = "form" => grid = <<>>

\* After p ranges the rows are those of these ranges, each once, and the others are
\* still to be multiplied into them.
RangesDone(p) ==
  /\ scope = [i \in 1 .. Len(form) - p |-> Prepared(form)[p + i]]
  /\ IF p = 0 THEN grid = <<>> ELSE grid # <<>> /\ EachOnce(grid, RowsOf(p))

\* The rows up to the limit, for each symbol.
Saved ==
  sets = [k \in 1 .. Len(Symbols) * InLimit |->
            [symbol |-> Symbols[RowAt(k, InLimit)], args |-> grid[ColumnAt(k, InLimit)]]]

GridInv ==
  /\ GridTypeOK
  /\ stage = "compile" /\ form # <<>> => \E p \in 0 .. Len(form) : RangesDone(p)
  /\ stage = "saved" /\ form # <<>> =>
       /\ EachOnce(grid, RowsOf(Len(form))) /\ grid # <<>>
       /\ Saved

\* What is listed once can be counted.
LEMMA ListOnce ==
  ASSUME NEW f, NEW T, EachOnce(f, T)
  PROVE  /\ f \in Seq(T) /\ f \in [1 .. Len(f) -> T]
         /\ \A k, l \in 1 .. Len(f) : f[k] = f[l] => k = l
         /\ \A t \in T : \E k \in 1 .. Len(f) : f[k] = t
         /\ IsFiniteSet(T) /\ Cardinality(T) = Len(f)
<1>1. PICK n \in Nat : /\ f \in [1 .. n -> T]
                       /\ \A k, l \in 1 .. n : f[k] = f[l] => k = l
                       /\ \A t \in T : \E k \in 1 .. n : f[k] = t
  BY DEF EachOnce
<1>2. f \in Seq(T) /\ Len(f) = n
  BY <1>1
<1>3. f \in Bijection(1 .. n, T)
  BY <1>1 DEF Bijection, Injection, Surjection, IsInjective
<1>4. ExistsBijection(1 .. n, T)
  BY <1>3 DEF ExistsBijection
<1>5. IsFiniteSet(1 .. n)
  BY FS_Interval
<1>6. IsFiniteSet(T) /\ Cardinality(T) = n
  BY <1>4, <1>5, FS_Bijection, FS_CountingElements
<1>7. QED
  BY <1>1, <1>2, <1>6

LEMMA ListOnceIs ==
  ASSUME NEW n \in Nat, NEW T, NEW f \in [1 .. n -> T],
         \A k, l \in 1 .. n : f[k] = f[l] => k = l,
         \A t \in T : \E k \in 1 .. n : f[k] = t
  PROVE  EachOnce(f, T)
BY DEF EachOnce

LEMMA NotEmpty ==
  ASSUME NEW f, NEW k \in DOMAIN f
  PROVE  f # <<>>
OBVIOUS

\* The form's ranges as they are sent.
LEMMA PreparedRange ==
  ASSUME NEW ranges \in Seq(ParamRanges), ranges # <<>>
  PROVE  /\ DOMAIN Prepared(ranges) = 1 .. Len(ranges)
         /\ \A i \in 1 .. Len(ranges) :
              /\ Prepared(ranges)[i].begin = ranges[i].begin
              /\ Prepared(ranges)[i].step = ranges[i].step
              /\ Prepared(ranges)[i].end = IF ranges[i].end < ranges[i].begin
                                         THEN ranges[i].begin ELSE ranges[i].end
<1>1. Prepared(ranges) = [i \in DOMAIN ranges |-> [ranges[i] EXCEPT !.end = IF @ < ranges[i].begin
                                                 THEN ranges[i].begin ELSE @]]
  BY DEF Prepared
<1>2. DOMAIN ranges = 1 .. Len(ranges)
  OBVIOUS
<1>3. ASSUME NEW i \in 1 .. Len(ranges)
      PROVE  /\ Prepared(ranges)[i].begin = ranges[i].begin
             /\ Prepared(ranges)[i].step = ranges[i].step
             /\ Prepared(ranges)[i].end = IF ranges[i].end < ranges[i].begin
                                        THEN ranges[i].begin ELSE ranges[i].end
  <2>1. ranges[i] \in ParamRanges
    OBVIOUS
  <2>2. Prepared(ranges)[i] = [ranges[i] EXCEPT !.end = IF @ < ranges[i].begin
                                                    THEN ranges[i].begin ELSE @]
    BY <1>1, <1>2
  <2>3. QED
    BY <2>1, <2>2 DEF ParamRanges
<1>4. QED
  BY <1>1, <1>2, <1>3

\* The loop over a range finds every value that it stands for, and none twice.
LEMMA ValuesMeant ==
  ASSUME NEW range \in ParamRanges, NEW sent,
         sent.begin = range.begin, sent.step = range.step,
         sent.end = IF range.end < range.begin THEN range.begin ELSE range.end
  PROVE  EachOnce(ValuesOf(sent), Meant(range)) /\ ValuesOf(sent) # <<>>
<1> DEFINE b == range.begin
           s == range.step
           e == sent.end
           n == ((e - b) \div s) + 1
           f == ValuesOf(sent)
<1>1. /\ b \in Int /\ range.end \in Int /\ s \in {1, 2}
      /\ e \in Int /\ b <= e /\ (e = range.end \/ (e = b /\ range.end < b))
  <2>1. Values \subseteq Int
    BY GridAssumption
  <2>2. b \in Int /\ range.end \in Int /\ s \in {1, 2}
    BY <2>1 DEF ParamRanges
  <2>3. QED
    BY <2>2
<1>2. n \in Nat \ {0}
  <2> DEFINE d == e - b
  <2>1. d \in Nat
    BY <1>1
  <2>2. CASE s = 1
    <3>1. d \div 1 = d
      BY <2>1
    <3>2. QED
      BY <2>1, <2>2, <3>1
  <2>3. CASE s = 2
    <3> HIDE DEF d
    <3>1. d \div 2 \in Nat
      BY <2>1
    <3>2. QED
      BY <2>3, <3>1 DEF d
  <2>4. QED
    BY <1>1, <2>2, <2>3
<1>3. f = [k \in 1 .. n |-> b + (k - 1) * s]
  <2>1. f = [k \in 1 .. (IF sent.end < sent.begin THEN 0
                          ELSE ((sent.end - sent.begin) \div sent.step) + 1)
               |-> sent.begin + (k - 1) * sent.step]
    BY DEF ValuesOf
  <2>2. sent.begin = b /\ sent.step = s /\ sent.end = e
    OBVIOUS
  <2>3. ~(e < b)
    BY <1>1
  <2> HIDE DEF b, s, e, f
  <2>4. QED
    BY <2>1, <2>2, <2>3
<1>4. Meant(range) = {b} \cup {v \in b .. range.end : (v - b) % s = 0}
  BY DEF Meant
<1> HIDE DEF b, s, e, f
<1>5. \A k \in 1 .. n : f[k] \in Meant(range)
  <2> TAKE k \in 1 .. n
  <2>1. CASE s = 1
    BY <1>1, <1>3, <1>4, <2>1
  <2>2. CASE s = 2
    BY <1>1, <1>3, <1>4, <2>2
  <2>3. QED
    BY <1>1, <2>1, <2>2
<1>6. \A k, l \in 1 .. n : f[k] = f[l] => k = l
  <2> TAKE k, l \in 1 .. n
  <2>1. CASE s = 1
    BY <1>1, <1>3, <2>1
  <2>2. CASE s = 2
    BY <1>1, <1>3, <2>2
  <2>3. QED
    BY <1>1, <2>1, <2>2
<1>7. \A v \in Meant(range) : \E k \in 1 .. n : f[k] = v
  <2> TAKE v \in Meant(range)
  <2>1. v \in Int /\ b <= v /\ v <= e /\ (v - b) % s = 0
    BY <1>1, <1>4
  <2> DEFINE k == ((v - b) \div s) + 1
  <2>2. k \in 1 .. n /\ v = b + (k - 1) * s
    <3>1. CASE s = 1
      BY <1>1, <2>1, <3>1
    <3>2. CASE s = 2
      BY <1>1, <2>1, <3>2
    <3>3. QED
      BY <1>1, <3>1, <3>2
  <2>3. QED
    BY <1>3, <2>2
<1> HIDE DEF n
<1>8. f \in [1 .. n -> Meant(range)] /\ f # <<>>
  <2>1. 1 \in 1 .. n /\ DOMAIN f = 1 .. n
    BY <1>2, <1>3
  <2>2. QED
    BY <1>3, <1>5, <2>1
<1>9. EachOnce(f, Meant(range))
  BY <1>2, <1>6, <1>7, <1>8, ListOnceIs
<1>10. QED
  BY <1>8, <1>9 DEF f

\* The first range makes the rows.
LEMMA FirstRows ==
  ASSUME NEW values, EachOnce(values, Meant(form[1])), values # <<>>,
         Meant(form[1]) \subseteq Int, NEW table,
         table = [k \in DOMAIN values |-> <<[param |-> 1, value |-> values[k]]>>]
  PROVE  EachOnce(table, RowsOf(1)) /\ table # <<>>
<1>1. PICK n \in Nat : /\ values \in [1 .. n -> Meant(form[1])]
                       /\ \A k, l \in 1 .. n : values[k] = values[l] => k = l
                       /\ \A v \in Meant(form[1]) : \E k \in 1 .. n : values[k] = v
  BY DEF EachOnce
<1>2. /\ DOMAIN table = 1 .. n /\ table # <<>>
      /\ \A k \in 1 .. n : table[k] = <<[param |-> 1, value |-> values[k]]>>
  BY <1>1
<1>3. ASSUME NEW k \in 1 .. n PROVE table[k] \in RowsOf(1) /\ table[k][1].value = values[k]
  <2> DEFINE cell == [param |-> 1, value |-> values[k]]
  <2>1. cell \in Cell /\ cell.param = 1 /\ cell.value = values[k]
        /\ values[k] \in Meant(form[1])
    BY <1>1 DEF Cell
  <2>2. table[k] = <<cell>>
    BY <1>2
  <2> HIDE DEF cell
  <2>3. table[k] \in [1 .. 1 -> Cell] /\ table[k][1] = cell
    BY <2>1, <2>2
  <2>4. QED
    BY <2>1, <2>3 DEF RowsOf
<1>4. table \in [1 .. n -> RowsOf(1)]
  BY <1>2, <1>3
<1>5. \A k, l \in 1 .. n : table[k] = table[l] => k = l
  BY <1>1, <1>3
<1>6. ASSUME NEW r \in RowsOf(1) PROVE \E k \in 1 .. n : table[k] = r
  <2>1. /\ r \in [1 .. 1 -> Cell]
        /\ r[1].param = 1 /\ r[1].value \in Meant(form[1])
    BY DEF RowsOf
  <2>2. PICK k \in 1 .. n : values[k] = r[1].value
    BY <1>1, <2>1
  <2>3. r[1] = [param |-> 1, value |-> values[k]]
    BY <2>1, <2>2 DEF Cell
  <2>4. r = <<r[1]>>
    BY <2>1
  <2>5. QED
    BY <1>2, <2>3, <2>4
<1>7. QED
  BY <1>2, <1>4, <1>5, <1>6, ListOnceIs

\* A further range is multiplied into them.
LEMMA NextRows ==
  ASSUME NEW p \in Nat, NEW short, EachOnce(short, RowsOf(p)), short # <<>>,
         NEW values, EachOnce(values, Meant(form[p + 1])), values # <<>>,
         Meant(form[p + 1]) \subseteq Int, NEW right,
         right = [k \in DOMAIN values |-> [param |-> p + 1, value |-> values[k]]]
  PROVE  EachOnce(Times(short, right), RowsOf(p + 1)) /\ Times(short, right) # <<>>
<1> DEFINE L == Len(short)
           R == Len(values)
           joined(a, b) == Append(short[a], right[b])
           table == Times(short, right)
<1>1. /\ short \in Seq(RowsOf(p)) /\ short \in [1 .. L -> RowsOf(p)]
      /\ \A a, b \in 1 .. L : short[a] = short[b] => a = b
      /\ \A t \in RowsOf(p) : \E a \in 1 .. L : short[a] = t
  BY ListOnce
<1>2. /\ values \in Seq(Meant(form[p + 1])) /\ values \in [1 .. R -> Meant(form[p + 1])]
      /\ \A a, b \in 1 .. R : values[a] = values[b] => a = b
      /\ \A v \in Meant(form[p + 1]) : \E b \in 1 .. R : values[b] = v
  BY ListOnce
<1>3. L \in Nat \ {0} /\ R \in Nat \ {0}
  BY <1>1, <1>2
<1>4. /\ right \in [1 .. R -> Cell]
      /\ \A b \in 1 .. R : right[b].param = p + 1 /\ right[b].value = values[b]
  BY <1>2 DEF Cell
<1>5. right \in Seq(Cell) /\ Len(right) = R
  BY <1>3, <1>4
<1>6. table = [k \in 1 .. L * R |-> joined(RowAt(k, R), ColumnAt(k, R))]
  <2>1. table = [k \in 1 .. Len(short) * Len(right) |->
                   joined(RowAt(k, Len(right)), ColumnAt(k, Len(right)))]
    BY DEF Times, RowAt, ColumnAt
  <2>2. Len(right) = R
    BY <1>5
  <2>3. QED
    BY <2>1, <2>2, Zenon
<1> HIDE DEF L, R
<1>7. /\ L * R \in Nat
      /\ \A k \in 1 .. L * R : RowAt(k, R) \in 1 .. L /\ ColumnAt(k, R) \in 1 .. R
      /\ \A k, l \in 1 .. L * R :
           RowAt(k, R) = RowAt(l, R) /\ ColumnAt(k, R) = ColumnAt(l, R) => k = l
      /\ \A a \in 1 .. L, b \in 1 .. R : \E k \in 1 .. L * R : RowAt(k, R) = a /\ ColumnAt(k, R) = b
  BY <1>3, Places
<1> HIDE DEF table
<1>8. ASSUME NEW a \in 1 .. L, NEW b \in 1 .. R
      PROVE  /\ joined(a, b) \in RowsOf(p + 1)
             /\ \A i \in 1 .. p : joined(a, b)[i] = short[a][i]
             /\ joined(a, b)[p + 1] = right[b]
  <2> DEFINE r == Append(short[a], right[b])
  <2>1. /\ short[a] \in Seq(Cell) /\ Len(short[a]) = p
        /\ \A i \in 1 .. p : short[a][i].param = i /\ short[a][i].value \in Meant(form[i])
    <3>1. short[a] \in RowsOf(p)
      BY <1>1
    <3>2. short[a] \in [1 .. p -> Cell]
      BY <3>1 DEF RowsOf
    <3>3. QED
      BY <3>1, <3>2 DEF RowsOf
  <2>2. right[b] \in Cell /\ right[b].param = p + 1 /\ right[b].value \in Meant(form[p + 1])
    BY <1>2, <1>4
  <2>3. /\ r \in Seq(Cell) /\ Len(r) = p + 1
        /\ \A i \in 1 .. p : r[i] = short[a][i]
        /\ r[p + 1] = right[b]
    BY <2>1, <2>2
  <2> HIDE DEF r
  <2>4. r \in [1 .. p + 1 -> Cell]
    BY <2>3
  <2>5. \A i \in 1 .. p + 1 : r[i].param = i /\ r[i].value \in Meant(form[i])
    <3> TAKE i \in 1 .. p + 1
    <3>1. CASE i = p + 1
      BY <2>2, <2>3, <3>1
    <3>2. CASE i \in 1 .. p
      BY <2>1, <2>3, <3>2
    <3>3. QED
      BY <3>1, <3>2
  <2>6. r \in RowsOf(p + 1)
    BY <2>4, <2>5 DEF RowsOf
  <2>7. QED
    BY <2>3, <2>6 DEF r
<1> HIDE DEF joined
<1>81. \A a \in 1 .. L, b \in 1 .. R : joined(a, b) \in RowsOf(p + 1)
  BY <1>8
<1>82. \A a \in 1 .. L, b \in 1 .. R : joined(a, b)[p + 1] = right[b]
  BY <1>8
<1>83. \A a \in 1 .. L, b \in 1 .. R : \A i \in 1 .. p : joined(a, b)[i] = short[a][i]
  <2> TAKE a \in 1 .. L, b \in 1 .. R
  <2>1. QED
    BY <1>8
<1>9. table \in [1 .. L * R -> RowsOf(p + 1)] /\ table # <<>>
  <2>1. \A k \in 1 .. L * R : joined(RowAt(k, R), ColumnAt(k, R)) \in RowsOf(p + 1)
    BY <1>7, <1>8
  <2>2. table \in [1 .. L * R -> RowsOf(p + 1)]
    BY <1>6, <2>1
  <2>3. PICK k \in 1 .. L * R : RowAt(k, R) = 1 /\ ColumnAt(k, R) = 1
    <3>1. 1 \in 1 .. L /\ 1 \in 1 .. R
      BY <1>3
    <3>2. QED
      BY <1>7, <3>1
  <2>4. DOMAIN table = 1 .. L * R /\ k \in DOMAIN table
    BY <2>2
  <2>5. table # <<>>
    BY <2>4, NotEmpty
  <2>6. QED
    BY <2>2, <2>5
<1>10. ASSUME NEW k \in 1 .. L * R, NEW l \in 1 .. L * R, table[k] = table[l] PROVE k = l
  <2>1. RowAt(k, R) \in 1 .. L /\ ColumnAt(k, R) \in 1 .. R /\ RowAt(l, R) \in 1 .. L /\ ColumnAt(l, R) \in 1 .. R
    BY <1>7
  <2>2. joined(RowAt(k, R), ColumnAt(k, R)) = joined(RowAt(l, R), ColumnAt(l, R))
    BY <1>6, <1>10
  <2>3. short[RowAt(k, R)] = short[RowAt(l, R)]
    <3>1. short[RowAt(k, R)] \in [1 .. p -> Cell] /\ short[RowAt(l, R)] \in [1 .. p -> Cell]
      <4>1. short[RowAt(k, R)] \in RowsOf(p) /\ short[RowAt(l, R)] \in RowsOf(p)
        BY <1>1, <2>1
      <4>2. QED
        BY <4>1 DEF RowsOf
    <3>2. \A i \in 1 .. p : short[RowAt(k, R)][i] = short[RowAt(l, R)][i]
      <4> TAKE i \in 1 .. p
      <4>1. joined(RowAt(k, R), ColumnAt(k, R))[i] = short[RowAt(k, R)][i]
        BY <1>83, <2>1
      <4>2. joined(RowAt(l, R), ColumnAt(l, R))[i] = short[RowAt(l, R)][i]
        BY <1>83, <2>1
      <4>3. QED
        BY <2>2, <4>1, <4>2
    <3>3. QED
      BY <3>1, <3>2
  <2>4. values[ColumnAt(k, R)] = values[ColumnAt(l, R)]
    BY <1>4, <1>8, <2>1, <2>2
  <2>5. RowAt(k, R) = RowAt(l, R) /\ ColumnAt(k, R) = ColumnAt(l, R)
    BY <1>1, <1>2, <2>1, <2>3, <2>4
  <2>6. QED
    BY <1>7, <2>5
<1>11. ASSUME NEW t \in RowsOf(p + 1) PROVE \E k \in 1 .. L * R : table[k] = t
  <2>1. /\ t \in [1 .. p + 1 -> Cell]
        /\ \A i \in 1 .. p + 1 : t[i].param = i /\ t[i].value \in Meant(form[i])
    BY DEF RowsOf
  <2> DEFINE front == [i \in 1 .. p |-> t[i]]
  <2>2. front \in RowsOf(p)
    BY <2>1 DEF RowsOf
  <2>3. PICK a \in 1 .. L : short[a] = front
    BY <1>1, <2>2
  <2>4. p + 1 \in 1 .. p + 1
    OBVIOUS
  <2>5. PICK b \in 1 .. R : values[b] = t[p + 1].value
    BY <1>2, <2>1, <2>4
  <2>6. right[b] = t[p + 1]
    BY <1>4, <2>1, <2>4, <2>5 DEF Cell
  <2>7. joined(a, b) = t
    <3>1. joined(a, b) \in RowsOf(p + 1)
      BY <1>8
    <3>2. joined(a, b) \in [1 .. p + 1 -> Cell]
      BY <3>1 DEF RowsOf
    <3>3. \A i \in 1 .. p : joined(a, b)[i] = t[i]
      <4> TAKE i \in 1 .. p
      <4>1. joined(a, b)[i] = short[a][i]
        BY <1>83
      <4>2. short[a][i] = t[i]
        BY <2>3
      <4>3. QED
        BY <4>1, <4>2
    <3>4. joined(a, b)[p + 1] = t[p + 1]
      BY <1>8, <2>6
    <3>5. \A i \in 1 .. p + 1 : joined(a, b)[i] = t[i]
      BY <3>3, <3>4
    <3>6. QED
      BY <2>1, <3>2, <3>5
  <2>8. QED
    BY <1>6, <1>7, <2>7
<1>12. EachOnce(table, RowsOf(p + 1))
  <2> DEFINE n == L * R
             T == RowsOf(p + 1)
  <2>1. n \in Nat /\ table \in [1 .. n -> T]
    BY <1>7, <1>9
  <2>2. \A k, l \in 1 .. n : table[k] = table[l] => k = l
    BY <1>10
  <2>3. \A t \in T : \E k \in 1 .. n : table[k] = t
    BY <1>11
  <2> HIDE DEF n, T
  <2>4. EachOnce(table, T)
    BY <2>1, <2>2, <2>3, ListOnceIs
  <2>5. QED
    BY <2>4 DEF T
<1>13. QED
  BY <1>9, <1>12 DEF table

\* How far the loop over the ranges is.
LEMMA RangeLeft ==
  ASSUME GridTypeOK, form # <<>>, NEW p \in 0 .. Len(form), RangesDone(p), scope # <<>>
  PROVE  /\ p + 1 \in 1 .. Len(form)
         /\ Head(scope) = Prepared(form)[p + 1]
         /\ Len(form) - Len(scope) + 1 = p + 1
         /\ Tail(scope) = [i \in 1 .. Len(form) - (p + 1) |-> Prepared(form)[(p + 1) + i]]
<1> DEFINE n == Len(form) - p
           f == Prepared(form)
<1>1. Len(form) \in Nat
  BY DEF GridTypeOK
<1>2. n \in Nat
  BY <1>1
<1>3. scope = [i \in 1 .. n |-> f[p + i]]
  BY DEF RangesDone
<1> HIDE DEF f
<1>4. n # 0
  BY <1>2, <1>3
<1>5. Len(scope) = n /\ Head(scope) = f[p + 1]
  BY <1>2, <1>3, <1>4
<1>6. Tail(scope) = [i \in 1 .. n - 1 |-> f[(p + 1) + i]]
  <2> DEFINE T == {f[p + i] : i \in 1 .. n}
  <2>1. \A i \in 1 .. n : scope[i] = f[p + i]
    BY <1>3
  <2>2. \A i \in 1 .. n : scope[i] \in T
    BY <2>1
  <2> HIDE DEF T
  <2>3. scope \in [1 .. n -> T]
    BY <1>3, <2>2
  <2>4. scope \in Seq(T) /\ Len(scope) = n
    BY <1>2, <2>3
  <2> DEFINE u == Tail(scope)
  <2>5. /\ u \in Seq(T) /\ Len(u) = Len(scope) - 1
        /\ \A i \in 1 .. Len(u) : u[i] = scope[i + 1]
    BY <2>4, HeadTailProperties, Zenon
  <2> HIDE DEF u
  <2>6. u = [i \in 1 .. n - 1 |-> u[i]]
    BY <2>4, <2>5
  <2>7. \A i \in 1 .. n - 1 : u[i] = f[(p + 1) + i]
    <3> TAKE i \in 1 .. n - 1
    <3>1. i + 1 \in 1 .. n /\ p + (i + 1) = (p + 1) + i /\ i \in 1 .. Len(u)
      BY <1>2, <2>4, <2>5
    <3>2. QED
      BY <2>1, <2>5, <3>1
  <2>8. QED
    BY <2>6, <2>7 DEF u
<1>7. QED
  BY <1>1, <1>2, <1>4, <1>5, <1>6 DEF f

LEMMA GridInvInit == GridInit => GridInv
BY DEF GridInit, GridInv, GridTypeOK

LEMMA SubmitGrid ==
  ASSUME GridInv, Submit
  PROVE  GridInv'
<1>1. PICK n \in 0 .. MaxParams : \E ranges \in [1 .. n -> ParamRanges] :
         form' = ranges /\ scope' = Prepared(ranges)
  BY DEF Submit
<1>2. /\ form' \in Seq(ParamRanges) /\ scope' = Prepared(form')
      /\ stage' = "compile" /\ grid' = <<>>
  BY <1>1, GridAssumption DEF Submit, GridInv, GridTypeOK
<1>3. GridTypeOK'
  BY <1>2 DEF GridTypeOK
<1>4. ASSUME form' # <<>> PROVE \E p \in 0 .. Len(form') : RangesDone(p)'
  <2> DEFINE f == Prepared(form')
  <2>1. Len(form') \in Nat /\ 0 \in 0 .. Len(form') /\ Len(form') - 0 = Len(form')
    BY <1>2
  <2>2. f = [i \in 1 .. Len(form') |-> f[i]]
    BY <1>2, <1>4 DEF Prepared
  <2>3. f = [i \in 1 .. Len(form') - 0 |-> f[0 + i]]
    BY <2>1, <2>2
  <2>4. RangesDone(0)'
    BY <1>2, <2>3 DEF RangesDone
  <2>5. QED
    BY <2>1, <2>4
<1>5. QED
  BY <1>2, <1>3, <1>4 DEF GridInv

LEMMA WithFloatArgGrid ==
  ASSUME GridInv, WithFloatArg
  PROVE  GridInv'
<1>1. /\ GridTypeOK /\ stage = "compile" /\ scope # <<>>
      /\ stage' = stage /\ form' = form /\ scope' = Tail(scope)
  BY DEF GridInv, WithFloatArg
<1>2. GridTypeOK'
  BY <1>1 DEF GridTypeOK
<1>3. ASSUME form # <<>> PROVE \E p \in 0 .. Len(form') : RangesDone(p)'
  <2>1. PICK p \in 0 .. Len(form) : RangesDone(p)
    BY <1>1, <1>3 DEF GridInv
  <2>2. /\ p + 1 \in 1 .. Len(form)
        /\ Head(scope) = Prepared(form)[p + 1]
        /\ Len(form) - Len(scope) + 1 = p + 1
        /\ Tail(scope) = [i \in 1 .. Len(form) - (p + 1) |-> Prepared(form)[(p + 1) + i]]
    BY <1>1, <1>3, <2>1, RangeLeft
  <2> DEFINE values == ValuesOf(Head(scope))
             param == Len(form) - Len(scope) + 1
             column == [k \in DOMAIN values |-> [param |-> param, value |-> values[k]]]
  <2>3. EachOnce(values, Meant(form[p + 1])) /\ values # <<>> /\ Meant(form[p + 1]) \subseteq Int
    <3>1. form \in Seq(ParamRanges) /\ form[p + 1] \in ParamRanges
      BY <1>1, <2>2 DEF GridTypeOK
    <3>2. /\ Prepared(form)[p + 1].begin = form[p + 1].begin
          /\ Prepared(form)[p + 1].step = form[p + 1].step
          /\ Prepared(form)[p + 1].end = IF form[p + 1].end < form[p + 1].begin
                                         THEN form[p + 1].begin ELSE form[p + 1].end
      BY <1>3, <2>2, <3>1, PreparedRange
    <3>3. EachOnce(values, Meant(form[p + 1])) /\ values # <<>>
      BY <2>2, <3>1, <3>2, ValuesMeant
    <3>4. Values \subseteq Int
      BY GridAssumption
    <3>5. form[p + 1].begin \in Int /\ form[p + 1].end \in Int
      BY <3>1, <3>4 DEF ParamRanges
    <3>6. QED
      BY <3>3, <3>5 DEF Meant
  <2>4. grid' = IF grid = <<>> THEN [k \in DOMAIN column |-> <<column[k]>>]
                ELSE Times(grid, column)
    BY DEF WithFloatArg
  <2> HIDE DEF values
  <2>5. /\ column = [k \in DOMAIN values |-> [param |-> p + 1, value |-> values[k]]]
        /\ p \in Nat
    BY <2>2
  <2>6. EachOnce(grid', RowsOf(p + 1)) /\ grid' # <<>>
    <3>1. CASE p = 0
      <4>1. grid = <<>>
        BY <2>1, <3>1 DEF RangesDone
      <4>2. grid' = [k \in DOMAIN values |-> <<[param |-> 1, value |-> values[k]]>>]
        BY <2>4, <2>5, <3>1, <4>1
      <4>3. EachOnce(grid', RowsOf(1)) /\ grid' # <<>>
        BY <2>3, <3>1, <4>2, FirstRows
      <4>4. QED
        BY <3>1, <4>3
    <3>2. CASE p # 0
      <4>1. EachOnce(grid, RowsOf(p)) /\ grid # <<>>
        BY <2>1, <3>2 DEF RangesDone
      <4>2. grid' = Times(grid, column)
        BY <2>4, <4>1
      <4> HIDE DEF column
      <4>3. QED
        BY <2>3, <2>5, <4>1, <4>2, NextRows
    <3>3. QED
      BY <3>1, <3>2
  <2>7. RangesDone(p + 1)'
    <3>1. RowsOf(p + 1)' = RowsOf(p + 1)
      BY <1>1 DEF RowsOf
    <3>2. EachOnce(grid', RowsOf(p + 1)') /\ p + 1 # 0
      BY <2>2, <2>6, <3>1
    <3>3. scope' = [i \in 1 .. Len(form') - (p + 1) |-> Prepared(form')[(p + 1) + i]]
      BY <1>1, <2>2
    <3>4. QED
      BY <2>6, <3>2, <3>3 DEF RangesDone
  <2>8. QED
    BY <1>1, <2>2, <2>7
<1>4. QED
  BY <1>1, <1>2, <1>3 DEF GridInv

\* The rows that are kept.
LEMMA InLimitIs ==
  ASSUME NEW T, EachOnce(grid, T), grid # <<>>, MaxSets # 0
  PROVE  /\ InLimit \in Nat \ {0} /\ InLimit <= Len(grid)
         /\ InLimit = IF Len(grid) < MaxSets THEN Len(grid) ELSE MaxSets
         /\ SubSeq(grid, 1, InLimit) = [b \in 1 .. InLimit |-> grid[b]]
<1>1. grid \in Seq(T)
  BY ListOnce
<1>2. Len(grid) \in Nat \ {0}
  BY <1>1
<1>3. MaxSets \in Nat
  BY GridAssumption
<1>4. /\ InLimit \in Nat \ {0} /\ InLimit <= Len(grid)
      /\ InLimit = IF Len(grid) < MaxSets THEN Len(grid) ELSE MaxSets
  BY <1>2, <1>3 DEF InLimit
<1>5. SubSeq(grid, 1, InLimit) = [b \in 1 .. InLimit |-> grid[b]]
  BY <1>1, <1>4
<1>6. QED
  BY <1>4, <1>5

LEMMA SaveScenarioGrid ==
  ASSUME MaxSets # 0, GridInv, SaveScenario
  PROVE  GridInv'
<1>1. /\ GridTypeOK /\ stage = "compile" /\ scope = <<>>
      /\ stage' = "saved" /\ form' = form /\ grid' = grid
  BY DEF GridInv, SaveScenario
<1>2. GridTypeOK'
  BY <1>1 DEF GridTypeOK
<1>3. ASSUME form # <<>>
      PROVE  /\ EachOnce(grid, RowsOf(Len(form))) /\ grid # <<>>
             /\ sets' = [k \in 1 .. Len(Symbols) * InLimit |->
                    [symbol |-> Symbols[RowAt(k, InLimit)], args |-> grid[ColumnAt(k, InLimit)]]]
  <2>1. PICK p \in 0 .. Len(form) : RangesDone(p)
    BY <1>1, <1>3 DEF GridInv
  <2>2. Len(form) \in Nat \ {0}
    BY <1>1, <1>3 DEF GridTypeOK
  <2>3. p = Len(form)
    <3>1. <<>> = [i \in 1 .. Len(form) - p |-> Prepared(form)[p + i]]
      BY <1>1, <2>1 DEF RangesDone
    <3>2. Len(form) - p \in Nat
      BY <2>2
    <3>3. Len(form) - p = 0
      BY <3>1, <3>2
    <3>4. QED
      BY <2>2, <3>3
  <2>4. EachOnce(grid, RowsOf(Len(form))) /\ grid # <<>>
    BY <2>1, <2>2, <2>3 DEF RangesDone
  <2> DEFINE kept == SubSeq(grid, 1, IF Len(grid) < MaxSets THEN Len(grid) ELSE MaxSets)
             made == IF kept = <<>> THEN <<<<>>>> ELSE kept
  <2>5. /\ InLimit \in Nat \ {0}
        /\ InLimit = IF Len(grid) < MaxSets THEN Len(grid) ELSE MaxSets
        /\ SubSeq(grid, 1, InLimit) = [b \in 1 .. InLimit |-> grid[b]]
    BY <2>4, InLimitIs
  <2>6. kept = [b \in 1 .. InLimit |-> grid[b]]
    BY <2>5
  <2> HIDE DEF kept
  <2>7. kept # <<>> /\ Len(kept) = InLimit
    BY <2>5, <2>6
  <2>8. made = kept
    BY <2>7
  <2>9. sets' = [k \in 1 .. Len(Symbols) * Len(made) |->
                   [symbol |-> Symbols[RowAt(k, Len(made))], args |-> made[ColumnAt(k, Len(made))]]]
    BY DEF SaveScenario, RowAt, ColumnAt, kept
  <2>10. sets' = [k \in 1 .. Len(Symbols) * InLimit |->
                    [symbol |-> Symbols[RowAt(k, InLimit)], args |-> kept[ColumnAt(k, InLimit)]]]
    BY <2>7, <2>8, <2>9
  <2>11. Len(Symbols) \in Nat
    BY GridAssumption
  <2>12. \A k \in 1 .. Len(Symbols) * InLimit : kept[ColumnAt(k, InLimit)] = grid[ColumnAt(k, InLimit)]
    <3> TAKE k \in 1 .. Len(Symbols) * InLimit
    <3>1. ColumnAt(k, InLimit) \in 1 .. InLimit
      BY <2>5, <2>11, Places
    <3>2. QED
      BY <2>6, <3>1
  <2>13. QED
    BY <2>4, <2>10, <2>12
<1>4. RowsOf(Len(form))' = RowsOf(Len(form)) /\ InLimit' = InLimit
  BY <1>1 DEF RowsOf, InLimit
<1>5. QED
  BY <1>1, <1>2, <1>3, <1>4 DEF GridInv, Saved

LEMMA GridInvNext ==
  ASSUME MaxSets # 0, GridInv, [GridNext]_gridVars
  PROVE  GridInv'
<1>1. CASE Submit
  BY <1>1, SubmitGrid
<1>2. CASE WithFloatArg
  BY <1>2, WithFloatArgGrid
<1>3. CASE SaveScenario
  BY <1>3, SaveScenarioGrid
<1>4. CASE UNCHANGED gridVars
  <2>1. /\ stage' = stage /\ form' = form /\ scope' = scope /\ grid' = grid /\ sets' = sets
    BY <1>4 DEF gridVars
  <2>2. \A p : RowsOf(p)' = RowsOf(p)
    BY <2>1 DEF RowsOf
  <2>3. \A p : RangesDone(p)' = RangesDone(p)
    BY <2>1, <2>2 DEF RangesDone
  <2>4. GridTypeOK' = GridTypeOK /\ InLimit' = InLimit
    BY <2>1 DEF GridTypeOK, InLimit
  <2>5. (\E p \in 0 .. Len(form) : RangesDone(p)) => \E p \in 0 .. Len(form') : RangesDone(p)'
    BY <2>1, <2>3
  <2>6. RowsOf(Len(form))' = RowsOf(Len(form))
    BY <2>1 DEF RowsOf
  <2>7. QED
    BY <2>1, <2>4, <2>5, <2>6 DEF GridInv, Saved
<1>5. QED
  BY <1>1, <1>2, <1>3, <1>4 DEF GridNext

\* With a limit that is not zero, the rows of a scenario are at every moment the
\* combinations of the ranges that were multiplied (withFloatArg), and the saved
\* sets are these rows up to the limit, for each symbol (saveScenario).
THEOREM GridInvCorrect == MaxSets # 0 => (GridSpec => []GridInv)
<1> SUFFICES ASSUME MaxSets # 0 PROVE GridSpec => []GridInv
  OBVIOUS
<1>1. GridInit => GridInv
  BY GridInvInit
<1>2. GridInv /\ [GridNext]_gridVars => GridInv'
  BY GridInvNext
<1>3. QED
  BY <1>1, <1>2, PTL DEF GridSpec

\* A combination of values that the form stands for, and that of a row.
Combinations ==
  {c \in [1 .. Len(form) -> UNION {Meant(form[i]) : i \in 1 .. Len(form)}] :
     \A i \in 1 .. Len(form) : c[i] \in Meant(form[i])}
Chosen(r) == [i \in DOMAIN r |-> r[i].value]

LEMMA RowChosen ==
  ASSUME NEW r \in RowsOf(Len(form))
  PROVE  /\ Chosen(r) \in Combinations
         /\ DOMAIN r = 1 .. Len(form) /\ DOMAIN Chosen(r) = 1 .. Len(form)
         /\ \A i \in 1 .. Len(form) : Chosen(r)[i] = r[i].value
<1> DEFINE M == Len(form)
           U == UNION {Meant(form[i]) : i \in 1 .. M}
<1>1. /\ r \in [1 .. M -> Cell]
      /\ \A i \in 1 .. M : r[i].param = i /\ r[i].value \in Meant(form[i])
  BY DEF RowsOf
<1>2. \A i \in 1 .. M : r[i].value \in U
  BY <1>1
<1> HIDE DEF U
<1>3. DOMAIN r = 1 .. M
  BY <1>1
<1>4. Chosen(r) = [i \in 1 .. M |-> r[i].value]
  BY <1>3 DEF Chosen
<1>5. Chosen(r) \in [1 .. M -> U]
  BY <1>2, <1>4
<1>6. \A i \in 1 .. M : Chosen(r)[i] \in Meant(form[i])
  BY <1>1, <1>4
<1>7. Chosen(r) \in Combinations
  BY <1>5, <1>6 DEF Combinations, U
<1>8. QED
  BY <1>3, <1>4, <1>7

LEMMA ChosenOnce ==
  ASSUME NEW r \in RowsOf(Len(form)), NEW s \in RowsOf(Len(form)), Chosen(r) = Chosen(s)
  PROVE  r = s
<1> DEFINE M == Len(form)
<1>1. /\ r \in [1 .. M -> Cell] /\ s \in [1 .. M -> Cell]
      /\ \A i \in 1 .. M : r[i].param = i /\ s[i].param = i
  BY DEF RowsOf
<1>2. \A i \in 1 .. M : Chosen(r)[i] = r[i].value /\ Chosen(s)[i] = s[i].value
  BY RowChosen
<1>3. \A i \in 1 .. M : r[i] = s[i]
  <2> TAKE i \in 1 .. M
  <2>1. r[i] \in Cell /\ s[i] \in Cell /\ r[i].param = s[i].param
    BY <1>1
  <2>2. r[i].value = s[i].value
    BY <1>2
  <2>3. QED
    BY <2>1, <2>2 DEF Cell
<1>4. QED
  BY <1>1, <1>3

\* The combinations are as many as the rows.
LEMMA CombinationsCounted ==
  ASSUME GridTypeOK, EachOnce(grid, RowsOf(Len(form)))
  PROVE  Cardinality(Combinations) = Len(grid)
<1> DEFINE n == Len(grid)
           vals == [k \in 1 .. n |-> Chosen(grid[k])]
<1>1. /\ grid \in Seq(RowsOf(Len(form))) /\ grid \in [1 .. n -> RowsOf(Len(form))]
      /\ \A k, l \in 1 .. n : grid[k] = grid[l] => k = l
      /\ \A r \in RowsOf(Len(form)) : \E k \in 1 .. n : grid[k] = r
  BY ListOnce
<1>2. n \in Nat
  BY <1>1
<1> HIDE DEF n
<1>3. vals \in [1 .. n -> Combinations]
  BY <1>1, RowChosen
<1>4. \A k, l \in 1 .. n : vals[k] = vals[l] => k = l
  <2> TAKE k, l \in 1 .. n
  <2>1. vals[k] = Chosen(grid[k]) /\ vals[l] = Chosen(grid[l])
    OBVIOUS
  <2>2. QED
    BY <1>1, <2>1, ChosenOnce
<1>5. ASSUME NEW c \in Combinations PROVE \E k \in 1 .. n : vals[k] = c
  <2> DEFINE M == Len(form)
             r == [i \in 1 .. M |-> [param |-> i, value |-> c[i]]]
  <2>1. M \in Nat /\ \A i \in 1 .. M : Meant(form[i]) \subseteq Int
    <3>1. form \in Seq(ParamRanges) /\ Values \subseteq Int
      BY GridAssumption DEF GridTypeOK
    <3>2. M \in Nat /\ \A i \in 1 .. M : form[i] \in ParamRanges
      BY <3>1
    <3>3. \A i \in 1 .. M : Meant(form[i]) \subseteq Int
      <4> TAKE i \in 1 .. M
      <4>1. form[i] \in [begin : Values, end : Values, step : {1, 2}]
        BY <3>2 DEF ParamRanges
      <4>2. form[i].begin \in Int /\ form[i].end \in Int
        BY <3>1, <4>1
      <4>3. QED
        BY <4>2 DEF Meant
    <3>4. QED
      BY <3>2, <3>3
  <2>2. DOMAIN c = 1 .. M /\ c = [i \in 1 .. M |-> c[i]]
        /\ \A i \in 1 .. M : c[i] \in Meant(form[i])
    BY DEF Combinations
  <2>3. \A i \in 1 .. M : /\ r[i] \in Cell /\ r[i].param = i /\ r[i].value = c[i]
                         /\ r[i].value \in Meant(form[i])
    BY <2>1, <2>2 DEF Cell
  <2>4. DOMAIN r = 1 .. M /\ r \in [1 .. M -> Cell]
    BY <2>3
  <2> HIDE DEF r
  <2>5. r \in RowsOf(M)
    BY <2>3, <2>4 DEF RowsOf
  <2>6. Chosen(r) = c
    BY <2>2, <2>3, <2>4 DEF Chosen
  <2>7. PICK k \in 1 .. n : grid[k] = r
    BY <1>1, <2>5
  <2>8. vals[k] = c
    BY <2>6, <2>7
  <2>9. QED
    BY <2>8
<1>6. Len(vals) = n
  BY <1>2, <1>3
<1> HIDE DEF vals
<1>7. EachOnce(vals, Combinations)
  BY <1>2, <1>3, <1>4, <1>5, ListOnceIs
<1>8. QED
  BY <1>6, <1>7, ListOnce DEF n

\* No set is made twice.
LEMMA SetsOnce ==
  ASSUME NEW T, EachOnce(grid, T), grid # <<>>, MaxSets # 0, Saved,
         \A i, j \in DOMAIN Symbols : Symbols[i] = Symbols[j] => i = j
  PROVE  Cardinality(ToSet(sets)) = Len(sets)
<1> DEFINE N == Len(Symbols)
           K == InLimit
           n == N * K
<1>1. K \in Nat \ {0} /\ K <= Len(grid)
  BY InLimitIs
<1>2. N \in Nat /\ DOMAIN Symbols = 1 .. N
  BY GridAssumption
<1>3. /\ Len(grid) \in Nat
      /\ \A k, l \in 1 .. Len(grid) : grid[k] = grid[l] => k = l
  <2>1. grid \in Seq(T) /\ \A k, l \in 1 .. Len(grid) : grid[k] = grid[l] => k = l
    BY ListOnce
  <2>2. QED
    BY <2>1
<1>4. sets = [k \in 1 .. n |-> [symbol |-> Symbols[RowAt(k, K)], args |-> grid[ColumnAt(k, K)]]]
  BY DEF Saved
<1> HIDE DEF N, K
<1>5. /\ n \in Nat
      /\ \A k \in 1 .. n : RowAt(k, K) \in 1 .. N /\ ColumnAt(k, K) \in 1 .. K
      /\ \A k, l \in 1 .. n : RowAt(k, K) = RowAt(l, K) /\ ColumnAt(k, K) = ColumnAt(l, K) => k = l
  BY <1>1, <1>2, Places
<1> HIDE DEF n
<1>6. DOMAIN sets = 1 .. n /\ sets = [k \in 1 .. n |-> sets[k]]
  BY <1>4
<1>7. ASSUME NEW k \in 1 .. n, NEW l \in 1 .. n, sets[k] = sets[l] PROVE k = l
  <2>1. Symbols[RowAt(k, K)] = Symbols[RowAt(l, K)] /\ grid[ColumnAt(k, K)] = grid[ColumnAt(l, K)]
    BY <1>4, <1>7
  <2>2. RowAt(k, K) = RowAt(l, K)
    BY <1>2, <1>5, <2>1
  <2>3. ColumnAt(k, K) = ColumnAt(l, K)
    <3>1. ColumnAt(k, K) \in 1 .. Len(grid) /\ ColumnAt(l, K) \in 1 .. Len(grid)
      BY <1>1, <1>3, <1>5
    <3>2. QED
      BY <1>3, <2>1, <3>1
  <2>4. QED
    BY <1>5, <2>2, <2>3
<1>8. /\ sets \in [1 .. n -> ToSet(sets)]
      /\ \A t \in ToSet(sets) : \E k \in 1 .. n : sets[k] = t
  BY <1>6 DEF ToSet
<1>9. EachOnce(sets, ToSet(sets))
  BY <1>5, <1>7, <1>8, ListOnceIs
<1>10. QED
  BY <1>9, ListOnce

\* The combinations that the sets of a symbol were made of.
MadeOf(symbol) == {Chosen(row.args) : row \in {s \in ToSet(sets) : s.symbol = symbol}}

LEMMA MadeCounted ==
  ASSUME EachOnce(grid, RowsOf(Len(form))), grid # <<>>, MaxSets # 0, Saved,
         NEW symbol \in ToSet(Symbols)
  PROVE  MadeOf(symbol) \subseteq Combinations /\ Cardinality(MadeOf(symbol)) = InLimit
<1> DEFINE N == Len(Symbols)
           K == InLimit
           n == N * K
           vals == [b \in 1 .. K |-> Chosen(grid[b])]
           made == MadeOf(symbol)
<1>1. K \in Nat \ {0} /\ K <= Len(grid)
  BY InLimitIs
<1>2. N \in Nat /\ DOMAIN Symbols = 1 .. N
  BY GridAssumption
<1>3. PICK a \in 1 .. N : Symbols[a] = symbol
  BY <1>2 DEF ToSet
<1>4. /\ \A b \in 1 .. K : grid[b] \in RowsOf(Len(form))
      /\ \A b, d \in 1 .. K : grid[b] = grid[d] => b = d
  <2>1. /\ grid \in Seq(RowsOf(Len(form)))
        /\ \A k, l \in 1 .. Len(grid) : grid[k] = grid[l] => k = l
    BY ListOnce
  <2>2. Len(grid) \in Nat /\ \A b \in 1 .. Len(grid) : grid[b] \in RowsOf(Len(form))
    BY <2>1
  <2>3. \A b \in 1 .. K : b \in 1 .. Len(grid)
    BY <1>1, <2>2
  <2>4. QED
    BY <2>1, <2>2, <2>3
<1>5. sets = [k \in 1 .. n |-> [symbol |-> Symbols[RowAt(k, K)], args |-> grid[ColumnAt(k, K)]]]
  BY DEF Saved
<1> HIDE DEF N, K
<1>6. /\ \A k \in 1 .. n : RowAt(k, K) \in 1 .. N /\ ColumnAt(k, K) \in 1 .. K
      /\ \A i \in 1 .. N, b \in 1 .. K : \E k \in 1 .. n : RowAt(k, K) = i /\ ColumnAt(k, K) = b
  <2> HIDE DEF vals, made
  <2>1. K \in Nat \ {0} /\ N \in Nat
    BY <1>1, <1>2
  <2>2. QED
    BY <2>1, Places
<1> HIDE DEF n
<1>7. /\ DOMAIN sets = 1 .. n
      /\ \A k \in 1 .. n : /\ sets[k].symbol = Symbols[RowAt(k, K)]
                           /\ sets[k].args = grid[ColumnAt(k, K)]
  BY <1>5
<1>8. \A b \in 1 .. K : vals[b] \in made
  <2> TAKE b \in 1 .. K
  <2>1. PICK k \in 1 .. n : RowAt(k, K) = a /\ ColumnAt(k, K) = b
    BY <1>3, <1>6
  <2>2. sets[k] \in ToSet(sets) /\ sets[k].symbol = symbol /\ sets[k].args = grid[b]
    BY <1>3, <1>7, <2>1 DEF ToSet
  <2>3. vals[b] = Chosen(sets[k].args)
    BY <2>2
  <2>4. QED
    BY <2>2, <2>3 DEF MadeOf
<1>9. \A t \in made : \E b \in 1 .. K : vals[b] = t
  <2> TAKE t \in made
  <2>1. PICK row \in ToSet(sets) : row.symbol = symbol /\ t = Chosen(row.args)
    BY DEF MadeOf
  <2>2. PICK k \in 1 .. n : row = sets[k]
    BY <1>7, <2>1 DEF ToSet
  <2>3. ColumnAt(k, K) \in 1 .. K /\ row.args = grid[ColumnAt(k, K)]
    BY <1>6, <1>7, <2>2
  <2>4. QED
    BY <2>1, <2>3
<1>10. \A b, d \in 1 .. K : vals[b] = vals[d] => b = d
  <2> TAKE b, d \in 1 .. K
  <2>1. vals[b] = Chosen(grid[b]) /\ vals[d] = Chosen(grid[d])
    OBVIOUS
  <2>2. QED
    BY <1>4, <2>1, ChosenOnce
<1>11. \A b \in 1 .. K : vals[b] \in Combinations
  BY <1>4, RowChosen
<1>12. vals \in [1 .. K -> made] /\ Len(vals) = K
  BY <1>1, <1>8
<1> HIDE DEF vals, made
<1>13. EachOnce(vals, made)
  BY <1>1, <1>9, <1>10, <1>12, ListOnceIs
<1>14. Cardinality(made) = K
  BY <1>12, <1>13, ListOnce
<1>15. made \subseteq Combinations
  BY <1>9, <1>11
<1>16. QED
  BY <1>14, <1>15 DEF made, K

\* The sets of a scenario are the combinations of its form, each once for each
\* symbol, of which the limit may leave some out (compileAndSave, saveScenario).
\* A limit of zero leaves no combination, of which the code makes one set without
\* parameters, and a symbol that is entered twice gets its sets twice.
THEOREM SetsCoverFormCorrect ==
  MaxSets # 0 /\ (\A i, j \in DOMAIN Symbols : Symbols[i] = Symbols[j] => i = j)
    => (GridSpec => []SetsCoverForm)
<1> SUFFICES ASSUME MaxSets # 0, \A i, j \in DOMAIN Symbols : Symbols[i] = Symbols[j] => i = j
             PROVE  GridSpec => []SetsCoverForm
  OBVIOUS
<1>1. ASSUME GridInv PROVE SetsCoverForm
  <2> SUFFICES ASSUME stage = "saved", form # <<>> PROVE SetsCoverForm
    BY DEF SetsCoverForm
  <2>1. GridTypeOK /\ EachOnce(grid, RowsOf(Len(form))) /\ grid # <<>> /\ Saved
    BY <1>1 DEF GridInv
  <2>2. Cardinality(ToSet(sets)) = Len(sets)
    BY <2>1, SetsOnce
  <2>3. Cardinality(Combinations) = Len(grid)
    BY <2>1, CombinationsCounted
  <2>4. InLimit = IF Cardinality(Combinations) < MaxSets THEN Cardinality(Combinations) ELSE MaxSets
    BY <2>1, <2>3, InLimitIs
  <2>5. \A symbol \in ToSet(Symbols) :
          MadeOf(symbol) \subseteq Combinations /\ Cardinality(MadeOf(symbol)) = InLimit
    BY <2>1, MadeCounted
  <2>6. QED
    BY <2>2, <2>4, <2>5 DEF SetsCoverForm, Combinations, MadeOf, Chosen
<1>2. MaxSets # 0 => (GridSpec => []GridInv)
  BY GridInvCorrect
<1>3. QED
  BY <1>1, <1>2, PTL
=============================================================================
