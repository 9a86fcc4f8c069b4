----------------------------- MODULE ReportView -----------------------------
(***************************************************************************)
(* The page of a report.  A script saves its report, which is announced to *)
(* every client; the page fetches the report when it is opened, subscribes *)
(* to the announcements once there is a report to show, and fetches again  *)
(* at each announcement (useArtifact, fetchArtifact,                       *)
(* subscribeArtifactUpdate, ScriptArtifactsService).  What is shown is one *)
(* place of the store for all reports, and a subscription is never taken   *)
(* back.                                                                   *)
(***************************************************************************)
EXTENDS Naturals, Sequences, FiniteSets

CONSTANTS
  Reports,    \* their artifacts ids
  MaxSaves,   \* bound: saves of a report
  MaxPages,   \* bound: pages opened
  NoReport    \* no page, no report

ASSUME ViewAssumption == NoReport \notin Reports

VARIABLES
  saved,       \* of each report: how often it has been saved; 0: no file
  requests,    \* on their way to the gateway
  events,      \* on their way to the client: [report, version]; 0: announced
  page,        \* the report whose page is open, or NoReport
  pageOpened,  \* pages so far
  shown,       \* the artifact of the store: [report, version], or NoReport
  subscribed,  \* the page's own isSubscribed
  listeners,   \* reports with a subscription
  fetches,     \* reports with a fetch that waits
  late         \* history: reports whose page a subscription, a timer or an
               \* answer to an earlier fetch may have failed

viewVars == <<saved, requests, events, page, pageOpened, shown, subscribed, listeners, fetches, late>>

ViewInit ==
  /\ saved = [r \in Reports |-> 0]
  /\ requests = <<>>
  /\ events = <<>>
  /\ page = NoReport
  /\ pageOpened = 0
  /\ shown = NoReport
  /\ subscribed = FALSE
  /\ listeners = {}
  /\ fetches = {}
  /\ late = {}

\* fetchArtifact: the answer's event is subscribed to, the message is sent.
Fetch(r) ==
  /\ fetches' = fetches \cup {r}
  /\ requests' = Append(requests, r)

\* An answer about the report is on its way.
Coming(r) ==
  \/ \E i \in 1 .. Len(requests) : requests[i] = r
  \/ \E i \in 1 .. Len(events) : events[i].report = r /\ events[i].version > 0

\* The page is opened: its first effect fetches the report.  If it had been
\* fetched before and that answer is still on its way, it will end this fetch
\* too, and the answer about another report may come behind it.
OpenPage(r) ==
  /\ page = NoReport
  /\ pageOpened < MaxPages
  /\ pageOpened' = pageOpened + 1
  /\ page' = r
  /\ subscribed' = FALSE
  /\ late' = IF Coming(r) /\ fetches \ {r} # {} THEN late \cup {r} ELSE late \ {r}
  /\ Fetch(r)
  /\ UNCHANGED <<saved, events, shown, listeners>>

ClosePage ==
  /\ page # NoReport
  /\ page' = NoReport
  /\ UNCHANGED <<saved, requests, events, pageOpened, shown, subscribed, listeners, fetches, late>>

\* The effect that runs when there is a report, which may be that of an
\* earlier page.
SubscribeUpdate ==
  /\ page # NoReport /\ shown # NoReport /\ ~subscribed
  /\ subscribed' = TRUE
  /\ listeners' = listeners \cup {page}
  /\ UNCHANGED <<saved, requests, events, page, pageOpened, shown, fetches, late>>

\* ScriptArtifactsService.save: the file is written and announced.
Save(r) ==
  /\ saved[r] < MaxSaves
  /\ saved' = [saved EXCEPT ![r] = @ + 1]
  /\ events' = Append(events, [report |-> r, version |-> 0])
  /\ UNCHANGED <<requests, page, pageOpened, shown, subscribed, listeners, fetches, late>>

\* The gateway reads the file and answers; a report without a file has no data.
Answer ==
  /\ requests # <<>>
  /\ requests' = Tail(requests)
  /\ events' = Append(events, [report |-> Head(requests), version |-> saved[Head(requests)] + 1])
  /\ UNCHANGED <<saved, page, pageOpened, shown, subscribed, listeners, fetches, late>>

\* The announcement starts a fetch, if it is listened to.
HearUpdate ==
  /\ events # <<>> /\ Head(events).version = 0
  /\ events' = Tail(events)
  /\ IF Head(events).report \in listeners
     THEN Fetch(Head(events).report) /\ UNCHANGED late
     ELSE late' = late \cup {Head(events).report} /\ UNCHANGED <<fetches, requests>>
  /\ UNCHANGED <<saved, page, pageOpened, shown, subscribed, listeners>>

\* Mutant: the answer to one report ends the fetches of all.
TakeAnswerOfAny ==
  LET answer == Head(events) IN
  /\ events # <<>> /\ answer.version > 0
  /\ events' = Tail(events)
  /\ fetches' = {}
  /\ shown' = IF fetches = {} THEN shown
              ELSE IF answer.version = 1 THEN NoReport
              ELSE [report |-> answer.report, version |-> answer.version - 1]
  /\ UNCHANGED <<saved, requests, page, pageOpened, subscribed, listeners, late>>

\* The answer ends the fetches that wait for this report, and takes the place
\* of what is shown.
TakeAnswer ==
  LET answer == Head(events) IN
  /\ events # <<>> /\ answer.version > 0
  /\ events' = Tail(events)
  /\ fetches' = fetches \ {answer.report}
  /\ shown' = IF answer.report \notin fetches THEN shown
              ELSE IF answer.version = 1 THEN NoReport
              ELSE [report |-> answer.report, version |-> answer.version - 1]
  /\ UNCHANGED <<saved, requests, page, pageOpened, subscribed, listeners, late>>

\* 10 s without an answer: the fetch is given up.
FetchTimesOut(r) ==
  /\ r \in fetches
  /\ fetches' = fetches \ {r}
  /\ late' = late \cup {r}
  /\ UNCHANGED <<saved, requests, events, page, pageOpened, shown, subscribed, listeners>>

ViewNext ==
  \/ \E r \in Reports : OpenPage(r) \/ Save(r) \/ FetchTimesOut(r)
  \/ ClosePage
  \/ SubscribeUpdate
  \/ Answer
  \/ HearUpdate
  \/ TakeAnswer

ViewSpec == ViewInit /\ [][ViewNext]_viewVars

-----------------------------------------------------------------------------
(* Properties.                                                             *)

\* When all has arrived, a page that has subscribed shows its own report as
\* it was last saved.  Three things make it show an older one or another's:
\* a subscription that an earlier page has left behind, an announcement that
\* came before the subscription, and a fetch that timed out.
PageShowsLastReport ==
  (/\ requests = <<>> /\ events = <<>> /\ fetches = {}
   /\ page # NoReport /\ subscribed
   /\ listeners = {page} /\ page \notin late)
    => shown = IF saved[page] = 0 THEN NoReport ELSE [report |-> page, version |-> saved[page]]
=============================================================================
