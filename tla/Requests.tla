------------------------------ MODULE Requests ------------------------------
(***************************************************************************)
(* The requests of the user interface that wait for an answer of the       *)
(* engine: each subscribes to the event of its answer, sends its message   *)
(* and starts a timer (login, emitAction, previewExecutionRequest,         *)
(* buildBundle, invalidateCache, pullUserSourceCode).  They differ in what *)
(* they compare and in when they take their subscription back.             *)
(*                                                                         *)
(* The gateway handles the messages of a socket side by side, so that      *)
(* answers come in any order, and some never come: an error of a preview   *)
(* is given to the exception handler only.                                 *)
(***************************************************************************)
EXTENDS Naturals, Sequences, FiniteSets

CONSTANT Calls   \* the requests that are made

Kinds == {"login", "action", "preview", "build", "invalidate", "pull"}

VARIABLES
  kind,      \* of each request, "none" before it is made
  asked,     \* of each request: "no", "waits", "resolved" or "rejected"
  heard,     \* requests whose subscription is there
  taken,     \* of each request: those whose answers its callback has taken
  handled,   \* messages that the gateway works on
  answers,   \* on their way to the client: [to, error]
  mixed      \* history: requests that met another's answer of their kind

requestsVars == <<kind, asked, heard, taken, handled, answers, mixed>>

RequestsInit ==
  /\ kind = [r \in Calls |-> "none"]
  /\ asked = [r \in Calls |-> "no"]
  /\ heard = {}
  /\ taken = [r \in Calls |-> {}]
  /\ handled = {}
  /\ answers = <<>>
  /\ mixed = {}

\* An answer to q is still to come.
ToCome(q) == q \in handled \/ \E i \in 1 .. Len(answers) : answers[i].to = q

\* requestId is sent with an action and compared with the one of the answer.
ComparesId(r) == kind[r] = "action"

\* Mutant: the request of an action takes any answer to an action.
ConcernsAny(r, answer) == r \in heard /\ kind[r] = kind[answer.to]

\* The callback of r is for this answer.
Concerns(r, answer) ==
  /\ r \in heard
  /\ kind[r] = kind[answer.to]
  /\ ComparesId(r) => answer.to = r

\* The event is subscribed to, the message is sent and the timer starts.
Ask(r, k) ==
  LET others == {q \in Calls : q # r /\ kind[q] = k /\ ~ComparesId(q)} IN
  /\ asked[r] = "no"
  /\ kind' = [kind EXCEPT ![r] = k]
  /\ asked' = [asked EXCEPT ![r] = "waits"]
  /\ heard' = heard \cup {r}
  /\ handled' = handled \cup {r}
  /\ mixed' = mixed \cup (IF \E q \in others : ToCome(q) THEN {r} ELSE {})
                    \cup {q \in others : q \in heard}
  /\ UNCHANGED <<taken, answers>>

\* The gateway sends its answer (processMessage).
Replies(r) ==
  /\ r \in handled
  /\ handled' = handled \ {r}
  /\ \E error \in BOOLEAN :
       /\ kind[r] \in {"action", "preview", "invalidate"} => ~error
       /\ answers' = Append(answers, [to |-> r, error |-> error])
  /\ UNCHANGED <<kind, asked, heard, taken, mixed>>

\* An error on the way of these is thrown to the exception handler.
NeverReplies(r) ==
  /\ r \in handled /\ kind[r] \in {"action", "preview", "invalidate"}
  /\ handled' = handled \ {r}
  /\ UNCHANGED <<kind, asked, heard, taken, answers, mixed>>

\* What its answer makes of a request that waits.
Outcome(r, answer) ==
  CASE kind[r] = "login" /\ answer.error -> "rejected"
    [] kind[r] = "pull" /\ ~answer.error -> "waits"
    [] OTHER -> "resolved"

\* The answer comes in, and the callbacks of its event run.  The one of
\* invalidateCache stays subscribed, a promise settles once.
Receive ==
  /\ answers # <<>>
  /\ answers' = Tail(answers)
  /\ LET those == {r \in Calls : Concerns(r, Head(answers))} IN
     /\ asked' = [r \in Calls |->
                   IF r \in those /\ asked[r] = "waits" THEN Outcome(r, Head(answers)) ELSE asked[r]]
     /\ taken' = [r \in Calls |->
                   IF r \in those THEN taken[r] \cup {Head(answers).to} ELSE taken[r]]
     /\ heard' = heard \ {r \in those : kind[r] # "invalidate"}
  /\ UNCHANGED <<kind, handled, mixed>>

\* The timer of r ends.  A preview's was cleared by its answer; a build, an
\* invalidation and a pull keep their subscription.
TimesOut(r) ==
  /\ asked[r] = "waits"
  /\ asked' = [asked EXCEPT ![r] = IF kind[r] \in {"build", "pull"} THEN "resolved" ELSE "rejected"]
  /\ heard' = IF kind[r] \in {"login", "action", "preview"} THEN heard \ {r} ELSE heard
  /\ UNCHANGED <<kind, taken, handled, answers, mixed>>

RequestsNext ==
  \/ \E r \in Calls : (\E k \in Kinds : Ask(r, k)) \/ Replies(r) \/ NeverReplies(r) \/ TimesOut(r)
  \/ Receive

RequestsSpec == RequestsInit /\ [][RequestsNext]_requestsVars

-----------------------------------------------------------------------------
(* Properties.                                                             *)

\* A request takes the answer of another only where its kind compares no id
\* and the two met, be it that the other had timed out and its answer came
\* late (subscribe callbacks of the services): requests made one after the
\* other, and actions however they are made, take their own.
OwnAnswers ==
  \A r \in Calls : taken[r] \subseteq (IF r \in mixed THEN Calls ELSE {r})
=============================================================================
