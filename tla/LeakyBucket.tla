---------------------------- MODULE LeakyBucket ----------------------------
(***************************************************************************)
(* The bucket that a script's context draws from before each call of its   *)
(* exchange: new LeakyBucket({capacity, interval: 1}) and throttle(1).     *)
(* The timeout is then the interval, so that maxCapacity is the capacity   *)
(* and a call is resolved at once or rejected: throttle finds totalCost 0  *)
(* and the queue empty, and startTimer never has to set its timer.         *)
(*                                                                         *)
(* The clock goes in ticks of 1 / TicksPerSecond and a call costs          *)
(* TicksPerSecond units, so that a tick is worth Capacity units and        *)
(* nothing is rounded.                                                     *)
(***************************************************************************)
EXTENDS Integers, SequencesExt, Sums

CONSTANTS
  Capacity,       \* ACCOUNT_LIMIT_API_CALL_PER_SEC
  TicksPerSecond,
  Null            \* lastRefill of a full bucket

ASSUME RatesPositive == Capacity \in Nat \ {0} /\ TicksPerSecond \in Nat \ {0}
ASSUME NullIsNoTime == Null \notin Nat

VARIABLES
  currentCapacity,  \* in units
  lastRefill,       \* how many ticks ago; a second ago is as good as earlier
  calls,            \* history: calls resolved in each tick of the last second,
                    \* those of the present one first
  refused           \* history: the last call of this tick was rejected

bucketVars == <<currentCapacity, lastRefill, calls, refused>>

Full == Capacity * TicksPerSecond
Cost == TicksPerSecond

BucketInit ==
  /\ currentCapacity = Full
  /\ lastRefill = Null
  /\ calls = [n \in 1 .. TicksPerSecond |-> 0]
  /\ refused = FALSE

-----------------------------------------------------------------------------
\* Mutant: the refill is not cut at the capacity.
RefilledUncut ==
  IF currentCapacity < Full THEN currentCapacity + lastRefill * Capacity
  ELSE currentCapacity

\* What refill() leaves in the bucket.
Refilled ==
  IF currentCapacity < Full
  THEN LET units == currentCapacity + lastRefill * Capacity
       IN IF units < Full THEN units ELSE Full
  ELSE currentCapacity

\* Mutant: the bucket must hold more than the call costs.
HasRoomAbove == Refilled > Cost

\* The check of throttle against getCurrentMaxCapacity, with nothing queued.
HasRoom == Refilled >= Cost

\* throttle(1) resolves: the refill, or pay when the bucket was full, sets
\* lastRefill to now.
Resolve ==
  /\ HasRoom
  /\ currentCapacity' = Refilled - Cost
  /\ lastRefill' = 0
  /\ calls' = [calls EXCEPT ![1] = @ + 1]
  /\ refused' = FALSE

\* throttle(1) throws: the bucket overflows.
Reject ==
  /\ ~HasRoom
  /\ currentCapacity' = Refilled
  /\ lastRefill' = 0
  /\ refused' = TRUE
  /\ UNCHANGED calls

\* A tick of the clock.
Elapse ==
  /\ lastRefill' = IF lastRefill \in 0 .. TicksPerSecond - 1 THEN lastRefill + 1
                   ELSE lastRefill
  /\ calls' = <<0>> \o Front(calls)
  /\ refused' = FALSE
  /\ UNCHANGED currentCapacity

BucketNext == Resolve \/ Reject \/ Elapse

BucketSpec == BucketInit /\ [][BucketNext]_bucketVars

-----------------------------------------------------------------------------
(* Properties.                                                             *)

InLastSecond == SumTo(calls, TicksPerSecond)

\* A burst and the refill behind it: in no second, wherever it begins, does a
\* script make twice as many calls as its limit.
SecondBelowTwice == InLastSecond < 2 * Capacity

\* A call is refused only if the script has made as many calls as its limit
\* within the second before: who keeps to the limit is never refused.
RefusedAboveLimit == refused => InLastSecond >= Capacity

\* Both: the limit is about the one that is kept to (throttle, refill).
RateFollowsLimit == SecondBelowTwice /\ RefusedAboveLimit
=============================================================================
