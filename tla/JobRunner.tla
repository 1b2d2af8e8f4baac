------------------------------ MODULE JobRunner ------------------------------
(***************************************************************************)
(* jobs.Runner: the loop every background job runs in, with its retry      *)
(* delays and its circuit breaker, until the context is cancelled.         *)
(*                                                                         *)
(* Durations are signed integers of MaxDuration + 1 values on either side, *)
(* as time.Duration is one of 2^63: doubling one may overflow.             *)
(***************************************************************************)
EXTENDS Integers

CONSTANTS
    Job,              \* the background jobs of one server
    Setting,          \* the configurations jobs are given; zero means unset
    MaxDuration,      \* the longest duration: 2^63 - 1, or that of a shorter integer
    DefaultInterval,  \* defaultInterval
    DefaultErrorMax,  \* defaultErrorBackoffMax
    MaxFailures       \* bound on consecutive failures, where no breaker resets them

Half == MaxDuration + 1
Duration == -Half .. MaxDuration

ASSUME RunnerAssumption ==
    /\ MaxDuration \in Nat \ {0}
    /\ DefaultInterval \in 1 .. MaxDuration /\ DefaultErrorMax \in 1 .. MaxDuration
    /\ Setting \subseteq [interval : Duration, initial : Duration, max : Duration,
                          failures : Nat, cooldown : Duration]
    /\ MaxFailures \in Nat

VARIABLES
    runner,    \* the configuration of each runner, once constructed
    loop,      \* where each loop is: its failures, next error delay and current pause
    cancelled  \* the context of the jobs is cancelled

LoopAt == {"new", "check", "attempt", "pause", "exited"}

RunnerTypeOK ==
    /\ runner \in [Job -> [interval : Duration, initial : Duration, max : Duration,
                           failures : Nat, cooldown : Duration]]
    /\ loop \in [Job -> [at : LoopAt, failures : Nat, errorDelay : Duration, pause : Duration]]
    /\ cancelled \in BOOLEAN

-----------------------------------------------------------------------------
(* New: what is left unset has a default.                                   *)

AtLeast(x, y) == IF x < y THEN y ELSE x

newErrorBackoff(interval, initial, max) ==
    LET first == IF initial <= 0 THEN interval ELSE initial
    IN  [initial |-> first, max |-> AtLeast(IF max <= 0 THEN DefaultErrorMax ELSE max, first)]

newCircuitBreaker(cooldown, fallback) == IF cooldown <= 0 THEN fallback ELSE cooldown

New(setting) ==
    LET interval == IF setting.interval <= 0 THEN DefaultInterval ELSE setting.interval
        backoff == newErrorBackoff(interval, setting.initial, setting.max) IN
    [interval |-> interval, initial |-> backoff.initial, max |-> backoff.max,
     failures |-> setting.failures,
     cooldown |-> newCircuitBreaker(setting.cooldown, backoff.max)]

RunnerInit ==
    /\ \E setting \in Setting : runner = [j \in Job |-> New(setting)]
    /\ loop = [j \in Job |-> [at |-> "new", failures |-> 0, errorDelay |-> runner[j].initial,
                              pause |-> 0]]
    /\ cancelled = FALSE

-----------------------------------------------------------------------------
\* What is left of a sum or product of two durations.
Wrapped(x) == ((x + Half) % (2 * Half)) - Half

\* Wrong on purpose: the maximum is not looked at.
nextBackoff_Uncapped(current, max) == 2 * current

\* Wrong on purpose: the overflow is not looked for.
nextBackoff_Unguarded(current, max) ==
    LET next == Wrapped(2 * current) IN IF next > max THEN max ELSE next

nextBackoff(current, max) ==
    LET next == Wrapped(2 * current)
    IN  IF next < current \/ next > max THEN max ELSE next

Loop(j, at) == loop' = [loop EXCEPT ![j].at = at]

Check(j) ==
    /\ loop[j].at = "check"
    /\ Loop(j, IF cancelled THEN "exited" ELSE "attempt")

\* Wrong on purpose: an open breaker ends the loop.
Opened_Ends(j) ==
    [at |-> "exited", failures |-> 0, errorDelay |-> runner[j].initial, pause |-> 0]

\* The breaker opens: a cooldown, and failures are counted anew.
Opened(j) ==
    [at |-> "pause", failures |-> 0, errorDelay |-> runner[j].initial,
     pause |-> runner[j].cooldown]

(* An attempt that ends once the jobs are cancelled counts for nothing.      *)
AttemptCancelled(j) ==
    /\ loop[j].at = "attempt"
    /\ cancelled
    /\ Loop(j, "exited")

AttemptFails(j) ==
    LET failures == loop[j].failures + 1
        opens == runner[j].failures > 0 /\ failures >= runner[j].failures IN
    /\ loop[j].at = "attempt"
    /\ ~cancelled
    /\ failures <= MaxFailures
    /\ loop' = [loop EXCEPT ![j] =
         IF opens THEN Opened(j)
         ELSE [at |-> "pause", failures |-> failures, pause |-> @.errorDelay,
               errorDelay |-> nextBackoff(@.errorDelay, runner[j].max)]]

(* Work leads to the next attempt at once, an idle attempt to the interval.  *)
AttemptSucceeds(j, worked) ==
    /\ loop[j].at = "attempt"
    /\ ~cancelled
    /\ loop' = [loop EXCEPT ![j] =
         [at |-> IF worked THEN "check" ELSE "pause", failures |-> 0,
          errorDelay |-> runner[j].initial, pause |-> IF worked THEN 0 ELSE runner[j].interval]]

(* sleep: the timer or the cancellation, whichever is seen first.            *)
PauseEnds(j) ==
    /\ loop[j].at = "pause"
    /\ loop' = [loop EXCEPT ![j].at = "check", ![j].pause = 0]

PauseCancelled(j) ==
    /\ loop[j].at = "pause"
    /\ cancelled
    /\ loop' = [loop EXCEPT ![j].at = "exited", ![j].pause = 0]

-----------------------------------------------------------------------------
\* Whatever is configured, and although durations overflow when they are doubled: a job
\* that failed waits for its initial delay at least and its maximum at most, or for the
\* cooldown, and after that many failures in a row it is the cooldown (Runner.Run).
RetryDelaysAreBounded ==
    \A j \in Job :
        /\ 0 < runner[j].initial /\ runner[j].initial <= runner[j].max
        /\ loop[j].errorDelay \in runner[j].initial .. runner[j].max
        /\ loop[j].at = "pause" /\ loop[j].failures > 0 =>
              loop[j].pause \in runner[j].initial .. runner[j].max
        /\ loop[j].at = "pause" => loop[j].pause > 0
        /\ runner[j].failures > 0 => loop[j].failures < runner[j].failures
=============================================================================
