------------------------ MODULE ServerLifecycleProofs ------------------------
(***************************************************************************)
(* Proofs about ServerLifecycle and JobRunner: delays stay in their        *)
(* bounds whatever is configured and however durations overflow, and the   *)
(* process stops in order, with any servers, jobs and requests.            *)
(***************************************************************************)
EXTENDS ServerLifecycle, FiniteSetTheorems, TLAPS

-----------------------------------------------------------------------------
(* The retry delays of a job.                                               *)

RunnerRecord == [interval : Duration, initial : Duration, max : Duration,
                 failures : Nat, cooldown : Duration]
LoopRecord == [at : LoopAt, failures : Nat, errorDelay : Duration, pause : Duration]

\* A delay whose doubling overflows, or is too long, becomes the longest one.
LEMMA BackoffStaysInBounds ==
    ASSUME NEW current \in Int, NEW max \in Int, current <= max
    PROVE  nextBackoff(current, max) \in current .. max
<1>1. Half \in Nat \ {0}
  BY RunnerAssumption DEF Half
<1>2. Wrapped(2 * current) \in Int
  BY <1>1 DEF Wrapped
<1> QED BY <1>2 DEF nextBackoff

\* What New makes of any setting can be waited for.
LEMMA NewIsPositive ==
    ASSUME NEW setting \in Setting
    PROVE  /\ New(setting) \in RunnerRecord
           /\ New(setting).interval > 0 /\ New(setting).cooldown > 0
           /\ 0 < New(setting).initial /\ New(setting).initial <= New(setting).max
<1>1. setting \in RunnerRecord
  BY RunnerAssumption DEF RunnerRecord
<1>2. /\ MaxDuration \in Nat /\ Half \in Nat /\ Half = MaxDuration + 1
      /\ DefaultInterval \in 1 .. MaxDuration /\ DefaultErrorMax \in 1 .. MaxDuration
  BY RunnerAssumption DEF Half
<1> DEFINE interval == New(setting).interval
           initial == New(setting).initial
           max == New(setting).max
           cooldown == New(setting).cooldown
<1>3. interval \in 1 .. MaxDuration
  BY <1>1, <1>2 DEF New, RunnerRecord, Duration
<1>4. initial \in 1 .. MaxDuration
  BY <1>1, <1>2, <1>3 DEF New, newErrorBackoff, RunnerRecord, Duration
<1>5. max \in initial .. MaxDuration
  BY <1>1, <1>2, <1>4 DEF New, newErrorBackoff, AtLeast, RunnerRecord, Duration
<1>6. cooldown \in 1 .. MaxDuration
  BY <1>1, <1>2, <1>4, <1>5 DEF New, newCircuitBreaker, RunnerRecord, Duration
<1>7. New(setting).failures \in Nat
  BY <1>1 DEF New, RunnerRecord
<1>8. New(setting) = [interval |-> interval, initial |-> initial, max |-> max,
                      failures |-> New(setting).failures, cooldown |-> cooldown]
  BY DEF New
<1> HIDE DEF interval, initial, max, cooldown
<1>9. New(setting) \in RunnerRecord
  BY <1>2, <1>3, <1>4, <1>5, <1>6, <1>7, <1>8 DEF RunnerRecord, Duration
<1> QED BY <1>2, <1>3, <1>4, <1>5, <1>6, <1>9 DEF interval, initial, max, cooldown

\* The actions of the loop of one job.
RunnerStep(j) ==
    \/ Check(j) \/ AttemptCancelled(j) \/ AttemptFails(j) \/ PauseEnds(j) \/ PauseCancelled(j)
    \/ \E worked \in BOOLEAN : AttemptSucceeds(j, worked)

\* A step of a loop moves it alone, to a state that keeps types and bounds.
LEMMA LoopMoves ==
    ASSUME RunnerTypeOK, DelaysArePositive, NEW j \in Job, RunnerStep(j)
    PROVE  /\ loop' = [loop EXCEPT ![j] = loop'[j]]
           /\ loop'[j] \in LoopRecord
           /\ loop'[j].errorDelay \in runner[j].initial .. runner[j].max
           /\ loop'[j].at = "pause" /\ loop'[j].failures > 0 =>
                 loop'[j].pause \in runner[j].initial .. runner[j].max
           /\ loop'[j].at = "pause" => loop'[j].pause > 0
           /\ runner[j].failures > 0 => loop'[j].failures < runner[j].failures
           /\ loop[j].at # "exited" /\ loop'[j].at # "new"
<1> DEFINE r == runner[j]
           l == loop[j]
           Bounded(x) == /\ x \in LoopRecord
                         /\ x.errorDelay \in r.initial .. r.max
                         /\ x.at = "pause" /\ x.failures > 0 => x.pause \in r.initial .. r.max
                         /\ x.at = "pause" => x.pause > 0
                         /\ r.failures > 0 => x.failures < r.failures
                         /\ l.at # "exited" /\ x.at # "new"
<1>1. r \in RunnerRecord /\ loop \in [Job -> LoopRecord] /\ l \in LoopRecord
  BY DEF RunnerTypeOK, RunnerRecord, LoopRecord
<1>2. /\ 0 < r.initial /\ r.initial <= r.max /\ r.interval > 0 /\ r.cooldown > 0
      /\ l.errorDelay \in r.initial .. r.max
      /\ l.at = "pause" /\ l.failures > 0 => l.pause \in r.initial .. r.max
      /\ l.at = "pause" => l.pause > 0
      /\ r.failures > 0 => l.failures < r.failures
  BY DEF DelaysArePositive, RetryDelaysAreBounded
<1>3. MaxDuration \in Nat /\ Half = MaxDuration + 1 /\ 0 \in Duration
  BY RunnerAssumption DEF Half, Duration
<1>4. /\ r.initial \in Duration /\ r.max \in Duration /\ r.interval \in Duration
      /\ r.cooldown \in Duration /\ r.failures \in Nat
      /\ l.at \in LoopAt /\ l.failures \in Nat /\ l.errorDelay \in Duration /\ l.pause \in Duration
  BY <1>1 DEF RunnerRecord, LoopRecord
<1> SUFFICES ASSUME NEW x, loop' = [loop EXCEPT ![j] = x]
             PROVE  Bounded(x)
  <2>1. loop' = [loop EXCEPT ![j] = loop'[j]]
    BY <1>1 DEF RunnerStep, Check, AttemptCancelled, AttemptFails, AttemptSucceeds, PauseEnds,
       PauseCancelled, Loop
  <2> QED BY <2>1
<1>5. loop'[j] = x
  BY <1>1
<1> HIDE DEF r, l
<1>6. CASE Check(j) \/ AttemptCancelled(j)
  <2>1. x = [l EXCEPT !.at = "exited"] \/ x = [l EXCEPT !.at = "attempt"]
    BY <1>1, <1>5, <1>6 DEF Check, AttemptCancelled, Loop, l
  <2>2. l.at \in {"check", "attempt"}
    BY <1>6 DEF Check, AttemptCancelled, l
  <2> QED BY <1>1, <1>2, <1>4, <2>1, <2>2 DEF LoopRecord, LoopAt
<1>7. CASE AttemptFails(j)
  <2> DEFINE next == nextBackoff(l.errorDelay, r.max)
  <2>1. next \in l.errorDelay .. r.max
    <3>1. l.errorDelay \in Int /\ r.max \in Int /\ l.errorDelay <= r.max
      BY <1>2, <1>3, <1>4 DEF Duration
    <3> QED BY <3>1, BackoffStaysInBounds
  <2>2. next \in Duration
    BY <1>2, <1>3, <1>4, <2>1 DEF Duration
  <2>3. l.at = "attempt"
    BY <1>7 DEF AttemptFails, l
  <2>4. CASE r.failures > 0 /\ l.failures + 1 >= r.failures
    <3>1. x = [at |-> "pause", failures |-> 0, errorDelay |-> r.initial, pause |-> r.cooldown]
      BY <1>1, <1>5, <1>7, <2>4 DEF AttemptFails, Opened, l, r
    <3> QED BY <1>2, <1>3, <1>4, <2>3, <3>1 DEF LoopRecord, LoopAt, Duration
  <2>5. CASE ~(r.failures > 0 /\ l.failures + 1 >= r.failures)
    <3>1. x = [at |-> "pause", failures |-> l.failures + 1, pause |-> l.errorDelay, errorDelay |-> next]
      BY <1>1, <1>5, <1>7, <2>5 DEF AttemptFails, l, r
    <3> HIDE DEF next
    <3>2. x \in LoopRecord
      BY <1>4, <2>2, <3>1 DEF LoopRecord, LoopAt
    <3>3. x.errorDelay \in r.initial .. r.max /\ x.pause \in r.initial .. r.max /\ x.pause > 0
      BY <1>2, <1>3, <1>4, <2>1, <3>1 DEF Duration
    <3>4. r.failures > 0 => x.failures < r.failures
      BY <1>4, <2>5, <3>1
    <3> QED BY <2>3, <3>1, <3>2, <3>3, <3>4
  <2> QED BY <2>4, <2>5
<1>8. ASSUME NEW worked \in BOOLEAN, AttemptSucceeds(j, worked) PROVE Bounded(x)
  <2>1. /\ x = [at |-> IF worked THEN "check" ELSE "pause", failures |-> 0,
                errorDelay |-> r.initial, pause |-> IF worked THEN 0 ELSE r.interval]
        /\ l.at = "attempt"
    BY <1>1, <1>5, <1>8 DEF AttemptSucceeds, l, r
  <2> QED BY <1>2, <1>3, <1>4, <2>1 DEF LoopRecord, LoopAt, Duration
<1>9. CASE PauseEnds(j) \/ PauseCancelled(j)
  <2>1. \/ x = [[l EXCEPT !.at = "check"] EXCEPT !.pause = 0]
        \/ x = [[l EXCEPT !.at = "exited"] EXCEPT !.pause = 0]
    BY <1>1, <1>5, <1>9 DEF PauseEnds, PauseCancelled, l
  <2>2. l.at = "pause"
    BY <1>9 DEF PauseEnds, PauseCancelled, l
  <2> QED BY <1>1, <1>2, <1>3, <1>4, <2>1, <2>2 DEF LoopRecord, LoopAt
<1> QED BY <1>6, <1>7, <1>8, <1>9 DEF RunnerStep

\* A step changes at most one loop, by a step of its own, unless it starts all of them.
LEMMA LoopsMove ==
    ASSUME Inductive, [Next]_vars
    PROVE  /\ UNCHANGED runner
           /\ cancelled' \in BOOLEAN
           /\ \/ UNCHANGED loop
              \/ Listen /\ loop' = [j \in Job |-> [loop[j] EXCEPT !.at = "check"]]
              \/ \E j \in Job : JobStep(j) /\ RunnerStep(j)
<1> DEFINE Moves == /\ UNCHANGED runner
                    /\ cancelled' \in BOOLEAN
                    /\ \/ UNCHANGED loop
                       \/ Listen /\ loop' = [j \in Job |-> [loop[j] EXCEPT !.at = "check"]]
                       \/ \E j \in Job : JobStep(j) /\ RunnerStep(j)
<1>1. cancelled \in BOOLEAN
  BY DEF Inductive, TypeOK, RunnerTypeOK
<1>2. CASE UNCHANGED <<runner, loop, cancelled>>
  BY <1>1, <1>2
<1>3. CASE Listen
  BY <1>1, <1>3 DEF Listen
<1>4. ASSUME NEW j \in Job, JobStep(j) PROVE Moves
  BY <1>1, <1>4 DEF JobStep, RunnerStep
<1>5. CASE Main
  BY <1>2, <1>3, <1>5 DEF Main, StartTelemetry, OpenStore, BuildServer, ShutdownRequested, ComponentExited,
     CloseListener, ShutdownHttp, ShutdownTelemetry, CloseStore, StoreClosed, Drain, Idle, Jobless, Cancels
<1>6. CASE Background
  BY <1>2, <1>4, <1>6 DEF Background, Signal, DeadlinePasses, ServeReturns, ServeFails, Arrive, Finish,
     Acquire, ReleaseConnection, Jobless, Cancels
<1>7. CASE UNCHANGED vars
  BY <1>2, <1>7 DEF vars
<1> QED BY <1>5, <1>6, <1>7 DEF Next

\* Delays keep their types and their bounds.
LEMMA DelaysStayBounded ==
    ASSUME Inductive, [Next]_vars
    PROVE  RunnerTypeOK' /\ DelaysArePositive'
<1>1. RunnerTypeOK /\ DelaysArePositive /\ loop \in [Job -> LoopRecord]
  BY DEF Inductive, TypeOK, RunnerTypeOK, LoopRecord
<1>2. UNCHANGED runner /\ cancelled' \in BOOLEAN
  BY LoopsMove
<1>3. CASE UNCHANGED loop
  BY <1>1, <1>2, <1>3 DEF RunnerTypeOK, DelaysArePositive, RetryDelaysAreBounded
<1>4. CASE Listen /\ loop' = [j \in Job |-> [loop[j] EXCEPT !.at = "check"]]
  <2>1. \A j \in Job : /\ loop'[j] \in LoopRecord /\ loop'[j].at = "check"
                       /\ loop'[j].failures = loop[j].failures
                       /\ loop'[j].errorDelay = loop[j].errorDelay
    BY <1>1, <1>4 DEF LoopRecord, LoopAt
  <2>2. loop' \in [Job -> LoopRecord]
    BY <1>4, <2>1
  <2> QED BY <1>1, <1>2, <2>1, <2>2 DEF RunnerTypeOK, LoopRecord, DelaysArePositive, RetryDelaysAreBounded
<1>5. ASSUME NEW j \in Job, RunnerStep(j)
      PROVE  RunnerTypeOK' /\ DelaysArePositive'
  <2>1. /\ loop' = [loop EXCEPT ![j] = loop'[j]]
        /\ loop'[j] \in LoopRecord
        /\ loop'[j].errorDelay \in runner[j].initial .. runner[j].max
        /\ loop'[j].at = "pause" /\ loop'[j].failures > 0 =>
              loop'[j].pause \in runner[j].initial .. runner[j].max
        /\ loop'[j].at = "pause" => loop'[j].pause > 0
        /\ runner[j].failures > 0 => loop'[j].failures < runner[j].failures
    BY <1>1, <1>5, LoopMoves
  <2>2. loop' \in [Job -> LoopRecord] /\ \A k \in Job \ {j} : loop'[k] = loop[k]
    BY <1>1, <2>1
  <2>3. RunnerTypeOK'
    BY <1>1, <1>2, <2>2 DEF RunnerTypeOK, LoopRecord
  <2>4. \A k \in Job :
          /\ 0 < runner'[k].initial /\ runner'[k].initial <= runner'[k].max
          /\ loop'[k].errorDelay \in runner'[k].initial .. runner'[k].max
          /\ loop'[k].at = "pause" /\ loop'[k].failures > 0 =>
                loop'[k].pause \in runner'[k].initial .. runner'[k].max
          /\ loop'[k].at = "pause" => loop'[k].pause > 0
          /\ runner'[k].failures > 0 => loop'[k].failures < runner'[k].failures
    <3> SUFFICES ASSUME NEW k \in Job
                 PROVE  /\ 0 < runner[k].initial /\ runner[k].initial <= runner[k].max
                        /\ loop'[k].errorDelay \in runner[k].initial .. runner[k].max
                        /\ loop'[k].at = "pause" /\ loop'[k].failures > 0 =>
                              loop'[k].pause \in runner[k].initial .. runner[k].max
                        /\ loop'[k].at = "pause" => loop'[k].pause > 0
                        /\ runner[k].failures > 0 => loop'[k].failures < runner[k].failures
      BY <1>2
    <3>1. CASE k = j
      BY <1>1, <2>1, <3>1 DEF DelaysArePositive, RetryDelaysAreBounded
    <3>2. CASE k # j
      BY <1>1, <2>2, <3>2 DEF DelaysArePositive, RetryDelaysAreBounded
    <3> QED BY <3>1, <3>2
  <2>5. \A k \in Job : runner'[k].interval > 0 /\ runner'[k].cooldown > 0
    BY <1>1, <1>2 DEF DelaysArePositive
  <2> QED BY <2>3, <2>4, <2>5 DEF DelaysArePositive, RetryDelaysAreBounded
<1> QED BY <1>3, <1>4, <1>5, LoopsMove

-----------------------------------------------------------------------------
(* The components and what they send.                                       *)

\* There are finitely many components, and the api server is one.
LEMMA ComponentsAreFinite ==
    /\ IsFiniteSet(Component) /\ Cardinality(Component) \in Nat \ {0}
    /\ "api" \in HttpServer /\ "api" \in Component
<1>1. IsFiniteSet({"api", "metrics"}) /\ HttpServer \in SUBSET {"api", "metrics"}
  <2>1. IsFiniteSet({} \cup {"api"})
    BY FS_EmptySet, FS_AddElement
  <2>2. IsFiniteSet(({} \cup {"api"}) \cup {"metrics"})
    BY <2>1, FS_AddElement
  <2>3. ({} \cup {"api"}) \cup {"metrics"} = {"api", "metrics"}
    OBVIOUS
  <2> QED BY <2>2, <2>3, ServersAssumption
<1>2. IsFiniteSet(HttpServer)
  BY <1>1, FS_Subset
<1>3. IsFiniteSet(Component)
  BY <1>2, JobsAssumption, FS_Union DEF Component
<1>4. "api" \in HttpServer /\ "api" \in Component
  BY ServersAssumption DEF Component
<1>5. Cardinality(Component) \in Nat /\ Cardinality(Component) # 0
  BY <1>3, <1>4, FS_CardinalityType, FS_EmptySet
<1> QED BY <1>3, <1>4, <1>5

-----------------------------------------------------------------------------
(* The other variables.                                                     *)

HttpAt == {"none", "serving", "closing", "exited"}

\* Every variable but those of the runner keeps its type.
ProcessTypeOK ==
    /\ main \in MainAt
    /\ asked \in BOOLEAN /\ deadline \in BOOLEAN /\ erred \in BOOLEAN
    /\ http \in [HttpServer -> {"none", "serving", "closing", "exited"}]
    /\ results \subseteq Component /\ failed \subseteq Component
    /\ pending \in 0 .. Cardinality(Component)
    /\ pool \in {"none", "open", "closing", "closed"}
    /\ telemetry \in {"none", "open", "shut"}
    /\ request \in [Request -> {"none", "active", "done"}]
    /\ holds \subseteq Request \cup Job

LEMMA ProcessTypes ==
    ASSUME Inductive, [Next]_vars
    PROVE  ProcessTypeOK'
<1>1. ProcessTypeOK /\ Cardinality(Component) \in Nat \ {0} /\ HttpServer \subseteq MainAt \cap Component
      /\ Job \subseteq Component
  BY ComponentsAreFinite, ServersAssumption DEF Inductive, TypeOK, ProcessTypeOK, MainAt, Shutdown, Component
<1>2. CASE StartTelemetry
  BY <1>1, <1>2 DEF StartTelemetry, Succeeds, Returns, Idle, process, components, clients, ProcessTypeOK, MainAt, Shutdown
<1>3. CASE OpenStore
  BY <1>1, <1>3 DEF OpenStore, Succeeds, Returns, Idle, process, components, clients, ProcessTypeOK, MainAt, Shutdown
<1>4. CASE BuildServer
  BY <1>1, <1>4 DEF BuildServer, Succeeds, Returns, Idle, closeRunDependencies, process, components, clients, ProcessTypeOK, MainAt, Shutdown
<1>5. CASE Listen
  BY <1>1, <1>5 DEF Listen, Succeeds, Returns, process, components, clients, ProcessTypeOK, MainAt, Shutdown
<1>6. CASE ShutdownRequested
  BY <1>1, <1>6 DEF ShutdownRequested, Starts, Cancels, process, components, clients, ProcessTypeOK, MainAt, Shutdown
<1>7. CASE ComponentExited
  BY <1>1, <1>7 DEF ComponentExited, Starts, Cancels, process, components, clients, ProcessTypeOK, MainAt, Shutdown
<1>8. ASSUME NEW s \in HttpServer, CloseListener(s) PROVE ProcessTypeOK'
  BY <1>1, <1>8 DEF CloseListener, Jobless, process, components, clients, ProcessTypeOK, MainAt, Shutdown
<1>9. ASSUME NEW s \in HttpServer, ShutdownHttp(s) PROVE ProcessTypeOK'
  BY <1>1, <1>9 DEF ShutdownHttp, Starts, After, Quiet, Overdue, Jobless, process, components, clients, ProcessTypeOK, MainAt, Shutdown
<1>10. CASE ShutdownTelemetry
  BY <1>1, <1>10 DEF ShutdownTelemetry, Starts, Jobless, process, components, clients, ProcessTypeOK, MainAt, Shutdown
<1>11. CASE CloseStore
  BY <1>1, <1>11 DEF CloseStore, Starts, Jobless, process, components, clients, ProcessTypeOK, MainAt, Shutdown
<1>12. CASE StoreClosed
  BY <1>1, <1>12 DEF StoreClosed, Starts, Jobless, process, components, clients, ProcessTypeOK, MainAt, Shutdown
<1>13. CASE Drain
  <2>1. \/ UNCHANGED pending
        \/ pending > 0 /\ pending' = pending - 1
    BY <1>13 DEF Drain
  <2>2. pending' \in 0 .. Cardinality(Component)
    BY <1>1, <2>1 DEF ProcessTypeOK
  <2>3. main' \in MainAt /\ erred' \in BOOLEAN /\ results' \subseteq Component
    BY <1>1, <1>13 DEF Drain, ProcessTypeOK, MainAt
  <2> QED BY <1>1, <1>13, <2>2, <2>3 DEF Drain, Jobless, clients, ProcessTypeOK
<1>14. CASE Signal
  BY <1>1, <1>14 DEF Signal, Cancels, process, components, clients, ProcessTypeOK, MainAt, Shutdown
<1>15. CASE DeadlinePasses
  BY <1>1, <1>15 DEF DeadlinePasses, Jobless, process, components, clients, ProcessTypeOK, MainAt, Shutdown
<1>16. ASSUME NEW s \in HttpServer, ServeReturns(s) PROVE ProcessTypeOK'
  BY <1>1, <1>16 DEF ServeReturns, Sends, Jobless, process, components, clients, ProcessTypeOK, MainAt, Shutdown
<1>17. ASSUME NEW s \in HttpServer, ServeFails(s) PROVE ProcessTypeOK'
  BY <1>1, <1>17 DEF ServeFails, Sends, Jobless, process, components, clients, ProcessTypeOK, MainAt, Shutdown
<1>18. ASSUME NEW q \in Request, Arrive(q) PROVE ProcessTypeOK'
  BY <1>1, <1>18 DEF Arrive, Jobless, process, components, clients, ProcessTypeOK, MainAt, Shutdown
<1>19. ASSUME NEW q \in Request, Finish(q) PROVE ProcessTypeOK'
  BY <1>1, <1>19 DEF Finish, Jobless, process, components, clients, ProcessTypeOK, MainAt, Shutdown
<1>20. ASSUME NEW x \in Request \cup Job, Acquire(x) PROVE ProcessTypeOK'
  BY <1>1, <1>20 DEF Acquire, Jobless, Uses, process, components, clients, ProcessTypeOK, MainAt, Shutdown
<1>21. ASSUME NEW x \in Request \cup Job, ReleaseConnection(x) PROVE ProcessTypeOK'
  BY <1>1, <1>21 DEF ReleaseConnection, Jobless, process, components, clients, ProcessTypeOK, MainAt, Shutdown
<1>22. ASSUME NEW j \in Job, JobStep(j) PROVE ProcessTypeOK'
  BY <1>1, <1>22 DEF JobStep, Sends, process, components, clients, ProcessTypeOK, MainAt, Shutdown
<1>23. CASE UNCHANGED vars
  BY <1>1, <1>23 DEF vars, process, components, clients, ProcessTypeOK, MainAt, Shutdown
<1> QED BY <1>2, <1>3, <1>4, <1>5, <1>6, <1>7, <1>8, <1>9, <1>10, <1>11, <1>12, <1>13, <1>14, <1>15,
     <1>16, <1>17, <1>18, <1>19, <1>20, <1>21, <1>22, <1>23 DEF Next, Main, Background

-----------------------------------------------------------------------------
(* The order in which the process starts and stops.                         *)

LEMMA StartStaysAlone ==
    ASSUME Inductive, [Next]_vars
    PROVE  StartsAlone'
<1>1. StartsAlone /\ loop \in [Job -> LoopRecord] /\ http \in [HttpServer -> HttpAt]
      /\ "api" \in HttpServer /\ HttpServer \subseteq {"api", "metrics"}
  BY ServersAssumption DEF Inductive, TypeOK, RunnerTypeOK, LoopRecord, HttpAt
<1>2. CASE StartTelemetry
  BY <1>1, <1>2 DEF StartTelemetry, Succeeds, Returns, Idle, process, components, clients, StartsAlone, Starting, Check, AttemptCancelled, AttemptFails, AttemptSucceeds, PauseEnds, PauseCancelled
<1>3. CASE OpenStore
  BY <1>1, <1>3 DEF OpenStore, Succeeds, Returns, Idle, process, components, clients, StartsAlone, Starting, Check, AttemptCancelled, AttemptFails, AttemptSucceeds, PauseEnds, PauseCancelled
<1>4. CASE BuildServer
  BY <1>1, <1>4 DEF BuildServer, Succeeds, Returns, Idle, closeRunDependencies, process, components, clients, StartsAlone, Starting, Check, AttemptCancelled, AttemptFails, AttemptSucceeds, PauseEnds, PauseCancelled
<1>5. CASE Listen
  BY <1>1, <1>5 DEF Listen, Succeeds, Returns, process, components, clients, StartsAlone, Starting, Check, AttemptCancelled, AttemptFails, AttemptSucceeds, PauseEnds, PauseCancelled
<1>6. CASE ShutdownRequested
  BY <1>1, <1>6 DEF ShutdownRequested, Starts, Cancels, process, components, clients, StartsAlone, Starting, Check, AttemptCancelled, AttemptFails, AttemptSucceeds, PauseEnds, PauseCancelled
<1>7. CASE ComponentExited
  BY <1>1, <1>7 DEF ComponentExited, Starts, Cancels, process, components, clients, StartsAlone, Starting, Check, AttemptCancelled, AttemptFails, AttemptSucceeds, PauseEnds, PauseCancelled
<1>8. ASSUME NEW s \in HttpServer, CloseListener(s) PROVE StartsAlone'
  BY <1>1, <1>8 DEF CloseListener, Jobless, process, components, clients, StartsAlone, Starting, Check, AttemptCancelled, AttemptFails, AttemptSucceeds, PauseEnds, PauseCancelled
<1>9. ASSUME NEW s \in HttpServer, ShutdownHttp(s) PROVE StartsAlone'
  BY <1>1, <1>9 DEF ShutdownHttp, Starts, After, Quiet, Overdue, Jobless, process, components, clients, StartsAlone, Starting, Check, AttemptCancelled, AttemptFails, AttemptSucceeds, PauseEnds, PauseCancelled
<1>10. CASE ShutdownTelemetry
  BY <1>1, <1>10 DEF ShutdownTelemetry, Starts, Jobless, process, components, clients, StartsAlone, Starting, Check, AttemptCancelled, AttemptFails, AttemptSucceeds, PauseEnds, PauseCancelled
<1>11. CASE CloseStore
  BY <1>1, <1>11 DEF CloseStore, Starts, Jobless, process, components, clients, StartsAlone, Starting, Check, AttemptCancelled, AttemptFails, AttemptSucceeds, PauseEnds, PauseCancelled
<1>12. CASE StoreClosed
  BY <1>1, <1>12 DEF StoreClosed, Starts, Jobless, process, components, clients, StartsAlone, Starting, Check, AttemptCancelled, AttemptFails, AttemptSucceeds, PauseEnds, PauseCancelled
<1>13. CASE Drain
  BY <1>1, <1>13 DEF Drain, AllReceived, Overdue, Jobless, process, components, clients, StartsAlone, Starting, Check, AttemptCancelled, AttemptFails, AttemptSucceeds, PauseEnds, PauseCancelled
<1>14. CASE Signal
  BY <1>1, <1>14 DEF Signal, Cancels, process, components, clients, StartsAlone, Starting, Check, AttemptCancelled, AttemptFails, AttemptSucceeds, PauseEnds, PauseCancelled
<1>15. CASE DeadlinePasses
  BY <1>1, <1>15 DEF DeadlinePasses, Jobless, process, components, clients, StartsAlone, Starting, Check, AttemptCancelled, AttemptFails, AttemptSucceeds, PauseEnds, PauseCancelled
<1>16. ASSUME NEW s \in HttpServer, ServeReturns(s) PROVE StartsAlone'
  BY <1>1, <1>16 DEF ServeReturns, Sends, Jobless, process, components, clients, StartsAlone, Starting, Check, AttemptCancelled, AttemptFails, AttemptSucceeds, PauseEnds, PauseCancelled
<1>17. ASSUME NEW s \in HttpServer, ServeFails(s) PROVE StartsAlone'
  BY <1>1, <1>17 DEF ServeFails, Sends, Jobless, process, components, clients, StartsAlone, Starting, Check, AttemptCancelled, AttemptFails, AttemptSucceeds, PauseEnds, PauseCancelled
<1>18. ASSUME NEW q \in Request, Arrive(q) PROVE StartsAlone'
  BY <1>1, <1>18 DEF Arrive, Jobless, process, components, clients, StartsAlone, Starting, Check, AttemptCancelled, AttemptFails, AttemptSucceeds, PauseEnds, PauseCancelled
<1>19. ASSUME NEW q \in Request, Finish(q) PROVE StartsAlone'
  BY <1>1, <1>19 DEF Finish, Jobless, process, components, clients, StartsAlone, Starting, Check, AttemptCancelled, AttemptFails, AttemptSucceeds, PauseEnds, PauseCancelled
<1>20. ASSUME NEW x \in Request \cup Job, Acquire(x) PROVE StartsAlone'
  BY <1>1, <1>20 DEF Acquire, Jobless, Uses, process, components, clients, StartsAlone, Starting, Check, AttemptCancelled, AttemptFails, AttemptSucceeds, PauseEnds, PauseCancelled
<1>21. ASSUME NEW x \in Request \cup Job, ReleaseConnection(x) PROVE StartsAlone'
  BY <1>1, <1>21 DEF ReleaseConnection, Jobless, process, components, clients, StartsAlone, Starting, Check, AttemptCancelled, AttemptFails, AttemptSucceeds, PauseEnds, PauseCancelled
<1>22. ASSUME NEW j \in Job, JobStep(j) PROVE StartsAlone'
  BY <1>1, <1>22 DEF JobStep, Sends, process, components, clients, StartsAlone, Starting, Check, AttemptCancelled, AttemptFails, AttemptSucceeds, PauseEnds, PauseCancelled
<1>23. CASE UNCHANGED vars
  BY <1>1, <1>23 DEF vars, process, components, clients, StartsAlone, Starting, Check, AttemptCancelled, AttemptFails, AttemptSucceeds, PauseEnds, PauseCancelled
<1> QED BY <1>2, <1>3, <1>4, <1>5, <1>6, <1>7, <1>8, <1>9, <1>10, <1>11, <1>12, <1>13, <1>14, <1>15,
     <1>16, <1>17, <1>18, <1>19, <1>20, <1>21, <1>22, <1>23 DEF Next, Main, Background

LEMMA StagesStay ==
    ASSUME Inductive, [Next]_vars
    PROVE  StagesAgree'
<1>1. StagesAgree /\ StartsAlone /\ main \in MainAt /\ HttpServer \subseteq {"api", "metrics"}
  BY ServersAssumption DEF Inductive, TypeOK
<1>2. CASE StartTelemetry
  BY <1>1, <1>2 DEF StartTelemetry, Succeeds, Returns, Idle, process, components, clients, StagesAgree, StartsAlone, Starting, MainAt, Shutdown
<1>3. CASE OpenStore
  BY <1>1, <1>3 DEF OpenStore, Succeeds, Returns, Idle, process, components, clients, StagesAgree, StartsAlone, Starting, MainAt, Shutdown
<1>4. CASE BuildServer
  BY <1>1, <1>4 DEF BuildServer, Succeeds, Returns, Idle, closeRunDependencies, process, components, clients, StagesAgree, StartsAlone, Starting, MainAt, Shutdown
<1>5. CASE Listen
  BY <1>1, <1>5 DEF Listen, Succeeds, Returns, process, components, clients, StagesAgree, StartsAlone, Starting, MainAt, Shutdown
<1>6. CASE ShutdownRequested
  BY <1>1, <1>6 DEF ShutdownRequested, Starts, Cancels, process, components, clients, StagesAgree, StartsAlone, Starting, MainAt, Shutdown
<1>7. CASE ComponentExited
  BY <1>1, <1>7 DEF ComponentExited, Starts, Cancels, process, components, clients, StagesAgree, StartsAlone, Starting, MainAt, Shutdown
<1>8. ASSUME NEW s \in HttpServer, CloseListener(s) PROVE StagesAgree'
  BY <1>1, <1>8 DEF CloseListener, Jobless, process, components, clients, StagesAgree, StartsAlone, Starting, MainAt, Shutdown
<1>9. ASSUME NEW s \in HttpServer, ShutdownHttp(s) PROVE StagesAgree'
  BY <1>1, <1>9 DEF ShutdownHttp, Starts, After, Quiet, Overdue, Jobless, process, components, clients, StagesAgree, StartsAlone, Starting, MainAt, Shutdown
<1>10. CASE ShutdownTelemetry
  BY <1>1, <1>10 DEF ShutdownTelemetry, Starts, Jobless, process, components, clients, StagesAgree, StartsAlone, Starting, MainAt, Shutdown
<1>11. CASE CloseStore
  BY <1>1, <1>11 DEF CloseStore, Starts, Jobless, process, components, clients, StagesAgree, StartsAlone, Starting, MainAt, Shutdown
<1>12. CASE StoreClosed
  BY <1>1, <1>12 DEF StoreClosed, Starts, Jobless, process, components, clients, StagesAgree, StartsAlone, Starting, MainAt, Shutdown
<1>13. CASE Drain
  BY <1>1, <1>13 DEF Drain, AllReceived, Overdue, Jobless, process, components, clients, StagesAgree, StartsAlone, Starting, MainAt, Shutdown
<1>14. CASE Signal
  BY <1>1, <1>14 DEF Signal, Cancels, process, components, clients, StagesAgree, StartsAlone, Starting, MainAt, Shutdown
<1>15. CASE DeadlinePasses
  BY <1>1, <1>15 DEF DeadlinePasses, Jobless, process, components, clients, StagesAgree, StartsAlone, Starting, MainAt, Shutdown
<1>16. ASSUME NEW s \in HttpServer, ServeReturns(s) PROVE StagesAgree'
  BY <1>1, <1>16 DEF ServeReturns, Sends, Jobless, process, components, clients, StagesAgree, StartsAlone, Starting, MainAt, Shutdown
<1>17. ASSUME NEW s \in HttpServer, ServeFails(s) PROVE StagesAgree'
  BY <1>1, <1>17 DEF ServeFails, Sends, Jobless, process, components, clients, StagesAgree, StartsAlone, Starting, MainAt, Shutdown
<1>18. ASSUME NEW q \in Request, Arrive(q) PROVE StagesAgree'
  BY <1>1, <1>18 DEF Arrive, Jobless, process, components, clients, StagesAgree, StartsAlone, Starting, MainAt, Shutdown
<1>19. ASSUME NEW q \in Request, Finish(q) PROVE StagesAgree'
  BY <1>1, <1>19 DEF Finish, Jobless, process, components, clients, StagesAgree, StartsAlone, Starting, MainAt, Shutdown
<1>20. ASSUME NEW x \in Request \cup Job, Acquire(x) PROVE StagesAgree'
  BY <1>1, <1>20 DEF Acquire, Jobless, Uses, process, components, clients, StagesAgree, StartsAlone, Starting, MainAt, Shutdown
<1>21. ASSUME NEW x \in Request \cup Job, ReleaseConnection(x) PROVE StagesAgree'
  BY <1>1, <1>21 DEF ReleaseConnection, Jobless, process, components, clients, StagesAgree, StartsAlone, Starting, MainAt, Shutdown
<1>22. ASSUME NEW j \in Job, JobStep(j) PROVE StagesAgree'
  BY <1>1, <1>22 DEF JobStep, Sends, process, components, clients, StagesAgree, StartsAlone, Starting, MainAt, Shutdown
<1>23. CASE UNCHANGED vars
  BY <1>1, <1>23 DEF vars, process, components, clients, StagesAgree, StartsAlone, Starting, MainAt, Shutdown
<1> QED BY <1>2, <1>3, <1>4, <1>5, <1>6, <1>7, <1>8, <1>9, <1>10, <1>11, <1>12, <1>13, <1>14, <1>15,
     <1>16, <1>17, <1>18, <1>19, <1>20, <1>21, <1>22, <1>23 DEF Next, Main, Background

LEMMA ListenersStayClosed ==
    ASSUME Inductive, [Next]_vars
    PROVE  ListenersClose'
<1>1. /\ ListenersClose /\ StartsAlone /\ main \in MainAt /\ http \in [HttpServer -> HttpAt]
      /\ request \in [Request -> {"none", "active", "done"}]
      /\ "api" \in HttpServer /\ HttpServer \subseteq {"api", "metrics"}
  BY ServersAssumption DEF Inductive, TypeOK, HttpAt
<1>2. CASE StartTelemetry
  BY <1>1, <1>2 DEF StartTelemetry, Succeeds, Returns, Idle, process, components, clients, ListenersClose, StartsAlone, Starting, Later, HttpAt, MainAt, Shutdown
<1>3. CASE OpenStore
  BY <1>1, <1>3 DEF OpenStore, Succeeds, Returns, Idle, process, components, clients, ListenersClose, StartsAlone, Starting, Later, HttpAt, MainAt, Shutdown
<1>4. CASE BuildServer
  BY <1>1, <1>4 DEF BuildServer, Succeeds, Returns, Idle, closeRunDependencies, process, components, clients, ListenersClose, StartsAlone, Starting, Later, HttpAt, MainAt, Shutdown
<1>5. CASE Listen
  BY <1>1, <1>5 DEF Listen, Succeeds, Returns, process, components, clients, ListenersClose, StartsAlone, Starting, Later, HttpAt, MainAt, Shutdown
<1>6. CASE ShutdownRequested
  BY <1>1, <1>6 DEF ShutdownRequested, Starts, Cancels, process, components, clients, ListenersClose, StartsAlone, Starting, Later, HttpAt, MainAt, Shutdown
<1>7. CASE ComponentExited
  BY <1>1, <1>7 DEF ComponentExited, Starts, Cancels, process, components, clients, ListenersClose, StartsAlone, Starting, Later, HttpAt, MainAt, Shutdown
<1>8. ASSUME NEW s \in HttpServer, CloseListener(s) PROVE ListenersClose'
  BY <1>1, <1>8 DEF CloseListener, Jobless, process, components, clients, ListenersClose, StartsAlone, Starting, Later, HttpAt, MainAt, Shutdown
<1>9. ASSUME NEW s \in HttpServer, ShutdownHttp(s) PROVE ListenersClose'
  BY <1>1, <1>9 DEF ShutdownHttp, Starts, After, Quiet, Overdue, Jobless, process, components, clients, ListenersClose, StartsAlone, Starting, Later, HttpAt, MainAt, Shutdown
<1>10. CASE ShutdownTelemetry
  BY <1>1, <1>10 DEF ShutdownTelemetry, Starts, Jobless, process, components, clients, ListenersClose, StartsAlone, Starting, Later, HttpAt, MainAt, Shutdown
<1>11. CASE CloseStore
  BY <1>1, <1>11 DEF CloseStore, Starts, Jobless, process, components, clients, ListenersClose, StartsAlone, Starting, Later, HttpAt, MainAt, Shutdown
<1>12. CASE StoreClosed
  BY <1>1, <1>12 DEF StoreClosed, Starts, Jobless, process, components, clients, ListenersClose, StartsAlone, Starting, Later, HttpAt, MainAt, Shutdown
<1>13. CASE Drain
  BY <1>1, <1>13 DEF Drain, AllReceived, Overdue, Jobless, process, components, clients, ListenersClose, StartsAlone, Starting, Later, HttpAt, MainAt, Shutdown
<1>14. CASE Signal
  BY <1>1, <1>14 DEF Signal, Cancels, process, components, clients, ListenersClose, StartsAlone, Starting, Later, HttpAt, MainAt, Shutdown
<1>15. CASE DeadlinePasses
  BY <1>1, <1>15 DEF DeadlinePasses, Jobless, process, components, clients, ListenersClose, StartsAlone, Starting, Later, HttpAt, MainAt, Shutdown
<1>16. ASSUME NEW s \in HttpServer, ServeReturns(s) PROVE ListenersClose'
  BY <1>1, <1>16 DEF ServeReturns, Sends, Jobless, process, components, clients, ListenersClose, StartsAlone, Starting, Later, HttpAt, MainAt, Shutdown
<1>17. ASSUME NEW s \in HttpServer, ServeFails(s) PROVE ListenersClose'
  BY <1>1, <1>17 DEF ServeFails, Sends, Jobless, process, components, clients, ListenersClose, StartsAlone, Starting, Later, HttpAt, MainAt, Shutdown
<1>18. ASSUME NEW q \in Request, Arrive(q) PROVE ListenersClose'
  BY <1>1, <1>18 DEF Arrive, Jobless, process, components, clients, ListenersClose, StartsAlone, Starting, Later, HttpAt, MainAt, Shutdown
<1>19. ASSUME NEW q \in Request, Finish(q) PROVE ListenersClose'
  BY <1>1, <1>19 DEF Finish, Jobless, process, components, clients, ListenersClose, StartsAlone, Starting, Later, HttpAt, MainAt, Shutdown
<1>20. ASSUME NEW x \in Request \cup Job, Acquire(x) PROVE ListenersClose'
  BY <1>1, <1>20 DEF Acquire, Jobless, Uses, process, components, clients, ListenersClose, StartsAlone, Starting, Later, HttpAt, MainAt, Shutdown
<1>21. ASSUME NEW x \in Request \cup Job, ReleaseConnection(x) PROVE ListenersClose'
  BY <1>1, <1>21 DEF ReleaseConnection, Jobless, process, components, clients, ListenersClose, StartsAlone, Starting, Later, HttpAt, MainAt, Shutdown
<1>22. ASSUME NEW j \in Job, JobStep(j) PROVE ListenersClose'
  BY <1>1, <1>22 DEF JobStep, Sends, process, components, clients, ListenersClose, StartsAlone, Starting, Later, HttpAt, MainAt, Shutdown
<1>23. CASE UNCHANGED vars
  BY <1>1, <1>23 DEF vars, process, components, clients, ListenersClose, StartsAlone, Starting, Later, HttpAt, MainAt, Shutdown
<1> QED BY <1>2, <1>3, <1>4, <1>5, <1>6, <1>7, <1>8, <1>9, <1>10, <1>11, <1>12, <1>13, <1>14, <1>15,
     <1>16, <1>17, <1>18, <1>19, <1>20, <1>21, <1>22, <1>23 DEF Next, Main, Background

LEMMA ErrorsStayCaused ==
    ASSUME Inductive, [Next]_vars
    PROVE  ErrorsHaveCauses'
<1>1. /\ ErrorsHaveCauses /\ StartsAlone /\ http \in [HttpServer -> HttpAt]
      /\ "api" \in HttpServer
  BY ServersAssumption DEF Inductive, TypeOK, HttpAt
<1>2. CASE StartTelemetry
  BY <1>1, <1>2 DEF StartTelemetry, Succeeds, Returns, Idle, process, components, clients, ErrorsHaveCauses, StartsAlone, Starting, HttpAt
<1>3. CASE OpenStore
  BY <1>1, <1>3 DEF OpenStore, Succeeds, Returns, Idle, process, components, clients, ErrorsHaveCauses, StartsAlone, Starting, HttpAt
<1>4. CASE BuildServer
  BY <1>1, <1>4 DEF BuildServer, Succeeds, Returns, Idle, closeRunDependencies, process, components, clients, ErrorsHaveCauses, StartsAlone, Starting, HttpAt
<1>5. CASE Listen
  BY <1>1, <1>5 DEF Listen, Succeeds, Returns, process, components, clients, ErrorsHaveCauses, StartsAlone, Starting, HttpAt
<1>6. CASE ShutdownRequested
  BY <1>1, <1>6 DEF ShutdownRequested, Starts, Cancels, process, components, clients, ErrorsHaveCauses, StartsAlone, Starting, HttpAt
<1>7. CASE ComponentExited
  BY <1>1, <1>7 DEF ComponentExited, Starts, Cancels, process, components, clients, ErrorsHaveCauses, StartsAlone, Starting, HttpAt
<1>8. ASSUME NEW s \in HttpServer, CloseListener(s) PROVE ErrorsHaveCauses'
  BY <1>1, <1>8 DEF CloseListener, Jobless, process, components, clients, ErrorsHaveCauses, StartsAlone, Starting, HttpAt
<1>9. ASSUME NEW s \in HttpServer, ShutdownHttp(s) PROVE ErrorsHaveCauses'
  BY <1>1, <1>9 DEF ShutdownHttp, Starts, After, Quiet, Overdue, Jobless, process, components, clients, ErrorsHaveCauses, StartsAlone, Starting, HttpAt
<1>10. CASE ShutdownTelemetry
  BY <1>1, <1>10 DEF ShutdownTelemetry, Starts, Jobless, process, components, clients, ErrorsHaveCauses, StartsAlone, Starting, HttpAt
<1>11. CASE CloseStore
  BY <1>1, <1>11 DEF CloseStore, Starts, Jobless, process, components, clients, ErrorsHaveCauses, StartsAlone, Starting, HttpAt
<1>12. CASE StoreClosed
  BY <1>1, <1>12 DEF StoreClosed, Starts, Jobless, process, components, clients, ErrorsHaveCauses, StartsAlone, Starting, HttpAt
<1>13. CASE Drain
  BY <1>1, <1>13 DEF Drain, AllReceived, Overdue, Jobless, process, components, clients, ErrorsHaveCauses, StartsAlone, Starting, HttpAt
<1>14. CASE Signal
  BY <1>1, <1>14 DEF Signal, Cancels, process, components, clients, ErrorsHaveCauses, StartsAlone, Starting, HttpAt
<1>15. CASE DeadlinePasses
  BY <1>1, <1>15 DEF DeadlinePasses, Jobless, process, components, clients, ErrorsHaveCauses, StartsAlone, Starting, HttpAt
<1>16. ASSUME NEW s \in HttpServer, ServeReturns(s) PROVE ErrorsHaveCauses'
  BY <1>1, <1>16 DEF ServeReturns, Sends, Jobless, process, components, clients, ErrorsHaveCauses, StartsAlone, Starting, HttpAt
<1>17. ASSUME NEW s \in HttpServer, ServeFails(s) PROVE ErrorsHaveCauses'
  BY <1>1, <1>17 DEF ServeFails, Sends, Jobless, process, components, clients, ErrorsHaveCauses, StartsAlone, Starting, HttpAt
<1>18. ASSUME NEW q \in Request, Arrive(q) PROVE ErrorsHaveCauses'
  BY <1>1, <1>18 DEF Arrive, Jobless, process, components, clients, ErrorsHaveCauses, StartsAlone, Starting, HttpAt
<1>19. ASSUME NEW q \in Request, Finish(q) PROVE ErrorsHaveCauses'
  BY <1>1, <1>19 DEF Finish, Jobless, process, components, clients, ErrorsHaveCauses, StartsAlone, Starting, HttpAt
<1>20. ASSUME NEW x \in Request \cup Job, Acquire(x) PROVE ErrorsHaveCauses'
  BY <1>1, <1>20 DEF Acquire, Jobless, Uses, process, components, clients, ErrorsHaveCauses, StartsAlone, Starting, HttpAt
<1>21. ASSUME NEW x \in Request \cup Job, ReleaseConnection(x) PROVE ErrorsHaveCauses'
  BY <1>1, <1>21 DEF ReleaseConnection, Jobless, process, components, clients, ErrorsHaveCauses, StartsAlone, Starting, HttpAt
<1>22. ASSUME NEW j \in Job, JobStep(j) PROVE ErrorsHaveCauses'
  BY <1>1, <1>22 DEF JobStep, Sends, process, components, clients, ErrorsHaveCauses, StartsAlone, Starting, HttpAt
<1>23. CASE UNCHANGED vars
  BY <1>1, <1>23 DEF vars, process, components, clients, ErrorsHaveCauses, StartsAlone, Starting, HttpAt
<1> QED BY <1>2, <1>3, <1>4, <1>5, <1>6, <1>7, <1>8, <1>9, <1>10, <1>11, <1>12, <1>13, <1>14, <1>15,
     <1>16, <1>17, <1>18, <1>19, <1>20, <1>21, <1>22, <1>23 DEF Next, Main, Background

-----------------------------------------------------------------------------
(* Results.                                                                 *)

\* One result is received, or those that are still to come stay the same.
Receives(c) ==
    /\ c \in results
    /\ results' = results \ {c}
    /\ UNCHANGED <<http, loop>>
OutstandingStay ==
    /\ \A c \in results' : Ended(c)'
    /\ \A c \in Component : (c \in results' \/ ~Ended(c)') <=> (c \in results \/ ~Ended(c))

LEMMA ResultsMove ==
    ASSUME Inductive, [Next]_vars
    PROVE  OutstandingStay \/ \E c \in Component : Receives(c) /\ (ComponentExited \/ Drain)
<1> DEFINE Moves == OutstandingStay \/ \E c \in Component : Receives(c) /\ (ComponentExited \/ Drain)
<1>1. /\ \A c \in results : Ended(c)
      /\ StartsAlone /\ results \subseteq Component
      /\ loop \in [Job -> LoopRecord] /\ http \in [HttpServer -> HttpAt]
      /\ "api" \in HttpServer /\ Job \cap HttpServer = {}
  BY ServersAssumption, JobsAssumption DEF Inductive, TypeOK, RunnerTypeOK, LoopRecord, HttpAt, ResultsAreCounted
<1>2. CASE UNCHANGED <<http, loop, results>>
  BY <1>1, <1>2 DEF OutstandingStay, Ended
<1>3. CASE ComponentExited
  <2>1. PICK c \in results : results' = results \ {c}
    BY <1>3 DEF ComponentExited
  <2>2. UNCHANGED <<http, loop>>
    BY <1>3 DEF ComponentExited
  <2> QED BY <1>1, <1>3, <2>1, <2>2 DEF Receives
<1>4. CASE Drain
  <2>1. UNCHANGED <<http, loop>>
    BY <1>4 DEF Drain, Jobless
  <2>2. CASE UNCHANGED results
    BY <1>2, <2>1, <2>2
  <2>3. ASSUME NEW c \in results, results' = results \ {c} PROVE Moves
    BY <1>1, <1>4, <2>1, <2>3 DEF Receives
  <2> QED BY <1>4, <2>2, <2>3 DEF Drain
<1>5. CASE Listen
  <2>1. CASE UNCHANGED <<http, loop>>
    BY <1>2, <1>5, <2>1 DEF Listen
  <2>2. CASE /\ http' = [s \in HttpServer |-> "serving"]
             /\ loop' = [j \in Job |-> [loop[j] EXCEPT !.at = "check"]]
    <3>1. results = {} /\ results' = {} /\ \A c \in Component : ~Ended(c)
      BY <1>1, <1>5 DEF Listen, StartsAlone, Starting, Ended, Component
    <3>2. \A j \in Job : loop'[j].at = "check"
      BY <1>1, <2>2 DEF LoopRecord
    <3>3. \A c \in Component : ~Ended(c)'
      BY <2>2, <3>2 DEF Ended, Component
    <3> QED BY <3>1, <3>3 DEF OutstandingStay
  <2> QED BY <1>5, <2>1, <2>2 DEF Listen
<1>6. ASSUME NEW s \in HttpServer, CloseListener(s) PROVE OutstandingStay
  BY <1>1, <1>6 DEF CloseListener, Jobless, OutstandingStay, Ended, HttpAt
<1>7. ASSUME NEW s \in HttpServer, ServeReturns(s) \/ ServeFails(s) PROVE OutstandingStay
  <2>1. /\ http' = [http EXCEPT ![s] = "exited"] /\ results' = results \cup {s} /\ UNCHANGED loop
        /\ http[s] # "exited"
    BY <1>7 DEF ServeReturns, ServeFails, Sends, Jobless
  <2> QED BY <1>1, <2>1 DEF OutstandingStay, Ended, HttpAt
<1>8. ASSUME NEW j \in Job, JobStep(j) PROVE OutstandingStay
  <2>1. /\ loop' = [loop EXCEPT ![j] = loop'[j]] /\ loop[j].at # "exited" /\ UNCHANGED http
    BY <1>8, LoopMoves DEF JobStep, RunnerStep, Inductive, TypeOK
  <2>2. IF loop'[j].at = "exited" THEN results' = results \cup {j} ELSE results' = results
    BY <1>8, <2>1 DEF JobStep, Sends
  <2>3. \A c \in Component \ {j} : Ended(c)' = Ended(c)
    <3>1. \A k \in Job \ {j} : loop'[k] = loop[k]
      BY <1>1, <2>1
    <3> QED BY <1>1, <2>1, <3>1 DEF Ended, Component
  <2>4. j \notin HttpServer /\ ~Ended(j) /\ (Ended(j)' <=> loop'[j].at = "exited")
    BY <1>1, <2>1 DEF Ended
  <2>5. j \notin results
    BY <1>1, <2>4
  <2> QED BY <1>1, <2>2, <2>3, <2>4, <2>5 DEF OutstandingStay
<1>9. CASE UNCHANGED vars
  BY <1>2, <1>9 DEF vars, components
<1>10. CASE Main
  BY <1>2, <1>3, <1>4, <1>5, <1>6, <1>10 DEF Main, StartTelemetry, OpenStore, BuildServer, ShutdownRequested,
     ShutdownHttp, ShutdownTelemetry, CloseStore, StoreClosed, Idle, Jobless, components
<1>11. CASE Background
  BY <1>2, <1>7, <1>8, <1>11 DEF Background, Signal, DeadlinePasses, Arrive, Finish, Acquire,
     ReleaseConnection, Jobless, Cancels, components
<1> QED BY <1>9, <1>10, <1>11 DEF Next

\* Outside of what receives results, pending only changes when it is first set.
Progress ==
    \/ main' \in Starting
    \/ main' = "returned" /\ erred'
    \/ main' = "serving" /\ main \in {"listen", "serving"}
    \/ main' \in Shutdown /\ main = "serving" /\ pending' = Cardinality(Component)
    \/ main' \in Shutdown /\ main \in Shutdown /\ UNCHANGED pending
    \/ main' = "returned" /\ main = "returned" /\ UNCHANGED <<erred, telemetry>>

LEMMA PendingProgresses ==
    ASSUME Inductive, Next, ~ComponentExited, ~Drain
    PROVE  Progress
<1>1. main \in MainAt /\ HttpServer \subseteq {"api", "metrics"}
  BY ServersAssumption DEF Inductive, TypeOK
<1>2. CASE StartTelemetry
  BY <1>1, <1>2 DEF StartTelemetry, Succeeds, Returns, Idle, process, components, clients, Progress, Starting, MainAt, Shutdown
<1>3. CASE OpenStore
  BY <1>1, <1>3 DEF OpenStore, Succeeds, Returns, Idle, process, components, clients, Progress, Starting, MainAt, Shutdown
<1>4. CASE BuildServer
  BY <1>1, <1>4 DEF BuildServer, Succeeds, Returns, Idle, closeRunDependencies, process, components, clients, Progress, Starting, MainAt, Shutdown
<1>5. CASE Listen
  BY <1>1, <1>5 DEF Listen, Succeeds, Returns, process, components, clients, Progress, Starting, MainAt, Shutdown
<1>6. CASE ShutdownRequested
  BY <1>1, <1>6 DEF ShutdownRequested, Starts, Cancels, process, components, clients, Progress, Starting, MainAt, Shutdown
<1>7. CASE ComponentExited
  BY <1>7
<1>8. ASSUME NEW s \in HttpServer, CloseListener(s) PROVE Progress
  BY <1>1, <1>8 DEF CloseListener, Jobless, process, components, clients, Progress, Starting, MainAt, Shutdown
<1>9. ASSUME NEW s \in HttpServer, ShutdownHttp(s) PROVE Progress
  BY <1>1, <1>9 DEF ShutdownHttp, Starts, After, Quiet, Overdue, Jobless, process, components, clients, Progress, Starting, MainAt, Shutdown
<1>10. CASE ShutdownTelemetry
  BY <1>1, <1>10 DEF ShutdownTelemetry, Starts, Jobless, process, components, clients, Progress, Starting, MainAt, Shutdown
<1>11. CASE CloseStore
  BY <1>1, <1>11 DEF CloseStore, Starts, Jobless, process, components, clients, Progress, Starting, MainAt, Shutdown
<1>12. CASE StoreClosed
  BY <1>1, <1>12 DEF StoreClosed, Starts, Jobless, process, components, clients, Progress, Starting, MainAt, Shutdown
<1>13. CASE Drain
  BY <1>13
<1>14. CASE Signal
  BY <1>1, <1>14 DEF Signal, Cancels, process, components, clients, Progress, Starting, MainAt, Shutdown
<1>15. CASE DeadlinePasses
  BY <1>1, <1>15 DEF DeadlinePasses, Jobless, process, components, clients, Progress, Starting, MainAt, Shutdown
<1>16. ASSUME NEW s \in HttpServer, ServeReturns(s) PROVE Progress
  BY <1>1, <1>16 DEF ServeReturns, Sends, Jobless, process, components, clients, Progress, Starting, MainAt, Shutdown
<1>17. ASSUME NEW s \in HttpServer, ServeFails(s) PROVE Progress
  BY <1>1, <1>17 DEF ServeFails, Sends, Jobless, process, components, clients, Progress, Starting, MainAt, Shutdown
<1>18. ASSUME NEW q \in Request, Arrive(q) PROVE Progress
  BY <1>1, <1>18 DEF Arrive, Jobless, process, components, clients, Progress, Starting, MainAt, Shutdown
<1>19. ASSUME NEW q \in Request, Finish(q) PROVE Progress
  BY <1>1, <1>19 DEF Finish, Jobless, process, components, clients, Progress, Starting, MainAt, Shutdown
<1>20. ASSUME NEW x \in Request \cup Job, Acquire(x) PROVE Progress
  BY <1>1, <1>20 DEF Acquire, Jobless, Uses, process, components, clients, Progress, Starting, MainAt, Shutdown
<1>21. ASSUME NEW x \in Request \cup Job, ReleaseConnection(x) PROVE Progress
  BY <1>1, <1>21 DEF ReleaseConnection, Jobless, process, components, clients, Progress, Starting, MainAt, Shutdown
<1>22. ASSUME NEW j \in Job, JobStep(j) PROVE Progress
  BY <1>1, <1>22 DEF JobStep, Sends, process, components, clients, Progress, Starting, MainAt, Shutdown
<1> QED BY <1>2, <1>3, <1>4, <1>5, <1>6, <1>7, <1>8, <1>9, <1>10, <1>11, <1>12, <1>13, <1>14, <1>15,
     <1>16, <1>17, <1>18, <1>19, <1>20, <1>21, <1>22 DEF Next, Main, Background

LEMMA CountsStay ==
    ASSUME Inductive, [Next]_vars
    PROVE  ResultsAreCounted'
<1>1. ResultsAreCounted /\ StartsAlone /\ StagesAgree /\ erred \in BOOLEAN /\ main \in MainAt
  BY DEF Inductive, TypeOK
<1>2. IsFiniteSet(Component) /\ Outstanding \subseteq Component /\ IsFiniteSet(Outstanding)
  BY ComponentsAreFinite, FS_Subset DEF Outstanding
<1>3. ASSUME OutstandingStay
      PROVE  (\A c \in results' : Ended(c)') /\ Outstanding' = Outstanding
  BY <1>3 DEF OutstandingStay, Outstanding
<1>4. ASSUME NEW c \in Component, Receives(c)
      PROVE  /\ \A d \in results' : Ended(d)'
             /\ Outstanding' = Outstanding \ {c} /\ c \in Outstanding
             /\ Cardinality(Outstanding') = Cardinality(Outstanding) - 1
  <2>1. \A d \in Component : Ended(d)' <=> Ended(d)
    BY <1>4 DEF Receives, Ended
  <2>2. results \subseteq Component
    BY DEF Inductive, TypeOK
  <2>3. \A d \in results : Ended(d)
    BY <1>1 DEF ResultsAreCounted
  <2>4. \A d \in results' : Ended(d)'
    BY <1>4, <2>1, <2>2, <2>3 DEF Receives
  <2>5. Outstanding' = Outstanding \ {c} /\ c \in Outstanding
    BY <1>4, <2>1, <2>3 DEF Receives, Outstanding
  <2> QED BY <1>2, <2>4, <2>5, FS_RemoveElement
<1>5. CASE ComponentExited
  <2>1. /\ main = "serving" /\ main' = "api" /\ pending' = Cardinality(Component) - 1
    BY <1>5 DEF ComponentExited, Starts
  <2>2. ~OutstandingStay
    <3>1. PICK c \in results : results' = results \ {c}
      BY <1>5 DEF ComponentExited
    <3>2. Ended(c) /\ c \in Component /\ (Ended(c)' <=> Ended(c))
      BY <1>1, <1>5 DEF ComponentExited, ResultsAreCounted, Ended, Inductive, TypeOK
    <3> QED BY <3>1, <3>2 DEF OutstandingStay
  <2>3. PICK c \in Component : Receives(c)
    BY <2>2, ResultsMove
  <2> QED BY <1>1, <1>4, <2>1, <2>3 DEF ResultsAreCounted, Shutdown
<1>6. CASE Drain
  <2>1. main = "drain" /\ pending = Cardinality(Outstanding) /\ telemetry' = "shut" /\ UNCHANGED <<http, loop>>
    BY <1>1, <1>6 DEF Drain, Jobless, ResultsAreCounted, StagesAgree, Shutdown
  <2>2. CASE UNCHANGED results
    <3>1. (\A c \in results' : Ended(c)') /\ Outstanding' = Outstanding
      BY <1>1, <2>1, <2>2 DEF ResultsAreCounted, Ended, Outstanding
    <3>2. pending = 0 => Outstanding = {}
      BY <1>2, <2>1, FS_EmptySet
    <3>3. main' \in {"drain", "returned"} /\ (main' = "drain" => UNCHANGED pending)
          /\ (main' = "returned" => pending = 0 \/ erred')
      <4>1. CASE \E c \in results : results' = results \ {c}
        BY <2>2, <4>1
      <4> QED BY <1>6, <2>1, <4>1 DEF Drain, AllReceived
    <3> QED BY <2>1, <3>1, <3>2, <3>3 DEF ResultsAreCounted, Shutdown
  <2>3. CASE results' # results
    <3>1. PICK c \in results : results' = results \ {c} /\ pending' = pending - 1 /\ main' = "drain"
      BY <1>6, <2>1, <2>3 DEF Drain
    <3>2. c \in Component /\ Receives(c)
      BY <2>1, <3>1 DEF Receives, Inductive, TypeOK
    <3>3. /\ \A d \in results' : Ended(d)'
          /\ Cardinality(Outstanding') = Cardinality(Outstanding) - 1
      BY <1>4, <3>2
    <3> QED BY <2>1, <3>1, <3>3 DEF ResultsAreCounted, Shutdown
  <2> QED BY <2>2, <2>3
<1>7. CASE Next /\ ~ComponentExited /\ ~Drain
  <2>1. (\A c \in results' : Ended(c)') /\ Outstanding' = Outstanding /\ Progress
    BY <1>3, <1>7, ResultsMove, PendingProgresses
  <2>2. main \in Starting => Outstanding = Component
    BY <1>1 DEF StartsAlone, Outstanding, Ended, Component
  <2>3. Component' = Component /\ "listen" \in Starting
    BY DEF Component, Starting
  <2> QED BY <1>1, <2>1, <2>2, <2>3 DEF Progress, ResultsAreCounted, Starting, Shutdown
<1>8. CASE UNCHANGED vars
  BY <1>1, <1>8 DEF vars, process, components, ResultsAreCounted, Ended, Outstanding
<1> QED BY <1>5, <1>6, <1>7, <1>8

-----------------------------------------------------------------------------
LEMMA InductiveInit == Init => Inductive
<1> SUFFICES ASSUME Init PROVE Inductive
  OBVIOUS
<1>1. PICK setting \in Setting : runner = [j \in Job |-> New(setting)]
  BY DEF Init, RunnerInit
<1>2. /\ loop = [j \in Job |-> [at |-> "new", failures |-> 0, errorDelay |-> runner[j].initial, pause |-> 0]]
      /\ cancelled = FALSE
  BY DEF Init, RunnerInit
<1>3. \A j \in Job : /\ runner[j] \in RunnerRecord
                     /\ runner[j].interval > 0 /\ runner[j].cooldown > 0
                     /\ 0 < runner[j].initial /\ runner[j].initial <= runner[j].max
  BY <1>1, NewIsPositive
<1>4. RunnerTypeOK
  <2>1. runner \in [Job -> RunnerRecord]
    BY <1>1, <1>3
  <2>2. 0 \in Duration /\ \A j \in Job : runner[j].initial \in Duration
    <3>1. 0 \in Duration
      BY RunnerAssumption DEF Duration, Half
    <3> QED BY <1>3, <3>1 DEF RunnerRecord
  <2>3. loop \in [Job -> LoopRecord]
    BY <1>2, <2>2 DEF LoopRecord, LoopAt
  <2> QED BY <1>2, <2>1, <2>3 DEF RunnerTypeOK, RunnerRecord, LoopRecord
<1>5. DelaysArePositive
  <2>1. \A j \in Job : /\ loop[j].at = "new" /\ loop[j].failures = 0 /\ loop[j].errorDelay = runner[j].initial
                       /\ runner[j].initial \in Int /\ runner[j].max \in Int
    <3>1. Duration \subseteq Int
      BY RunnerAssumption DEF Duration, Half
    <3> QED BY <1>2, <1>3, <3>1 DEF RunnerRecord
  <2> QED BY <1>3, <2>1 DEF DelaysArePositive, RetryDelaysAreBounded
<1>6. TypeOK
  <2>1. 0 \in 0 .. Cardinality(Component)
    BY ComponentsAreFinite
  <2> QED BY <1>4, <2>1 DEF Init, TypeOK, MainAt
<1>7. StartsAlone /\ StagesAgree /\ ListenersClose /\ ErrorsHaveCauses
  BY <1>2 DEF Init, StartsAlone, StagesAgree, ListenersClose, ErrorsHaveCauses, Later
<1>8. ResultsAreCounted
  BY DEF Init, ResultsAreCounted, Shutdown
<1> QED BY <1>5, <1>6, <1>7, <1>8 DEF Inductive

LEMMA InductiveNext == Inductive /\ [Next]_vars => Inductive'
<1> SUFFICES ASSUME Inductive, [Next]_vars PROVE Inductive'
  OBVIOUS
<1>1. TypeOK'
  BY DelaysStayBounded, ProcessTypes DEF TypeOK, ProcessTypeOK
<1> QED BY <1>1, DelaysStayBounded, StartStaysAlone, StagesStay, ListenersStayClosed, ErrorsStayCaused, CountsStay
        DEF Inductive

\* The inductive strengthening holds of every reachable state.
THEOREM InductiveHolds == Spec => []Inductive
<1>1. Inductive /\ [Next]_vars => Inductive'
  BY InductiveNext
<1> QED BY InductiveInit, <1>1, PTL DEF Spec

\* Every variable of the process, its runners and its clients keeps its type.
THEOREM TypeCorrect == Spec => []TypeOK
<1>1. Inductive => TypeOK
  BY DEF Inductive
<1> QED BY InductiveHolds, <1>1, PTL

\* A failing job waits within its bounds, for every setting and every width of durations.
THEOREM DelaysAreBounded == Spec => []RetryDelaysAreBounded
<1>1. Inductive => RetryDelaysAreBounded
  BY DEF Inductive, DelaysArePositive
<1> QED BY InductiveHolds, <1>1, PTL

\* The store is closed under no request before the deadline.
THEOREM RequestsAreAnswered == Spec => []RequestsFinishFirst
<1>1. Inductive => RequestsFinishFirst
  <2> SUFFICES ASSUME Inductive, pool \in {"closing", "closed"}, ~deadline
               PROVE  \A q \in Request : request[q] # "active"
    BY DEF RequestsFinishFirst
  <2>1. StartsAlone /\ StagesAgree /\ ListenersClose /\ main \in MainAt
    BY DEF Inductive, TypeOK
  <2>2. main \in {"closing", "drain", "returned"}
    BY <2>1 DEF StagesAgree, MainAt, Shutdown
  <2> QED BY <2>1, <2>2 DEF ListenersClose, Later
<1> QED BY InductiveHolds, <1>1, PTL

\* A process that returned has closed its store, and without an error all has ended.
THEOREM ReturnsStopped == Spec => []ReturnMeansStopped
<1>1. Inductive => ReturnMeansStopped
  <2> SUFFICES ASSUME Inductive, main = "returned"
               PROVE  /\ pool \in {"none", "closed"} /\ holds = {}
                      /\ ~erred => /\ \A s \in HttpServer : http[s] = "exited"
                                   /\ \A j \in Job : loop[j].at = "exited"
                                   /\ \A q \in Request : request[q] # "active"
                                   /\ telemetry = "shut"
                      /\ erred /\ (\E s \in HttpServer : http[s] # "none") => deadline \/ failed # {}
    BY DEF ReturnMeansStopped
  <2>1. StagesAgree /\ ListenersClose /\ ResultsAreCounted /\ ErrorsHaveCauses
    BY DEF Inductive
  <2>2. pool \in {"none", "closed"} /\ holds = {}
    BY <2>1 DEF StagesAgree
  <2>3. ASSUME ~erred PROVE \A c \in Component : Ended(c)
    BY <2>1, <2>3 DEF ResultsAreCounted, Outstanding
  <2>4. ASSUME ~erred PROVE \A j \in Job : loop[j].at = "exited"
    BY <2>3, <2>4, JobsAssumption DEF Ended, Component
  <2>5. ASSUME ~erred PROVE \A s \in HttpServer : http[s] = "exited"
    BY <2>3, <2>5 DEF Ended, Component
  <2>6. ASSUME ~erred PROVE telemetry = "shut" /\ \A q \in Request : request[q] # "active"
    BY <2>1, <2>6 DEF ResultsAreCounted, ListenersClose
  <2> QED BY <2>1, <2>2, <2>4, <2>5, <2>6 DEF ErrorsHaveCauses
<1> QED BY InductiveHolds, <1>1, PTL
=============================================================================
