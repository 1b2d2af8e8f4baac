--------------------------- MODULE ServerLifecycle ---------------------------
(***************************************************************************)
(* One run of the server process (internal/app): it opens its dependencies *)
(* in order, serves HTTP next to its background jobs, and shuts all of     *)
(* them down when it is asked to or when any of them ends.                 *)
(*                                                                         *)
(* Requests and jobs hold connections of the store's pool while they       *)
(* use it.  The shutdown deadline may pass at any time after the shutdown  *)
(* began.                                                                  *)
(***************************************************************************)
EXTENDS JobRunner, FiniteSets

CONSTANTS
    HttpServer,  \* "api", and "metrics" when it is configured
    Request      \* requests that clients may send to the api server

ASSUME ServersAssumption == {"api"} \subseteq HttpServer /\ HttpServer \subseteq {"api", "metrics"}
ASSUME JobsAssumption == IsFiniteSet(Job) /\ Job \cap (HttpServer \cup Request) = {}

VARIABLES
    main,       \* where Run is
    asked,      \* the context of Run is cancelled
    deadline,   \* the shutdown context has expired
    http,       \* the goroutine of each HTTP server
    results,    \* component results that were sent and not yet received
    failed,     \* components whose result is an error
    pending,    \* results that are still to be received
    erred,      \* the error to be returned is not nil
    pool,       \* the connection pool of the store
    telemetry,  \* the telemetry providers
    request,    \* each request
    holds       \* who holds a connection

process == <<main, asked, deadline, pending, erred, pool, telemetry>>
components == <<http, results, failed>>
clients == <<request, holds>>
vars == <<runner, loop, cancelled, process, components, clients>>

Component == HttpServer \cup Job
Shutdown == {"api", "metrics", "telemetry", "store", "closing", "drain"}
MainAt == {"telemetry_start", "open", "build", "listen", "serving", "returned"} \cup Shutdown

TypeOK ==
    /\ RunnerTypeOK
    /\ main \in MainAt
    /\ {asked, deadline, erred} \subseteq BOOLEAN
    /\ http \in [HttpServer -> {"none", "serving", "closing", "exited"}]
    /\ results \subseteq Component /\ failed \subseteq Component
    /\ pending \in 0 .. Cardinality(Component)
    /\ pool \in {"none", "open", "closing", "closed"}
    /\ telemetry \in {"none", "open", "shut"}
    /\ request \in [Request -> {"none", "active", "done"}]
    /\ holds \subseteq Request \cup Job

Init ==
    /\ RunnerInit
    /\ main = "telemetry_start"
    /\ asked = FALSE /\ deadline = FALSE /\ erred = FALSE
    /\ http = [s \in HttpServer |-> "none"]
    /\ results = {} /\ failed = {} /\ pending = 0
    /\ pool = "none" /\ telemetry = "none"
    /\ request = [q \in Request |-> "none"]
    /\ holds = {}

-----------------------------------------------------------------------------
(* Starting: every step may fail.                                           *)

Idle == UNCHANGED <<runner, loop, cancelled, components, clients>>
Starts(from, to) == main = from /\ main' = to
Succeeds == UNCHANGED <<asked, deadline, pending, erred>>
Returns == main' = "returned" /\ erred' = TRUE /\ UNCHANGED <<asked, deadline, pending>>

StartTelemetry ==
    /\ main = "telemetry_start"
    /\ \/ main' = "open" /\ telemetry' = "open" /\ Succeeds
       \/ Returns /\ UNCHANGED telemetry
    /\ UNCHANGED pool /\ Idle

(* openPostgresStore: connection, migrations and metrics.                    *)
OpenStore ==
    /\ main = "open"
    /\ \/ main' = "build" /\ pool' = "open" /\ Succeeds /\ UNCHANGED telemetry
       \/ Returns /\ telemetry' = "shut" /\ UNCHANGED pool
    /\ Idle

\* Wrong on purpose: the store is forgotten.
closeRunDependencies_Telemetry == telemetry' = "shut" /\ UNCHANGED pool

closeRunDependencies == pool' = "closed" /\ telemetry' = "shut"

(* Uploads, promotion jobs, authentication, publish jobs and the server.     *)
BuildServer ==
    /\ main = "build"
    /\ \/ main' = "listen" /\ Succeeds /\ UNCHANGED <<pool, telemetry>>
       \/ Returns /\ closeRunDependencies
    /\ Idle

(* Server.Run; without a listener only the store is closed.                  *)
Listen ==
    /\ main = "listen"
    /\ \/ /\ main' = "serving"
          /\ http' = [s \in HttpServer |-> "serving"]
          /\ loop' = [j \in Job |-> [loop[j] EXCEPT !.at = "check"]]
          /\ Succeeds
          /\ UNCHANGED pool
       \/ /\ Returns
          /\ pool' = "closed"
          /\ UNCHANGED <<http, loop>>
    /\ UNCHANGED <<runner, cancelled, telemetry, results, failed, clients>>

-----------------------------------------------------------------------------
(* Serve: the first of the signal and a component's result.                 *)

Cancels == cancelled' = TRUE

ShutdownRequested ==
    /\ Starts("serving", "api")
    /\ asked
    /\ Cancels
    /\ pending' = Cardinality(Component)
    /\ UNCHANGED <<runner, loop, asked, deadline, erred, pool, telemetry, components, clients>>

ComponentExited ==
    /\ Starts("serving", "api")
    /\ Cancels
    /\ \E c \in results :
          /\ results' = results \ {c}
          /\ erred' = (c \in failed)
    /\ pending' = Cardinality(Component) - 1
    /\ UNCHANGED <<runner, loop, asked, deadline, pool, telemetry, http, failed, clients>>

-----------------------------------------------------------------------------
(* shutdownComponents.                                                      *)

Jobless == UNCHANGED <<runner, loop, cancelled>>
After(s) == IF s = "api" /\ "metrics" \in HttpServer THEN "metrics" ELSE "telemetry"

\* Wrong on purpose: the shutdown context has no deadline.
Overdue_Never == FALSE

Overdue == deadline

\* Shutdown of an HTTP server closes its listener ...
CloseListener(s) ==
    /\ main = s
    /\ http[s] = "serving"
    /\ http' = [http EXCEPT ![s] = "closing"]
    /\ Jobless
    /\ UNCHANGED <<process, results, failed, clients>>

\* Wrong on purpose: requests are not waited for.
Quiet_Always(s) == TRUE

Quiet(s) == s = "api" => \A q \in Request : request[q] # "active"

\* ... and waits for its requests until the deadline.
ShutdownHttp(s) ==
    /\ Starts(s, After(s))
    /\ http[s] # "serving"
    /\ \/ Quiet(s) /\ UNCHANGED erred
       \/ Overdue /\ erred' = TRUE
    /\ Jobless
    /\ UNCHANGED <<asked, deadline, pending, pool, telemetry, components, clients>>

ShutdownTelemetry ==
    /\ Starts("telemetry", "store")
    /\ telemetry' = "shut"
    /\ UNCHANGED erred \/ (deadline /\ erred' = TRUE)
    /\ Jobless
    /\ UNCHANGED <<asked, deadline, pending, pool, components, clients>>

(* Store.Close: no connection is given out any more, and those that are held *)
(* are waited for, whatever the deadline.                                    *)
CloseStore ==
    /\ Starts("store", "closing")
    /\ pool' = "closing"
    /\ Jobless
    /\ UNCHANGED <<asked, deadline, pending, erred, telemetry, components, clients>>

StoreClosed ==
    /\ Starts("closing", "drain")
    /\ holds = {}
    /\ pool' = "closed"
    /\ Jobless
    /\ UNCHANGED <<asked, deadline, pending, erred, telemetry, components, clients>>

\* Wrong on purpose: the last component is not waited for.
AllReceived_ButOne == pending <= 1

AllReceived == pending = 0

Drain ==
    /\ main = "drain"
    /\ \/ /\ AllReceived
          /\ main' = "returned"
          /\ UNCHANGED <<pending, erred, results>>
       \/ \E c \in results :
             /\ pending > 0
             /\ results' = results \ {c}
             /\ pending' = pending - 1
             /\ erred' = (erred \/ c \in failed)
             /\ UNCHANGED main
       \/ /\ pending > 0 /\ Overdue
          /\ main' = "returned"
          /\ erred' = TRUE
          /\ UNCHANGED <<pending, results>>
    /\ Jobless
    /\ UNCHANGED <<asked, deadline, pool, telemetry, http, failed, clients>>

-----------------------------------------------------------------------------
(* Around it: the signal, the clock, HTTP servers, requests and jobs.       *)

(* The jobs' context is made from the signalled one: they may stop, and send *)
(* the result Serve receives first, before the shutdown is noticed.          *)
Signal ==
    /\ ~asked
    /\ asked' = TRUE
    /\ Cancels
    /\ UNCHANGED <<runner, loop, main, deadline, pending, erred, pool, telemetry, components, clients>>

DeadlinePasses ==
    /\ main \in Shutdown /\ ~deadline
    /\ deadline' = TRUE
    /\ Jobless
    /\ UNCHANGED <<main, asked, pending, erred, pool, telemetry, components, clients>>

Sends(c, err) ==
    /\ results' = results \cup {c}
    /\ failed' = IF err THEN failed \cup {c} ELSE failed

(* http.Server.Serve returns ErrServerClosed, which is no error.             *)
ServeReturns(s) ==
    /\ http[s] = "closing"
    /\ http' = [http EXCEPT ![s] = "exited"]
    /\ Sends(s, FALSE)
    /\ Jobless
    /\ UNCHANGED <<process, clients>>

ServeFails(s) ==
    /\ http[s] = "serving"
    /\ http' = [http EXCEPT ![s] = "exited"]
    /\ Sends(s, TRUE)
    /\ Jobless
    /\ UNCHANGED <<process, clients>>

Arrive(q) ==
    /\ http["api"] = "serving"
    /\ request[q] = "none"
    /\ request' = [request EXCEPT ![q] = "active"]
    /\ Jobless
    /\ UNCHANGED <<process, components, holds>>

Finish(q) ==
    /\ request[q] = "active"
    /\ q \notin holds
    /\ request' = [request EXCEPT ![q] = "done"]
    /\ Jobless
    /\ UNCHANGED <<process, components, holds>>

Uses(x) == IF x \in Request THEN request[x] = "active" ELSE loop[x].at = "attempt"

(* A closing pool gives out no connection: the call fails.                   *)
Acquire(x) ==
    /\ Uses(x)
    /\ x \notin holds
    /\ pool = "open"
    /\ holds' = holds \cup {x}
    /\ Jobless
    /\ UNCHANGED <<process, components, request>>

ReleaseConnection(x) ==
    /\ x \in holds
    /\ holds' = holds \ {x}
    /\ Jobless
    /\ UNCHANGED <<process, components, request>>

JobStep(j) ==
    /\ j \notin holds
    /\ \/ Check(j) \/ AttemptCancelled(j) \/ AttemptFails(j) \/ PauseEnds(j) \/ PauseCancelled(j)
       \/ pool = "open" /\ \E worked \in BOOLEAN : AttemptSucceeds(j, worked)
    /\ IF loop'[j].at = "exited" /\ loop[j].at # "exited"
       THEN Sends(j, FALSE)
       ELSE UNCHANGED <<results, failed>>
    /\ UNCHANGED <<runner, cancelled, process, http, clients>>

-----------------------------------------------------------------------------
Main ==
    \/ StartTelemetry \/ OpenStore \/ BuildServer \/ Listen
    \/ ShutdownRequested \/ ComponentExited
    \/ \E s \in HttpServer : CloseListener(s) \/ ShutdownHttp(s)
    \/ ShutdownTelemetry \/ CloseStore \/ StoreClosed \/ Drain

\* What goes on of its own accord while the process runs.
Background ==
    \/ Signal \/ DeadlinePasses
    \/ \E s \in HttpServer : ServeReturns(s) \/ ServeFails(s)
    \/ \E q \in Request : Arrive(q) \/ Finish(q)
    \/ \E x \in Request \cup Job : Acquire(x) \/ ReleaseConnection(x)
    \/ \E j \in Job : JobStep(j)

Next == Main \/ Background

Spec == Init /\ [][Next]_vars

(* Run and the jobs are scheduled, timers fire, and whoever holds a          *)
(* connection gives it back; but a client may take for ever.                 *)
FairSpec ==
    /\ Spec
    /\ WF_vars(Main)
    /\ WF_vars(DeadlinePasses)
    /\ WF_vars(\E x \in Request \cup Job : ReleaseConnection(x))
    /\ \A j \in Job : WF_vars(JobStep(j))

-----------------------------------------------------------------------------
\* The store is closed under no request that was let in, unless the deadline passed:
\* requests that arrived before the shutdown are answered (shutdownComponents).
RequestsFinishFirst ==
    pool \in {"closing", "closed"} /\ ~deadline => \A q \in Request : request[q] # "active"

\* When the process returns nothing of its store is left open, however far it had come.
\* It returns without an error only if it served, and then every HTTP server and job has
\* ended, requests were answered, and nobody waits for a connection; and it returns an
\* error only if something failed or the deadline passed, for jobs that find the store
\* closed under them do not count (shutdownComponents, Runner.Run, closeRunDependencies).
ReturnMeansStopped ==
    main = "returned" =>
        /\ pool \in {"none", "closed"} /\ holds = {}
        /\ ~erred => /\ \A s \in HttpServer : http[s] = "exited"
                     /\ \A j \in Job : loop[j].at = "exited"
                     /\ \A q \in Request : request[q] # "active"
                     /\ telemetry = "shut"
        /\ erred /\ (\E s \in HttpServer : http[s] # "none") => deadline \/ failed # {}

\* A signal, or the end of any component, ends the process: the others are cancelled, and
\* neither a client that never reads on nor a job that never ends keeps it (Serve); provided
\* every connection is given back, for which the store waits without a deadline.
ExitStopsServer ==
    (main = "serving" /\ (asked \/ results # {})) ~> main = "returned"

\* A job is attempted again and again, however often it fails and its circuit breaker
\* opens, until the server is asked to stop or an HTTP server fails (Runner.Run).
JobsKeepPolling ==
    \A j \in Job : loop[j].at \in {"check", "pause"} ~>
                      (loop[j].at = "attempt" \/ asked \/ failed # {})

-----------------------------------------------------------------------------
(* Why the safety properties hold: an inductive strengthening of them.      *)

Starting == {"telemetry_start", "open", "build", "listen"}
Later == {"telemetry", "store", "closing", "drain"}

\* Nothing runs before the listeners are open, and nothing has gone wrong.
StartsAlone ==
    /\ main \in Starting => /\ http = [s \in HttpServer |-> "none"]
                            /\ \A j \in Job : loop[j].at = "new"
                            /\ \A q \in Request : request[q] = "none"
                            /\ results = {} /\ holds = {}
    /\ main \in Starting \cup {"serving"} => ~erred

\* The store is open from openPostgresStore to its Close, which outlasts every holder.
StagesAgree ==
    /\ main \in {"telemetry_start", "open"} => pool = "none"
    /\ main \in {"build", "listen", "serving", "api", "metrics", "telemetry", "store"} => pool = "open"
    /\ main = "closing" => pool = "closing"
    /\ main = "drain" => pool = "closed"
    /\ main = "returned" => pool \in {"none", "closed"}
    /\ main \in {"store", "closing", "drain"} => telemetry = "shut"
    /\ pool \in {"none", "closed"} => holds = {}

\* Servers whose Shutdown was called listen no more, and have answered their requests.
ListenersClose ==
    /\ main \in {"metrics", "returned"} \cup Later =>
          /\ http["api"] # "serving"
          /\ (\A q \in Request : request[q] # "active") \/ (deadline /\ erred)
    /\ main \in {"returned"} \cup Later => \A s \in HttpServer : http[s] # "serving"

Ended(c) == IF c \in HttpServer THEN http[c] = "exited" ELSE loop[c].at = "exited"

\* The components whose result has not been received.
Outstanding == {c \in Component : c \in results \/ ~Ended(c)}

\* Each component sends one result when it ends, and pending counts those to come.
ResultsAreCounted ==
    /\ \A c \in results : Ended(c)
    /\ main = "serving" => Outstanding = Component
    /\ main \in Shutdown => pending = Cardinality(Outstanding)
    /\ main = "returned" /\ ~erred => Outstanding = {} /\ telemetry = "shut"

ErrorsHaveCauses == erred /\ (\E s \in HttpServer : http[s] # "none") => deadline \/ failed # {}

\* With what New makes of the settings: no delay is zero.
DelaysArePositive ==
    /\ RetryDelaysAreBounded
    /\ \A j \in Job : runner[j].interval > 0 /\ runner[j].cooldown > 0

Inductive ==
    /\ TypeOK
    /\ DelaysArePositive
    /\ StartsAlone
    /\ StagesAgree
    /\ ListenersClose
    /\ ResultsAreCounted
    /\ ErrorsHaveCauses
=============================================================================
