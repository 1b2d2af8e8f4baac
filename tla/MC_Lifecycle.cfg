\* Two HTTP servers, two jobs, one request; durations of four bits.
SPECIFICATION FairSpec
CONSTANTS
    j1 = j1
    j2 = j2
    Job = {j1, j2}
    Setting <- Settings
    MaxDuration = 7
    DefaultInterval = 1
    DefaultErrorMax = 5
    MaxFailures = 2
    HttpServer = {"api", "metrics"}
    Request = {q1}
INVARIANTS
    TypeOK
    RetryDelaysAreBounded
    RequestsFinishFirst
    ReturnMeansStopped
PROPERTIES
    JobsKeepPolling
    ExitStopsServer
CHECK_DEADLOCK FALSE
