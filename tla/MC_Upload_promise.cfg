\* Two uploads of one digest, two workers, every fault: rows, bucket and the refinement of TrustedUploads.
SPECIFICATION FairSpec
CONSTANTS
    good = good
    other = other
    u1 = u1
    u2 = u2
    c1 = c1
    c2 = c2
    w1 = w1
    w2 = w2
    Upload = {u1, u2}
    Client = {c1}
    Worker = {w1, w2}
    Content = {good, other}
    Size <- TwoSizes
    Expectation <- HonestOrWrongSize
    Faults = TRUE
    BlankETag = FALSE
    None = None
INVARIANTS
    BlobRowsAreBacked
    ReadySessionsAreServed
    OneWorkerPerJob
PROPERTIES
    KeepsUploadPromise
    OnlyBadBytesAreRejected
    QueuedJobsAreClaimed
CHECK_DEADLOCK FALSE
