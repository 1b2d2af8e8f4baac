\* One version, two workers that may stop anywhere, stale leases, retries, late manifest writes.
SPECIFICATION FairSpec
CONSTANTS
    v1 = v1
    a1 = a1
    a2 = a2
    b1 = b1
    b2 = b2
    b3 = b3
    w1 = w1
    w2 = w2
    e1 = e1
    Version = {v1}
    Artifact = {a1}
    Blob = {b1}
    DigestOf <- TwoDigests
    Worker = {w1, w2}
    Editor = {e1}
    MaxAttempts = 3
    LateWrites = TRUE
    Faults = TRUE
    None = None
INVARIANTS
    TypeOK
    JobTracksVersion
PROPERTIES
    LeasesAreFenced
    PublishJobsEnd
CHECK_DEADLOCK FALSE
