\* Without faults: two racing calls and the clock on one upload; lists of up to three parts.
SPECIFICATION FairSpec
CONSTANTS
    good = good
    other = other
    u1 = u1
    u2 = u2
    c1 = c1
    c2 = c2
    w1 = w1
    w2 = w2
    Upload = {u1}
    Client = {c1, c2}
    Worker = {w1}
    Content = {good, other}
    Size <- TwoSizes
    Expectation <- HonestOrWrongSize
    Faults = FALSE
    BlankETag = FALSE
    None = None
    ListedNumber <- Numbers
    ListedSize <- Sizes
    MaxListed = 3
    MaxPartNumber = 3
    MinPartSize = 1
    MaxPartSize = 2
    CopiedSize <- ObjectSizes
    maxCopyPartSize = 2
    maxCopyPartCount = 3
    maxSingleCopySize = 1
INVARIANTS
    CompletionsAreExact
    CopiesCoverObjects
PROPERTIES
    StagedUploadsAreDecided
    KeepsUploadPromiseInTime
CHECK_DEADLOCK FALSE
