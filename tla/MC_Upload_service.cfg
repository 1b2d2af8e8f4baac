\* One upload, two racing calls, one worker, every fault, an object store that may omit ETags.
SPECIFICATION Spec
CONSTANTS
    good = good
    other = other
    u1 = u1
    u2 = u2
    c1 = c1
    c2 = c2
    w1 = w1
    w2 = w2
    Upload = {u1}
    Client = {c1, c2}
    Worker = {w1}
    Content = {good, other}
    Size <- TwoSizes
    Expectation <- HonestOrWrongSize
    Faults = TRUE
    BlankETag = TRUE
    None = None
SYMMETRY ClientSymmetry
INVARIANTS
    TypeOK
    PromisedBytesAreStaged
    AbortedLeavesNothing
PROPERTIES
    StagingOutlivesDecision
CHECK_DEADLOCK FALSE
