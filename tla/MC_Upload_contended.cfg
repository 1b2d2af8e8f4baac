\* No faults: two workers copy one digest at the same time.
SPECIFICATION Spec
CONSTANTS
    good = good
    other = other
    u1 = u1
    u2 = u2
    c1 = c1
    c2 = c2
    w1 = w1
    w2 = w2
    Upload = {u1, u2}
    Client = {c1}
    Worker = {w1, w2}
    Content = {good, other}
    Size <- TwoSizes
    Expectation <- HonestOnly
    Faults = FALSE
    BlankETag = FALSE
    None = None
INVARIANTS
    IngestingHasWorker
CHECK_DEADLOCK FALSE
