\* Uploads and publishing together, no faults: an attachment is added behind validate_catalog.
SPECIFICATION ServerSpec
CONSTANTS
    good = good
    other = other
    u1 = u1
    c1 = c1
    w1 = w1
    v1 = v1
    a1 = a1
    e1 = e1
    Upload = {u1}
    Client = {c1}
    Worker = {w1}
    Content = {good, other}
    Size <- TwoSizes
    Expectation <- OneOfEach
    Faults = FALSE
    BlankETag = FALSE
    None = None
    Version = {v1}
    Artifact = {a1}
    Editor = {e1}
    MaxAttempts = 1
    LateWrites = TRUE
INVARIANTS
    PublishedIsServed
CHECK_DEADLOCK FALSE
