\* Two digests, one of them announced with two sizes; manifest writes commit while their version is a draft.
SPECIFICATION Spec
CONSTANTS
    v1 = v1
    a1 = a1
    a2 = a2
    b1 = b1
    b2 = b2
    b3 = b3
    w1 = w1
    w2 = w2
    e1 = e1
    Version = {v1}
    Artifact = {a1, a2}
    Blob = {b1, b2, b3}
    DigestOf <- TwoDigests
    Worker = {w1, w2}
    Editor = {e1}
    MaxAttempts = 2
    LateWrites = FALSE
    Faults = TRUE
    None = None
SYMMETRY WorkersAndArtifacts
INVARIANTS
    PublishedIsVerified
    ProjectionMatchesManifest
PROPERTIES
    KeepsReleasePromise
CHECK_DEADLOCK FALSE
