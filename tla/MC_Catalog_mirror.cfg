\* Two versions of one of two images, two architectures; an alias may be named like a version.
SPECIFICATION Spec
CONSTANTS
    v1 = v1
    v2 = v2
    x1 = x1
    x2 = x2
    i1 = i1
    i2 = i2
    n1 = n1
    n2 = n2
    latest = latest
    standard = standard
    Version = {v1, v2}
    Artifact = {x1, x2}
    Blob = {b1, b2}
    DiskBlob = {b1}
    MetaBlob = {b2}
    Image = {i1, i2}
    Name = {n1, n2, latest}
    Home <- OneImage
    NameOf <- Numbered
    Architecture <- TwoArchitectures
    Variant <- Standard
    None = None
    ObjectSize <- Sizes
    RangeNumber <- Numbers
    Time <- Times
INVARIANTS
    TypeOK
    ResolvedIsComplete
    ExactReferencesAreStable
    WhatIsListedIsServed
    EligibleArtifactsAppear
    OneVersionPerAlias
    RangesAreExact
