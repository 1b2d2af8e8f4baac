\* Two servers, two requests at a time, one rule, two identities of one subject.
SPECIFICATION Spec
CONSTANTS
    p1 = p1
    p2 = p2
    p3 = p3
    t1 = t1
    t2 = t2
    i1 = i1
    i2 = i2
    subject = subject
    a1 = a1
    a2 = a2
    r1 = r1
    q1 = q1
    q2 = q2
    s1 = s1
    s2 = s2
    Principal = {p1, p2, p3}
    Token = {t1, t2}
    Identity = {i1, i2}
    Subject <- OneSubject
    Audience <- TwoAudiences
    Rule = {r1}
    Server = {s1, s2}
    Request = {q1, q2}
    Operation <- Operations
    MaxArrivals = 4
    None = None
SYMMETRY AccessSymmetry
INVARIANTS
    TypeOK
    AdministratorReachable
    TrustIsLostOnlyToRaces
    OnePrincipalPerIdentity
    ReconciliationRevokes
PROPERTIES
    LockoutIsFinal
CHECK_DEADLOCK FALSE
