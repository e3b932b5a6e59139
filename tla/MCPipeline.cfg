CONSTANTS
    c1 = c1
    c2 = c2
    p1 = p1
    p2 = p2
    v1 = v1
    s1 = s1
    j1 = j1
    j2 = j2
    m1 = m1
    a = a
    Crawlers = {c1}
    Processors = {p1}
    Validators = {v1}
    Stores = {s1}
    Jobs = {j1, j2}
    Missions = {m1}
    Urls = {j1, j2}
    Domains = {a}
    Contents = {"good", "bad"}
    Heads = {"head"}
    HeadOf <- MCHeadOf
    Acceptable = {"good"}
    MissionOf <- MCMissionOf
    UrlOf <- MCUrlOf
    DomainOf <- MCDomainOf
    MaxRetries = 0
    MaxAttempts = 1
    ReadCount = 1
    ClaimCount = 1
    MaxFaults = 1
    MaxExpiries = 0
SPECIFICATION Spec
SYMMETRY MCSymmetry
INVARIANTS
    JobAccounted
    OvercountBoundedByFaults
    OneOutcomeWithoutFaults
    IndInv
PROPERTIES
    SafeDelivery
