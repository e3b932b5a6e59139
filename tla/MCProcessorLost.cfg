CONSTANTS
    w1 = w1
    w2 = w2
    j1 = j1
    m1 = m1
    Workers = {w1, w2}
    Jobs = {j1}
    Missions = {m1}
    Urls = {"url"}
    Contents = {"a1"}
    Heads = {"head", "other"}
    MissionOf <- MCMissionOf
    UrlOf <- MCUrlOf
    HeadOf <- MCHeadOf
    ReadCount = 2
    ClaimCount = 2
    MaxFaults = 1
    MaxArrivals = 1
    MaxExpiries = 1
SPECIFICATION Spec
INVARIANT NoContentLost
