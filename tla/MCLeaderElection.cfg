CONSTANTS
    c1 = c1
    c2 = c2
    Coordinators = {c1, c2}
    LEADER_TTL = 5
    ELECTION_INTERVAL = 2
    MaxLost = 4
    MaxCrashes = 1
SPECIFICATION FairSpec
INVARIANTS
    TypeOK
    FreshLeaderOwnsKey
    OverlapNeedsLostTime
    GapIsBounded
    IndInv
PROPERTY OneLeaderInTheEnd
