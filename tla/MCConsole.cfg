CONSTANTS
    m1 = m1
    Missions <- MCMissions
    MaxVisits = 1
    Ends = {"completed"}
    MaxRetries = 2
    MaxFaults = 2
SPECIFICATION FairSpec
INVARIANTS
    IndInv
    StaleForAReason
    CleanUnmount
PROPERTIES
    ReconnectsMakeUpForThePush
    SocketsComeBack
\* Every mission may be settled and every page left.
CHECK_DEADLOCK FALSE
