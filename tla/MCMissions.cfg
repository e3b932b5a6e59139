CONSTANTS
    m1 = m1
    m2 = m2
    r1 = r1
    r2 = r2
    c1 = c1
    c2 = c2
    Missions = {m1, m2}
    Total <- MCTotal
    Cancels = {r1}
    Coordinators = {c1, c2}
    MaxFaults = 2
SPECIFICATION FairSpec
INVARIANTS
    TypeOK
    EndedMissionsAreFinished
    IndInv
PROPERTIES
    OnlyRacesOverwrite
    EveryMissionSettles
