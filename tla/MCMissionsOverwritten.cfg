CONSTANTS
    m1 = m1
    m2 = m2
    r1 = r1
    r2 = r2
    c1 = c1
    c2 = c2
    Missions = {m1}
    Total <- MCTotal
    Cancels = {r1}
    Coordinators = {c1, c2}
    MaxFaults = 0
SPECIFICATION Spec
PROPERTY FinalStatusIsKept
