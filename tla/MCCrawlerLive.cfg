CONSTANTS
    w1 = w1
    w2 = w2
    j1 = j1
    j2 = j2
    a = a
    Workers = {w1, w2}
    Jobs = {j1}
    Domains = {a}
    DomainOf <- MCDomainOf
    Contents = {"c"}
    MaxRetries = 3
    MaxAttempts = 3
    ReadCount = 2
    ClaimCount = 2
    MaxFaults = 1
SPECIFICATION FairSpec
PROPERTY Delivery
