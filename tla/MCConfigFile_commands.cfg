CONSTANTS
    k1 = k1
    k2 = k2
    w1 = w1
    w2 = w2
    b = b
    k0 = k0
    Processes = {k1, k2, w1, w2, b}
    Command <- MCCommand
    Source <- MCSource
    FirstKey = k0
    KeyLength = 2
    ScwLength = 1
SPECIFICATION Spec
INVARIANTS TypeOK OwnersHaveKeys FileIntact UpdatePersisted
PROPERTY DamagedStaysAsItIs
CHECK_DEADLOCK FALSE
