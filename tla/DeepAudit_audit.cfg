CONSTANTS
    w1 = w1
    w2 = w2
    a = a
    b = b
    c = c
    NoTask = NoTask
    NoObj = NoObj
    Waves = {w1, w2}
    Objs = {a, b, c}
    WaveOf <- WaveOfThree
    Intact = {a}
    Unproven = {c}
    MaxTasks = 2
SPECIFICATION FairSpec
INVARIANTS
    TypeOK
    VerifiedWaveIsProven
PROPERTIES
    VerificationIsKept
    InterruptedAuditGoesFirst
    AuditEnds
