CONSTANTS
    u1 = u1
    u2 = u2
    NoUpload = NoUpload
    Uploads = {u1, u2}
    Sizes = {1, 3, 5}
    PartSizes = {1, 2, 3}
    DirectLimit = 1
    MaxParts = 3
SPECIFICATION FairSpec
INVARIANTS
    TypeOK
    DeliveredIsWhole
    PartEvidenceIsExact
PROPERTIES
    CheckpointSurvives
    OnlyMissingIsSent
    CopyCompletes
    CopyIsAtomic
