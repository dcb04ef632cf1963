CONSTANTS
    u1 = u1
    u2 = u2
    NoUpload = NoUpload
    Uploads = {u1, u2}
    Sizes = {1, 3}
    PartSizes = {1, 2}
    DirectLimit = 1
    MaxParts = 3
SPECIFICATION Spec
INVARIANTS
    IntactPassesAudit
