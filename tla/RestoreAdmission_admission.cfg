CONSTANTS
    Runs = {1, 2}
    Project <- OneProject
    Sizes <- LargeAndSmall
    MaxWaves = 6
    Rates = {2}
    ColdRate = 1
    MaxBytes = 4
    MaxObjects = 3
    TargetSeconds = 1
    Horizon = 3
    SlotSetting = 4
    MinBuffer = 1
    TargetBuffer = 1
    MaxBuffer = 2
    Lead = 1
    RestoreSeconds = 2
    Retention = 8
    Reserve = 1
    MaxUpsets = 1
SPECIFICATION FairSpec
CHECK_DEADLOCK FALSE
INVARIANTS
    TypeOK
    PlanMatchesInventory
    PreviewIsThePlan
PROPERTIES
    SubmittedIsFrozen
    AdmissionIsJustified
    PipelineEnds
