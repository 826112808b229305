CONSTANTS
    NoAgent = NoAgent
    Gnb = Gnb
    Primary = Primary
    Secondary = Secondary
    RecoveryDelay = 20
    ContinuityStart = 120
    CrashAfter = 200
    MigrationAfter = 250
    RestartAfter = 300
    TeardownAfter = 350
    PartitionStart = 400
    PartitionAfter = 400
    SamplePeriod = 20
    SimTimes <- DefaultTime
SPECIFICATION Spec
PROPERTY RestartKeepsHost
