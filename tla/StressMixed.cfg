SPECIFICATION Spec
CONSTANTS
    Classes = {"event", "pod"}
    TTLClasses = {"event"}
    Period <- MCPeriod
    Duration = 4
    CompactInterval = 2
    DefragAfterCompact = TRUE
    Members = 3
    MaxInflight = 1
    RequestTimeout = 1
    LeaseWindow = 1
    EventTTL = 3
    MaxClock = 5
    MaxFaults = 1
INVARIANTS TypeOK PassMeansWritten LeaseOutlivesPut MaintenanceErrorHasCause
PROPERTIES InformersKeptForAnInterval ImplementsOpenLoop ScenarioEnds
