SPECIFICATION Spec
CONSTANTS
    Workers = {"w1", "w2"}
    Informers = {"i1"}
    QueueCap = 1
    SuiteLength = 2
    MaxRounds = 2
    MaxFaults = 1
CONSTANT Scenarios <- AllStressScenarios
INVARIANTS SuiteSound
PROPERTIES VerdictHonest CleanupLast SuiteEnds
