SPECIFICATION Spec
CONSTANTS
    MaxTxnOps = 4
    MaxLag = 7
    MaxDelay = 10
    Scenarios <- AllScenarios
    Breaches <- NoneOrBreach
    scenarioRetryCount = 1
    MaxForeign = 2
INVARIANTS FailureHasCause BreachDetected
PROPERTY ForeignKeysUntouched
CHECK_DEADLOCK FALSE
