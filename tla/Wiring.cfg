SPECIFICATION WiringSpec
CONSTANTS
    Sources <- MCSources
    Chains <- MCChains
    Devices <- MCDevices
    Answer <- MCAnswer
    Periods <- MCPeriods
INVARIANTS
    KeepsTheSignal
CHECK_DEADLOCK FALSE
