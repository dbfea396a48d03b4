\* The heater under control, published and watched.
CONSTANTS
    Full = 2
    LowMark = 0
    HighMark = 1
    Ambient = 189
    TooHot = 194
    MaxDamage = 1
    MaxResets = 2
    MaxFetches = 2
    MaxDry = 3
    PressureAt <- MCPressureAt
    Deployments <- MCDeployments
    Requests <- MCRequests
SPECIFICATION Spec
INVARIANTS
    TypeOK
    NoDamageWhileControlled
    DryHeatIsBrief
    FillAndDrainExclude
    SensorsOrdered
    AcceptedRequestsServed
    NodesLagOneRound
PROPERTIES
    FillsUp
