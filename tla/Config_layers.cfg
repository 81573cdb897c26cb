SPECIFICATION Spec
CONSTANTS
    Unset = Unset
    NoPort = NoPort
    Absent = Absent
    Malformed = Malformed
    Hosts <- MCHosts
    Ports <- MCPorts
    Texts <- MCTexts
    Numbers <- MCNumbers
    Layers <- MCLayers
    FlagSets <- MCFlagSets
    Defaults <- MCDefaults
    MaxInt = 15
    MaxHUPs = 2
CHECK_DEADLOCK FALSE
INVARIANTS
    TypeOK
    RunningValid
    StrongestLayerWins
PROPERTIES
    GivenUpForAReason
    HandlersKeepStart
