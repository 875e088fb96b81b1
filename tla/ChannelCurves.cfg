SPECIFICATION Spec
CONSTANTS
    RANGE <- MCRANGE
    Pulses <- MCPulses
    Coordinates <- MCCoordinates
    Root <- MCRoot
INVARIANTS
    WithinEnds
    Monotone
    ReachesEnds
    CurveAsNamed
