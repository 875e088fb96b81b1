SPECIFICATION FairSpec
CONSTANTS
    Fields <- MCFields
    Parameters = {p}
    NoParameter = NoParameter
    MaxClicks = 1
    MaxPresses = 1
    MaxFaults = 1
    MaxInFlight = 2
    MaxQueue = 1
CHECK_DEADLOCK FALSE
INVARIANTS
    SetbackBound
    CurrentSaysWanted
PROPERTIES
    Agreement
