SPECIFICATION Spec
CONSTANTS
    MaxConnects = 2
    MaxShots = 1
CHECK_DEADLOCK FALSE
INVARIANT CameraReleased
