\* A one-motor axis whose client waits (or stops) before every move.
SPECIFICATION Spec
CONSTANTS
    m1 = m1
    m2 = m2
    Motors = {m1}
    AxisMotors <- OneMotorAxis
    Distances <- MoveDistances
    Microsteps = 1
    MmPerRotation = 2
    Speeds = {1, 4, 10000}
    Ops = {"wait", "stop", "speed", "position"}
    WaitBeforeMove = TRUE
    MaxMoves = 3
    DirWriteMayFail = FALSE
INVARIANT TypeOK PulseWidthFollowsSpeed
 
CHECK_DEADLOCK FALSE
