\* A two-motor axis whose client waits (or stops) before every move.
SPECIFICATION Spec
CONSTANTS
    m1 = m1
    m2 = m2
    Motors = {m1, m2}
    AxisMotors <- TwoMotorAxis
    Distances <- MoveDistances
    Microsteps = 1
    MmPerRotation = 2
    Speeds = {1, 4, 10000}
    Ops = {"wait", "stop"}
    WaitBeforeMove = TRUE
    MaxMoves = 4
    DirWriteMayFail = FALSE
INVARIANT AxisMotorsInStep
CHECK_DEADLOCK FALSE
