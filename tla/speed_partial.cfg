\* A two-motor axis whose client waits before every move and changes the
\* speed between moves: axis_set_speed racing the previous teardown.
SPECIFICATION Spec
CONSTANTS
    m1 = m1
    m2 = m2
    Motors = {m1, m2}
    AxisMotors <- TwoMotorAxis
    Distances <- MoveDistances
    Microsteps = 1
    MmPerRotation = 2
    Speeds = {1, 4, 10000}
    Ops = {"wait", "speed"}
    WaitBeforeMove = TRUE
    MaxMoves = 4
    DirWriteMayFail = FALSE
INVARIANT PulseWidthFollowsSpeed
CHECK_DEADLOCK FALSE
