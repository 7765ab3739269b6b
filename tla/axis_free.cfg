\* A two-motor axis whose client moves, waits and stops in any order.
SPECIFICATION Spec
CONSTANTS
    m1 = m1
    m2 = m2
    Motors = {m1, m2}
    AxisMotors <- TwoMotorAxis
    Distances <- MoveDistances
    Microsteps = 1
    MmPerRotation = 2
    Speeds = {1, 4, 10000}
    Ops = {"wait", "stop", "speed"}
    WaitBeforeMove = FALSE
    MaxMoves = 3
    DirWriteMayFail = TRUE
PROPERTY DirectionFixedWhilePulsed
CHECK_DEADLOCK FALSE
