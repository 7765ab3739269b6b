\* A one-motor axis whose client moves again without waiting (ipc_test's CMD_MOVE).
SPECIFICATION Spec
CONSTANTS
    m1 = m1
    m2 = m2
    Motors = {m1}
    AxisMotors <- OneMotorAxis
    Distances <- MoveDistances
    Microsteps = 1
    MmPerRotation = 2
    Speeds = {1, 4, 10000}
    Ops = {"wait", "stop"}
    WaitBeforeMove = FALSE
    MaxMoves = 4
    DirWriteMayFail = FALSE
PROPERTY MoveFollowsCommand
CHECK_DEADLOCK FALSE
