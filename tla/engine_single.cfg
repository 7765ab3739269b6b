\* One caller driving two motors one at a time (stepper_step, stepper_wait,
\* stepper_set_direction_*).
CONSTANTS
    m1 = m1  m2 = m2  c1 = c1  c2 = c2  r1 = r1  r2 = r2  r3 = r3
    Motors = {m1, m2}
    Callers = {c1}
    Reqs = {r1, r2}
    MotorLists <- SingleLists
    StepCounts = {0, 2}
    Ops = {"step", "wait", "direction"}
    MaxMotions = 2
    UIntBits = 4
    NoReq = NoReq  NoMotor = NoMotor  NoThread = NoThread
SPECIFICATION Spec
INVARIANT TypeOK PulsesWithinRequest LinesHeldWhilePulsing
PROPERTY MotionRefinement TeardownCompletes
CHECK_DEADLOCK FALSE
