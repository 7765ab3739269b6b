\* One caller stopping a motion of one motor, then starting the next one.
CONSTANTS
    m1 = m1  m2 = m2  c1 = c1  c2 = c2  r1 = r1  r2 = r2  r3 = r3
    Motors = {m1}
    Callers = {c1}
    Reqs = {r1, r2}
    MotorLists <- OneList
    StepCounts = {2}
    Ops = {"step", "stop"}
    MaxMotions = 2
    UIntBits = 4
    NoReq = NoReq  NoMotor = NoMotor  NoThread = NoThread
SPECIFICATION Spec
INVARIANT StopHonoured
CHECK_DEADLOCK FALSE
