\* One caller driving two motors one at a time.
CONSTANTS
    m1 = m1  m2 = m2  c1 = c1  c2 = c2  r1 = r1  r2 = r2  r3 = r3
    Motors = {m1, m2}
    Callers = {c1}
    Reqs = {r1, r2}
    MotorLists <- SingleLists
    StepCounts = {0, 2}
    Ops = {"step", "wait"}
    MaxMotions = 2
    UIntBits = 4
    NoReq = NoReq  NoMotor = NoMotor  NoThread = NoThread
SPECIFICATION Spec
PROPERTY CallsReturn
CHECK_DEADLOCK FALSE
