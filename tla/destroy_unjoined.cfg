\* Inits and destroys of motors with distinct names, no environment
\* failure: stepper_destroy frees a Stepper its pulser still uses.
CONSTANTS
    a1 = a1  a2 = a2  n1 = n1  n2 = n2  p1 = p1  p2 = p2
    t1 = t1  t2 = t2  t3 = t3
    Motors = {a1, a2}
    Names = {n1, n2}
    Pins = {p1, p2}
    Tids = {t1, t2, t3}
    NoMotor = NoMotor
    NoThread = NoThread
    Ops = {"init", "destroy"}
    Failures = {}
    MaxInits = 2
    UniqueNames = TRUE
SPECIFICATION Spec
INVARIANT NoUseAfterFree
CHECK_DEADLOCK FALSE
