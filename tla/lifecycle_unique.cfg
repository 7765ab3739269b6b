\* Inits (with GPIO and pthread_create failures) and destroys of motors with
\* distinct names.
CONSTANTS
    a1 = a1  a2 = a2  n1 = n1  n2 = n2  p1 = p1  p2 = p2
    t1 = t1  t2 = t2  t3 = t3
    Motors = {a1, a2}
    Names = {n1, n2}
    Pins = {p1, p2}
    Tids = {t1, t2, t3}
    NoMotor = NoMotor
    NoThread = NoThread
    Ops = {"init", "destroy"}
    Failures = {"step_pin", "pthread_create"}
    MaxInits = 2
    UniqueNames = TRUE
SPECIFICATION Spec
INVARIANT TypeOK
CHECK_DEADLOCK FALSE
