------------------------------- MODULE MC_Axis -------------------------------
(* Model values and small definitions for checking Axis with TLC.          *)
EXTENDS Axis

CONSTANTS m1, m2

OneMotorAxis == <<m1>>
TwoMotorAxis == <<m1, m2>>

\* axis_move distances (mm): 1 mm truncates to 0 steps, 4 mm is 2 steps.
MoveDistances == {-4, 0, 1, 4}
====
