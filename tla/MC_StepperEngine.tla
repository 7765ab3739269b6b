------------------------- MODULE MC_StepperEngine -------------------------
(***************************************************************************)
(* Instantiates StepperEngine for TLC.  The cfg files pick one of the      *)
(* motor-list sets below: the lists an application passes to               *)
(* stepper_step_multiple (one motor at a time, or an Axis of two motors).  *)
(***************************************************************************)
EXTENDS StepperEngine

CONSTANTS m1, m2, c1, c2, r1, r2, r3

\* stepper_step(m) calls stepper_step_multiple with the list <<m>>.
SingleLists == {<<m1>>, <<m2>>}

\* One motor only.
OneList == {<<m1>>}

\* An Axis of two motors always passes its whole motor array.
AxisLists == {<<m1, m2>>}

\* An Axis and single-motor calls on the same motors.
MixedLists == {<<m1, m2>>, <<m2>>}

\* The step accumulators are written by motor_pulser and read by no guard of
\* the engine, so states that differ only in them have the same futures:
\* safety runs identify them.
ControlView == <<current_req, req_available, stop, curr_direction, struct_mutex, req_cv,
                 wait_cv, request, shared_mutex, step_line, pulser_pc, pulser, caller_pc,
                 caller, fault, motions>>
=============================================================================
