------------------------ MODULE MC_MotorLifecycle ------------------------
(***************************************************************************)
(* Instantiates MotorLifecycle for TLC: two heap addresses, two names, two *)
(* direction pins and three pthread ids, so a destroyed Stepper's address  *)
(* can be handed out again while its old pulser is still alive.            *)
(***************************************************************************)
EXTENDS MotorLifecycle

CONSTANTS a1, a2, n1, n2, p1, p2, t1, t2, t3
=============================================================================
