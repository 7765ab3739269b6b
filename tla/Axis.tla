-------------------------------- MODULE Axis --------------------------------
(***************************************************************************)
(* An Axis (src/core/src/Axis.c) driven by one client thread, over the     *)
(* stepper engine of src/core/src/Stepper.c seen at the granularity the    *)
(* axis can observe: which motors are linked to a request (current_req),   *)
(* their relative direction and step counters, and the pulser of the       *)
(* axis' first motor, which pulses a request and then unlinks its motors   *)
(* one at a time (stepper_destroy_request).  The engine's own races are    *)
(* checked in StepperEngine.  Two of them are left out here: the lost     *)
(* wakeups of req_cv (the signal at Stepper.c:626 falls between the        *)
(* pulser's test at 219 and its cond_wait at 220) and of wait_cv (264      *)
(* between the waiter's test at 709 and its wait at 710), and the crash of  *)
(* a stepper_wait whose unlocked test at 693 saw a mutex the pulser then    *)
(* cleared.  Each only blocks a thread for ever or ends the process, so     *)
(* the safety properties below are unaffected, and no property here is     *)
(* about a wait returning.  A request is picked up once signalled, and a    *)
(* waiter that registered returns once First is unlinked.                  *)
(*                                                                         *)
(* The client issues axis_move, axis_wait, axis_stop and axis_set_speed    *)
(* (the calls of decode_message in src/control/tests/ipc_test.c).  Each    *)
(* stepper_set_direction_rel call of axis_set_direction's loop, and each   *)
(* motor of stepper_set_speed_multiple's loop, is one step, since the      *)
(* pulser may unlink a motor between two of them.                          *)
(***************************************************************************)
EXTENDS Integers, Sequences, SequencesExt, Time

CONSTANTS
    Motors,            \* Stepper objects
    AxisMotors,        \* axis->motors[0 .. num_motors-1], as a sequence
    Distances,         \* values of axis_move's `distance`, in mm
    Microsteps,        \* motors[0]->microsteps_per_rotation
    MmPerRotation,     \* axis->mm_per_rotation
    Speeds,            \* values of axis_set_speed's `mm_per_sec`
    Ops,               \* calls the client makes besides axis_move
    WaitBeforeMove,    \* client discipline: axis_wait/axis_stop before each move
    MaxMoves,          \* bound: axis_move calls over a behaviour
    DirWriteMayFail    \* gpiod_line_set_value of a dir line may fail

ASSUME AxisMotors \in Seq(Motors) /\ Len(AxisMotors) >= 1
ASSUME Distances \subseteq Int /\ Microsteps \in Nat \ {0} /\ MmPerRotation \in Nat \ {0}
ASSUME Speeds \subseteq Nat \ {0}
ASSUME Ops \subseteq {"wait", "stop", "speed", "position"} /\ WaitBeforeMove \in BOOLEAN /\ MaxMoves \in Nat
ASSUME DirWriteMayFail \in BOOLEAN

AxisSet == ToSet(AxisMotors)
First == AxisMotors[1]
Dirs == {"positive", "negative"}       \* curr_direction relative to pos_direction

\* mm_to_steps: the cast of a non-negative double to unsigned int truncates.
MmToSteps(mm) == (mm * Microsteps) \div MmPerRotation

\* MAX_PPS of Stepper.c: stepper_set_speed_multiple limits pps to it.
MAX_PPS == 4160

\* steps_to_mm: steps * mm_per_rotation / microsteps_per_rotation, a double;
\* exact here when Microsteps divides the product (Microsteps = 1 in every
\* configuration).  axis_get_position passes the int counter through an
\* unsigned int and back, which keeps its value.
StepsToMm(s) == (s * MmPerRotation) \div Microsteps

AbsDist(d) == IF d < 0 THEN -d ELSE d
SignOf(d) == IF d < 0 THEN "negative" ELSE "positive"

VARIABLES
    reset_dir,       \* axis->reset_dir
    speed,           \* axis->speed
    position,        \* axis->position, in mm
    half_period,     \* motor->half_period, in microseconds
    direction,       \* curr_direction of each motor, relative
    steps,           \* motor->steps
    current_req,     \* motor->current_req: index into `cmds`, 0 is NULL
    req_available,   \* First's req_available
    stop,            \* First's stop flag
    waiter,          \* motor_waiting: the request First's waiter registered on, 0 none
    pulser,          \* First's pulser thread: pc, request, req_steps left, unlink index
    cpc,             \* client: position inside the call it is making
    dist,            \* client: the argument of its call (distance, mm_per_sec)
    i,               \* client: index of axis_set_direction's or set_speed's loop
    moves,           \* ghost: axis_move calls made
    waited,          \* ghost: the client's last completed call was a wait or stop
    cmds             \* ghost: per request, the direction, steps and axis speed of axis_move

vars == <<reset_dir, speed, position, half_period, direction, steps, current_req, req_available, stop,
          waiter, pulser, cpc, dist, i, moves, waited, cmds>>
engine == <<direction, steps, current_req, req_available, stop, waiter, pulser, cmds>>
timing == <<speed, half_period, position>>

\* stepper_is_busy
IsBusy(m) == current_req[m] # 0

NoPulser == [pc |-> "idle", req |-> 0, left |-> 0, idx |-> 0, waiting |-> FALSE,
             dur |-> [sec |-> 0, nsec |-> 0]]

Init ==
    /\ reset_dir = FALSE                          \* memset in axis_init
    /\ speed = 0                                  \* memset in axis_init
    /\ position = 0                               \* memset in axis_init
    /\ half_period = [m \in Motors |-> 0]          \* memset in stepper_init
    /\ direction = [m \in Motors |-> "positive"]      \* stepper_init: curr = pos_direction
    /\ steps = [m \in Motors |-> 0]
    /\ current_req = [m \in Motors |-> 0]
    /\ req_available = FALSE
    /\ stop = FALSE
    /\ waiter = 0
    /\ pulser = NoPulser
    /\ cpc = "idle" /\ dist = 0 /\ i = 0
    /\ moves = 0 /\ waited = TRUE /\ cmds = <<>>

Return == cpc' = "idle" /\ dist' = 0 /\ i' = 0

(***************************************************************************)
(* axis_move                                                               *)
(***************************************************************************)

NegativeCheck(d) ==
    IF d < 0 THEN reset_dir' = TRUE /\ cpc' = "neg" /\ i' = 1
             ELSE cpc' = "step" /\ i' = 0 /\ UNCHANGED reset_dir

AxisMove(d) ==
    /\ cpc = "idle" /\ moves < MaxMoves
    /\ WaitBeforeMove => waited
    /\ moves' = moves + 1 /\ waited' = FALSE
    /\ \/ /\ d = 0                              \* nothing to run: return 0
          /\ UNCHANGED <<reset_dir, cpc, dist, i>>
       \/ /\ d # 0 /\ reset_dir                 \* clear the latch, then set POSITIVE
          /\ reset_dir' = FALSE
          /\ cpc' = "reset" /\ dist' = d /\ i' = 1
       \/ /\ d # 0 /\ ~reset_dir
          /\ dist' = d
          /\ NegativeCheck(d)
    /\ UNCHANGED <<engine, timing>>

\* One stepper_set_direction_rel call of axis_set_direction's loop; the
\* loop exits at the first motor that is busy, or whose dir line write
\* fails (stepper_set_direction_abs, Stepper.c:416-425), and axis_move
\* returns -1.
SetDirectionStepNoBusyCheck ==
    LET m == AxisMotors[i]
        target == IF cpc = "reset" THEN "positive" ELSE "negative"
    IN /\ cpc \in {"reset", "neg"}
       /\ \/ /\ DirWriteMayFail
             /\ Return
             /\ UNCHANGED <<direction, reset_dir>>
          \/ /\ direction' = [direction EXCEPT ![m] = target]
             /\ IF i < Len(AxisMotors)
                  THEN i' = i + 1 /\ UNCHANGED <<cpc, dist, reset_dir>>
                  ELSE IF cpc = "reset" THEN NegativeCheck(dist) /\ UNCHANGED dist
                       ELSE cpc' = "step" /\ i' = 0 /\ UNCHANGED <<dist, reset_dir>>
       /\ UNCHANGED <<steps, current_req, req_available, stop, waiter, pulser,
                      moves, waited, cmds, timing>>

SetDirectionStep ==
    LET m == AxisMotors[i]
        target == IF cpc = "reset" THEN "positive" ELSE "negative"
    IN /\ cpc \in {"reset", "neg"}
       /\ \/ /\ IsBusy(m)
             /\ Return
             /\ UNCHANGED <<direction, reset_dir>>
          \/ /\ ~IsBusy(m) /\ DirWriteMayFail
             /\ Return
             /\ UNCHANGED <<direction, reset_dir>>
          \/ /\ ~IsBusy(m)
             /\ direction' = [direction EXCEPT ![m] = target]
             /\ IF i < Len(AxisMotors)
                  THEN i' = i + 1 /\ UNCHANGED <<cpc, dist, reset_dir>>
                  ELSE IF cpc = "reset" THEN NegativeCheck(dist) /\ UNCHANGED dist
                       ELSE cpc' = "step" /\ i' = 0 /\ UNCHANGED <<dist, reset_dir>>
       /\ UNCHANGED <<steps, current_req, req_available, stop, waiter, pulser,
                      moves, waited, cmds, timing>>

\* mm_to_steps, then stepper_step_multiple(axis->motors, steps, num_motors):
\* it refuses 0 steps and a busy first motor; otherwise it links every
\* motor to the new request and signals First's pulser.  (The pin bulk is
\* released before First is unlinked, so reservation cannot fail here.)
NewRequest(n) ==
    /\ cmds' = Append(cmds, [sign |-> SignOf(dist), asked |-> n, speed |-> speed])
    /\ current_req' = [m \in Motors |->
                         IF m \in AxisSet THEN Len(cmds) + 1 ELSE current_req[m]]

MoveStepNoZeroCheck ==
    LET n == MmToSteps(AbsDist(dist)) IN
    /\ cpc = "step"
    /\ \/ /\ IsBusy(First)
          /\ UNCHANGED <<current_req, req_available, cmds>>
       \/ /\ ~IsBusy(First)
          /\ NewRequest(n)
          /\ req_available' = TRUE
    /\ Return
    /\ UNCHANGED <<reset_dir, direction, steps, stop, waiter, pulser, moves, waited, timing>>

MoveStep ==
    LET n == MmToSteps(AbsDist(dist)) IN
    /\ cpc = "step"
    /\ \/ /\ n = 0 \/ IsBusy(First)
          /\ UNCHANGED <<current_req, req_available, cmds>>
       \/ /\ n # 0 /\ ~IsBusy(First)
          /\ NewRequest(n)
          /\ req_available' = TRUE
    /\ Return
    /\ UNCHANGED <<reset_dir, direction, steps, stop, waiter, pulser, moves, waited, timing>>

(***************************************************************************)
(* axis_wait, axis_stop: stepper_wait / stepper_stop on motors[0] only     *)
(***************************************************************************)

\* stepper_wait's unlocked test of shared_mutex (line 693): it returns at
\* once unless First is linked to a request.
AxisWait ==
    /\ cpc = "idle" /\ "wait" \in Ops
    /\ IF IsBusy(First) THEN cpc' = "register" /\ UNCHANGED waited
                        ELSE waited' = TRUE /\ UNCHANGED cpc
    /\ UNCHANGED <<reset_dir, dist, i, moves, engine, timing>>

\* stepper_stop: stop = stepper_is_busy(motor), then stepper_wait only if
\* it was set.
AxisStop ==
    /\ cpc = "idle" /\ "stop" \in Ops
    /\ stop' = IsBusy(First)
    /\ IF IsBusy(First) THEN cpc' = "wait_test" /\ UNCHANGED waited
                        ELSE waited' = TRUE /\ UNCHANGED cpc
    /\ UNCHANGED <<reset_dir, dist, i, moves, direction, steps, current_req,
                   req_available, waiter, pulser, cmds, timing>>

\* stepper_wait called by stepper_stop: the same unlocked test (693).
StopWaitTest ==
    /\ cpc = "wait_test"
    /\ IF IsBusy(First) THEN cpc' = "register" /\ UNCHANGED <<waited, dist, i>>
                        ELSE waited' = TRUE /\ Return
    /\ UNCHANGED <<reset_dir, moves, engine, timing>>

\* Lines 695-702: under shared_mutex, current_req->motor_waiting = motor.
\* A request already unlinked (the test at 693 was stale) ends the call.
WaitRegister ==
    /\ cpc = "register"
    /\ IF IsBusy(First)
         THEN waiter' = current_req[First] /\ cpc' = "wait" /\ UNCHANGED <<waited, dist, i>>
         ELSE waited' = TRUE /\ Return /\ UNCHANGED waiter
    /\ UNCHANGED <<reset_dir, moves, direction, steps, current_req, req_available,
                   stop, pulser, cmds, timing>>

\* Lines 707-711: wait on wait_cv while First is busy.
WaitReturn ==
    /\ cpc = "wait"
    /\ ~IsBusy(First)
    /\ waited' = TRUE
    /\ Return
    /\ UNCHANGED <<reset_dir, moves, engine, timing>>

(***************************************************************************)
(* axis_set_speed: stepper_set_speed_multiple(axis->motors, pps, n)        *)
(***************************************************************************)

\* axis_set_speed refuses mm_per_sec <= 0, and stepper_set_speed_multiple
\* refuses pps = 0; both return -1 having changed nothing.  Otherwise pps
\* is limited to MAX_PPS and the loop over the motors begins.
AxisSetSpeed(v) ==
    /\ cpc = "idle" /\ "speed" \in Ops
    /\ v > 0 /\ MmToSteps(v) # 0
    /\ cpc' = "speed" /\ dist' = v /\ i' = 1
    /\ UNCHANGED <<reset_dir, moves, waited, engine, timing>>

HalfPeriodOf(v) ==
    500000 \div (IF MmToSteps(v) > MAX_PPS THEN MAX_PPS ELSE MmToSteps(v))

\* One iteration of the loop without its stepper_is_busy check.
SetSpeedStepNoBusyCheck ==
    LET m == AxisMotors[i] IN
    /\ cpc = "speed"
    /\ half_period' = [half_period EXCEPT ![m] = HalfPeriodOf(dist)]
    /\ IF i < Len(AxisMotors)
         THEN i' = i + 1 /\ UNCHANGED <<cpc, dist, speed>>
         ELSE speed' = dist /\ Return
    /\ UNCHANGED <<reset_dir, moves, waited, engine, position>>

\* One iteration of the loop: a busy motor ends the call with -1, leaving
\* the motors before it at the new half period and axis->speed as it was;
\* after the last motor axis_set_speed records the speed.
SetSpeedStep ==
    LET m == AxisMotors[i] IN
    /\ cpc = "speed"
    /\ \/ /\ IsBusy(m)
          /\ Return
          /\ UNCHANGED <<speed, half_period>>
       \/ /\ ~IsBusy(m)
          /\ half_period' = [half_period EXCEPT ![m] = HalfPeriodOf(dist)]
          /\ IF i < Len(AxisMotors)
               THEN i' = i + 1 /\ UNCHANGED <<cpc, dist, speed>>
               ELSE speed' = dist /\ Return
    /\ UNCHANGED <<reset_dir, moves, waited, engine, position>>

\* axis_get_position: read motors[0]'s step counter without a lock and
\* store its conversion to mm in axis->position.
AxisGetPosition ==
    /\ cpc = "idle" /\ "position" \in Ops
    /\ position' = StepsToMm(steps[First])
    /\ UNCHANGED <<reset_dir, speed, half_period, cpc, dist, i, moves, waited, engine>>

(***************************************************************************)
(* motor_pulser of motors[0]                                               *)
(***************************************************************************)

\* Wake on req_available, take motor->current_req and convert the motor's
\* half_period into the pulse_duration every transition sleeps for.
PulserStart ==
    /\ pulser.pc = "idle" /\ req_available
    /\ current_req[First] # 0
    /\ req_available' = FALSE
    /\ pulser' = [pulser EXCEPT !.pc = "pulse", !.req = current_req[First],
                                !.left = cmds[current_req[First]].asked, !.idx = 0,
                                !.dur = MicrosecToTimespec(half_period[First])]
    /\ UNCHANGED <<direction, steps, current_req, stop, waiter, cmds>>
    /\ UNCHANGED <<reset_dir, cpc, dist, i, moves, waited, timing>>

\* One iteration of the do-while: count a step for every motor of the
\* request in its current direction, then `--req_steps && !stop`.
PulserPulse ==
    LET left == pulser.left - 1 IN
    /\ pulser.pc = "pulse"
    /\ steps' = [m \in Motors |->
                   IF m \in AxisSet
                     THEN steps[m] + (IF direction[m] = "positive" THEN 1 ELSE -1)
                     ELSE steps[m]]
    /\ pulser' = IF left = 0 \/ stop
                   THEN [pulser EXCEPT !.pc = "clear", !.left = left, !.idx = 1]
                   ELSE [pulser EXCEPT !.left = left]
    /\ UNCHANGED <<direction, current_req, req_available, stop, waiter, cmds>>
    /\ UNCHANGED <<reset_dir, cpc, dist, i, moves, waited, timing>>

\* Lines 254-257: under shared_mutex, `waiting = motor_waiting` and
\* stepper_destroy_request's loop setting current_req = NULL for each motor
\* in turn, whatever request it now points to.  Lines 259-265: only if a
\* waiter had registered, clear its stop flag and signal it.
PulserClear ==
    /\ pulser.pc = "clear"
    /\ IF pulser.idx <= Len(AxisMotors)
         THEN /\ current_req' = [current_req EXCEPT ![AxisMotors[pulser.idx]] = 0]
              /\ pulser' = [pulser EXCEPT !.idx = @ + 1,
                                          !.waiting = IF pulser.idx = 1 THEN waiter = pulser.req
                                                      ELSE @]
              /\ UNCHANGED stop
         ELSE /\ pulser' = NoPulser
              /\ stop' = IF pulser.waiting THEN FALSE ELSE stop
              /\ UNCHANGED current_req
    /\ UNCHANGED <<direction, steps, req_available, waiter, cmds>>
    /\ UNCHANGED <<reset_dir, cpc, dist, i, moves, waited, timing>>

PulserStep == PulserStart \/ PulserPulse \/ PulserClear

ClientCall == (\E d \in Distances : AxisMove(d)) \/ AxisWait \/ AxisStop
                \/ \E v \in Speeds : AxisSetSpeed(v) \/ AxisGetPosition
ClientStep == SetDirectionStep \/ MoveStep \/ StopWaitTest \/ WaitRegister \/ WaitReturn
                \/ SetSpeedStep

Next == ClientCall \/ ClientStep \/ PulserStep

Fairness == WF_vars(PulserStep) /\ WF_vars(ClientStep)

Spec == Init /\ [][Next]_vars /\ Fairness

(***************************************************************************)
(* Properties                                                              *)
(***************************************************************************)

TypeOK ==
    /\ speed \in {0} \cup Speeds /\ position \in Int /\ half_period \in [Motors -> Nat]
    /\ reset_dir \in BOOLEAN /\ stop \in BOOLEAN /\ req_available \in BOOLEAN
    /\ waiter \in 0..Len(cmds)
    /\ direction \in [Motors -> Dirs]
    /\ current_req \in [Motors -> 0..Len(cmds)]
    /\ pulser.pc \in {"idle", "pulse", "clear"}
    /\ pulser.left \in Nat
    /\ cpc \in {"idle", "reset", "neg", "step", "wait_test", "register", "wait", "speed"}
    /\ cmds \in Seq([sign : Dirs, asked : Nat \ {0}, speed : {0} \cup Speeds])

\* Every pulse of a request created by axis_move(d) moves each motor of the
\* axis by one step in the direction of d's sign: axis_move's reset_dir
\* latch and axis_set_direction must have left every motor so oriented.
MoveFollowsCommand ==
    [][pulser.pc = "pulse" =>
         \A m \in AxisSet :
            steps'[m] # steps[m] =>
               steps'[m] - steps[m] = IF cmds[pulser.req].sign = "positive" THEN 1 ELSE -1
      ]_vars

\* The motors of an axis (a gantry driven by several motors) have always
\* taken the same net number of steps: no call sequence leaves them
\* oriented differently when a move starts.
AxisMotorsInStep ==
    \A m \in AxisSet : steps[m] = steps[First]

\* While the pulser drives a request, no motor of the axis changes its
\* direction: axis_set_direction cannot reach a motor whose link the
\* pulser of the previous request wrongly cleared, since it stops at a busy
\* motors[0] first.
DirectionFixedWhilePulsed ==
    [][pulser.pc = "pulse" => \A m \in AxisSet : direction'[m] = direction[m]]_vars

\* A motion pulses with the half period spec 4.C gives for the axis speed
\* in force when axis_move created it, 500000 / pps microseconds with pps
\* the speed in steps limited to 4160 (0 before any axis_set_speed, from
\* the memsets), as an exact timespec: stepper_set_speed_multiple refuses
\* busy motors, so no speed change lands between the request and
\* motor_pulser's snapshot of half_period, and microsec_to_timespec
\* converts the half period exactly.
SpecHalfPeriod(v) ==
    IF v = 0 THEN 0
    ELSE LET pps == (v * Microsteps) \div MmPerRotation
         IN 500000 \div (IF pps < 4160 THEN pps ELSE 4160)

PulseWidthFollowsSpeed ==
    pulser.pc # "idle" =>
        IsTimespecOfMicros(pulser.dur, SpecHalfPeriod(cmds[pulser.req].speed))

====
