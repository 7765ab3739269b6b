# TLA+ models of the stepper-motor controller

This directory holds TLA+ models of the C sources under `src/`, the TLC
configurations that check them, and `PROJECT.json`, which records for every
definition the source lines it models, every run with its expected outcome,
the mutants that validate each checked property, the findings and the hazards.

## The system

| Part | Source | Role |
|---|---|---|
| GPIO façade | `src/core/src/GPIO.c` | Opens GPIO chips lazily, reserves single lines and bulks through libgpiod v1, writes levels. |
| Task factory | `src/core/src/Tasks.c` | Creates pthreads (never joined) and keeps a linked list of tasks by name (no lock). `stepper_init` starts each motor's pulser through it, and `stepper_destroy` kills the pulser by name. |
| Stepper engine | `src/core/src/Stepper.c` | One *pulser* thread per motor. A `stepper_req` request object and its heap mutex are shared by the motors of one motion. The motion is driven by the pulser of the first motor of the list. |
| Axis | `src/core/src/Axis.c` | Groups up to 8 motors. Converts mm to steps. Keeps a direction latch for negative moves. Delegates wait/stop/ready to `motors[0]`. |
| Config parser | `src/control/src/config.c` | Line-oriented state machine reading `[motor]`/`[axis]` sections into fixed tables of 8 entries. |
| IPC | `src/control/src/ipc.c` | Socket listener thread and a lock-free double buffer of positions. |
| Time helpers | `src/core/src/Time.c` | `timespec` arithmetic; the pulser converts its half period with `microsec_to_timespec`. |

How the parts interact at run time:

- An application thread calls the Axis or Stepper API.
- `stepper_step_multiple` builds a request, reserves the step lines of all
  its motors as one bulk, links every motor to the request, and wakes the
  pulser of the first motor through `req_available` / `req_cv`.
- That pulser emits the pulses and counts steps for every motor of the list.
- It then tears the request down under the request mutex. This releases the
  bulk, unlinks the motors one at a time, wakes a registered waiter through
  `wait_cv`, and frees the mutex.
- `stepper_wait` and `stepper_stop` synchronise with the teardown through
  the request mutex, `motor_waiting` and `wait_cv`.
- None of the signals is sent with the associated mutex held.

## Modules

### `StepperEngine.tla` — the stepper engine (Stepper.c)

State, one variable per shared field of the code:

- `current_req[m]` stands for both `current_req` and `shared_mutex` of a
  `Stepper`. They are always assigned together, and `stepper_is_busy`
  (`IsBusy`) tests it.
- `req_available`, `stop`, `steps`, `curr_direction`.
- `struct_mutex[m]`: the thread holding it, or `NoThread`.
- `req_cv[m]`: whether the pulser sleeps on it.
- `wait_cv[m]`: the callers asleep on it.
- `request[r]`: the `stepper_req` at heap address `r`, with three ghost fields:
  - `asked`: the `steps` argument;
  - `pulsed`: the pulses emitted;
  - `stop_asked`: `stepper_stop` was called during the motion.
- `shared_mutex[r]`: whether the heap mutex at `r` is allocated, and its holder.
- `step_line[m]`: which request's bulk has the step line of `m` requested from the kernel.
- A program counter and locals for every pulser and every caller thread.
- `fault`: the invalid access (NULL or freed pointer) that crashed the process.

Actions: one per step of a thread between two points where another thread can
see or change shared state:

- the pulser: `PulserLock`, `PulserCheck`, `PulserCondWait`, `PulserStart`
  (line 228 reads `num_motors` once), and the do-while loop as
  `PulserWrite` (the two `GPIO_write_bulk` through `current_req`),
  `PulserCount` (one iteration of the counting loop: step the i-th motor
  of `current_req->motor_list` and fold its `stop` into the local flag)
  and `PulserTest` (`--current_req->req_steps && !stop`); each of them
  re-reads `motor->current_req` and crashes on NULL, as the code would.
  Then `PulserTeardownLock` (read of
  `motor->shared_mutex`), `PulserTeardownAcquire`, `PulserTeardownDestroy`,
  `PulserTeardownClear` (one iteration of the unlink loop of
  `stepper_destroy_request`), `PulserTeardownUnlock`, `PulserSignalWaiter`
  and `PulserFreeMutex`;
- the callers:
  - `stepper_step_multiple`: `StepMultiple`, `CreateRequest`, `StepSignal`;
  - `stepper_wait`: `Wait`, `WaitLock`, `WaitRegister`, `WaitStructLock`,
    `WaitCheck`, `WaitCondWait`;
  - `stepper_stop`: `Stop`, `StopCheck`;
  - `stepper_set_direction_abs/rel`: `SetDirection`, `WriteDirection`.

Modelling decisions:

- A `pthread_cond_wait` is two steps. The test of the predicate happens
  under the mutex. The wait then releases the mutex and sleeps in one step.
  A `pthread_cond_signal` wakes one sleeper, or nobody if none sleeps, so
  lost wakeups are reachable exactly as in the code.
- `stepper_wait` reads `motor->shared_mutex` at line 693 and passes
  `motor->shared_mutex` again to `pthread_mutex_lock` (695) and
  `pthread_mutex_unlock` (702).
  - This is a data race with the pulser.
  - The model lets each use see either the value read at 693 or the current one.
  - In a debug build the `DEBUG_PRINT` between them forces the re-read.
- `req_steps` is an `unsigned int`. `Dec32` wraps at 0 to
  `UINT_MAX = 2^UIntBits - 1`.
  - `UIntBits` is 2 or 4 in the configurations instead of 32: TLC's
    integers are 31-bit, and the wrap, not its size, is what the properties see.
- Line reservation follows libgpiod v1:
  - `gpiod_line_request_bulk_output` fails if any line of the bulk is
    already requested;
  - `gpiod_line_release_bulk` frees every line of the bulk, whoever
    requested it.
- Allocation failures in `stepper_create_new_request` return an error with
  no net change; the model has them as one disjunct of `CreateRequest`.
  Running out of request addresses `Reqs` is such a failure.
- Time is not modelled. The half period only delays pulses, and every
  interleaving of the delays is already a behaviour of the model.
- `fault` stops every thread. The model does not go past a crash.

### `MC_StepperEngine.tla`

Gives the model values and the motor-list sets the configurations choose from:

- `OneList`, `SingleLists`: `stepper_step(m)` calls.
- `AxisLists`: an Axis of two motors.
- `MixedLists`: an Axis plus single-motor calls on its second motor. No run
  uses it; the hazards of lines 151, 248 and 612 were found with it.

It also defines `ControlView`, the state without the `steps` accumulators,
for safety runs. No guard reads `steps`.

### `Motion.tla` — what the engine promises, and the refinement

`Motion` is the engine seen by its callers, with no threads or locks:

- `owner[m]` is the motion a motor belongs to.
- `left[r]` is the number of pulses motion `r` may still give.
- `done[r]` says whether `r` has given its last pulse.
- `pos`, `dir` and `halt` are each motor's step count, direction and stop
  request.

Its actions are these:

- `Start(r, S, n)`: a motion starts on free motors only.
- `Pulse(r)`: one pulse moves all its motors together, one step each in
  their own direction.
- A pulse is the last one when the count runs out or a member has a stop
  request. The next pulse after a stop ends the motion, as the `halt` test
  of the do-while does.
- `Release(r, m)`: a finished motion hands its motors back one by one.
- `Retire(r)`: a finished motion with no motors left is gone.
- `SetDir(m, d)`: only a motor no motion owns changes direction.
- `SetHalt(m, b)`: stop requests come and go.

`StepperEngine` defines the mapping (`Abstract == INSTANCE Motion WITH …`):

- `owner` ← `current_req`, `pos` ← `steps`, `dir` ← `curr_direction`,
  `halt` ← `stop`;
- `left` ← the live request's `req_steps`, less the decrement a pulser at
  `PulserTest` is about to make (`MotionLeft`);
- `done` ← the pulser of the request's first motor is in the teardown of
  that request, before the free (`InTeardown`), or at its test with the
  loop about to end (`MotionDone`);
- `pos` ← `steps` less the step of a counting loop that has not reached
  the end of the request's motors yet (`Pending`, `MotionPos`): the
  abstract `Pulse` is the last `PulserCount` of an iteration;
- `Counts` ← the non-zero step counts.

Each engine step is then one abstract step, or leaves the mapped state
unchanged:

| Engine step | Abstract step |
|---|---|
| `CreateRequest` | `Start` |
| the last `PulserCount` of an iteration | `Pulse` |
| each iteration of the unlink loop | `Release` |
| the `free(request)` | `Retire` |

`MotionRefinement` (`Abstract!Spec`) is checked as a `PROPERTY` in
`engine_single` and `engine_stop`. It says the direction is fixed while
pulsing, and the two things the teardown races can break: a motion starts
only on motors no other motion owns, and a pulse never moves a motor its
motion does not own. In `engine_stop` it also says that a motion whose
counting loop has folded in a set stop flag ends at that step boundary.
It fails under `MixedLists` (see below).

## Properties

| Property | Kind | Statement |
|---|---|---|
| `TypeOK` | invariant | Types. `req_steps` never exceeds the `steps` argument, so it never wraps. |
| `PulsesWithinRequest` | invariant | A live request has emitted at most the pulses asked for. |
| `LinesHeldWhilePulsing` | invariant | While a pulser emits a request's pulses, every motor of that request has its step line held by that request's bulk. |
| `StopHonoured` | invariant | When a pulser reaches its teardown, a motion no `stepper_stop` was called during has emitted every pulse asked, and a stopped one at most one pulse past the stop. |
| `NoMotorDrivenTwice` | invariant | Two pulsers never drive requests with a motor in common. |
| `MotionRefinement` | temporal | The engine implements `Motion` (below) under the refinement mapping `Abstract`. |
| `TeardownCompletes` | liveness | A pulser that starts a motion gets back to the top of its loop (or the process has crashed). |
| `CallsReturn` | liveness | Every `stepper_wait` (also the one inside `stepper_stop`) returns to its caller. It fails on a lost `req_cv` signal (the motion never starts), a lost `wait_cv` signal (the waiter sleeps after the motion ended) and a crash (the call never comes back). |

## Runs

Passing runs:

| Run | Configuration | Result |
|---|---|---|
| `engine_single` | 2 motors, 1 caller, `stepper_step` on one motor at a time, wait, set_direction; steps ∈ {0,2}; 2 motions; 2 request addresses | `TypeOK`, `PulsesWithinRequest`, `LinesHeldWhilePulsing`, `MotionRefinement`, `TeardownCompletes` hold (182k states). |
| `engine_stop` | 1 motor, step/stop/wait, 3 steps, 2 motions | `MotionRefinement` holds (10k states). |

Violation runs (each is a finding in `PROJECT.json`):

| Run | Property | What TLC finds |
|---|---|---|
| `wait_null` | `CallsReturn` | The shortest counterexample is the crash: `stepper_wait` locks a NULL `shared_mutex` because the motion ended between line 693 and line 695. The process dies, so the call never returns (17 states). |
| `stale_stop` | `StopHonoured` | `stepper_stop` on a motion that ends before its `stepper_wait` registers (line 693 finds the motor free) leaves `stop` set: line 261 clears it only for a registered waiter. The next motion stops after one pulse (28 states). |

`CallsReturn` also fails in `wait_null` without any crash. This was
checked while writing it, with the fault steps disabled. Then TLC reports the
lost `req_cv` signal of line 626: the caller sets `req_available` and
signals while the pulser is between its test (line 219) and its
`pthread_cond_wait` (line 220). The pulser sleeps with the request pending,
and the caller's `stepper_wait` sleeps on `wait_cv` for a motion that never
starts. The `wait_cv` signal of line 264 has the same flaw: the teardown
and signal can land between `stepper_wait`'s busy test (line 709) and its
`pthread_cond_wait` (line 710).

The project is held to twelve runs. These further violations were found by
TLC while the engine was modelled. They are recorded as hazards, not as runs:

- `StopHonoured` has a second counterexample, reported under
  `engine_stop`'s constants when only its stopped-motion half is checked:
  1. `stepper_wait` returns as soon as the teardown has cleared
     `current_req` (line 709), while the pulser has not yet run line 261.
  2. The caller starts a new motion and calls `stepper_stop` on it.
  3. The old teardown's `waiting_motor->stop = 0` erases that stop.
  4. `stepper_stop`'s own test then reads 0 and returns without waiting,
     and the motion runs its full count.
- `MotionRefinement` with `MixedLists`: an Axis call `<<m1, m2>>` made
  while m2 is busy with its own request passes the busy check of `motors[0]`
  only (line 612) and takes m2 over. The abstract `Start` needs free motors,
  so the refinement fails at that step. Both pulsers then drive the
  Axis request: each decrements its `req_steps`, and whichever tears it
  down first frees it under the other, which then reads a NULL
  `current_req`.
- A stale clear (with `AxisLists`, and `Ops` including `"direction"`),
  which breaks `MotionRefinement` happens with the Axis used as Axis.c uses it:
  1. The previous teardown has unlinked `motors[0]`.
  2. A new Axis motion is accepted and links both motors.
  3. The previous teardown then unlinks the second motor.
  4. The second motor now reads as idle, and `stepper_set_direction_abs`
     succeeds on it mid-motion.

  The Axis API itself cannot do this; see `axis_free` below.
- `LinesHeldWhilePulsing` (with `MixedLists`): a rejected Axis step
  releases the step line of a moving motor.

### Bounds

- Two motors are the fewest with which a multi-motor request, and a
  single-motor request overlapping it, exist.
- One caller thread is what the IPC supervisor (`ipc_test.c`) uses. Every
  violation above is reached with one caller.
  - With two callers, two concurrent `stepper_step` calls on one motor also
    break `LinesHeldWhilePulsing`.
  - The spec (§7) makes serialising overlapping calls the caller's duty,
    so that case is not reported.
- `steps ∈ {0, 2}` covers the rejected 0, and a motion of more than one
  iteration, which a stop can cut short.
- Two or three motions and two request addresses let a freed request be
  allocated again, which the stale-pointer paths need.

### Fairness

- Every pulser and every caller inside a call has weak fairness:
  `WF_vars(PulserStep(m))` and `WF_vars(CallerStep(c))`. Threads are
  preemptively scheduled, so a thread that stays able to run eventually runs.
- Starting a new call (`CallerCall`) has no fairness: the application may
  stop calling.
- Deadlock checking is off in every run:
  - a behaviour ends at a crash, and after the last motion the model
    allows only wait/stop/direction calls;
  - hangs are checked by the liveness properties instead.

## `Axis.tla` — an axis over an abstract engine (Axis.c)

This module models one `Axis` driven by one client thread, which issues the
calls of `ipc_test.c`'s `decode_message`. The client's operations are:

- `AxisMove(d)` is `axis_move` up to its direction changes:
  - the `distance == 0` return;
  - the clearing of the `reset_dir` latch, followed by
    `axis_set_direction(POSITIVE)`;
  - `NegativeCheck`: set the latch and start `axis_set_direction(NEGATIVE)`.
- `SetDirectionStep` is one `stepper_set_direction_rel` call of
  `axis_set_direction`'s loop. It fails (and `axis_move` returns -1) on a busy
  motor, or, when `DirWriteMayFail`, on a failed `gpiod_line_set_value`
  (Stepper.c:422-425), and otherwise turns that motor.
- `MoveStep` covers `mm_to_steps` (truncating) and
  `stepper_step_multiple`, which refuses 0 steps and a busy `motors[0]`.
  Otherwise it links every motor to a new request and sets `req_available`.
- `AxisSetSpeed(v)` is `axis_set_speed` up to its loop. It refuses
  `mm_per_sec <= 0` and a speed that truncates to 0 steps/s, with no change.
  `SetSpeedStep` is one iteration of `stepper_set_speed_multiple`'s loop:
  - a busy motor ends the call with -1, and the motors before it keep their
    new `half_period`;
  - otherwise the motor gets `HalfPeriodOf(v)`, which is `500000 / pps` with
    pps limited to `MAX_PPS`;
  - after the last motor, `axis->speed` is set.
- `AxisGetPosition` is `axis_get_position`: it reads `motors[0]`'s step
  counter without a lock and stores `steps_to_mm` of it (`StepsToMm`) in
  `axis->position`.
- `AxisWait` and `AxisStop` are `stepper_wait` and `stepper_stop` on
  `motors[0]`. `AxisStop` sets `stop` to whether `motors[0]` is busy; its
  `stepper_wait` tests again (`StopWaitTest`). A wait that finds `motors[0]`
  busy registers under the lock (`WaitRegister`: `waiter` records the
  request's `motor_waiting`, and a request already unlinked ends the call),
  then `WaitReturn` lets it go once `motors[0]` is unlinked.

The engine is abstracted to what the axis observes:

- `current_req` (0 is NULL), the relative directions, the step counters,
  `req_available` and `stop` of `motors[0]`;
- the pulser of `motors[0]`:
  - `PulserStart` takes the request and snapshots
    `microsec_to_timespec(half_period)` as `pulser.dur`
    (`MicrosecToTimespec`, from `Time.tla`);
  - `PulserPulse` is one do-while iteration, `--req_steps && !stop`. One
    step is enough here: the only state the iteration reads that another
    thread writes is a motor's direction, and `DirectionFixedWhilePulsed`
    checks that no direction changes while the pulser runs (the split
    iteration and its NULL reads are in `StepperEngine`);
  - `PulserClear` reads `motor_waiting` and unlinks the motors one at a
    time, whatever request each link now names; then it clears `stop` only
    if a waiter had registered (lines 259-265).

The engine's own races are checked in `StepperEngine`. Three of them are
left out here: the lost wakeups of `req_cv` (626 against 219-220) and of
`wait_cv` (264 against 709-710), and the crash of a `stepper_wait` whose
unlocked test at 693 saw a mutex the pulser then cleared. Each only blocks a
thread for ever or ends the process. No Axis property is about a wait
returning, so the safety properties below are unaffected. `cmds` is a ghost: it records,
for each request, the sign and steps of the `axis_move` that created it,
and the axis speed at that time. `speed` and `half_period` start at 0 (the
memsets of `axis_init` and `stepper_init`).

`Time.tla` holds the unit constants of `Time.h`, `MicrosecToTimespec`
(translated with its `%` where `/` was meant: it is exact only below one
second), and the reference `IsTimespecOfMicros(t, us)`: `t` is the normalised
timespec of exactly `us` microseconds. Half periods never exceed 500000 µs,
because pps is at least 1, so the conversion is exact wherever the engine
uses it, and the property below checks this.

| Property | Kind | Statement |
|---|---|---|
| `TypeOK` | invariant | Types; every request asks for at least one step. |
| `MoveFollowsCommand` | action property | Every pulse moves each motor of the axis one step in the sign of the distance the request was made for. |
| `AxisMotorsInStep` | invariant | All motors of the axis have the same step count. |
| `DirectionFixedWhilePulsed` | action property | No motor of the axis changes direction while the pulser pulses. |
| `PulseWidthFollowsSpeed` | invariant | A running motion's pulse width is, as an exact timespec, the half period spec 4.C gives for the axis speed in force when `axis_move` created the request (`SpecHalfPeriod`: 500000 / min(pps, 4160)). |

| Run | Expect | Configuration | Shows |
|---|---|---|---|
| `axis_disciplined` | pass | 1 motor; the client waits or stops before every move and sets the speed and reads the position at any time | `TypeOK`, `PulseWidthFollowsSpeed`, `MoveFollowsCommand` hold (790k states). |
| `axis_free` | pass | 2 motors; moves, waits, stops and speed changes in any order; dir line writes may fail | `DirectionFixedWhilePulsed` holds (1.0M states). |
| `axis_latch` | violation | 1 motor; moves without waiting, as `cmd_move` does | `MoveFollowsCommand`: a `move(+4)` while busy clears the latch and fails, and the next `move(+4)` runs negative. |
| `axis_wait_first` | violation | 2 motors; waits before every move | `AxisMotorsInStep`: see below. |
| `speed_partial` | violation | 2 motors; waits before every move, sets the speed at any time | `PulseWidthFollowsSpeed`: see below. |

The `axis_wait_first` trace:

1. `axis_stop`'s wait (or `axis_wait`) returns once `motors[0]` is
   unlinked, while `motors[1]` is still linked.
2. The next `axis_move` clears the latch, turns `motors[0]` positive, and
   fails on `motors[1]`.
3. The following positive move drives the two motors in opposite directions.

The `speed_partial` trace (a spec/code divergence: spec 4.C says
`set_speed_multiple` fails with no side effects when a motor is busy):

1. `axis_move(4)` links both motors, and the pulser runs its two pulses.
2. The client calls `axis_set_speed(4)`. The teardown has unlinked
   `motors[0]` only, so the loop sets `motors[0]`'s half period to
   250000 µs and then returns -1 at the busy `motors[1]`. `axis->speed`
   stays 0.
3. After `axis_wait`, the next `axis_move` is pulsed at 250000 µs, the
   speed the failed call refused.

With one motor (`axis_disciplined`) a set-speed call is all or nothing, and
the property holds: a speed change cannot land between the request and the
pulser's snapshot, because the motor is busy throughout.

`axis_free` holds although the engine's stale clear is reachable in it.
`axis_set_direction` turns `motors[0]` first, and `motors[0]` is busy for
the whole motion, so the loop stops before it reaches a motor whose link the
old teardown removed.

Bounds and fairness for this module:

- Distances `{-4, 0, 1, 4}` with 1 microstep per 2 mm give:
  - a 0-distance return;
  - a truncation to 0 steps;
  - two-pulse motions in both directions.
- Three `axis_move` calls in the passing runs, four in the violation runs,
  are enough for every trace above.
- Speeds `{1, 4, 10000}` mm/s give a speed that truncates to 0 pps
  (refused), a plain one (2 pps, 250000 µs), and one above `MAX_PPS`
  (5000 pps, limited to 120 µs).
- `Spec` assumes weak fairness on the pulser and on the continuation of a
  call (`ClientStep`), and none on starting a call. No Axis run checks a
  liveness property, so the runs do not depend on it.

## `ConfigParser.tla` — the config reader (config.c)

`read_motor_config` runs `motor_config_state_machine`, then `init_motors`.
The machine has one routine per state. `ConfigParser` has one action per
routine, named after it:

- `ReadLine`, `ReadParam`, `ReadIdentifier`, `SetIdentifier`;
- `CheckParam`, `ReadValue`, `SetParam`, `ReadMotorList`;
- `Cleanup` and `Error`;
- `Finished`, the FINISHED state, after which `read_motor_config` calls
  `init_motors`.

Around the machine, `read_motor_config` has its own steps:

- `Open`, from the state OPEN: `fopen` fails and -1 is returned, or the
  lists are cleared and the machine starts in CLEANUP;
- `InitMotor`, the first loop of `init_motors`. Each entry is validated,
  then `stepper_init` makes its Stepper (`motor_obj`) or returns NULL;
- `InitAxis`, the second loop. Each entry is validated, and `axis_init` makes
  its Axis (`axis_obj`) or returns NULL. It checks for NULL Steppers
  (`MotorsMade`) and can fail on malloc.

The constant `InitMayFail` lets either call return NULL. The GPIO work
inside `stepper_init` is `MotorLifecycle`'s. The loops stop at the first
incomplete entry or NULL object (`InitStops`), and the ghost `init_fail`
records a NULL.

`state` is `motor_config_state`. DONE stands for the return of
`read_motor_config`, whose value is `result`.

**Lines as shapes.** A line is abstracted to the lexical shape that decides
every branch of the character loops:

- a skipped line;
- a line with an invalid character;
- a header `[id]`, which is `motor`, `axis` or other, closed by `]` or not.
  It is `exact` when the text is the identifier itself. `state_set_identifier`
  compares only the identifier's length (`strncmp(id_buff, "motor", 5)`), so
  `[motorx]` takes the same branch as `[motor]`.
- a `key=value` line. The value is a name, or a flag for whether its
  conversion (`str_to_int`, `int_to_gpio_pin`, `str_to_dir`,
  `is_valid_microstep`) succeeds. The line is ended properly, or by an
  invalid character. A last line without `\n` ends at its `\0`, which is an
  invalid character.
- a `motors=` list of names, where `""` is an empty name.

Keys carry the same `exact` flag: `state_check_param` compares each key
only up to the table length (`motor_params_len`), so `names=` is `name=`.
The parser ignores the flag, and the grammar (`Exact`) rejects a line
without it.

**Tables.**

- `motor_list` and `axis_list` are the arrays of `MaxEntries` entries.
- A motor entry keeps its name and the set of keys that were given.
- An axis entry keeps its name, whether `mm_per_rotation` was given, and its
  motors as `motor_list` indices.
- `motor_list_len` and `axis_list_len` are unbounded, as in the code.
- `oob` records any read or write outside an array.
- The recursive operator `SetMotors` is the setter loop of
  `state_read_motor_list`. It looks each name up with
  `get_motor_node_by_name` (`MotorNode`) and appends it, up to the first
  error.

**Reference reading.** The ghost variables `spec_*` read the same lines by
the grammar of spec 4.E:

- sections;
- keys per section;
- motor references to motors defined earlier in the file;
- at most 8 entries of each kind;
- the completeness rules of the validation.

`SpecAccepts` is that reading's verdict. The constant `WellFormed` restricts
files to lines the grammar allows in the current section (`Allowed`).

| Property | Kind | Statement |
|---|---|---|
| `ParseMatchesSpec` | invariant | At return, `read_motor_config` succeeds exactly when the grammar accepts the file and no `stepper_init` or `axis_init` returned NULL. The tables of an accepted file are its sections in order, each axis pointing at the motors its `motors=` names (spec §8.7, §8.8). Every motor name then leads `get_motor_by_name` to a Stepper, and every axis has its Axis (`ObjectsMade`). |
| `WritesInBounds` | invariant | No read or write outside `motor_list`, `axis_list` or an axis' `motors[]`. Not in a passing run: `Allowed` keeps well-formed files within the arrays, so only the files below break it. |
| `ParserTerminates` | liveness | `read_motor_config` returns. |
| `AxisLookupFindsAll` | invariant | After a successful read, `get_axis_by_name` finds every named axis. |

| Run | Expect | Configuration | Shows |
|---|---|---|---|
| `config_wellformed` | pass | Well-formed files of up to 9 lines, 2 entries of each kind, names `a` and `b`, one motor key besides `name`, `InitMayFail` | `TypeOK`, `ParseMatchesSpec`, `ParserTerminates` hold (about 481,000 states). If `init_motors` went on past a NULL `stepper_init`, TLC finds `ParseMatchesSpec` violated. |

Three violations found while modelling the parser are kept as hazards, not
as runs:

- `WritesInBounds` (with `config_wellformed`'s shapes and `WellFormed = FALSE`):
  in the file `[motor]`, `name=a`, `motors=a`, `state_check_param` takes
  `motors` before it looks at the section. `state_read_motor_list` then
  appends to `axis_list[-1]` (config.c:707).
- `ParseMatchesSpec` with prefixed words (the shapes of `config_wellformed`
  plus `names=a`, all else as in that run): the file `[motor]`, `names=a`,
  `step_pin=…` is accepted with a motor named `a`. Spec 4.E says unknown keys
  are errors (config.c:443; the headers at lines 372 and 380 behave the same).
- `AxisLookupFindsAll` (accepted files of up to 10 lines): with one motor
  followed by two axes, `get_axis_node_by_name` scans only `motor_list_len`
  entries of `axis_list`, so the second axis is not found (config.c:204).

On arbitrary files, `ParseMatchesSpec` fails for the same cause.
`[motor]`, `name=a`, `step_pin=…`, `motors=a` is accepted by
`read_motor_config` (the append goes outside `axis_list`), and the grammar
rejects it. When an `[axis]` precedes the `[motor]` section, the motors are
silently added to that axis.

**Bounds.**

- Two entries of each kind are enough to reach the end of each array. So is
  a `motors=a,b` list, with a repeated name as the overflow.
- Nine lines are the shortest well-formed file with two motors and an axis.
- One motor key stands for the five numeric and direction keys. All five go
  through the same convert-or-error branch of `state_set_param`.

**Fairness.** The reader is one sequential loop, so weak fairness of `Next`
is what the code gives. DONE is a real end: every run sets
`CHECK_DEADLOCK FALSE`.

## `MotorLifecycle.tla` — creating and destroying motors (Tasks.c, stepper_init/destroy)

This module models the life of `Stepper` objects and their pulser threads.
Motion is left to `StepperEngine`: a pulser here only locks `struct_mutex`
and blocks on `req_cv`, as it does on an idle motor.

| Variable | Code |
|---|---|
| `heap`, `motor` | the `Stepper` at each heap address `malloc` may return, with its name and dir pin |
| `handles` | the Steppers the application holds |
| `dir_line` | the motor that requested each direction line as output (libgpiod v1: a line object is shared, and a release frees it for everyone) |
| `task_list` | `Tasks.c`'s list of `task_info_t`: name, `thread_id` (0 until `thread_main` runs), arg; a ghost `worker` names the thread started on it |
| `thread` | each pthread's state: created, started, waiting, cancelled or exited; and its argument |
| `app` | the application inside `stepper_destroy` |
| `fault` | a pulser dereferenced a freed Stepper |

| Action | Code |
|---|---|
| `StepperInit(m, n, p)` | The whole `stepper_init` (Stepper.c:287-361). The dir line request fails while another motor holds the pin, and `GPIO_init_pin`'s error path then releases it (GPIO.c:128-130). The step-line failure (`Failures`) frees the motor and keeps the dir line. A `pthread_create` failure (`Failures`) also leaves the inserted `task_info_t` in the list with `thread_id` 0. Success inserts the entry and creates a thread. |
| `ThreadMain(t)` | `thread_main` writes `pthread_self()` into its entry (Tasks.c:140; `pthread_setname_np` changes no modelled state). Its call of the entry function is the next action. |
| `PulserWait(t)` | `motor_pulser` locks `struct_mutex` and waits on `req_cv`. |
| `PulserCancelled(t)` | The cancellation point `pthread_cond_wait` re-acquires `struct_mutex`, and the thread exits. |
| `DestroyKill(m)` | `stepper_stop` (a no-op on an idle motor), then `Task_kill(Task_get_id_by_name(name))`. `Task_kill(0)` returns. Otherwise the first node with that id is unlinked and `pthread_cancel` is asynchronous. |
| `DestroyRelease` | The rest of `stepper_destroy`: destroy the mutex and cond vars, release the lines, `free(motor)`. Nothing joins the pulser. |

`GPIOInitPin(p, m)` and `DirPinFree(p)` translate `GPIO_init_pin` for an
output line: the request succeeds only on a free line, and the error label
releases the shared line object. The chip opening in `gpio_init_controller`
is assumed to succeed. The step pin is requested with
`GPIO_DIRECTION_NONE`, which only looks the line up; its failure is one of
`Failures`.

Operators translate the list functions: `ListInsertTask`, `ListDeleteTask`
(first node with the id), `TaskGetIdByName` (first node with the name) and
`TaskInfo`. They use `SelectInSeq` and `RemoveAt` from `SequencesExt`.

| Property | Kind | Statement |
|---|---|---|
| `TypeOK` | invariant | Types. |
| `NoUseAfterFree` | invariant | No pulser dereferences a freed Stepper. |
| `DirLinesMatchMotors` | invariant | The dir lines requested are exactly those of the live Steppers. |

| Run | Expect | Configuration | Shows |
|---|---|---|---|
| `lifecycle_unique` | pass | 2 heap addresses, 2 names, 2 dir pins, 3 thread ids; 2 inits with distinct names, destroys; step-line and `pthread_create` failures | `TypeOK` holds (18k states). Dir-pin collisions, failures, address reuse and every order of thread start-up are covered. |
| `destroy_unjoined` | violation | The same with no failures | `NoUseAfterFree` fails. Init, destroy before the pulser ran `thread_main` (so `Task_kill(0)` does nothing), free; then the pulser locks `struct_mutex` in freed memory. Destroying after registration fails too: the cancel is not joined. |

Found while modelling, kept as hazards (no run slot):

- `DirLinesMatchMotors` fails in two steps. A second `stepper_init` with the
  dir pin of a live motor fails, and its error path releases the live
  motor's line. `config.c` does not reject repeated pins.
- `DirLinesMatchMotors` also fails in one step with `Failures = {step_pin}`.
  `stepper_init`'s failure path never releases the dir line.
- With repeated names (`UniqueNames = FALSE`), `Task_get_id_by_name`
  returns the first node with the name, so destroying the second motor
  cancels the first one's pulser. No run keeps that state space.

**Bounds.**

- Two addresses let a destroyed Stepper's address be handed out again.
- Three thread ids cover two live pulsers plus one more: pthread ids of
  threads never joined are not reused.
- Two inits with two pins reach a collision.

**Fairness.** None: only safety is checked. The runs stop when `MaxInits` is
used up, so `CHECK_DEADLOCK FALSE`.

`spec.md` says the task list is modified from several threads without a
lock. That race is not reachable. Only `thread_main`, after its entry
function returns, and `Task_kill` delete nodes, and `motor_pulser` never
returns. The list is therefore modified only by the application thread; the
threads write only their own node's `thread_id`.

## Mutants

Every property of a passing run is broken by a plausible code mutation. The
mutation is defined just before the definition it replaces (see `mutants` in
`PROJECT.json`):

- `StepMultipleNoZeroCheck`: the `steps == 0` check dropped;
- `PulserTestPostDec`: `req_steps--` instead of `--req_steps`;
- `PulserCountNoStop`: the counting loop without `stop |= node->stop`,
  which breaks `MotionRefinement` in `engine_stop`;
- `CreateRequestSkipFirst`: the bulk-add loop starts at 1;
- `SetDirectionNoBusyCheck`: the busy check dropped;
- `WaitRegisterNoUnlock`: the unlock at line 702 dropped;
- `MoveStepNoZeroCheck` (Axis): `stepper_step_multiple` without the
  `steps == 0` check;
- `NegativeCheckNoLatch` (Axis): `reset_dir = 1` missing for a negative move;
- `SetDirectionStepNoBusyCheck` (Axis): `stepper_set_direction_abs` without
  its busy check;
- `ErrorNoResult` (ConfigParser): the ERROR state stops without making
  `read_motor_config` return an error;
- `SetParamUnchecked` (ConfigParser): a value whose conversion fails is
  stored anyway;
- `ReadParamBlankLoop` (ConfigParser): a blank does not advance the scan, and
  READ_PARAM never leaves it;
- `SetDirectionNoBusyCheck` also breaks `MotionRefinement` (`SetDir` needs
  a free motor);
- `TaskInfoNoArg` (MotorLifecycle): `CreateTask` without `info->arg = arg`,
  leaving NULL after the memset;
- `SetSpeedStepNoBusyCheck` (Axis): `stepper_set_speed_multiple` without
  its `stepper_is_busy` check, which breaks `PulseWidthFollowsSpeed`.

## Not modelled yet, and the plan

These are listed in order of importance:

1. Config parser: a second call of `read_motor_config` (see its hazard).
2. A composition of `MotorLifecycle` with `StepperEngine`, so that
   `stepper_destroy` can run during a motion.

Not modelled, with the reason:

- The IPC double buffer (`pos_buffer_push/pop`): nothing in the repository
  calls it, and spec.md excludes the IPC layer, so no caller fixes which
  threads push and pop.
- The other time helpers (`add_time`, `sub_time`, `mul_time`, `div_time`,
  `time_to_double`, `Delay_*`): only the test programs call them.
  Reading them shows two bugs that `Time_test.c` already exposes:
  - `add_time` normalises only when `ns > NANO_IN_SECOND`, so
    0.999999999 + 0.000000001 gives `{0, 1000000000}` where the test
    expects `{1, 0}`;
  - `mul_time` subtracts `ns % NANO_IN_SECOND` where it should keep it, so
    `98765.987656789 * 1234` has a nanosecond field of 1218000000000.

Not modelled at all:

- GPIO I/O, the socket listener and the test harnesses, which are pure I/O;
- `debug.h`, which holds no state;
- `list_find_task` and `print_list`, which have no caller.
