--------------------------- MODULE StepperEngine ---------------------------
(***************************************************************************)
(* The stepper engine of src/core/src/Stepper.c: one pulser thread per     *)
(* motor (motor_pulser) and a set of caller threads issuing the public     *)
(* API (stepper_step_multiple, stepper_wait, stepper_stop,                 *)
(* stepper_set_direction_abs/rel).  A request (struct stepper_req) and the heap  *)
(* mutex that guards it are shared by the motors of one motion; the        *)
(* request is served by the pulser of its first motor only.                *)
(*                                                                         *)
(* Each action is one step of one thread between two points where another  *)
(* thread can observe or change the shared state.  Lock-free reads of      *)
(* current_req / shared_mutex (stepper_is_busy) and the signals sent       *)
(* without holding struct_mutex are separate steps, as in the code.        *)
(* A dereference of a NULL or freed pointer ends the process: `fault`      *)
(* records it and no thread takes a step afterwards.                       *)
(***************************************************************************)
EXTENDS Integers, Sequences, SequencesExt, FiniteSets

CONSTANTS
    Motors,       \* the Stepper objects (each with its pulser thread)
    Callers,      \* threads calling the public API
    Reqs,         \* heap addresses a Stepper_req (and its mutex) may get
    MotorLists,   \* motor arrays callers pass to stepper_step_multiple
    StepCounts,   \* values of the `steps` argument (0 included)
    Ops,          \* public operations the callers use
    MaxMotions,   \* bound: requests created over a behaviour
    UIntBits,     \* width of unsigned int (32 in the build; TLC needs it small)
    NoReq,        \* NULL current_req / shared_mutex
    NoMotor,      \* NULL motor_waiting
    NoThread      \* an unlocked mutex

ASSUME Motors \cap Callers = {}
ASSUME MotorLists \subseteq Seq(Motors) /\ \A l \in MotorLists : l # <<>>
ASSUME StepCounts \subseteq Nat /\ MaxMotions \in Nat /\ UIntBits \in 1..30
ASSUME Ops \subseteq {"step", "wait", "stop", "direction"}

Threads == Motors \cup Callers
Dirs == {"positive", "negative"}         \* curr_direction relative to pos_direction

\* req_steps is an unsigned int: --req_steps wraps at 0 to UINT_MAX.
UINT_MAX == 2^UIntBits - 1
Dec32(x) == IF x = 0 THEN UINT_MAX ELSE x - 1

VARIABLES
    current_req,    \* [Motors -> Reqs \cup {NoReq}]: current_req and shared_mutex
    req_available,  \* [Motors -> BOOLEAN]
    stop,           \* [Motors -> BOOLEAN]
    steps,          \* [Motors -> Int]: the accumulator
    curr_direction, \* [Motors -> Dirs]
    struct_mutex,   \* [Motors -> Threads \cup {NoThread}]: holder
    req_cv,         \* [Motors -> BOOLEAN]: the pulser sleeps on req_cv
    wait_cv,        \* [Motors -> SUBSET Callers]: callers asleep on wait_cv
    request,        \* [Reqs -> record]: the Stepper_req objects
    shared_mutex,   \* [Reqs -> [alive, holder]]: the heap mutex of a request
    step_line,      \* [Motors -> Reqs \cup {NoReq}]: request whose bulk holds the step line
    pulser_pc,      \* [Motors -> label of motor_pulser]
    pulser,         \* [Motors -> locals of motor_pulser]
    caller_pc,      \* [Callers -> label]
    caller,         \* [Callers -> locals of the API call in progress]
    fault,          \* "none" or the invalid access that crashed the process
    motions         \* requests created so far (bounded by MaxMotions)

vars == <<current_req, req_available, stop, steps, curr_direction, struct_mutex,
          req_cv, wait_cv, request, shared_mutex, step_line, pulser_pc, pulser,
          caller_pc, caller, fault, motions>>

NoRequest == [alive |-> FALSE, motors |-> <<>>, waiting |-> NoMotor,
              req_steps |-> 0, asked |-> 0, pulsed |-> 0, stop_asked |-> FALSE, stop_at |-> 0]

\* Locals of motor_pulser and of an API call; they die at the end of a loop
\* iteration or of the call.
NoLocals == [shr |-> NoReq, req |-> NoReq, waiting |-> NoMotor, idx |-> 0, n |-> 0,
             halt |-> FALSE]
NoCall == [m |-> NoMotor, list |-> <<>>, n |-> 0, shr |-> NoReq, dir |-> "positive"]

\* stepper_is_busy (Stepper.c:60-66)
IsBusy(m) == current_req[m] # NoReq

Participants(r) == ToSet(request[r].motors)

Running == fault = "none"

(***************************************************************************)
(* Initial state: every Stepper after stepper_init (memset to 0, direction *)
(* set to pos_direction) with its pulser thread just created.              *)
(***************************************************************************)
Init ==
    /\ current_req = [m \in Motors |-> NoReq]
    /\ req_available = [m \in Motors |-> FALSE]
    /\ stop = [m \in Motors |-> FALSE]
    /\ steps = [m \in Motors |-> 0]
    /\ curr_direction = [m \in Motors |-> "positive"]
    /\ struct_mutex = [m \in Motors |-> NoThread]
    /\ req_cv = [m \in Motors |-> FALSE]
    /\ wait_cv = [m \in Motors |-> {}]
    /\ request = [r \in Reqs |-> NoRequest]
    /\ shared_mutex = [r \in Reqs |-> [alive |-> FALSE, holder |-> NoThread]]
    /\ step_line = [m \in Motors |-> NoReq]
    /\ pulser_pc = [m \in Motors |-> "lock"]
    /\ pulser = [m \in Motors |-> NoLocals]
    /\ caller_pc = [c \in Callers |-> "idle"]
    /\ caller = [c \in Callers |-> NoCall]
    /\ fault = "none"
    /\ motions = 0


(***************************************************************************)
(* The pulser thread of motor m (motor_pulser, Stepper.c:212-269).         *)
(***************************************************************************)

\* Stepper.c:218 and, after a wake-up, the re-acquisition inside
\* pthread_cond_wait (line 220).
PulserLock(m) ==
    /\ pulser_pc[m] = "lock"
    /\ struct_mutex[m] = NoThread
    /\ struct_mutex' = [struct_mutex EXCEPT ![m] = m]
    /\ pulser_pc' = [pulser_pc EXCEPT ![m] = "check"]
    /\ UNCHANGED <<current_req, req_available, stop, steps, curr_direction, req_cv,
                   wait_cv, request, shared_mutex, step_line, pulser, caller_pc, caller,
                   fault, motions>>

\* Stepper.c:219-222: a pending request is taken and the mutex released;
\* otherwise the thread goes on to pthread_cond_wait.
PulserCheck(m) ==
    /\ pulser_pc[m] = "check"
    /\ \/ /\ req_available[m]
          /\ req_available' = [req_available EXCEPT ![m] = FALSE]
          /\ struct_mutex' = [struct_mutex EXCEPT ![m] = NoThread]
          /\ pulser_pc' = [pulser_pc EXCEPT ![m] = "start"]
       \/ /\ ~req_available[m]
          /\ pulser_pc' = [pulser_pc EXCEPT ![m] = "cv_wait"]
          /\ UNCHANGED <<req_available, struct_mutex>>
    /\ UNCHANGED <<current_req, stop, steps, curr_direction, req_cv, wait_cv, request,
                   shared_mutex, step_line, pulser, caller_pc, caller, fault, motions>>

\* Stepper.c:220: pthread_cond_wait releases struct_mutex and sleeps on req_cv
\* in one step.  A signal sent before this step finds nobody asleep.
PulserCondWait(m) ==
    /\ pulser_pc[m] = "cv_wait"
    /\ struct_mutex' = [struct_mutex EXCEPT ![m] = NoThread]
    /\ req_cv' = [req_cv EXCEPT ![m] = TRUE]
    /\ pulser_pc' = [pulser_pc EXCEPT ![m] = "asleep"]
    /\ UNCHANGED <<current_req, req_available, stop, steps, curr_direction, wait_cv,
                   request, shared_mutex, step_line, pulser, caller_pc, caller, fault,
                   motions>>

\* Stepper.c:225-229: after the unlock, microsec_to_timespec(half_period)
\* (timing is Axis' concern) and num_motors = motor->current_req->count,
\* read once for the whole motion; the local stop starts at 0.
PulserStart(m) ==
    /\ pulser_pc[m] = "start"
    /\ LET r == current_req[m] IN
       \/ /\ r = NoReq
          /\ fault' = "null_request"
          /\ UNCHANGED <<pulser, pulser_pc>>
       \/ /\ r # NoReq
          /\ pulser' = [pulser EXCEPT ![m].n = Len(request[r].motors), ![m].halt = FALSE]
          /\ pulser_pc' = [pulser_pc EXCEPT ![m] = "write"]
          /\ UNCHANGED fault
    /\ UNCHANGED <<current_req, req_available, stop, steps, curr_direction, struct_mutex,
                   req_cv, wait_cv, request, shared_mutex, step_line, caller_pc, caller,
                   motions>>

\* Stepper.c:233-236: GPIO_write_bulk(motor->current_req->pin_bulk, high),
\* sleep, the same with low, sleep: one pulse on the bulk of the request
\* motor->current_req points to now.  The pointer is read at 233 and again
\* at 235; a NULL at either read crashes the process, here at this step or
\* at the next read of the loop.
PulserWrite(m) ==
    /\ pulser_pc[m] = "write"
    /\ LET r == current_req[m] IN
       \/ /\ r = NoReq
          /\ fault' = "null_request"
          /\ UNCHANGED <<request, pulser, pulser_pc>>
       \/ /\ r # NoReq
          /\ request' = [request EXCEPT ![r].pulsed = @ + 1]
          /\ pulser' = [pulser EXCEPT ![m].idx = 1]
          /\ pulser_pc' = [pulser_pc EXCEPT ![m] = "count"]
          /\ UNCHANGED fault
    /\ UNCHANGED <<current_req, req_available, stop, steps, curr_direction, struct_mutex,
                   req_cv, wait_cv, shared_mutex, step_line, caller_pc, caller, motions>>

\* Counting i of the motor node = motor->current_req->motor_list[i]; the
\* stop flag is folded in only when foldStop holds.
CountCore(m, foldStop) ==
    /\ pulser_pc[m] = "count"
    /\ LET r == current_req[m]
           i == pulser[m].idx
       IN \/ /\ r = NoReq
             /\ fault' = "null_request"
             /\ UNCHANGED <<steps, pulser, pulser_pc>>
          \* a request linked meanwhile may have fewer motors: the read past
          \* its motor_list yields a wild Stepper pointer
          \/ /\ r # NoReq /\ i > Len(request[r].motors)
             /\ fault' = "wild_motor"
             /\ UNCHANGED <<steps, pulser, pulser_pc>>
          \/ /\ r # NoReq /\ i <= Len(request[r].motors)
             /\ LET p == request[r].motors[i] IN
                /\ steps' = [steps EXCEPT ![p] =
                               @ + (IF curr_direction[p] = "positive" THEN 1 ELSE -1)]
                /\ pulser' = [pulser EXCEPT ![m].idx = i + 1,
                                            ![m].halt = @ \/ (foldStop /\ stop[p])]
             /\ pulser_pc' = [pulser_pc EXCEPT ![m] = IF i < pulser[m].n THEN "count" ELSE "test"]
             /\ UNCHANGED fault
    /\ UNCHANGED <<current_req, req_available, stop, curr_direction, struct_mutex, req_cv,
                   wait_cv, request, shared_mutex, step_line, caller_pc, caller, motions>>

\* Mutation: `stop |= node->stop` is missing from the counting loop.
PulserCountNoStop(m) == CountCore(m, FALSE)

\* Stepper.c:238-246, one iteration of the for loop over i < num_motors:
\* motor->current_req is read again for every motor.
PulserCount(m) == CountCore(m, TRUE)

\* The test of the do-while, with `--` or (mutation) a post-decrement.
TestCore(m, preDec) ==
    /\ pulser_pc[m] = "test"
    /\ LET r == current_req[m] IN
       \/ /\ r = NoReq
          /\ fault' = "null_request"
          /\ UNCHANGED <<request, pulser_pc>>
       \/ /\ r # NoReq
          /\ LET left == Dec32(request[r].req_steps)
                 more == IF preDec THEN left # 0 ELSE request[r].req_steps # 0
             IN /\ request' = [request EXCEPT ![r].req_steps = left]
                /\ pulser_pc' = [pulser_pc EXCEPT ![m] =
                                   IF more /\ ~pulser[m].halt THEN "write" ELSE "td_lock"]
          /\ UNCHANGED fault
    /\ UNCHANGED <<current_req, req_available, stop, steps, curr_direction, struct_mutex,
                   req_cv, wait_cv, shared_mutex, step_line, pulser, caller_pc, caller,
                   motions>>

\* Mutation: the loop test uses req_steps-- instead of --req_steps.
PulserTestPostDec(m) == TestCore(m, FALSE)

\* Stepper.c:248: while(--motor->current_req->req_steps && !stop), through
\* the pointer as it is now; req_steps is unsigned and wraps at 0.
PulserTest(m) == TestCore(m, TRUE)

\* Stepper.c:251: shr_mutex = motor->shared_mutex, read before the lock.
PulserTeardownLock(m) ==
    /\ pulser_pc[m] = "td_lock"
    /\ pulser' = [pulser EXCEPT ![m].shr = current_req[m]]
    /\ pulser_pc' = [pulser_pc EXCEPT ![m] = "td_acquire"]
    /\ UNCHANGED <<current_req, req_available, stop, steps, curr_direction, struct_mutex,
                   req_cv, wait_cv, request, shared_mutex, step_line, caller_pc, caller,
                   fault, motions>>

\* Stepper.c:254: pthread_mutex_lock(shr_mutex) on the pointer read above,
\* which may be NULL or may have been freed by another thread meanwhile.
PulserTeardownAcquire(m) ==
    /\ pulser_pc[m] = "td_acquire"
    /\ LET r == pulser[m].shr IN
       \/ /\ r = NoReq
          /\ fault' = "null_mutex"
          /\ UNCHANGED <<shared_mutex, pulser_pc>>
       \/ /\ r # NoReq
          /\ ~shared_mutex[r].alive
          /\ fault' = "freed_mutex"
          /\ UNCHANGED <<shared_mutex, pulser_pc>>
       \/ /\ r # NoReq
          /\ shared_mutex[r].alive
          /\ shared_mutex[r].holder = NoThread
          /\ shared_mutex' = [shared_mutex EXCEPT ![r].holder = m]
          /\ pulser_pc' = [pulser_pc EXCEPT ![m] = "td_destroy"]
          /\ UNCHANGED fault
    /\ UNCHANGED <<current_req, req_available, stop, steps, curr_direction, struct_mutex,
                   req_cv, wait_cv, request, step_line, pulser, caller_pc, caller, motions>>

\* Stepper.c:255-256 with stepper_destroy_request lines 170-171: read
\* motor_waiting, then release the request's line bulk.
PulserTeardownDestroy(m) ==
    /\ pulser_pc[m] = "td_destroy"
    /\ LET r == current_req[m] IN
       \/ /\ r = NoReq
          /\ fault' = "null_request"
          /\ UNCHANGED <<step_line, pulser, pulser_pc>>
       \/ /\ r # NoReq
          /\ pulser' = [pulser EXCEPT ![m].req = r, ![m].waiting = request[r].waiting,
                                      ![m].idx = 1]
          /\ step_line' = [p \in Motors |->
                             IF p \in Participants(r) THEN NoReq ELSE step_line[p]]
          /\ pulser_pc' = [pulser_pc EXCEPT ![m] = "td_clear"]
          /\ UNCHANGED fault
    /\ UNCHANGED <<current_req, req_available, stop, steps, curr_direction, struct_mutex,
                   req_cv, wait_cv, request, shared_mutex, caller_pc, caller, motions>>

\* Stepper.c:174-180: one iteration of the loop over request->motor_list,
\* whose bound request->count is read each time, then free(request).  The
\* request may have been freed by another pulser meanwhile (a use after
\* free), or freed and allocated again for a new motion: the loop then reads
\* the new request's list and frees it.
PulserTeardownClear(m) ==
    /\ pulser_pc[m] = "td_clear"
    /\ LET r == pulser[m].req
           i == pulser[m].idx
       IN \/ /\ ~request[r].alive
             /\ fault' = "freed_request"
             /\ UNCHANGED <<current_req, request, pulser, pulser_pc>>
          \/ /\ request[r].alive
             /\ i <= Len(request[r].motors)
             /\ current_req' = [current_req EXCEPT ![request[r].motors[i]] = NoReq]
             /\ pulser' = [pulser EXCEPT ![m].idx = i + 1]
             /\ UNCHANGED <<request, pulser_pc, fault>>
          \/ /\ request[r].alive
             /\ i > Len(request[r].motors)
             /\ request' = [request EXCEPT ![r] = NoRequest]
             /\ pulser_pc' = [pulser_pc EXCEPT ![m] = "td_unlock"]
             /\ UNCHANGED <<current_req, pulser, fault>>
    /\ UNCHANGED <<req_available, stop, steps, curr_direction, struct_mutex, req_cv,
                   wait_cv, shared_mutex, step_line, caller_pc, caller, motions>>

\* Stepper.c:257: pthread_mutex_unlock(shr_mutex).  If another pulser freed
\* the mutex meanwhile this writes freed memory; the model lets it proceed,
\* one outcome the build can produce (the teardown of that other pulser has
\* already been reported as an invalid access by then).
PulserTeardownUnlock(m) ==
    /\ pulser_pc[m] = "td_unlock"
    /\ shared_mutex' = [shared_mutex EXCEPT ![pulser[m].shr].holder = NoThread]
    /\ pulser_pc' = [pulser_pc EXCEPT ![m] =
                       IF pulser[m].waiting # NoMotor THEN "td_signal" ELSE "td_free"]
    /\ UNCHANGED <<current_req, req_available, stop, steps, curr_direction, struct_mutex,
                   req_cv, wait_cv, request, step_line, pulser, caller_pc, caller, fault,
                   motions>>

\* Stepper.c:259-265: clear the waiting motor's stop flag and signal its
\* wait_cv without holding its struct_mutex; one sleeper (if any) wakes.
PulserSignalWaiter(m) ==
    /\ pulser_pc[m] = "td_signal"
    /\ LET w == pulser[m].waiting IN
       /\ stop' = [stop EXCEPT ![w] = FALSE]
       /\ \/ /\ wait_cv[w] = {}
             /\ UNCHANGED <<wait_cv, caller_pc>>
          \/ \E c \in wait_cv[w] :
                /\ wait_cv' = [wait_cv EXCEPT ![w] = @ \ {c}]
                /\ caller_pc' = [caller_pc EXCEPT ![c] = "w_slock"]
    /\ pulser_pc' = [pulser_pc EXCEPT ![m] = "td_free"]
    /\ UNCHANGED <<current_req, req_available, steps, curr_direction, struct_mutex, req_cv,
                   request, shared_mutex, step_line, pulser, caller, fault, motions>>

\* Stepper.c:267: free(shr_mutex), then back to the top of the loop.
PulserFreeMutex(m) ==
    /\ pulser_pc[m] = "td_free"
    /\ shared_mutex' = [shared_mutex EXCEPT ![pulser[m].shr] =
                          [alive |-> FALSE, holder |-> NoThread]]
    /\ pulser_pc' = [pulser_pc EXCEPT ![m] = "lock"]
    /\ pulser' = [pulser EXCEPT ![m] = NoLocals]
    /\ UNCHANGED <<current_req, req_available, stop, steps, curr_direction, struct_mutex,
                   req_cv, wait_cv, request, step_line, caller_pc, caller, fault, motions>>

PulserStep(m) ==
    /\ Running
    /\ \/ PulserLock(m)
       \/ PulserCheck(m)
       \/ PulserCondWait(m)
       \/ PulserStart(m)
       \/ PulserWrite(m)
       \/ PulserCount(m)
       \/ PulserTest(m)
       \/ PulserTeardownLock(m)
       \/ PulserTeardownAcquire(m)
       \/ PulserTeardownDestroy(m)
       \/ PulserTeardownClear(m)
       \/ PulserTeardownUnlock(m)
       \/ PulserSignalWaiter(m)
       \/ PulserFreeMutex(m)

(***************************************************************************)
(* Caller threads.  An operation starts from "idle"; its later steps are   *)
(* the continuation of the same call.  Return values are not recorded: no  *)
(* property depends on them.                                               *)
(***************************************************************************)

CUnchanged == <<current_req, req_available, stop, steps, curr_direction, struct_mutex,
                req_cv, wait_cv, request, shared_mutex, step_line, pulser_pc, pulser,
                fault, motions>>

Return(c) ==
    /\ caller_pc' = [caller_pc EXCEPT ![c] = "idle"]
    /\ caller' = [caller EXCEPT ![c] = NoCall]

\* Mutation: the steps == 0 check of line 603 is missing.
StepMultipleNoZeroCheck(c, l, n) ==
    /\ caller_pc[c] = "idle"
    /\ "step" \in Ops
    /\ motions < MaxMotions
    /\ \/ /\ IsBusy(l[1])
          /\ Return(c)
       \/ /\ ~IsBusy(l[1])
          /\ caller_pc' = [caller_pc EXCEPT ![c] = "st_create"]
          /\ caller' = [caller EXCEPT ![c].list = l, ![c].n = n]
    /\ UNCHANGED CUnchanged

\* stepper_step_multiple, Stepper.c:595-615: argument checks and the busy
\* check of the first motor only.
StepMultiple(c, l, n) ==
    /\ caller_pc[c] = "idle"
    /\ "step" \in Ops
    /\ motions < MaxMotions
    /\ \/ /\ n = 0
          /\ Return(c)
       \/ /\ n # 0
          /\ IsBusy(l[1])
          /\ Return(c)
       \/ /\ n # 0
          /\ ~IsBusy(l[1])
          /\ caller_pc' = [caller_pc EXCEPT ![c] = "st_create"]
          /\ caller' = [caller EXCEPT ![c].list = l, ![c].n = n]
    /\ UNCHANGED CUnchanged

\* Mutation: the gpiod_line_bulk_add loop starts at index 1, so the first
\* motor's step line is not part of the requested bulk.
CreateRequestSkipFirst(c) ==
    /\ caller_pc[c] = "st_create"
    /\ LET l == caller[c].list
           held == ToSet(Tail(l))
       IN \E r \in Reqs :
            /\ ~request[r].alive /\ ~shared_mutex[r].alive
            /\ \A p \in held : step_line[p] = NoReq
            /\ step_line' = [p \in Motors |-> IF p \in held THEN r ELSE step_line[p]]
            /\ current_req' = [p \in Motors |-> IF p \in ToSet(l) THEN r ELSE current_req[p]]
            /\ request' = [request EXCEPT ![r] =
                             [alive |-> TRUE, motors |-> l, waiting |-> NoMotor,
                              req_steps |-> caller[c].n, asked |-> caller[c].n,
                              pulsed |-> 0, stop_asked |-> FALSE, stop_at |-> 0]]
            /\ shared_mutex' = [shared_mutex EXCEPT ![r] = [alive |-> TRUE, holder |-> NoThread]]
            /\ motions' = motions + 1
            /\ caller_pc' = [caller_pc EXCEPT ![c] = "st_signal"]
            /\ UNCHANGED caller
    /\ UNCHANGED <<req_available, stop, steps, curr_direction, struct_mutex, req_cv, wait_cv,
                   pulser_pc, pulser, fault>>

\* stepper_create_new_request (Stepper.c:81-157) and the signal of the first
\* motor (lines 617-628).  The bulk request fails when a step line is
\* already requested; the failure path then calls gpiod_line_release_bulk on
\* every line of the bulk, which frees the line even where another request
\* holds it (a libgpiod line object is shared by all its users).
CreateRequest(c) ==
    /\ caller_pc[c] = "st_create"
    /\ \/ LET l == caller[c].list
          IN \E r \in Reqs :
               /\ ~request[r].alive /\ ~shared_mutex[r].alive      \* free addresses
               /\ \/ /\ \A p \in ToSet(l) : step_line[p] = NoReq
                     /\ step_line' = [p \in Motors |-> IF p \in ToSet(l) THEN r ELSE step_line[p]]
                     /\ current_req' = [p \in Motors |-> IF p \in ToSet(l) THEN r ELSE current_req[p]]
                     /\ request' = [request EXCEPT ![r] =
                                      [alive |-> TRUE, motors |-> l, waiting |-> NoMotor,
                                       req_steps |-> caller[c].n, asked |-> caller[c].n,
                                       pulsed |-> 0, stop_asked |-> FALSE, stop_at |-> 0]]
                     /\ shared_mutex' = [shared_mutex EXCEPT ![r] = [alive |-> TRUE, holder |-> NoThread]]
                     /\ motions' = motions + 1
                     /\ caller_pc' = [caller_pc EXCEPT ![c] = "st_signal"]
                     /\ UNCHANGED caller
                  \/ /\ \E p \in ToSet(l) : step_line[p] # NoReq
                     /\ step_line' = [p \in Motors |-> IF p \in ToSet(l) THEN NoReq ELSE step_line[p]]
                     /\ Return(c)
                     /\ UNCHANGED <<current_req, request, shared_mutex, motions>>
       \* malloc or pthread_mutex_init fails: the bulk, if it was requested, is
       \* released again and nothing else changes
       \/ /\ Return(c)
          /\ UNCHANGED <<current_req, request, shared_mutex, step_line, motions>>
    /\ UNCHANGED <<req_available, stop, steps, curr_direction, struct_mutex, req_cv, wait_cv,
                   pulser_pc, pulser, fault>>

\* Stepper.c:625-626: req_available = 1 and pthread_cond_signal(req_cv), both
\* without struct_mutex.  The signal wakes the pulser only if it is asleep.
StepSignal(c) ==
    /\ caller_pc[c] = "st_signal"
    /\ LET f == caller[c].list[1] IN
       /\ req_available' = [req_available EXCEPT ![f] = TRUE]
       /\ IF req_cv[f]
          THEN /\ req_cv' = [req_cv EXCEPT ![f] = FALSE]
               /\ pulser_pc' = [pulser_pc EXCEPT ![f] = "lock"]
          ELSE UNCHANGED <<req_cv, pulser_pc>>
    /\ Return(c)
    /\ UNCHANGED <<current_req, stop, steps, curr_direction, struct_mutex, wait_cv, request,
                   shared_mutex, step_line, pulser, fault, motions>>

\* stepper_wait, Stepper.c:690-693: shared_mutex is read without a lock.
BeginWait(c, m) ==
    \/ /\ ~IsBusy(m)
       /\ Return(c)
    \/ /\ IsBusy(m)
       /\ caller_pc' = [caller_pc EXCEPT ![c] = "w_lock"]
       /\ caller' = [caller EXCEPT ![c].m = m, ![c].shr = current_req[m]]

Wait(c, m) ==
    /\ caller_pc[c] = "idle"
    /\ "wait" \in Ops
    /\ BeginWait(c, m)
    /\ UNCHANGED CUnchanged

\* stepper_stop, Stepper.c:670: motor->stop = stepper_is_busy(motor).  The
\* ghost fields stop_asked and stop_at record that a stop was asked during
\* the motion, and how many pulses it had emitted when the first one was.
Stop(c, m) ==
    /\ caller_pc[c] = "idle"
    /\ "stop" \in Ops
    /\ stop' = [stop EXCEPT ![m] = IsBusy(m)]
    /\ request' = IF IsBusy(m)
                  THEN [request EXCEPT ![current_req[m]].stop_asked = TRUE,
                                       ![current_req[m]].stop_at =
                                           IF request[current_req[m]].stop_asked THEN @
                                           ELSE request[current_req[m]].pulsed]
                  ELSE request
    /\ caller_pc' = [caller_pc EXCEPT ![c] = "s_check"]
    /\ caller' = [caller EXCEPT ![c].m = m]
    /\ UNCHANGED <<current_req, req_available, steps, curr_direction, struct_mutex, req_cv,
                   wait_cv, shared_mutex, step_line, pulser_pc, pulser, fault, motions>>

\* Stepper.c:673-674: the flag is read again; wait only if it is set.
StopCheck(c) ==
    /\ caller_pc[c] = "s_check"
    /\ \/ /\ stop[caller[c].m]
          /\ BeginWait(c, caller[c].m)
       \/ /\ ~stop[caller[c].m]
          /\ Return(c)
    /\ UNCHANGED CUnchanged

\* Stepper.c:695: pthread_mutex_lock(motor->shared_mutex).  The pointer is
\* read again under a data race, so the build may lock the value read at
\* line 693 or the current one; NULL or a freed mutex crashes the process.
WaitLock(c) ==
    /\ caller_pc[c] = "w_lock"
    /\ \E r \in {caller[c].shr, current_req[caller[c].m]} :
          \/ /\ r = NoReq
             /\ fault' = "null_mutex"
             /\ UNCHANGED <<shared_mutex, caller_pc, caller>>
          \/ /\ r # NoReq
             /\ ~shared_mutex[r].alive
             /\ fault' = "freed_mutex"
             /\ UNCHANGED <<shared_mutex, caller_pc, caller>>
          \/ /\ r # NoReq
             /\ shared_mutex[r].alive
             /\ shared_mutex[r].holder = NoThread
             /\ shared_mutex' = [shared_mutex EXCEPT ![r].holder = c]
             /\ caller_pc' = [caller_pc EXCEPT ![c] = "w_register"]
             /\ caller' = [caller EXCEPT ![c].shr = r]
             /\ UNCHANGED fault
    /\ UNCHANGED <<current_req, req_available, stop, steps, curr_direction, struct_mutex,
                   req_cv, wait_cv, request, step_line, pulser_pc, pulser, motions>>

\* Mutation: the pthread_mutex_unlock of line 702 is missing.
WaitRegisterNoUnlock(c) ==
    /\ caller_pc[c] = "w_register"
    /\ LET r == current_req[caller[c].m]
       IN \/ /\ r = NoReq
             /\ fault' = "null_request"
             /\ UNCHANGED <<request, caller_pc>>
          \/ /\ r # NoReq
             /\ request' = [request EXCEPT ![r].waiting = caller[c].m]
             /\ caller_pc' = [caller_pc EXCEPT ![c] = "w_slock"]
             /\ UNCHANGED fault
    /\ UNCHANGED <<current_req, req_available, stop, steps, curr_direction, struct_mutex,
                   req_cv, wait_cv, shared_mutex, step_line, pulser_pc, pulser, caller, motions>>

\* Stepper.c:698-702: motor->current_req->motor_waiting = motor, then
\* pthread_mutex_unlock(motor->shared_mutex): the pointer is read again, so
\* the mutex unlocked may be the current one rather than the one locked.
WaitRegister(c) ==
    /\ caller_pc[c] = "w_register"
    /\ LET m == caller[c].m
           r == current_req[m]
       IN \/ /\ r = NoReq
             /\ fault' = "null_request"
             /\ UNCHANGED <<request, shared_mutex, caller_pc>>
          \/ /\ r # NoReq
             /\ request' = [request EXCEPT ![r].waiting = m]
             /\ \E u \in {caller[c].shr, r} :
                   shared_mutex' = [shared_mutex EXCEPT ![u].holder = NoThread]
             /\ caller_pc' = [caller_pc EXCEPT ![c] = "w_slock"]
             /\ UNCHANGED fault
    /\ UNCHANGED <<current_req, req_available, stop, steps, curr_direction, struct_mutex,
                   req_cv, wait_cv, step_line, pulser_pc, pulser, caller, motions>>

\* Stepper.c:708, and the re-acquisition inside pthread_cond_wait (line 710).
WaitStructLock(c) ==
    /\ caller_pc[c] = "w_slock"
    /\ struct_mutex[caller[c].m] = NoThread
    /\ struct_mutex' = [struct_mutex EXCEPT ![caller[c].m] = c]
    /\ caller_pc' = [caller_pc EXCEPT ![c] = "w_check"]
    /\ UNCHANGED <<current_req, req_available, stop, steps, curr_direction, req_cv, wait_cv,
                   request, shared_mutex, step_line, pulser_pc, pulser, caller, fault, motions>>

\* Stepper.c:709 and 711: while(stepper_is_busy(motor)) ...; unlock.
WaitCheck(c) ==
    /\ caller_pc[c] = "w_check"
    /\ \/ /\ IsBusy(caller[c].m)
          /\ caller_pc' = [caller_pc EXCEPT ![c] = "w_cv_wait"]
          /\ UNCHANGED <<struct_mutex, caller>>
       \/ /\ ~IsBusy(caller[c].m)
          /\ struct_mutex' = [struct_mutex EXCEPT ![caller[c].m] = NoThread]
          /\ Return(c)
    /\ UNCHANGED <<current_req, req_available, stop, steps, curr_direction, req_cv, wait_cv,
                   request, shared_mutex, step_line, pulser_pc, pulser, fault, motions>>

\* Stepper.c:710: pthread_cond_wait on wait_cv releases struct_mutex and sleeps.
WaitCondWait(c) ==
    /\ caller_pc[c] = "w_cv_wait"
    /\ struct_mutex' = [struct_mutex EXCEPT ![caller[c].m] = NoThread]
    /\ wait_cv' = [wait_cv EXCEPT ![caller[c].m] = @ \cup {c}]
    /\ caller_pc' = [caller_pc EXCEPT ![c] = "w_asleep"]
    /\ UNCHANGED <<current_req, req_available, stop, steps, curr_direction, req_cv, request,
                   shared_mutex, step_line, pulser_pc, pulser, caller, fault, motions>>

\* Mutation: the stepper_is_busy check of line 416 is missing.
SetDirectionNoBusyCheck(c, m, d) ==
    /\ caller_pc[c] = "idle"
    /\ "direction" \in Ops
    /\ caller_pc' = [caller_pc EXCEPT ![c] = "sd_write"]
    /\ caller' = [caller EXCEPT ![c].m = m, ![c].dir = d]
    /\ UNCHANGED CUnchanged

\* stepper_set_direction_rel / _abs, Stepper.c:459-472 and 402-419: the
\* relative direction maps onto an absolute one; a busy motor is refused.
SetDirection(c, m, d) ==
    /\ caller_pc[c] = "idle"
    /\ "direction" \in Ops
    /\ \/ /\ IsBusy(m)
          /\ Return(c)
       \/ /\ ~IsBusy(m)
          /\ caller_pc' = [caller_pc EXCEPT ![c] = "sd_write"]
          /\ caller' = [caller EXCEPT ![c].m = m, ![c].dir = d]
    /\ UNCHANGED CUnchanged

\* Stepper.c:422-429: write the direction line; only if that succeeds is
\* curr_direction updated.
WriteDirection(c) ==
    /\ caller_pc[c] = "sd_write"
    /\ \/ curr_direction' = [curr_direction EXCEPT ![caller[c].m] = caller[c].dir]
       \/ UNCHANGED curr_direction
    /\ Return(c)
    /\ UNCHANGED <<current_req, req_available, stop, steps, struct_mutex, req_cv, wait_cv,
                   request, shared_mutex, step_line, pulser_pc, pulser, fault, motions>>

\* The continuation of a call in progress: the thread is inside the library.
CallerStep(c) ==
    /\ Running
    /\ \/ CreateRequest(c)
       \/ StepSignal(c)
       \/ StopCheck(c)
       \/ WaitLock(c)
       \/ WaitRegister(c)
       \/ WaitStructLock(c)
       \/ WaitCheck(c)
       \/ WaitCondWait(c)
       \/ WriteDirection(c)

\* A new call: the application decides whether and when to make one.
CallerCall(c) ==
    /\ Running
    /\ \/ \E l \in MotorLists, n \in StepCounts : StepMultiple(c, l, n)
       \/ \E m \in Motors : Wait(c, m) \/ Stop(c, m)
       \/ \E m \in Motors, d \in Dirs : SetDirection(c, m, d)

Next ==
    \/ \E m \in Motors : PulserStep(m)
    \/ \E c \in Callers : CallerStep(c) \/ CallerCall(c)

\* Threads are preemptively scheduled: a thread that can run eventually runs.
\* No fairness is assumed for the application starting new calls.
Fairness ==
    /\ \A m \in Motors : WF_vars(PulserStep(m))
    /\ \A c \in Callers : WF_vars(CallerStep(c))

Spec == Init /\ [][Next]_vars /\ Fairness


(***************************************************************************)
(* Properties                                                              *)
(***************************************************************************)

PulseLabels == {"write", "count", "test"}      \* inside the do-while loop
PulserLabels == {"lock", "check", "cv_wait", "asleep", "start", "write", "count", "test", "td_lock", "td_acquire", "td_destroy",
                 "td_clear", "td_unlock", "td_signal", "td_free"}
CallerLabels == {"idle", "st_create", "st_signal", "s_check", "w_lock", "w_register",
                 "w_slock", "w_check", "w_cv_wait", "w_asleep", "sd_write"}
WaitLabels == {"w_lock", "w_register", "w_slock", "w_check", "w_cv_wait", "w_asleep"}
MaxSteps == CHOOSE k \in StepCounts : \A j \in StepCounts : j <= k
ReqPtr == Reqs \cup {NoReq}

\* Every variable has its type; in particular req_steps never exceeds the
\* `steps` argument it started from (it only counts down).
TypeOK ==
    /\ current_req \in [Motors -> ReqPtr]
    /\ req_available \in [Motors -> BOOLEAN]
    /\ stop \in [Motors -> BOOLEAN]
    /\ steps \in [Motors -> Int]
    /\ curr_direction \in [Motors -> Dirs]
    /\ struct_mutex \in [Motors -> Threads \cup {NoThread}]
    /\ req_cv \in [Motors -> BOOLEAN]
    /\ wait_cv \in [Motors -> SUBSET Callers]
    /\ \A r \in Reqs :
          /\ request[r].alive \in BOOLEAN
          /\ request[r].motors \in MotorLists \cup {<<>>}
          /\ request[r].waiting \in Motors \cup {NoMotor}
          /\ request[r].req_steps \in 0..MaxSteps
    /\ shared_mutex \in [Reqs -> [alive : BOOLEAN, holder : Threads \cup {NoThread}]]
    /\ step_line \in [Motors -> ReqPtr]
    /\ pulser_pc \in [Motors -> PulserLabels]
    /\ caller_pc \in [Callers -> CallerLabels]
    /\ motions \in 0..MaxMotions

\* A request never emits more pulses than the `steps` argument of the
\* stepper_step_multiple call that created it (the do-while of motor_pulser
\* with --req_steps, Stepper.c:231-248, and the steps == 0 check at line 603).
PulsesWithinRequest ==
    \A r \in Reqs : request[r].alive => request[r].pulsed <= request[r].asked

\* Every motor a pulser is pulsing belongs to a bulk that really holds that
\* motor's step line: no other request or failure path of
\* stepper_create_new_request released it (Stepper.c:116-123, 150-151).
LinesHeldWhilePulsing ==
    \A m \in Motors :
        pulser_pc[m] \in PulseLabels /\ current_req[m] # NoReq
            => \A p \in Participants(current_req[m]) : step_line[p] = current_req[m]

\* No motor is driven by two pulser threads at once: the requests two
\* pulsers are working through have no motor in common.
NoMotorDrivenTwice ==
    \A m1, m2 \in Motors :
        /\ m1 # m2
        /\ pulser_pc[m1] \in PulseLabels /\ current_req[m1] # NoReq
        /\ pulser_pc[m2] \in PulseLabels /\ current_req[m2] # NoReq
        => Participants(current_req[m1]) \cap Participants(current_req[m2]) = {}

\* A stop acts on the motion it was asked during, and on no other (spec
\* 10.1: a motion gives all its steps unless stopped early; scenario S3: a
\* stop returns after the current half-pulse).  When a pulser reaches its
\* teardown, a motion no stepper_stop was called during has emitted every
\* pulse asked, and one that was stopped has emitted at most one pulse past
\* the stop (the one under way before the counting loop folds the flag in).
\* It fails if a stop flag outlives its motion (line 670: set while busy,
\* cleared only for a registered waiter, lines 259-261) or if the teardown
\* of the previous motion clears the flag of the next one (line 261).
StopHonoured ==
    \A m \in Motors :
        pulser_pc[m] = "td_lock" /\ current_req[m] # NoReq
            => LET r == current_req[m] IN
               IF request[r].stop_asked
               THEN request[r].pulsed <= request[r].stop_at + 1
               ELSE request[r].pulsed = request[r].asked

\* Once a pulser starts a motion it completes its teardown and returns to
\* the top of its loop (no deadlock on shared_mutex or struct_mutex).
TeardownCompletes ==
    \A m \in Motors :
        pulser_pc[m] = "start" ~> (pulser_pc[m] = "lock" \/ fault # "none")

\* Every blocking call returns to the application: a stepper_wait, or the
\* wait inside stepper_stop, ends once its motor's motion is over.  It
\* fails if the req_cv signal of line 626 reaches the pulser before it
\* sleeps (the motion never starts, so it never ends), if the wait_cv signal
\* of line 264 reaches the waiter between its busy test and its sleep (line
\* 709-710), or if the process crashes on an invalid access (lines 693-698).
CallsReturn ==
    \A c \in Callers : caller_pc[c] \in WaitLabels ~> caller_pc[c] = "idle"

(***************************************************************************)
(* Refinement: the engine implements Motion.  A motion is a live request;  *)
(* it owns the motors whose current_req points to it.  Its abstract pulse *)
(* is the counting of the last motor of an iteration of the do-while loop *)
(* (Stepper.c:238-246): the motors counted earlier in that iteration are   *)
(* shown at their position before it, and the --req_steps that follows at *)
(* line 248 is shown as already done.  The motion has given its last pulse *)
(* once that test is bound to end the loop, and until its teardown frees   *)
(* the request (Stepper.c:248-256).                                        *)
(***************************************************************************)

\* The pulser of motor f is in the teardown of request r, before the free.
InTeardown(f, r) ==
    \/ pulser_pc[f] = "td_lock" /\ current_req[f] = r
    \/ pulser_pc[f] \in {"td_acquire", "td_destroy", "td_clear"} /\ pulser[f].shr = r

\* The pulser of motor f has counted every motor of r's current pulse and
\* not yet run the loop test.
AtTest(f, r) == pulser_pc[f] = "test" /\ current_req[f] = r

\* Motor p has been counted in an iteration whose last motor has not.
Pending(p) ==
    \E f \in Motors :
        /\ pulser_pc[f] = "count" /\ current_req[f] # NoReq
        /\ \E j \in 1..(pulser[f].idx - 1) :
              j <= Len(request[current_req[f]].motors)
              /\ request[current_req[f]].motors[j] = p

MotionPos == [p \in Motors |->
                steps[p] - (IF Pending(p)
                            THEN (IF curr_direction[p] = "positive" THEN 1 ELSE -1)
                            ELSE 0)]

MotionDone == [r \in Reqs |->
                 LET f == request[r].motors[1] IN
                 /\ request[r].alive
                 /\ \/ InTeardown(f, r)
                    \/ AtTest(f, r) /\ (request[r].req_steps = 1 \/ pulser[f].halt)]

MotionLeft == [r \in Reqs |->
                 IF request[r].alive
                 THEN request[r].req_steps
                        - (IF AtTest(request[r].motors[1], r) THEN 1 ELSE 0)
                 ELSE 0]

Abstract == INSTANCE Motion WITH owner <- current_req, left <- MotionLeft,
                                 done <- MotionDone, pos <- MotionPos,
                                 dir <- curr_direction, halt <- stop,
                                 Counts <- StepCounts \ {0}

\* The threads, mutexes and condition variables of Stepper.c implement the
\* promise of Motion: motions start on free motors, pulse their motors
\* together at most the asked number of times, end on count or stop, hand
\* their motors back, and directions change only on motors no motion owns.
MotionRefinement == Abstract!Spec
=============================================================================
