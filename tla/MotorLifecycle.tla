--------------------------- MODULE MotorLifecycle ---------------------------
(***************************************************************************)
(* Creation and destruction of Stepper objects and their pulser threads:   *)
(* stepper_init and stepper_destroy (core/src/Stepper.c), the task factory *)
(* they use (core/src/Tasks.c: the task_list, CreateTask, thread_main,     *)
(* Task_get_id_by_name, Task_kill) and the direction-line reservation of   *)
(* GPIO_init_pin (core/src/GPIO.c).                                        *)
(*                                                                         *)
(* The motion engine itself is StepperEngine; here a pulser thread only    *)
(* does what it does on an idle motor: lock struct_mutex and block in      *)
(* pthread_cond_wait on req_cv.  stepper_stop on an idle motor changes     *)
(* nothing, so stepper_destroy is its Task_kill part and its release part. *)
(***************************************************************************)
EXTENDS Naturals, Sequences, SequencesExt, FiniteSets

CONSTANTS
    Motors,       \* addresses malloc may return for a Stepper
    Names,        \* motor names passed to stepper_init
    Pins,         \* direction-pin numbers
    Tids,         \* pthread_t values pthread_create may return
    NoMotor,      \* a line no motor holds
    NoThread,     \* the Task_id_t 0: "no thread"
    Ops,          \* the calls the application makes: SUBSET {"init", "destroy"}
    Failures,     \* environment failures: SUBSET {"step_pin", "pthread_create"}
    MaxInits,     \* bound on stepper_init calls
    UniqueNames   \* the application never passes a name twice

VARIABLES
    heap,         \* heap[m]: "stepper" while a Stepper lives at m, else "free"
    motor,        \* motor[m]: name and dir pin of the Stepper at m
    handles,      \* Steppers stepper_init returned and not yet destroyed
    dir_line,     \* dir_line[p]: the motor that requested line p as output
    task_list,    \* Tasks.c task_list, head first
    thread,       \* thread[t]: state of the pthread t and its argument
    app,          \* the application thread inside stepper_destroy
    used_names,   \* names already passed to stepper_init
    inits,        \* number of stepper_init calls
    fault         \* a pulser touched a freed Stepper

vars == <<heap, motor, handles, dir_line, task_list, thread, app, used_names,
          inits, fault>>

ThreadStates == {"none", "created", "started", "waiting", "cancelled", "exited"}

\* A task_info_t: name, thread_id (0 until thread_main writes it), arg; worker
\* is the thread started on it (NoThread when pthread_create failed).
Entry == [name : Names, thread_id : Tids \cup {NoThread},
          arg : Motors, worker : Tids \cup {NoThread}]

Init ==
    /\ heap = [m \in Motors |-> "free"]
    /\ motor = [m \in Motors |-> [name |-> CHOOSE n \in Names : TRUE,
                                   dir |-> CHOOSE p \in Pins : TRUE]]
    /\ handles = {}
    /\ dir_line = [p \in Pins |-> NoMotor]
    /\ task_list = <<>>
    /\ thread = [t \in Tids |-> [st |-> "none", arg |-> NoMotor]]
    /\ app = [pc |-> "idle", m |-> NoMotor]
    /\ used_names = {}
    /\ inits = 0
    /\ fault = FALSE

(***************************************************************************)
(* Task factory.                                                           *)
(***************************************************************************)

\* CreateTask with the info->arg assignment dropped: the memset leaves NULL.
TaskInfoNoArg(n, m, t) ==
    [name |-> n, thread_id |-> NoThread, arg |-> NoMotor, worker |-> t]

\* CreateTask: the task_info_t it fills in before inserting it.
TaskInfo(n, m, t) ==
    [name |-> n, thread_id |-> NoThread, arg |-> m, worker |-> t]

\* list_insert_task: append the node at the end of the list.
ListInsertTask(e) == Append(task_list, e)

\* list_delete_task: unlink and free the first node whose thread_id matches.
ListDeleteTask(id) ==
    LET i == SelectInSeq(task_list, LAMBDA e : e.thread_id = id)
    IN  IF i = 0 THEN task_list ELSE RemoveAt(task_list, i)

\* Task_get_id_by_name: thread_id of the first node with that name, else 0.
TaskGetIdByName(n) ==
    LET i == SelectInSeq(task_list, LAMBDA e : e.name = n)
    IN  IF i = 0 THEN NoThread ELSE task_list[i].thread_id

\* thread_main: the new thread writes pthread_self() into its own
\* task_info_t, then enters motor_pulser.
ThreadMain(t) ==
    /\ thread[t].st = "created"
    /\ task_list' = [i \in 1..Len(task_list) |->
                        IF task_list[i].worker = t
                        THEN [task_list[i] EXCEPT !.thread_id = t]
                        ELSE task_list[i]]
    /\ thread' = [thread EXCEPT ![t].st = "started"]
    /\ UNCHANGED <<heap, motor, handles, dir_line, app, used_names, inits,
                   fault>>

\* A pulser dereferences its Stepper: a fault when it was freed.
Touch(t) == fault' = (fault \/ heap[thread[t].arg] = "free")

\* motor_pulser on an idle motor: lock struct_mutex, find no request and
\* block in pthread_cond_wait on req_cv.
PulserWait(t) ==
    /\ thread[t].st = "started"
    /\ Touch(t)
    /\ thread' = [thread EXCEPT ![t].st = "waiting"]
    /\ UNCHANGED <<heap, motor, handles, dir_line, task_list, app, used_names,
                   inits>>

\* A cancelled pulser acts on the cancellation at pthread_cond_wait, which
\* re-acquires struct_mutex before the thread exits; a thread cancelled
\* before it reached the wait locks struct_mutex on its way there.
PulserCancelled(t) ==
    /\ thread[t].st = "cancelled"
    /\ Touch(t)
    /\ thread' = [thread EXCEPT ![t].st = "exited"]
    /\ UNCHANGED <<heap, motor, handles, dir_line, task_list, app, used_names,
                   inits>>

\* GPIO_init_pin(p, GPIO_DIRECTION_OUTPUT, 0): gpiod_chip_get_line returns
\* the chip's one line object for p, and gpiod_line_request_output on it
\* succeeds only if nobody holds the line; on failure the error label calls
\* gpiod_line_release, which frees the line for its holder as well.
DirPinFree(p) == dir_line[p] = NoMotor

GPIOInitPin(p, m) == [dir_line EXCEPT ![p] = IF DirPinFree(p) THEN m ELSE NoMotor]

(***************************************************************************)
(* stepper_init: validate, malloc, request the dir line as an output       *)
(* (GPIO_init_pin fails while another motor holds it, and its error path   *)
(* releases the line), get the step line, init the mutex and cond vars,    *)
(* CreateTask.  A later failure frees the Stepper and releases no line; a  *)
(* failed pthread_create leaves the task_info_t CreateTask already         *)
(* inserted, with thread_id 0.                                             *)
(***************************************************************************)
StepperInit(m, n, p) ==
    /\ "init" \in Ops
    /\ app.pc = "idle"
    /\ inits < MaxInits
    /\ heap[m] = "free"
    /\ UniqueNames => n \notin used_names
    /\ inits' = inits + 1
    /\ used_names' = used_names \cup {n}
    /\ dir_line' = GPIOInitPin(p, m)
    /\ \/ /\ ~DirPinFree(p)
          /\ UNCHANGED <<heap, motor, handles, task_list, thread>>
       \/ /\ DirPinFree(p)
          /\ "step_pin" \in Failures
          /\ UNCHANGED <<heap, motor, handles, task_list, thread>>
       \/ /\ DirPinFree(p)
          /\ "pthread_create" \in Failures
          /\ task_list' = ListInsertTask(TaskInfo(n, m, NoThread))
          /\ UNCHANGED <<heap, motor, handles, thread>>
       \/ /\ DirPinFree(p)
          /\ \E t \in Tids :
                /\ thread[t].st = "none"
                /\ thread' = [thread EXCEPT ![t] = [st |-> "created", arg |-> m]]
                /\ task_list' = ListInsertTask(TaskInfo(n, m, t))
          /\ heap' = [heap EXCEPT ![m] = "stepper"]
          /\ motor' = [motor EXCEPT ![m] = [name |-> n, dir |-> p]]
          /\ handles' = handles \cup {m}
    /\ UNCHANGED <<app, fault>>

\* Task_kill: return on id 0; else unlink the node and pthread_cancel the
\* thread, which acts on it later.
TaskKill(id) ==
    IF id = NoThread
    THEN UNCHANGED <<task_list, thread>>
    ELSE /\ task_list' = ListDeleteTask(id)
         /\ thread' = IF thread[id].st \in {"created", "started", "waiting"}
                      THEN [thread EXCEPT ![id].st = "cancelled"]
                      ELSE thread

\* stepper_destroy, first part: stepper_stop, then
\* Task_kill(Task_get_id_by_name(motor->name)).
DestroyKill(m) ==
    /\ "destroy" \in Ops
    /\ app.pc = "idle"
    /\ m \in handles
    /\ TaskKill(TaskGetIdByName(motor[m].name))
    /\ app' = [pc |-> "release", m |-> m]
    /\ UNCHANGED <<heap, motor, handles, dir_line, used_names, inits, fault>>

\* stepper_destroy, second part: destroy the cond vars and mutex, release
\* both lines and free the Stepper, without joining the pulser.
DestroyRelease ==
    /\ app.pc = "release"
    /\ LET m == app.m IN
        /\ heap' = [heap EXCEPT ![m] = "free"]
        /\ dir_line' = [dir_line EXCEPT ![motor[m].dir] = NoMotor]
        /\ handles' = handles \ {m}
    /\ app' = [pc |-> "idle", m |-> NoMotor]
    /\ UNCHANGED <<motor, task_list, thread, used_names, inits, fault>>

Next ==
    \/ \E m \in Motors, n \in Names, p \in Pins : StepperInit(m, n, p)
    \/ \E m \in Motors : DestroyKill(m)
    \/ DestroyRelease
    \/ \E t \in Tids : ThreadMain(t) \/ PulserWait(t) \/ PulserCancelled(t)

Spec == Init /\ [][Next]_vars

(***************************************************************************)
(* Properties.                                                             *)
(***************************************************************************)

TypeOK ==
    /\ heap \in [Motors -> {"free", "stepper"}]
    /\ motor \in [Motors -> [name : Names, dir : Pins]]
    /\ handles \subseteq Motors
    /\ dir_line \in [Pins -> Motors \cup {NoMotor}]
    /\ task_list \in Seq(Entry)
    /\ thread \in [Tids -> [st : ThreadStates, arg : Motors \cup {NoMotor}]]
    /\ app \in [pc : {"idle", "release"}, m : Motors \cup {NoMotor}]
    /\ used_names \subseteq Names
    /\ inits \in 0..MaxInits
    /\ fault \in BOOLEAN

\* No pulser thread dereferences a Stepper after stepper_destroy freed it
\* (spec: the Stepper pointer is invalid after stepper_destroy, which
\* "cancels the worker").
NoUseAfterFree == ~fault

\* The direction lines requested are exactly those of the live Steppers:
\* every live Stepper holds its dir_pin, and neither a failed stepper_init
\* nor stepper_destroy leaves a line reserved for a Stepper that is gone.
DirLinesMatchMotors ==
    \A p \in Pins :
        dir_line[p] = IF \E m \in Motors : heap[m] = "stepper" /\ motor[m].dir = p
                      THEN CHOOSE m \in Motors : heap[m] = "stepper" /\ motor[m].dir = p
                      ELSE NoMotor
=============================================================================
