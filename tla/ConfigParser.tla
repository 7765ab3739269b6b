---------------------------- MODULE ConfigParser ----------------------------
(***************************************************************************)
(* The motor.conf reader of src/control/src/config.c: the state machine    *)
(* motor_config_state_machine, one action per state routine, followed by   *)
(* init_motors.  A line is abstracted to its lexical shape, which decides  *)
(* every branch of the character loops of a routine:                       *)
(*   [t |-> "skip"]       first char '#', blank or '\n', or a key followed  *)
(*                        by a blank: dropped at CLEANUP                    *)
(*   [t |-> "badchar"]    an invalid char (or a key longer than 31) in     *)
(*                        READ_PARAM                                       *)
(*   [t |-> "header", id, closed, exact]  `[id]`; id is the class strncmp  *)
(*                        gives the text ("motor", "axis", "other"), closed *)
(*                        is whether ']' ends the lowercase run, exact      *)
(*                        whether the text is the identifier itself or     *)
(*                        only starts with it (`[motorx]`)                 *)
(*   [t |-> "param", key, val, eol, exact]  `key=value`; exact as for a   *)
(*                        header (`names=` starts with "name"); val is a   *)
(*                        name of Names                                    *)
(*                        for "name", else whether the value passes its    *)
(*                        conversion; eol "end" is a blank, '#' or '\n'    *)
(*                        after it, "bad" an invalid char, an overlong     *)
(*                        value or the '\0' of a last line without '\n'     *)
(*   [t |-> "motors", names, eol, exact]  `motors=n1,n2,...` ("" is an  *)
(*                        empty name)                                      *)
(* The ghost variables spec_* interpret the same lines by the grammar of   *)
(* the specification (sections, keys per section, at most MaxEntries of     *)
(* each), against which the parser's verdict and tables are checked.       *)
(***************************************************************************)
EXTENDS Integers, Sequences, SequencesExt, FiniteSets

CONSTANTS
    MaxEntries,   \* MOTOR_LIST_SIZE_MAX: size of motor_list, axis_list, axis motors[]
    MotorKeys,    \* motor keys other than "name" (all must be set: validate_motor_node)
    Names,        \* values of name= and of motors= entries
    Lines,        \* line shapes the file is made of
    MaxLines,     \* bound: lines in the file
    WellFormed,   \* the file only has sections and keys the grammar allows
    InitMayFail   \* stepper_init / axis_init may return NULL (pins taken, malloc)

AxisKeys == {"mm_per_rotation"}
Keys == MotorKeys \cup AxisKeys \cup {"name"}

ASSUME MaxEntries \in Nat \ {0} /\ MaxLines \in Nat
ASSUME WellFormed \in BOOLEAN /\ InitMayFail \in BOOLEAN
ASSUME "" \notin Names /\ MotorKeys \cap ({"name", "motors"} \cup AxisKeys) = {}

States == {"OPEN", "READ_LINE", "READ_PARAM", "READ_IDENTIFIER", "SET_IDENTIFIER",
           "CHECK_PARAM", "READ_VALUE", "SET_PARAM", "READ_MOTOR_LIST",
           "CLEANUP", "FINISHED", "ERROR", "INIT_MOTORS", "INIT_AXES", "DONE"}

NoLine == [t |-> "none"]
NoMotor == [name |-> "", set |-> {}]                   \* memset 0
NoAxis == [name |-> "", mm |-> FALSE, motors |-> <<>>]

\* Keys of the parameter table state_check_param uses for a section.
SectionKeys(id) == IF id = "MOTOR" THEN MotorKeys \cup {"name"}
                   ELSE AxisKeys \cup {"name"}

VARIABLES
    state,          \* motor_config_state; "OPEN": read_motor_config before its
                    \* fopen, "INIT_*": the loops of init_motors, "DONE": returned
    line,           \* line_buff: the shape of the current line
    last_id,        \* section kind: "MOTOR", "AXIS" or "INVALID_TYPE"
    param_id,       \* key checked by CHECK_PARAM
    motor_list,     \* motor_list[0..MaxEntries-1], 1-based here
    motor_list_len,
    axis_list,      \* axis_list[0..MaxEntries-1]; motors are motor_list indices
    axis_list_len,
    oob,            \* a read or write outside motor_list, axis_list or motors[]
    init_i,         \* the loop index of init_motors, 1-based
    motor_obj,      \* motor_list[k].motor # NULL: the Stepper of an entry
    axis_obj,       \* axis_list[k].axis # NULL
    result,         \* read_motor_config's return: "none", "ok", "error"
    nread,          \* lines read so far
    spec_motors,    \* ghost: motors the file defines, per the grammar
    spec_axes,      \* ghost: axes the file defines, with motor names
    spec_sec,       \* ghost: section the grammar is in: "none", "MOTOR", "AXIS"
    spec_ok,        \* ghost: no line so far breaks the grammar
    init_fail       \* ghost: a stepper_init or axis_init returned NULL

parser == <<state, line, last_id, param_id, motor_list, motor_list_len,
            axis_list, axis_list_len, oob>>
ghost == <<nread, spec_motors, spec_axes, spec_sec, spec_ok>>
objs == <<init_i, motor_obj, axis_obj, init_fail>>   \* init_motors' state
vars == <<parser, result, ghost, objs>>

(***************************************************************************)
(* The reading of the specification: a reference for the parser.           *)
(***************************************************************************)

MotorNames == {spec_motors[k].name : k \in 1..Len(spec_motors)} \ {""}

\* The grammar knows the identifiers and keys themselves only: a longer
\* word that starts with one is unknown, hence an error.
Exact(l) == l.t \in {"header", "param", "motors"} => l.exact

SpecValueOK(l) ==
    /\ l.eol = "end"
    /\ l.key = "name" => l.val \in Names
    /\ l.key # "name" => l.val = TRUE

\* One line read by the grammar.
SpecLine(l) ==
    LET sec == spec_sec
        lastM == Len(spec_motors)
        lastA == Len(spec_axes)
    IN
    CASE ~spec_ok \/ l.t = "skip" -> UNCHANGED <<spec_motors, spec_axes, spec_sec, spec_ok>>
      [] ~Exact(l) -> spec_ok' = FALSE /\ UNCHANGED <<spec_motors, spec_axes, spec_sec>>
      [] l.t = "header" /\ l.closed /\ l.id = "motor" /\ lastM < MaxEntries ->
           /\ spec_motors' = Append(spec_motors, NoMotor)
           /\ spec_sec' = "MOTOR"
           /\ UNCHANGED <<spec_axes, spec_ok>>
      [] l.t = "header" /\ l.closed /\ l.id = "axis" /\ lastA < MaxEntries ->
           /\ spec_axes' = Append(spec_axes, NoAxis)
           /\ spec_sec' = "AXIS"
           /\ UNCHANGED <<spec_motors, spec_ok>>
      [] l.t = "param" /\ sec = "MOTOR" /\ l.key \in SectionKeys(sec) /\ SpecValueOK(l) ->
           /\ spec_motors' = [spec_motors EXCEPT ![lastM] =
                 IF l.key = "name" THEN [@ EXCEPT !.name = l.val]
                 ELSE [@ EXCEPT !.set = @ \cup {l.key}]]
           /\ UNCHANGED <<spec_axes, spec_sec, spec_ok>>
      [] l.t = "param" /\ sec = "AXIS" /\ l.key \in SectionKeys(sec) /\ SpecValueOK(l) ->
           /\ spec_axes' = [spec_axes EXCEPT ![lastA] =
                 IF l.key = "name" THEN [@ EXCEPT !.name = l.val]
                 ELSE [@ EXCEPT !.mm = TRUE]]
           /\ UNCHANGED <<spec_motors, spec_sec, spec_ok>>
      [] l.t = "motors" /\ sec = "AXIS" /\ l.eol = "end"
                        /\ ToSet(l.names) \subseteq MotorNames
                        /\ Len(spec_axes[lastA].motors) + Len(l.names) <= MaxEntries ->
           /\ spec_axes' = [spec_axes EXCEPT ![lastA].motors = @ \o l.names]
           /\ UNCHANGED <<spec_motors, spec_sec, spec_ok>>
      [] OTHER -> spec_ok' = FALSE /\ UNCHANGED <<spec_motors, spec_axes, spec_sec>>

\* After the last line: every entry complete (the validation of init_motors).
SpecAccepts ==
    /\ spec_ok
    /\ \A k \in 1..Len(spec_motors) :
          spec_motors[k].name # "" /\ spec_motors[k].set = MotorKeys
    /\ \A k \in 1..Len(spec_axes) : spec_axes[k].motors # <<>> /\ spec_axes[k].mm

\* Lines the grammar allows in the current section (for WellFormed files).
Allowed(l) ==
    LET sec == spec_sec IN
    Exact(l) /\
    CASE l.t = "header" -> /\ (l.id = "motor" => Len(spec_motors) < MaxEntries)
                           /\ (l.id = "axis" => Len(spec_axes) < MaxEntries)
      [] l.t = "param" -> sec # "none" /\ l.key \in SectionKeys(sec)
      [] l.t = "motors" -> sec = "AXIS"
                           /\ Len(spec_axes[Len(spec_axes)].motors) + Len(l.names) <= MaxEntries
      [] OTHER -> TRUE

(***************************************************************************)
(* The state machine                                                       *)
(***************************************************************************)

Init ==
    /\ state = "OPEN"
    /\ line = NoLine
    /\ last_id = "INVALID_TYPE" /\ param_id = "INVALID_PARAM"
    /\ motor_list = [k \in 1..MaxEntries |-> NoMotor]
    /\ axis_list = [k \in 1..MaxEntries |-> NoAxis]
    /\ motor_list_len = 0 /\ axis_list_len = 0
    /\ oob = FALSE /\ result = "none"
    /\ init_i = 1
    /\ motor_obj = [k \in 1..MaxEntries |-> FALSE]
    /\ axis_obj = [k \in 1..MaxEntries |-> FALSE]
    /\ nread = 0 /\ init_fail = FALSE /\ spec_motors = <<>> /\ spec_axes = <<>>
    /\ spec_sec = "none" /\ spec_ok = TRUE

Goto(s) == state' = s

\* read_motor_config: fopen fails (return -1), or the lists are cleared and
\* the state machine starts in its initial state CLEANUP.
Open ==
    /\ state = "OPEN"
    /\ \/ /\ Goto("DONE") /\ result' = "error"
          /\ spec_ok' = FALSE                   \* a missing file is rejected
          /\ UNCHANGED <<nread, spec_motors, spec_axes, spec_sec>>
       \/ Goto("CLEANUP") /\ UNCHANGED <<result, ghost>>
    /\ UNCHANGED <<line, last_id, param_id, motor_list, motor_list_len, axis_list,
                   axis_list_len, oob, objs>>

\* state_read_line: getline fails (ERROR), hits EOF (FINISHED) or reads a line.
ReadLine ==
    /\ state = "READ_LINE"
    /\ \/ /\ Goto("ERROR") /\ spec_ok' = FALSE   \* an unreadable file is rejected
          /\ UNCHANGED <<line, nread, spec_motors, spec_axes, spec_sec>>
       \/ Goto("FINISHED") /\ UNCHANGED <<line, ghost>>
       \/ \E l \in Lines :
             /\ nread < MaxLines
             /\ WellFormed => Allowed(l)
             /\ line' = l /\ nread' = nread + 1
             /\ SpecLine(l)
             /\ Goto("READ_PARAM")
    /\ UNCHANGED <<last_id, param_id, motor_list, motor_list_len, axis_list,
                   axis_list_len, oob, result, objs>>

ReadParamBlankLoop ==
    /\ state = "READ_PARAM"
    /\ Goto(CASE line.t = "skip"    -> "READ_PARAM"
              [] line.t = "badchar" -> "ERROR"
              [] line.t = "header"  -> "READ_IDENTIFIER"
              [] OTHER              -> "CHECK_PARAM")
    /\ UNCHANGED <<line, last_id, param_id, motor_list, motor_list_len,
                   axis_list, axis_list_len, oob, result, ghost, objs>>

\* state_read_param: scan [a-z_]* then branch on the char that ends it.
ReadParam ==
    /\ state = "READ_PARAM"
    /\ Goto(CASE line.t = "skip"    -> "CLEANUP"
              [] line.t = "badchar" -> "ERROR"
              [] line.t = "header"  -> "READ_IDENTIFIER"
              [] OTHER              -> "CHECK_PARAM")
    /\ UNCHANGED <<line, last_id, param_id, motor_list, motor_list_len,
                   axis_list, axis_list_len, oob, result, ghost, objs>>

\* state_read_identifier: scan [a-z]* up to ']'.
ReadIdentifier ==
    /\ state = "READ_IDENTIFIER"
    /\ Goto(IF line.closed THEN "SET_IDENTIFIER" ELSE "ERROR")
    /\ UNCHANGED <<line, last_id, param_id, motor_list, motor_list_len,
                   axis_list, axis_list_len, oob, result, ghost, objs>>

\* state_set_identifier: open a new entry; the list length is not bounded.
SetIdentifier ==
    /\ state = "SET_IDENTIFIER"
    /\ CASE line.id = "motor" ->
              /\ last_id' = "MOTOR" /\ motor_list_len' = motor_list_len + 1
              /\ Goto("CLEANUP") /\ UNCHANGED axis_list_len
         [] line.id = "axis" ->
              /\ last_id' = "AXIS" /\ axis_list_len' = axis_list_len + 1
              /\ Goto("CLEANUP") /\ UNCHANGED motor_list_len
         [] OTHER ->
              /\ last_id' = "INVALID_TYPE" /\ Goto("ERROR")
              /\ UNCHANGED <<motor_list_len, axis_list_len>>
    /\ UNCHANGED <<line, param_id, motor_list, axis_list, oob, result, ghost, objs>>

\* state_check_param: "motors" is matched before the section's table.
CheckParam ==
    /\ state = "CHECK_PARAM"
    /\ CASE last_id = "INVALID_TYPE" ->
              Goto("ERROR") /\ param_id' = "INVALID_PARAM"
         [] line.t = "motors" ->
              Goto("READ_MOTOR_LIST") /\ param_id' = "motors"
         [] line.key \in SectionKeys(last_id) ->
              Goto("READ_VALUE") /\ param_id' = line.key
         [] OTHER ->
              Goto("ERROR") /\ param_id' = "INVALID_PARAM"
    /\ UNCHANGED <<line, last_id, motor_list, motor_list_len, axis_list,
                   axis_list_len, oob, result, ghost, objs>>

\* state_read_value: scan [A-Za-z0-9_-]* up to a blank, '#' or '\n'.
ReadValue ==
    /\ state = "READ_VALUE"
    /\ Goto(IF line.eol = "end" THEN "SET_PARAM" ELSE "ERROR")
    /\ UNCHANGED <<line, last_id, param_id, motor_list, motor_list_len,
                   axis_list, axis_list_len, oob, result, ghost, objs>>

\* The list entry motor_list[motor_list_len-1] / axis_list[axis_list_len-1]:
\* index len here, inside the array only for 1..MaxEntries.
InList(len) == len \in 1..MaxEntries

\* state_set_param: convert the value and write it into the current entry,
\* motor_list[motor_list_len-1] or axis_list[axis_list_len-1];
\* checked: a failed conversion is an error.
SetParamCore(checked) ==
    LET m == motor_list_len
        a == axis_list_len
    IN
    /\ state = "SET_PARAM"
    /\ IF checked /\ param_id # "name" /\ ~line.val
          THEN Goto("ERROR") /\ UNCHANGED <<motor_list, axis_list, oob>>
       ELSE /\ Goto("CLEANUP")
            /\ IF last_id = "MOTOR"
                  THEN /\ IF InList(m)
                             THEN motor_list' = [motor_list EXCEPT ![m] =
                                     IF param_id = "name" THEN [@ EXCEPT !.name = line.val]
                                     ELSE [@ EXCEPT !.set = @ \cup {param_id}]]
                             ELSE UNCHANGED motor_list
                       /\ oob' = (oob \/ ~InList(m))
                       /\ UNCHANGED axis_list
                  ELSE /\ IF InList(a)
                             THEN axis_list' = [axis_list EXCEPT ![a] =
                                     IF param_id = "name" THEN [@ EXCEPT !.name = line.val]
                                     ELSE [@ EXCEPT !.mm = TRUE]]
                             ELSE UNCHANGED axis_list
                       /\ oob' = (oob \/ ~InList(a))
                       /\ UNCHANGED motor_list
    /\ UNCHANGED <<line, last_id, param_id, motor_list_len, axis_list_len,
                   result, ghost, objs>>

SetParamUnchecked == SetParamCore(FALSE)
SetParam == SetParamCore(TRUE)

\* get_motor_node_by_name: the first of the motor_list_len entries with the
\* name (0 if none); the loop reads past motor_list if motor_list_len is
\* larger than the array.
MotorNode(n) ==
    LET found == {k \in 1..motor_list_len : k <= MaxEntries /\ motor_list[k].name = n}
    IN IF found = {} THEN 0 ELSE CHOOSE k \in found : \A j \in found : k <= j
LookupOOB(n) == MotorNode(n) = 0 /\ motor_list_len > MaxEntries

\* The setter loop of state_read_motor_list over the names of the line,
\* appending to the motors of axis_list[axis_list_len-1] (ms) one at a time.
\* Returns the list, whether the loop stopped on an error and whether a
\* lookup or an append went outside its array.
RECURSIVE SetMotors(_, _)
SetMotors(ms, names) ==
    IF names = <<>> THEN [ms |-> ms, err |-> FALSE, oob |-> FALSE]
    ELSE LET n == Head(names)
             k == MotorNode(n)
         IN CASE n = "" -> [ms |-> ms, err |-> TRUE, oob |-> FALSE]
              [] k = 0 -> [ms |-> ms, err |-> TRUE, oob |-> LookupOOB(n)]
              [] Len(ms) >= MaxEntries \/ ~InList(axis_list_len) ->
                    LET r == SetMotors(ms, Tail(names))
                    IN [r EXCEPT !.oob = TRUE]
              [] OTHER -> SetMotors(Append(ms, k), Tail(names))

\* state_read_motor_list: a name ended by an invalid char (eol "bad") is not
\* set and stops the loop with an error, after the names before it are set.
ReadMotorList ==
    /\ state = "READ_MOTOR_LIST"
    /\ LET names == IF line.eol = "end" THEN line.names
                    ELSE SubSeq(line.names, 1, Len(line.names) - 1)
           cur == IF InList(axis_list_len) THEN axis_list[axis_list_len].motors
                  ELSE <<>>
           r == SetMotors(cur, names)
       IN /\ Goto(IF r.err \/ line.eol = "bad" THEN "ERROR" ELSE "CLEANUP")
          /\ oob' = (oob \/ r.oob)
          /\ axis_list' = IF InList(axis_list_len)
                            THEN [axis_list EXCEPT ![axis_list_len].motors = r.ms]
                            ELSE axis_list
    /\ UNCHANGED <<line, last_id, param_id, motor_list, motor_list_len,
                   axis_list_len, result, ghost, objs>>

\* CLEANUP: free the line, reset the buffers, read the next line.
Cleanup ==
    /\ state = "CLEANUP"
    /\ Goto("READ_LINE") /\ line' = NoLine
    /\ UNCHANGED <<last_id, param_id, motor_list, motor_list_len, axis_list,
                   axis_list_len, oob, result, ghost, objs>>

ErrorNoResult ==
    /\ state = "ERROR"
    /\ Goto("DONE")
    /\ UNCHANGED <<line, last_id, param_id, motor_list, motor_list_len,
                   axis_list, axis_list_len, oob, result, ghost, objs>>

\* ERROR: the state machine returns 1, read_motor_config returns -1.
Error ==
    /\ state = "ERROR"
    /\ Goto("DONE") /\ result' = "error"
    /\ UNCHANGED <<line, last_id, param_id, motor_list, motor_list_len,
                   axis_list, axis_list_len, oob, ghost, objs>>

\* validate_motor_node / validate_axis_node.
MotorValid(k) == motor_list[k].name # "" /\ motor_list[k].set = MotorKeys
AxisValid(k) == axis_list[k].motors # <<>> /\ axis_list[k].mm

\* FINISHED: the state machine returns 0 and read_motor_config calls
\* init_motors.
Finished ==
    /\ state = "FINISHED"
    /\ Goto("INIT_MOTORS") /\ init_i' = 1
    /\ UNCHANGED <<line, last_id, param_id, motor_list, motor_list_len, axis_list,
                   axis_list_len, oob, result, ghost, motor_obj, axis_obj, init_fail>>

\* init_motors returns -1 at once: the entry at i is incomplete (or, past
\* the array, taken as such), or its object could not be made.
InitStops(notMade) ==
    /\ Goto("DONE") /\ result' = "error"
    /\ oob' = (oob \/ ~InList(init_i))
    /\ init_fail' = notMade
    /\ UNCHANGED <<init_i, motor_obj, axis_obj>>

\* The first loop of init_motors: motor_list[i] is validated, then
\* stepper_init makes its Stepper or returns NULL; past the last motor the
\* second loop starts.
InitMotor ==
    /\ state = "INIT_MOTORS"
    /\ \/ /\ init_i > motor_list_len
          /\ Goto("INIT_AXES") /\ init_i' = 1
          /\ UNCHANGED <<oob, result, motor_obj, axis_obj, init_fail>>
       \/ /\ init_i <= motor_list_len /\ InList(init_i) /\ MotorValid(init_i)
          /\ motor_obj' = [motor_obj EXCEPT ![init_i] = TRUE]
          /\ init_i' = init_i + 1
          /\ UNCHANGED <<state, oob, result, axis_obj, init_fail>>
       \/ /\ init_i <= motor_list_len /\ InList(init_i) /\ MotorValid(init_i)
          /\ InitMayFail /\ InitStops(TRUE)
       \/ /\ init_i <= motor_list_len /\ ~(InList(init_i) /\ MotorValid(init_i))
          /\ InitStops(FALSE)
    /\ UNCHANGED <<line, last_id, param_id, motor_list, motor_list_len, axis_list,
                   axis_list_len, ghost>>

\* axis_init's check of the motors[] it is given: no NULL Stepper.
MotorsMade(i) == \A j \in ToSet(axis_list[i].motors) : motor_obj[j]

\* The second loop: axis_list[i] is validated, its motors' Steppers are
\* gathered and axis_init makes the Axis, or returns NULL (malloc, or a NULL
\* Stepper); past the last axis init_motors returns 0.
InitAxis ==
    /\ state = "INIT_AXES"
    /\ \/ /\ init_i > axis_list_len
          /\ Goto("DONE") /\ result' = "ok"
          /\ UNCHANGED <<init_i, oob, motor_obj, axis_obj, init_fail>>
       \/ /\ init_i <= axis_list_len /\ InList(init_i) /\ AxisValid(init_i)
          /\ MotorsMade(init_i)
          /\ axis_obj' = [axis_obj EXCEPT ![init_i] = TRUE]
          /\ init_i' = init_i + 1
          /\ UNCHANGED <<state, oob, result, motor_obj, init_fail>>
       \/ /\ init_i <= axis_list_len /\ InList(init_i) /\ AxisValid(init_i)
          /\ InitMayFail \/ ~MotorsMade(init_i)
          /\ InitStops(TRUE)
       \/ /\ init_i <= axis_list_len /\ ~(InList(init_i) /\ AxisValid(init_i))
          /\ InitStops(FALSE)
    /\ UNCHANGED <<line, last_id, param_id, motor_list, motor_list_len, axis_list,
                   axis_list_len, ghost>>

Next ==
    \/ ReadLine \/ ReadParam \/ ReadIdentifier \/ SetIdentifier
    \/ CheckParam \/ ReadValue \/ SetParam \/ ReadMotorList
    \/ Cleanup \/ Error \/ Finished \/ Open \/ InitMotor \/ InitAxis

\* The state machine is a single sequential loop: it keeps stepping.
Spec == Init /\ [][Next]_vars /\ WF_vars(Next)

\* get_axis_node_by_name, behind get_axis_by_name: the first entry with the
\* name among the first motor_list_len entries of axis_list (0 if none).
AxisNode(n) ==
    LET found == {k \in 1..motor_list_len : k <= MaxEntries /\ axis_list[k].name = n}
    IN IF found = {} THEN 0 ELSE CHOOSE k \in found : \A j \in found : k <= j

(***************************************************************************)
(* Properties                                                              *)
(***************************************************************************)

Motor == [name : Names \cup {""}, set : SUBSET MotorKeys]
AxisEntry == [name : Names \cup {""}, mm : BOOLEAN, motors : Seq(1..MaxEntries)]

TypeOK ==
    /\ state \in States
    /\ last_id \in {"MOTOR", "AXIS", "INVALID_TYPE"}
    /\ param_id \in Keys \cup {"motors", "INVALID_PARAM"}
    /\ motor_list \in [1..MaxEntries -> Motor]
    /\ axis_list \in [1..MaxEntries -> AxisEntry]
    /\ \A k \in 1..MaxEntries : Len(axis_list[k].motors) <= MaxEntries
    /\ motor_list_len \in Nat /\ axis_list_len \in Nat
    /\ oob \in BOOLEAN
    /\ init_i \in Nat /\ init_fail \in BOOLEAN
    /\ motor_obj \in [1..MaxEntries -> BOOLEAN] /\ axis_obj \in [1..MaxEntries -> BOOLEAN]
    /\ result \in {"none", "ok", "error"}
    /\ (state = "DONE") = (result # "none")

\* The names of the motors of axis_list[k], through the motor_list pointers.
AxisMotorNames(k) == [j \in 1..Len(axis_list[k].motors) |->
                        motor_list[axis_list[k].motors[j]].name]

\* The tables read_motor_config leaves are those the grammar gives the file.
TablesMatchSpec ==
    /\ motor_list_len = Len(spec_motors) /\ axis_list_len = Len(spec_axes)
    /\ \A k \in 1..motor_list_len : motor_list[k] = spec_motors[k]
    /\ \A k \in 1..axis_list_len :
          /\ axis_list[k].name = spec_axes[k].name
          /\ axis_list[k].mm = spec_axes[k].mm
          /\ AxisMotorNames(k) = spec_axes[k].motors

\* After a 0 return, get_motor_by_name gives a Stepper for every motor name
\* of the file (the node->motor of its first entry) and every axis has its
\* Axis.
ObjectsMade ==
    /\ \A k \in 1..motor_list_len : motor_obj[MotorNode(motor_list[k].name)]
    /\ \A k \in 1..axis_list_len : axis_obj[k]

\* read_motor_config (state machine, then init_motors) returns 0 exactly for
\* the files the specification's grammar and validation rules accept when
\* no stepper_init or axis_init fails, and then its motor and axis tables
\* hold the sections of the file in order, each axis pointing at the motors
\* its motors= lists name, and every motor and axis has its object (spec
\* 8.7, 8.8; a failure part way through init_motors must not return 0).
ParseMatchesSpec ==
    state = "DONE" =>
        /\ (result = "ok") = (SpecAccepts /\ ~init_fail)
        /\ result = "ok" => TablesMatchSpec /\ ObjectsMade

\* The parser never reads or writes outside motor_list, axis_list or an
\* axis' motors[] array, whatever the file holds.
WritesInBounds == ~oob

\* read_motor_config returns: the state machine reaches FINISHED or ERROR.
ParserTerminates == <>(state = "DONE")

\* After read_motor_config returns 0, get_axis_by_name finds every named
\* axis of the file (ipc_test looks up "x-axis" this way).
AxisLookupFindsAll ==
    state = "DONE" /\ result = "ok" =>
        \A k \in 1..axis_list_len : axis_list[k].name # "" => AxisNode(axis_list[k].name) # 0

====
