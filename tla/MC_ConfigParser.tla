--------------------------- MODULE MC_ConfigParser ---------------------------
(* Line shapes for the checks of ConfigParser: two motor names, one motor  *)
(* key besides name (it stands for step_pin, dir_pin, steps_per_rotation,  *)
(* direction and microstep, which share their handling), two entries of    *)
(* each kind.                                                              *)
EXTENDS ConfigParser

MCNames == {"a", "b"}
MCMotorKeys == {"step_pin"}

Headers == [t : {"header"}, id : {"motor", "axis", "other"}, closed : BOOLEAN,
            exact : BOOLEAN]
NameParams == [t : {"param"}, key : {"name"}, val : MCNames, eol : {"end", "bad"},
               exact : BOOLEAN]
ValueParams == [t : {"param"}, key : MCMotorKeys \cup AxisKeys, val : BOOLEAN,
                eol : {"end", "bad"}, exact : BOOLEAN]
MotorsLines == [t : {"motors"}, eol : {"end", "bad"}, exact : BOOLEAN,
                names : {<<"a">>, <<"b">>, <<"">>, <<"a", "b">>, <<"b", "a">>}]

\* Every shape: for files that may break the grammar anywhere.
AllLines == {[t |-> "skip"], [t |-> "badchar"]}
            \cup Headers \cup NameParams \cup ValueParams \cup MotorsLines

\* The shapes of a well-formed file (each still with its bad variants);
\* identifiers and keys are spelled exactly.
GoodLines == {l \in {[t |-> "skip"]}
                     \cup {h \in Headers : h.id # "other"}
                     \cup {p \in NameParams : p.eol = "end"}
                     \cup ValueParams
                     \cup {m \in MotorsLines : m.names \in {<<"a">>, <<"a", "b">>, <<"">>}} :
                Exact(l)}

\* The good shapes only: a file read_motor_config accepts.
AcceptedLines == {l \in GoodLines :
                    \/ l.t \in {"skip", "header"}
                    \/ l.t = "param" /\ l.eol = "end" /\ (l.key # "name" => l.val)
                    \/ l.t = "motors" /\ l.eol = "end" /\ l.names = <<"a">>}
==============================================================================
