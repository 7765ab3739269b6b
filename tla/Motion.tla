------------------------------- MODULE Motion -------------------------------
(***************************************************************************)
(* What the stepper engine promises its callers, without threads, mutexes  *)
(* or condition variables.  A motion owns a set of motors; while it runs,  *)
(* each pulse moves every motor it owns by one step in that motor's        *)
(* direction, and it gives at most the number of pulses it was asked for.  *)
(* It ends with the pulse after which its count is exhausted or one of its *)
(* motors has a stop request; it then hands its motors back one by one and *)
(* retires.  A motor's direction changes only while no motion owns it.     *)
(***************************************************************************)
EXTENDS Integers

CONSTANTS
    Motors,   \* the motors
    Reqs,     \* names of motions (the request objects of the engine)
    NoReq,    \* "owned by no motion"
    Counts    \* pulse counts a motion may be asked for (all > 0)

VARIABLES
    owner,    \* owner[m]: the motion that owns motor m, or NoReq
    left,     \* left[r]: pulses motion r may still give
    done,     \* done[r]: motion r has given its last pulse
    pos,      \* pos[m]: steps taken by motor m
    dir,      \* dir[m]: "positive" or "negative"
    halt      \* halt[m]: a stop has been requested for motor m

mvars == <<owner, left, done, pos, dir, halt>>

Members(r) == {m \in Motors : owner[m] = r}

Init ==
    /\ owner = [m \in Motors |-> NoReq]
    /\ left = [r \in Reqs |-> 0]
    /\ done = [r \in Reqs |-> FALSE]
    /\ pos = [m \in Motors |-> 0]
    /\ dir = [m \in Motors |-> "positive"]
    /\ halt = [m \in Motors |-> FALSE]

\* A motion starts on free motors only.
Start(r, S, n) ==
    /\ Members(r) = {} /\ ~done[r]
    /\ S # {} /\ \A m \in S : owner[m] = NoReq
    /\ owner' = [m \in Motors |-> IF m \in S THEN r ELSE owner[m]]
    /\ left' = [left EXCEPT ![r] = n]
    /\ UNCHANGED <<done, pos, dir, halt>>

\* One pulse moves all members together; it is the last one when the count
\* is exhausted or a member has a stop request.
Pulse(r) ==
    /\ Members(r) # {} /\ ~done[r] /\ left[r] > 0
    /\ pos' = [m \in Motors |->
                 IF m \in Members(r)
                 THEN pos[m] + (IF dir[m] = "positive" THEN 1 ELSE -1)
                 ELSE pos[m]]
    /\ left' = [left EXCEPT ![r] = @ - 1]
    /\ done' = [done EXCEPT ![r] = left[r] = 1 \/ \E m \in Members(r) : halt[m]]
    /\ UNCHANGED <<owner, dir, halt>>

\* A finished motion hands a motor back.
Release(r, m) ==
    /\ done[r] /\ owner[m] = r
    /\ owner' = [owner EXCEPT ![m] = NoReq]
    /\ UNCHANGED <<left, done, pos, dir, halt>>

\* A finished motion with no motors left is gone.
Retire(r) ==
    /\ done[r] /\ Members(r) = {}
    /\ done' = [done EXCEPT ![r] = FALSE]
    /\ left' = [left EXCEPT ![r] = 0]
    /\ UNCHANGED <<owner, pos, dir, halt>>

\* Direction changes only on a motor no motion owns.
SetDir(m, d) ==
    /\ owner[m] = NoReq
    /\ dir' = [dir EXCEPT ![m] = d]
    /\ UNCHANGED <<owner, left, done, pos, halt>>

\* Stop requests come and go at any time.
SetHalt(m, b) ==
    /\ halt' = [halt EXCEPT ![m] = b]
    /\ UNCHANGED <<owner, left, done, pos, dir>>

Next ==
    \/ \E r \in Reqs, S \in SUBSET Motors, n \in Counts : Start(r, S, n)
    \/ \E r \in Reqs : Pulse(r) \/ Retire(r)
    \/ \E r \in Reqs, m \in Motors : Release(r, m)
    \/ \E m \in Motors, d \in {"positive", "negative"} : SetDir(m, d)
    \/ \E m \in Motors, b \in BOOLEAN : SetHalt(m, b)

Spec == Init /\ [][Next]_mvars
=============================================================================
