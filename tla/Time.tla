-------------------------------- MODULE Time --------------------------------
(***************************************************************************)
(* The timespec helpers of src/core/src/Time.c that the engine uses.  A    *)
(* struct timespec is a record [sec, nsec]; the unit constants are those   *)
(* of src/core/include/Time.h.                                             *)
(***************************************************************************)
EXTENDS Integers

NANO_IN_SECOND == 1000000000
MICRO_IN_SECOND == 1000000
NANO_IN_MICRO == 1000

\* microsec_to_timespec.  `us * NANO_IN_MICRO` is an unsigned int product;
\* it wraps only for us >= 4294968, above every half period the engine
\* stores (at most 500000), so the product is taken as exact here.  The
\* seconds are computed with `%` where `/` was meant: the result is a
\* normalised timespec only below one second.
MicrosecToTimespec(us) ==
    LET ns == us * NANO_IN_MICRO
        s == IF ns > NANO_IN_SECOND THEN ns % NANO_IN_SECOND ELSE 0
    IN [sec |-> s, nsec |-> ns - s * NANO_IN_SECOND]

\* Reference: t is the normalised timespec of exactly us microseconds.
IsTimespecOfMicros(t, us) ==
    /\ t.nsec \in 0 .. NANO_IN_SECOND - 1
    /\ t.nsec % NANO_IN_MICRO = 0
    /\ t.sec * MICRO_IN_SECOND + t.nsec \div NANO_IN_MICRO = us
=============================================================================
