-------------------------- MODULE NonBlockingDelay --------------------------
(***************************************************************************)
(* The delays all modules time with.  A delay keeps the tick at which it   *)
(* began and compares with a counter all delays share: each live object    *)
(* has a ticker of its own that advances it every 10 ms.  The dialogues    *)
(* with the modem let a delay come due at any time; what it lasts is here. *)
(***************************************************************************)
EXTENDS Integers

(* 2^64 in the code: small here, so that the counter wraps. *)
TickModulus == 16

NewDelay(duration) == [duration |-> duration, startTime |-> 0, isRunning |-> FALSE]

restartDelay(delay, tickCounter) ==
    [delay EXCEPT !.startTime = tickCounter, !.isRunning = TRUE]

writeDelay(delay, duration) == [delay EXCEPT !.duration = duration]

timeArrived(delay, tickCounter) ==
    delay.isRunning /\ (tickCounter - delay.startTime) % TickModulus >= delay.duration

(* read(): starts a delay that is not running, stops one that has elapsed.   *)
readDelay(delay, tickCounter) ==
    IF ~delay.isRunning THEN restartDelay(delay, tickCounter)
    ELSE [delay EXCEPT !.isRunning = ~timeArrived(delay, tickCounter)]

(* The counter n periods of 10 ms after t, with live objects. *)
tickerCallbacks(t, n, live) == (t + n * live) % TickModulus

-----------------------------------------------------------------------------
(* A delay begun by a read, or by restart(), and read in every period: its   *)
(* state after n periods, and the first period whose read reports it.        *)
AfterReads(delay, t, live) ==
    LET d[n \in 0 .. TickModulus] ==
            IF n = 0 THEN readDelay(delay, t)
            ELSE readDelay(d[n - 1], tickerCallbacks(t, n, live))
    IN  d

Lasts(delay, t, live) ==
    LET d == AfterReads(delay, t, live)
    IN  CHOOSE n \in 1 .. TickModulus :
            ~d[n].isRunning /\ \A m \in 0 .. n - 1 : d[m].isRunning

(* However the counter wraps, a delay is reported once, at its end and never *)
(* before: after its duration in ticks, the periods of which the objects     *)
(* alive share.  With n of them it lasts an n-th of duration * 10 ms         *)
(* (Non_Blocking_Delay.cpp:30-60).                                           *)
ASSUME DelaysElapse ==
    \A duration \in 1 .. 12, t \in 0 .. TickModulus - 1, live \in 1 .. 4 :
        Lasts(NewDelay(duration), t, live) = (duration + live - 1) \div live

(* A duration written while a delay runs takes effect at once: what has      *)
(* passed of the old one counts for the new one (Non_Blocking_Delay.cpp:73). *)
ASSUME WrittenDelaysCount ==
    \A old, new \in 1 .. 8, t \in 0 .. TickModulus - 1 : \A passed \in 0 .. old - 1 :
        LET delay == writeDelay(restartDelay(NewDelay(old), t), new)
        IN  timeArrived(delay, tickerCallbacks(t, passed, 1)) <=> passed >= new
=============================================================================
