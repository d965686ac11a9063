----------------------------- MODULE Countdown -----------------------------
(* What a timer facility promises that is told of time by ticks, SI units    *)
(* apart: the callback of a timer runs once, on the first tick by which more *)
(* than its timeout has passed, but never on the very next tick; unless the  *)
(* timer is deleted.                                                         *)
EXTENDS Integers

CONSTANTS Timers, Timeouts, SI

VARIABLES asked,    \* the timeout a timer was set to, or -1
          left      \* ticks it still lets pass, or -1: it is not set

TypeOK ==
    /\ asked \in [Timers -> Timeouts \union {-1}]
    /\ left \in [Timers -> Nat \union {-1}]

Init ==
    /\ asked = [t \in Timers |-> -1]
    /\ left = [t \in Timers |-> -1]

\* Tick k + 1 is the one, counted from the call.
LetsPass(k, timeout) ==
    /\ timeout < (k + 1) * SI
    /\ k = 1 \/ k * SI <= timeout

Set(t, timeout) ==
    /\ left[t] = -1
    /\ asked' = [asked EXCEPT ![t] = timeout]
    /\ \E k \in 1 .. timeout + 1 :
          LetsPass(k, timeout) /\ left' = [left EXCEPT ![t] = k]

Delete(t) ==
    /\ left[t] # -1
    /\ asked' = [asked EXCEPT ![t] = -1]
    /\ left' = [left EXCEPT ![t] = -1]

\* left[t] = 0: the callback runs and the timer is no more.
Tick ==
    /\ asked' = [t \in Timers |-> IF left[t] = 0 THEN -1 ELSE asked[t]]
    /\ left' = [t \in Timers |-> IF left[t] = -1 THEN -1 ELSE left[t] - 1]

Next ==
    \/ \E t \in Timers : Delete(t) \/ \E x \in Timeouts : Set(t, x)
    \/ Tick

Spec == Init /\ [][Next]_<<asked, left>>

=============================================================================
