----------------------------- MODULE TimerQueue -----------------------------
(* What sort_timer_lst promises its user: the timers that were added and not *)
(* deleted, of which a tick runs, earliest first, all that are due at the    *)
(* time it begins, and no other.                                             *)
EXTENDS Integers

CONSTANTS Timers, Times

VARIABLES pending,      \* the time each timer that is set expires at
          cur           \* the time the running tick goes by, or -1

Set == DOMAIN pending
Due == {t \in Set : pending[t] <= cur}

Init == pending = [t \in {} |-> 0] /\ cur = -1

Schedule(t, e) == pending' = [u \in Set \union {t} |-> IF u = t THEN e ELSE pending[u]]
Forget(t)      == pending' = [u \in Set \ {t} |-> pending[u]]

Add(t, e)    == cur = -1 /\ t \notin Set /\ Schedule(t, e) /\ cur' = cur

\* A timer may only be put off.
Adjust(t, e) == cur = -1 /\ t \in Set /\ pending[t] <= e /\ Schedule(t, e) /\ cur' = cur

Delete(t)    == cur = -1 /\ t \in Set /\ Forget(t) /\ cur' = cur

TickBegin(c) == cur = -1 /\ cur' = c /\ UNCHANGED pending

Run(t) ==
    /\ t \in Due /\ \A u \in Due : pending[t] <= pending[u]
    /\ Forget(t) /\ cur' = cur

TickEnd == cur # -1 /\ Due = {} /\ cur' = -1 /\ UNCHANGED pending

Next ==
    \/ \E t \in Timers, e \in Times : Add(t, e) \/ Adjust(t, e)
    \/ \E t \in Timers : Delete(t) \/ Run(t)
    \/ \E c \in Times : TickBegin(c)
    \/ TickEnd

Spec == Init /\ [][Next]_<<pending, cur>>

=============================================================================
