----------------------------- MODULE TimeWheel -----------------------------
(* The timer wheel of time_wheel_timer.h: N slots of timers, one of which is *)
(* looked at on each tick.  A slot is an unordered list, here a set.         *)
(*                                                                           *)
(* An operator named like another with a suffix is that operator with a      *)
(* plausible mistake, which the specification does not use (FiringLast).     *)
EXTENDS Integers

CONSTANTS N, SI,        \* slots, and time units from one to the next
          Timers,
          Timeouts      \* what add_timer is called with

\* What is assumed of the constants.
Parameters == N \in Nat \ {0} /\ SI \in Nat \ {0} /\ Timeouts \subseteq Int

VARIABLES slots, cur_slot,
          rotation, time_slot,  \* the fields of a timer in the wheel
          asked                 \* history: its timeout, which no field holds

vars == <<slots, cur_slot, rotation, time_slot, asked>>

Slots == 0 .. N - 1

TypeOK ==
    /\ slots \in [Slots -> SUBSET Timers]
    /\ cur_slot \in Slots
    /\ rotation \in [Timers -> Nat]
    /\ time_slot \in [Timers -> Slots]
    /\ asked \in [Timers -> Timeouts \union {-1}]

InWheel == {t \in Timers : t \in slots[time_slot[t]]}

Init ==
    /\ slots = [i \in Slots |-> {}]
    /\ cur_slot = 0
    /\ rotation = [t \in Timers |-> 0]
    /\ time_slot = [t \in Timers |-> 0]
    /\ asked = [t \in Timers |-> -1]

\* At least one tick; SI to a slot.
TicksOfRoundedUp(timeout) == IF timeout < SI THEN 1 ELSE (timeout + SI - 1) \div SI
TicksOf(timeout) == IF timeout < SI THEN 1 ELSE timeout \div SI

SlotOfNoWrap(ticks) == cur_slot + (ticks % N)
SlotOf(ticks) == (cur_slot + (ticks % N)) % N

PlaceRelative(t, ticks) ==
    /\ rotation' = [rotation EXCEPT ![t] = ticks \div N]
    /\ time_slot' = [time_slot EXCEPT ![t] = ticks % N]
    /\ slots' = [slots EXCEPT ![SlotOf(ticks)] = @ \union {t}]
Place(t, ticks) ==
    /\ rotation' = [rotation EXCEPT ![t] = ticks \div N]
    /\ time_slot' = [time_slot EXCEPT ![t] = SlotOf(ticks)]
    /\ slots' = [slots EXCEPT ![SlotOf(ticks)] = @ \union {t}]

add_timer(t, timeout) ==
    /\ timeout >= 0 /\ t \notin InWheel
    /\ Place(t, TicksOf(timeout))
    /\ asked' = [asked EXCEPT ![t] = timeout]
    /\ UNCHANGED cur_slot

del_timer(t) ==
    /\ t \in InWheel
    /\ slots' = [slots EXCEPT ![time_slot[t]] = @ \ {t}]
    /\ asked' = [asked EXCEPT ![t] = -1]
    /\ UNCHANGED <<cur_slot, rotation, time_slot>>

\* The timers of the current slot whose callback runs.
FiringLast == {t \in slots[cur_slot] : rotation[t] <= 1}
Firing == {t \in slots[cur_slot] : rotation[t] = 0}

tick ==
    /\ rotation' = [t \in Timers |->
                      IF t \in slots[cur_slot] \ Firing
                      THEN rotation[t] - 1 ELSE rotation[t]]
    /\ slots' = [slots EXCEPT ![cur_slot] = @ \ Firing]
    /\ cur_slot' = (cur_slot + 1) % N
    /\ asked' = [t \in Timers |-> IF t \in Firing THEN -1 ELSE asked[t]]
    /\ UNCHANGED time_slot

Next ==
    \/ \E t \in Timers : del_timer(t) \/ \E x \in Timeouts : add_timer(t, x)
    \/ tick

Spec == Init /\ [][Next]_vars

-----------------------------------------------------------------------------
(* A timer is in no slot but the one it names: del_timer finds it there      *)
(* (lines 94 to 112), and tick runs it once (line 128).                      *)
InOneSlot == \A i \in Slots : \A t \in slots[i] : time_slot[t] = i

(* The ticks a timer of the wheel still lets pass.                           *)
Distance(i, j) == IF i <= j THEN j - i ELSE j - i + N
Left == [t \in Timers |->
           IF t \in InWheel
           THEN rotation[t] * N + Distance(cur_slot, time_slot[t]) ELSE -1]

(* The wheel implements the countdown: whatever rotations a timer waits and  *)
(* whenever others come and go, its callback runs on the tick that the       *)
(* timeout given to add_timer asks for (lines 60 to 71, 121 to 152).         *)
Promise == INSTANCE Countdown WITH left <- Left
FiresOnItsTick == Promise!Spec

=============================================================================
