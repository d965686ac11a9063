----------------------------- MODULE TimerList -----------------------------
(* The sorted timer list of lst_timer.h, pointer by pointer: util_timer      *)
(* objects linked both ways in the order they expire.  A timer is the        *)
(* address of an object, which new may hand out again after delete.          *)
(*                                                                           *)
(* An operator named like another with a suffix is that operator with a      *)
(* plausible mistake, which the specification does not use (DelHeadKept).    *)
EXTENDS Integers, FiniteSets

CONSTANTS Timers, Null, Times

ASSUME NullAssumption == Null \notin Timers
ASSUME TimersAssumption == IsFiniteSet(Timers)      \* memory is finite
ASSUME TimesAssumption == Times \subseteq Nat

VARIABLES
    head, tail,         \* of the list; tail is meaningless when head is null
    prev, next, expire, \* the fields of each object
    live,               \* objects allocated
    pc,                 \* "idle", or in the loop of add_timer or of tick
    timer, prv, tmp,    \* locals of those loops (prv is line 153's prev)
    cur                 \* the time tick goes by, or -1

list == <<head, tail, prev, next, expire, live>>
locals == <<pc, timer, prv, tmp, cur>>
vars == <<list, locals>>

Pointer == Timers \union {Null}

TypeOK ==
    /\ live \subseteq Timers
    /\ head \in live \union {Null} /\ tail \in Pointer
    /\ prev \in [Timers -> Pointer] /\ next \in [Timers -> Pointer]
    /\ expire \in [Timers -> Nat]
    /\ pc \in {"idle", "insert", "tick"}
    /\ timer \in live \union {Null} /\ prv \in live \union {Null}
    /\ tmp \in live \union {Null}
    /\ cur \in Times \union {-1}

Init ==
    /\ head = Null /\ tail = Null
    /\ prev = [t \in Timers |-> Null] /\ next = [t \in Timers |-> Null]
    /\ expire = [t \in Timers |-> 0]
    /\ live = {}
    /\ pc = "idle" /\ timer = Null /\ prv = Null /\ tmp = Null /\ cur = -1

Return == pc' = "idle" /\ timer' = Null /\ prv' = Null /\ tmp' = Null /\ cur' = -1

-----------------------------------------------------------------------------
(* The private add_timer: find the place of t from the head on (whatever its *)
(* second argument is), and link it there.                                   *)

Search(t, first) ==
    /\ pc' = "insert" /\ timer' = t
    /\ prv' = first /\ tmp' = next'[first]
    /\ cur' = cur

Skips == expire[timer] >= expire[tmp]

InsertSkipStays ==
    /\ pc = "insert" /\ tmp # Null /\ Skips
    /\ prv' = tmp
    /\ UNCHANGED <<list, pc, timer, tmp, cur>>

InsertSkip ==
    /\ pc = "insert" /\ tmp # Null /\ Skips
    /\ prv' = tmp /\ tmp' = next[tmp]
    /\ UNCHANGED <<list, pc, timer, cur>>

InsertHere ==
    /\ pc = "insert" /\ tmp # Null /\ ~Skips
    /\ next' = [next EXCEPT ![prv] = timer, ![timer] = tmp]
    /\ prev' = [prev EXCEPT ![tmp] = timer, ![timer] = prv]
    /\ Return
    /\ UNCHANGED <<head, tail, expire, live>>

InsertLast ==
    /\ pc = "insert" /\ tmp = Null
    /\ next' = [next EXCEPT ![prv] = timer, ![timer] = Null]
    /\ prev' = [prev EXCEPT ![timer] = prv]
    /\ tail' = timer
    /\ Return
    /\ UNCHANGED <<head, expire, live>>

insert == InsertSkip \/ InsertHere \/ InsertLast

-----------------------------------------------------------------------------
(* add_timer of a new object t that expires at e.                            *)

New(t, e) ==
    /\ pc = "idle" /\ t \notin live
    /\ live' = live \union {t} /\ expire' = [expire EXCEPT ![t] = e]

AddFirstEver(t, e) ==
    /\ head = Null /\ New(t, e)
    /\ head' = t /\ tail' = t
    /\ next' = [next EXCEPT ![t] = Null] /\ prev' = [prev EXCEPT ![t] = Null]
    /\ UNCHANGED locals

AddFirst(t, e) ==
    /\ head # Null /\ e < expire[head] /\ New(t, e)
    /\ next' = [next EXCEPT ![t] = head]
    /\ prev' = [prev EXCEPT ![t] = Null, ![head] = t]
    /\ head' = t
    /\ UNCHANGED <<tail, locals>>

AddLater(t, e) ==
    /\ head # Null /\ e >= expire[head] /\ New(t, e)
    /\ next' = [next EXCEPT ![t] = Null] /\ prev' = [prev EXCEPT ![t] = Null]
    /\ Search(t, head)
    /\ UNCHANGED <<head, tail>>

add_timer(t, e) == AddFirstEver(t, e) \/ AddFirst(t, e) \/ AddLater(t, e)

-----------------------------------------------------------------------------
(* adjust_timer, the caller having put t off to e.                           *)

PutOff(t, e) ==
    /\ pc = "idle" /\ t \in live /\ e >= expire[t]
    /\ expire' = [expire EXCEPT ![t] = e]

InPlaceUnlessHead(t, e) == t = head => next[t] = Null
InPlace(t, e) == next[t] # Null => e < expire[next[t]]

AdjustInPlace(t, e) ==
    /\ PutOff(t, e) /\ InPlace(t, e)
    /\ UNCHANGED <<head, tail, prev, next, live, locals>>

AdjustHead(t, e) ==
    /\ PutOff(t, e) /\ ~InPlace(t, e) /\ t = head
    /\ head' = next[t]
    /\ prev' = [prev EXCEPT ![next[t]] = Null]
    /\ next' = [next EXCEPT ![t] = Null]
    /\ Search(t, head')
    /\ UNCHANGED <<tail, live>>

AdjustInner(t, e) ==
    /\ PutOff(t, e) /\ ~InPlace(t, e) /\ t # head
    /\ next' = [next EXCEPT ![prev[t]] = next[t]]
    /\ prev' = [prev EXCEPT ![next[t]] = prev[t]]
    /\ Search(t, head)
    /\ UNCHANGED <<head, tail, live>>

adjust_timer(t, e) == AdjustInPlace(t, e) \/ AdjustHead(t, e) \/ AdjustInner(t, e)

-----------------------------------------------------------------------------
(* del_timer.                                                                *)

Delete(t) == pc = "idle" /\ t \in live /\ live' = live \ {t} /\ UNCHANGED <<expire, locals>>

DelOnly(t) ==
    /\ t = head /\ t = tail /\ Delete(t)
    /\ head' = Null /\ tail' = Null
    /\ UNCHANGED <<prev, next>>

DelHeadKept(t) ==
    /\ t = head /\ t # tail /\ Delete(t)
    /\ prev' = [prev EXCEPT ![next[t]] = Null]
    /\ UNCHANGED <<head, tail, next>>

DelHead(t) ==
    /\ t = head /\ t # tail /\ Delete(t)
    /\ head' = next[t]
    /\ prev' = [prev EXCEPT ![next[t]] = Null]
    /\ UNCHANGED <<tail, next>>

DelTailKept(t) ==
    /\ t # head /\ t = tail /\ Delete(t)
    /\ next' = [next EXCEPT ![prev[t]] = Null]
    /\ UNCHANGED <<head, tail, prev>>

DelTail(t) ==
    /\ t # head /\ t = tail /\ Delete(t)
    /\ tail' = prev[t]
    /\ next' = [next EXCEPT ![prev[t]] = Null]
    /\ UNCHANGED <<head, prev>>

DelInner(t) ==
    /\ t # head /\ t # tail /\ Delete(t)
    /\ next' = [next EXCEPT ![prev[t]] = next[t]]
    /\ prev' = [prev EXCEPT ![next[t]] = prev[t]]
    /\ UNCHANGED <<head, tail>>

del_timer(t) == DelOnly(t) \/ DelHead(t) \/ DelTail(t) \/ DelInner(t)

-----------------------------------------------------------------------------
(* tick: run and delete timers from the head on, as long as they are due.    *)

TickBegin(now) ==
    /\ pc = "idle" /\ head # Null
    /\ pc' = "tick" /\ cur' = now /\ tmp' = head
    /\ UNCHANGED <<list, timer, prv>>

Due == expire[tmp] <= cur

TickRun ==
    /\ pc = "tick" /\ tmp # Null /\ Due
    /\ head' = next[tmp] /\ tmp' = next[tmp]
    /\ prev' = IF next[tmp] = Null THEN prev ELSE [prev EXCEPT ![next[tmp]] = Null]
    /\ live' = live \ {tmp}
    /\ UNCHANGED <<tail, next, expire, pc, timer, prv, cur>>

TickEnd ==
    /\ pc = "tick" /\ (tmp # Null => ~Due)
    /\ Return
    /\ UNCHANGED list

Loop == insert \/ TickRun \/ TickEnd

Next ==
    \/ \E t \in Timers, e \in Times : add_timer(t, e) \/ adjust_timer(t, e)
    \/ \E t \in Timers : del_timer(t)
    \/ \E now \in Times : TickBegin(now)
    \/ Loop

\* A call that was made runs on.
Spec == Init /\ [][Next]_vars /\ WF_vars(Loop)

-----------------------------------------------------------------------------
Linked == live \ {timer}

\* The k-th object from the head on.
Nth[k \in Nat] ==
    IF k = 0 THEN head
    ELSE IF Nth[k - 1] = Null THEN Null ELSE next[Nth[k - 1]]

(* Between and during calls the list holds every object but the one being    *)
(* inserted, none of them freed, in the order they expire, and can be walked *)
(* both ways from head to tail (lines 45 to 175); so del_timer and           *)
(* adjust_timer never follow a null or dangling pointer.                     *)
WellLinked ==
    /\ {Nth[k] : k \in 0 .. Cardinality(Timers)} \ {Null} = Linked
    /\ head # Null => tail \in Linked /\ prev[head] = Null /\ next[tail] = Null
    /\ \A t \in Linked \ {tail} :
        next[t] \in Linked /\ prev[next[t]] = t /\ expire[t] <= expire[next[t]]

(* The list implements the queue: a tick runs every timer that is due and no *)
(* other, the earliest first, and no adjustment or deletion loses one.       *)
Promise == INSTANCE TimerQueue WITH pending <- [t \in live |-> expire[t]]
RunsDueInOrder == Promise!Spec

(* Every call returns: the loops of lines 134 and 155 meet the list's end.   *)
CallsReturn == pc # "idle" ~> pc = "idle"

=============================================================================
