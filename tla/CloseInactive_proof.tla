------------------------ MODULE CloseInactive_proof ------------------------
(* For all descriptors, timers and bounds: the timers of open connections    *)
(* are theirs alone, and events are about the connections they name.  Both   *)
(* invariants are inductive with the types.                                  *)
EXTENDS CloseInactive, TLAPS

Inv == TypeOK /\ TimerPerConn /\ EventsAreCurrent

LEMMA FdsAreNat == \A fd \in Fds : fd \in Nat /\ fd # Listen
BY FdsAssumption DEF Listen

LEMMA HappensKeeps ==
    ASSUME Inv, NEW fd \in Fds, NEW c \in Conns, c.open, Happens(fd, c)
    PROVE  Inv'
<1>1. /\ conn[fd].open /\ conn' = [conn EXCEPT ![fd] = c]
      /\ ready' = ready \union {fd}
      /\ UNCHANGED <<pc, batch, backlog, timer, live, due, pipe, made>>
  BY DEF Happens
<1>2. Open' = Open
  BY <1>1 DEF Open, Inv, TypeOK
<1>3. TypeOK'
  BY <1>1 DEF Inv, TypeOK
<1>4. TimerPerConn'
  BY <1>1, <1>2 DEF Inv, TimerPerConn
<1>5. fd \in Open
  BY <1>1 DEF Open
<1>6. EventsAreCurrent'
  BY <1>1, <1>2, <1>5, FdsAreNat DEF Inv, EventsAreCurrent
<1> QED
  BY <1>3, <1>4, <1>6 DEF Inv

LEMMA ClientKeeps ==
    ASSUME Inv, NEW fd \in Fds, ClientSend(fd) \/ ClientEnd(fd)
    PROVE  Inv'
<1>1. conn[fd] \in Conns
  BY DEF Inv, TypeOK
<1>2. CASE ClientSend(fd)
  <2> DEFINE c == [conn[fd] EXCEPT !.unread = @ + 1]
  <2>1. conn[fd].open
    BY <1>2 DEF ClientSend, Happens
  <2>2. c \in Conns /\ c.open
    BY <1>1, <2>1 DEF Conns
  <2> QED
    BY <1>2, <2>2, HappensKeeps DEF ClientSend
<1>3. CASE ClientEnd(fd)
  <2>1. conn[fd].open
    BY <1>3 DEF ClientEnd, Happens
  <2> DEFINE c == [conn[fd] EXCEPT !.peer = "shut"]
             d(n) == [conn[fd] EXCEPT !.peer = "reset", !.unread = n]
  <2>2. c \in Conns /\ c.open
    BY <1>1, <2>1 DEF Conns
  <2>3. ASSUME NEW n \in {0, conn[fd].unread} PROVE d(n) \in Conns /\ d(n).open
    <3>1. n \in Nat
      BY <1>1 DEF Conns
    <3> QED
      BY <1>1, <2>1, <3>1 DEF Conns
  <2>4. Happens(fd, c) \/ \E n \in {0, conn[fd].unread} : Happens(fd, d(n))
    BY <1>3 DEF ClientEnd
  <2> HIDE DEF c, d
  <2> QED
    BY <2>2, <2>3, <2>4, HappensKeeps
<1> QED
  BY <1>2, <1>3

LEMMA AcceptKeeps == ASSUME Inv, Accept PROVE Inv'
<1>1. /\ Listen \in batch /\ backlog > 0 /\ backlog' = backlog - 1
      /\ batch' = batch \ {Listen}
      /\ UNCHANGED <<pc, due, pipe, made>>
  BY DEF Accept, Accepted
<1>2. PICK fd \in Fds \ Open, t \in Timers \ live,
           n \in 0 .. MaxUnread, peer \in {"open", "shut", "reset"} :
        /\ conn' = [conn EXCEPT ![fd] = [open |-> TRUE, unread |-> n, peer |-> peer]]
        /\ ready' = IF n > 0 \/ peer # "open" THEN ready \union {fd} ELSE ready
        /\ timer' = [timer EXCEPT ![fd] = t]
        /\ live' = live \union {t}
  BY DEF Accept
<1>3. [open |-> TRUE, unread |-> n, peer |-> peer] \in Conns
  BY <1>2, BoundAssumption DEF Conns
<1>4. TypeOK'
  BY <1>1, <1>2, <1>3, BoundAssumption DEF Inv, TypeOK
<1>5. Open' = Open \union {fd}
  BY <1>2 DEF Open, Inv, TypeOK
<1>6. TimerPerConn'
  <2>1. timer'[fd] = t /\ \A f \in Fds \ {fd} : timer'[f] = timer[f]
    BY <1>2 DEF Inv, TypeOK
  <2>2. \A f \in Open : f # fd /\ f \in Fds /\ timer[f] \in live /\ timer[f] # t
    BY <1>2 DEF Inv, TimerPerConn, Open
  <2> QED
    BY <1>2, <1>5, <2>1, <2>2 DEF Inv, TimerPerConn
<1>7. EventsAreCurrent'
  <2>1. backlog \in Nat
    BY BoundAssumption DEF Inv, TypeOK
  <2> QED
    BY <1>1, <1>2, <1>5, <2>1, FdsAreNat DEF Inv, EventsAreCurrent
<1> QED
  BY <1>4, <1>6, <1>7 DEF Inv

LEMMA ReadKeeps == ASSUME Inv, NEW fd \in Fds, Read(fd) PROVE Inv'
<1>1. /\ fd \in batch /\ batch' = batch \ {fd}
      /\ UNCHANGED <<pc, backlog, due, pipe, made>>
  BY DEF Read
<1>2. conn[fd] \in Conns
  BY DEF Inv, TypeOK
<1>3. CASE ReadSome(fd)
  <2>1. /\ conn[fd].unread > 0 /\ conn' = [conn EXCEPT ![fd].unread = @ - 1]
        /\ UNCHANGED <<ready, timer, live>>
    BY <1>3 DEF ReadSome
  <2>2. [conn[fd] EXCEPT !.unread = @ - 1] \in Conns
    BY <1>2, <2>1 DEF Conns
  <2>3. TypeOK'
    BY <1>1, <2>1, <2>2 DEF Inv, TypeOK
  <2>4. Open' = Open
    BY <1>2, <2>1 DEF Open, Inv, TypeOK, Conns
  <2> QED
    BY <1>1, <2>1, <2>3, <2>4, FdsAreNat DEF Inv, TimerPerConn, EventsAreCurrent
<1>4. CASE ReadNothing(fd)
  <2>1. UNCHANGED <<ready, conn, timer, live>>
    BY <1>4 DEF ReadNothing
  <2>2. Open' = Open
    BY <2>1 DEF Open
  <2> QED
    BY <1>1, <2>1, <2>2, FdsAreNat DEF Inv, TypeOK, TimerPerConn, EventsAreCurrent
<1>5. CASE ReadEnd(fd)
  <2>1. /\ conn' = [conn EXCEPT ![fd] = Closed] /\ ready' = ready \ {fd}
        /\ live' = live \ {timer[fd]} /\ timer' = timer
    BY <1>5 DEF ReadEnd, DropEvents, WithoutTimer
  <2>2. Closed \in Conns /\ Closed.open = FALSE
    BY DEF Closed, Conns
  <2>3. TypeOK'
    BY <1>1, <2>1, <2>2 DEF Inv, TypeOK
  <2>4. Open' = Open \ {fd}
    BY <2>1, <2>2 DEF Open, Inv, TypeOK
  <2>5. fd \in Open
    BY <1>1, FdsAreNat DEF Inv, EventsAreCurrent
  <2>6. TimerPerConn'
    BY <2>1, <2>4, <2>5 DEF Inv, TimerPerConn
  <2>7. EventsAreCurrent'
    BY <1>1, <2>1, <2>4, FdsAreNat DEF Inv, EventsAreCurrent
  <2> QED
    BY <2>3, <2>6, <2>7 DEF Inv
<1> QED
  BY <1>3, <1>4, <1>5 DEF Read

LEMMA RestKeeps ==
    ASSUME Inv, \/ ClientConnect \/ Wake \/ BatchEnd \/ UNCHANGED vars
                \/ \E s \in Signals : Signal(s)
    PROVE  Inv'
<1>1. CASE ClientConnect
  <2>1. Open' = Open
    BY <1>1 DEF ClientConnect, Open
  <2>2. backlog \in Nat
    BY BoundAssumption DEF Inv, TypeOK
  <2>3. TypeOK'
    BY <1>1, BoundAssumption DEF ClientConnect, Inv, TypeOK
  <2> QED
    BY <1>1, <2>1, <2>2, <2>3 DEF ClientConnect, Inv, TimerPerConn, EventsAreCurrent
<1>2. CASE Wake
  <2>1. Open' = Open
    BY <1>2 DEF Wake, Open
  <2> QED
    BY <1>2, <2>1 DEF Wake, Inv, TypeOK, TimerPerConn, EventsAreCurrent
<1>3. CASE BatchEnd
  <2>1. Open' = Open
    BY <1>3 DEF BatchEnd, Open
  <2> QED
    BY <1>3, <2>1 DEF BatchEnd, Inv, TypeOK, TimerPerConn, EventsAreCurrent
<1>4. CASE UNCHANGED vars
  <2>1. Open' = Open
    BY <1>4 DEF vars, Open
  <2> QED
    BY <1>4, <2>1 DEF vars, Inv, TypeOK, TimerPerConn, EventsAreCurrent
<1>5. ASSUME NEW s \in Signals, Signal(s) PROVE Inv'
  <2>1. Open' = Open
    BY <1>5 DEF Signal, Open
  <2>2. TypeOK'
    BY <1>5 DEF Signal, Inv, TypeOK
  <2> QED
    BY <1>5, <2>1, <2>2 DEF Signal, Inv, TimerPerConn, EventsAreCurrent
<1> QED
  BY <1>1, <1>2, <1>3, <1>4, <1>5

LEMMA InvHolds == Spec => []Inv
<1>1. Init => Inv
  <2> SUFFICES ASSUME Init PROVE Inv
    OBVIOUS
  <2>1. Open = {}
    BY DEF Init, Open, Closed
  <2>2. TypeOK
    BY BoundAssumption DEF Init, TypeOK, Closed, Conns
  <2> QED
    BY <2>1, <2>2 DEF Init, Inv, TimerPerConn, EventsAreCurrent
<1>2. Inv /\ [Next]_vars => Inv'
  BY ClientKeeps, AcceptKeeps, ReadKeeps, RestKeeps DEF Next, Server
<1> QED
  BY <1>1, <1>2, PTL DEF Spec

(* Each variable keeps its type: no socket gives more than it holds, and no  *)
(* connection is accepted that is not waiting.                               *)
THEOREM TypeCorrect == Spec => []TypeOK
BY InvHolds, PTL DEF Inv

(* No use of a deleted timer, and no timer that nobody can delete.           *)
THEOREM TimerPerConnHolds == Spec => []TimerPerConn
BY InvHolds, PTL DEF Inv

(* No event is taken for another connection's, and accept finds one.         *)
THEOREM EventsAreCurrentHolds == Spec => []EventsAreCurrent
BY InvHolds, PTL DEF Inv

=============================================================================
