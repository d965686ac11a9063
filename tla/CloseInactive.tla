---------------------------- MODULE CloseInactive ----------------------------
(* close_inactivate_conn.cpp: one process that accepts connections, reads    *)
(* them, and keeps a timer for each.  Its signal handler writes to a pipe,   *)
(* but the reading end is never added to the epoll set (line 110 only makes  *)
(* it non-blocking), so lines 152 to 180 and 224 to 228 are never reached:   *)
(* no byte is read, tick never runs, and the alarm is set once.              *)
(* What recv takes at once counts as one piece.                              *)
(*                                                                           *)
(* An operator named like another with a suffix is that operator with a      *)
(* plausible mistake, which the specification does not use (LostTimer).      *)
EXTENDS Integers, FiniteSets

CONSTANTS Fds,          \* descriptors accept may return
          Timers,       \* addresses new may return
          Backlog,      \* connections the listening socket holds
          MaxConn,      \* bound: connections made
          MaxUnread     \* bound: pieces a socket holds

ASSUME FdsAssumption == Fds \subseteq Nat
ASSUME BoundAssumption == Backlog \in Nat /\ MaxConn \in Nat /\ MaxUnread \in Nat

VARIABLES
    pc,         \* "wait" in epoll_wait, "batch", or "exit"
    ready,      \* events epoll_wait would report
    batch,      \* events reported and not yet handled
    backlog,    \* connections waiting to be accepted
    conn,       \* of each descriptor, the state of its connection
    timer,      \* users[fd].timer
    live,       \* timers in timer_lst
    due,        \* signals still to come
    pipe,       \* signals written to the pipe
    made        \* connections made so far

vars == <<pc, ready, batch, backlog, conn, timer, live, due, pipe, made>>

Signals == {"alrm", "term"}
NoTimer == -1
Listen  == -1       \* the listening socket, as an event

Conns == [open : BOOLEAN, unread : Nat, peer : {"open", "shut", "reset"}]
Closed == [open |-> FALSE, unread |-> 0, peer |-> "open"]

TypeOK ==
    /\ pc \in {"wait", "batch", "exit"}
    /\ ready \subseteq Fds \union {Listen} /\ batch \subseteq Fds \union {Listen}
    /\ backlog \in 0 .. Backlog
    /\ conn \in [Fds -> Conns]
    /\ timer \in [Fds -> Timers \union {NoTimer}]
    /\ live \subseteq Timers
    /\ due \subseteq Signals /\ pipe \subseteq Signals
    /\ made \in Nat

Init ==
    /\ pc = "wait" /\ ready = {} /\ batch = {}
    /\ backlog = 0
    /\ conn = [fd \in Fds |-> Closed]
    /\ timer = [fd \in Fds |-> NoTimer]
    /\ live = {}
    /\ due = Signals /\ pipe = {}
    /\ made = 0

Open == {fd \in Fds : conn[fd].open}

-----------------------------------------------------------------------------
(* The clients, the clock and the operator.                                  *)

\* Bound: accept never runs out of descriptors.
ClientConnect ==
    /\ pc # "exit" /\ made < MaxConn /\ backlog < Backlog
    /\ backlog + Cardinality(Open) < Cardinality(Fds)
    /\ made' = made + 1 /\ backlog' = backlog + 1
    /\ ready' = ready \union {Listen}
    /\ UNCHANGED <<pc, batch, conn, timer, live, due, pipe>>

Happens(fd, c) ==
    /\ pc # "exit" /\ conn[fd].open /\ conn[fd].peer = "open"
    /\ conn' = [conn EXCEPT ![fd] = c]
    /\ ready' = ready \union {fd}
    /\ UNCHANGED <<pc, batch, backlog, timer, live, due, pipe, made>>

ClientSend(fd) ==
    /\ conn[fd].unread < MaxUnread
    /\ Happens(fd, [conn[fd] EXCEPT !.unread = @ + 1])

ClientEnd(fd) ==
    \/ Happens(fd, [conn[fd] EXCEPT !.peer = "shut"])
    \/ \E n \in {0, conn[fd].unread} :    \* what a reset leaves to be read
        Happens(fd, [conn[fd] EXCEPT !.peer = "reset", !.unread = n])

\* The handler writes its byte; a sleeping epoll_wait fails with EINTR, which
\* line 124 takes for a failure.
Signal(s) ==
    /\ pc # "exit" /\ s \in due
    /\ due' = due \ {s}
    /\ pipe' = pipe \union {s}
    /\ pc' = IF pc = "wait" /\ ready = {} THEN "exit" ELSE pc
    /\ UNCHANGED <<ready, batch, backlog, conn, timer, live, made>>

-----------------------------------------------------------------------------
(* The loop of main.                                                         *)

Wake ==
    /\ pc = "wait" /\ ready # {}
    /\ pc' = "batch" /\ batch' = ready /\ ready' = {}
    /\ UNCHANGED <<backlog, conn, timer, live, due, pipe, made>>

AcceptedEvery == backlog
Accepted == 1

\* accept takes one connection, whose client may have sent something or have
\* left, into the lowest free descriptor; new timer.
Accept ==
    /\ pc = "batch" /\ Listen \in batch /\ backlog > 0
    /\ \E fd \in Fds \ Open, t \in Timers \ live,
          n \in 0 .. MaxUnread, peer \in {"open", "shut", "reset"} :
        /\ \A other \in Fds \ Open : fd <= other
        /\ conn' = [conn EXCEPT ![fd] = [open |-> TRUE, unread |-> n, peer |-> peer]]
        /\ ready' = IF n > 0 \/ peer # "open" THEN ready \union {fd} ELSE ready
        /\ timer' = [timer EXCEPT ![fd] = t]
        /\ live' = live \union {t}
    /\ backlog' = backlog - Accepted
    /\ batch' = batch \ {Listen}
    /\ UNCHANGED <<pc, due, pipe, made>>

ReadSomeAlways(fd) ==
    /\ conn' = [conn EXCEPT ![fd].unread = @ - 1]
    /\ UNCHANGED <<ready, timer, live>>
\* recv returns one piece; the timer is put off.
ReadSome(fd) ==
    /\ conn[fd].unread > 0
    /\ conn' = [conn EXCEPT ![fd].unread = @ - 1]
    /\ UNCHANGED <<ready, timer, live>>

\* recv fails with EAGAIN: an earlier recv took what the event was for.
ReadNothing(fd) ==
    /\ conn[fd].unread = 0 /\ conn[fd].peer = "open"
    /\ UNCHANGED <<ready, conn, timer, live>>

LostTimer(fd) == live
WithoutTimer(fd) == live \ {timer[fd]}

DropOnlyConn(fd) == UNCHANGED ready
\* close takes the descriptor out of the epoll set.
DropEvents(fd) == ready' = ready \ {fd}

\* recv returns 0 or fails: cb_func and del_timer.
ReadEnd(fd) ==
    /\ conn[fd].unread = 0 /\ conn[fd].peer # "open"
    /\ conn' = [conn EXCEPT ![fd] = Closed]
    /\ DropEvents(fd)
    /\ live' = WithoutTimer(fd)
    /\ UNCHANGED timer

Read(fd) ==
    /\ pc = "batch" /\ fd \in batch
    /\ ReadSome(fd) \/ ReadNothing(fd) \/ ReadEnd(fd)
    /\ batch' = batch \ {fd}
    /\ UNCHANGED <<pc, backlog, due, pipe, made>>

BatchEnd ==
    /\ pc = "batch" /\ batch = {}
    /\ pc' = "wait"
    /\ UNCHANGED <<ready, batch, backlog, conn, timer, live, due, pipe, made>>

Server == Wake \/ Accept \/ (\E fd \in Fds : Read(fd)) \/ BatchEnd

Next ==
    \/ ClientConnect
    \/ \E fd \in Fds : ClientSend(fd) \/ ClientEnd(fd)
    \/ \E s \in Signals : Signal(s)
    \/ Server

Spec == Init /\ [][Next]_vars

-----------------------------------------------------------------------------
(* Every open connection has a timer of its own, in the list, and the list   *)
(* has no other: lines 193 to 215 never use a timer that was deleted, though *)
(* users[fd].timer is never cleared and descriptors and addresses are reused.*)
TimerPerConn ==
    /\ \A fd \in Open : timer[fd] \in live
    /\ \A fd, other \in Open : timer[fd] = timer[other] => fd = other
    /\ \A t \in live : \E fd \in Open : timer[fd] = t

(* An event is about a connection that is open, not about an earlier one     *)
(* that had its descriptor (line 131), and one of the listening socket finds *)
(* a connection to accept, whose result line 137 does not check.             *)
EventsAreCurrent ==
    /\ (ready \union batch) \ {Listen} \subseteq Open
    /\ Listen \in ready \union batch => backlog > 0
    /\ Listen \in ready /\ Listen \in batch => backlog > 1

=============================================================================
