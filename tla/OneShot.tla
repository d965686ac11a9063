------------------------------- MODULE OneShot -------------------------------
(* test_epolloneshot.cpp: main waits for events and starts a thread for each *)
(* that a connection has; the connection is registered with EPOLLONESHOT and *)
(* the thread arms it again when it has read all there is.  The thread gets  *)
(* the address of fds_for_new_worker, a local of main's loop body, and reads *)
(* the descriptor from it when it comes to run: by then the next turn of the *)
(* loop may have stored another there, or other locals have taken its place. *)
(* What recv takes at once counts as one piece.                              *)
(*                                                                           *)
(* An operator named like another with a suffix is that operator with a      *)
(* plausible mistake, which the specification does not use (FiredAgain).     *)
EXTENDS Integers, FiniteSetsExt

CONSTANTS Fds,          \* descriptors accept may return
          Threads,      \* bound: threads alive at once
          MaxConn,      \* bound: connections made
          MaxPiece      \* bound: pieces sent

ASSUME FdsAssumption == Fds \subseteq Nat \ {0} /\ IsFiniteSet(Fds)
ASSUME BoundAssumption == MaxConn \in Nat /\ MaxPiece \in Nat

VARIABLES
    ready,      \* events epoll_wait would report
    batch,      \* events reported and not yet handled
    backlog,    \* connections waiting to be accepted
    conn,       \* of each descriptor, the state of its connection
    local,      \* what is at fds_for_new_worker.sockfd
    thread,     \* of each thread, where it is, what it reads, what it is for
    mishap,     \* an argument was lost before it was read, or a thread not made
    used        \* connections made and pieces sent

vars == <<ready, batch, backlog, conn, local, thread, mishap, used>>

Listen  == 0
Garbage == -1
Closed  == [open |-> FALSE, armed |-> FALSE, unread |-> 0, eof |-> FALSE]
NoThread == [pc |-> "none", sockfd |-> Garbage, for |-> Garbage]

Init ==
    /\ ready = {} /\ batch = {} /\ backlog = 0
    /\ conn = [fd \in Fds |-> Closed]
    /\ local = Garbage
    /\ thread = [t \in Threads |-> NoThread]
    /\ mishap = FALSE
    /\ used = [conns |-> 0, pieces |-> 0]

Open == {fd \in Fds : conn[fd].open}
HasNews(c) == c.open /\ (c.unread > 0 \/ c.eof)
Unstarted == {t \in Threads : thread[t].pc = "start"}
Live == {t \in Threads : thread[t].pc # "none"}

-----------------------------------------------------------------------------
(* The clients.                                                              *)

\* Bound: accept never runs out of descriptors.
Connect ==
    /\ used.conns < MaxConn /\ backlog + Cardinality(Open) < Cardinality(Fds)
    /\ backlog' = backlog + 1 /\ ready' = ready \union {Listen}
    /\ used' = [used EXCEPT !.conns = @ + 1]
    /\ UNCHANGED <<batch, conn, local, thread, mishap>>

Happens(fd, c) ==
    /\ conn[fd].open /\ ~conn[fd].eof
    /\ conn' = [conn EXCEPT ![fd] = c]
    /\ ready' = IF conn[fd].armed THEN ready \union {fd} ELSE ready
    /\ UNCHANGED <<batch, backlog, local, thread, mishap>>

Send(fd) ==
    /\ used.pieces < MaxPiece
    /\ used' = [used EXCEPT !.pieces = @ + 1]
    /\ Happens(fd, [conn[fd] EXCEPT !.unread = @ + 1])

Hangup(fd) == Happens(fd, [conn[fd] EXCEPT !.eof = TRUE]) /\ UNCHANGED used

-----------------------------------------------------------------------------
(* main.                                                                     *)

FiredAgain(c) == c
Fired(c) == [c EXCEPT !.armed = FALSE]

\* epoll_wait reports what is ready and disarms those with EPOLLONESHOT.
Wake ==
    /\ batch = {} /\ ready # {}
    /\ batch' = ready /\ ready' = {}
    /\ conn' = [fd \in Fds |-> IF fd \in ready THEN Fired(conn[fd]) ELSE conn[fd]]
    /\ UNCHANGED <<backlog, local, thread, mishap, used>>

\* accept takes one connection (none if an earlier event's took it) and addfd
\* reports what it has already.  client_addr may lie where the other was.
Accept ==
    /\ Listen \in batch
    /\ batch' = batch \ {Listen}
    /\ \/ /\ backlog = 0
          /\ UNCHANGED <<ready, conn, backlog>>
       \/ /\ backlog > 0
          /\ backlog' = backlog - 1
          /\ conn' = [conn EXCEPT ![Min(Fds \ Open)] =
                        [Closed EXCEPT !.open = TRUE, !.armed = TRUE]]
          /\ UNCHANGED ready
    /\ local' \in {local, Garbage}
    /\ mishap' = (mishap \/ (Unstarted # {} /\ local' # local))
    /\ UNCHANGED <<thread, used>>

\* The result of pthread_create is not looked at.
StartThread(fd) ==
    /\ fd \in batch \ {Listen}
    /\ batch' = batch \ {fd}
    /\ local' = fd
    /\ \/ /\ \E t \in Threads \ Live :
                thread' = [thread EXCEPT ![t] = [NoThread EXCEPT !.pc = "start", !.for = fd]]
          /\ mishap' = (mishap \/ Unstarted # {})
       \/ mishap' = TRUE /\ UNCHANGED thread
    /\ UNCHANGED <<ready, backlog, conn, used>>

-----------------------------------------------------------------------------
(* worker.                                                                   *)

ReadArgument(t) ==
    /\ thread[t].pc = "start"
    /\ thread' = [thread EXCEPT ![t].pc = "recv", ![t].sockfd = local]
    /\ UNCHANGED <<ready, batch, backlog, conn, local, mishap, used>>

Receives(t) == thread[t].pc = "recv" /\ thread[t].sockfd \in Open

RecvPiece(t) ==
    LET fd == thread[t].sockfd
    IN  /\ Receives(t) /\ conn[fd].unread > 0
        /\ conn' = [conn EXCEPT ![fd].unread = @ - 1]
        /\ UNCHANGED <<ready, batch, backlog, local, thread, mishap, used>>

\* recv returns 0: close, which takes the descriptor out of the epoll set.
RecvEnd(t) ==
    LET fd == thread[t].sockfd
    IN  /\ Receives(t) /\ conn[fd].unread = 0 /\ conn[fd].eof
        /\ conn' = [conn EXCEPT ![fd] = Closed]
        /\ ready' = ready \ {fd}
        /\ thread' = [thread EXCEPT ![t] = NoThread]
        /\ UNCHANGED <<batch, backlog, local, mishap, used>>

RecvLater(t) ==
    /\ Receives(t) /\ ~HasNews(conn[thread[t].sockfd])
    /\ thread' = [thread EXCEPT ![t].pc = "arm"]
    /\ UNCHANGED <<ready, batch, backlog, conn, local, mishap, used>>

\* Any other error is not looked at: the thread calls recv for ever.
RecvFails(t) ==
    /\ thread[t].pc = "recv" /\ thread[t].sockfd \notin Open
    /\ UNCHANGED vars

ArmedBlindly(fd) == {}
\* EPOLL_CTL_MOD reports what came since recv said there was nothing.
ArmedReports(fd) == {fd} \intersect {f \in Open : HasNews(conn[f])}

ResetOneshot(t) ==
    LET fd == thread[t].sockfd
    IN  /\ thread[t].pc = "arm"
        /\ conn' = [f \in Fds |-> IF f = fd THEN [conn[f] EXCEPT !.armed = conn[f].open]
                                  ELSE conn[f]]
        /\ ready' = ready \union ArmedReports(fd)
        /\ thread' = [thread EXCEPT ![t] = NoThread]
        /\ UNCHANGED <<batch, backlog, local, mishap, used>>

-----------------------------------------------------------------------------

Worker(t) ==
    \/ ReadArgument(t) \/ RecvPiece(t) \/ RecvEnd(t) \/ RecvLater(t) \/ RecvFails(t)
    \/ ResetOneshot(t)

Next ==
    \/ Connect \/ (\E fd \in Fds : Send(fd) \/ Hangup(fd))
    \/ Wake \/ Accept \/ (\E fd \in Fds : StartThread(fd))
    \/ \E t \in Threads : Worker(t)

Spec == Init /\ [][Next]_vars

-----------------------------------------------------------------------------
(* Lines 142 to 145 and 55: as long as every thread has read its argument    *)
(* before main stores or may lose the next, and every thread could be made,  *)
(* a thread reads the connection it was started for, one thread each.        *)
SoleReader ==
    mishap \/ \A t \in Live :
        /\ thread[t].pc # "start" => thread[t].sockfd = thread[t].for
        /\ \A s \in Live : thread[s].for = thread[t].for => s = t

(* Lines 42 to 48, 71 to 75 and 139: as long as that holds, what a client has*)
(* sent, or its leaving, is reported, or a thread is there to find it, also  *)
(* if it came between the thread's last recv and the arming.                 *)
NewsIsSeen ==
    mishap \/ \A fd \in Open : HasNews(conn[fd]) =>
        fd \in ready \union batch \/ \E t \in Live : thread[t].for = fd

=============================================================================
