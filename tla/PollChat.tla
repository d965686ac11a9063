------------------------------ MODULE PollChat -------------------------------
(* chatroom_server.cpp: one process that polls the listening socket and its  *)
(* users' connections, kept in the first entries of an array: a user who     *)
(* leaves gives his entry to the last one, in the middle of the pass over    *)
(* the events of a poll.  What recv takes at once counts as one piece.       *)
(* write_buf is never set, and users is memory the system has zeroed, so the *)
(* branch of POLLOUT only skips the entry (line 167) and no text is ever sent*)
(* to anybody.                                                               *)
(*                                                                           *)
(* An operator named like another with a suffix is that operator with a      *)
(* plausible mistake, which the specification does not use (StepPast).       *)
EXTENDS Integers, FiniteSetsExt

CONSTANTS USER_LIMIT,
          Fds,          \* descriptors accept may return
          MaxConn,      \* bound: connections made
          MaxUnread     \* bound: pieces a socket holds

ASSUME LimitAssumption == USER_LIMIT \in Nat
ASSUME FdsAssumption == Fds \subseteq Nat \ {0} /\ IsFiniteSet(Fds)
ASSUME BoundAssumption == MaxConn \in Nat /\ MaxUnread \in Nat

VARIABLES
    i,              \* the entry the pass is at, or -1 in poll
    user_counter,
    fds,            \* of each entry, its descriptor, what is asked and what came
    users,          \* of each descriptor, the user whose address is stored
    conn,           \* of each descriptor, the state of its connection
    backlog,        \* users waiting to be accepted
    made,           \* connections made so far
    due             \* connections the poll reported, whose turn has not come

vars == <<i, user_counter, fds, users, conn, backlog, made, due>>

Listen == 0         \* the listening socket's descriptor
Nobody == 0
Entries == 0 .. USER_LIMIT
Closed == [open |-> FALSE, unread |-> 0, peer |-> "open", error |-> FALSE, user |-> Nobody]
Entry(fd) == [fd |-> fd, out |-> FALSE, revents |-> {}]

Init ==
    /\ i = -1 /\ user_counter = 0
    /\ fds = [e \in Entries |-> Entry(Listen)]
    /\ users = [fd \in Fds \union {Listen} |-> Nobody]
    /\ conn = [fd \in Fds |-> Closed]
    /\ backlog = 0 /\ made = 0
    /\ due = {}

Open == {fd \in Fds : conn[fd].open}
Used == 1 .. user_counter

-----------------------------------------------------------------------------
(* The users.                                                                *)

\* Bound: accept never runs out of descriptors.
Connect ==
    /\ made < MaxConn /\ backlog + Cardinality(Open) < Cardinality(Fds)
    /\ made' = made + 1 /\ backlog' = backlog + 1
    /\ UNCHANGED <<i, user_counter, fds, users, conn, due>>

Happens(fd, c) ==
    /\ conn[fd].open /\ conn[fd].peer = "open"
    /\ conn' = [conn EXCEPT ![fd] = c]
    /\ UNCHANGED <<i, user_counter, fds, users, backlog, made, due>>

Sends(fd) ==
    /\ conn[fd].unread < MaxUnread
    /\ Happens(fd, [conn[fd] EXCEPT !.unread = @ + 1])

Leaves(fd) ==
    \/ Happens(fd, [conn[fd] EXCEPT !.peer = "gone"])
    \/ \E n \in {0, conn[fd].unread} :    \* a reset, and what it leaves to be read
        Happens(fd, [conn[fd] EXCEPT !.peer = "gone", !.error = TRUE, !.unread = n])

-----------------------------------------------------------------------------
(* The loop of main.                                                         *)

Revents(e) ==
    IF e.fd = Listen THEN {x \in {"IN"} : backlog > 0}
    ELSE LET c == conn[e.fd]
         IN  {x \in {"IN", "RDHUP", "ERR", "OUT"} :
                \/ x = "IN" /\ (c.unread > 0 \/ c.peer = "gone")
                \/ x = "RDHUP" /\ c.peer = "gone"
                \/ x = "ERR" /\ c.error
                \/ x = "OUT" /\ e.out}

Poll ==
    /\ i = -1
    /\ \E e \in 0 .. user_counter : Revents(fds[e]) # {}
    /\ fds' = [e \in Entries |-> IF e <= user_counter
                    THEN [fds[e] EXCEPT !.revents = Revents(fds[e])] ELSE fds[e]]
    /\ due' = {fds[e].fd : e \in {e \in Used : Revents(fds[e]) # {}}}
    /\ i' = 0
    /\ UNCHANGED <<user_counter, users, conn, backlog, made>>

\* The branches of the loop body, in the order they are tried.
Branch(x) ==
    /\ i \in 0 .. user_counter
    /\ LET came == fds[i].revents
       IN  x = IF fds[i].fd = Listen /\ "IN" \in came THEN "accept"
               ELSE IF "ERR" \in came THEN "error"
               ELSE IF "RDHUP" \in came THEN "hangup"
               ELSE IF "IN" \in came THEN "read"
               ELSE "skip"

Here == fds[i].fd
StepOn == i' = i + 1 /\ due' = due \ {Here}

Accept ==
    /\ Branch("accept")
    /\ backlog' = backlog - 1
    /\ \/ /\ user_counter >= USER_LIMIT       \* "too many user!"
          /\ UNCHANGED <<user_counter, fds, users, conn>>
       \/ /\ user_counter < USER_LIMIT
          /\ LET fd   == Min(Fds \ Open)
                 user == made - backlog + 1
             IN  /\ conn' = [conn EXCEPT ![fd] = [Closed EXCEPT
                                !.open = TRUE, !.user = user]]
                 /\ users' = [users EXCEPT ![fd] = user]
                 /\ fds' = [fds EXCEPT ![user_counter + 1] = Entry(fd)]
          /\ user_counter' = user_counter + 1
    /\ StepOn
    /\ UNCHANGED made

ErrorLeft == conn[Here]
ErrorTaken == [conn[Here] EXCEPT !.error = FALSE]

\* getsockopt takes the pending error; what else came is passed over.
Error ==
    /\ Branch("error")
    /\ conn' = [conn EXCEPT ![Here] = ErrorTaken]
    /\ StepOn
    /\ UNCHANGED <<user_counter, fds, users, backlog, made>>

StepPast == i + 1
StepBack == i       \* --i, and the loop's ++i

LastDecrementedFirst == fds[user_counter - 1]
LastEntry == fds[user_counter]

\* The last entry takes this one's place, with what came for it, and is next.
Drop ==
    /\ users' = [users EXCEPT ![Here] = users[LastEntry.fd]]
    /\ conn' = [conn EXCEPT ![Here] = Closed]
    /\ fds' = [fds EXCEPT ![i] = LastEntry]
    /\ user_counter' = user_counter - 1
    /\ i' = StepBack /\ due' = due \ {Here}
    /\ UNCHANGED <<backlog, made>>

Hangup == Branch("hangup") /\ Drop

\* A text asks for POLLOUT on every entry: |= ~POLLIN sets every other bit too.
Read ==
    /\ Branch("read") /\ conn[Here].unread > 0
    /\ conn' = [conn EXCEPT ![Here].unread = @ - 1]
    /\ fds' = [e \in Entries |-> IF e \in Used THEN [fds[e] EXCEPT !.out = TRUE]
                                 ELSE fds[e]]
    /\ StepOn
    /\ UNCHANGED <<user_counter, users, backlog, made>>

\* recv fails: the connection was reset after the poll.
ReadError == Branch("read") /\ conn[Here].unread = 0 /\ conn[Here].error /\ Drop

Skip ==
    /\ Branch("skip")
    /\ StepOn
    /\ UNCHANGED <<user_counter, fds, users, conn, backlog, made>>

PassEnd ==
    /\ i > user_counter
    /\ i' = -1
    /\ UNCHANGED <<user_counter, fds, users, conn, backlog, made, due>>

Server == Poll \/ Accept \/ Error \/ Hangup \/ Read \/ ReadError \/ Skip \/ PassEnd

Next ==
    \/ Connect \/ \E fd \in Fds : Sends(fd) \/ Leaves(fd)
    \/ Server

(* The process runs whenever poll returns.                                   *)
Spec == Init /\ [][Next]_vars /\ WF_vars(Server)

-----------------------------------------------------------------------------
(* Lines 102 to 107, 124 to 128 and 140 to 144: the entries in use are those *)
(* of the open connections, each once, and each has its user's address.      *)
EntriesMatch ==
    /\ {fds[e].fd : e \in Used} = Open
    /\ \A e, f \in Used : fds[e].fd = fds[f].fd => e = f
    /\ \A fd \in Open : users[fd] = conn[fd].user

(* Lines 82, 127 and 143: however entries move, what a poll reported for a   *)
(* connection is still to come in the same pass, or has been handled in it.  *)
NothingPassedOver ==
    due = IF i = -1 THEN {}
          ELSE {fds[e].fd : e \in {e \in Used : e >= i /\ fds[e].revents # {}}}

(* Lines 110 to 129: the connection of a user who has left is closed, also   *)
(* after a reset, whose error line 116 takes and does nothing about.         *)
LeaverDropped ==
    \A fd \in Fds : conn[fd].open /\ conn[fd].peer = "gone" ~> ~conn[fd].open

=============================================================================
