------------------------------ MODULE MultiChat ------------------------------
(* chatroom_multiprocess_server.cpp: a parent that accepts users and forks a *)
(* child for each.  A child receives its user's text into its own segment of *)
(* a shared memory and announces it to the parent on a pipe; the parent      *)
(* forwards the announcement to the other children, who read the segment and *)
(* send it to their users.                                                   *)
(* A segment is two halves, which are written and read one after the other,  *)
(* and what one recv returns is one text, of one half or two.  An            *)
(* announcement is the writer's index; the model tells two announcements     *)
(* apart by the texts they follow.                                           *)
(* Line 324 compares what waitpid returns with a pid that was never assigned:*)
(* which child matches, if one does, is open each time.  (Where it is what   *)
(* waitpid returns when there is nothing to reap, 0 or -1, the loop spins,   *)
(* which is no step here.)  users[].pid, never assigned either, is what      *)
(* memory fresh from the heap held: line 355 kills the process group, kill(0)*)
(* or nobody, and line 335 sets an entry of sub_process that is no child's.  *)
(* No pid is used twice.                                                     *)
(*                                                                           *)
(* An operator named like another with a suffix is that operator with a      *)
(* plausible mistake, which the specification does not use (StopAnyway).     *)
EXTENDS Integers, Sequences, FiniteSetsExt, SequencesExt

CONSTANTS USER_LIMIT,
          MaxConn,      \* bound: connections made
          MaxText       \* bound: texts sent, and signals to stop

ASSUME LimitAssumption == USER_LIMIT \in Nat
ASSUME BoundAssumption == MaxConn \in Nat /\ MaxText \in Nat

VARIABLES
    backlog,    \* connections waiting to be accepted
    made,       \* connections made so far
    sent,       \* texts sent, and signals to stop, so far
    server,     \* the parent's loop
    users,      \* of each slot, the descriptor of the parent's pipe end
    pipe,       \* of each descriptor, the child at the other end
    child,      \* of each child, in the order of fork, its state
    segment     \* share_mem: of each index, what its two halves hold

vars == <<backlog, made, sent, server, users, pipe, child, segment>>

Child   == 1 .. MaxConn
Slot    == 0 .. USER_LIMIT
Fd      == 1 .. 2 * MaxConn     \* what the parent's pipe ends can be
Free    == 0
Leaked  == -1
Half    == {1, 2}
Empty   == <<0, 0>>     \* a text is its writer and how many of his it is
Cleared == [half \in Half |-> Empty]
Listen  == 0        \* the parent's events: these two and its pipe ends
SigPipe == -1
NoSignal == [chld |-> 0, term |-> FALSE]

\* slot is the child's entry in sub_process, holds the children whose parent's
\* ends it inherited, said counts its user's texts, telling is the announcement
\* it is passing on.
Unborn == [pc |-> "none", idx |-> 0, slot |-> -1, holds |-> {},
           unread |-> FALSE, eof |-> FALSE, said |-> 0, up |-> <<>>, down |-> <<>>,
           telling |-> Empty, ready |-> {}, batch |-> {}, stop_child |-> FALSE]

Init ==
    /\ backlog = 0 /\ made = 0 /\ sent = 0
    /\ server = [pc |-> "wait", stop_server |-> FALSE, terminate |-> FALSE,
                 user_count |-> 0, ready |-> {}, batch |-> {},
                 signals |-> NoSignal, todo |-> NoSignal]
    /\ users = [s \in Slot |-> 1]     \* not read before it is written
    /\ pipe = [f \in Fd |-> Free]
    /\ child = [k \in Child |-> Unborn]
    /\ segment = [s \in Slot |-> Cleared]

Looping == {"run", "recv", "rest", "send"}
Living == {"setup"} \union Looping
Alive == {k \in Child : child[k].pc \in Living}
Zombies == {k \in Child : child[k].pc = "zombie"}
Forked == {k \in Child : child[k].pc # "none"}

-----------------------------------------------------------------------------
(* The users and the operator.                                               *)

Connect ==
    /\ server.pc # "exit" /\ made < MaxConn
    /\ made' = made + 1 /\ backlog' = backlog + 1
    /\ server' = [server EXCEPT !.ready = @ \union {Listen}]
    /\ UNCHANGED <<sent, users, pipe, child, segment>>

\* What is sent before a recv is one text to it.
UserSends(k) ==
    /\ k \in Alive /\ ~child[k].eof /\ sent < MaxText
    /\ sent' = sent + 1
    /\ child' = [child EXCEPT ![k].unread = TRUE, ![k].ready = @ \union {"conn"}]
    /\ UNCHANGED <<backlog, made, server, users, pipe, segment>>

UserLeaves(k) ==
    /\ k \in Alive /\ ~child[k].eof
    /\ child' = [child EXCEPT ![k].eof = TRUE, ![k].ready = @ \union {"conn"}]
    /\ UNCHANGED <<backlog, made, sent, server, users, pipe, segment>>

\* SIGTERM or SIGINT, from outside.
Terminate ==
    /\ server.pc # "exit" /\ sent < MaxText
    /\ sent' = sent + 1
    /\ server' = [server EXCEPT !.signals.term = TRUE, !.ready = @ \union {SigPipe}]
    /\ UNCHANGED <<backlog, made, users, pipe, child, segment>>

-----------------------------------------------------------------------------
(* A child's pipe ends when the parent's end is closed there and in the      *)
(* children forked since, who inherit it; what was left in it for the parent *)
(* is lost when the parent closes it.                                        *)

Held(k, p, c) ==
    \/ \E f \in Fd : p[f] = k
    \/ \E j \in Child : c[j].pc \in Living /\ k \in c[j].holds

HangUp(p, c) ==
    [k \in Child |-> [c[k] EXCEPT
        !.ready = IF Held(k, pipe, child) /\ ~Held(k, p, c) THEN @ \union {"pipe"} ELSE @,
        !.up = IF \E f \in Fd : p[f] = k THEN @ ELSE <<>>]]

-----------------------------------------------------------------------------
(* The parent.                                                               *)

Wait ==
    /\ server.pc = "wait" /\ ~server.stop_server /\ server.ready # {}
    /\ server' = [server EXCEPT !.pc = "batch", !.batch = server.ready, !.ready = {}]
    /\ UNCHANGED <<backlog, made, sent, users, pipe, child, segment>>

Handles(e) == server.pc = "batch" /\ server.todo = NoSignal /\ e \in server.batch
Handled(e) == [server EXCEPT !.batch = @ \ {e}]

\* No two events come for one connection, so that accept always finds one.
Accepts == Handles(Listen) /\ backlog > 0 /\ backlog' = backlog - 1

IsFull == server.user_count > USER_LIMIT

\* "too many users"
Refuse ==
    /\ Accepts /\ IsFull
    /\ server' = Handled(Listen)
    /\ UNCHANGED <<made, sent, users, pipe, child, segment>>

\* The lowest free one: that of connfd is below it, and free again afterwards.
NewFd(p) == Min({f \in Fd : p[f] = Free})

AcceptAndFork ==
    /\ Accepts /\ ~IsFull
    /\ LET k == Cardinality(Forked) + 1
           i == server.user_count
       IN  /\ child' = [child EXCEPT ![k] = [Unborn EXCEPT
                            !.pc = "setup", !.idx = i, !.slot = i,
                            !.holds = {j \in Child : \E f \in Fd : pipe[f] = j}]]
           /\ users' = [users EXCEPT ![i] = NewFd(pipe)]
           /\ pipe' = [pipe EXCEPT ![NewFd(pipe)] = k]
           /\ server' = [Handled(Listen) EXCEPT !.user_count = i + 1]
    /\ UNCHANGED <<made, sent, segment>>

\* fork fails: connfd is closed, both ends of the pipe are not.
LeavesPipe ==
    /\ Accepts /\ ~IsFull
    /\ users' = [users EXCEPT ![server.user_count] = NewFd(pipe)]
    /\ LET p == [pipe EXCEPT ![NewFd(pipe)] = Leaked]
       IN  pipe' = [p EXCEPT ![NewFd(p)] = Leaked]
    /\ UNCHANGED <<made, sent, child, segment>>

ForkFailsCounted ==
    /\ LeavesPipe
    /\ server' = [Handled(Listen) EXCEPT !.user_count = @ + 1]
ForkFails == LeavesPipe /\ server' = Handled(Listen)

\* recv from the signal pipe takes all there is; the loop over it runs below,
\* the bytes in any order.
ReadSignals ==
    /\ Handles(SigPipe)
    /\ server' = [Handled(SigPipe) EXCEPT !.todo = server.signals, !.signals = NoSignal]
    /\ UNCHANGED <<backlog, made, sent, users, pipe, child, segment>>

\* waitpid reaps a child whose pid is the one compared with.  The slot is the
\* one the child was given: the record there may by now be another's, or no
\* longer counted, and so may the descriptor that is closed.  The last user's
\* record is moved there, not his child's index or slot.
ReapUser(z) ==
    /\ server.todo.chld > 0 /\ z \in Zombies
    /\ LET del  == child[z].slot
           last == server.user_count - 1
       IN  /\ pipe' = [pipe EXCEPT ![users[del]] = Free]
           /\ users' = [users EXCEPT ![del] = users[last]]
           /\ server' = [server EXCEPT !.user_count = last, !.ready = @ \ {users[del]}]
    /\ child' = HangUp(pipe', [child EXCEPT ![z].pc = "gone", ![z].slot = -1])
    /\ UNCHANGED <<backlog, made, sent, segment>>

StopAnyway == server.terminate
StopIfDone == server.terminate /\ server.user_count = 0

\* waitpid's result is not that pid, or there is none: the loop ends.
ReapOther ==
    /\ server.todo.chld > 0
    /\ \/ Zombies = {} /\ UNCHANGED child
       \/ \E z \in Zombies : child' = [child EXCEPT ![z].pc = "gone"]
    /\ server' = [server EXCEPT !.todo.chld = @ - 1,
                                !.stop_server = @ \/ StopIfDone]
    /\ UNCHANGED <<backlog, made, sent, users, pipe, segment>>

\* kill reaches the group, or nobody.  A child that still has the parent's
\* handler loses the signal.
KillAll ==
    /\ server.todo.term /\ server.user_count > 0
    /\ \/ /\ child' = [k \in Child |-> IF child[k].pc \in Looping
                            THEN [child[k] EXCEPT !.stop_child = TRUE] ELSE child[k]]
          /\ server' = [server EXCEPT !.todo.term = FALSE, !.terminate = TRUE,
                            !.signals.term = TRUE, !.ready = @ \union {SigPipe}]
       \/ /\ server' = [server EXCEPT !.todo.term = FALSE, !.terminate = TRUE]
          /\ UNCHANGED child
    /\ UNCHANGED <<backlog, made, sent, users, pipe, segment>>

TerminateAtOnce ==
    /\ server.todo.term /\ server.user_count = 0
    /\ server' = [server EXCEPT !.todo.term = FALSE, !.stop_server = TRUE]
    /\ UNCHANGED <<backlog, made, sent, users, pipe, child, segment>>

Others(f) == {pipe[users[j]] : j \in {j \in 0 .. server.user_count - 1 : users[j] # f}}

\* One announcement per event.  The descriptor may have been closed since
\* epoll_wait (EBADF) and given to another child's pipe; recv from one that was
\* leaked would never return.  A send to a child that ended fails.
Forward(f) ==
    /\ f \in Fd /\ Handles(f) /\ pipe[f] # Leaked
    /\ server' = Handled(f)
    /\ IF pipe[f] = Free \/ child[pipe[f]].up = <<>> THEN UNCHANGED child
       ELSE child' = [j \in Child |->
                CASE j = pipe[f] -> [child[j] EXCEPT !.up = Tail(@)]
                  [] j \in Others(f) \intersect Alive ->
                        [child[j] EXCEPT !.down = Append(@, Head(child[pipe[f]].up)),
                                         !.ready = @ \union {"pipe"}]
                  [] OTHER -> child[j]]
    /\ UNCHANGED <<backlog, made, sent, users, pipe, segment>>

BatchEnd ==
    /\ server.pc = "batch" /\ server.batch = {} /\ server.todo = NoSignal
    /\ \/ /\ ~server.stop_server
          /\ server' = [server EXCEPT !.pc = "wait"]
          /\ UNCHANGED <<pipe, child>>
       \/ /\ server.stop_server
          /\ server' = [server EXCEPT !.pc = "exit"]
          /\ pipe' = [f \in Fd |-> Free]
          /\ child' = HangUp(pipe', child)
    /\ UNCHANGED <<backlog, made, sent, users, segment>>

-----------------------------------------------------------------------------
(* A child.                                                                  *)

\* The two addfd report what is already there.
SetUp(k) ==
    /\ child[k].pc = "setup"
    /\ child' = [child EXCEPT ![k].pc = "run",
            ![k].ready = {e \in {"conn", "pipe"} :
                IF e = "conn" THEN child[k].unread \/ child[k].eof
                ELSE child[k].down # <<>> \/ ~Held(k, pipe, child)}]
    /\ UNCHANGED <<backlog, made, sent, server, users, pipe, segment>>

ChildWait(k) ==
    /\ child[k].pc = "run" /\ child[k].batch = {} /\ child[k].ready # {}
    /\ ~child[k].stop_child
    /\ child' = [child EXCEPT ![k].batch = child[k].ready, ![k].ready = {}]
    /\ UNCHANGED <<backlog, made, sent, server, users, pipe, segment>>

Handling(k, e) == child[k].pc = "run" /\ e \in child[k].batch

\* memset before recv.
UsesUncleared(k) ==
    /\ Handling(k, "conn")
    /\ child' = [child EXCEPT ![k].pc = "recv", ![k].batch = @ \ {"conn"}]
    /\ UNCHANGED <<backlog, made, sent, server, users, pipe, segment>>
ClearSegment(k) ==
    /\ Handling(k, "conn")
    /\ child' = [child EXCEPT ![k].pc = "recv", ![k].batch = @ \ {"conn"}]
    /\ segment' = [segment EXCEPT ![child[k].idx] = Cleared]
    /\ UNCHANGED <<backlog, made, sent, server, users, pipe>>

Store(k, half, n) == segment' = [segment EXCEPT ![child[k].idx][half] = <<k, n>>]

\* recv begins to copy what came into the segment.
ReceiveText(k) ==
    /\ child[k].pc = "recv" /\ child[k].unread
    /\ Store(k, 1, child[k].said + 1)
    /\ child' = [child EXCEPT ![k].pc = "rest", ![k].unread = FALSE, ![k].said = @ + 1]
    /\ UNCHANGED <<backlog, made, sent, server, users, pipe>>

\* The other half, if there is one, and the announcement: nobody reads it when
\* the parent has closed its end.
ReceiveRest(k) ==
    /\ child[k].pc = "rest"
    /\ Store(k, 2, child[k].said) \/ UNCHANGED segment
    /\ LET ends == {f \in Fd : pipe[f] = k}
       IN  /\ child' = [child EXCEPT ![k].pc = "run",
                ![k].up = IF ends = {} THEN @ ELSE Append(@, <<k, child[k].said>>)]
           /\ server' = [server EXCEPT !.ready = @ \union ends]
    /\ UNCHANGED <<backlog, made, sent, users, pipe>>

\* EAGAIN, when an earlier recv took what the event was for, or the end.
ReceiveNothing(k) ==
    /\ child[k].pc = "recv" /\ ~child[k].unread
    /\ child' = [child EXCEPT ![k].pc = "run", ![k].stop_child = @ \/ child[k].eof]
    /\ UNCHANGED <<backlog, made, sent, server, users, pipe, segment>>

\* One announcement per event.  While it is being passed on, what is sent is
\* what the segment holds at the moment, one half after the other.
PassOn(k) ==
    /\ Handling(k, "pipe")
    /\ \/ /\ child[k].down # <<>>
          /\ child' = [child EXCEPT ![k].pc = "send", ![k].batch = @ \ {"pipe"},
                ![k].telling = Head(child[k].down), ![k].down = Tail(@)]
       \/ /\ child[k].down = <<>>
          /\ child' = [child EXCEPT ![k].batch = @ \ {"pipe"},
                ![k].stop_child = @ \/ ~Held(k, pipe, child)]
    /\ UNCHANGED <<backlog, made, sent, server, users, pipe, segment>>

Sent(k) ==
    /\ child[k].pc = "send"
    /\ child' = [child EXCEPT ![k].pc = "run", ![k].telling = Empty]
    /\ UNCHANGED <<backlog, made, sent, server, users, pipe, segment>>

\* SIGCHLD may find one pending.
ChildExit(k) ==
    /\ child[k].pc = "run" /\ child[k].batch = {} /\ child[k].stop_child
    /\ child' = HangUp(pipe, [child EXCEPT ![k] = [Unborn EXCEPT !.pc = "zombie",
                    !.idx = child[k].idx, !.slot = child[k].slot,
                    !.said = child[k].said, !.up = child[k].up]])
    /\ \E n \in {0, 1} :
        /\ n = 0 => server.signals.chld > 0
        /\ server' = [server EXCEPT !.ready = @ \union {SigPipe} \union {f \in Fd : pipe[f] = k},
                                    !.signals.chld = @ + n]
    /\ UNCHANGED <<backlog, made, sent, users, pipe, segment>>

Parent == Wait \/ Refuse \/ AcceptAndFork \/ ForkFails \/ ReadSignals
          \/ (\E z \in Child : ReapUser(z)) \/ ReapOther \/ KillAll
          \/ TerminateAtOnce \/ (\E f \in Fd : Forward(f)) \/ BatchEnd

ChildStep(k) == SetUp(k) \/ ChildWait(k) \/ ClearSegment(k) \/ ReceiveText(k)
                \/ ReceiveRest(k) \/ ReceiveNothing(k) \/ PassOn(k)
                \/ Sent(k) \/ ChildExit(k)

Next ==
    \/ Connect \/ Terminate \/ (\E k \in Child : UserSends(k) \/ UserLeaves(k))
    \/ Parent \/ (\E k \in Child : ChildStep(k))

Spec == Init /\ [][Next]_vars

-----------------------------------------------------------------------------
(* Lines 298 and 334, over every order of deaths, signals and failing forks  *)
(* and whichever pid line 324 compares with: user_count is the number of     *)
(* children with an entry in sub_process, so that lines 269 and 334 stay     *)
(* within users although the entries themselves are not kept up to date.     *)
CountedAreKnown ==
    server.user_count = Cardinality({k \in Child : child[k].slot >= 0})

(* Lines 126 to 142 and 163: what a child passes on for an announced text is *)
(* never, in whole or in part, an older text of the same user, though others *)
(* may clear or overwrite his segment at any time: lines 269 to 297 give an  *)
(* index that is still in use once line 334 has moved a record.              *)
NothingOlder ==
    \A k \in Alive : \A t \in ToSet(child[k].down) \union {child[k].telling} :
        t # Empty =>
            LET w == t[1]
            IN  \A half \in Half : LET text == segment[child[w].idx][half]
                                     IN  text[1] = w => text[2] >= t[2]

(* Lines 337 to 340 and 347 to 351: when the server decides to stop it has   *)
(* reaped every child it forked.  (The rest of the batch may still hold a    *)
(* connection, for which it then forks one more.)                            *)
StopsWhenAllReaped ==
    [][server'.stop_server /\ ~server.stop_server
        => (Alive \union Zombies)' = {}]_vars

=============================================================================
