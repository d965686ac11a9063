---------------------------- MODULE ProcessPool ----------------------------
(* The pre-forked server of processpool.h: a parent that dispatches each new *)
(* connection to one of N children over a socket pair, the children that     *)
(* accept and serve it, and the unified signal source of both (the handler   *)
(* writes a byte to a pipe the epoll loop reads).                            *)
(*                                                                           *)
(* All descriptors are edge triggered: the events in "ready" are those       *)
(* epoll_wait would report, those in "batch" it has reported and the loop    *)
(* has still to handle.  The environment is the clients, the operator who    *)
(* sends SIGTERM or SIGINT, the CGI programs, and whatever kills a child.    *)
(*                                                                           *)
(* An operator named like another with a suffix (SuccessorNoWrap) is that    *)
(* operator with a plausible mistake, kept to see that the properties notice *)
(* it; the specification does not use it.                                    *)
EXTENDS Integers, FiniteSets

CONSTANTS
    N,          \* m_process_number
    Garbage,    \* values the uninitialised pids of lines 235 and 334 may hold
    PipeCap,    \* messages a socket pair holds before send blocks
    Backlog,    \* connections the listening socket holds
    Outcomes,   \* what T::process may do with a request: see ChildConn
    MaxConn,    \* bound: connections the clients make
    MaxTerm,    \* bound: signals the operator sends
    MaxCrash    \* bound: children killed from outside

ASSUME NAssumption == N \in 1..16
ASSUME GarbageAssumption == Garbage \subseteq Int
ASSUME BoundAssumption ==
    /\ PipeCap \in Nat \ {0} /\ Backlog \in Nat
    /\ Outcomes \subseteq {"keep", "close", "cgi"}
    /\ MaxConn \in Nat /\ MaxTerm \in Nat /\ MaxCrash \in Nat

VARIABLES
    parent,     \* the parent: see Parents
    m_pid,      \* m_sub_process[i].m_pid, as the parent has it
    pid,        \* the uninitialised local of line 334
    child,      \* child i: see ChildStates
    msgs,       \* <<i, k>>: the k-th message sent is unread in i's pipe
    backlog,    \* connections waiting to be accepted
    used        \* how much of each bound is used

vars == <<parent, m_pid, pid, child, msgs, backlog, used>>

Children == 0 .. N - 1
Pid(i)   == i + 1
Signals  == {"chld", "term"}      \* SIGTERM and SIGINT are handled alike
NoBytes  == [chld |-> 0, term |-> 0]
Bit(b)   == IF b THEN 1 ELSE 0

Bytes   == [chld : Nat, term : Nat]     \* bytes of each kind in a signal pipe
Parents == [pc : {"fork", "wait", "batch", "sigs", "exit"},
            m_stop : BOOLEAN, sub_process_counter : Children,
            ready : SUBSET {"listen", "sig"}, batch : SUBSET {"listen", "sig"},
            pend : SUBSET Signals,      \* signals pending
            bytes : Bytes,              \* unread in the signal pipe
            todo : Bytes,               \* received and not yet handled
            sent : Nat]                 \* ghost: messages dispatched
ChildStates ==
    [pc : {"none", "setup", "wait", "batch", "zombie", "gone"},
     m_stop : BOOLEAN,
     ready : SUBSET {"pipe", "sig", "conn"}, batch : SUBSET {"pipe", "sig", "conn"},
     pend : SUBSET Signals, bytes : Bytes,
     conns : Nat,       \* connections it has open
     cgi : Nat,         \* CGI programs it started that still run
     zomb : Nat,        \* its CGI programs that ended and are not reaped
     same : BOOLEAN,    \* it reaped a program whose pid its own pid held
     hup : BOOLEAN]     \* nobody holds the writing end of its pipe

TypeOK ==
    /\ parent \in Parents
    /\ m_pid \in [Children -> Int]
    /\ pid \in Garbage
    /\ child \in [Children -> ChildStates]
    /\ msgs \subseteq Children \X Nat
    /\ backlog \in Nat
    /\ used \in [conns : Nat, terms : Nat, crashes : Nat]

Init ==
    /\ parent = [pc |-> "fork", m_stop |-> FALSE, sub_process_counter |-> 0,
                 ready |-> {}, batch |-> {}, pend |-> {},
                 bytes |-> NoBytes, todo |-> NoBytes, sent |-> 0]
    /\ m_pid = [i \in Children |-> -1]
    /\ pid \in Garbage
    /\ child = [i \in Children |->
                  [pc |-> "none", m_stop |-> FALSE, ready |-> {}, batch |-> {},
                   pend |-> {}, bytes |-> NoBytes, conns |-> 0, cgi |-> 0,
                   zomb |-> 0, same |-> FALSE, hup |-> FALSE]]
    /\ msgs = {}
    /\ backlog = 0
    /\ used = [conns |-> 0, terms |-> 0, crashes |-> 0]

-----------------------------------------------------------------------------
Handling     == parent.pc \in {"wait", "batch", "sigs"}  \* handlers installed
Alive(i)     == child[i].pc \in {"setup", "wait", "batch"}
Listening    == {i \in Children : child[i].pc \in {"wait", "batch"}}
Defenceless  == {i \in Children : child[i].pc = "setup"} \* no handler yet
Zombies      == {i \in Children : child[i].pc = "zombie"}
Inbox(i)     == {m \in msgs : m[1] = i}
\* A CGI program inherits its child's end of the pipe.
PipeOpen(i)  == Alive(i) \/ child[i].cgi > 0

\* A dead child loses what it had read and accepted; so are its messages lost,
\* unless a CGI program still holds its end of the pipe.
Dead(c) == [c EXCEPT !.pc = "zombie", !.m_stop = FALSE, !.ready = {},
                     !.batch = {}, !.pend = {}, !.bytes = NoBytes,
                     !.conns = 0, !.zomb = 0, !.same = FALSE]

\* Children die (D) or have SIGTERM pending (T).
Strike(D, T) ==
    /\ child' = [i \in Children |->
                   CASE i \in D -> Dead(child[i])
                     [] i \in T \ D -> [child[i] EXCEPT !.pend = @ \union {"term"}]
                     [] OTHER -> child[i]]
    /\ msgs' = {m \in msgs : m[1] \in D => child[m[1]].cgi > 0}

\* The parent's pending signals once the children of D are dead.
Bereaved(D) ==
    IF Handling /\ D # {} THEN parent.pend \union {"chld"} ELSE parent.pend

Dies(i) == Strike({i}, {}) /\ parent' = [parent EXCEPT !.pend = Bereaved({i})]

-----------------------------------------------------------------------------
(* The environment.                                                          *)

ClientConnect ==
    /\ used.conns < MaxConn /\ backlog < Backlog
    /\ parent.pc # "exit" \/ \E i \in Children : PipeOpen(i)
    /\ used' = [used EXCEPT !.conns = @ + 1]
    /\ backlog' = backlog + 1
    /\ parent' = IF Handling
                 THEN [parent EXCEPT !.ready = @ \union {"listen"}] ELSE parent
    /\ UNCHANGED <<m_pid, pid, child, msgs>>

ClientSend(i) ==
    /\ Alive(i) /\ child[i].conns > 0 /\ "conn" \notin child[i].ready
    /\ child' = [child EXCEPT ![i].ready = @ \union {"conn"}]
    /\ UNCHANGED <<parent, m_pid, pid, msgs, backlog, used>>

\* kill PID, or Ctrl-C to the whole process group.  The default action applies
\* to a process that has not reached setup_sig_pipe.
OperatorSignal(group) ==
    /\ parent.pc # "exit" /\ used.terms < MaxTerm
    /\ used' = [used EXCEPT !.terms = @ + 1]
    /\ LET D == IF group THEN Defenceless ELSE {}
           T == IF group THEN Listening ELSE {} IN
       /\ Strike(D, T)
       /\ parent' = IF Handling
                    THEN [parent EXCEPT !.pend = Bereaved(D) \union {"term"}]
                    ELSE [parent EXCEPT !.pc = "exit"]
    /\ UNCHANGED <<m_pid, pid, backlog>>

Crash(i) ==
    /\ Alive(i) /\ used.crashes < MaxCrash
    /\ used' = [used EXCEPT !.crashes = @ + 1]
    /\ Dies(i)
    /\ UNCHANGED <<m_pid, pid, backlog>>

\* A CGI program ends: its parent is child i, or init once child i is dead.
CgiExit(i) ==
    /\ child[i].cgi > 0
    /\ child' = IF Alive(i)
                THEN [child EXCEPT ![i].cgi = @ - 1, ![i].zomb = @ + 1,
                                   ![i].pend = @ \union {"chld"}]
                ELSE [child EXCEPT ![i].cgi = @ - 1]
    /\ msgs' = IF Alive(i) \/ child[i].cgi > 1 THEN msgs ELSE msgs \ Inbox(i)
    /\ UNCHANGED <<parent, m_pid, pid, backlog, used>>

\* The parent's end of pipe i is also held by every process forked after i.
PipeHangup(i) ==
    /\ ~child[i].hup /\ parent.pc = "exit" /\ Alive(i)
    /\ \A j \in Children : j > i => ~PipeOpen(j)
    /\ child' = [child EXCEPT ![i].hup = TRUE,
                              ![i].ready = IF i \in Listening
                                           THEN @ \union {"pipe"} ELSE @]
    /\ UNCHANGED <<parent, m_pid, pid, msgs, backlog, used>>

-----------------------------------------------------------------------------
(* The parent.                                                               *)

Fork(i) ==
    /\ parent.pc = "fork" /\ child[i].pc = "none"
    /\ \A j \in Children : j < i => child[j].pc # "none"
    /\ m_pid' = [m_pid EXCEPT ![i] = Pid(i)]
    /\ child' = [child EXCEPT ![i].pc = "setup"]
    /\ UNCHANGED <<parent, pid, msgs, backlog, used>>

\* setup_sig_pipe, then addfd(m_listenfd): connections already there are an edge.
ParentSetup ==
    /\ parent.pc = "fork" /\ \A i \in Children : child[i].pc # "none"
    /\ parent' = [parent EXCEPT !.pc = "wait",
                                !.ready = IF backlog > 0 THEN {"listen"} ELSE {}]
    /\ UNCHANGED <<m_pid, pid, child, msgs, backlog, used>>

\* sig_handler; the parent's loop ignores the EINTR it may cause.
ParentSignal(s) ==
    /\ Handling /\ s \in parent.pend
    /\ parent' = [parent EXCEPT !.pend = @ \ {s}, !.bytes[s] = @ + 1,
                                !.ready = @ \union {"sig"}]
    /\ UNCHANGED <<m_pid, pid, child, msgs, backlog, used>>

ParentWake ==
    /\ parent.pc = "wait" /\ parent.ready # {}
    /\ parent' = [parent EXCEPT !.pc = "batch", !.ready = {},
                                !.batch = parent.ready]
    /\ UNCHANGED <<m_pid, pid, child, msgs, backlog, used>>

SuccessorNoWrap(i) == i + 1
SuccessorOfLive(i) == IF Alive(i) THEN (i + 1) % N ELSE i
Successor(i) == (i + 1) % N

\* Every child is there: the next in turn gets one message, and send blocks
\* while the pipe is full.  A message to a closed pipe is lost (EPIPE).
Dispatch ==
    /\ parent.pc = "batch" /\ "listen" \in parent.batch
    /\ \A j \in Children : m_pid[j] # -1
    /\ LET i == parent.sub_process_counter IN
       /\ PipeOpen(i) => Cardinality(Inbox(i)) < PipeCap
       /\ parent' = [parent EXCEPT !.sub_process_counter = Successor(i),
                                   !.sent = @ + 1, !.batch = @ \ {"listen"}]
       /\ msgs' = IF PipeOpen(i) THEN msgs \union {<<i, parent.sent + 1>>} ELSE msgs
       /\ child' = IF i \in Listening
                   THEN [child EXCEPT ![i].ready = @ \union {"pipe"}] ELSE child
    /\ UNCHANGED <<m_pid, pid, backlog, used>>

\* The search stops at the first child marked -1: the parent stops instead.
DispatchStop ==
    /\ parent.pc = "batch" /\ "listen" \in parent.batch
    /\ \E j \in Children : m_pid[j] = -1
    /\ parent' = [parent EXCEPT !.m_stop = TRUE, !.batch = {}]
    /\ UNCHANGED <<m_pid, pid, child, msgs, backlog, used>>

\* recv empties the signal pipe, so an edge raised since the batch is void.
ParentReadSignals ==
    /\ parent.pc = "batch" /\ "sig" \in parent.batch
    /\ parent' = [parent EXCEPT !.pc = "sigs", !.todo = parent.bytes,
                                !.bytes = NoBytes, !.batch = @ \ {"sig"},
                                !.ready = @ \ {"sig"}]
    /\ UNCHANGED <<m_pid, pid, child, msgs, backlog, used>>

\* What waitpid(-1, &stat, WNOHANG) can return to the parent.
WaitPid ==
    IF Zombies # {} THEN {Pid(i) : i \in Zombies}
    ELSE IF \E i \in Children : Alive(i) THEN {0} ELSE {-1}

ReapedByLoop(r) == Zombies
ReapedBy(r) == {i \in Children : Pid(i) = r}

AllJoinedUnchecked == TRUE
AllJoined == \A i \in Children : m_pid[i] = -1

\* One SIGCHLD byte: "while ((pid == waitpid(..)) > 0)" compares instead of
\* assigning, so a byte reaps one child, and the loop goes on only while the
\* result is the value pid happens to hold.
Reap ==
    /\ parent.pc = "sigs" /\ parent.todo.chld > 0
    /\ \E r \in WaitPid :
        /\ child' = [i \in Children |-> IF i \in ReapedBy(r)
                        THEN [child[i] EXCEPT !.pc = "gone"] ELSE child[i]]
        /\ IF pid = r
           THEN /\ m_pid' = [i \in Children |->
                                IF m_pid[i] = pid THEN -1 ELSE m_pid[i]]
                /\ UNCHANGED parent
           ELSE /\ parent' = [parent EXCEPT !.m_stop = AllJoined,
                                            !.todo.chld = @ - 1]
                /\ UNCHANGED m_pid
    /\ UNCHANGED <<pid, msgs, backlog, used>>

ToldButFirst == {i \in Children \ {0} : m_pid[i] # -1}
Told == {i \in Children : m_pid[i] # -1}

\* One SIGTERM or SIGINT byte: kill(m_pid, SIGTERM) for every child not at -1.
KillAll ==
    /\ parent.pc = "sigs" /\ parent.todo.term > 0
    /\ Strike(Told \cap Defenceless, Told \cap Listening)
    /\ parent' = [parent EXCEPT !.todo.term = @ - 1,
                                !.pend = Bereaved(Told \cap Defenceless)]
    /\ UNCHANGED <<m_pid, pid, backlog, used>>

SignalsDone ==
    /\ parent.pc = "sigs" /\ parent.todo = NoBytes
    /\ parent' = [parent EXCEPT !.pc = "batch"]
    /\ UNCHANGED <<m_pid, pid, child, msgs, backlog, used>>

ParentBatchEnd ==
    /\ parent.pc = "batch" /\ parent.batch = {}
    /\ parent' = [parent EXCEPT !.pc = IF parent.m_stop THEN "exit" ELSE "wait"]
    /\ UNCHANGED <<m_pid, pid, child, msgs, backlog, used>>

-----------------------------------------------------------------------------
(* Child i.                                                                  *)

SetupEdgesNone(i) == {}
\* Messages already in the pipe when it is added to the epoll set are an edge.
SetupEdges(i) == IF Inbox(i) # {} \/ child[i].hup THEN {"pipe"} ELSE {}

ChildSetup(i) ==
    /\ child[i].pc = "setup"
    /\ child' = [child EXCEPT ![i].pc = "wait", ![i].ready = SetupEdges(i)]
    /\ UNCHANGED <<parent, m_pid, pid, msgs, backlog, used>>

\* sig_handler writes its byte.
ChildSignal(i, s) ==
    /\ i \in Listening /\ s \in child[i].pend
    /\ child' = [child EXCEPT ![i].pend = @ \ {s}, ![i].bytes[s] = @ + 1,
                              ![i].ready = @ \union {"sig"}]
    /\ UNCHANGED <<parent, m_pid, pid, msgs, backlog, used>>

\* The same while epoll_wait sleeps: it fails with EINTR, line 188 forgives
\* only EAGAIN, and the child leaves its loop and exits.
ChildInterrupted(i) ==
    /\ child[i].pc = "wait" /\ child[i].ready = {} /\ child[i].pend # {}
    /\ Dies(i)
    /\ UNCHANGED <<m_pid, pid, backlog, used>>

ChildWake(i) ==
    /\ child[i].pc = "wait" /\ child[i].ready # {}
    /\ child' = [child EXCEPT ![i].pc = "batch", ![i].ready = {},
                              ![i].batch = child[i].ready]
    /\ UNCHANGED <<parent, m_pid, pid, msgs, backlog, used>>

AcceptedEvery == backlog
\* accept takes one connection, or fails and the child goes on.
Accepted == Bit(backlog > 0)

ReceivedAll(m) == Inbox(m[1])
ReceivedPeeked(m) == {}
\* recv takes the four bytes of one message, whatever the pipe holds.
Received(m) == {m}

\* An end of file is passed over; EAGAIN, like a message, goes on to accept.
ChildPipe(i) ==
    /\ child[i].pc = "batch" /\ "pipe" \in child[i].batch
    /\ \/ \E m \in Inbox(i) :
            /\ \A o \in Inbox(i) : m[2] <= o[2]
            /\ msgs' = msgs \ Received(m)
       \/ Inbox(i) = {} /\ msgs' = msgs
    /\ LET new == IF Inbox(i) = {} /\ child[i].hup THEN 0 ELSE Accepted IN
       /\ backlog' = backlog - new
       /\ child' = [child EXCEPT ![i].conns = @ + new, ![i].batch = @ \ {"pipe"}]
    /\ UNCHANGED <<parent, m_pid, pid, used>>

\* users[sockfd].process(): the connection is kept (more bytes to come),
\* closed, or closed after the fork of a CGI program.
ChildConn(i) ==
    /\ child[i].pc = "batch" /\ "conn" \in child[i].batch /\ child[i].conns > 0
    /\ \E o \in Outcomes :
        LET left == IF o = "keep" THEN child[i].conns ELSE child[i].conns - 1 IN
        child' = [child EXCEPT ![i].conns = left,
                               ![i].cgi = IF o = "cgi" THEN @ + 1 ELSE @,
                               ![i].ready = IF left = 0 THEN @ \ {"conn"} ELSE @,
                               ![i].batch = @ \ {"conn"}]
    /\ UNCHANGED <<parent, m_pid, pid, msgs, backlog, used>>

\* The loop of line 237 ends a byte with a CGI program whose pid is not what
\* the child's pid holds.  One of its programs may have that pid, once.
MayBeSame(i) ==
    /\ ~child[i].same /\ child[i].bytes.chld > 0 /\ child[i].zomb > 0
    /\ \E g \in Garbage : g > 0 /\ \A j \in Children : g # Pid(j)

CgisReapedEvery(i, more) == child[i].zomb
CgisReaped(i, more) ==
    IF child[i].zomb > child[i].bytes.chld + more
    THEN child[i].bytes.chld + more ELSE child[i].zomb

\* That loop never ends once waitpid keeps returning the value of pid.
ReapSpins(i) ==
    /\ ~child[i].same /\ child[i].bytes.chld > child[i].zomb
    /\ (IF child[i].cgi > 0 THEN 0 ELSE -1) \in Garbage

ChildReadSignals(i) ==
    /\ child[i].pc = "batch" /\ "sig" \in child[i].batch /\ ~ReapSpins(i)
    /\ \E same \in BOOLEAN :
        /\ same => MayBeSame(i)
        /\ child' = [child EXCEPT ![i].zomb = @ - CgisReaped(i, Bit(same)),
                                  ![i].same = @ \/ same,
                                  ![i].m_stop = @ \/ child[i].bytes.term > 0,
                                  ![i].bytes = NoBytes,
                                  ![i].batch = @ \ {"sig"}, ![i].ready = @ \ {"sig"}]
    /\ UNCHANGED <<parent, m_pid, pid, msgs, backlog, used>>

ChildBatchEnd(i) ==
    /\ child[i].pc = "batch" /\ child[i].batch = {}
    /\ IF child[i].m_stop
       THEN Dies(i)
       ELSE child' = [child EXCEPT ![i].pc = "wait"] /\ UNCHANGED <<parent, msgs>>
    /\ UNCHANGED <<m_pid, pid, backlog, used>>

-----------------------------------------------------------------------------
ParentStep ==
    \/ \E i \in Children : Fork(i)
    \/ ParentSetup \/ ParentWake \/ ParentBatchEnd
    \/ Dispatch \/ DispatchStop
    \/ ParentReadSignals \/ Reap \/ KillAll \/ SignalsDone

ChildStep(i) ==
    \/ ChildSetup(i) \/ ChildWake(i) \/ ChildBatchEnd(i)
    \/ ChildPipe(i) \/ ChildConn(i) \/ ChildReadSignals(i)

ChildHandler(i) == ChildInterrupted(i) \/ \E s \in Signals : ChildSignal(i, s)

EnvStep ==
    \/ ClientConnect
    \/ \E group \in BOOLEAN : OperatorSignal(group)
    \/ \E i \in Children :
        ClientSend(i) \/ Crash(i) \/ CgiExit(i) \/ PipeHangup(i)

Next ==
    \/ EnvStep
    \/ ParentStep
    \/ \E s \in Signals : ParentSignal(s)
    \/ \E i \in Children : ChildStep(i) \/ ChildHandler(i)

Spec == Init /\ [][Next]_vars

(* The scheduler runs every process that can run, and the kernel delivers    *)
(* pending signals.  Nothing is promised of clients, CGI programs, operator. *)
Fairness ==
    /\ WF_vars(ParentStep)
    /\ \A s \in Signals : WF_vars(ParentSignal(s))
    /\ \A i \in Children : WF_vars(ChildStep(i)) /\ WF_vars(ChildHandler(i))

FairSpec == Spec /\ Fairness

-----------------------------------------------------------------------------
(* Safety.                                                                   *)

(* Each SIGCHLD byte the parent has, or will have, stands for a dead child   *)
(* that waitpid can still return, except that a pid equal to the garbage     *)
(* value costs no byte (run_parent, line 336).                               *)
GarbageReaped == \E i \in Children : Pid(i) = pid /\ child[i].pc = "gone"
Debt   == Bit("chld" \in parent.pend) + parent.bytes.chld + parent.todo.chld
Credit == Cardinality(Zombies) + Bit(GarbageReaped)
ReapBacked == Debt <= Credit

(* The parent never calls waitpid for a byte when there is nobody to reap    *)
(* and pid holds 0 or -1: the loop of line 336 would then never end, with    *)
(* m_stop, the listener and SIGTERM unattended.                              *)
NoBusyReap ==
    parent.pc = "sigs" /\ parent.todo.chld > 0 /\ pid \in {0, -1} => Zombies # {}

(* The same for a child and its CGI programs (run_child, line 237): while it *)
(* has not reaped one with the pid that its own pid holds, so that this may  *)
(* be 0 or -1, a byte never finds nobody to reap, and the loop does not spin.*)
ChildReapBacked ==
    \A i \in Children :
        Bit("chld" \in child[i].pend) + child[i].bytes.chld
            <= child[i].zomb + Bit(child[i].same)

(* Messages, and listener events still to be dispatched, never outnumber the *)
(* waiting connections, so a child that received a message finds one to      *)
(* accept (line 208), whichever child took which.                            *)
AcceptBacked ==
    Cardinality(msgs) + Bit("listen" \in parent.ready)
        + Bit("listen" \in parent.batch) <= backlog

(* A child told that its pipe is readable finds a message there, so recv     *)
(* never fails with EAGAIN and falls through to accept (line 200).           *)
PipeEdgeBacked ==
    \A i \in Children : ~child[i].hup =>
        Bit("pipe" \in child[i].ready) + Bit("pipe" \in child[i].batch)
            <= Cardinality(Inbox(i))

(* A full pipe of a serving child has an event the child will handle by      *)
(* reading it, so the parent's blocking send (line 314) always ends, although*)
(* events that came together leave messages unread.                          *)
FullPipeIsRead ==
    \A i \in Listening :
        Cardinality(Inbox(i)) >= PipeCap
            => "pipe" \in child[i].ready \union child[i].batch

(* Round robin: the k-th message of the server's life is for child k - 1     *)
(* modulo N, dead or alive (lines 299 to 314).                               *)
RoundRobin ==
    /\ parent.sub_process_counter = parent.sent % N
    /\ \A m \in msgs : m[1] = (m[2] - 1) % N

(* Once serving, the parent marks a child -1 only when it has reaped it, and *)
(* means to stop only when a child is marked (lines 302 to 312, 340 to 355). *)
MarkedIsReaped ==
    /\ Handling => \A i \in Children : m_pid[i] = -1 => child[i].pc = "gone"
    /\ parent.m_stop => \E i \in Children : m_pid[i] = -1

(* Liveness.                                                                 *)

(* SIGTERM or SIGINT to the serving parent ends every child, whatever the    *)
(* clients do (lines 361 to 369, 188 and 246).                               *)
TermEndsChildren ==
    "term" \in parent.pend ~> \A i \in Children : ~Alive(i)

(* As long as the parent and all children live, the waiting connections are  *)
(* accepted (lines 208 and 296).                                             *)
ConnectionsServed ==
    backlog > 0
        ~> \/ backlog = 0
           \/ parent.pc = "exit" \/ \E i \in Children : child[i].pc \in {"zombie", "gone"}

=============================================================================
