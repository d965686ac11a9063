--------------------------- MODULE OneShot_proof ----------------------------
(* For any descriptors, threads and bounds: while no argument is lost, one   *)
(* thread at a time reads a connection and nothing a client did goes unseen. *)
(* The strengthening follows a connection from armed to reported to read by a*)
(* thread and back to armed, always exactly one of the three.                *)
EXTENDS OneShot, FiniteSetTheorems, WellFoundedInduction, TLAPS

Conns == [open : BOOLEAN, armed : BOOLEAN, unread : Nat, eof : BOOLEAN]
States == [pc : {"none", "start", "recv", "arm"}, sockfd : Fds \union {Garbage},
           for : Fds \union {Garbage}]

Types ==
    /\ ready \subseteq Fds \union {Listen} /\ batch \subseteq Fds \union {Listen}
    /\ backlog \in Nat
    /\ conn \in [Fds -> Conns]
    /\ local \in Fds \union {Garbage}
    /\ thread \in [Threads -> States]
    /\ mishap \in BOOLEAN

Room == backlog + Cardinality(Open) <= Cardinality(Fds)

\* An event is of an open connection: armed if still to be reported, and if
\* reported, neither armed nor read by a thread.
EventsInTurn ==
    /\ \A fd \in ready \ {Listen} : fd \in Open /\ conn[fd].armed
    /\ \A fd \in batch \ {Listen} : /\ fd \in Open /\ ~conn[fd].armed
                                    /\ \A t \in Live : thread[t].for # fd

\* A thread has a connection of its own, which is not armed.
ThreadsInTurn ==
    /\ \A t \in Live :
        /\ thread[t].for \in Open /\ ~conn[thread[t].for].armed
        /\ IF thread[t].pc = "start" THEN local = thread[t].for
           ELSE thread[t].sockfd = thread[t].for
    /\ \A s, t \in Live : thread[s].for = thread[t].for => s = t

\* An armed connection with news is reported; one not armed is in hand.
NothingLost ==
    \A fd \in Open :
        /\ conn[fd].armed /\ HasNews(conn[fd]) => fd \in ready
        /\ conn[fd].armed \/ fd \in batch \/ \E t \in Live : thread[t].for = fd

Orderly == EventsInTurn /\ ThreadsInTurn /\ NothingLost

Inv == Types /\ Room /\ (mishap \/ Orderly)

LEMMA FdsAreNat == Garbage \notin Fds /\ \A fd \in Fds : fd \in Nat /\ fd # Listen
BY FdsAssumption DEF Listen, Garbage

LEMMA OpenFinite ==
    /\ IsFiniteSet(Open) /\ Cardinality(Open) \in Nat /\ Cardinality(Fds) \in Nat
BY FdsAssumption, FS_Subset, FS_CardinalityType DEF Open

\* Min is the least element of a set of natural numbers that has one.
LEMMA MinFound ==
    ASSUME NEW S \in SUBSET Nat, S # {}
    PROVE  Min(S) \in S
<1>1. PICK p \in S : \A q \in S : ~ (<<q, p>> \in OpToRel(<, Nat))
  BY NatLessThanWellFounded, WFMin
<1>2. \A q \in S : ~ (q < p)
  BY <1>1 DEF OpToRel
<1>3. p \in S /\ \A q \in S : p <= q
  BY <1>2
<1> QED
  BY <1>3 DEF Min

\* What a client does to its connection is reported if the connection is armed.
LEMMA HappensKeeps ==
    ASSUME Inv, NEW fd \in Fds, NEW c \in Conns, Happens(fd, c),
           c.open, c.armed = conn[fd].armed
    PROVE  Inv'
<1>1. /\ conn[fd].open /\ conn' = [conn EXCEPT ![fd] = c]
      /\ ready' = IF conn[fd].armed THEN ready \union {fd} ELSE ready
      /\ UNCHANGED <<batch, backlog, local, thread, mishap>>
  BY DEF Happens
<1>2. /\ Open' = Open /\ Live' = Live /\ fd \in Open
      /\ \A f \in Fds : conn'[f] = IF f = fd THEN c ELSE conn[f]
  BY <1>1 DEF Open, Live, Inv, Types
<1>3. Types' /\ Room'
  BY <1>1, <1>2 DEF Inv, Types, Room
<1>4. ASSUME Orderly PROVE Orderly'
  <2>1. EventsInTurn'
    BY <1>1, <1>2, <1>4 DEF Orderly, EventsInTurn, Open
  <2>2. ThreadsInTurn'
    BY <1>1, <1>2, <1>4 DEF Orderly, ThreadsInTurn, Open
  <2>3. NothingLost'
    BY <1>1, <1>2, <1>4 DEF Orderly, NothingLost, Open
  <2> QED
    BY <2>1, <2>2, <2>3 DEF Orderly
<1> QED
  BY <1>1, <1>3, <1>4 DEF Inv

LEMMA ClientsKeep ==
    ASSUME Inv, Connect \/ \E fd \in Fds : Send(fd) \/ Hangup(fd)
    PROVE  Inv'
<1>1. CASE Connect
  <2>1. Open' = Open /\ Live' = Live
    BY <1>1 DEF Connect, Open, Live
  <2>2. Types'
    BY <1>1 DEF Connect, Inv, Types
  <2>3. Room'
    BY <1>1, <2>1, OpenFinite DEF Connect, Inv, Types, Room
  <2>4. ASSUME Orderly PROVE Orderly'
    BY <1>1, <2>1, <2>4, FdsAreNat
       DEF Connect, Orderly, EventsInTurn, ThreadsInTurn, NothingLost, Open
  <2> QED
    BY <1>1, <2>2, <2>3, <2>4 DEF Connect, Inv
<1>2. ASSUME NEW fd \in Fds, Send(fd) PROVE Inv'
  <2> DEFINE c == [conn[fd] EXCEPT !.unread = @ + 1]
  <2>1. conn[fd] \in Conns /\ conn[fd].open
    BY <1>2 DEF Send, Happens, Inv, Types
  <2>2. c \in Conns /\ c.open /\ c.armed = conn[fd].armed
    BY <2>1 DEF Conns
  <2>3. Happens(fd, c)
    BY <1>2 DEF Send
  <2> HIDE DEF c
  <2> QED
    BY <2>2, <2>3, HappensKeeps
<1>3. ASSUME NEW fd \in Fds, Hangup(fd) PROVE Inv'
  <2> DEFINE c == [conn[fd] EXCEPT !.eof = TRUE]
  <2>1. conn[fd] \in Conns /\ conn[fd].open
    BY <1>3 DEF Hangup, Happens, Inv, Types
  <2>2. c \in Conns /\ c.open /\ c.armed = conn[fd].armed
    BY <2>1 DEF Conns
  <2>3. Happens(fd, c)
    BY <1>3 DEF Hangup
  <2> HIDE DEF c
  <2> QED
    BY <2>2, <2>3, HappensKeeps
<1> QED
  BY <1>1, <1>2, <1>3

LEMMA WakeKeeps ==
    ASSUME Inv, Wake
    PROVE  Inv'
<1>1. /\ batch = {} /\ batch' = ready /\ ready' = {}
      /\ UNCHANGED <<backlog, local, thread, mishap>>
      /\ conn' = [fd \in Fds |-> IF fd \in ready THEN [conn[fd] EXCEPT !.armed = FALSE]
                                 ELSE conn[fd]]
  BY DEF Wake, Fired
<1>2. \A fd \in Fds : /\ conn'[fd] \in Conns
                      /\ conn'[fd].open = conn[fd].open
                      /\ conn'[fd].unread = conn[fd].unread
                      /\ conn'[fd].eof = conn[fd].eof
                      /\ conn'[fd].armed = (conn[fd].armed /\ fd \notin ready)
  <2>1. TAKE fd \in Fds
  <2>2. conn[fd] \in Conns
    BY DEF Inv, Types
  <2>3. CASE fd \in ready
    BY <1>1, <2>2, <2>3 DEF Conns
  <2>4. CASE fd \notin ready
    BY <1>1, <2>2, <2>4 DEF Conns
  <2> QED
    BY <2>3, <2>4
<1>3. conn' \in [Fds -> Conns]
  BY <1>1, <1>2
<1>4. Open' = Open /\ Live' = Live
  BY <1>1, <1>2 DEF Open, Live
<1>5. Types' /\ Room'
  BY <1>1, <1>3, <1>4 DEF Inv, Types, Room
<1>6. ASSUME Orderly PROVE Orderly'
  <2>1. EventsInTurn'
    BY <1>1, <1>2, <1>4, <1>6 DEF Orderly, EventsInTurn, ThreadsInTurn, Open
  <2>2. ThreadsInTurn'
    BY <1>1, <1>2, <1>4, <1>6 DEF Orderly, ThreadsInTurn, Open
  <2>3. \A fd \in Open : HasNews(conn'[fd]) => HasNews(conn[fd])
    BY <1>2 DEF HasNews, Open
  <2>4. NothingLost'
    BY <1>1, <1>2, <1>4, <1>6, <2>3 DEF Orderly, NothingLost, Open
  <2> QED
    BY <2>1, <2>2, <2>4 DEF Orderly
<1> QED
  BY <1>1, <1>5, <1>6 DEF Inv

LEMMA AcceptedState ==
    ASSUME NEW c \in Conns
    PROVE  LET new == [c EXCEPT !.open = TRUE, !.armed = TRUE]
           IN  new \in Conns /\ new.open /\ new.armed
               /\ new.unread = c.unread /\ new.eof = c.eof
BY DEF Conns

LEMMA AcceptKeeps ==
    ASSUME Inv, Accept
    PROVE  Inv'
<1>1. /\ batch' = batch \ {Listen} /\ ready' = ready /\ thread' = thread
      /\ local' \in {local, Garbage}
      /\ mishap' = (mishap \/ (Unstarted # {} /\ local' # local))
  BY DEF Accept
<1>2. Live' = Live
  BY <1>1 DEF Live
<1>3. ~mishap' => ~mishap /\ \A t \in Live : thread[t].pc = "start" => local' = local
  BY <1>1 DEF Inv, Types, Live, Unstarted
<1>4. CASE backlog = 0 /\ UNCHANGED <<ready, conn, backlog>>
  <2>1. Open' = Open
    BY <1>4 DEF Open
  <2>2. Types' /\ Room'
    BY <1>1, <1>4, <2>1 DEF Inv, Types, Room
  <2>3. ASSUME ~mishap' PROVE Orderly'
    BY <1>1, <1>2, <1>3, <1>4, <2>1, <2>3, FdsAreNat
       DEF Inv, Orderly, EventsInTurn, ThreadsInTurn, NothingLost, Open
  <2> QED
    BY <1>1, <2>2, <2>3 DEF Inv, Types
<1>5. CASE backlog > 0
  <2> DEFINE fd == Min(Fds \ Open)
             new == [Closed EXCEPT !.open = TRUE, !.armed = TRUE]
  <2>1. backlog' = backlog - 1 /\ conn' = [conn EXCEPT ![fd] = new] /\ backlog \in Nat
    <3>1. backlog \in Nat
      BY DEF Inv, Types
    <3>2. backlog # 0
      BY <1>5, <3>1
    <3> QED
      BY <3>1, <3>2 DEF Accept
  <2>2. Open # Fds
    BY <1>5, OpenFinite DEF Inv, Types, Room
  <2>3. fd \in Fds /\ fd \notin Open
    BY <2>2, MinFound, FdsAssumption DEF Open
  <2>4. new \in Conns /\ new.open /\ new.armed /\ ~HasNews(new)
    <3>1. Closed \in Conns /\ Closed.unread = 0 /\ Closed.eof = FALSE
      BY DEF Closed, Conns
    <3>2. /\ new \in Conns /\ new.open /\ new.armed
          /\ new.unread = Closed.unread /\ new.eof = Closed.eof
      BY <3>1, AcceptedState
    <3> HIDE DEF new
    <3>3. new.unread = 0 /\ new.eof = FALSE
      BY <3>1, <3>2
    <3>4. ~HasNews(new)
      BY <3>3 DEF HasNews
    <3> QED
      BY <3>2, <3>4
  <2> HIDE DEF fd, new
  <2>5. /\ Open' = Open \union {fd}
        /\ \A f \in Fds : conn'[f] = IF f = fd THEN new ELSE conn[f]
    BY <2>1, <2>3, <2>4 DEF Open, Inv, Types
  <2>6. Types'
    <3>1. conn' \in [Fds -> Conns]
      BY <2>1, <2>4 DEF Inv, Types
    <3>2. backlog' \in Nat
      BY <1>5, <2>1
    <3>3. mishap' \in BOOLEAN
      BY <1>1 DEF Inv, Types
    <3> QED
      BY <1>1, <3>1, <3>2, <3>3 DEF Inv, Types
  <2>7. Room'
    <3>1. Cardinality(Open') = Cardinality(Open) + 1
      BY <2>3, <2>5, OpenFinite, FS_AddElement
    <3> QED
      BY <2>1, <3>1, OpenFinite DEF Inv, Room
  <2>8. ASSUME ~mishap' PROVE Orderly'
    <3>1. Orderly
      BY <1>3, <2>8 DEF Inv
    <3>2. EventsInTurn'
      BY <1>1, <1>2, <2>3, <2>5, <3>1 DEF Orderly, EventsInTurn, Open
    <3>3. ThreadsInTurn'
      BY <1>1, <1>2, <1>3, <2>3, <2>5, <2>8, <3>1 DEF Orderly, ThreadsInTurn, Open
    <3>4. NothingLost'
      BY <1>1, <1>2, <2>3, <2>4, <2>5, <3>1, FdsAreNat DEF Orderly, NothingLost, Open
    <3> QED
      BY <3>2, <3>3, <3>4 DEF Orderly
  <2> QED
    BY <1>1, <2>6, <2>7, <2>8 DEF Inv, Types
<1> QED
  BY <1>4, <1>5 DEF Accept

LEMMA StartThreadKeeps ==
    ASSUME Inv, NEW fd \in Fds, StartThread(fd)
    PROVE  Inv'
<1>1. /\ fd \in batch /\ fd # Listen /\ batch' = batch \ {fd} /\ local' = fd
      /\ UNCHANGED <<ready, backlog, conn>> /\ Open' = Open
  BY DEF StartThread, Open
<1>2. Room'
  BY <1>1 DEF Inv, Room
<1>3. CASE mishap' = TRUE /\ UNCHANGED thread
  BY <1>1, <1>2, <1>3 DEF Inv, Types
<1>4. ASSUME NEW t \in Threads \ Live, mishap' = (mishap \/ Unstarted # {}),
             thread' = [thread EXCEPT ![t] = [NoThread EXCEPT !.pc = "start", !.for = fd]]
      PROVE  Inv'
  <2> DEFINE new == [NoThread EXCEPT !.pc = "start", !.for = fd]
  <2>1. new \in States /\ new.pc = "start" /\ new.for = fd
    BY DEF NoThread, States
  <2>2. thread' = [thread EXCEPT ![t] = new]
    BY <1>4
  <2> HIDE DEF new
  <2>3. Types'
    <3>1. thread' \in [Threads -> States]
      BY <2>1, <2>2 DEF Inv, Types
    <3>2. mishap' \in BOOLEAN
      BY <1>4 DEF Inv, Types
    <3> QED
      BY <1>1, <3>1, <3>2 DEF Inv, Types
  <2>4. /\ t \notin Live /\ Live' = Live \union {t}
        /\ \A s \in Threads : thread'[s] = IF s = t THEN new ELSE thread[s]
    BY <1>4, <2>1, <2>2 DEF Live, Inv, Types
  <2>5. ASSUME ~mishap' PROVE Orderly'
    <3>1. Orderly /\ \A s \in Live : thread[s].pc # "start"
      BY <1>4, <2>5 DEF Inv, Types, Live, Unstarted
    <3>2. /\ fd \in Open /\ ~conn[fd].armed /\ fd \notin ready
          /\ \A s \in Live : thread[s].for # fd
      BY <1>1, <3>1 DEF Orderly, EventsInTurn
    <3>3. EventsInTurn'
      BY <1>1, <2>1, <2>4, <3>1, <3>2 DEF Orderly, EventsInTurn, Live
    <3>4. ThreadsInTurn'
      BY <1>1, <2>1, <2>4, <3>1, <3>2 DEF Orderly, ThreadsInTurn, Live
    <3>5. NothingLost'
      BY <1>1, <2>1, <2>4, <3>1 DEF Orderly, NothingLost, Live
    <3> QED
      BY <3>3, <3>4, <3>5 DEF Orderly
  <2> QED
    BY <1>2, <2>3, <2>5 DEF Inv, Types
<1> QED
  BY <1>3, <1>4 DEF StartThread

\* A thread that stays alive and keeps what it is for.
LEMMA ThreadStepKeeps ==
    ASSUME Inv, NEW t \in Live, NEW s \in States,
           thread' = [thread EXCEPT ![t] = s], s.pc # "none", s.for = thread[t].for,
           Orderly => s.pc # "start" /\ s.sockfd = s.for,
           UNCHANGED <<ready, batch, backlog, conn, local, mishap>>
    PROVE  Inv'
<1>1. /\ t \in Threads /\ Open' = Open /\ Live' = Live
      /\ \A u \in Threads : thread'[u] = IF u = t THEN s ELSE thread[u]
  BY DEF Live, Open, Inv, Types
<1>2. Types' /\ Room'
  BY <1>1 DEF Inv, Types, Room
<1>3. \A u \in Live : u \in Threads /\ thread'[u].for = thread[u].for
  BY <1>1 DEF Live
<1>4. ASSUME Orderly PROVE Orderly'
  <2>1. EventsInTurn' /\ NothingLost'
    BY <1>1, <1>3, <1>4 DEF Orderly, EventsInTurn, NothingLost
  <2>2. ThreadsInTurn'
    BY <1>1, <1>3, <1>4 DEF Orderly, ThreadsInTurn
  <2> QED
    BY <2>1, <2>2 DEF Orderly
<1> QED
  BY <1>2, <1>4 DEF Inv

\* A thread that ends, having closed its connection or armed it again.
LEMMA ThreadEndKeeps ==
    ASSUME Inv, NEW t \in Live, NEW fd \in Fds \union {Garbage},
           fd = thread[t].sockfd, thread[t].pc # "start",
           thread' = [thread EXCEPT ![t] = NoThread],
           conn' \in [Fds -> Conns], \A f \in Fds : f # fd => conn'[f] = conn[f],
           fd \in Open' => /\ fd \in Open /\ fd \in Fds /\ conn'[fd].armed
                           /\ HasNews(conn'[fd]) => fd \in ready',
           Orderly /\ fd \notin Open' => fd \notin ready',
           ready' \subseteq ready \union ({fd} \intersect Open'), ready \ {fd} \subseteq ready',
           UNCHANGED <<batch, backlog, local, mishap>>
    PROVE  Inv'
<1>1. NoThread \in States /\ NoThread.pc = "none"
  BY DEF NoThread, States
<1>2. /\ t \in Threads /\ Live' = Live \ {t}
      /\ \A u \in Threads : u # t => thread'[u] = thread[u]
  BY <1>1 DEF Live, Inv, Types
<1>3. Types'
  <2>1. thread' \in [Threads -> States]
    BY <1>1 DEF Inv, Types
  <2>2. ready' \subseteq Fds \union {Listen}
    BY DEF Inv, Types, Open
  <2> QED
    BY <2>1, <2>2 DEF Inv, Types
<1>4. Open' \subseteq Open /\ \A f \in Open : f # fd => f \in Open'
  BY DEF Open
<1>5. Room'
  <2>1. Cardinality(Open') <= Cardinality(Open) /\ Cardinality(Open') \in Nat
    BY <1>4, OpenFinite, FS_Subset, FS_CardinalityType
  <2> QED
    BY <2>1, OpenFinite DEF Inv, Types, Room
<1>6. ASSUME Orderly PROVE Orderly'
  <2>1. thread[t].for = fd /\ fd \in Fds /\ fd \in Open
    BY <1>6 DEF Orderly, ThreadsInTurn, Open
  <2>2. /\ fd \notin batch
        /\ \A u \in Live' : u \in Live /\ u \in Threads /\ u # t /\ thread[u].for # fd
    BY <1>2, <1>6, <2>1, FdsAreNat
       DEF Orderly, ThreadsInTurn, EventsInTurn, Live
  <2>3. EventsInTurn'
    BY <1>2, <1>4, <1>6, <2>1, <2>2 DEF Orderly, EventsInTurn, Open
  <2>4. ThreadsInTurn'
    BY <1>2, <1>4, <1>6, <2>1, <2>2 DEF Orderly, ThreadsInTurn, Open
  <2>5. NothingLost'
    BY <1>2, <1>4, <1>6, <2>1, <2>2 DEF Orderly, NothingLost, Open
  <2> QED
    BY <2>3, <2>4, <2>5 DEF Orderly
<1> QED
  BY <1>3, <1>5, <1>6 DEF Inv

LEMMA WorkerKeeps ==
    ASSUME Inv, NEW t \in Threads, Worker(t)
    PROVE  Inv'
<1>0. thread[t] \in States /\ thread[t].sockfd \in Fds \union {Garbage}
  BY DEF Inv, Types, States
<1> DEFINE fd == thread[t].sockfd
<1>1. CASE ReadArgument(t)
  <2> DEFINE s == [thread[t] EXCEPT !.pc = "recv", !.sockfd = local]
  <2>1. t \in Live /\ thread[t].pc = "start" /\ local \in Fds \union {Garbage}
    BY <1>1 DEF ReadArgument, Live, Inv, Types
  <2>2. /\ s \in States /\ s.pc = "recv" /\ s.for = thread[t].for /\ s.sockfd = local
    BY <1>0, <2>1 DEF States
  <2>3. thread' = [thread EXCEPT ![t] = s]
    BY <1>1 DEF ReadArgument
  <2>4. Orderly => local = thread[t].for
    BY <2>1 DEF Orderly, ThreadsInTurn
  <2>5. UNCHANGED <<ready, batch, backlog, conn, local, mishap>>
    BY <1>1 DEF ReadArgument
  <2> HIDE DEF s
  <2> QED
    BY <2>1, <2>2, <2>3, <2>4, <2>5, ThreadStepKeeps
<1>2. CASE RecvLater(t)
  <2> DEFINE s == [thread[t] EXCEPT !.pc = "arm"]
  <2>1. t \in Live /\ thread[t].pc = "recv"
    BY <1>2 DEF RecvLater, Receives, Live
  <2>2. s \in States /\ s.pc = "arm" /\ s.for = thread[t].for /\ s.sockfd = thread[t].sockfd
    BY <1>0 DEF States
  <2>3. thread' = [thread EXCEPT ![t] = s]
    BY <1>2 DEF RecvLater
  <2>4. Orderly => thread[t].sockfd = thread[t].for
    BY <2>1 DEF Orderly, ThreadsInTurn
  <2>5. UNCHANGED <<ready, batch, backlog, conn, local, mishap>>
    BY <1>2 DEF RecvLater
  <2> HIDE DEF s
  <2> QED
    BY <2>1, <2>2, <2>3, <2>4, <2>5, ThreadStepKeeps
<1>3. CASE RecvPiece(t)
  <2> DEFINE c == [conn[fd] EXCEPT !.unread = @ - 1]
  <2>1. /\ fd \in Open /\ fd \in Fds /\ conn[fd] \in Conns /\ conn[fd].unread > 0
        /\ conn' = [conn EXCEPT ![fd] = c]
        /\ UNCHANGED <<ready, batch, backlog, local, thread, mishap>>
    BY <1>3 DEF RecvPiece, Receives, Open, Inv, Types
  <2>2. /\ c \in Conns /\ c.open = conn[fd].open /\ c.armed = conn[fd].armed
        /\ HasNews(c) => HasNews(conn[fd])
    BY <2>1 DEF Conns, HasNews
  <2> HIDE DEF c
  <2>3. \A f \in Fds : conn'[f] = IF f = fd THEN c ELSE conn[f]
    BY <2>1 DEF Inv, Types
  <2>4. Open' = Open /\ Live' = Live
    BY <2>1, <2>2, <2>3 DEF Open, Live
  <2>5. Types' /\ Room'
    BY <2>1, <2>2, <2>4 DEF Inv, Types, Room
  <2>6. ASSUME Orderly PROVE Orderly'
    <3>1. EventsInTurn'
      BY <2>1, <2>2, <2>3, <2>4, <2>6 DEF Orderly, EventsInTurn, Open
    <3>2. ThreadsInTurn'
      BY <2>1, <2>2, <2>3, <2>4, <2>6 DEF Orderly, ThreadsInTurn, Open
    <3>3. NothingLost'
      BY <2>1, <2>2, <2>3, <2>4, <2>6 DEF Orderly, NothingLost, Open
    <3> QED
      BY <3>1, <3>2, <3>3 DEF Orderly
  <2> QED
    BY <2>1, <2>5, <2>6 DEF Inv
<1>4. CASE RecvEnd(t)
  <2>1. /\ t \in Live /\ thread[t].pc # "start" /\ fd \in Fds
        /\ conn' = [conn EXCEPT ![fd] = Closed] /\ ready' = ready \ {fd}
        /\ thread' = [thread EXCEPT ![t] = NoThread]
        /\ UNCHANGED <<batch, backlog, local, mishap>>
    BY <1>4 DEF RecvEnd, Receives, Live, Open
  <2>2. Closed \in Conns /\ ~Closed.open
    BY DEF Closed, Conns
  <2>3. /\ conn' \in [Fds -> Conns] /\ \A f \in Fds : f # fd => conn'[f] = conn[f]
        /\ fd \notin Open'
    BY <2>1, <2>2 DEF Inv, Types, Open
  <2> QED
    BY <1>0, <2>1, <2>3, ThreadEndKeeps
<1>5. CASE ResetOneshot(t)
  <2>1. /\ t \in Live /\ thread[t].pc # "start"
        /\ thread' = [thread EXCEPT ![t] = NoThread]
        /\ UNCHANGED <<batch, backlog, local, mishap>>
        /\ conn' = [f \in Fds |-> IF f = fd THEN [conn[f] EXCEPT !.armed = conn[f].open]
                                  ELSE conn[f]]
        /\ ready' = ready \union ({fd} \intersect {f \in Open : HasNews(conn[f])})
    BY <1>5 DEF ResetOneshot, ArmedReports, Live
  <2>2. \A f \in Fds : [conn[f] EXCEPT !.armed = conn[f].open] \in Conns
    BY DEF Inv, Types, Conns
  <2>3. conn' \in [Fds -> Conns]
    BY <2>1, <2>2 DEF Inv, Types
  <2>4. \A f \in Fds : /\ f # fd => conn'[f] = conn[f]
                       /\ conn'[f].open = conn[f].open
                       /\ conn'[f].unread = conn[f].unread /\ conn'[f].eof = conn[f].eof
    BY <2>1 DEF Inv, Types, Conns
  <2>5. fd \in Fds => conn'[fd].armed = conn[fd].open
    BY <2>1 DEF Inv, Types, Conns
  <2>6. Open' = Open
    BY <2>4 DEF Open
  <2>7. fd \in Open' => /\ fd \in Open /\ fd \in Fds /\ conn'[fd].armed
                        /\ HasNews(conn'[fd]) => fd \in ready'
    BY <2>1, <2>4, <2>5, <2>6 DEF Open, HasNews
  <2>8. /\ ready' \subseteq ready \union ({fd} \intersect Open')
        /\ ready \ {fd} \subseteq ready'
    BY <2>1, <2>6
  <2>9. Orderly => fd \in Open'
    BY <1>0, <2>1, <2>6 DEF Orderly, ThreadsInTurn, Live
  <2> QED
    BY <1>0, <2>1, <2>3, <2>4, <2>7, <2>8, <2>9, ThreadEndKeeps
<1>6. CASE RecvFails(t)
  BY <1>6 DEF RecvFails, vars, Inv, Types, Room, Orderly, EventsInTurn, ThreadsInTurn,
              NothingLost, Open, Live
<1> QED
  BY <1>1, <1>2, <1>3, <1>4, <1>5, <1>6 DEF Worker

LEMMA InvHolds == Spec => []Inv
<1>1. Init => Inv
  <2> SUFFICES ASSUME Init PROVE Inv
    OBVIOUS
  <2>1. Open = {} /\ Live = {}
    BY DEF Init, Open, Live, Closed, NoThread
  <2>2. Closed \in Conns /\ NoThread \in States
    BY DEF Closed, Conns, NoThread, States
  <2>3. Types
    BY <2>2 DEF Init, Types
  <2>4. Room
    BY <2>1, OpenFinite, FS_EmptySet DEF Init, Room
  <2> QED
    BY <2>1, <2>3, <2>4 DEF Init, Inv, Orderly, EventsInTurn, ThreadsInTurn, NothingLost
<1>2. Inv /\ [Next]_vars => Inv'
  <2> SUFFICES ASSUME Inv, [Next]_vars PROVE Inv'
    OBVIOUS
  <2>1. CASE UNCHANGED vars
    BY <2>1 DEF vars, Inv, Types, Room, Orderly, EventsInTurn, ThreadsInTurn,
                NothingLost, Open, Live
  <2> QED
    BY <2>1, ClientsKeep, WakeKeeps, AcceptKeeps, StartThreadKeeps, WorkerKeeps DEF Next
<1> QED
  BY <1>1, <1>2, PTL DEF Spec

(* Lines 142 to 145 and 55: until an argument is lost, EPOLLONESHOT gives    *)
(* every connection one thread, and the thread its connection.               *)
THEOREM SoleReaderHolds == Spec => []SoleReader
<1>1. Inv => SoleReader
  BY DEF Inv, SoleReader, Orderly, ThreadsInTurn
<1> QED
  BY <1>1, InvHolds, PTL

(* Lines 42 to 48, 71 to 75 and 139: until then, the arming of a descriptor  *)
(* leaves nothing unreported that came before it.                            *)
THEOREM NewsIsSeenHolds == Spec => []NewsIsSeen
<1>1. Inv => NewsIsSeen
  BY DEF Inv, NewsIsSeen, Orderly, NothingLost
<1> QED
  BY <1>1, InvHolds, PTL

=============================================================================
