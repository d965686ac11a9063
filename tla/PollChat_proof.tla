--------------------------- MODULE PollChat_proof ---------------------------
(* For any limit, any descriptors and any number of connections: entries move*)
(* without losing a user, a descriptor or an event.  The two invariants are  *)
(* inductive with the types and with what the first entry is: only there is  *)
(* the listening socket, and a connection waits when it says so.             *)
EXTENDS PollChat, FiniteSetTheorems, WellFoundedInduction, TLAPS

Events == {"IN", "RDHUP", "ERR", "OUT"}
Conns == [open : BOOLEAN, unread : Nat, peer : {"open", "gone"}, error : BOOLEAN,
          user : Nat]

Types ==
    /\ i \in Int /\ -1 <= i /\ i <= user_counter + 1
    /\ user_counter \in Nat /\ user_counter <= USER_LIMIT
    /\ fds \in [Entries -> [fd : Fds \union {Listen}, out : BOOLEAN,
                            revents : SUBSET Events]]
    /\ users \in [Fds \union {Listen} -> Nat]
    /\ conn \in [Fds -> Conns]
    /\ backlog \in Nat /\ made \in Nat /\ backlog <= made

FirstEntry ==
    /\ fds[0].fd = Listen /\ fds[0].revents \subseteq {"IN"}
    /\ i = 0 /\ fds[0].revents # {} => backlog > 0

RoomToAccept == backlog + Cardinality(Open) <= Cardinality(Fds)

Inv == Types /\ FirstEntry /\ RoomToAccept /\ EntriesMatch /\ NothingPassedOver

\* What is still to come of a pass.
Coming == {fds[e].fd : e \in {e \in Used : e >= i /\ fds[e].revents # {}}}

LEMMA FdsAreNat == \A fd \in Fds : fd \in Nat /\ fd # Listen
BY FdsAssumption DEF Listen

LEMMA OpenFinite ==
    /\ IsFiniteSet(Open) /\ Cardinality(Open) \in Nat /\ Cardinality(Fds) \in Nat
BY FdsAssumption, FS_Subset, FS_CardinalityType DEF Open

\* Min is the least element of a set of natural numbers that has one.
LEMMA MinFound ==
    ASSUME NEW S \in SUBSET Nat, S # {}
    PROVE  Min(S) \in S
<1>1. PICK p \in S : \A q \in S : ~ (<<q, p>> \in OpToRel(<, Nat))
  BY NatLessThanWellFounded, WFMin
<1>2. \A q \in S : ~ (q < p)
  BY <1>1 DEF OpToRel
<1>3. p \in S /\ \A q \in S : p <= q
  BY <1>2
<1> QED
  BY <1>3 DEF Min

\* An entry in use is an open connection's; where the pass is, if not at the
\* first, is such an entry.
LEMMA UsedAreOpen ==
    ASSUME Inv
    PROVE  /\ \A e \in Used : e \in Entries /\ e # 0 /\ fds[e].fd \in Open
           /\ Used \subseteq Nat
<1>1. \A e \in Used : fds[e].fd \in Open
  BY DEF Inv, EntriesMatch
<1> QED
  BY <1>1, LimitAssumption DEF Used, Entries, Inv, Types

\* A connection's own events change no entry.
LEMMA HappensKeeps ==
    ASSUME Inv, NEW fd \in Fds, NEW c \in Conns, Happens(fd, c),
           c.open, c.user = conn[fd].user
    PROVE  Inv'
<1>1. /\ conn' = [conn EXCEPT ![fd] = c] /\ conn[fd].open
      /\ UNCHANGED <<i, user_counter, fds, users, backlog, made, due>>
  BY DEF Happens
<1>2. Types'
  BY <1>1 DEF Inv, Types, Entries
<1>3. Open' = Open /\ \A f \in Fds : conn'[f].user = conn[f].user
  BY <1>1 DEF Inv, Types, Open
<1>4. FirstEntry' /\ RoomToAccept' /\ NothingPassedOver'
  BY <1>1, <1>3 DEF Inv, FirstEntry, RoomToAccept, NothingPassedOver, Used
<1>5. EntriesMatch'
  BY <1>1, <1>3 DEF Inv, EntriesMatch, Used, Open
<1> QED
  BY <1>2, <1>4, <1>5 DEF Inv

LEMMA UsersKeep ==
    ASSUME Inv, Connect \/ \E fd \in Fds : Sends(fd) \/ Leaves(fd)
    PROVE  Inv'
<1>1. CASE Connect
  <2>1. Open' = Open /\ Used' = Used
    BY <1>1 DEF Connect, Open, Used
  <2>2. Types'
    BY <1>1 DEF Connect, Inv, Types, Entries
  <2>3. RoomToAccept'
    BY <1>1, <2>1, OpenFinite DEF Connect, Inv, Types, RoomToAccept
  <2>4. FirstEntry'
    BY <1>1 DEF Connect, Inv, Types, FirstEntry
  <2> QED
    BY <1>1, <2>1, <2>2, <2>3, <2>4 DEF Connect, Inv, EntriesMatch, NothingPassedOver
<1>2. ASSUME NEW fd \in Fds, Sends(fd) PROVE Inv'
  <2> DEFINE c == [conn[fd] EXCEPT !.unread = @ + 1]
  <2>1. conn[fd] \in Conns /\ conn[fd].open
    BY <1>2 DEF Sends, Happens, Inv, Types
  <2>2. c \in Conns /\ c.open /\ c.user = conn[fd].user
    BY <2>1 DEF Conns
  <2>3. Happens(fd, c)
    BY <1>2 DEF Sends
  <2> HIDE DEF c
  <2> QED
    BY <2>2, <2>3, HappensKeeps
<1>3. ASSUME NEW fd \in Fds, Leaves(fd) PROVE Inv'
  <2>1. conn[fd] \in Conns /\ conn[fd].open
    BY <1>3 DEF Leaves, Happens, Inv, Types
  <2>2. CASE Happens(fd, [conn[fd] EXCEPT !.peer = "gone"])
    <3> DEFINE c == [conn[fd] EXCEPT !.peer = "gone"]
    <3>1. c \in Conns /\ c.open /\ c.user = conn[fd].user
      BY <2>1 DEF Conns
    <3>2. Happens(fd, c)
      BY <2>2
    <3> HIDE DEF c
    <3> QED
      BY <3>1, <3>2, HappensKeeps
  <2>3. ASSUME NEW n \in {0, conn[fd].unread},
               Happens(fd, [conn[fd] EXCEPT !.peer = "gone", !.error = TRUE, !.unread = n])
        PROVE  Inv'
    <3> DEFINE c == [conn[fd] EXCEPT !.peer = "gone", !.error = TRUE, !.unread = n]
    <3>0. n \in Nat
      BY <2>1 DEF Conns
    <3>1. c \in Conns /\ c.open /\ c.user = conn[fd].user
      BY <2>1, <3>0 DEF Conns
    <3>2. Happens(fd, c)
      BY <2>3
    <3> HIDE DEF c
    <3> QED
      BY <3>1, <3>2, HappensKeeps
  <2> QED
    BY <1>3, <2>2, <2>3 DEF Leaves
<1> QED
  BY <1>1, <1>2, <1>3

LEMMA PollKeeps ==
    ASSUME Inv, Poll
    PROVE  Inv'
<1>1. /\ i' = 0 /\ UNCHANGED <<user_counter, users, conn, backlog, made>>
      /\ due' = {fds[e].fd : e \in {e \in Used : Revents(fds[e]) # {}}}
      /\ fds' = [e \in Entries |-> IF e <= user_counter
                    THEN [fds[e] EXCEPT !.revents = Revents(fds[e])] ELSE fds[e]]
  BY DEF Poll
<1>2. \A e \in Entries : Revents(fds[e]) \in SUBSET Events
  BY DEF Revents, Events
<1>3. \A e \in Entries : [fds[e] EXCEPT !.revents = Revents(fds[e])]
                            \in [fd : Fds \union {Listen}, out : BOOLEAN, revents : SUBSET Events]
  BY <1>2 DEF Inv, Types
<1>4. Types'
  BY <1>1, <1>3, LimitAssumption DEF Inv, Types
<1>5. 0 \in Entries /\ Used \subseteq Entries /\ Used' = Used /\ Open' = Open
  BY <1>1, LimitAssumption DEF Inv, Types, Entries, Used, Open
<1>6. \A e \in Entries : /\ fds'[e].fd = fds[e].fd
                         /\ e <= user_counter => fds'[e].revents = Revents(fds[e])
  BY <1>1 DEF Inv, Types
<1>7. fds'[0].revents = {x \in {"IN"} : backlog > 0}
  <2>1. fds'[0].revents = Revents(fds[0])
    BY <1>5, <1>6 DEF Inv, Types
  <2>2. Revents(fds[0]) = {x \in {"IN"} : backlog > 0}
    BY DEF Inv, FirstEntry, Revents
  <2> QED
    BY <2>1, <2>2
<1>8. FirstEntry'
  BY <1>1, <1>5, <1>6, <1>7 DEF Inv, FirstEntry
<1>9. EntriesMatch'
  BY <1>1, <1>5, <1>6 DEF Inv, EntriesMatch
<1>10. \A e \in Used : e >= 0 /\ e <= user_counter /\ e \in Entries
  BY <1>5 DEF Used, Inv, Types
<1>11. NothingPassedOver'
  <2> DEFINE before == {e \in Used : Revents(fds[e]) # {}}
             after  == {e \in Used' : e >= i' /\ fds'[e].revents # {}}
  <2>1. before = after
    BY <1>1, <1>5, <1>6, <1>10
  <2>2. \A e \in before : fds'[e].fd = fds[e].fd
    BY <1>6, <1>10
  <2>3. due' = {fds[e].fd : e \in before}
    BY <1>1
  <2> HIDE DEF before, after
  <2>4. due' = {fds'[e].fd : e \in after}
    BY <2>1, <2>2, <2>3
  <2>5. i' # -1
    BY <1>1
  <2> USE DEF after
  <2> QED
    BY <2>4, <2>5 DEF NothingPassedOver
<1>12. RoomToAccept'
  BY <1>1, <1>5 DEF Inv, RoomToAccept
<1> QED
  BY <1>4, <1>8, <1>9, <1>11, <1>12 DEF Inv

\* A step that goes on to the next entry and leaves all entries' descriptors
\* and events alone.
LEMMA StepOnKeeps ==
    ASSUME Inv, StepOn, i \in 0 .. user_counter, user_counter' = user_counter,
           \A e \in Used : fds'[e].fd = fds[e].fd /\ fds'[e].revents = fds[e].revents
    PROVE  NothingPassedOver'
<1>1. /\ i' = i + 1 /\ due' = due \ {fds[i].fd} /\ Used' = Used
      /\ Used \subseteq Nat /\ i \in Nat
  BY UsedAreOpen DEF StepOn, Here, Used, Inv, Types
<1> DEFINE now  == {e \in Used : e >= i /\ fds[e].revents # {}}
           next == {e \in Used' : e >= i' /\ fds'[e].revents # {}}
<1>2. due = {fds[e].fd : e \in now}
  BY <1>1 DEF Inv, NothingPassedOver
<1>3. next = now \ {i} /\ \A e \in now : fds'[e].fd = fds[e].fd
  <2>1. \A e \in Used : (e >= i + 1 <=> e >= i /\ e # i)
    BY <1>1
  <2>2. \A e \in Used : fds'[e].revents = fds[e].revents
    OBVIOUS
  <2>3. next = {e \in Used : e >= i + 1 /\ fds'[e].revents # {}}
    BY <1>1
  <2>4. next = {e \in Used : e >= i /\ e # i /\ fds[e].revents # {}}
    BY <2>1, <2>2, <2>3
  <2> QED
    BY <2>4
<1>4. \A e \in now \ {i} : fds[e].fd # fds[i].fd
  <2>1. CASE i = 0
    <3>1. fds[i].fd = Listen /\ Listen \notin Open
      BY <2>1, FdsAreNat DEF Inv, FirstEntry, Open
    <3> QED
      BY <3>1, UsedAreOpen
  <2>2. CASE i # 0
    BY <2>2, <1>1 DEF Inv, EntriesMatch, Used
  <2> QED
    BY <2>1, <2>2
<1> HIDE DEF now, next
<1>5. due' = {fds'[e].fd : e \in next}
  BY <1>1, <1>2, <1>3, <1>4
<1>6. i' # -1
  BY <1>1
<1> USE DEF next
<1> QED
  BY <1>5, <1>6 DEF NothingPassedOver

\* Where the pass is, when the branch is not that of the listening socket.
LEMMA BranchOf ==
    ASSUME Inv, NEW x, Branch(x)
    PROVE  /\ i \in 0 .. user_counter /\ i \in Entries
           /\ x = "accept" => i = 0 /\ fds[0].revents # {} /\ backlog > 0
           /\ x \in {"error", "hangup", "read"} => i \in Used /\ Here \in Open
<1>1. i \in 0 .. user_counter /\ i \in Entries
  BY LimitAssumption DEF Branch, Entries, Inv, Types
<1>2. x = "accept" => fds[i].fd = Listen /\ "IN" \in fds[i].revents
  BY DEF Branch
<1>3. i # 0 => i \in Used /\ Here \in Open
  BY <1>1, UsedAreOpen DEF Used, Here, Inv, Types
<1>4. i # 0 => fds[i].fd # Listen
  BY <1>3, FdsAreNat DEF Here, Open
<1>5. i = 0 => x \in {"accept", "skip"}
  BY DEF Branch, Inv, FirstEntry
<1> QED
  BY <1>1, <1>2, <1>3, <1>4, <1>5 DEF Inv, FirstEntry

LEMMA AcceptKeeps ==
    ASSUME Inv, Accept
    PROVE  Inv'
<1>1. /\ i = 0 /\ backlog > 0 /\ backlog \in Nat /\ 0 \in Entries
      /\ backlog' = backlog - 1 /\ made' = made /\ StepOn /\ i' = 1
  BY BranchOf DEF Accept, StepOn, Inv, Types
<1>2. CASE /\ user_counter >= USER_LIMIT
           /\ UNCHANGED <<user_counter, fds, users, conn>>
  <2>1. Open' = Open /\ Used' = Used
    BY <1>2 DEF Open, Used
  <2>2. Types' /\ FirstEntry'
    BY <1>1, <1>2 DEF Inv, Types, FirstEntry
  <2>3. RoomToAccept'
    BY <1>1, <2>1, OpenFinite DEF Inv, RoomToAccept
  <2>4. EntriesMatch'
    BY <1>2, <2>1 DEF Inv, EntriesMatch
  <2>5. NothingPassedOver'
    BY <1>1, <1>2, StepOnKeeps DEF Inv, Types
  <2> QED
    BY <2>2, <2>3, <2>4, <2>5 DEF Inv
<1>3. ASSUME user_counter < USER_LIMIT, ~(user_counter >= USER_LIMIT) PROVE Inv'
  <2> DEFINE fd   == Min(Fds \ Open)
             user == made - backlog + 1
             last == user_counter + 1
  <2>1. /\ conn' = [conn EXCEPT ![fd] = [Closed EXCEPT !.open = TRUE, !.user = user]]
        /\ users' = [users EXCEPT ![fd] = user]
        /\ fds' = [fds EXCEPT ![last] = Entry(fd)]
        /\ user_counter' = last
    BY <1>3 DEF Accept
  <2>2. Open # Fds
    BY <1>1, OpenFinite DEF Inv, RoomToAccept
  <2>3. fd \in Fds /\ fd \notin Open
    BY <2>2, MinFound, FdsAssumption DEF Open
  <2>4. user \in Nat /\ last \in Entries /\ last # 0 /\ user_counter \in Nat
    BY <1>1, <1>3, LimitAssumption DEF Inv, Types, Entries
  <2> HIDE DEF fd, user
  <2>5. [Closed EXCEPT !.open = TRUE, !.user = user] \in Conns
    BY <2>4 DEF Closed, Conns, Nobody
  <2>6. Entry(fd) \in [fd : Fds \union {Listen}, out : BOOLEAN, revents : SUBSET Events]
    BY <2>3 DEF Entry
  <2>7. Types'
    BY <1>1, <1>3, <2>1, <2>3, <2>4, <2>5, <2>6, LimitAssumption DEF Inv, Types
  <2>8. Open' = Open \union {fd}
    BY <2>1, <2>3 DEF Open, Inv, Types
  <2>9. RoomToAccept'
    <3>1. Cardinality(Open') = Cardinality(Open) + 1
      BY <2>3, <2>8, OpenFinite, FS_AddElement
    <3> QED
      BY <1>1, <3>1, OpenFinite DEF Inv, RoomToAccept
  <2>10. FirstEntry'
    BY <1>1, <2>1, <2>4 DEF Inv, FirstEntry, Types
  <2>11. Used' = Used \union {last} /\ last \notin Used
    BY <2>1, <2>4 DEF Used
  <2>12. /\ fds'[last].fd = fd /\ fds'[last].revents = {}
         /\ \A e \in Used : fds'[e].fd = fds[e].fd /\ fds'[e].revents = fds[e].revents
    BY <2>1, <2>4, <2>11 DEF Inv, Types, Entry
  <2>13. EntriesMatch'
    <3>1. {fds'[e].fd : e \in Used'} = Open'
      BY <2>8, <2>11, <2>12 DEF Inv, EntriesMatch
    <3>2. \A e, f \in Used' : fds'[e].fd = fds'[f].fd => e = f
      BY <2>3, <2>11, <2>12, UsedAreOpen DEF Inv, EntriesMatch
    <3>3. \A f \in Open' : users'[f] = conn'[f].user
      BY <2>1, <2>3, <2>8 DEF Inv, EntriesMatch, Types, Closed, Open
    <3> QED
      BY <3>1, <3>2, <3>3 DEF EntriesMatch
  <2>14. NothingPassedOver'
    <3> DEFINE now  == {e \in Used : e >= 0 /\ fds[e].revents # {}}
               next == {e \in Used' : e >= 1 /\ fds'[e].revents # {}}
    <3>1. next = now
      <4>1. \A e \in Used : e >= 1 /\ e >= 0
        BY DEF Used, Inv, Types
      <4>2. \A e \in Used' : fds'[e].revents # {} => e \in Used
        BY <2>11, <2>12
      <4> QED
        BY <4>1, <4>2, <2>11, <2>12
    <3>2. due = {fds[e].fd : e \in now}
      BY <1>1 DEF Inv, NothingPassedOver
    <3>3. \A e \in now : fds'[e].fd = fds[e].fd /\ fds[e].fd # fds[0].fd
      BY <2>12, UsedAreOpen, FdsAreNat DEF Inv, FirstEntry, Open
    <3>4. due' = due \ {fds[0].fd}
      BY <1>1 DEF StepOn, Here
    <3> HIDE DEF now, next
    <3>5. due' = {fds'[e].fd : e \in next}
      BY <3>1, <3>2, <3>3, <3>4
    <3> USE DEF next
    <3> QED
      BY <1>1, <3>5 DEF NothingPassedOver
  <2> QED
    BY <2>7, <2>9, <2>10, <2>13, <2>14 DEF Inv
<1>4. user_counter \in Nat /\ USER_LIMIT \in Nat
  BY LimitAssumption DEF Inv, Types
<1>5. user_counter < USER_LIMIT => ~ (user_counter >= USER_LIMIT)
  BY <1>4
<1> QED
  BY <1>2, <1>3, <1>5 DEF Accept

\* The user at i is dropped, and the last entry comes in its place.
LEMMA DropKeeps ==
    ASSUME Inv, Drop, i \in Used, Here \in Open
    PROVE  Inv'
<1> DEFINE last == user_counter
<1>1. /\ users' = [users EXCEPT ![fds[i].fd] = users[fds[last].fd]]
      /\ conn' = [conn EXCEPT ![fds[i].fd] = Closed]
      /\ fds' = [fds EXCEPT ![i] = fds[last]]
      /\ user_counter' = last - 1 /\ i' = i /\ due' = due \ {fds[i].fd}
      /\ backlog' = backlog /\ made' = made
  BY DEF Drop, LastEntry, StepBack, Here
<1>2. /\ i \in Nat /\ last \in Nat /\ 0 < i /\ i <= last /\ last <= USER_LIMIT
      /\ i \in Entries /\ last \in Entries /\ last \in Used /\ fds[i].fd \in Fds
      /\ fds[i].fd \in Open
  BY LimitAssumption DEF Used, Entries, Inv, Types, Here, Open
<1>3. Closed \in Conns /\ ~Closed.open
  BY DEF Closed, Conns, Nobody
<1>4. Types'
  <2>1. fds' \in [Entries -> [fd : Fds \union {Listen}, out : BOOLEAN, revents : SUBSET Events]]
    BY <1>1, <1>2 DEF Inv, Types
  <2>2. users' \in [Fds \union {Listen} -> Nat]
    BY <1>1, <1>2 DEF Inv, Types
  <2>3. conn' \in [Fds -> Conns]
    BY <1>1, <1>3 DEF Inv, Types
  <2>4. /\ i' \in Int /\ -1 <= i' /\ i' <= user_counter' + 1
        /\ user_counter' \in Nat /\ user_counter' <= USER_LIMIT
    BY <1>1, <1>2, LimitAssumption
  <2>5. backlog' \in Nat /\ made' \in Nat /\ backlog' <= made'
    BY <1>1 DEF Inv, Types
  <2> QED
    BY <2>1, <2>2, <2>3, <2>4, <2>5 DEF Types
<1>5. Open' = Open \ {fds[i].fd}
  BY <1>1, <1>2, <1>3 DEF Open, Inv, Types
<1>6. RoomToAccept'
  <2>1. Cardinality(Open') = Cardinality(Open) - 1
    BY <1>2, <1>5, OpenFinite, FS_RemoveElement
  <2> QED
    BY <1>1, <2>1, OpenFinite DEF Inv, Types, RoomToAccept
<1>7. FirstEntry'
  BY <1>1, <1>2 DEF Inv, FirstEntry, Types
<1>8. /\ Used' = Used \ {last}
      /\ \A e \in Used' : e \in Used /\ e # last /\ e \in Nat /\ e \in Entries
  BY <1>1, <1>2, UsedAreOpen DEF Used
<1>9. \A e \in Used' : fds'[e] = IF e = i THEN fds[last] ELSE fds[e]
  BY <1>1, <1>2, <1>8 DEF Inv, Types
<1>10. \A e, f \in Used : fds[e].fd = fds[f].fd => e = f
  BY DEF Inv, EntriesMatch
<1>11. EntriesMatch'
  <2>1. \A e \in Used' : fds'[e].fd \in Open /\ fds'[e].fd # fds[i].fd
    BY <1>2, <1>8, <1>9, <1>10, UsedAreOpen
  <2>2. ASSUME NEW f \in Open, f # fds[i].fd PROVE \E e \in Used' : fds'[e].fd = f
    <3>1. PICK e \in Used : fds[e].fd = f
      BY DEF Inv, EntriesMatch
    <3>2. CASE e = last
      BY <1>2, <1>8, <1>9, <2>2, <3>1, <3>2
    <3>3. CASE e # last
      BY <1>8, <1>9, <2>2, <3>1, <3>3
    <3> QED
      BY <3>2, <3>3
  <2>3. {fds'[e].fd : e \in Used'} = Open'
    BY <1>5, <2>1, <2>2
  <2>4. \A e, f \in Used' : fds'[e].fd = fds'[f].fd => e = f
    BY <1>2, <1>8, <1>9, <1>10
  <2>5. \A f \in Open' : users'[f] = conn'[f].user
    BY <1>1, <1>5 DEF Inv, EntriesMatch, Types, Open
  <2> QED
    BY <2>3, <2>4, <2>5 DEF EntriesMatch
<1>12. NothingPassedOver'
  <2> DEFINE now  == {e \in Used : e >= i /\ fds[e].revents # {}}
             next == {e \in Used' : e >= i' /\ fds'[e].revents # {}}
  <2>1. due = {fds[e].fd : e \in now}
    BY <1>2 DEF Inv, NothingPassedOver
  <2>2. \A e \in next : IF e = i THEN last \in now /\ last # i /\ fds'[e].fd = fds[last].fd
                        ELSE e \in now /\ fds'[e].fd = fds[e].fd
    BY <1>1, <1>2, <1>8, <1>9
  <2>3. \A e \in now : e # i => IF e = last THEN i \in next /\ fds'[i].fd = fds[last].fd
                                ELSE e \in next /\ fds'[e].fd = fds[e].fd
    BY <1>1, <1>2, <1>8, <1>9
  <2>4. now \subseteq Used
    OBVIOUS
  <2> HIDE DEF now, next
  <2>5. \A e \in next : fds'[e].fd \in due \ {fds[i].fd}
    BY <1>2, <1>10, <2>1, <2>2, <2>4
  <2>6. \A f \in due \ {fds[i].fd} : \E e \in next : fds'[e].fd = f
    BY <2>1, <2>3
  <2>7. due' = {fds'[e].fd : e \in next}
    BY <1>1, <2>5, <2>6
  <2>8. i' # -1
    BY <1>1, <1>2
  <2> USE DEF next
  <2> QED
    BY <2>7, <2>8 DEF NothingPassedOver
<1> QED
  BY <1>4, <1>6, <1>7, <1>11, <1>12 DEF Inv

\* The branches that only step on: those of an error, of a text, and the rest.
LEMMA PassedKeeps ==
    ASSUME Inv, Error \/ Read \/ Skip
    PROVE  Inv'
<1>1. CASE Skip
  <2>1. i \in 0 .. user_counter /\ StepOn
    BY <1>1, BranchOf DEF Skip
  <2>2. NothingPassedOver'
    BY <1>1, <2>1, StepOnKeeps DEF Skip
  <2>3. Open' = Open /\ Used' = Used
    BY <1>1 DEF Skip, Open, Used
  <2> QED
    BY <1>1, <2>1, <2>2, <2>3 DEF Skip, StepOn, Inv, Types, FirstEntry, RoomToAccept, EntriesMatch
<1>2. ASSUME Error \/ Read PROVE Inv'
  <2>1. i \in Used /\ Here \in Open /\ i \in 0 .. user_counter /\ StepOn
    BY <1>2, BranchOf DEF Error, Read
  <2>2. conn[Here] \in Conns /\ conn[Here].open /\ Here \in Fds
    BY <2>1 DEF Open, Inv, Types
  <2>3. PICK c \in Conns : /\ conn' = [conn EXCEPT ![Here] = c]
                           /\ c.open /\ c.user = conn[Here].user
    <3>1. CASE Error
      <4> DEFINE c == [conn[Here] EXCEPT !.error = FALSE]
      <4>1. c \in Conns /\ c.open /\ c.user = conn[Here].user
        BY <2>2 DEF Conns
      <4> QED
        BY <3>1, <4>1 DEF Error, ErrorTaken
    <3>2. CASE Read
      <4> DEFINE c == [conn[Here] EXCEPT !.unread = @ - 1]
      <4>1. conn[Here].unread > 0
        BY <3>2 DEF Read
      <4>2. c \in Conns /\ c.open /\ c.user = conn[Here].user
        BY <2>2, <4>1 DEF Conns
      <4>3. conn' = [conn EXCEPT ![Here] = c]
        BY <3>2 DEF Read
      <4> QED
        BY <4>2, <4>3
    <3> QED
      BY <1>2, <3>1, <3>2
  <2>4. UNCHANGED <<user_counter, users, backlog, made>> /\ i' = i + 1
    BY <1>2 DEF Error, Read, StepOn
  <2>5. /\ fds' \in [Entries -> [fd : Fds \union {Listen}, out : BOOLEAN,
                                 revents : SUBSET Events]]
        /\ \A e \in Entries : fds'[e].fd = fds[e].fd /\ fds'[e].revents = fds[e].revents
    <3>1. \A e \in Entries : [fds[e] EXCEPT !.out = TRUE] \in
                [fd : Fds \union {Listen}, out : BOOLEAN, revents : SUBSET Events]
      BY DEF Inv, Types
    <3>2. CASE fds' = fds
      BY <3>2 DEF Inv, Types
    <3>3. CASE fds' = [e \in Entries |-> IF e \in Used THEN [fds[e] EXCEPT !.out = TRUE]
                                         ELSE fds[e]]
      <4>1. fds \in [Entries -> [fd : Fds \union {Listen}, out : BOOLEAN,
                                 revents : SUBSET Events]]
        BY DEF Inv, Types
      <4>2. \A e \in Entries : fds'[e] = IF e \in Used THEN [fds[e] EXCEPT !.out = TRUE]
                                         ELSE fds[e]
        BY <3>3
      <4>3. \A e \in Entries : fds'[e].fd = fds[e].fd /\ fds'[e].revents = fds[e].revents
        BY <4>1, <4>2
      <4> QED
        BY <3>1, <3>3, <4>1, <4>3
    <3> QED
      BY <1>2, <3>2, <3>3 DEF Error, Read
  <2>6. Types'
    <3>1. conn' \in [Fds -> Conns]
      BY <2>3 DEF Inv, Types
    <3>2. i' \in Int /\ -1 <= i' /\ i' <= user_counter' + 1
      BY <2>1, <2>4 DEF Inv, Types
    <3> QED
      BY <2>4, <2>5, <3>1, <3>2 DEF Inv, Types
  <2>7. Open' = Open /\ Used' = Used /\ \A f \in Fds : conn'[f].user = conn[f].user
    BY <2>2, <2>3, <2>4 DEF Open, Used, Inv, Types
  <2>8. FirstEntry' /\ RoomToAccept'
    BY <2>1, <2>4, <2>5, <2>7, LimitAssumption
       DEF Inv, Types, FirstEntry, RoomToAccept, Entries, Used
  <2>9. EntriesMatch'
    BY <2>4, <2>5, <2>7, UsedAreOpen DEF Inv, EntriesMatch, Open
  <2>10. NothingPassedOver'
    BY <2>1, <2>4, <2>5, UsedAreOpen, StepOnKeeps
  <2> QED
    BY <2>6, <2>8, <2>9, <2>10 DEF Inv
<1> QED
  BY <1>1, <1>2

LEMMA PassEndKeeps ==
    ASSUME Inv, PassEnd
    PROVE  Inv'
<1>1. i > user_counter /\ i' = -1 /\ UNCHANGED <<user_counter, fds, users, conn, backlog, made, due>>
  BY DEF PassEnd
<1>2. Open' = Open /\ Used' = Used
  BY <1>1 DEF Open, Used
<1>3. due = {}
  <2>1. i # -1 /\ \A e \in Used : ~ (e >= i)
    BY <1>1 DEF Used, Inv, Types
  <2> QED
    BY <2>1 DEF Inv, NothingPassedOver
<1>4. NothingPassedOver'
  BY <1>1, <1>3 DEF NothingPassedOver
<1>5. Types'
  BY <1>1 DEF Inv, Types
<1> QED
  BY <1>1, <1>2, <1>4, <1>5 DEF Inv, FirstEntry, RoomToAccept, EntriesMatch

LEMMA InvHolds == Spec => []Inv
<1>1. Init => Inv
  <2> SUFFICES ASSUME Init PROVE Inv
    OBVIOUS
  <2>1. Open = {} /\ Used = {}
    BY DEF Init, Open, Used, Closed
  <2>2. Entry(Listen) \in [fd : Fds \union {Listen}, out : BOOLEAN, revents : SUBSET Events]
    BY DEF Entry
  <2>3. Closed \in Conns
    BY DEF Closed, Conns, Nobody
  <2>4. Types
    BY <2>2, <2>3, LimitAssumption DEF Init, Types, Nobody
  <2>5. FirstEntry
    BY LimitAssumption DEF Init, FirstEntry, Entry, Entries
  <2>6. RoomToAccept
    BY <2>1, OpenFinite, FS_EmptySet DEF Init, RoomToAccept
  <2> QED
    BY <2>1, <2>4, <2>5, <2>6 DEF Init, Inv, EntriesMatch, NothingPassedOver
<1>2. Inv /\ [Next]_vars => Inv'
  <2> SUFFICES ASSUME Inv, [Next]_vars PROVE Inv'
    OBVIOUS
  <2>1. CASE UNCHANGED vars
    <3>1. Open' = Open /\ Used' = Used
      BY <2>1 DEF vars, Open, Used
    <3> QED
      BY <2>1, <3>1 DEF vars, Inv, Types, FirstEntry, RoomToAccept, EntriesMatch,
                        NothingPassedOver
  <2>2. CASE Hangup \/ ReadError
    BY <2>2, BranchOf, DropKeeps DEF Hangup, ReadError
  <2> QED
    BY <2>1, <2>2, UsersKeep, PollKeeps, AcceptKeeps, PassedKeeps, PassEndKeeps
       DEF Next, Server
<1> QED
  BY <1>1, <1>2, PTL DEF Spec

(* Lines 102 to 107, 124 to 128 and 140 to 144: however entries are moved,   *)
(* those in use are the open connections, each once, with the right address. *)
THEOREM EntriesMatchHolds == Spec => []EntriesMatch
BY InvHolds, PTL DEF Inv

(* Lines 82, 127 and 143: moving the last entry into the middle of a pass    *)
(* loses and repeats no event.                                               *)
THEOREM NothingPassedOverHolds == Spec => []NothingPassedOver
BY InvHolds, PTL DEF Inv

=============================================================================
