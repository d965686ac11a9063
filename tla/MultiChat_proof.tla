--------------------------- MODULE MultiChat_proof ---------------------------
(* What the parent's count of the users is, when the server may stop, and    *)
(* what a segment may hold of an announced text, for any limit on the users  *)
(* and any number of connections and texts.                                  *)
EXTENDS MultiChat, FiniteSetTheorems, TLAPS

Text   == (Child \union {0}) \X Nat
OfUser == Child \X Nat

Events      == Fd \union {Listen, SigPipe}
SignalState == [chld : Nat, term : BOOLEAN]
ServerStates ==
    [pc : {"wait", "batch", "exit"}, stop_server : BOOLEAN, terminate : BOOLEAN,
     user_count : 0 .. USER_LIMIT + 1, ready : SUBSET Events, batch : SUBSET Events,
     signals : SignalState, todo : SignalState]
ChildStates ==
    [pc : {"none", "setup", "run", "recv", "rest", "send", "zombie", "gone"},
     idx : Slot, slot : Slot \union {-1}, holds : SUBSET Child,
     unread : BOOLEAN, eof : BOOLEAN, said : Nat,
     up : Seq(OfUser), down : Seq(OfUser), telling : OfUser \union {Empty},
     ready : SUBSET {"conn", "pipe"}, batch : SUBSET {"conn", "pipe"},
     stop_child : BOOLEAN]

TypeOK ==
    /\ backlog \in Nat /\ made \in Nat
    /\ server \in ServerStates
    /\ pipe \in [Fd -> Child \union {Free, Leaked}]
    /\ child \in [Child -> ChildStates]
    /\ segment \in [Slot -> [Half -> Text]]

(* Children are numbered as they are forked, and a connection makes one at   *)
(* most.                                                                     *)
Newest == Cardinality(Forked)
InOrder ==
    /\ Newest \in Nat /\ Forked = 1 .. Newest
    /\ Newest + backlog <= made /\ made <= MaxConn

(* Every child not yet reaped has its entry in sub_process; one reaped as    *)
(* another keeps it too.                                                     *)
Known    == {k \in Child : child[k].slot >= 0}
Unreaped == Living \union {"zombie"}
Counted ==
    /\ server.user_count = Cardinality(Known) /\ Known \subseteq Forked
    /\ \A k \in Child : child[k].pc \in Unreaped => k \in Known

(* All that any segment holds of a user is the last text his child received, *)
(* in the segment of that child's index, and nothing while the child is      *)
(* between its memset and its recv; what is on its way is not newer.         *)
Tells(r, t) == t \in ToSet(r.up) \/ t \in ToSet(r.down) \/ t = r.telling
Flying(t) == \E k \in Child : Tells(child[k], t)

Written ==
    \A s \in Slot : \A half \in Half :
        LET text == segment[s][half]
        IN  text # Empty =>
                /\ text[1] \in Child /\ child[text[1]].idx = s
                /\ text[2] = child[text[1]].said
                /\ child[text[1]].pc \notin {"none", "recv"}
Told ==
    \A t \in OfUser : Flying(t) => child[t[1]].pc # "none" /\ t[2] <= child[t[1]].said

Inv == TypeOK /\ InOrder /\ Counted /\ Written /\ Told

-----------------------------------------------------------------------------
(* What a step may do to a child without disturbing any of it.               *)

Steady(q, r) ==
    /\ r.idx = q.idx /\ r.slot = q.slot /\ r.said = q.said
    /\ r.pc = "none" <=> q.pc = "none"
    /\ r.pc = "recv" => q.pc = "recv"
    /\ r.pc \in Unreaped => q.pc \in Unreaped

\* c may follow child: nobody has anything to tell that was not on its way.
Follows(c) ==
    /\ c \in [Child -> ChildStates]
    /\ \A k \in Child : Steady(child[k], c[k])
    /\ \A k \in Child : \A t \in OfUser : Tells(c[k], t) => Flying(t)

LEMMA SteadyKeeps ==
    ASSUME Inv, TypeOK', Follows(child'), segment' = segment,
           server'.user_count = server.user_count,
           backlog' + made <= backlog + made', made' <= MaxConn
    PROVE  Inv'
<1>1. \A k \in Child : Steady(child[k], child'[k])
  BY DEF Follows
<1>2. Forked' = Forked
  BY <1>1 DEF Forked, Steady
<1>3. Known' = Known
  BY <1>1 DEF Known, Steady
<1>4. InOrder'
  <2>1. Newest' = Newest
    BY <1>2 DEF Newest
  <2>2. Newest \in Nat /\ Newest + backlog <= made /\ Forked = 1 .. Newest
    BY DEF Inv, InOrder
  <2>3. Newest + backlog' <= made'
    <3>1. backlog \in Nat /\ made \in Nat /\ backlog' \in Nat /\ made' \in Nat
      BY DEF Inv, TypeOK
    <3> HIDE DEF Newest
    <3> QED
      BY <2>2, <3>1
  <2> QED
    BY <1>2, <2>1, <2>2, <2>3 DEF InOrder
<1>5. Counted'
  BY <1>1, <1>2, <1>3 DEF Inv, Counted, Steady
<1>6. Written'
  BY <1>1 DEF Inv, Written, Steady
<1>7. Told'
  <2> SUFFICES ASSUME NEW t \in OfUser, Flying(t)'
               PROVE  child'[t[1]].pc # "none" /\ t[2] <= child'[t[1]].said
    BY DEF Told
  <2>1. Flying(t) /\ t[1] \in Child
    BY DEF Flying, Follows, OfUser
  <2> QED
    BY <1>1, <2>1 DEF Inv, Told, Steady
<1> QED
  BY <1>4, <1>5, <1>6, <1>7 DEF Inv

LEMMA QuietStep ==
    ASSUME Inv, server' \in ServerStates, server'.user_count = server.user_count,
           Follows(child'), pipe' \in [Fd -> Child \union {Free, Leaked}],
           made' = made, segment' = segment,
           \/ backlog' = backlog
           \/ backlog > 0 /\ backlog' = backlog - 1
    PROVE  Inv'
<1>1. /\ backlog' \in Nat /\ backlog' + made <= backlog + made' /\ made' <= MaxConn
      /\ made' \in Nat
  BY DEF Inv, InOrder, TypeOK
<1>2. TypeOK'
  BY <1>1 DEF Inv, TypeOK, Follows
<1> QED
  BY <1>1, <1>2, SteadyKeeps

LEMMA Same ==
    ASSUME TypeOK
    PROVE  Follows(child)
BY DEF Follows, Steady, Flying, TypeOK

LEMMA OneFollows ==
    ASSUME TypeOK, NEW k \in Child, NEW r \in ChildStates, Steady(child[k], r),
           \A t \in OfUser : Tells(r, t) => Flying(t)
    PROVE  Follows([child EXCEPT ![k] = r])
BY DEF Follows, Steady, Flying, TypeOK

\* The pipes of some end.
LEMMA HangUpKeeps ==
    ASSUME NEW p, NEW c, c \in [Child -> ChildStates]
    PROVE  /\ HangUp(p, c) \in [Child -> ChildStates]
           /\ \A k \in Child :
                /\ Steady(c[k], HangUp(p, c)[k])
                /\ \A t \in OfUser : Tells(HangUp(p, c)[k], t) => Tells(c[k], t)
<1> DEFINE now(k) == IF Held(k, pipe, child) /\ ~Held(k, p, c)
                     THEN c[k].ready \union {"pipe"} ELSE c[k].ready
           up(k)  == IF \E f \in Fd : p[f] = k THEN c[k].up ELSE <<>>
<1>1. HangUp(p, c) = [k \in Child |-> [c[k] EXCEPT !.ready = now(k), !.up = up(k)]]
  BY DEF HangUp
<1>2. \A k \in Child : /\ now(k) \in SUBSET {"conn", "pipe"} /\ up(k) \in Seq(OfUser)
                       /\ \A t : t \in ToSet(up(k)) => t \in ToSet(c[k].up)
  BY DEF ChildStates, ToSet
<1> HIDE DEF now, up
<1>3. \A k \in Child : c[k] \in ChildStates
  OBVIOUS
<1> SUFFICES ASSUME NEW k \in Child
             PROVE  /\ HangUp(p, c)[k] \in ChildStates
                    /\ Steady(c[k], HangUp(p, c)[k])
                    /\ \A t \in OfUser : Tells(HangUp(p, c)[k], t) => Tells(c[k], t)
  BY <1>1
<1>4. HangUp(p, c)[k] = [c[k] EXCEPT !.ready = now(k), !.up = up(k)]
  BY <1>1
<1>5. HangUp(p, c)[k] \in ChildStates
  <2>1. now(k) \in SUBSET {"conn", "pipe"} /\ up(k) \in Seq(OfUser) /\ c[k] \in ChildStates
    BY <1>2, <1>3
  <2> QED
    BY <1>4, <2>1 DEF ChildStates
<1>6. /\ HangUp(p, c)[k].pc = c[k].pc /\ HangUp(p, c)[k].idx = c[k].idx
      /\ HangUp(p, c)[k].slot = c[k].slot /\ HangUp(p, c)[k].said = c[k].said
      /\ HangUp(p, c)[k].down = c[k].down /\ HangUp(p, c)[k].telling = c[k].telling
      /\ HangUp(p, c)[k].up = up(k)
  BY <1>3, <1>4 DEF ChildStates
<1> QED
  BY <1>2, <1>5, <1>6 DEF Steady, Tells

LEMMA HangUpFollows ==
    ASSUME NEW p, NEW c, Follows(c)
    PROVE  Follows(HangUp(p, c))
<1>1. c \in [Child -> ChildStates]
  BY DEF Follows
<1> QED
  BY <1>1, HangUpKeeps DEF Follows, Steady

LEMMA AppendSet ==
    ASSUME NEW s \in Seq(OfUser), NEW e \in OfUser
    PROVE  /\ Append(s, e) \in Seq(OfUser)
           /\ \A t : t \in ToSet(Append(s, e)) => t \in ToSet(s) \/ t = e
BY DEF ToSet

LEMMA TailSet ==
    ASSUME NEW s \in Seq(OfUser), s # <<>>
    PROVE  /\ Head(s) \in OfUser /\ Head(s) \in ToSet(s)
           /\ Tail(s) \in Seq(OfUser) /\ \A t : t \in ToSet(Tail(s)) => t \in ToSet(s)
BY DEF ToSet

LEMMA HandledType ==
    ASSUME TypeOK, NEW e
    PROVE  /\ Handled(e) \in ServerStates
           /\ Handled(e).user_count = server.user_count
           /\ Handled(e).pc = server.pc
BY DEF Handled, TypeOK, ServerStates

-----------------------------------------------------------------------------
(* The users and the operator.                                               *)

LEMMA UsersKeep ==
    ASSUME Inv, Connect \/ Terminate \/ \E k \in Child : UserSends(k) \/ UserLeaves(k)
    PROVE  Inv'
<1>0. TypeOK /\ Follows(child)
  BY Same DEF Inv
<1>1. CASE Connect
  <2>1. server' \in ServerStates /\ server'.user_count = server.user_count
    BY <1>0, <1>1 DEF Connect, TypeOK, ServerStates, Events
  <2>2. TypeOK'
    BY <1>0, <1>1, <2>1 DEF Connect, TypeOK
  <2>3. backlog' + made <= backlog + made' /\ made' <= MaxConn
    BY <1>0, <1>1, BoundAssumption DEF Connect, TypeOK
  <2>4. Follows(child') /\ segment' = segment
    BY <1>0, <1>1 DEF Connect
  <2> QED
    BY <2>1, <2>2, <2>3, <2>4, SteadyKeeps
<1>2. CASE Terminate
  <2>1. server' \in ServerStates /\ server'.user_count = server.user_count
    BY <1>0, <1>2 DEF Terminate, TypeOK, ServerStates, SignalState, Events
  <2>2. /\ backlog' = backlog /\ made' = made /\ segment' = segment
        /\ pipe' \in [Fd -> Child \union {Free, Leaked}] /\ child' = child
    BY <1>0, <1>2 DEF Terminate, TypeOK
  <2>3. Follows(child')
    BY <1>0, <2>2
  <2> QED
    BY <2>1, <2>2, <2>3, QuietStep
<1>3. ASSUME NEW k \in Child, UserSends(k) \/ UserLeaves(k)
      PROVE  Inv'
  <2>1. child[k] \in ChildStates
    BY <1>0 DEF TypeOK
  <2>2. PICK b1 \in BOOLEAN, b2 \in BOOLEAN :
           child' = [child EXCEPT ![k] = [child[k] EXCEPT
                        !.unread = b1, !.eof = b2, !.ready = @ \union {"conn"}]]
    <3>1. CASE UserSends(k)
      <4>1. child' = [child EXCEPT ![k] = [child[k] EXCEPT
                        !.unread = TRUE, !.eof = child[k].eof, !.ready = @ \union {"conn"}]]
        BY <2>1, <3>1 DEF UserSends, ChildStates
      <4> QED
        BY <2>1, <4>1 DEF ChildStates
    <3>2. CASE UserLeaves(k)
      <4> DEFINE q == [child[k] EXCEPT !.eof = TRUE, !.ready = @ \union {"conn"}]
      <4>1. child' = [child EXCEPT ![k] = q]
        BY <3>2 DEF UserLeaves
      <4>2. q = [child[k] EXCEPT !.unread = child[k].unread, !.eof = TRUE,
                                 !.ready = @ \union {"conn"}]
        BY <2>1 DEF ChildStates
      <4>3. child' = [child EXCEPT ![k] = [child[k] EXCEPT
                        !.unread = child[k].unread, !.eof = TRUE, !.ready = @ \union {"conn"}]]
        <5> HIDE DEF q
        <5> QED
          BY <4>1, <4>2
      <4> QED
        BY <2>1, <4>3 DEF ChildStates
    <3> QED
      BY <1>3, <3>1, <3>2
  <2> DEFINE r == [child[k] EXCEPT
                        !.unread = b1, !.eof = b2, !.ready = @ \union {"conn"}]
  <2>3. r \in ChildStates
    BY <2>1 DEF ChildStates
  <2>4. /\ r.pc = child[k].pc /\ r.idx = child[k].idx /\ r.slot = child[k].slot
        /\ r.said = child[k].said /\ r.up = child[k].up /\ r.down = child[k].down
        /\ r.telling = child[k].telling
    BY <2>1 DEF ChildStates
  <2>5. child' = [child EXCEPT ![k] = r]
    BY <2>2
  <2> HIDE DEF r
  <2>6. Follows(child')
    BY <1>0, <2>3, <2>4, <2>5, OneFollows DEF Steady, Tells, Flying
  <2>7. /\ backlog' = backlog /\ made' = made /\ segment' = segment
        /\ pipe' \in [Fd -> Child \union {Free, Leaked}] /\ server' = server
    BY <1>0, <1>3 DEF UserSends, UserLeaves, TypeOK
  <2>8. server' \in ServerStates /\ server'.user_count = server.user_count
    BY <1>0, <2>7 DEF TypeOK
  <2> QED
    BY <2>6, <2>7, <2>8, QuietStep
<1> QED
  BY <1>1, <1>2, <1>3

-----------------------------------------------------------------------------
(* The parent.                                                               *)

\* A step that takes an event and leaves the children as they are, or nearly.
LEMMA ServerStep ==
    ASSUME Inv, server' \in ServerStates, server'.user_count = server.user_count,
           Follows(child'), backlog' = backlog, made' = made, pipe' = pipe,
           segment' = segment
    PROVE  Inv'
BY QuietStep DEF Inv, TypeOK

\* A new child, numbered next, with the next slot.
LEMMA ForkKeeps ==
    ASSUME Inv, AcceptAndFork
    PROVE  Inv'
<1> DEFINE k == Cardinality(Forked) + 1
           i == server.user_count
           r == [Unborn EXCEPT !.pc = "setup", !.idx = i, !.slot = i,
                    !.holds = {j \in Child : \E f \in Fd : pipe[f] = j}]
<1>0. /\ TypeOK /\ backlog > 0 /\ backlog' = backlog - 1 /\ made' = made
      /\ child' = [child EXCEPT ![k] = r] /\ pipe' = [pipe EXCEPT ![NewFd(pipe)] = k]
      /\ server' = [Handled(Listen) EXCEPT !.user_count = i + 1] /\ segment' = segment
  BY DEF AcceptAndFork, Accepts, Inv
<1>1. i \in Slot /\ i + 1 \in 0 .. USER_LIMIT + 1
  BY LimitAssumption DEF AcceptAndFork, IsFull, Slot, Inv, TypeOK, ServerStates
<1>2. /\ k = Newest + 1 /\ Newest \in Nat /\ Forked = 1 .. Newest /\ made <= MaxConn
      /\ Newest + backlog <= made /\ backlog \in Nat /\ made \in Nat
  BY <1>0 DEF Inv, InOrder, Newest, TypeOK
<1> HIDE DEF k
<1>3. k \in Child /\ k \notin Forked
  BY <1>0, <1>2, BoundAssumption DEF Child
<1>4. child[k].pc = "none" /\ k \notin Known
  BY <1>3 DEF Forked, Inv, Counted
<1>5. server' \in ServerStates /\ server'.user_count = i + 1
  <2> HIDE DEF i
  <2> QED
    BY <1>0, <1>1, HandledType DEF ServerStates
<1>6. /\ r \in ChildStates /\ r.pc = "setup" /\ r.slot = i /\ r.said = 0
      /\ r.up = <<>> /\ r.down = <<>> /\ r.telling = Empty
  <2> DEFINE holds == {j \in Child : \E f \in Fd : pipe[f] = j}
  <2>1. Unborn \in ChildStates /\ holds \in SUBSET Child
        /\ Unborn.said = 0 /\ Unborn.up = <<>> /\ Unborn.down = <<>> /\ Unborn.telling = Empty
    BY <1>1, LimitAssumption DEF Unborn, ChildStates, Slot, Empty, Text
  <2>2. r = [Unborn EXCEPT !.pc = "setup", !.idx = i, !.slot = i, !.holds = holds]
    OBVIOUS
  <2> HIDE DEF i, Unborn, holds, r
  <2> QED
    BY <1>1, <2>1, <2>2 DEF ChildStates
<1>7. /\ child' \in [Child -> ChildStates] /\ child'[k] = r
      /\ \A j \in Child : j # k => child'[j] = child[j]
  <2> HIDE DEF r
  <2> QED
    BY <1>0, <1>3, <1>6 DEF TypeOK
<1>8. TypeOK'
  <2>1. pipe' \in [Fd -> Child \union {Free, Leaked}]
    BY <1>0, <1>3 DEF TypeOK
  <2>2. backlog' \in Nat /\ made' \in Nat /\ segment' \in [Slot -> [Half -> Text]]
    BY <1>0, <1>2 DEF TypeOK
  <2> HIDE DEF r
  <2> QED
    BY <1>5, <1>7, <2>1, <2>2 DEF TypeOK
<1> HIDE DEF r
<1>9. InOrder'
  <2>1. Forked' = 1 .. Newest + 1
    <3>1. Forked' = Forked \union {k}
      BY <1>3, <1>6, <1>7 DEF Forked
    <3> QED
      BY <1>2, <3>1
  <2>2. Newest' = Newest + 1
    BY <1>2, <2>1, FS_Interval DEF Newest
  <2>3. Newest' + backlog' <= made' /\ made' <= MaxConn /\ Newest' \in Nat
    BY <1>0, <1>2, <2>2
  <2> QED
    BY <2>1, <2>2, <2>3 DEF InOrder
<1>10. Counted'
  <2>1. Known' = Known \union {k}
    BY <1>1, <1>3, <1>6, <1>7, LimitAssumption DEF Known, Slot
  <2>2. IsFiniteSet(Known) /\ server.user_count = Cardinality(Known)
    <3>1. IsFiniteSet(1 .. Newest) /\ Known \subseteq 1 .. Newest
      BY <1>2, FS_Interval DEF Inv, Counted
    <3>2. IsFiniteSet(Known)
      BY <3>1, FS_Subset
    <3> QED
      BY <3>2 DEF Inv, Counted
  <2>3. server'.user_count = Cardinality(Known')
    <3>1. Cardinality(Known \union {k}) = Cardinality(Known) + 1
      BY <1>4, <2>2, FS_AddElement
    <3> QED
      BY <1>5, <2>1, <2>2, <3>1
  <2>4. Forked' = Forked \union {k}
    BY <1>3, <1>6, <1>7 DEF Forked
  <2>5. ASSUME NEW j \in Child, child'[j].pc \in Unreaped
        PROVE  j \in Known'
    BY <1>7, <2>1, <2>5 DEF Inv, Counted
  <2> QED
    BY <2>1, <2>3, <2>4, <2>5 DEF Inv, Counted
<1>11. Written'
  <2> SUFFICES ASSUME NEW s \in Slot, NEW half \in Half, segment'[s][half] # Empty
               PROVE  LET text == segment'[s][half]
                      IN  /\ text[1] \in Child /\ child'[text[1]].idx = s
                          /\ text[2] = child'[text[1]].said
                          /\ child'[text[1]].pc \notin {"none", "recv"}
    BY DEF Written
  <2> DEFINE w == segment[s][half][1]
  <2>1. /\ segment[s][half] = segment'[s][half] /\ w \in Child /\ child[w].idx = s
        /\ segment[s][half][2] = child[w].said /\ child[w].pc \notin {"none", "recv"}
    BY <1>0 DEF Inv, Written
  <2>2. child'[w] = child[w]
    BY <1>4, <1>7, <2>1
  <2> QED
    BY <2>1, <2>2
<1>12. Told'
  <2> SUFFICES ASSUME NEW t \in OfUser, Flying(t)'
               PROVE  child'[t[1]].pc # "none" /\ t[2] <= child'[t[1]].said
    BY DEF Told
  <2>1. t # Empty /\ t[1] \in Child
    BY DEF OfUser, Child, Empty
  <2>2. Flying(t)
    BY <1>6, <1>7, <2>1 DEF Flying, Tells, ToSet
  <2>3. child[t[1]].pc # "none" /\ t[2] <= child[t[1]].said
    BY <2>2 DEF Inv, Told
  <2>4. child'[t[1]] = child[t[1]]
    BY <1>4, <1>7, <2>1, <2>3
  <2> QED
    BY <2>3, <2>4
<1> QED
  BY <1>8, <1>9, <1>10, <1>11, <1>12 DEF Inv

\* The entry of the child that was reaped goes, whichever record is there now.
LEMMA ReapUserKeeps ==
    ASSUME Inv, NEW z \in Child, ReapUser(z)
    PROVE  Inv'
<1> DEFINE del  == child[z].slot
           last == server.user_count - 1
           r    == [child[z] EXCEPT !.pc = "gone", !.slot = -1]
           c    == [child EXCEPT ![z] = r]
           n(k) == child'[k]
<1>0. /\ TypeOK /\ child[z].pc = "zombie" /\ child' = HangUp(pipe', c)
      /\ pipe' = [pipe EXCEPT ![users[del]] = Free]
      /\ server' = [server EXCEPT !.user_count = last, !.ready = @ \ {users[del]}]
      /\ backlog' = backlog /\ made' = made /\ segment' = segment
  BY DEF ReapUser, Zombies, Inv
<1>1. z \in Known /\ child[z] \in ChildStates /\ r \in ChildStates
  <2>1. z \in Known
    BY <1>0 DEF Inv, Counted, Unreaped
  <2>2. child[z] \in ChildStates
    BY <1>0 DEF TypeOK
  <2> QED
    BY <2>1, <2>2 DEF ChildStates
<1>2. c \in [Child -> ChildStates]
  BY <1>0, <1>1 DEF TypeOK
<1>3. /\ r.pc = "gone" /\ r.slot = -1 /\ r.idx = child[z].idx /\ r.said = child[z].said
      /\ r.up = child[z].up /\ r.down = child[z].down /\ r.telling = child[z].telling
  BY <1>1 DEF ChildStates
<1>4. c[z] = r /\ \A k \in Child : k # z => c[k] = child[k]
  BY <1>0, <1>1 DEF TypeOK
<1>5. /\ child' \in [Child -> ChildStates]
      /\ \A k \in Child : /\ Steady(c[k], child'[k])
                          /\ \A t \in OfUser : Tells(child'[k], t) => Tells(c[k], t)
  <2> HIDE DEF c
  <2> QED
    BY <1>0, <1>2, HangUpKeeps
<1> HIDE DEF c, r
<1>6. \A k \in Child :
         /\ child'[k].idx = child[k].idx /\ child'[k].said = child[k].said
         /\ child'[k].pc = "none" <=> child[k].pc = "none"
         /\ child'[k].pc = "recv" => child[k].pc = "recv"
         /\ child'[k].pc \in Unreaped => child[k].pc \in Unreaped /\ k # z
         /\ child'[k].slot = IF k = z THEN -1 ELSE child[k].slot
  <2> SUFFICES ASSUME NEW k \in Child
               PROVE  /\ child'[k].idx = child[k].idx /\ child'[k].said = child[k].said
                      /\ child'[k].pc = "none" <=> child[k].pc = "none"
                      /\ child'[k].pc = "recv" => child[k].pc = "recv"
                      /\ child'[k].pc \in Unreaped => child[k].pc \in Unreaped /\ k # z
                      /\ child'[k].slot = IF k = z THEN -1 ELSE child[k].slot
    OBVIOUS
  <2>1. CASE k = z
    BY <1>0, <1>3, <1>4, <1>5, <2>1 DEF Steady, Unreaped, Living, Looping
  <2>2. CASE k # z
    BY <1>4, <1>5, <2>2 DEF Steady
  <2> QED
    BY <2>1, <2>2
<1>7. IsFiniteSet(Known) /\ server.user_count = Cardinality(Known)
  <2>1. IsFiniteSet(Forked) /\ Known \subseteq Forked
    BY FS_Interval DEF Inv, InOrder, Counted
  <2>2. IsFiniteSet(Known)
    BY <2>1, FS_Subset
  <2> QED
    BY <2>2 DEF Inv, Counted
<1>8. Known' = Known \ {z} /\ Forked' = Forked
  BY <1>6 DEF Known, Forked
<1>9. Cardinality(Known') = last /\ last \in 0 .. USER_LIMIT + 1
  <2>1. Cardinality(Known') = Cardinality(Known) - 1
    BY <1>1, <1>7, <1>8, FS_RemoveElement
  <2>2. Cardinality(Known') \in Nat
    BY <1>7, <1>8, FS_Subset, FS_CardinalityType
  <2> QED
    BY <1>0, <1>7, <2>1, <2>2, LimitAssumption DEF TypeOK, ServerStates
<1>10. server' \in ServerStates /\ server'.user_count = last
  <2> HIDE DEF last, del
  <2> QED
    BY <1>0, <1>9 DEF TypeOK, ServerStates
<1>11. TypeOK'
  <2>1. pipe' \in [Fd -> Child \union {Free, Leaked}]
    BY <1>0 DEF TypeOK
  <2> QED
    BY <1>0, <1>5, <1>10, <2>1 DEF TypeOK
<1>12. InOrder'
  <2>1. Newest' = Newest
    BY <1>8 DEF Newest
  <2> QED
    BY <1>0, <1>8, <2>1 DEF Inv, InOrder
<1>13. Counted'
  <2>1. Known \subseteq Forked /\ \A k \in Child : child[k].pc \in Unreaped => k \in Known
    BY DEF Inv, Counted
  <2>2. Known' \subseteq Forked'
    BY <1>8, <2>1
  <2>3. \A k \in Child : child'[k].pc \in Unreaped => k \in Known'
    BY <1>6, <1>8, <2>1
  <2>4. server'.user_count = Cardinality(Known')
    BY <1>9, <1>10
  <2> QED
    BY <2>2, <2>3, <2>4 DEF Counted
<1>14. Written'
  <2> SUFFICES ASSUME NEW s \in Slot, NEW half \in Half, segment'[s][half] # Empty
               PROVE  LET text == segment'[s][half]
                      IN  /\ text[1] \in Child /\ child'[text[1]].idx = s
                          /\ text[2] = child'[text[1]].said
                          /\ child'[text[1]].pc \notin {"none", "recv"}
    BY DEF Written
  <2> DEFINE w == segment[s][half][1]
  <2>1. /\ segment[s][half] = segment'[s][half] /\ w \in Child /\ child[w].idx = s
        /\ segment[s][half][2] = child[w].said /\ child[w].pc \notin {"none", "recv"}
    BY <1>0 DEF Inv, Written
  <2> HIDE DEF w
  <2>2. /\ child'[w].idx = s /\ child'[w].said = child[w].said
        /\ child'[w].pc \notin {"none", "recv"}
    BY <1>6, <2>1
  <2> QED
    BY <2>1, <2>2 DEF w
<1>15. Told'
  <2> SUFFICES ASSUME NEW t \in OfUser, Flying(t)'
               PROVE  child'[t[1]].pc # "none" /\ t[2] <= child'[t[1]].said
    BY DEF Told
  <2>1. PICK k \in Child : Tells(c[k], t)
    BY <1>5 DEF Flying
  <2>2. Flying(t) /\ t[1] \in Child
    BY <1>3, <1>4, <2>1 DEF Flying, Tells, OfUser
  <2> QED
    BY <1>6, <2>2 DEF Inv, Told
<1> QED
  BY <1>11, <1>12, <1>13, <1>14, <1>15 DEF Inv

LEMMA ReapOtherKeeps ==
    ASSUME Inv, ReapOther
    PROVE  Inv'
<1>0. TypeOK /\ Follows(child)
  BY Same DEF Inv
<1>1. server' \in ServerStates /\ server'.user_count = server.user_count
  <2> DEFINE todo == [server.todo EXCEPT !.chld = @ - 1]
             stop == server.stop_server \/ StopIfDone
  <2>1. todo \in SignalState /\ stop \in BOOLEAN
    BY <1>0 DEF ReapOther, TypeOK, ServerStates, SignalState
  <2>2. server' = [server EXCEPT !.todo = todo, !.stop_server = stop]
    BY DEF ReapOther
  <2> HIDE DEF todo, stop
  <2> QED
    BY <1>0, <2>1, <2>2 DEF TypeOK, ServerStates
<1>2. Follows(child')
  <2>1. CASE child' = child
    BY <1>0, <2>1
  <2>2. ASSUME NEW z \in Zombies, child' = [child EXCEPT ![z].pc = "gone"]
        PROVE  Follows(child')
    <3> DEFINE r == [child[z] EXCEPT !.pc = "gone"]
    <3>1. child' = [child EXCEPT ![z] = r] /\ z \in Child /\ child[z].pc = "zombie"
      BY <2>2 DEF Zombies
    <3>2. child[z] \in ChildStates
      BY <1>0, <3>1 DEF TypeOK
    <3>3. /\ r \in ChildStates /\ r.pc = "gone" /\ r.idx = child[z].idx
          /\ r.slot = child[z].slot /\ r.said = child[z].said /\ r.up = child[z].up
          /\ r.down = child[z].down /\ r.telling = child[z].telling
      BY <3>2 DEF ChildStates
    <3> HIDE DEF r
    <3> QED
      BY <1>0, <3>1, <3>3, OneFollows
         DEF Steady, Tells, Flying, Unreaped, Living, Looping
  <2> QED
    BY <2>1, <2>2 DEF ReapOther
<1> QED
  BY <1>1, <1>2, ServerStep DEF ReapOther

LEMMA KillAllKeeps ==
    ASSUME Inv, KillAll
    PROVE  Inv'
<1>0. TypeOK /\ Follows(child)
  BY Same DEF Inv
<1> DEFINE todo == [server.todo EXCEPT !.term = FALSE]
           sig  == [server.signals EXCEPT !.term = TRUE]
<1>1. todo \in SignalState /\ sig \in SignalState /\ server \in ServerStates
      /\ SigPipe \in Events
  BY <1>0 DEF TypeOK, ServerStates, SignalState, Events
<1>2. server' \in ServerStates /\ server'.user_count = server.user_count
  <2>1. \/ server' = [server EXCEPT !.todo = todo, !.terminate = TRUE, !.signals = sig,
                                    !.ready = @ \union {SigPipe}]
        \/ server' = [server EXCEPT !.todo = todo, !.terminate = TRUE]
    BY DEF KillAll
  <2> HIDE DEF todo, sig
  <2>2. CASE server' = [server EXCEPT !.todo = todo, !.terminate = TRUE, !.signals = sig,
                                      !.ready = @ \union {SigPipe}]
    BY <1>1, <2>2 DEF ServerStates
  <2>3. CASE server' = [server EXCEPT !.todo = todo, !.terminate = TRUE]
    BY <1>1, <2>3 DEF ServerStates
  <2> QED
    BY <2>1, <2>2, <2>3
<1>3. Follows(child')
  <2>1. CASE child' = child
    BY <1>0, <2>1
  <2>2. CASE child' = [k \in Child |-> IF child[k].pc \in Looping
                            THEN [child[k] EXCEPT !.stop_child = TRUE] ELSE child[k]]
    <3>1. ASSUME NEW k \in Child
          PROVE  /\ child'[k] \in ChildStates /\ child'[k].pc = child[k].pc
                 /\ child'[k].idx = child[k].idx /\ child'[k].slot = child[k].slot
                 /\ child'[k].said = child[k].said /\ child'[k].up = child[k].up
                 /\ child'[k].down = child[k].down /\ child'[k].telling = child[k].telling
      <4>1. child[k] \in ChildStates
        BY <1>0 DEF TypeOK
      <4>2. child'[k] = [child[k] EXCEPT !.stop_child = TRUE] \/ child'[k] = child[k]
        BY <2>2
      <4>3. CASE child'[k] = [child[k] EXCEPT !.stop_child = TRUE]
        BY <4>1, <4>3 DEF ChildStates
      <4>4. CASE child'[k] = child[k]
        BY <4>1, <4>4
      <4> QED
        BY <4>2, <4>3, <4>4
    <3> QED
      BY <2>2, <3>1 DEF Follows, Steady, Tells, Flying
  <2> QED
    BY <2>1, <2>2 DEF KillAll
<1> QED
  BY <1>2, <1>3, ServerStep DEF KillAll

LEMMA ForwardKeeps ==
    ASSUME Inv, NEW f \in Fd, Forward(f)
    PROVE  Inv'
<1>0. TypeOK /\ Follows(child) /\ server' = Handled(f) /\ pipe[f] # Leaked
  BY Same DEF Inv, Forward
<1>1. Follows(child')
  <2>1. CASE child' = child
    BY <1>0, <2>1
  <2>2. CASE ~(pipe[f] = Free \/ child[pipe[f]].up = <<>>)
    <3> DEFINE k == pipe[f]
               e == Head(child[k].up)
               heard(j) == [child[j] EXCEPT !.down = Append(@, e), !.ready = @ \union {"pipe"}]
               rid(j)   == [child[j] EXCEPT !.up = Tail(@)]
    <3>1. k \in Child /\ child[k].up # <<>>
      BY <1>0, <2>2 DEF TypeOK
    <3>2. /\ e \in OfUser /\ e \in ToSet(child[k].up) /\ Tail(child[k].up) \in Seq(OfUser)
          /\ \A t : t \in ToSet(Tail(child[k].up)) => t \in ToSet(child[k].up)
      BY <1>0, <3>1, TailSet DEF TypeOK, ChildStates
    <3>3. \A j \in Child : (child'[j] = rid(j) /\ j = k) \/ child'[j] = heard(j) \/ child'[j] = child[j]
      BY <2>2 DEF Forward
    <3>4. child' = [j \in Child |-> child'[j]]
      BY <2>2 DEF Forward
    <3> HIDE DEF k, e
    <3>5. ASSUME NEW j \in Child
          PROVE  /\ child'[j] \in ChildStates
                 /\ Steady(child[j], child'[j])
                 /\ \A t \in OfUser : Tells(child'[j], t) => Flying(t)
      <4>1. child[j] \in ChildStates
        BY <1>0 DEF TypeOK
      <4>2. CASE child'[j] = rid(j) /\ j = k
        <5>1. /\ rid(j) \in ChildStates /\ rid(j).pc = child[j].pc
              /\ rid(j).idx = child[j].idx /\ rid(j).slot = child[j].slot
              /\ rid(j).said = child[j].said /\ rid(j).up = Tail(child[j].up)
              /\ rid(j).down = child[j].down /\ rid(j).telling = child[j].telling
          BY <3>2, <4>1, <4>2 DEF ChildStates
        <5> HIDE DEF rid
        <5> QED
          BY <3>2, <4>2, <5>1 DEF Steady, Tells, Flying
      <4>3. CASE child'[j] = heard(j)
        <5>1. /\ Append(child[j].down, e) \in Seq(OfUser)
              /\ \A t : t \in ToSet(Append(child[j].down, e)) => t \in ToSet(child[j].down) \/ t = e
          BY <3>2, <4>1, AppendSet DEF ChildStates
        <5>2. /\ heard(j) \in ChildStates /\ heard(j).pc = child[j].pc
              /\ heard(j).idx = child[j].idx /\ heard(j).slot = child[j].slot
              /\ heard(j).said = child[j].said /\ heard(j).up = child[j].up
              /\ heard(j).down = Append(child[j].down, e) /\ heard(j).telling = child[j].telling
          BY <4>1, <5>1 DEF ChildStates
        <5> HIDE DEF heard
        <5> QED
          BY <3>1, <3>2, <4>3, <5>1, <5>2 DEF Steady, Tells, Flying
      <4>4. CASE child'[j] = child[j]
        BY <4>1, <4>4 DEF Steady, Flying
      <4> QED
        BY <3>3, <4>2, <4>3, <4>4
    <3> QED
      BY <3>4, <3>5 DEF Follows
  <2> QED
    BY <2>1, <2>2 DEF Forward
<1>2. /\ backlog' = backlog /\ made' = made /\ pipe' = pipe /\ segment' = segment
      /\ server' \in ServerStates /\ server'.user_count = server.user_count
  BY <1>0, HandledType DEF Forward, Handles
<1> QED
  BY <1>1, <1>2, ServerStep

LEMMA ParentKeeps ==
    ASSUME Inv, Parent
    PROVE  Inv'
<1>0. TypeOK /\ Follows(child)
  BY Same DEF Inv
<1>1. CASE Wait
  <2>1. server' \in ServerStates /\ server'.user_count = server.user_count
    BY <1>0, <1>1 DEF Wait, TypeOK, ServerStates
  <2> QED
    BY <1>0, <1>1, <2>1, ServerStep DEF Wait, Follows, Flying
<1>2. CASE Refuse \/ ForkFails
  <2>1. /\ server' = Handled(Listen) /\ backlog > 0 /\ backlog' = backlog - 1
        /\ made' = made /\ segment' = segment /\ child' = child
    BY <1>2 DEF Refuse, ForkFails, LeavesPipe, Accepts
  <2>2. pipe' \in [Fd -> Child \union {Free, Leaked}]
    <3>1. CASE Refuse
      BY <1>0, <3>1 DEF Refuse, TypeOK
    <3>2. CASE ForkFails
      BY <1>0, <3>2 DEF ForkFails, LeavesPipe, TypeOK
    <3> QED
      BY <1>2, <3>1, <3>2
  <2>3. server' \in ServerStates /\ server'.user_count = server.user_count
    BY <1>0, <2>1, HandledType
  <2>4. Follows(child')
    BY <1>0, <2>1
  <2> QED
    BY <2>1, <2>2, <2>3, <2>4, QuietStep
<1>3. CASE ReadSignals
  <2>1. server' \in ServerStates /\ server'.user_count = server.user_count
    BY <1>0, <1>3 DEF ReadSignals, Handled, TypeOK, ServerStates, SignalState, NoSignal
  <2> QED
    BY <1>0, <1>3, <2>1, ServerStep DEF ReadSignals, Follows, Flying
<1>4. CASE TerminateAtOnce
  <2>1. server' \in ServerStates /\ server'.user_count = server.user_count
    BY <1>0, <1>4 DEF TerminateAtOnce, TypeOK, ServerStates, SignalState
  <2> QED
    BY <1>0, <1>4, <2>1, ServerStep DEF TerminateAtOnce, Follows, Flying
<1>5. CASE BatchEnd
  <2>1. server' \in ServerStates /\ server'.user_count = server.user_count
    BY <1>0, <1>5 DEF BatchEnd, TypeOK, ServerStates
  <2>2. backlog' = backlog /\ made' = made /\ segment' = segment
    BY <1>5 DEF BatchEnd
  <2>3. pipe' \in [Fd -> Child \union {Free, Leaked}]
    BY <1>0, <1>5 DEF BatchEnd, TypeOK
  <2>4. Follows(child')
    <3>1. child' = child \/ child' = HangUp(pipe', child)
      BY <1>5 DEF BatchEnd
    <3> QED
      BY <1>0, <3>1, HangUpFollows
  <2> QED
    BY <2>1, <2>2, <2>3, <2>4, QuietStep
<1> QED
  BY <1>1, <1>2, <1>3, <1>4, <1>5, ForkKeeps, ReapUserKeeps, ReapOtherKeeps,
     KillAllKeeps, ForwardKeeps DEF Parent

-----------------------------------------------------------------------------
(* A child.                                                                  *)

LEMMA ChildAlone ==
    ASSUME Inv, NEW k \in Child, NEW r \in ChildStates, Steady(child[k], r),
           \A t \in OfUser : Tells(r, t) => Tells(child[k], t),
           child' = [child EXCEPT ![k] = r],
           UNCHANGED <<backlog, made, server, pipe, segment>>
    PROVE  Inv'
<1>1. TypeOK
  BY DEF Inv
<1>2. \A t \in OfUser : Tells(r, t) => Flying(t)
  BY DEF Flying
<1>3. Follows([child EXCEPT ![k] = r])
  BY <1>1, <1>2, OneFollows
<1>4. Follows(child')
  BY <1>3
<1>5. server' \in ServerStates /\ server'.user_count = server.user_count
  BY <1>1 DEF TypeOK
<1> QED
  BY <1>4, <1>5, ServerStep

LEMMA ExitKeeps ==
    ASSUME Inv, NEW k \in Child, ChildExit(k)
    PROVE  Inv'
<1> DEFINE r == [Unborn EXCEPT !.pc = "zombie", !.idx = child[k].idx,
                    !.slot = child[k].slot, !.said = child[k].said, !.up = child[k].up]
           c == [child EXCEPT ![k] = r]
<1>0. TypeOK /\ child[k].pc = "run" /\ child' = HangUp(pipe, c) /\ child[k] \in ChildStates
      /\ backlog' = backlog /\ made' = made /\ pipe' = pipe /\ segment' = segment
  BY DEF ChildExit, Inv, TypeOK
<1>1. /\ r \in ChildStates /\ r.pc = "zombie" /\ r.idx = child[k].idx
      /\ r.slot = child[k].slot /\ r.said = child[k].said /\ r.up = child[k].up
      /\ r.down = <<>> /\ r.telling = Empty
  <2>1. Unborn \in ChildStates /\ Unborn.down = <<>> /\ Unborn.telling = Empty
    BY LimitAssumption DEF Unborn, ChildStates, Slot, Empty, Text
  <2> HIDE DEF Unborn
  <2> QED
    BY <1>0, <2>1 DEF ChildStates
<1> HIDE DEF r
<1>2. Follows(c)
  <2>1. Steady(child[k], r)
    BY <1>0, <1>1 DEF Steady, Unreaped, Living, Looping
  <2>2. ASSUME NEW t \in OfUser, Tells(r, t)
        PROVE  Flying(t)
    <3>1. t # Empty
      BY DEF OfUser, Child, Empty
    <3> QED
      BY <1>1, <2>2, <3>1 DEF Tells, Flying, ToSet
  <2> QED
    BY <1>0, <1>1, <2>1, <2>2, OneFollows
<1>3. Follows(child')
  <2> HIDE DEF c
  <2> QED
    BY <1>0, <1>2, HangUpFollows
<1>4. server' \in ServerStates /\ server'.user_count = server.user_count
  <2>1. PICK n \in {0, 1} :
           server' = [server EXCEPT !.ready = @ \union {SigPipe} \union {f \in Fd : pipe[f] = k},
                                    !.signals.chld = @ + n]
    BY DEF ChildExit
  <2> DEFINE sig  == [server.signals EXCEPT !.chld = @ + n]
             ends == {f \in Fd : pipe[f] = k}
  <2>2. sig \in SignalState /\ server.ready \union {SigPipe} \union ends \in SUBSET Events
    BY <1>0 DEF TypeOK, ServerStates, SignalState, Events
  <2>3. server' = [server EXCEPT !.ready = @ \union {SigPipe} \union ends, !.signals = sig]
    BY <2>1
  <2> HIDE DEF sig, ends
  <2> QED
    BY <1>0, <2>2, <2>3 DEF TypeOK, ServerStates
<1> QED
  BY <1>0, <1>3, <1>4, ServerStep

\* Between its memset and its recv there is nothing of a user in any segment.
LEMMA ClearKeeps ==
    ASSUME Inv, NEW k \in Child, ClearSegment(k)
    PROVE  Inv'
<1> DEFINE r == [child[k] EXCEPT !.pc = "recv", !.batch = @ \ {"conn"}]
           i == child[k].idx
<1>0. /\ TypeOK /\ child[k] \in ChildStates /\ i \in Slot /\ child[k].pc = "run"
      /\ child' = [child EXCEPT ![k] = r]
      /\ segment' = [segment EXCEPT ![i] = Cleared]
      /\ UNCHANGED <<backlog, made, server, pipe>>
  BY DEF ClearSegment, Handling, Inv, TypeOK, ChildStates
<1>1. /\ r \in ChildStates /\ r.pc = "recv" /\ r.idx = i /\ r.slot = child[k].slot
      /\ r.said = child[k].said /\ r.up = child[k].up /\ r.down = child[k].down
      /\ r.telling = child[k].telling
  BY <1>0 DEF ChildStates
<1> HIDE DEF r
<1>2. /\ child' \in [Child -> ChildStates] /\ child'[k] = r
      /\ \A j \in Child : j # k => child'[j] = child[j]
  BY <1>0, <1>1 DEF TypeOK
<1>3. TypeOK'
  <2>1. segment' \in [Slot -> [Half -> Text]]
    BY <1>0 DEF TypeOK, Cleared, Empty, Text
  <2> QED
    BY <1>0, <1>2, <2>1 DEF TypeOK
<1>4. \A j \in Child : /\ child'[j].idx = child[j].idx /\ child'[j].slot = child[j].slot
                       /\ child'[j].said = child[j].said
                       /\ child'[j].pc = "none" <=> child[j].pc = "none"
                       /\ child'[j].pc \in Unreaped => child[j].pc \in Unreaped
                       /\ child'[j].pc = "recv" => child[j].pc = "recv" \/ j = k
  BY <1>0, <1>1, <1>2 DEF Unreaped, Living, Looping
<1>5. Forked' = Forked
  BY <1>4 DEF Forked
<1>6. Known' = Known
  BY <1>4 DEF Known
<1>7. InOrder'
  <2>1. Newest' = Newest
    BY <1>5 DEF Newest
  <2> QED
    BY <1>0, <1>5, <2>1 DEF Inv, InOrder
<1>8. Counted'
  BY <1>0, <1>4, <1>5, <1>6 DEF Inv, Counted
<1>9. Written'
  <2> SUFFICES ASSUME NEW s \in Slot, NEW half \in Half, segment'[s][half] # Empty
               PROVE  LET text == segment'[s][half]
                      IN  /\ text[1] \in Child /\ child'[text[1]].idx = s
                          /\ text[2] = child'[text[1]].said
                          /\ child'[text[1]].pc \notin {"none", "recv"}
    BY DEF Written
  <2> DEFINE w == segment[s][half][1]
  <2>1. s # i /\ segment'[s] = segment[s]
    BY <1>0 DEF TypeOK, Cleared
  <2>2. /\ w \in Child /\ child[w].idx = s
        /\ segment[s][half][2] = child[w].said /\ child[w].pc \notin {"none", "recv"}
    BY <2>1 DEF Inv, Written
  <2>3. w # k
    BY <2>1, <2>2
  <2> HIDE DEF w
  <2>4. child'[w] = child[w]
    BY <1>2, <2>2, <2>3
  <2> QED
    BY <2>1, <2>2, <2>4 DEF w
<1>10. Told'
  <2> SUFFICES ASSUME NEW t \in OfUser, Flying(t)'
               PROVE  child'[t[1]].pc # "none" /\ t[2] <= child'[t[1]].said
    BY DEF Told
  <2>1. Flying(t) /\ t[1] \in Child
    BY <1>1, <1>2 DEF Flying, Tells, OfUser
  <2> QED
    BY <1>4, <2>1 DEF Inv, Told
<1> QED
  BY <1>3, <1>7, <1>8, <1>9, <1>10 DEF Inv

LEMMA HalfStored ==
    ASSUME NEW g \in [Slot -> [Half -> Text]], NEW i \in Slot, NEW h \in Half, NEW text \in Text
    PROVE  LET g2 == [g EXCEPT ![i][h] = text]
           IN  /\ g2 \in [Slot -> [Half -> Text]]
               /\ \A s \in Slot, half \in Half :
                     g2[s][half] = g[s][half] \/ (s = i /\ g2[s][half] = text)
<1> DEFINE one == [g[i] EXCEPT ![h] = text]
           g2  == [g EXCEPT ![i] = one]
<1>1. /\ one \in [Half -> Text] /\ one[h] = text
      /\ \A half \in Half : half # h => one[half] = g[i][half]
  OBVIOUS
<1> HIDE DEF one
<1>2. /\ g2 \in [Slot -> [Half -> Text]] /\ g2[i] = one
      /\ \A s \in Slot : s # i => g2[s] = g[s]
  BY <1>1
<1>3. g2 = [g EXCEPT ![i][h] = text]
  BY DEF one
<1> HIDE DEF g2
<1>4. ASSUME NEW s \in Slot, NEW half \in Half
      PROVE  g2[s][half] = g[s][half] \/ (s = i /\ g2[s][half] = text)
  <2>1. CASE s = i
    BY <1>1, <1>2, <2>1
  <2>2. CASE s # i
    BY <1>2, <2>2
  <2> QED
    BY <2>1, <2>2
<1> QED
  BY <1>2, <1>3, <1>4

\* A half of a text is stored, the first when the child has counted the text.
LEMMA StoreKeeps ==
    ASSUME Inv, NEW k \in Child, NEW r \in ChildStates, child' = [child EXCEPT ![k] = r],
           r.idx = child[k].idx, r.slot = child[k].slot, r.pc \in {"rest", "run"},
           \/ child[k].pc = "recv" /\ r.said = child[k].said + 1
           \/ child[k].pc = "rest" /\ r.said = child[k].said,
           \A t \in OfUser : Tells(r, t) => Flying(t) \/ t = <<k, r.said>>,
           \/ \E half \in Half : segment' = [segment EXCEPT ![child[k].idx][half] = <<k, r.said>>]
           \/ child[k].pc = "rest" /\ segment' = segment,
           server' \in ServerStates, server'.user_count = server.user_count,
           UNCHANGED <<backlog, made, pipe>>
    PROVE  Inv'
<1> DEFINE i == child[k].idx
           text == <<k, r.said>>
<1>0. TypeOK /\ i \in Slot /\ child[k] \in ChildStates /\ r.said \in Nat
  BY DEF Inv, TypeOK, ChildStates
<1>1. /\ child' \in [Child -> ChildStates] /\ child'[k] = r
      /\ \A j \in Child : j # k => child'[j] = child[j]
  BY <1>0 DEF TypeOK
<1>2. /\ segment' \in [Slot -> [Half -> Text]]
      /\ \A s \in Slot, half \in Half :
            segment'[s][half] = segment[s][half] \/ (s = i /\ segment'[s][half] = text)
  <2>1. text \in Text /\ segment \in [Slot -> [Half -> Text]] /\ i \in Slot
    BY <1>0 DEF Text, TypeOK
  <2>2. segment' = segment \/ \E half \in Half : segment' = [segment EXCEPT ![i][half] = text]
    OBVIOUS
  <2> HIDE DEF text, i
  <2>3. CASE segment' = segment
    <3>1. segment' \in [Slot -> [Half -> Text]]
      BY <2>1, <2>3
    <3>2. \A s \in Slot, half \in Half : segment'[s][half] = segment[s][half]
      BY <2>3
    <3> QED
      BY <3>1, <3>2
  <2>4. ASSUME NEW h \in Half, segment' = [segment EXCEPT ![i][h] = text]
        PROVE  /\ segment' \in [Slot -> [Half -> Text]]
               /\ \A s \in Slot, half \in Half :
                     segment'[s][half] = segment[s][half] \/ (s = i /\ segment'[s][half] = text)
    BY <2>1, <2>4, HalfStored
  <2> QED
    BY <2>2, <2>3, <2>4
<1>3. TypeOK'
  BY <1>0, <1>1, <1>2 DEF TypeOK
<1>4. \A j \in Child : /\ child'[j].idx = child[j].idx /\ child'[j].slot = child[j].slot
                       /\ child'[j].pc = "none" <=> child[j].pc = "none"
                       /\ child'[j].pc \in Unreaped => child[j].pc \in Unreaped
                       /\ child'[j].said >= child[j].said
  <2> SUFFICES ASSUME NEW j \in Child
               PROVE  /\ child'[j].idx = child[j].idx /\ child'[j].slot = child[j].slot
                      /\ child'[j].pc = "none" <=> child[j].pc = "none"
                      /\ child'[j].pc \in Unreaped => child[j].pc \in Unreaped
                      /\ child'[j].said >= child[j].said
    OBVIOUS
  <2>1. child[j].said \in Nat
    BY <1>0 DEF TypeOK, ChildStates
  <2>2. CASE j = k
    BY <1>1, <2>1, <2>2 DEF Unreaped, Living, Looping
  <2>3. CASE j # k
    BY <1>1, <2>1, <2>3
  <2> QED
    BY <2>2, <2>3
<1>5. Forked' = Forked
  BY <1>4 DEF Forked
<1>6. Known' = Known
  BY <1>4 DEF Known
<1>7. InOrder'
  <2>1. Newest' = Newest
    BY <1>5 DEF Newest
  <2> QED
    BY <1>5, <2>1 DEF Inv, InOrder
<1>8. Counted'
  BY <1>4, <1>5, <1>6 DEF Inv, Counted
<1>9. Written'
  <2> SUFFICES ASSUME NEW s \in Slot, NEW half \in Half, segment'[s][half] # Empty
               PROVE  LET x == segment'[s][half]
                      IN  /\ x[1] \in Child /\ child'[x[1]].idx = s
                          /\ x[2] = child'[x[1]].said
                          /\ child'[x[1]].pc \notin {"none", "recv"}
    BY DEF Written
  <2>1. CASE s = i /\ segment'[s][half] = text
    BY <1>1, <2>1
  <2>2. CASE segment'[s][half] = segment[s][half]
    <3> DEFINE w == segment[s][half][1]
    <3>1. /\ w \in Child /\ child[w].idx = s
          /\ segment[s][half][2] = child[w].said /\ child[w].pc \notin {"none", "recv"}
      BY <2>2 DEF Inv, Written
    <3> HIDE DEF w
    <3>2. /\ child'[w].idx = s /\ child'[w].said = child[w].said
          /\ child'[w].pc \notin {"none", "recv"}
      <4>1. CASE w = k
        BY <1>1, <3>1, <4>1
      <4>2. CASE w # k
        BY <1>1, <3>1, <4>2
      <4> QED
        BY <4>1, <4>2
    <3> QED
      BY <2>2, <3>1, <3>2 DEF w
  <2> QED
    BY <1>2, <2>1, <2>2
<1>10. Told'
  <2> SUFFICES ASSUME NEW t \in OfUser, Flying(t)'
               PROVE  child'[t[1]].pc # "none" /\ t[2] <= child'[t[1]].said
    BY DEF Told
  <2>1. Flying(t) \/ t = text
    BY <1>1 DEF Flying
  <2>2. CASE t = text
    BY <1>0, <1>1, <2>2
  <2>3. CASE Flying(t)
    <3>1. t[1] \in Child /\ t[2] \in Nat
      BY DEF OfUser
    <3>2. child[t[1]].pc # "none" /\ t[2] <= child[t[1]].said
      BY <2>3 DEF Inv, Told
    <3>3. child[t[1]].said \in Nat /\ child'[t[1]].said \in Nat
      BY <1>0, <1>1, <3>1 DEF TypeOK, ChildStates
    <3> QED
      BY <1>4, <3>1, <3>2, <3>3
  <2> QED
    BY <2>1, <2>2, <2>3
<1> QED
  BY <1>3, <1>7, <1>8, <1>9, <1>10 DEF Inv

LEMMA ReceiveKeeps ==
    ASSUME Inv, NEW k \in Child, ReceiveText(k) \/ ReceiveRest(k)
    PROVE  Inv'
<1>0. TypeOK /\ child[k] \in ChildStates /\ child[k].said \in Nat
      /\ \A t \in OfUser : Tells(child[k], t) => Flying(t)
  BY DEF Inv, TypeOK, ChildStates, Flying
<1>1. CASE ReceiveText(k)
  <2> DEFINE r == [child[k] EXCEPT !.pc = "rest", !.unread = FALSE, !.said = @ + 1]
  <2>1. /\ child' = [child EXCEPT ![k] = r] /\ child[k].pc = "recv"
        /\ segment' = [segment EXCEPT ![child[k].idx][1] = <<k, child[k].said + 1>>]
        /\ UNCHANGED <<backlog, made, server, pipe>>
    BY <1>1 DEF ReceiveText, Store
  <2>2. /\ r \in ChildStates /\ r.pc = "rest" /\ r.idx = child[k].idx
        /\ r.slot = child[k].slot /\ r.said = child[k].said + 1 /\ r.up = child[k].up
        /\ r.down = child[k].down /\ r.telling = child[k].telling
    <3> DEFINE n == child[k].said + 1
    <3>1. n \in Nat /\ r = [child[k] EXCEPT !.pc = "rest", !.unread = FALSE, !.said = n]
      BY <1>0
    <3> HIDE DEF n, r
    <3>2. /\ r \in ChildStates /\ r.pc = "rest" /\ r.idx = child[k].idx
          /\ r.slot = child[k].slot /\ r.said = n /\ r.up = child[k].up
          /\ r.down = child[k].down /\ r.telling = child[k].telling
      BY <1>0, <3>1 DEF ChildStates
    <3> QED
      BY <3>2 DEF n
  <2> HIDE DEF r
  <2>3. \A t \in OfUser : Tells(r, t) => Flying(t)
    BY <1>0, <2>2 DEF Tells
  <2>4. server' \in ServerStates /\ server'.user_count = server.user_count
    BY <1>0, <2>1 DEF TypeOK
  <2>5. \E half \in Half : segment' = [segment EXCEPT ![child[k].idx][half] = <<k, r.said>>]
    BY <2>1, <2>2 DEF Half
  <2> QED
    BY <2>1, <2>2, <2>3, <2>4, <2>5, StoreKeeps
<1>2. CASE ReceiveRest(k)
  <2> DEFINE ends == {f \in Fd : pipe[f] = k}
             up   == IF ends = {} THEN child[k].up ELSE Append(child[k].up, <<k, child[k].said>>)
             r    == [child[k] EXCEPT !.pc = "run", !.up = up]
  <2>1. /\ child' = [child EXCEPT ![k] = r] /\ child[k].pc = "rest"
        /\ \/ segment' = [segment EXCEPT ![child[k].idx][2] = <<k, child[k].said>>]
           \/ segment' = segment
        /\ server' = [server EXCEPT !.ready = @ \union ends]
        /\ UNCHANGED <<backlog, made, pipe>>
    BY <1>2 DEF ReceiveRest, Store
  <2>2. /\ up \in Seq(OfUser)
        /\ \A t : t \in ToSet(up) => t \in ToSet(child[k].up) \/ t = <<k, child[k].said>>
    <3>1. child[k].up \in Seq(OfUser) /\ <<k, child[k].said>> \in OfUser
      BY <1>0 DEF ChildStates, OfUser
    <3> QED
      BY <3>1, AppendSet
  <2>3. ends \in SUBSET Fd
    OBVIOUS
  <2> HIDE DEF up, ends
  <2>4. /\ r \in ChildStates /\ r.pc = "run" /\ r.idx = child[k].idx
        /\ r.slot = child[k].slot /\ r.said = child[k].said /\ r.up = up
        /\ r.down = child[k].down /\ r.telling = child[k].telling
    BY <1>0, <2>2 DEF ChildStates
  <2> HIDE DEF r
  <2>5. \A t \in OfUser : Tells(r, t) => Flying(t) \/ t = <<k, r.said>>
    BY <1>0, <2>2, <2>4 DEF Tells
  <2>6. server' \in ServerStates /\ server'.user_count = server.user_count
    BY <1>0, <2>1, <2>3 DEF TypeOK, ServerStates, Events
  <2>7. \/ \E half \in Half : segment' = [segment EXCEPT ![child[k].idx][half] = <<k, r.said>>]
        \/ child[k].pc = "rest" /\ segment' = segment
    BY <2>1, <2>4 DEF Half
  <2> QED
    BY <2>1, <2>4, <2>5, <2>6, <2>7, StoreKeeps
<1> QED
  BY <1>1, <1>2

LEMMA ChildKeeps ==
    ASSUME Inv, NEW k \in Child, ChildStep(k)
    PROVE  Inv'
<1>0. child[k] \in ChildStates
  BY DEF Inv, TypeOK
<1>1. CASE SetUp(k)
  <2> DEFINE ready == {e \in {"conn", "pipe"} :
                         IF e = "conn" THEN child[k].unread \/ child[k].eof
                         ELSE child[k].down # <<>> \/ ~Held(k, pipe, child)}
             r == [child[k] EXCEPT !.pc = "run", !.ready = ready]
  <2>1. ready \in SUBSET {"conn", "pipe"} /\ child' = [child EXCEPT ![k] = r]
        /\ child[k].pc = "setup" /\ UNCHANGED <<backlog, made, server, pipe, segment>>
    BY <1>1 DEF SetUp
  <2> HIDE DEF ready
  <2>2. /\ r \in ChildStates /\ r.pc = "run" /\ r.idx = child[k].idx
        /\ r.slot = child[k].slot /\ r.said = child[k].said /\ r.up = child[k].up
        /\ r.down = child[k].down /\ r.telling = child[k].telling
    BY <1>0, <2>1 DEF ChildStates
  <2> HIDE DEF r
  <2> QED
    BY <2>1, <2>2, ChildAlone DEF Steady, Tells, Unreaped, Living, Looping
<1>2. CASE ChildWait(k)
  <2> DEFINE r == [child[k] EXCEPT !.batch = child[k].ready, !.ready = {}]
  <2>1. child' = [child EXCEPT ![k] = r] /\ UNCHANGED <<backlog, made, server, pipe, segment>>
    BY <1>2 DEF ChildWait
  <2>2. /\ r \in ChildStates /\ r.pc = child[k].pc /\ r.idx = child[k].idx
        /\ r.slot = child[k].slot /\ r.said = child[k].said /\ r.up = child[k].up
        /\ r.down = child[k].down /\ r.telling = child[k].telling
    BY <1>0 DEF ChildStates
  <2> HIDE DEF r
  <2> QED
    BY <2>1, <2>2, ChildAlone DEF Steady, Tells
<1>3. CASE ReceiveNothing(k)
  <2> DEFINE stop == child[k].stop_child \/ child[k].eof
             r == [child[k] EXCEPT !.pc = "run", !.stop_child = stop]
  <2>1. stop \in BOOLEAN /\ child' = [child EXCEPT ![k] = r]
        /\ child[k].pc = "recv" /\ UNCHANGED <<backlog, made, server, pipe, segment>>
    BY <1>0, <1>3 DEF ReceiveNothing, ChildStates
  <2> HIDE DEF stop
  <2>2. /\ r \in ChildStates /\ r.pc = "run" /\ r.idx = child[k].idx
        /\ r.slot = child[k].slot /\ r.said = child[k].said /\ r.up = child[k].up
        /\ r.down = child[k].down /\ r.telling = child[k].telling
    BY <1>0, <2>1 DEF ChildStates
  <2> HIDE DEF r
  <2> QED
    BY <2>1, <2>2, ChildAlone DEF Steady, Tells, Unreaped, Living, Looping
<1>4. CASE PassOn(k)
  <2>1. CASE child[k].down # <<>>
    <3> DEFINE t == Head(child[k].down)
               left == Tail(child[k].down)
               r == [child[k] EXCEPT !.pc = "send", !.batch = @ \ {"pipe"},
                                     !.telling = t, !.down = left]
    <3>1. /\ t \in OfUser /\ t \in ToSet(child[k].down) /\ left \in Seq(OfUser)
          /\ \A x : x \in ToSet(left) => x \in ToSet(child[k].down)
      BY <1>0, <2>1, TailSet DEF ChildStates
    <3>2. child' = [child EXCEPT ![k] = r] /\ child[k].pc = "run"
          /\ UNCHANGED <<backlog, made, server, pipe, segment>>
      BY <1>4, <2>1 DEF PassOn, Handling
    <3> HIDE DEF t, left
    <3>3. /\ r \in ChildStates /\ r.pc = "send" /\ r.idx = child[k].idx
          /\ r.slot = child[k].slot /\ r.said = child[k].said /\ r.up = child[k].up
          /\ r.down = left /\ r.telling = t
      BY <1>0, <3>1 DEF ChildStates
    <3> HIDE DEF r
    <3> QED
      BY <3>1, <3>2, <3>3, ChildAlone DEF Steady, Tells, Unreaped, Living, Looping
  <2>2. CASE child[k].down = <<>>
    <3> DEFINE stop == child[k].stop_child \/ ~Held(k, pipe, child)
               r == [child[k] EXCEPT !.batch = @ \ {"pipe"}, !.stop_child = stop]
    <3>1. stop \in BOOLEAN /\ child' = [child EXCEPT ![k] = r]
          /\ UNCHANGED <<backlog, made, server, pipe, segment>>
      BY <1>0, <1>4, <2>2 DEF PassOn, ChildStates
    <3> HIDE DEF stop
    <3>2. /\ r \in ChildStates /\ r.pc = child[k].pc /\ r.idx = child[k].idx
          /\ r.slot = child[k].slot /\ r.said = child[k].said /\ r.up = child[k].up
          /\ r.down = child[k].down /\ r.telling = child[k].telling
      BY <1>0, <3>1 DEF ChildStates
    <3> HIDE DEF r
    <3> QED
      BY <3>1, <3>2, ChildAlone DEF Steady, Tells
  <2> QED
    BY <2>1, <2>2
<1>5. CASE Sent(k)
  <2> DEFINE r == [child[k] EXCEPT !.pc = "run", !.telling = Empty]
  <2>1. child' = [child EXCEPT ![k] = r] /\ child[k].pc = "send"
        /\ UNCHANGED <<backlog, made, server, pipe, segment>>
    BY <1>5 DEF Sent
  <2>2. Empty \in Text /\ \A t \in OfUser : t # Empty
    BY DEF Empty, Text, OfUser, Child
  <2>3. /\ r \in ChildStates /\ r.pc = "run" /\ r.idx = child[k].idx
        /\ r.slot = child[k].slot /\ r.said = child[k].said /\ r.up = child[k].up
        /\ r.down = child[k].down /\ r.telling = Empty
    BY <1>0, <2>2 DEF ChildStates
  <2> HIDE DEF r
  <2> QED
    BY <2>1, <2>2, <2>3, ChildAlone DEF Steady, Tells, Unreaped, Living, Looping
<1> QED
  BY <1>1, <1>2, <1>3, <1>4, <1>5, ClearKeeps, ReceiveKeeps, ExitKeeps DEF ChildStep

-----------------------------------------------------------------------------
LEMMA InvInit ==
    ASSUME Init
    PROVE  Inv
<1>1. TypeOK
  <2>1. /\ backlog \in Nat /\ made \in Nat
        /\ pipe \in [Fd -> Child \union {Free, Leaked}]
        /\ segment \in [Slot -> [Half -> Text]]
    BY DEF Init, Cleared, Empty, Text
  <2>2. server \in ServerStates
    BY LimitAssumption DEF Init, ServerStates, SignalState, NoSignal
  <2>3. Unborn \in ChildStates
    BY LimitAssumption DEF Unborn, ChildStates, Slot, Empty, Text
  <2>4. child \in [Child -> ChildStates]
    BY <2>3 DEF Init
  <2> QED
    BY <2>1, <2>2, <2>4 DEF TypeOK
<1>2. \A k \in Child : /\ child[k].pc = "none" /\ child[k].slot = -1
                       /\ child[k].up = <<>> /\ child[k].down = <<>>
                       /\ child[k].telling = Empty
  BY DEF Init, Unborn
<1>3. Forked = {} /\ Known = {} /\ Cardinality({}) = 0
  BY <1>2, FS_EmptySet DEF Forked, Known
<1>4. InOrder
  BY <1>3, BoundAssumption DEF InOrder, Newest, Init
<1>5. Counted
  BY <1>2, <1>3 DEF Counted, Unreaped, Living, Looping, Init
<1>6. Written
  BY DEF Written, Init, Cleared
<1>7. Told
  <2>1. \A t \in OfUser : t # Empty
    BY DEF OfUser, Child, Empty
  <2> QED
    BY <1>2, <2>1 DEF Told, Flying, Tells, ToSet
<1> QED
  BY <1>1, <1>4, <1>5, <1>6, <1>7 DEF Inv

LEMMA InvStep ==
    ASSUME Inv, [Next]_vars
    PROVE  Inv'
<1>1. CASE UNCHANGED vars
  BY <1>1 DEF vars, Inv, TypeOK, InOrder, Counted, Written, Told, Newest, Forked, Known,
              Flying
<1>2. CASE Next
  BY <1>2, UsersKeep, ParentKeeps, ChildKeeps DEF Next
<1> QED
  BY <1>1, <1>2

LEMMA InvHolds == Spec => []Inv
BY InvInit, InvStep, PTL DEF Spec

(* Lines 298 and 334: for any limit and any number of connections the count  *)
(* is the number of children that have an entry in sub_process, whichever    *)
(* child line 324 takes a dead one for and whatever else is moved or closed. *)
THEOREM CountMatchesEntries == Spec => []CountedAreKnown
<1>1. Inv => CountedAreKnown
  BY DEF Inv, Counted, Known, CountedAreKnown
<1> QED
  BY <1>1, InvHolds, PTL

(* Lines 126 to 142 and 163: for any number of users who share a segment and *)
(* texts sent, no half that a child passes on for an announced text is of an *)
(* older text of the same user.                                              *)
THEOREM NothingOlderPassed == Spec => []NothingOlder
<1>1. ASSUME Inv, NEW k \in Alive, NEW t \in ToSet(child[k].down) \union {child[k].telling},
             t # Empty, NEW half \in Half,
             segment[child[t[1]].idx][half][1] = t[1]
      PROVE  segment[child[t[1]].idx][half][2] >= t[2]
  <2> DEFINE w == t[1]
             text == segment[child[w].idx][half]
  <2>1. k \in Child /\ child[k] \in ChildStates
    BY <1>1 DEF Inv, TypeOK, Alive
  <2>2. t \in OfUser
    <3>1. child[k].down \in Seq(OfUser) /\ child[k].telling \in OfUser \union {Empty}
      BY <2>1 DEF ChildStates
    <3>2. CASE t \in ToSet(child[k].down)
      BY <3>1, <3>2 DEF ToSet
    <3>3. CASE t = child[k].telling
      BY <1>1, <3>1, <3>3
    <3> QED
      BY <3>2, <3>3
  <2>3. Flying(t) /\ w \in Child
    BY <2>1, <2>2 DEF Flying, Tells, OfUser
  <2>4. t[2] <= child[w].said
    BY <1>1, <2>2, <2>3 DEF Inv, Told
  <2>5. child[w].idx \in Slot
    BY <1>1, <2>3 DEF Inv, TypeOK, ChildStates
  <2>6. text # Empty
    BY <1>1, <2>3 DEF Empty, Child
  <2>7. text[2] = child[w].said
    BY <1>1, <2>5, <2>6 DEF Inv, Written
  <2>8. child[w].said \in Nat
    BY <1>1, <2>3 DEF Inv, TypeOK, ChildStates
  <2>9. t[2] \in Nat
    BY <2>2 DEF OfUser
  <2> QED
    BY <2>4, <2>7, <2>8, <2>9
<1>2. Inv => NothingOlder
  BY <1>1 DEF NothingOlder
<1> QED
  BY <1>2, InvHolds, PTL

(* Lines 337 to 340 and 347 to 351: the server does not decide to stop while *)
(* a child of its own is alive or unreaped.                                  *)
THEOREM StopsAfterReaping == Spec => StopsWhenAllReaped
<1> DEFINE Stops == server'.stop_server /\ ~server.stop_server
                       => (Alive \union Zombies)' = {}
<1>1. ASSUME Inv, Inv', [Next]_vars, server'.stop_server, ~server.stop_server
      PROVE  (Alive \union Zombies)' = {}
  <2>1. server'.user_count = 0
    BY <1>1 DEF Inv, TypeOK, ServerStates, vars, Next, Connect, Terminate, UserSends,
                UserLeaves, Parent, Wait, Refuse, AcceptAndFork, ForkFails, LeavesPipe, Handled,
                ReadSignals, ReapUser, ReapOther, StopIfDone, KillAll, TerminateAtOnce,
                Forward, BatchEnd, ChildStep, SetUp, ChildWait, ClearSegment, ReceiveText,
                ReceiveRest, ReceiveNothing, PassOn, Sent, ChildExit
  <2>2. Known' = {}
    <3>1. IsFiniteSet(Forked') /\ Known' \subseteq Forked'
      BY <1>1, FS_Interval DEF Inv, InOrder, Counted
    <3>2. IsFiniteSet(Known')
      BY <3>1, FS_Subset
    <3>3. Cardinality(Known') = 0
      BY <1>1, <2>1 DEF Inv, Counted
    <3> QED
      BY <3>2, <3>3, FS_EmptySet
  <2>3. ASSUME NEW k \in Child, child'[k].pc \in Unreaped
        PROVE  FALSE
    <3>1. k \in Known'
      BY <1>1, <2>3 DEF Inv, Counted
    <3> QED
      BY <2>2, <3>1
  <2> QED
    BY <2>3 DEF Unreaped, Alive, Zombies
<1>2. Inv /\ Inv' /\ [Next]_vars => [Stops]_vars
  BY <1>1
<1> QED
  BY <1>2, InvHolds, PTL DEF Spec, StopsWhenAllReaped

=============================================================================
