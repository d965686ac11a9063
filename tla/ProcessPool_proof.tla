------------------------- MODULE ProcessPool_proof -------------------------
(* Proofs about ProcessPool, for any number of children, any value of the    *)
(* uninitialised pid, any pipe capacity and any bounds.                      *)
EXTENDS ProcessPool, FiniteSetTheorems, TLAPS

-----------------------------------------------------------------------------
(* Type correctness.                                                         *)

(* Children is a range of integers that starts at 0, and Successor stays in  *)
(* it (line 313).                                                            *)
LEMMA ChildrenFacts ==
    /\ 0 \in Children
    /\ \A i \in Children : i \in Nat /\ Successor(i) \in Children /\ Pid(i) \in Nat \ {0}
BY NAssumption, SMT DEF Children, Successor, Pid

(* A child that dies is still a child.                                       *)
LEMMA DeadType ==
    ASSUME NEW c \in ChildStates
    PROVE  Dead(c) \in ChildStates
BY DEF Dead, ChildStates, Bytes, NoBytes

(* A CGI program's end is counted and signalled (Linux, for the code's fork  *)
(* of processpool_cgi.cpp line 62).                                          *)
LEMMA CgiEndType ==
    ASSUME NEW c \in ChildStates, c.cgi > 0
    PROVE  [c EXCEPT !.cgi = @ - 1, !.zomb = @ + 1,
                     !.pend = @ \union {"chld"}] \in ChildStates
<1>1. ASSUME NEW x \in Nat, NEW y \in Nat, NEW z \in SUBSET Signals
      PROVE  [c EXCEPT !.cgi = x, !.zomb = y, !.pend = z] \in ChildStates
  BY DEF ChildStates
<1>2. /\ c.cgi - 1 \in Nat /\ c.zomb + 1 \in Nat
      /\ c.pend \union {"chld"} \in SUBSET Signals
  BY DEF ChildStates, Signals
<1> QED
  BY <1>1, <1>2

(* Signals sent to children keep the types of child and msgs.                *)
LEMMA StrikeTypes ==
    ASSUME TypeOK, NEW D \in SUBSET Children, NEW T \in SUBSET Children, Strike(D, T)
    PROVE  /\ child' \in [Children -> ChildStates]
           /\ msgs' \subseteq msgs
<1>1. \A i \in Children : Dead(child[i]) \in ChildStates
  BY DeadType DEF TypeOK
<1>2. \A i \in Children :
        [child[i] EXCEPT !.pend = @ \union {"term"}] \in ChildStates
  BY DEF TypeOK, ChildStates, Signals
<1> QED
  BY <1>1, <1>2 DEF TypeOK, Strike

(* The parent's pending signals stay signals.                                *)
LEMMA BereavedType ==
    ASSUME TypeOK, NEW D
    PROVE  Bereaved(D) \subseteq Signals
BY DEF TypeOK, Parents, Bereaved, Signals

LEMMA DiesTypes ==
    ASSUME TypeOK, NEW i \in Children, Dies(i)
    PROVE  /\ parent' \in Parents
           /\ child' \in [Children -> ChildStates]
           /\ msgs' \subseteq msgs
<1>1. parent' \in Parents
  BY BereavedType DEF Dies, TypeOK, Parents
<1>2. Strike({i}, {})
  BY DEF Dies
<1> QED
  BY <1>1, <1>2, StrikeTypes, {i} \in SUBSET Children, {} \in SUBSET Children

(* Every step of the environment keeps the types.                            *)
LEMMA EnvTypes ==
    ASSUME TypeOK, EnvStep
    PROVE  TypeOK'
<1>1. CASE ClientConnect
  BY <1>1 DEF ClientConnect, TypeOK, Parents
<1>2. ASSUME NEW group \in BOOLEAN, OperatorSignal(group)
      PROVE  TypeOK'
  <2> DEFINE D == IF group THEN Defenceless ELSE {}
             T == IF group THEN Listening ELSE {}
  <2>1. D \in SUBSET Children /\ T \in SUBSET Children
    BY DEF Defenceless, Listening
  <2>2. Strike(D, T)
    BY <1>2 DEF OperatorSignal
  <2>3. child' \in [Children -> ChildStates] /\ msgs' \subseteq msgs
    BY <2>1, <2>2, StrikeTypes
  <2>4. parent' \in Parents
    BY <1>2, BereavedType DEF OperatorSignal, TypeOK, Parents, Signals
  <2> QED
    BY <1>2, <2>3, <2>4 DEF OperatorSignal, TypeOK
<1>3. ASSUME NEW i \in Children, ClientSend(i)
      PROVE  TypeOK'
  BY <1>3 DEF ClientSend, TypeOK, ChildStates
<1>4. ASSUME NEW i \in Children, Crash(i)
      PROVE  TypeOK'
  BY <1>4, DiesTypes DEF Crash, TypeOK
<1>5. ASSUME NEW i \in Children, CgiExit(i)
      PROVE  TypeOK'
  <2>1. child[i] \in ChildStates /\ child[i].cgi > 0
    BY <1>5 DEF CgiExit, TypeOK
  <2>2. [child[i] EXCEPT !.cgi = @ - 1] \in ChildStates
    BY <2>1 DEF ChildStates
  <2>3. [child[i] EXCEPT !.cgi = @ - 1, !.zomb = @ + 1,
                         !.pend = @ \union {"chld"}] \in ChildStates
    BY <2>1, CgiEndType
  <2>4. child' \in [Children -> ChildStates]
    BY <1>5, <2>2, <2>3 DEF CgiExit, TypeOK
  <2>5. msgs' \subseteq msgs
    BY <1>5 DEF CgiExit
  <2> QED
    BY <1>5, <2>4, <2>5 DEF CgiExit, TypeOK
<1>6. ASSUME NEW i \in Children, PipeHangup(i)
      PROVE  TypeOK'
  <2> DEFINE r == IF i \in Listening THEN child[i].ready \union {"pipe"}
                                     ELSE child[i].ready
  <2>1. r \in SUBSET {"pipe", "sig", "conn"}
    BY DEF TypeOK, ChildStates
  <2>2. [child[i] EXCEPT !.hup = TRUE, !.ready = r] \in ChildStates
    <3>1. child[i] \in ChildStates
      BY DEF TypeOK
    <3> HIDE DEF r
    <3> QED
      BY <2>1, <3>1 DEF ChildStates
  <2> QED
    BY <1>6, <2>2 DEF PipeHangup, TypeOK
<1> QED
  BY <1>1, <1>2, <1>3, <1>4, <1>5, <1>6 DEF EnvStep

(* Every step of the parent keeps the types.                                 *)
LEMMA ParentTypes ==
    ASSUME TypeOK, ParentStep
    PROVE  TypeOK'
<1>1. ASSUME NEW i \in Children, Fork(i)
      PROVE  TypeOK'
  <2>1. [child[i] EXCEPT !.pc = "setup"] \in ChildStates
    BY DEF TypeOK, ChildStates
  <2>2. child' \in [Children -> ChildStates]
    BY <1>1, <2>1 DEF Fork, TypeOK
  <2>3. m_pid' \in [Children -> Int]
    BY <1>1, ChildrenFacts DEF Fork, TypeOK
  <2> QED
    BY <1>1, <2>2, <2>3 DEF Fork, TypeOK
<1>2. CASE ParentSetup
  BY <1>2 DEF ParentSetup, TypeOK, Parents
<1>3. CASE ParentWake
  BY <1>3 DEF ParentWake, TypeOK, Parents
<1>4. CASE ParentBatchEnd
  BY <1>4 DEF ParentBatchEnd, TypeOK, Parents
<1>5. CASE Dispatch
  <2> DEFINE i == parent.sub_process_counter
  <2>1. i \in Children /\ parent.sent + 1 \in Nat
    BY DEF TypeOK, Parents
  <2>2. parent' \in Parents
    BY <1>5, <2>1, ChildrenFacts DEF Dispatch, TypeOK, Parents
  <2>3. msgs' \subseteq Children \X Nat
    BY <1>5, <2>1 DEF Dispatch, TypeOK
  <2>4. child' \in [Children -> ChildStates]
    BY <1>5, <2>1 DEF Dispatch, TypeOK, ChildStates
  <2> QED
    BY <1>5, <2>2, <2>3, <2>4 DEF Dispatch, TypeOK
<1>6. CASE DispatchStop
  BY <1>6 DEF DispatchStop, TypeOK, Parents
<1>7. CASE ParentReadSignals
  BY <1>7 DEF ParentReadSignals, TypeOK, Parents, Bytes, NoBytes
<1>8. CASE Reap
  <2>1. \A i \in Children : [child[i] EXCEPT !.pc = "gone"] \in ChildStates
    BY DEF TypeOK, ChildStates
  <2>2. child' \in [Children -> ChildStates]
    BY <1>8, <2>1 DEF Reap, TypeOK
  <2>3. m_pid' \in [Children -> Int]
    BY <1>8 DEF Reap, TypeOK
  <2>4. AllJoined \in BOOLEAN
    BY DEF AllJoined
  <2>5. [parent EXCEPT !.m_stop = AllJoined, !.todo.chld = @ - 1] \in Parents
    <3>1. [parent.todo EXCEPT !.chld = @ - 1] \in Bytes
      BY <1>8 DEF Reap, TypeOK, Parents, Bytes
    <3>2. ASSUME NEW b \in BOOLEAN, NEW t \in Bytes
          PROVE  [parent EXCEPT !.m_stop = b, !.todo = t] \in Parents
      BY DEF TypeOK, Parents
    <3> QED
      BY <2>4, <3>1, <3>2
  <2>6. parent' \in Parents
    BY <1>8, <2>5 DEF Reap, TypeOK
  <2> QED
    BY <1>8, <2>2, <2>3, <2>6 DEF Reap, TypeOK
<1>9. CASE KillAll
  <2>1. /\ Told \cap Defenceless \in SUBSET Children
        /\ Told \cap Listening \in SUBSET Children
    BY DEF Told, Defenceless, Listening
  <2>2. child' \in [Children -> ChildStates] /\ msgs' \subseteq msgs
    BY <1>9, <2>1, StrikeTypes DEF KillAll
  <2>3. parent' \in Parents
    <3>1. [parent.todo EXCEPT !.term = @ - 1] \in Bytes
      BY <1>9 DEF KillAll, TypeOK, Parents, Bytes
    <3>2. ASSUME NEW p \in SUBSET Signals, NEW t \in Bytes
          PROVE  [parent EXCEPT !.todo = t, !.pend = p] \in Parents
      BY DEF TypeOK, Parents
    <3> QED
      BY <1>9, <3>1, <3>2, BereavedType DEF KillAll
  <2> QED
    BY <1>9, <2>2, <2>3 DEF KillAll, TypeOK
<1>10. CASE SignalsDone
  BY <1>10 DEF SignalsDone, TypeOK, Parents
<1> QED
  BY <1>1, <1>2, <1>3, <1>4, <1>5, <1>6, <1>7, <1>8, <1>9, <1>10 DEF ParentStep

(* Every step of a child keeps the types.                                    *)
LEMMA ChildTypes ==
    ASSUME TypeOK, NEW i \in Children, ChildStep(i) \/ ChildHandler(i)
    PROVE  TypeOK'
<1> USE DEF TypeOK
<1>1. child[i] \in ChildStates
  OBVIOUS
<1>2. CASE ChildSetup(i)
  <2>1. SetupEdges(i) \in SUBSET {"pipe", "sig", "conn"}
    BY DEF SetupEdges
  <2>2. [child[i] EXCEPT !.pc = "wait", !.ready = SetupEdges(i)] \in ChildStates
    BY <1>1, <2>1 DEF ChildStates
  <2> QED
    BY <1>2, <2>2 DEF ChildSetup
<1>3. CASE ChildWake(i)
  BY <1>3 DEF ChildWake, ChildStates
<1>4. CASE ChildBatchEnd(i)
  <2>1. [child[i] EXCEPT !.pc = "wait"] \in ChildStates
    BY <1>1 DEF ChildStates
  <2> QED
    BY <1>4, <2>1, DiesTypes DEF ChildBatchEnd
<1>5. CASE ChildPipe(i)
  <2> DEFINE new == IF Inbox(i) = {} /\ child[i].hup THEN 0 ELSE Accepted
  <2>1. new \in Nat /\ backlog - new \in Nat
    BY DEF Accepted, Bit
  <2>2. [child[i] EXCEPT !.conns = @ + new, !.batch = @ \ {"pipe"}] \in ChildStates
    <3>1. ASSUME NEW n \in Nat, NEW b \in SUBSET {"pipe", "sig", "conn"}
          PROVE  [child[i] EXCEPT !.conns = n, !.batch = b] \in ChildStates
      BY <1>1 DEF ChildStates
    <3>2. /\ child[i].conns + new \in Nat
          /\ child[i].batch \ {"pipe"} \in SUBSET {"pipe", "sig", "conn"}
      BY <1>1, <2>1 DEF ChildStates
    <3> QED
      BY <3>1, <3>2
  <2> QED
    BY <1>5, <2>1, <2>2 DEF ChildPipe, Received
<1>6. CASE ChildConn(i)
  <2>1. PICK o \in Outcomes :
          LET left == IF o = "keep" THEN child[i].conns ELSE child[i].conns - 1 IN
          child' = [child EXCEPT ![i].conns = left,
                                 ![i].cgi = IF o = "cgi" THEN @ + 1 ELSE @,
                                 ![i].ready = IF left = 0 THEN @ \ {"conn"} ELSE @,
                                 ![i].batch = @ \ {"conn"}]
    BY <1>6 DEF ChildConn
  <2> DEFINE left == IF o = "keep" THEN child[i].conns ELSE child[i].conns - 1
  <2>2. left \in Nat
    BY <1>1, <1>6 DEF ChildConn, ChildStates
  <2>3. [child[i] EXCEPT !.conns = left,
                         !.cgi = IF o = "cgi" THEN @ + 1 ELSE @,
                         !.ready = IF left = 0 THEN @ \ {"conn"} ELSE @,
                         !.batch = @ \ {"conn"}] \in ChildStates
    <3>1. ASSUME NEW n \in Nat, NEW g \in Nat, NEW r \in SUBSET {"pipe", "sig", "conn"},
                 NEW b \in SUBSET {"pipe", "sig", "conn"}
          PROVE  [child[i] EXCEPT !.conns = n, !.cgi = g, !.ready = r,
                                  !.batch = b] \in ChildStates
      BY <1>1 DEF ChildStates
    <3> DEFINE g == IF o = "cgi" THEN child[i].cgi + 1 ELSE child[i].cgi
               r == IF left = 0 THEN child[i].ready \ {"conn"} ELSE child[i].ready
               b == child[i].batch \ {"conn"}
    <3>2. /\ g \in Nat
          /\ r \in SUBSET {"pipe", "sig", "conn"}
          /\ b \in SUBSET {"pipe", "sig", "conn"}
      BY <1>1 DEF ChildStates
    <3>3. [child[i] EXCEPT !.conns = left, !.cgi = g, !.ready = r,
                           !.batch = b] \in ChildStates
      <4> HIDE DEF left, g, r, b
      <4> QED
        BY <2>2, <3>1, <3>2
    <3> QED
      BY <3>3
  <2> DEFINE c == [child[i] EXCEPT !.conns = left,
                                   !.cgi = IF o = "cgi" THEN @ + 1 ELSE @,
                                   !.ready = IF left = 0 THEN @ \ {"conn"} ELSE @,
                                   !.batch = @ \ {"conn"}]
  <2>4. child' = [child EXCEPT ![i] = c]
    BY <2>1 DEF TypeOK
  <2>5. c \in ChildStates
    BY <2>3
  <2> HIDE DEF c
  <2>6. child' \in [Children -> ChildStates]
    BY <2>4, <2>5 DEF TypeOK
  <2> QED
    BY <1>6, <2>6 DEF ChildConn, TypeOK
<1>7. CASE ChildReadSignals(i)
  <2>0. PICK same \in BOOLEAN :
        /\ same => MayBeSame(i)
        /\ child' = [child EXCEPT ![i].zomb = @ - CgisReaped(i, Bit(same)),
                                  ![i].same = @ \/ same,
                                  ![i].m_stop = @ \/ child[i].bytes.term > 0,
                                  ![i].bytes = NoBytes,
                                  ![i].batch = @ \ {"sig"}, ![i].ready = @ \ {"sig"}]
    BY <1>7 DEF ChildReadSignals
  <2>1. child[i].zomb - CgisReaped(i, Bit(same)) \in Nat
    BY <1>1 DEF CgisReaped, ChildStates, Bytes, Bit
  <2>4. (child[i].same \/ same) \in BOOLEAN
    BY <1>1 DEF ChildStates
  <2>2. (child[i].m_stop \/ child[i].bytes.term > 0) \in BOOLEAN
    BY <1>1 DEF ChildStates
  <2>3. [child[i] EXCEPT !.zomb = @ - CgisReaped(i, Bit(same)),
                         !.same = @ \/ same,
                         !.m_stop = @ \/ child[i].bytes.term > 0,
                         !.bytes = NoBytes,
                         !.batch = @ \ {"sig"}, !.ready = @ \ {"sig"}] \in ChildStates
    BY <1>1, <2>1, <2>2, <2>4 DEF ChildStates, Bytes, NoBytes
  <2>5. child' \in [Children -> ChildStates]
    BY <2>0, <2>3 DEF TypeOK
  <2> QED
    BY <1>7, <2>5 DEF ChildReadSignals, TypeOK
<1>8. CASE ChildInterrupted(i)
  BY <1>8, DiesTypes DEF ChildInterrupted
<1>9. ASSUME NEW s \in Signals, ChildSignal(i, s)
      PROVE  TypeOK'
  <2>1. [child[i].bytes EXCEPT ![s] = @ + 1] \in Bytes
    BY <1>1 DEF Signals, Bytes, ChildStates
  <2>2. [child[i] EXCEPT !.pend = @ \ {s}, !.bytes[s] = @ + 1,
                         !.ready = @ \union {"sig"}] \in ChildStates
    BY <1>1, <2>1 DEF ChildStates
  <2> QED
    BY <1>9, <2>2 DEF ChildSignal
<1> QED
  BY <1>2, <1>3, <1>4, <1>5, <1>6, <1>7, <1>8, <1>9 DEF ChildStep, ChildHandler

LEMMA ParentSignalTypes ==
    ASSUME TypeOK, NEW s \in Signals, ParentSignal(s)
    PROVE  TypeOK'
<1>1. [parent.bytes EXCEPT ![s] = @ + 1] \in Bytes
  BY DEF TypeOK, Parents, Signals, Bytes
<1> QED
  BY <1>1 DEF ParentSignal, TypeOK, Parents

(* The state of the pool stays well formed: no counter of a process, pipe or *)
(* listener goes below zero, and the dispatch counter stays a child.         *)
THEOREM TypeCorrect == Spec => []TypeOK
<1>1. Init => TypeOK
  BY ChildrenFacts DEF Init, TypeOK, Parents, ChildStates, Bytes, NoBytes, Signals
<1>2. TypeOK /\ [Next]_vars => TypeOK'
  <2> SUFFICES ASSUME TypeOK, [Next]_vars PROVE TypeOK'
    OBVIOUS
  <2>1. CASE UNCHANGED vars
    BY <2>1 DEF TypeOK, vars
  <2>2. CASE Next
    BY <2>2, EnvTypes, ParentTypes, ChildTypes, ParentSignalTypes DEF Next
  <2> QED
    BY <2>1, <2>2
<1> QED
  BY <1>1, <1>2, PTL DEF Spec

-----------------------------------------------------------------------------
(* The reaping loop of the parent.                                           *)

Running == {"none", "setup", "wait", "batch"}
Fates   == [i \in Children |->
              IF child[i].pc \in Running THEN "running" ELSE child[i].pc]

(* Bytes are handled only between ParentReadSignals and SignalsDone: the     *)
(* assignment of todo overwrites nothing.                                    *)
TodoHandled == parent.pc # "sigs" => parent.todo = NoBytes
ReapInv     == TypeOK /\ ReapBacked /\ TodoHandled

LEMMA ChildrenFinite ==
    ASSUME NEW S \in SUBSET Children
    PROVE  IsFiniteSet(S) /\ Cardinality(S) \in Nat
<1>1. N - 1 \in Int /\ 0 \in Int
  BY NAssumption
<1>2. IsFiniteSet(Children)
  BY <1>1, FS_Interval DEF Children
<1> QED
  BY <1>2, FS_Subset, FS_CardinalityType

LEMMA DebtCreditTypes ==
    /\ TypeOK => Debt \in Nat /\ Credit \in Nat
    /\ TypeOK' => Debt' \in Nat /\ Credit' \in Nat
<1>1. Zombies \in SUBSET Children /\ Zombies' \in SUBSET Children
  BY DEF Zombies
<1>2. Cardinality(Zombies) \in Nat /\ Cardinality(Zombies') \in Nat
  BY <1>1, ChildrenFinite
<1> QED
  BY <1>2 DEF Debt, Credit, TypeOK, Parents, Bytes, Bit

(* A step in which no child dies or is reaped leaves the credit alone.       *)
LEMMA CreditKept ==
    ASSUME pid' = pid, Fates' = Fates
    PROVE  Credit' = Credit
<1>1. Zombies' = Zombies
  <2>1. \A i \in Children : Fates[i] = "zombie" <=> child[i].pc = "zombie"
    BY DEF Fates, Running
  <2>2. \A i \in Children : Fates'[i] = "zombie" <=> child'[i].pc = "zombie"
    BY DEF Fates, Running
  <2> QED
    BY <2>1, <2>2 DEF Zombies
<1>2. GarbageReaped' = GarbageReaped
  <2>1. \A i \in Children : Fates[i] = "gone" <=> child[i].pc = "gone"
    BY DEF Fates, Running
  <2>2. \A i \in Children : Fates'[i] = "gone" <=> child'[i].pc = "gone"
    BY DEF Fates, Running
  <2> QED
    BY <2>1, <2>2 DEF GarbageReaped, Pid
<1> QED
  BY <1>1, <1>2 DEF Credit

LEMMA FatesKept ==
    ASSUME NEW i \in Children, \A j \in Children : j # i => child'[j] = child[j],
           \/ child'[i].pc = child[i].pc
           \/ child[i].pc \in Running /\ child'[i].pc \in Running
    PROVE  Fates' = Fates
BY DEF Fates

(* The steps that touch one child and neither start nor end a life.          *)
LEMMA OneChildFates ==
    ASSUME TypeOK, NEW i \in Children,
           \/ ClientSend(i) \/ CgiExit(i) \/ PipeHangup(i) \/ Fork(i)
           \/ ChildSetup(i) \/ ChildWake(i) \/ ChildPipe(i) \/ ChildConn(i)
           \/ ChildReadSignals(i) \/ \E s \in Signals : ChildSignal(i, s)
    PROVE  Fates' = Fates
<1>1. ASSUME \A j \in Children : j # i => child'[j] = child[j],
             child'[i].pc = child[i].pc
      PROVE  Fates' = Fates
  BY <1>1, FatesKept
<1>2. CASE ClientSend(i)
  BY <1>1, <1>2 DEF ClientSend, TypeOK, ChildStates
<1>3. CASE CgiExit(i)
  BY <1>1, <1>3 DEF CgiExit, TypeOK, ChildStates
<1>4. CASE PipeHangup(i)
  BY <1>1, <1>4 DEF PipeHangup, TypeOK, ChildStates
<1>5. CASE Fork(i)
  <2>1. \A j \in Children : j # i => child'[j] = child[j]
    BY <1>5 DEF Fork, TypeOK
  <2>2. child[i].pc = "none" /\ child'[i].pc = "setup"
    BY <1>5 DEF Fork, TypeOK, ChildStates
  <2> QED
    BY <2>1, <2>2, FatesKept DEF Running
<1>6. CASE ChildSetup(i)
  <2>1. \A j \in Children : j # i => child'[j] = child[j]
    BY <1>6 DEF ChildSetup, TypeOK
  <2>2. child[i].pc = "setup" /\ child'[i].pc = "wait"
    BY <1>6 DEF ChildSetup, TypeOK, ChildStates
  <2> QED
    BY <2>1, <2>2, FatesKept DEF Running
<1>7. CASE ChildWake(i)
  <2>1. \A j \in Children : j # i => child'[j] = child[j]
    BY <1>7 DEF ChildWake, TypeOK
  <2>2. child[i].pc = "wait" /\ child'[i].pc = "batch"
    BY <1>7 DEF ChildWake, TypeOK, ChildStates
  <2> QED
    BY <2>1, <2>2, FatesKept DEF Running
<1>8. CASE ChildPipe(i)
  BY <1>1, <1>8 DEF ChildPipe, TypeOK, ChildStates
<1>9. CASE ChildConn(i)
  <2>1. PICK o \in Outcomes :
          LET left == IF o = "keep" THEN child[i].conns ELSE child[i].conns - 1 IN
          child' = [child EXCEPT ![i].conns = left,
                                 ![i].cgi = IF o = "cgi" THEN @ + 1 ELSE @,
                                 ![i].ready = IF left = 0 THEN @ \ {"conn"} ELSE @,
                                 ![i].batch = @ \ {"conn"}]
    BY <1>9 DEF ChildConn
  <2>2. /\ \A j \in Children : j # i => child'[j] = child[j]
        /\ child'[i].pc = child[i].pc
    BY <2>1 DEF TypeOK, ChildStates
  <2> QED
    BY <1>1, <2>2
<1>10. CASE ChildReadSignals(i)
  <2>0. PICK same \in BOOLEAN :
        child' = [child EXCEPT ![i].zomb = @ - CgisReaped(i, Bit(same)),
                                  ![i].same = @ \/ same,
                                  ![i].m_stop = @ \/ child[i].bytes.term > 0,
                                  ![i].bytes = NoBytes,
                                  ![i].batch = @ \ {"sig"}, ![i].ready = @ \ {"sig"}]
    BY <1>10 DEF ChildReadSignals
  <2> DEFINE z == child[i].zomb - CgisReaped(i, Bit(same))
             l == child[i].same \/ same
             b == child[i].m_stop \/ child[i].bytes.term > 0
  <2>1. /\ \A j \in Children : j # i => child'[j] = child[j]
        /\ child'[i] = [child[i] EXCEPT !.zomb = z, !.same = l, !.m_stop = b,
                              !.bytes = NoBytes,
                              !.batch = @ \ {"sig"}, !.ready = @ \ {"sig"}]
    BY <1>1, <2>0 DEF TypeOK
  <2> HIDE DEF z, l, b
  <2>2. child'[i].pc = child[i].pc
    BY <1>1, <2>1 DEF ChildStates
  <2>3. parent' = parent
    BY <1>10 DEF ChildReadSignals
  <2> QED
    BY <1>1, <1>10, <2>1, <2>2, FatesKept DEF ChildReadSignals
<1>11. ASSUME NEW s \in Signals, ChildSignal(i, s)
       PROVE  Fates' = Fates
  <2>1. /\ \A j \in Children : j # i => child'[j] = child[j]
        /\ child'[i] = [child[i] EXCEPT !.pend = @ \ {s}, !.bytes[s] = @ + 1,
                                        !.ready = @ \union {"sig"}]
    BY <1>11 DEF ChildSignal, TypeOK
  <2>2. child'[i].pc = child[i].pc
    BY <2>1 DEF TypeOK, ChildStates
  <2> QED
    BY <1>1, <2>1, <2>2
<1> QED
  BY <1>2, <1>3, <1>4, <1>5, <1>6, <1>7, <1>8, <1>9, <1>10, <1>11

(* The deaths of a step raise the credit by at least what they add to the    *)
(* debt: SIGCHLD is pending at most once, whatever the number of deaths.     *)
LEMMA StrikeCredit ==
    ASSUME TypeOK, pid' = pid, NEW D \in SUBSET Children, NEW T,
           \A i \in D : Alive(i), Strike(D, T)
    PROVE  Credit' >= Credit + Bit(D # {})
<1>1. \A i \in Children : child'[i].pc = IF i \in D THEN "zombie" ELSE child[i].pc
  BY DEF Strike, Dead, TypeOK, ChildStates
<1>2. Zombies' = Zombies \union D
  BY <1>1 DEF Zombies
<1>3. GarbageReaped' = GarbageReaped
  BY <1>1 DEF GarbageReaped, Alive, Pid
<1>4. IsFiniteSet(Zombies) /\ Cardinality(Zombies) \in Nat
  BY ChildrenFinite, Zombies \in SUBSET Children DEF Zombies
<1>5. IsFiniteSet(Zombies') /\ Cardinality(Zombies') \in Nat
  BY <1>2, ChildrenFinite, Zombies' \in SUBSET Children DEF Zombies
<1>6. Bit(GarbageReaped) \in Nat
  BY DEF Bit
<1>7. CASE D = {}
  BY <1>2, <1>3, <1>4, <1>6, <1>7 DEF Credit, Bit
<1>8. CASE D # {}
  <2>1. PICK d \in D : d \notin Zombies
    BY <1>8 DEF Zombies, Alive
  <2>2. Cardinality(Zombies \union {d}) = Cardinality(Zombies) + 1
    BY <1>4, <2>1, FS_AddElement
  <2>3. Zombies \union {d} \in SUBSET (Zombies')
    BY <1>2, <2>1
  <2>4. Cardinality(Zombies \union {d}) <= Cardinality(Zombies')
    BY <1>5, <2>3, FS_Subset
  <2> QED
    BY <1>3, <1>4, <1>5, <1>6, <1>8, <2>2, <2>4 DEF Credit, Bit
<1> QED
  BY <1>7, <1>8

(* The death of children is at most one new SIGCHLD.                         *)
LEMMA BereavedDebt ==
    ASSUME TypeOK, NEW D
    PROVE  Bit("chld" \in Bereaved(D)) <= Bit("chld" \in parent.pend) + Bit(D # {})
BY DEF Bereaved, Bit

LEMMA DiesBacked ==
    ASSUME ReapInv, TypeOK', NEW i \in Children, Alive(i), Dies(i), pid' = pid
    PROVE  ReapInv'
<1>1. Strike({i}, {}) /\ {i} # {} /\ {i} \in SUBSET Children
  BY DEF Dies
<1>2. Credit' >= Credit + 1
  BY <1>1, StrikeCredit DEF ReapInv, Bit
<1>3. /\ parent'.pend = Bereaved({i}) /\ parent'.bytes = parent.bytes
      /\ parent'.todo = parent.todo /\ parent'.pc = parent.pc
  BY DEF Dies, ReapInv, TypeOK, Parents
<1>4. Debt' <= Debt + 1
  BY <1>1, <1>3, BereavedDebt DEF Debt, ReapInv, TypeOK, Parents, Bytes, Bit
<1> QED
  BY <1>2, <1>3, <1>4, DebtCreditTypes DEF ReapInv, ReapBacked, TodoHandled

(* One waitpid call: with a zombie it costs one credit, and one byte unless  *)
(* the garbage value was hit; without one it costs no credit.                *)
LEMMA ReapStep ==
    ASSUME ReapInv, TypeOK', Reap
    PROVE  ReapInv'
<1> USE DEF ReapInv
<1>1. PICK r \in WaitPid :
        /\ child' = [i \in Children |-> IF i \in ReapedBy(r)
                        THEN [child[i] EXCEPT !.pc = "gone"] ELSE child[i]]
        /\ IF pid = r
           THEN parent' = parent
           ELSE parent' = [parent EXCEPT !.m_stop = AllJoined, !.todo.chld = @ - 1]
  BY DEF Reap
<1>2. pid' = pid /\ parent.pc = "sigs" /\ parent'.pc = "sigs"
  BY <1>1 DEF Reap, TypeOK, Parents
<1>3. Debt' = IF pid = r THEN Debt ELSE Debt - 1
  <2>1. CASE pid = r
    BY <1>1, <2>1 DEF Debt
  <2>2. CASE pid # r
    <3>1. /\ parent'.pend = parent.pend /\ parent'.bytes = parent.bytes
          /\ parent'.todo = [parent.todo EXCEPT !.chld = @ - 1]
      BY <1>1, <2>2 DEF TypeOK, Parents
    <3> QED
      BY <2>2, <3>1 DEF Debt, TypeOK, Parents, Bytes, Bit
  <2> QED
    BY <2>1, <2>2
<1>4. IsFiniteSet(Zombies) /\ Cardinality(Zombies) \in Nat
  BY ChildrenFinite, Zombies \in SUBSET Children DEF Zombies
<1>5. CASE Zombies = {}
  <2>1. r \in {0, -1}
    BY <1>1, <1>5 DEF WaitPid
  <2>2. ReapedBy(r) = {}
    BY <2>1, ChildrenFacts DEF ReapedBy
  <2>3. child' = child
    BY <1>1, <2>2 DEF TypeOK
  <2>4. Credit' = Credit
    BY <1>2, <2>3 DEF Credit, Zombies, GarbageReaped
  <2> QED
    BY <1>2, <1>3, <2>4, DebtCreditTypes DEF ReapBacked, TodoHandled
<1>6. CASE Zombies # {}
  <2>1. PICK z \in Zombies : r = Pid(z)
    BY <1>1, <1>6 DEF WaitPid
  <2>2. z \in Children /\ child[z].pc = "zombie"
    BY <2>1 DEF Zombies
  <2>3. \A i \in Children : Pid(i) = Pid(z) => i = z
    BY <2>2 DEF Pid, Children
  <2>4. \A i \in Children : child'[i].pc = IF i = z THEN "gone" ELSE child[i].pc
    BY <1>1, <2>1, <2>2, <2>3 DEF ReapedBy, TypeOK, ChildStates
  <2>5. Zombies' = Zombies \ {z}
    BY <2>4 DEF Zombies
  <2>6. Cardinality(Zombies') = Cardinality(Zombies) - 1
    BY <1>4, <2>1, <2>5, FS_RemoveElement
  <2>7. CASE pid = r
    <3>1. GarbageReaped'
      BY <1>2, <2>1, <2>2, <2>4, <2>7 DEF GarbageReaped, Pid
    <3>2. ~GarbageReaped
      BY <2>1, <2>2, <2>3, <2>7 DEF GarbageReaped
    <3>3. Credit' = Credit
      BY <1>4, <2>6, <3>1, <3>2 DEF Credit, Bit
    <3> QED
      BY <1>2, <1>3, <2>7, <3>3, DebtCreditTypes DEF ReapBacked, TodoHandled
  <2>8. CASE pid # r
    <3>1. GarbageReaped' = GarbageReaped
      BY <1>2, <2>1, <2>4, <2>8 DEF GarbageReaped, Pid
    <3>2. Credit' = Credit - 1
      BY <1>4, <2>6, <3>1 DEF Credit, Bit
    <3> QED
      BY <1>2, <1>3, <2>8, <3>2, DebtCreditTypes DEF ReapBacked, TodoHandled
  <2> QED
    BY <2>7, <2>8
<1> QED
  BY <1>5, <1>6

(* A step that neither adds to the debt nor kills or reaps a child.          *)
LEMMA QuietStep ==
    ASSUME ReapInv, TypeOK', pid' = pid, Debt' = Debt, TodoHandled', Fates' = Fates
    PROVE  ReapInv'
<1>1. Credit' = Credit
  BY CreditKept
<1> QED
  BY <1>1 DEF ReapInv, ReapBacked

LEMMA QuietChildStep ==
    ASSUME ReapInv, TypeOK', pid' = pid, parent' = parent, Fates' = Fates
    PROVE  ReapInv'
<1>1. Debt' = Debt /\ TodoHandled'
  BY DEF Debt, TodoHandled, ReapInv
<1> QED
  BY <1>1, QuietStep

LEMMA EnvReap ==
    ASSUME ReapInv, TypeOK', EnvStep
    PROVE  ReapInv'
<1> USE DEF ReapInv
<1>1. CASE ClientConnect
  <2>1. /\ parent'.pend = parent.pend /\ parent'.bytes = parent.bytes
        /\ parent'.todo = parent.todo /\ parent'.pc = parent.pc
    BY <1>1 DEF ClientConnect, TypeOK, Parents
  <2>2. Debt' = Debt /\ TodoHandled'
    BY <2>1 DEF Debt, TodoHandled
  <2>3. Fates' = Fates /\ pid' = pid
    BY <1>1 DEF ClientConnect, Fates
  <2> QED
    BY <2>2, <2>3, QuietStep
<1>2. ASSUME NEW group \in BOOLEAN, OperatorSignal(group)
      PROVE  ReapInv'
  <2> DEFINE D == IF group THEN Defenceless ELSE {}
             T == IF group THEN Listening ELSE {}
  <2>1. D \in SUBSET Children /\ \A i \in D : Alive(i)
    BY DEF Defenceless, Alive
  <2>2. Strike(D, T) /\ pid' = pid
    BY <1>2 DEF OperatorSignal
  <2>3. Credit' >= Credit + Bit(D # {})
    <3> HIDE DEF D, T
    <3> QED
      BY <2>1, <2>2, StrikeCredit
  <2>4. /\ "chld" \in parent'.pend => "chld" \in Bereaved(D) \/ "chld" \in parent.pend
        /\ parent'.bytes = parent.bytes /\ parent'.todo = parent.todo
        /\ parent'.pc = "sigs" => parent.pc = "sigs"
        /\ parent.pc = "sigs" => parent'.pc = "sigs"
    BY <1>2 DEF OperatorSignal, TypeOK, Parents, Handling
  <2>5. Debt' <= Debt + Bit(D # {})
    <3>1. Bit("chld" \in Bereaved(D)) <= Bit("chld" \in parent.pend) + Bit(D # {})
      BY BereavedDebt
    <3>2. Bit("chld" \in parent'.pend) <= Bit("chld" \in parent.pend) + Bit(D # {})
      <4> HIDE DEF D
      <4> QED
        BY <2>4, <3>1 DEF Bit
    <3> HIDE DEF D
    <3> QED
      BY <2>4, <3>2 DEF Debt, TypeOK, Parents, Bytes, Bit
  <2>6. Bit(D # {}) \in Nat
    BY DEF Bit
  <2> HIDE DEF D
  <2> QED
    BY <2>3, <2>4, <2>5, <2>6, DebtCreditTypes DEF ReapBacked, TodoHandled
<1>3. ASSUME NEW i \in Children, ClientSend(i)
      PROVE  ReapInv'
  <2>1. Fates' = Fates
    BY <1>3, OneChildFates
  <2> QED
    BY <1>3, <2>1, QuietChildStep DEF ClientSend
<1>4. ASSUME NEW i \in Children, Crash(i)
      PROVE  ReapInv'
  BY <1>4, DiesBacked DEF Crash
<1>5. ASSUME NEW i \in Children, CgiExit(i)
      PROVE  ReapInv'
  <2>1. Fates' = Fates
    BY <1>5, OneChildFates
  <2> QED
    BY <1>5, <2>1, QuietChildStep DEF CgiExit
<1>6. ASSUME NEW i \in Children, PipeHangup(i)
      PROVE  ReapInv'
  <2>1. Fates' = Fates
    BY <1>6, OneChildFates
  <2> QED
    BY <1>6, <2>1, QuietChildStep DEF PipeHangup
<1> QED
  BY <1>1, <1>2, <1>3, <1>4, <1>5, <1>6 DEF EnvStep

LEMMA ParentReap ==
    ASSUME ReapInv, TypeOK', ParentStep
    PROVE  ReapInv'
<1> USE DEF ReapInv
<1>1. ASSUME NEW i \in Children, Fork(i)
      PROVE  ReapInv'
  <2>1. Fates' = Fates
    BY <1>1, OneChildFates
  <2> QED
    BY <1>1, <2>1, QuietChildStep DEF Fork
<1>2. ASSUME child' = child, pid' = pid, parent.pc # "sigs",
             parent'.pend = parent.pend, parent'.bytes = parent.bytes,
             parent'.todo = parent.todo
      PROVE  ReapInv'
  <2>1. Credit' = Credit
    BY <1>2 DEF Credit, Zombies, GarbageReaped
  <2>2. Debt' = Debt
    BY <1>2 DEF Debt
  <2> QED
    BY <1>2, <2>1, <2>2 DEF ReapBacked, TodoHandled
<1>3. CASE ParentSetup
  <2>1. /\ parent'.pend = parent.pend /\ parent'.bytes = parent.bytes
        /\ parent'.todo = parent.todo
    BY <1>3 DEF ParentSetup, TypeOK, Parents
  <2> QED
    BY <1>2, <1>3, <2>1 DEF ParentSetup
<1>4. CASE ParentWake
  <2>1. /\ parent'.pend = parent.pend /\ parent'.bytes = parent.bytes
        /\ parent'.todo = parent.todo
    BY <1>4 DEF ParentWake, TypeOK, Parents
  <2> QED
    BY <1>2, <1>4, <2>1 DEF ParentWake
<1>5. CASE ParentBatchEnd
  <2>1. /\ parent'.pend = parent.pend /\ parent'.bytes = parent.bytes
        /\ parent'.todo = parent.todo
    BY <1>5 DEF ParentBatchEnd, TypeOK, Parents
  <2> QED
    BY <1>2, <1>5, <2>1 DEF ParentBatchEnd
<1>6. CASE Dispatch
  <2>1. /\ parent'.pend = parent.pend /\ parent'.bytes = parent.bytes
        /\ parent'.todo = parent.todo /\ parent'.pc = parent.pc
    BY <1>6 DEF Dispatch, TypeOK, Parents
  <2>2. Debt' = Debt /\ TodoHandled'
    BY <2>1 DEF Debt, TodoHandled
  <2>3. \A j \in Children : child'[j].pc = child[j].pc
    BY <1>6 DEF Dispatch, TypeOK, ChildStates
  <2>4. Fates' = Fates /\ pid' = pid
    BY <1>6, <2>3 DEF Dispatch, Fates
  <2> QED
    BY <2>2, <2>4, QuietStep
<1>7. CASE DispatchStop
  <2>1. /\ parent'.pend = parent.pend /\ parent'.bytes = parent.bytes
        /\ parent'.todo = parent.todo
    BY <1>7 DEF DispatchStop, TypeOK, Parents
  <2> QED
    BY <1>2, <1>7, <2>1 DEF DispatchStop
<1>8. CASE ParentReadSignals
  <2>1. /\ parent'.pend = parent.pend /\ parent'.pc = "sigs"
        /\ parent'.todo.chld = parent.bytes.chld /\ parent'.bytes.chld = 0
    BY <1>8 DEF ParentReadSignals, TypeOK, Parents, NoBytes
  <2>2. parent.todo.chld = 0
    BY <1>8 DEF ParentReadSignals, TodoHandled, NoBytes
  <2>3. Debt' = Debt
    BY <2>1, <2>2 DEF Debt, TypeOK, Parents, Bytes, Bit
  <2>4. Credit' = Credit
    BY <1>8 DEF ParentReadSignals, Credit, Zombies, GarbageReaped
  <2> QED
    BY <2>1, <2>3, <2>4 DEF ReapBacked, TodoHandled
<1>9. CASE Reap
  BY <1>9, ReapStep
<1>10. CASE KillAll
  <2> DEFINE D == Told \cap Defenceless
  <2>1. D \in SUBSET Children /\ \A i \in D : Alive(i)
    BY DEF Told, Defenceless, Alive
  <2>2. Strike(D, Told \cap Listening) /\ pid' = pid
    BY <1>10 DEF KillAll
  <2>3. /\ parent'.pend = Bereaved(D) /\ parent'.bytes = parent.bytes
        /\ parent'.todo.chld = parent.todo.chld /\ parent'.pc = "sigs"
    BY <1>10 DEF KillAll, TypeOK, Parents, Bytes
  <2> HIDE DEF D
  <2>4. Credit' >= Credit + Bit(D # {})
    BY <2>1, <2>2, StrikeCredit
  <2>5. Debt' <= Debt + Bit(D # {})
    BY <2>3, BereavedDebt DEF Debt, TypeOK, Parents, Bytes, Bit
  <2>6. Bit(D # {}) \in Nat
    BY DEF Bit
  <2> QED
    BY <2>3, <2>4, <2>5, <2>6, DebtCreditTypes DEF ReapBacked, TodoHandled
<1>11. CASE SignalsDone
  <2>1. /\ parent'.pend = parent.pend /\ parent'.bytes = parent.bytes
        /\ parent'.todo = parent.todo /\ parent.todo = NoBytes
    BY <1>11 DEF SignalsDone, TypeOK, Parents
  <2>2. Debt' = Debt
    BY <2>1 DEF Debt
  <2>3. Credit' = Credit
    BY <1>11 DEF SignalsDone, Credit, Zombies, GarbageReaped
  <2> QED
    BY <2>1, <2>2, <2>3 DEF ReapBacked, TodoHandled
<1> QED
  BY <1>1, <1>3, <1>4, <1>5, <1>6, <1>7, <1>8, <1>9, <1>10, <1>11 DEF ParentStep

LEMMA ChildReap ==
    ASSUME ReapInv, TypeOK', NEW i \in Children, ChildStep(i) \/ ChildHandler(i)
    PROVE  ReapInv'
<1>1. CASE ChildBatchEnd(i)
  <2>1. CASE child[i].m_stop
    BY <1>1, <2>1, DiesBacked DEF ChildBatchEnd, Alive
  <2>2. CASE ~child[i].m_stop
    <3>1. \A j \in Children : j # i => child'[j] = child[j]
      BY <1>1, <2>2 DEF ChildBatchEnd, ReapInv, TypeOK
    <3>2. child[i].pc \in Running /\ child'[i].pc \in Running
      BY <1>1, <2>2 DEF ChildBatchEnd, ReapInv, TypeOK, ChildStates, Running
    <3>3. Fates' = Fates
      BY <3>1, <3>2, FatesKept
    <3> QED
      BY <1>1, <2>2, <3>3, QuietChildStep DEF ChildBatchEnd
  <2> QED
    BY <2>1, <2>2
<1>2. CASE ChildInterrupted(i)
  BY <1>2, DiesBacked DEF ChildInterrupted, Alive
<1>3. ASSUME \/ ChildSetup(i) \/ ChildWake(i) \/ ChildPipe(i) \/ ChildConn(i)
             \/ ChildReadSignals(i) \/ \E s \in Signals : ChildSignal(i, s)
      PROVE  ReapInv'
  <2>1. Fates' = Fates
    BY <1>3, OneChildFates DEF ReapInv
  <2>2. parent' = parent /\ pid' = pid
    BY <1>3 DEF ChildSetup, ChildWake, ChildPipe, ChildConn, ChildReadSignals, ChildSignal
  <2> QED
    BY <2>1, <2>2, QuietChildStep
<1> QED
  BY <1>1, <1>2, <1>3 DEF ChildStep, ChildHandler

\* The handler turns a pending SIGCHLD into a byte.
LEMMA ParentSignalReap ==
    ASSUME ReapInv, TypeOK', NEW s \in Signals, ParentSignal(s)
    PROVE  ReapInv'
<1> USE DEF ReapInv
<1>1. /\ parent'.pend = parent.pend \ {s} /\ parent'.todo = parent.todo
      /\ parent'.bytes = [parent.bytes EXCEPT ![s] = @ + 1]
      /\ parent'.pc = parent.pc
  BY DEF ParentSignal, TypeOK, Parents
<1>2. Debt' = Debt
  <2>1. CASE s = "chld"
    BY <1>1, <2>1 DEF ParentSignal, Debt, TypeOK, Parents, Bytes, Bit
  <2>2. CASE s = "term"
    BY <1>1, <2>2 DEF ParentSignal, Debt, TypeOK, Parents, Bytes, Bit
  <2> QED
    BY <2>1, <2>2 DEF Signals
<1>3. Credit' = Credit
  BY DEF ParentSignal, Credit, Zombies, GarbageReaped
<1> QED
  BY <1>1, <1>2, <1>3 DEF ReapBacked, TodoHandled

LEMMA ReapInvHolds == Spec => []ReapInv
<1>1. Init => ReapInv
  <2> SUFFICES ASSUME Init PROVE ReapInv
    OBVIOUS
  <2>1. TypeOK
    BY ChildrenFacts DEF Init, TypeOK, Parents, ChildStates, Bytes, NoBytes, Signals
  <2>2. Debt = 0 /\ parent.todo = NoBytes
    BY DEF Init, Debt, NoBytes, Bit
  <2> QED
    BY <2>1, <2>2, DebtCreditTypes DEF ReapInv, ReapBacked, TodoHandled
<1>2. TypeOK' /\ ReapInv /\ [Next]_vars => ReapInv'
  <2> SUFFICES ASSUME TypeOK', ReapInv, [Next]_vars PROVE ReapInv'
    OBVIOUS
  <2>1. CASE UNCHANGED vars
    BY <2>1 DEF ReapInv, ReapBacked, Debt, Credit, Zombies, GarbageReaped,
                TodoHandled, vars
  <2>2. CASE Next
    BY <2>2, EnvReap, ParentReap, ChildReap, ParentSignalReap DEF Next
  <2> QED
    BY <2>1, <2>2
<1> QED
  BY <1>1, <1>2, TypeCorrect, PTL DEF Spec

(* Every SIGCHLD byte of the parent is backed by a child to reap: for any    *)
(* number of children, any order of deaths, signals and reads, and whatever  *)
(* the uninitialised pid holds.                                              *)
THEOREM ReapIsBacked == Spec => []ReapBacked
<1>1. ReapInv => ReapBacked
  BY DEF ReapInv
<1> QED
  BY <1>1, ReapInvHolds, PTL

(* The loop of line 336 never spins, although it tests pid before anything   *)
(* is assigned to it.                                                        *)
THEOREM NeverBusyReap == Spec => []NoBusyReap
<1>1. ReapInv => NoBusyReap
  <2> SUFFICES ASSUME ReapInv, parent.todo.chld > 0, pid \in {0, -1}, Zombies = {}
               PROVE  FALSE
    BY DEF NoBusyReap
  <2>1. ~GarbageReaped
    BY ChildrenFacts DEF GarbageReaped
  <2>2. Credit = 0
    BY <2>1, FS_EmptySet DEF Credit, Bit
  <2>3. Debt > 0
    BY DEF ReapInv, Debt, TypeOK, Parents, Bytes, Bit
  <2> QED
    BY <2>2, <2>3, DebtCreditTypes DEF ReapInv, ReapBacked
<1> QED
  BY <1>1, ReapInvHolds, PTL

-----------------------------------------------------------------------------
(* The pipes: what travels from the parent's listener through them to        *)
(* accept, whose turn it is, the reaping of CGI programs, and the children   *)
(* the parent has marked.  What the invariant says of a child depends on     *)
(* little of its state (Same); most steps leave that alone or end the child. *)

InReady(i) == "pipe" \in child[i].ready
InBatch(i) == "pipe" \in child[i].batch

(* Of each child: its pipe is no fuller than it may be; it has events only   *)
(* while it serves, and handles all of a batch before it waits; every event  *)
(* has its message, a full pipe an event, a SIGCHLD a CGI program to reap.   *)
ChildOK(i) ==
    /\ Cardinality(Inbox(i)) <= PipeCap
    /\ i \notin Listening => ~InReady(i) /\ ~InBatch(i)
    /\ child[i].pc = "wait" => ~InBatch(i)
    /\ ~child[i].hup => Bit(InReady(i)) + Bit(InBatch(i)) <= Cardinality(Inbox(i))
    /\ i \in Listening /\ Cardinality(Inbox(i)) >= PipeCap => InReady(i) \/ InBatch(i)
    /\ Bit("chld" \in child[i].pend) + child[i].bytes.chld <= child[i].zomb + Bit(child[i].same)

Numbered == IsFiniteSet(msgs) /\ \A m \in msgs : m[2] <= parent.sent

\* The parent has no events of the listener before it serves, and none left
\* when it waits.
ParentOK ==
    /\ parent.pc = "fork" => /\ msgs = {}
                             /\ "listen" \notin parent.ready \union parent.batch
    /\ parent.pc = "wait" => "listen" \notin parent.batch

PipeInv ==
    /\ Numbered /\ ParentOK /\ RoundRobin /\ AcceptBacked
    /\ \A i \in Children : ChildOK(i)

-----------------------------------------------------------------------------
(* What a step may leave alone.                                              *)

Same(j) ==
    /\ child'[j].pc = child[j].pc
    /\ InReady(j)' <=> InReady(j)
    /\ InBatch(j)' <=> InBatch(j)
    /\ child[j].hup => child'[j].hup
    /\ "chld" \in child'[j].pend <=> "chld" \in child[j].pend
    /\ child'[j].bytes.chld = child[j].bytes.chld
    /\ child'[j].zomb = child[j].zomb /\ child'[j].same = child[j].same

Ended(j) ==
    /\ child'[j].pc \notin {"wait", "batch"}
    /\ ~InReady(j)' /\ ~InBatch(j)'
    /\ "chld" \notin child'[j].pend
    /\ child'[j].bytes.chld = 0 /\ child'[j].zomb = 0 /\ ~child'[j].same

ParentSame ==
    /\ parent'.pc = parent.pc \/ parent'.pc = "exit"
    /\ "listen" \in parent'.ready <=> "listen" \in parent.ready
    /\ "listen" \in parent'.batch <=> "listen" \in parent.batch
    /\ parent'.sent = parent.sent
    /\ parent'.sub_process_counter = parent.sub_process_counter

LEMMA InboxFinite ==
    ASSUME Numbered, NEW j
    PROVE  IsFiniteSet(Inbox(j)) /\ Cardinality(Inbox(j)) \in Nat
BY FS_Subset, FS_CardinalityType DEF Numbered, Inbox

LEMMA SameKeeps ==
    ASSUME NEW j \in Children, ChildOK(j), Same(j), Inbox(j)' = Inbox(j),
           child[j].hup \in BOOLEAN, child'[j].hup \in BOOLEAN
    PROVE  ChildOK(j)'
BY DEF ChildOK, Same, Listening, InReady, InBatch

LEMMA EndedKeeps ==
    ASSUME Numbered, NEW j \in Children, ChildOK(j), Ended(j), Inbox(j)' \subseteq Inbox(j)
    PROVE  ChildOK(j)'
<1>1. /\ Cardinality(Inbox(j)') \in Nat /\ Cardinality(Inbox(j)) \in Nat
      /\ Cardinality(Inbox(j)') <= Cardinality(Inbox(j))
  BY InboxFinite, FS_Subset, FS_CardinalityType
<1>2. Cardinality(Inbox(j)') <= PipeCap
  BY <1>1, BoundAssumption DEF ChildOK
<1>3. j \notin Listening'
  BY DEF Ended, Listening
<1> QED
  BY <1>1, <1>2, <1>3 DEF ChildOK, Ended, Bit

(* Fewer messages, and the parent's events as they were.                     *)
LEMMA Aside ==
    ASSUME TypeOK, PipeInv, ParentSame, msgs' \subseteq msgs, backlog' = backlog,
           \A j \in Children : ChildOK(j)'
    PROVE  PipeInv'
<1>1. Numbered' /\ Cardinality(msgs') <= Cardinality(msgs)
      /\ Cardinality(msgs') \in Nat /\ Cardinality(msgs) \in Nat
  BY FS_Subset, FS_CardinalityType DEF PipeInv, Numbered, ParentSame
<1>2. ParentOK'
  BY DEF PipeInv, ParentOK, ParentSame
<1>3. RoundRobin'
  BY DEF PipeInv, RoundRobin, ParentSame
<1>4. AcceptBacked'
  BY <1>1 DEF PipeInv, AcceptBacked, ParentSame, Bit, TypeOK
<1> QED
  BY <1>1, <1>2, <1>3, <1>4 DEF PipeInv

LEMMA InboxKept ==
    ASSUME msgs' = msgs, NEW j
    PROVE  Inbox(j)' = Inbox(j)
BY DEF Inbox

LEMMA DeadState ==
    ASSUME NEW c \in ChildStates
    PROVE  /\ Dead(c).pc = "zombie" /\ Dead(c).ready = {} /\ Dead(c).batch = {}
           /\ Dead(c).pend = {} /\ Dead(c).bytes.chld = 0 /\ Dead(c).zomb = 0 /\ ~Dead(c).same
<1>1. /\ Dead(c).pc = "zombie" /\ Dead(c).ready = {} /\ Dead(c).batch = {}
      /\ Dead(c).pend = {} /\ Dead(c).bytes = NoBytes /\ Dead(c).zomb = 0 /\ ~Dead(c).same
  BY DEF Dead, ChildStates
<1> QED
  BY <1>1 DEF NoBytes

(* A child that dies loses its state and its messages; others may have a     *)
(* SIGTERM pending.                                                          *)
LEMMA StrikeKeeps ==
    ASSUME TypeOK, TypeOK', PipeInv, NEW D \in SUBSET Children, NEW T \in SUBSET Children,
           Strike(D, T)
    PROVE  msgs' \subseteq msgs /\ \A j \in Children : ChildOK(j)'
<1>1. msgs' \subseteq msgs
  BY DEF Strike
<1>2. SUFFICES ASSUME NEW j \in Children PROVE ChildOK(j)'
  BY <1>1
<1>3. child[j] \in ChildStates /\ child'[j] \in ChildStates /\ ChildOK(j)
  BY DEF TypeOK, PipeInv
<1>4. Inbox(j)' \subseteq Inbox(j)
  BY <1>1 DEF Inbox
<1>5. CASE j \in D
  <2>1. child'[j] = Dead(child[j])
    BY <1>5 DEF Strike
  <2>2. Ended(j)
    BY <1>3, <2>1, DeadState DEF Ended, InReady, InBatch
  <2> QED
    BY <1>3, <1>4, <2>2, EndedKeeps DEF PipeInv
<1>6. CASE j \notin D
  <2>1. child'[j] = IF j \in T THEN [child[j] EXCEPT !.pend = @ \union {"term"}]
                    ELSE child[j]
    BY <1>6 DEF Strike
  <2>2. Same(j)
    BY <1>3, <2>1 DEF Same, ChildStates, InReady, InBatch
  <2>3. Inbox(j)' = Inbox(j)
    BY <1>6 DEF Strike, Inbox
  <2> QED
    BY <1>3, <2>2, <2>3, SameKeeps DEF ChildStates
<1> QED
  BY <1>5, <1>6

(* A step of one child leaves what is to be known of the others.             *)
LEMMA OthersKept ==
    ASSUME TypeOK, TypeOK', PipeInv, NEW i,
           \A j \in Children : j # i => child'[j] = child[j],
           \A m \in msgs : m[1] # i => m \in msgs',
           \A m \in msgs' : m[1] # i => m \in msgs
    PROVE  \A j \in Children : j # i => ChildOK(j)'
<1> SUFFICES ASSUME NEW j \in Children, j # i PROVE ChildOK(j)'
  OBVIOUS
<1>1. Same(j) /\ ChildOK(j)
  BY DEF Same, InReady, InBatch, PipeInv
<1>2. Inbox(j)' = Inbox(j)
  BY DEF Inbox
<1>3. child[j].hup \in BOOLEAN /\ child'[j].hup \in BOOLEAN
  BY DEF TypeOK, ChildStates
<1> QED
  BY <1>1, <1>2, <1>3, SameKeeps

LEMMA ParentUntouched ==
    ASSUME parent' = parent
    PROVE  ParentSame
BY DEF ParentSame

LEMMA DiesKeeps ==
    ASSUME TypeOK, TypeOK', PipeInv, NEW i \in Children, Dies(i), backlog' = backlog
    PROVE  PipeInv'
<1>1. Strike({i}, {}) /\ {i} \in SUBSET Children /\ {} \in SUBSET Children
  BY DEF Dies
<1>2. ParentSame
  BY DEF Dies, ParentSame, TypeOK, Parents
<1>3. msgs' \subseteq msgs /\ \A j \in Children : ChildOK(j)'
  BY <1>1, StrikeKeeps
<1> QED
  BY <1>2, <1>3, Aside

-----------------------------------------------------------------------------
(* The environment.                                                          *)

LEMMA ConnectKeeps ==
    ASSUME TypeOK, TypeOK', PipeInv, ClientConnect
    PROVE  PipeInv'
<1>1. /\ parent'.pc = parent.pc /\ parent'.batch = parent.batch
      /\ parent'.sent = parent.sent
      /\ parent'.sub_process_counter = parent.sub_process_counter
      /\ ~Handling => parent' = parent
      /\ msgs' = msgs /\ child' = child /\ backlog' = backlog + 1
  BY DEF ClientConnect, TypeOK, Parents
<1>2. ParentOK'
  BY <1>1 DEF PipeInv, ParentOK, Handling
<1>3. Numbered' /\ RoundRobin'
  BY <1>1 DEF PipeInv, Numbered, RoundRobin
<1>4. AcceptBacked'
  <2>1. Cardinality(msgs) \in Nat
    BY FS_CardinalityType DEF PipeInv, Numbered
  <2> QED
    BY <1>1, <2>1 DEF PipeInv, AcceptBacked, Bit, TypeOK
<1>5. \A j \in Children : ChildOK(j)'
  BY <1>1 DEF PipeInv, ChildOK, Inbox, Listening, InReady, InBatch
<1> QED
  BY <1>2, <1>3, <1>4, <1>5 DEF PipeInv

LEMMA CgiExitKeeps ==
    ASSUME TypeOK, TypeOK', PipeInv, NEW i \in Children, CgiExit(i)
    PROVE  PipeInv'
<1>1. /\ \A j \in Children : j # i => child'[j] = child[j]
      /\ msgs' \subseteq msgs /\ \A m \in msgs : m[1] # i => m \in msgs'
      /\ parent' = parent /\ backlog' = backlog
  BY DEF CgiExit, TypeOK, Inbox
<1>2. child[i] \in ChildStates /\ child'[i] \in ChildStates /\ ChildOK(i)
  BY DEF TypeOK, PipeInv
<1>3. CASE Alive(i)
  <2>1. msgs' = msgs /\ child'[i] = [child[i] EXCEPT !.cgi = @ - 1, !.zomb = @ + 1,
                                                     !.pend = @ \union {"chld"}]
    BY <1>3 DEF CgiExit, TypeOK
  <2>2. /\ child'[i].pc = child[i].pc /\ child'[i].ready = child[i].ready
        /\ child'[i].batch = child[i].batch /\ child'[i].hup = child[i].hup
        /\ child'[i].bytes = child[i].bytes /\ child'[i].zomb = child[i].zomb + 1
        /\ child'[i].same = child[i].same
        /\ child[i].zomb \in Nat /\ child[i].bytes.chld \in Nat
    BY <1>2, <2>1 DEF ChildStates, Bytes
  <2>3. Inbox(i)' = Inbox(i)
    BY <2>1 DEF Inbox
  <2>4. Bit("chld" \in child'[i].pend) <= Bit("chld" \in child[i].pend) + 1
    BY DEF Bit
  <2>5. Bit("chld" \in child'[i].pend) \in Nat /\ Bit("chld" \in child[i].pend) \in Nat
    BY DEF Bit
  <2>7. Bit("chld" \in child'[i].pend) + child'[i].bytes.chld
            <= child'[i].zomb + Bit(child'[i].same)
    <3>1. Bit(child[i].same) \in Nat
      BY DEF Bit
    <3>2. Bit("chld" \in child[i].pend) + child[i].bytes.chld
            <= child[i].zomb + Bit(child[i].same)
      BY <1>2 DEF ChildOK
    <3> QED
      BY <2>2, <2>4, <2>5, <3>1, <3>2
  <2>6. ChildOK(i)'
    BY <1>2, <2>2, <2>3, <2>7 DEF ChildOK, Listening, InReady, InBatch
  <2> QED
    BY <1>1, <2>6, OthersKept, ParentUntouched, Aside
<1>4. CASE ~Alive(i)
  <2>1. child'[i] = [child[i] EXCEPT !.cgi = @ - 1]
    BY <1>4 DEF CgiExit, TypeOK
  <2>2. Same(i) /\ child'[i].hup = child[i].hup
    BY <1>2, <2>1 DEF Same, ChildStates, InReady, InBatch
  <2>3. Inbox(i)' \subseteq Inbox(i) /\ i \notin Listening
    BY <1>1, <1>4 DEF Inbox, Alive, Listening
  <2>4. /\ Cardinality(Inbox(i)') \in Nat /\ Cardinality(Inbox(i)) \in Nat
        /\ Cardinality(Inbox(i)') <= Cardinality(Inbox(i))
    BY <2>3, InboxFinite, FS_Subset, FS_CardinalityType DEF PipeInv
  <2>5. i \notin Listening' /\ Cardinality(Inbox(i)') <= PipeCap
    BY <1>2, <2>2, <2>3, <2>4, BoundAssumption DEF Listening, Same, ChildOK
  <2>6. ChildOK(i)'
    BY <1>2, <2>2, <2>3, <2>4, <2>5 DEF ChildOK, Same, Listening, Bit
  <2> QED
    BY <1>1, <2>6, OthersKept, ParentUntouched, Aside
<1> QED
  BY <1>3, <1>4

LEMMA EnvKeeps ==
    ASSUME TypeOK, TypeOK', PipeInv, EnvStep
    PROVE  PipeInv'
<1>1. ASSUME NEW group \in BOOLEAN, OperatorSignal(group)
      PROVE  PipeInv'
  <2> DEFINE D == IF group THEN Defenceless ELSE {}
             T == IF group THEN Listening ELSE {}
  <2>1. D \in SUBSET Children /\ T \in SUBSET Children
    BY DEF Defenceless, Listening
  <2>2. Strike(D, T) /\ backlog' = backlog
    BY <1>1 DEF OperatorSignal
  <2>3. ParentSame
    BY <1>1 DEF OperatorSignal, ParentSame, TypeOK, Parents
  <2> HIDE DEF D, T
  <2>4. msgs' \subseteq msgs /\ \A j \in Children : ChildOK(j)'
    BY <2>1, <2>2, StrikeKeeps
  <2> QED
    BY <2>2, <2>3, <2>4, Aside
<1>2. ASSUME NEW i \in Children, ClientSend(i)
      PROVE  PipeInv'
  <2>1. /\ \A j \in Children : j # i => child'[j] = child[j]
        /\ parent' = parent /\ backlog' = backlog /\ msgs' = msgs
        /\ child'[i] = [child[i] EXCEPT !.ready = @ \union {"conn"}]
    BY <1>2 DEF ClientSend, TypeOK
  <2>2. Same(i) /\ child[i].hup \in BOOLEAN /\ child'[i].hup \in BOOLEAN
    BY <2>1 DEF Same, TypeOK, ChildStates, InReady, InBatch
  <2>3. ChildOK(i)'
    BY <2>1, <2>2, InboxKept, SameKeeps DEF PipeInv
  <2> QED
    BY <2>1, <2>3, OthersKept, ParentUntouched, Aside
<1>3. ASSUME NEW i \in Children, Crash(i)
      PROVE  PipeInv'
  BY <1>3, DiesKeeps DEF Crash
<1>4. ASSUME NEW i \in Children, PipeHangup(i)
      PROVE  PipeInv'
  <2> DEFINE r == IF i \in Listening THEN child[i].ready \union {"pipe"}
                  ELSE child[i].ready
  <2>1. /\ \A j \in Children : j # i => child'[j] = child[j]
        /\ parent' = parent /\ backlog' = backlog /\ msgs' = msgs
        /\ child'[i] = [child[i] EXCEPT !.hup = TRUE, !.ready = r]
    BY <1>4 DEF PipeHangup, TypeOK
  <2>2. child[i] \in ChildStates /\ ChildOK(i)
    BY DEF TypeOK, PipeInv
  <2> HIDE DEF r
  <2>3. /\ child'[i].pc = child[i].pc /\ child'[i].batch = child[i].batch
        /\ child'[i].pend = child[i].pend /\ child'[i].bytes = child[i].bytes
        /\ child'[i].zomb = child[i].zomb /\ child'[i].same = child[i].same /\ child'[i].hup /\ child'[i].ready = r
    BY <2>1, <2>2 DEF ChildStates
  <2>4. Inbox(i)' = Inbox(i)
    BY <2>1, InboxKept
  <2>5. /\ i \notin Listening => r = child[i].ready
        /\ InReady(i) => "pipe" \in r
    BY DEF r, InReady
  <2>6. ChildOK(i)'
    BY <2>2, <2>3, <2>4, <2>5 DEF ChildOK, Listening, InReady, InBatch
  <2> QED
    BY <2>1, <2>6, OthersKept, ParentUntouched, Aside
<1> QED
  BY <1>1, <1>2, <1>3, <1>4, ConnectKeeps, CgiExitKeeps DEF EnvStep

-----------------------------------------------------------------------------
(* The parent.                                                               *)

(* A step of the parent that uses up events of the listener, if any.         *)
LEMMA ParentMoves ==
    ASSUME TypeOK, TypeOK', PipeInv, ParentOK', msgs' = msgs, backlog' = backlog,
           parent'.sent = parent.sent,
           parent'.sub_process_counter = parent.sub_process_counter,
           Bit("listen" \in parent'.ready) + Bit("listen" \in parent'.batch)
               <= Bit("listen" \in parent.ready) + Bit("listen" \in parent.batch),
           \A j \in Children : ChildOK(j)'
    PROVE  PipeInv'
<1>1. Numbered' /\ RoundRobin'
  BY DEF PipeInv, Numbered, RoundRobin
<1>2. /\ Cardinality(msgs) \in Nat
      /\ Bit("listen" \in parent'.ready) \in Nat /\ Bit("listen" \in parent'.batch) \in Nat
      /\ Bit("listen" \in parent.ready) \in Nat /\ Bit("listen" \in parent.batch) \in Nat
  BY FS_CardinalityType DEF PipeInv, Numbered, Bit
<1>3. AcceptBacked'
  BY <1>2 DEF PipeInv, AcceptBacked, TypeOK
<1> QED
  BY <1>1, <1>3 DEF PipeInv

LEMMA ChildrenUntouched ==
    ASSUME PipeInv, child' = child, msgs' = msgs
    PROVE  \A j \in Children : ChildOK(j)'
BY DEF PipeInv, ChildOK, Inbox, Listening, InReady, InBatch

LEMMA DivMod ==
    ASSUME NEW a \in Nat, NEW n \in Nat \ {0}
    PROVE  /\ a = (a \div n) * n + (a % n)
           /\ a \div n \in Nat /\ a % n \in 0 .. n - 1
OBVIOUS

\* A number has one quotient and one remainder.
LEMMA Remainder ==
    ASSUME NEW n \in Nat \ {0}, NEW q \in Nat, NEW r \in 0 .. n - 1
    PROVE  (q * n + r) % n = r
<1> DEFINE a == q * n + r
           d == q - (a \div n)
<1>1. a \in Int /\ a = (a \div n) * n + (a % n) /\ a \div n \in Int /\ a % n \in 0 .. n - 1
  <2>1. a \in Nat
    OBVIOUS
  <2> HIDE DEF a
  <2> QED
    BY <2>1, DivMod
<1>2. d \in Int /\ d * n = (a % n) - r
  BY <1>1
<1>3. (a % n) - r < n /\ (a % n) - r > -n
  BY <1>1
<1> HIDE DEF a, d
<1>4. ~(d >= 1)
  <2>1. ASSUME d >= 1 PROVE d * n >= n
    <3>1. (d - 1) * n >= 0
      BY <1>2, <2>1
    <3>2. d * n = (d - 1) * n + n
      BY <1>2
    <3> QED
      BY <1>2, <3>1, <3>2
  <2> QED
    BY <1>1, <1>2, <1>3, <2>1
<1>5. ~(d <= -1)
  <2>1. ASSUME d <= -1 PROVE d * n <= -n
    <3>1. (-1 - d) * n >= 0
      BY <1>2, <2>1
    <3>2. (-1 - d) * n = -n - d * n
      BY <1>2
    <3> QED
      BY <1>2, <3>1, <3>2
  <2> QED
    BY <1>1, <1>2, <1>3, <2>1
<1>6. d = 0
  BY <1>2, <1>4, <1>5
<1>7. a % n = r
  BY <1>1, <1>2, <1>6
<1> QED
  BY <1>7 DEF a

\* The successor of the k-th turn is that of turn k + 1.
LEMMA NextTurn ==
    ASSUME NEW k \in Nat
    PROVE  Successor(k % N) = (k + 1) % N
<1>1. N \in Nat \ {0}
  BY NAssumption
<1>2. k = (k \div N) * N + (k % N) /\ k \div N \in Nat /\ k % N \in 0 .. N - 1
  BY <1>1, DivMod
<1> DEFINE q == k \div N
           r == k % N
<1>3. q \in Nat /\ r \in 0 .. N - 1 /\ k = q * N + r
  BY <1>2
<1> HIDE DEF q, r
<1>4. CASE r + 1 < N
  <2>1. (k + 1) = q * N + (r + 1) /\ r + 1 \in 0 .. N - 1
    BY <1>1, <1>3, <1>4
  <2>2. (k + 1) % N = r + 1 /\ (r + 1) % N = r + 1
    BY <1>1, <1>3, <2>1, Remainder
  <2> QED
    BY <2>2 DEF Successor, r
<1>5. CASE r + 1 = N
  <2>1. k + 1 = (q + 1) * N + 0
    BY <1>1, <1>3, <1>5
  <2>2. (k + 1) % N = 0 /\ (r + 1) % N = 0
    BY <1>1, <1>3, <1>5, <2>1, Remainder
  <2> QED
    BY <2>2 DEF Successor, r
<1> QED
  BY <1>1, <1>3, <1>4, <1>5

(* The parent tells the next child in turn of one connection (lines 299 to   *)
(* 314).                                                                     *)
LEMMA DispatchKeeps ==
    ASSUME TypeOK, TypeOK', PipeInv, Dispatch
    PROVE  PipeInv'
<1>0. PICK i \in Children : i = parent.sub_process_counter
  BY DEF TypeOK, Parents
<1>a. PICK new : new = <<i, parent.sent + 1>>
  OBVIOUS
<1>1. /\ parent.sent \in Nat /\ "listen" \in parent.batch
      /\ PipeOpen(i) => Cardinality(Inbox(i)) < PipeCap
      /\ backlog' = backlog /\ parent.pc = "batch"
  BY <1>0 DEF Dispatch, TypeOK, Parents
<1>2. /\ parent'.pc = "batch" /\ parent'.ready = parent.ready
      /\ parent'.batch = parent.batch \ {"listen"} /\ parent'.sent = parent.sent + 1
      /\ parent'.sub_process_counter = Successor(i)
  BY <1>0 DEF Dispatch, TypeOK, Parents
<1>3. msgs' = IF PipeOpen(i) THEN msgs \union {new} ELSE msgs
  BY <1>0, <1>a DEF Dispatch
<1>4. /\ \A j \in Children : j # i => child'[j] = child[j]
      /\ child'[i] = IF i \in Listening
                     THEN [child[i] EXCEPT !.ready = @ \union {"pipe"}] ELSE child[i]
  BY <1>0 DEF Dispatch, TypeOK
<1>5. i \in Listening => PipeOpen(i)
  BY DEF Listening, PipeOpen, Alive
<1>6. new \notin msgs /\ new[1] = i /\ new[2] = parent.sent + 1
  BY <1>0, <1>1, <1>a DEF PipeInv, Numbered
<1>7. Numbered' /\ Cardinality(msgs') <= Cardinality(msgs) + 1
      /\ Cardinality(msgs) \in Nat /\ Cardinality(msgs') \in Nat
  <2>1. IsFiniteSet(msgs) /\ IsFiniteSet(msgs \union {new})
        /\ Cardinality(msgs \union {new}) = Cardinality(msgs) + 1
    BY <1>6, FS_AddElement DEF PipeInv, Numbered
  <2>2. \A m \in msgs : m[2] <= parent.sent + 1
    BY <1>1 DEF PipeInv, Numbered, TypeOK
  <2> QED
    BY <1>1, <1>2, <1>3, <1>6, <2>1, <2>2, FS_CardinalityType DEF Numbered
<1>8. ParentOK'
  BY <1>2 DEF ParentOK
<1>9. RoundRobin'
  <2>1. i = parent.sent % N /\ \A m \in msgs : m[1] = (m[2] - 1) % N
    BY <1>0 DEF PipeInv, RoundRobin
  <2>2. (parent.sent + 1) - 1 = parent.sent
    BY <1>1
  <2>3. new[1] = (new[2] - 1) % N
    BY <1>6, <2>1, <2>2
  <2>4. Successor(i) = (parent.sent + 1) % N
    BY <1>1, <2>1, NextTurn
  <2> QED
    BY <1>2, <1>3, <2>1, <2>3, <2>4 DEF RoundRobin
<1>10. AcceptBacked'
  BY <1>1, <1>2, <1>7 DEF PipeInv, AcceptBacked, Bit, TypeOK
<1>11. \A j \in Children : j # i => ChildOK(j)'
  BY <1>3, <1>4, <1>6, OthersKept
<1>12. ChildOK(i)'
  <2>1. child[i] \in ChildStates /\ ChildOK(i)
    BY <1>1 DEF TypeOK, PipeInv
  <2>2. /\ child'[i].pc = child[i].pc /\ child'[i].batch = child[i].batch
        /\ child'[i].hup = child[i].hup /\ child'[i].pend = child[i].pend
        /\ child'[i].bytes = child[i].bytes /\ child'[i].zomb = child[i].zomb /\ child'[i].same = child[i].same
        /\ child'[i].ready = IF i \in Listening THEN child[i].ready \union {"pipe"}
                             ELSE child[i].ready
    BY <1>4, <2>1 DEF ChildStates
  <2>3. i \in Listening' <=> i \in Listening
    BY <2>2 DEF Listening
  <2>4. IsFiniteSet(Inbox(i)) /\ Cardinality(Inbox(i)) \in Nat
    BY InboxFinite DEF PipeInv
  <2>5. CASE PipeOpen(i)
    <3>1. Inbox(i)' = Inbox(i) \union {new} /\ new \notin Inbox(i)
      BY <1>3, <1>6, <2>5 DEF Inbox
    <3>2. Cardinality(Inbox(i)') = Cardinality(Inbox(i)) + 1
      BY <2>4, <3>1, FS_AddElement
    <3>3. Cardinality(Inbox(i)') <= PipeCap
      BY <1>1, <2>4, <2>5, <3>2, BoundAssumption
    <3> QED
      BY <2>1, <2>2, <2>3, <2>4, <3>2, <3>3 DEF ChildOK, InReady, InBatch, Bit
  <2>6. CASE ~PipeOpen(i)
    <3>1. Inbox(i)' = Inbox(i)
      BY <1>3, <2>6 DEF Inbox
    <3> QED
      BY <1>5, <2>1, <2>2, <2>3, <2>6, <3>1 DEF ChildOK, InReady, InBatch
  <2> QED
    BY <2>5, <2>6
<1> QED
  BY <1>7, <1>8, <1>9, <1>10, <1>11, <1>12 DEF PipeInv

LEMMA ParentKeeps ==
    ASSUME TypeOK, TypeOK', PipeInv, ParentStep
    PROVE  PipeInv'
<1>1. ASSUME NEW i \in Children, Fork(i)
      PROVE  PipeInv'
  <2>1. /\ \A j \in Children : j # i => child'[j] = child[j]
        /\ parent' = parent /\ backlog' = backlog /\ msgs' = msgs
        /\ child'[i] = [child[i] EXCEPT !.pc = "setup"] /\ child[i].pc = "none"
    BY <1>1 DEF Fork, TypeOK
  <2>2. child[i] \in ChildStates /\ ChildOK(i)
    BY DEF TypeOK, PipeInv
  <2>3. /\ child'[i].pc = "setup" /\ child'[i].ready = child[i].ready
        /\ child'[i].batch = child[i].batch /\ child'[i].hup = child[i].hup
        /\ child'[i].pend = child[i].pend /\ child'[i].bytes = child[i].bytes
        /\ child'[i].zomb = child[i].zomb /\ child'[i].same = child[i].same
    BY <2>1, <2>2 DEF ChildStates
  <2>4. ChildOK(i)'
    BY <2>1, <2>2, <2>3, InboxKept DEF ChildOK, Listening, InReady, InBatch
  <2> QED
    BY <2>1, <2>4, OthersKept, ParentUntouched, Aside
<1>2. CASE ParentSetup
  <2>1. /\ parent.pc = "fork" /\ parent'.pc = "wait" /\ parent'.batch = parent.batch
        /\ parent'.ready = IF backlog > 0 THEN {"listen"} ELSE {}
        /\ parent'.sent = parent.sent
        /\ parent'.sub_process_counter = parent.sub_process_counter
        /\ msgs' = msgs /\ child' = child /\ backlog' = backlog
    BY <1>2 DEF ParentSetup, TypeOK, Parents
  <2>2. msgs = {} /\ "listen" \notin parent.batch
    BY <2>1 DEF PipeInv, ParentOK
  <2>3. ParentOK' /\ Numbered' /\ RoundRobin'
    BY <2>1, <2>2 DEF PipeInv, ParentOK, Numbered, RoundRobin
  <2>4. AcceptBacked'
    BY <2>1, <2>2, FS_EmptySet DEF AcceptBacked, Bit, TypeOK
  <2> QED
    BY <2>1, <2>3, <2>4, ChildrenUntouched DEF PipeInv
<1>3. CASE ParentWake
  <2>1. /\ parent.pc = "wait" /\ parent'.pc = "batch" /\ parent'.ready = {}
        /\ parent'.batch = parent.ready /\ parent'.sent = parent.sent
        /\ parent'.sub_process_counter = parent.sub_process_counter
        /\ msgs' = msgs /\ child' = child /\ backlog' = backlog
    BY <1>3 DEF ParentWake, TypeOK, Parents
  <2>2. ParentOK'
    BY <2>1 DEF ParentOK
  <2> QED
    BY <2>1, <2>2, ChildrenUntouched, ParentMoves DEF Bit
<1>4. CASE ParentBatchEnd
  <2>1. /\ parent.pc = "batch" /\ parent'.pc \in {"wait", "exit"}
        /\ parent.batch = {} /\ parent'.batch = {} /\ parent'.ready = parent.ready
        /\ parent'.sent = parent.sent
        /\ parent'.sub_process_counter = parent.sub_process_counter
        /\ msgs' = msgs /\ child' = child /\ backlog' = backlog
    BY <1>4 DEF ParentBatchEnd, TypeOK, Parents
  <2>2. ParentOK'
    BY <2>1 DEF ParentOK
  <2> QED
    BY <2>1, <2>2, ChildrenUntouched, ParentMoves DEF Bit
<1>5. CASE DispatchStop
  <2>1. /\ parent.pc = "batch" /\ parent'.pc = "batch"
        /\ parent'.batch = {} /\ parent'.ready = parent.ready
        /\ parent'.sent = parent.sent
        /\ parent'.sub_process_counter = parent.sub_process_counter
        /\ msgs' = msgs /\ child' = child /\ backlog' = backlog
    BY <1>5 DEF DispatchStop, TypeOK, Parents
  <2>2. ParentOK'
    BY <2>1 DEF ParentOK
  <2> QED
    BY <2>1, <2>2, ChildrenUntouched, ParentMoves DEF Bit
<1>6. CASE ParentReadSignals
  <2>1. /\ parent.pc = "batch" /\ parent'.pc = "sigs"
        /\ parent'.batch = parent.batch \ {"sig"} /\ parent'.ready = parent.ready \ {"sig"}
        /\ parent'.sent = parent.sent
        /\ parent'.sub_process_counter = parent.sub_process_counter
        /\ msgs' = msgs /\ child' = child /\ backlog' = backlog
    BY <1>6 DEF ParentReadSignals, TypeOK, Parents
  <2>2. ParentOK'
    BY <2>1 DEF ParentOK
  <2> QED
    BY <2>1, <2>2, ChildrenUntouched, ParentMoves DEF Bit
<1>7. CASE SignalsDone
  <2>1. /\ parent.pc = "sigs" /\ parent'.pc = "batch"
        /\ parent'.batch = parent.batch /\ parent'.ready = parent.ready
        /\ parent'.sent = parent.sent
        /\ parent'.sub_process_counter = parent.sub_process_counter
        /\ msgs' = msgs /\ child' = child /\ backlog' = backlog
    BY <1>7 DEF SignalsDone, TypeOK, Parents
  <2>2. ParentOK'
    BY <2>1 DEF ParentOK
  <2>3. Bit("listen" \in parent'.ready) + Bit("listen" \in parent'.batch)
          <= Bit("listen" \in parent.ready) + Bit("listen" \in parent.batch)
    BY <2>1 DEF Bit
  <2> QED
    BY <2>1, <2>2, <2>3, ChildrenUntouched, ParentMoves
<1>8. CASE Reap
  <2>1. /\ parent'.pc = parent.pc /\ parent'.ready = parent.ready
        /\ parent'.batch = parent.batch /\ parent'.sent = parent.sent
        /\ parent'.sub_process_counter = parent.sub_process_counter
        /\ msgs' = msgs /\ backlog' = backlog
    <3>1. parent \in Parents
      BY DEF TypeOK
    <3>2. /\ \/ parent' = parent
             \/ parent' = [parent EXCEPT !.m_stop = AllJoined, !.todo.chld = @ - 1]
          /\ msgs' = msgs /\ backlog' = backlog
      BY <1>8 DEF Reap
    <3>3. CASE parent' = parent
      BY <3>2, <3>3
    <3>4. CASE parent' = [parent EXCEPT !.m_stop = AllJoined, !.todo.chld = @ - 1]
      BY <3>1, <3>2, <3>4 DEF Parents
    <3> QED
      BY <3>2, <3>3, <3>4
  <2>2. ASSUME NEW j \in Children PROVE ChildOK(j)'
    <3>1. child[j] \in ChildStates /\ ChildOK(j) /\ Inbox(j)' = Inbox(j)
      BY <2>1, InboxKept DEF TypeOK, PipeInv
    <3>2. \/ child'[j] = child[j]
          \/ child[j].pc = "zombie" /\ child'[j] = [child[j] EXCEPT !.pc = "gone"]
      <4>1. PICK r \in WaitPid :
              child' = [i \in Children |-> IF i \in ReapedBy(r)
                            THEN [child[i] EXCEPT !.pc = "gone"] ELSE child[i]]
        BY <1>8 DEF Reap
      <4>2. j \in ReapedBy(r) => child[j].pc = "zombie"
        <5>1. CASE Zombies = {}
          BY <5>1, ChildrenFacts DEF WaitPid, ReapedBy
        <5>2. CASE Zombies # {}
          <6>1. PICK z \in Zombies : r = Pid(z)
            BY <5>2 DEF WaitPid
          <6>2. j \in ReapedBy(r) => j = z
            BY <6>1 DEF ReapedBy, Pid, Children, Zombies
          <6> QED
            BY <6>1, <6>2 DEF Zombies
        <5> QED
          BY <5>1, <5>2
      <4> QED
        BY <4>1, <4>2
    <3>3. CASE child'[j] = child[j]
      BY <3>1, <3>3 DEF ChildOK, Listening, InReady, InBatch
    <3>4. CASE child[j].pc = "zombie" /\ child'[j] = [child[j] EXCEPT !.pc = "gone"]
      <4>1. /\ child'[j].pc = "gone" /\ child'[j].ready = child[j].ready
            /\ child'[j].batch = child[j].batch /\ child'[j].hup = child[j].hup
            /\ child'[j].pend = child[j].pend /\ child'[j].bytes = child[j].bytes
            /\ child'[j].zomb = child[j].zomb /\ child'[j].same = child[j].same
        BY <3>1, <3>4 DEF ChildStates
      <4> QED
        BY <3>1, <3>4, <4>1 DEF ChildOK, Listening, InReady, InBatch
    <3> QED
      BY <3>2, <3>3, <3>4
  <2>3. ParentSame
    BY <2>1 DEF ParentSame
  <2> QED
    BY <2>1, <2>2, <2>3, Aside
<1>9. CASE KillAll
  <2>1. /\ Told \cap Defenceless \in SUBSET Children
        /\ Told \cap Listening \in SUBSET Children
        /\ Strike(Told \cap Defenceless, Told \cap Listening) /\ backlog' = backlog
    BY <1>9 DEF KillAll, Told, Defenceless, Listening
  <2>2. ParentSame
    BY <1>9 DEF KillAll, ParentSame, TypeOK, Parents
  <2>3. msgs' \subseteq msgs /\ \A j \in Children : ChildOK(j)'
    BY <2>1, StrikeKeeps
  <2> QED
    BY <2>1, <2>2, <2>3, Aside
<1> QED
  BY <1>1, <1>2, <1>3, <1>4, <1>5, <1>6, <1>7, <1>8, <1>9, DispatchKeeps DEF ParentStep

\* The handler's byte is not the listener's business.
LEMMA ParentSignalKeeps ==
    ASSUME TypeOK, TypeOK', PipeInv, NEW s \in Signals, ParentSignal(s)
    PROVE  PipeInv'
<1>1. /\ parent'.pc = parent.pc /\ parent'.ready = parent.ready \union {"sig"}
      /\ parent'.batch = parent.batch /\ parent'.sent = parent.sent
      /\ parent'.sub_process_counter = parent.sub_process_counter
      /\ msgs' = msgs /\ child' = child /\ backlog' = backlog
  BY DEF ParentSignal, TypeOK, Parents
<1>2. ParentSame
  BY <1>1 DEF ParentSame
<1> QED
  BY <1>1, <1>2, ChildrenUntouched, Aside

-----------------------------------------------------------------------------
(* A child.                                                                  *)

(* A message is taken with its event, and a connection with the message; an  *)
(* event without a message is the end of the pipe (lines 198 to 221).        *)
LEMMA ChildPipeKeeps ==
    ASSUME TypeOK, TypeOK', PipeInv, NEW i \in Children, ChildPipe(i)
    PROVE  PipeInv'
<1> DEFINE n == IF Inbox(i) = {} /\ child[i].hup THEN 0 ELSE Accepted
<1>1. /\ child[i].pc = "batch" /\ InBatch(i)
      /\ parent' = parent /\ backlog' = backlog - n
      /\ child' = [child EXCEPT ![i].conns = @ + n, ![i].batch = @ \ {"pipe"}]
  BY DEF ChildPipe, InBatch
<1>2. child[i] \in ChildStates /\ ChildOK(i) /\ n \in {0, 1} /\ backlog \in Nat
  BY DEF TypeOK, PipeInv, Accepted, Bit
<1>3. \A j \in Children : j # i => child'[j] = child[j]
  BY <1>1 DEF TypeOK
<1>4. /\ child'[i].pc = "batch" /\ child'[i].ready = child[i].ready
      /\ child'[i].batch = child[i].batch \ {"pipe"} /\ child'[i].hup = child[i].hup
      /\ child'[i].pend = child[i].pend /\ child'[i].bytes = child[i].bytes
      /\ child'[i].zomb = child[i].zomb /\ child'[i].same = child[i].same
  <2> HIDE DEF n
  <2> QED
    BY <1>1, <1>2 DEF TypeOK, ChildStates
<1>5. IsFiniteSet(Inbox(i)) /\ Cardinality(Inbox(i)) \in Nat
  BY InboxFinite DEF PipeInv
<1>6. IsFiniteSet(msgs) /\ Cardinality(msgs) \in Nat /\ Cardinality(msgs) <= backlog
  BY FS_CardinalityType DEF PipeInv, Numbered, AcceptBacked, TypeOK, Bit
<1>7. ParentOK' /\ RoundRobin' /\ Numbered' /\ msgs' \subseteq msgs
  <2>1. msgs' \subseteq msgs
    BY DEF ChildPipe, Received
  <2>2. IsFiniteSet(msgs')
    BY <1>6, <2>1, FS_Subset
  <2>3. ParentOK'
    BY <1>1, <2>1 DEF PipeInv, ParentOK
  <2> QED
    BY <1>1, <2>1, <2>2, <2>3 DEF PipeInv, RoundRobin, Numbered
<1>8. i \in Listening /\ i \in Listening'
  BY <1>1, <1>4 DEF Listening
<1>9. CASE Inbox(i) = {}
  <2>1. msgs' = msgs /\ Inbox(i)' = Inbox(i)
    BY <1>9 DEF ChildPipe, Inbox
  <2>2. Cardinality(Inbox(i)) = 0
    BY <1>9, FS_EmptySet
  <2>3. child[i].hup
    BY <1>1, <1>2, <2>2 DEF ChildOK, Bit
  <2>4. n = 0 /\ backlog' = backlog
    BY <1>1, <1>2, <1>9, <2>3
  <2>5. ChildOK(i)'
    BY <1>2, <1>4, <2>1, <2>2, <2>3, BoundAssumption DEF ChildOK, InReady, InBatch, Bit, Listening
  <2> QED
    BY <1>1, <1>3, <2>1, <2>4, <2>5, OthersKept, ParentUntouched, Aside
<1>10. CASE Inbox(i) # {}
  <2>1. PICK m \in Inbox(i) : msgs' = msgs \ {m}
    BY <1>10 DEF ChildPipe, Received
  <2>2. m \in msgs /\ m[1] = i /\ Inbox(i)' = Inbox(i) \ {m}
    BY <2>1 DEF Inbox
  <2>3. /\ Cardinality(Inbox(i)') = Cardinality(Inbox(i)) - 1
        /\ Cardinality(msgs') = Cardinality(msgs) - 1 /\ Cardinality(msgs') \in Nat
    <3>1. Cardinality(Inbox(i) \ {m}) = Cardinality(Inbox(i)) - 1
      BY <1>5, FS_RemoveElement
    <3>2. Cardinality(msgs \ {m}) = Cardinality(msgs) - 1
      BY <1>6, <2>2, FS_RemoveElement
    <3>3. Cardinality(msgs') \in Nat
      BY <1>7, FS_CardinalityType DEF Numbered
    <3> QED
      BY <2>1, <2>2, <3>1, <3>2, <3>3
  <2>4. Cardinality(msgs) > 0 /\ backlog > 0
    <3>1. Cardinality(msgs) > 0
      <4> DEFINE a == Cardinality(msgs)
                 b == Cardinality(msgs')
      <4>1. a \in Nat /\ b \in Nat /\ b = a - 1
        BY <1>6, <2>3
      <4> HIDE DEF a, b
      <4>2. a > 0
        BY <4>1
      <4> QED
        BY <4>2 DEF a
    <3>2. backlog \in Nat
      BY DEF TypeOK
    <3> QED
      BY <1>6, <3>1, <3>2
  <2>5. backlog' = backlog - 1
    BY <1>1, <1>10, <2>4 DEF Accepted, Bit
  <2>6. AcceptBacked'
    <3>1. /\ Bit("listen" \in parent.ready) \in Nat /\ Bit("listen" \in parent.batch) \in Nat
          /\ Cardinality(msgs) + Bit("listen" \in parent.ready)
                 + Bit("listen" \in parent.batch) <= backlog
      BY DEF PipeInv, AcceptBacked, Bit
    <3>2. backlog \in Nat
      BY DEF TypeOK
    <3>3. /\ Bit("listen" \in parent'.ready) = Bit("listen" \in parent.ready)
          /\ Bit("listen" \in parent'.batch) = Bit("listen" \in parent.batch)
      BY <1>1
    <3>4. (Cardinality(msgs') + Bit("listen" \in parent'.ready))
              + Bit("listen" \in parent'.batch) <= backlog'
      BY <1>6, <2>3, <2>5, <3>1, <3>2, <3>3
    <3> QED
      BY <3>4 DEF AcceptBacked
  <2>7. ChildOK(i)'
    <3>1. /\ ~InBatch(i)' /\ InBatch(i) /\ (InReady(i)' <=> InReady(i))
          /\ PipeCap \in Nat
      BY <1>1, <1>4, BoundAssumption DEF InReady, InBatch
    <3>2. ~child[i].hup => Bit(InReady(i)) + Bit(InBatch(i)) <= Cardinality(Inbox(i))
      BY <1>2 DEF ChildOK
    <3>3. Cardinality(Inbox(i)) <= PipeCap
      BY <1>2 DEF ChildOK
    <3>4. Bit("chld" \in child'[i].pend) + child'[i].bytes.chld <= child'[i].zomb + Bit(child'[i].same)
      BY <1>2, <1>4 DEF ChildOK
    <3> HIDE DEF n
    <3>5. ~child'[i].hup
             => Bit(InReady(i)') + Bit(InBatch(i)') <= Cardinality(Inbox(i)')
      BY <1>4, <1>5, <2>3, <3>1, <3>2 DEF Bit
    <3>6. Cardinality(Inbox(i)') < PipeCap
      BY <1>5, <2>3, <3>1, <3>3
    <3> QED
      BY <1>4, <1>5, <1>8, <2>3, <3>1, <3>4, <3>5, <3>6 DEF ChildOK
  <2>8. \A j \in Children : j # i => ChildOK(j)'
    BY <1>3, <2>1, <2>2, OthersKept
  <2> QED
    BY <1>7, <2>6, <2>7, <2>8 DEF PipeInv
<1> QED
  BY <1>9, <1>10

(* A step of one child that neither reads its pipe nor ends.                 *)
LEMMA ChildMoves ==
    ASSUME TypeOK, TypeOK', PipeInv, NEW i \in Children, ChildOK(i)',
           \A j \in Children : j # i => child'[j] = child[j],
           parent' = parent, msgs' = msgs, backlog' = backlog
    PROVE  PipeInv'
BY OthersKept, ParentUntouched, Aside

LEMMA ChildKeeps ==
    ASSUME TypeOK, TypeOK', PipeInv, NEW i \in Children, ChildStep(i) \/ ChildHandler(i)
    PROVE  PipeInv'
<1>1. child[i] \in ChildStates /\ child'[i] \in ChildStates /\ ChildOK(i)
  BY DEF TypeOK, PipeInv
<1>2. IsFiniteSet(Inbox(i)) /\ Cardinality(Inbox(i)) \in Nat
  BY InboxFinite DEF PipeInv
<1>3. Inbox(i) # {} => Cardinality(Inbox(i)) # 0
  BY <1>2, FS_EmptySet
<1>4. CASE ChildSetup(i)
  <2>1. /\ \A j \in Children : j # i => child'[j] = child[j]
        /\ parent' = parent /\ backlog' = backlog /\ msgs' = msgs
        /\ child'[i] = [child[i] EXCEPT !.pc = "wait", !.ready = SetupEdges(i)]
        /\ child[i].pc = "setup"
    BY <1>4 DEF ChildSetup, TypeOK
  <2>2. /\ child'[i].pc = "wait" /\ child'[i].ready = SetupEdges(i)
        /\ child'[i].batch = child[i].batch /\ child'[i].hup = child[i].hup
        /\ child'[i].pend = child[i].pend /\ child'[i].bytes = child[i].bytes
        /\ child'[i].zomb = child[i].zomb /\ child'[i].same = child[i].same
    <3> HIDE DEF SetupEdges
    <3> QED
      BY <1>1, <2>1 DEF ChildStates
  <2>3. Inbox(i)' = Inbox(i) /\ i \notin Listening
    BY <2>1, InboxKept DEF Listening
  <2>4. ChildOK(i)'
    <3>1. ~InBatch(i)' /\ i \in Listening'
          /\ (InReady(i)' <=> "pipe" \in SetupEdges(i))
      BY <1>1, <2>2, <2>3 DEF ChildOK, Listening, InReady, InBatch
    <3>4. Bit("chld" \in child'[i].pend) + child'[i].bytes.chld <= child'[i].zomb + Bit(child'[i].same)
      BY <1>1, <2>2 DEF ChildOK
    <3>5. Cardinality(Inbox(i)') <= PipeCap
      BY <1>1, <2>3 DEF ChildOK
    <3>2. CASE Inbox(i) = {}
      <4>1. Cardinality(Inbox(i)) = 0
        BY <3>2, FS_EmptySet
      <4>2. ~child[i].hup => SetupEdges(i) = {}
        BY <3>2 DEF SetupEdges
      <4> QED
        BY <1>2, <2>2, <2>3, <3>1, <3>4, <3>5, <4>1, <4>2, BoundAssumption
           DEF ChildOK, Bit
    <3>3. CASE Inbox(i) # {}
      <4>1. SetupEdges(i) = {"pipe"} /\ Cardinality(Inbox(i)) >= 1
        BY <1>2, <1>3, <3>3 DEF SetupEdges
      <4> QED
        BY <1>2, <2>2, <2>3, <3>1, <3>4, <3>5, <4>1 DEF ChildOK, Bit
    <3> QED
      BY <3>2, <3>3
  <2> QED
    BY <2>1, <2>4, ChildMoves
<1>5. CASE ChildWake(i)
  <2>1. /\ \A j \in Children : j # i => child'[j] = child[j]
        /\ parent' = parent /\ backlog' = backlog /\ msgs' = msgs
        /\ child'[i] = [child[i] EXCEPT !.pc = "batch", !.ready = {},
                                        !.batch = child[i].ready]
        /\ child[i].pc = "wait"
    BY <1>5 DEF ChildWake, TypeOK
  <2>2. /\ child'[i].pc = "batch" /\ child'[i].ready = {}
        /\ child'[i].batch = child[i].ready /\ child'[i].hup = child[i].hup
        /\ child'[i].pend = child[i].pend /\ child'[i].bytes = child[i].bytes
        /\ child'[i].zomb = child[i].zomb /\ child'[i].same = child[i].same
    BY <1>1, <2>1 DEF ChildStates
  <2>3. Inbox(i)' = Inbox(i) /\ i \in Listening /\ i \in Listening'
    BY <2>1, <2>2, InboxKept DEF Listening
  <2>4. ChildOK(i)'
    BY <1>1, <1>2, <2>1, <2>2, <2>3 DEF ChildOK, InReady, InBatch, Bit
  <2> QED
    BY <2>1, <2>4, ChildMoves
<1>6. CASE ChildBatchEnd(i)
  <2>1. CASE child[i].m_stop
    BY <1>6, <2>1, DiesKeeps DEF ChildBatchEnd
  <2>2. CASE ~child[i].m_stop
    <3>1. /\ \A j \in Children : j # i => child'[j] = child[j]
          /\ parent' = parent /\ backlog' = backlog /\ msgs' = msgs
          /\ child'[i] = [child[i] EXCEPT !.pc = "wait"]
          /\ child[i].pc = "batch" /\ child[i].batch = {}
      BY <1>6, <2>2 DEF ChildBatchEnd, TypeOK
    <3>2. /\ child'[i].pc = "wait" /\ child'[i].ready = child[i].ready
          /\ child'[i].batch = {} /\ child'[i].hup = child[i].hup
          /\ child'[i].pend = child[i].pend /\ child'[i].bytes = child[i].bytes
          /\ child'[i].zomb = child[i].zomb /\ child'[i].same = child[i].same
      BY <1>1, <3>1 DEF ChildStates
    <3>3. Inbox(i)' = Inbox(i) /\ i \in Listening /\ i \in Listening'
      BY <3>1, <3>2, InboxKept DEF Listening
    <3>4. ChildOK(i)'
      BY <1>1, <1>2, <3>1, <3>2, <3>3 DEF ChildOK, InReady, InBatch, Bit
    <3> QED
      BY <3>1, <3>4, ChildMoves
  <2> QED
    BY <2>1, <2>2
<1>7. CASE ChildPipe(i)
  BY <1>7, ChildPipeKeeps
<1>8. CASE ChildConn(i)
  <2>1. PICK o \in Outcomes :
          LET left == IF o = "keep" THEN child[i].conns ELSE child[i].conns - 1 IN
          child' = [child EXCEPT ![i].conns = left,
                                 ![i].cgi = IF o = "cgi" THEN @ + 1 ELSE @,
                                 ![i].ready = IF left = 0 THEN @ \ {"conn"} ELSE @,
                                 ![i].batch = @ \ {"conn"}]
    BY <1>8 DEF ChildConn
  <2>2. /\ \A j \in Children : j # i => child'[j] = child[j]
        /\ parent' = parent /\ backlog' = backlog /\ msgs' = msgs
    BY <1>8, <2>1 DEF ChildConn, TypeOK
  <2>3. Same(i)
    <3>3. PICK l, g, r :
              /\ child'[i] = [child[i] EXCEPT !.conns = l, !.cgi = g, !.ready = r,
                                              !.batch = @ \ {"conn"}]
              /\ r = child[i].ready \/ r = child[i].ready \ {"conn"}
      <4> DEFINE left == IF o = "keep" THEN child[i].conns ELSE child[i].conns - 1
                 g == IF o = "cgi" THEN child[i].cgi + 1 ELSE child[i].cgi
                 r == IF left = 0 THEN child[i].ready \ {"conn"} ELSE child[i].ready
      <4>1. child'[i] = [child[i] EXCEPT !.conns = left, !.cgi = g, !.ready = r,
                                         !.batch = @ \ {"conn"}]
        BY <2>1 DEF TypeOK
      <4>2. r = child[i].ready \/ r = child[i].ready \ {"conn"}
        OBVIOUS
      <4> HIDE DEF left, g, r
      <4> QED
        BY <4>1, <4>2
    <3>1. /\ child'[i].pc = child[i].pc /\ child'[i].hup = child[i].hup
          /\ child'[i].pend = child[i].pend /\ child'[i].bytes = child[i].bytes
          /\ child'[i].zomb = child[i].zomb /\ child'[i].same = child[i].same
      BY <1>1, <3>3 DEF ChildStates
    <3>2. /\ child'[i].ready = child[i].ready \/ child'[i].ready = child[i].ready \ {"conn"}
          /\ child'[i].batch = child[i].batch \ {"conn"}
      BY <1>1, <3>3 DEF ChildStates
    <3> QED
      BY <3>1, <3>2 DEF Same, InReady, InBatch
  <2>4. ChildOK(i)'
    BY <1>1, <2>2, <2>3, InboxKept, SameKeeps DEF ChildStates
  <2> QED
    BY <2>2, <2>4, ChildMoves
<1>9. CASE ChildReadSignals(i)
  <2>0. PICK same \in BOOLEAN :
        /\ same => MayBeSame(i)
        /\ child' = [child EXCEPT ![i].zomb = @ - CgisReaped(i, Bit(same)),
                                  ![i].same = @ \/ same,
                                  ![i].m_stop = @ \/ child[i].bytes.term > 0,
                                  ![i].bytes = NoBytes,
                                  ![i].batch = @ \ {"sig"}, ![i].ready = @ \ {"sig"}]
    BY <1>9 DEF ChildReadSignals
  <2> DEFINE z == child[i].zomb - CgisReaped(i, Bit(same))
             l == child[i].same \/ same
             b == child[i].m_stop \/ child[i].bytes.term > 0
  <2>1. /\ \A j \in Children : j # i => child'[j] = child[j]
        /\ parent' = parent /\ backlog' = backlog /\ msgs' = msgs
        /\ child'[i] = [child[i] EXCEPT !.zomb = z, !.same = l, !.m_stop = b,
                              !.bytes = NoBytes,
                              !.batch = @ \ {"sig"}, !.ready = @ \ {"sig"}]
    BY <1>9, <2>0 DEF ChildReadSignals, TypeOK
  <2>2. Bit("chld" \in child[i].pend) <= z + Bit(l)
    <3>1. /\ child[i].zomb \in Nat /\ child[i].bytes.chld \in Nat
          /\ child[i].same \in BOOLEAN
      BY <1>1 DEF ChildStates, Bytes
    <3>2. Bit("chld" \in child[i].pend) + child[i].bytes.chld
            <= child[i].zomb + Bit(child[i].same)
      BY <1>1 DEF ChildOK
    <3>3. same => ~child[i].same
      BY <2>0 DEF MayBeSame
    <3> QED
      BY <3>1, <3>2, <3>3 DEF CgisReaped, Bit
  <2>8. l \in BOOLEAN
    BY <1>1 DEF ChildStates
  <2> HIDE DEF z, b, l
  <2>9. /\ child'[i].pc = child[i].pc /\ child'[i].ready = child[i].ready \ {"sig"}
        /\ child'[i].batch = child[i].batch \ {"sig"} /\ child'[i].hup = child[i].hup
        /\ child'[i].pend = child[i].pend /\ child'[i].bytes = NoBytes
        /\ child'[i].zomb = z
    BY <1>1, <2>1 DEF ChildStates
  <2>10. child'[i].same = l
    BY <1>1, <2>1 DEF ChildStates
  <2>3. /\ child'[i].pc = child[i].pc /\ child'[i].ready = child[i].ready \ {"sig"}
        /\ child'[i].batch = child[i].batch \ {"sig"} /\ child'[i].hup = child[i].hup
        /\ child'[i].pend = child[i].pend /\ child'[i].bytes = NoBytes
        /\ child'[i].zomb = z /\ child'[i].same = l
    BY <2>9, <2>10
  <2>4. Inbox(i)' = Inbox(i) /\ (i \in Listening' <=> i \in Listening)
    BY <2>1, <2>3, InboxKept DEF Listening
  <2>5. Bit("chld" \in child'[i].pend) + child'[i].bytes.chld <= child'[i].zomb + Bit(child'[i].same)
    <3>1. Bit("chld" \in child[i].pend) \in Nat
      BY DEF Bit
    <3>2. NoBytes.chld = 0
      BY DEF NoBytes
    <3> QED
      BY <2>2, <2>9, <2>10, <3>1, <3>2
  <2>6. (InReady(i)' <=> InReady(i)) /\ (InBatch(i)' <=> InBatch(i))
    BY <2>3 DEF InReady, InBatch
  <2>7. ChildOK(i)'
    BY <1>1, <1>2, <2>3, <2>4, <2>5, <2>6 DEF ChildOK, Bit
  <2> QED
    BY <2>1, <2>7, ChildMoves
<1>10. CASE ChildInterrupted(i)
  BY <1>10, DiesKeeps DEF ChildInterrupted
<1>11. ASSUME NEW s \in Signals, ChildSignal(i, s)
       PROVE  PipeInv'
  <2> DEFINE w == [child[i].bytes EXCEPT ![s] = @ + 1]
  <2>1. /\ \A j \in Children : j # i => child'[j] = child[j]
        /\ parent' = parent /\ backlog' = backlog /\ msgs' = msgs
        /\ child'[i] = [child[i] EXCEPT !.pend = @ \ {s}, !.bytes = w,
                              !.ready = @ \union {"sig"}]
        /\ s \in child[i].pend
    BY <1>11 DEF ChildSignal, TypeOK
  <2>2. w.chld = IF s = "chld" THEN child[i].bytes.chld + 1 ELSE child[i].bytes.chld
    BY <1>1 DEF ChildStates, Bytes, Signals
  <2> HIDE DEF w
  <2>3. /\ child'[i].pc = child[i].pc /\ child'[i].ready = child[i].ready \union {"sig"}
        /\ child'[i].batch = child[i].batch /\ child'[i].hup = child[i].hup
        /\ child'[i].pend = child[i].pend \ {s} /\ child'[i].bytes = w
        /\ child'[i].zomb = child[i].zomb /\ child'[i].same = child[i].same
    BY <1>1, <2>1 DEF ChildStates
  <2>4. Inbox(i)' = Inbox(i) /\ (i \in Listening' <=> i \in Listening)
    BY <2>1, <2>3, InboxKept DEF Listening
  <2>5. Bit("chld" \in child'[i].pend) + child'[i].bytes.chld <= child'[i].zomb + Bit(child'[i].same)
    BY <1>1, <2>1, <2>2, <2>3 DEF ChildOK, ChildStates, Bytes, Bit
  <2>6. (InReady(i)' <=> InReady(i)) /\ (InBatch(i)' <=> InBatch(i))
    BY <2>3 DEF InReady, InBatch
  <2>7. ChildOK(i)'
    BY <1>1, <1>2, <2>3, <2>4, <2>5, <2>6 DEF ChildOK, Bit
  <2> QED
    BY <2>1, <2>7, ChildMoves
<1> QED
  BY <1>4, <1>5, <1>6, <1>7, <1>8, <1>9, <1>10, <1>11 DEF ChildStep, ChildHandler

LEMMA PipeInvHolds == Spec => []PipeInv
<1>1. Init => PipeInv
  <2> SUFFICES ASSUME Init PROVE PipeInv
    OBVIOUS
  <2>1. msgs = {} /\ IsFiniteSet(msgs) /\ Cardinality(msgs) = 0
    BY FS_EmptySet DEF Init
  <2>2. Numbered /\ ParentOK
    BY <2>1 DEF Init, Numbered, ParentOK
  <2>3. RoundRobin
    <3>1. 0 % N = 0
      BY NAssumption
    <3> QED
      BY <2>1, <3>1 DEF Init, RoundRobin
  <2>4. AcceptBacked
    BY <2>1 DEF Init, AcceptBacked, Bit
  <2>5. ASSUME NEW i \in Children
        PROVE  ChildOK(i)
    <3>1. Cardinality(Inbox(i)) = 0
      BY <2>1, FS_EmptySet DEF Inbox
    <3>2. /\ child[i].pc = "none" /\ child[i].ready = {} /\ child[i].batch = {}
          /\ child[i].pend = {} /\ child[i].bytes.chld = 0 /\ child[i].zomb = 0
      BY DEF Init, NoBytes
    <3> QED
      BY <3>1, <3>2, BoundAssumption DEF ChildOK, Listening, InReady, InBatch, Bit
  <2> QED
    BY <2>2, <2>3, <2>4, <2>5 DEF PipeInv
<1>2. TypeOK /\ TypeOK' /\ PipeInv /\ [Next]_vars => PipeInv'
  <2> SUFFICES ASSUME TypeOK, TypeOK', PipeInv, [Next]_vars PROVE PipeInv'
    OBVIOUS
  <2>1. CASE UNCHANGED vars
    BY <2>1 DEF vars, PipeInv, Numbered, ParentOK, RoundRobin, AcceptBacked,
                ChildOK, InReady, InBatch, Listening, Inbox
  <2>2. CASE Next
    BY <2>2, EnvKeeps, ParentKeeps, ParentSignalKeeps, ChildKeeps DEF Next
  <2> QED
    BY <2>1, <2>2
<1> QED
  BY <1>1, <1>2, TypeCorrect, PTL DEF Spec

-----------------------------------------------------------------------------
(* A child that received a message finds a connection to accept (line 208):  *)
(* for any number of children and connections, and although listener events  *)
(* merge and any child may take any connection.                              *)
THEOREM AcceptIsBacked == Spec => []AcceptBacked
<1>1. PipeInv => AcceptBacked
  BY DEF PipeInv
<1> QED
  BY <1>1, PipeInvHolds, PTL

(* A child told that its pipe is readable finds a message there (line 200).  *)
THEOREM PipeEdgeIsBacked == Spec => []PipeEdgeBacked
<1>1. PipeInv => PipeEdgeBacked
  BY DEF PipeInv, PipeEdgeBacked, ChildOK, InReady, InBatch
<1> QED
  BY <1>1, PipeInvHolds, PTL

(* The parent's send (line 314) never blocks on the pipe of a serving child  *)
(* for good: a full pipe has an event the child will handle by reading it.   *)
THEOREM FullPipeRead == Spec => []FullPipeIsRead
<1>1. PipeInv => FullPipeIsRead
  BY DEF PipeInv, FullPipeIsRead, ChildOK, InReady, InBatch, Listening
<1> QED
  BY <1>1, PipeInvHolds, PTL

(* The k-th message is for child k - 1 modulo N (lines 299 to 314), for every*)
(* number of children and of messages.                                       *)
THEOREM RoundRobinHolds == Spec => []RoundRobin
<1>1. PipeInv => RoundRobin
  BY DEF PipeInv
<1> QED
  BY <1>1, PipeInvHolds, PTL

(* A child calls waitpid for a byte with no CGI program to reap (line 237)   *)
(* only after it reaped one with the pid that its uninitialised pid holds,   *)
(* which then is neither 0 nor -1: its reaping loop never spins.             *)
THEOREM ChildReapIsBacked == Spec => []ChildReapBacked
<1>1. PipeInv => ChildReapBacked
  BY DEF PipeInv, ChildReapBacked, ChildOK
<1> QED
  BY <1>1, PipeInvHolds, PTL


-----------------------------------------------------------------------------
(* Which children the parent has marked.  While it forks, those it has forked*)
(* are unmarked; so once it serves, a mark can only come from the loop of    *)
(* line 336, which marks the child it has just reaped.                       *)

MarkInv ==
    /\ \A i \in Children : m_pid[i] \in {-1, Pid(i)}
    /\ MarkedIsReaped
    /\ parent.pc = "fork" =>
          ~parent.m_stop /\ \A i \in Children : child[i].pc # "none" => m_pid[i] # -1

\* Children that are not there stay so.
StillOut ==
    \A j \in Children : child[j].pc \in {"none", "gone"} => child'[j].pc = child[j].pc

LEMMA MarksKept ==
    ASSUME MarkInv, m_pid' = m_pid, StillOut, Handling' => Handling,
           parent'.m_stop => parent.m_stop, parent'.pc = "fork" => parent.pc = "fork"
    PROVE  MarkInv'
BY DEF MarkInv, MarkedIsReaped, StillOut

LEMMA StrikeOut ==
    ASSUME TypeOK, NEW D, NEW T, \A i \in D : Alive(i), Strike(D, T)
    PROVE  StillOut
BY DEF Strike, Dead, StillOut, Alive, TypeOK, ChildStates

LEMMA DiesMarks ==
    ASSUME TypeOK, MarkInv, NEW i \in Children, Alive(i), Dies(i), m_pid' = m_pid
    PROVE  MarkInv'
<1>1. StillOut
  BY StrikeOut DEF Dies
<1>2. parent'.pc = parent.pc /\ parent'.m_stop = parent.m_stop
  BY DEF Dies, TypeOK, Parents
<1> QED
  BY <1>1, <1>2, MarksKept DEF Handling

LEMMA EnvMarks ==
    ASSUME TypeOK, MarkInv, EnvStep
    PROVE  MarkInv'
<1>1. CASE ClientConnect
  <2>1. parent'.pc = parent.pc /\ parent'.m_stop = parent.m_stop
    BY <1>1 DEF ClientConnect, TypeOK, Parents
  <2> QED
    BY <1>1, <2>1, MarksKept DEF ClientConnect, StillOut, Handling
<1>2. ASSUME NEW group \in BOOLEAN, OperatorSignal(group)
      PROVE  MarkInv'
  <2>1. StillOut
    BY <1>2, StrikeOut DEF OperatorSignal, Defenceless, Alive
  <2>2. /\ parent'.pc = parent.pc \/ parent'.pc = "exit"
        /\ parent'.m_stop = parent.m_stop
    BY <1>2 DEF OperatorSignal, TypeOK, Parents
  <2> QED
    BY <1>2, <2>1, <2>2, MarksKept DEF OperatorSignal, Handling
<1>3. ASSUME NEW i \in Children, Crash(i)
      PROVE  MarkInv'
  BY <1>3, DiesMarks DEF Crash
<1>4. ASSUME NEW i \in Children, ClientSend(i) \/ CgiExit(i) \/ PipeHangup(i)
      PROVE  MarkInv'
  <2>1. parent' = parent /\ m_pid' = m_pid
    BY <1>4 DEF ClientSend, CgiExit, PipeHangup
  <2>2. CASE ClientSend(i)
    <3>1. StillOut
      BY <2>2 DEF ClientSend, StillOut, TypeOK, ChildStates
    <3> QED
      BY <2>1, <3>1, MarksKept DEF Handling
  <2>3. CASE CgiExit(i)
    <3>1. StillOut
      BY <2>3 DEF CgiExit, StillOut, TypeOK, ChildStates
    <3> QED
      BY <2>1, <3>1, MarksKept DEF Handling
  <2>4. CASE PipeHangup(i)
    <3>1. StillOut
      BY <2>4 DEF PipeHangup, StillOut, TypeOK, ChildStates
    <3> QED
      BY <2>1, <3>1, MarksKept DEF Handling
  <2> QED
    BY <1>4, <2>2, <2>3, <2>4
<1> QED
  BY <1>1, <1>2, <1>3, <1>4 DEF EnvStep

LEMMA ReapMarks ==
    ASSUME TypeOK, MarkInv, Reap
    PROVE  MarkInv'
<1>1. PICK r \in WaitPid :
        /\ child' = [i \in Children |-> IF i \in ReapedBy(r)
                        THEN [child[i] EXCEPT !.pc = "gone"] ELSE child[i]]
        /\ IF pid = r
           THEN /\ m_pid' = [i \in Children |->
                                IF m_pid[i] = pid THEN -1 ELSE m_pid[i]]
                /\ UNCHANGED parent
           ELSE /\ parent' = [parent EXCEPT !.m_stop = AllJoined,
                                            !.todo.chld = @ - 1]
                /\ UNCHANGED m_pid
  BY DEF Reap
<1>2. \A i \in Children :
          child'[i].pc = IF i \in ReapedBy(r) THEN "gone" ELSE child[i].pc
  BY <1>1 DEF TypeOK, ChildStates
<1>3. parent.pc = "sigs" /\ Handling
  BY DEF Reap, Handling
<1>4. CASE pid = r
  <2>1. parent' = parent
    BY <1>1, <1>4
  <2>2. \A i \in Children : m_pid'[i] = IF m_pid[i] = r THEN -1 ELSE m_pid[i]
    BY <1>1, <1>4
  <2>3. ASSUME NEW i \in Children, m_pid'[i] = -1
        PROVE  child'[i].pc = "gone"
    <3>1. CASE m_pid[i] = -1
      BY <1>2, <1>3, <3>1 DEF MarkInv, MarkedIsReaped
    <3>2. CASE m_pid[i] # -1
      <4>1. Pid(i) = r
        BY <2>2, <2>3, <3>2 DEF MarkInv
      <4> QED
        BY <1>2, <4>1 DEF ReapedBy
    <3> QED
      BY <3>1, <3>2
  <2>4. \A i \in Children : m_pid[i] = -1 => m_pid'[i] = -1
    BY <2>2
  <2>5. \A i \in Children : m_pid'[i] \in {-1, Pid(i)}
    BY <2>2 DEF MarkInv
  <2> QED
    BY <1>3, <2>1, <2>3, <2>4, <2>5 DEF MarkInv, MarkedIsReaped
<1>5. CASE pid # r
  <2>1. m_pid' = m_pid /\ parent'.pc = parent.pc /\ parent'.m_stop = AllJoined
    BY <1>1, <1>5 DEF TypeOK, Parents
  <2>2. parent'.m_stop => \E i \in Children : m_pid'[i] = -1
    <3>1. 0 \in Children
      BY NAssumption DEF Children
    <3> QED
      BY <2>1, <3>1 DEF AllJoined
  <2>3. \A i \in Children : m_pid'[i] = -1 => child'[i].pc = "gone"
    BY <1>2, <1>3, <2>1 DEF MarkInv, MarkedIsReaped
  <2> QED
    BY <1>3, <2>1, <2>2, <2>3 DEF MarkInv, MarkedIsReaped
<1> QED
  BY <1>4, <1>5

LEMMA ParentMarks ==
    ASSUME TypeOK, MarkInv, ParentStep
    PROVE  MarkInv'
<1>1. ASSUME NEW i \in Children, Fork(i)
      PROVE  MarkInv'
  <2>1. /\ parent' = parent /\ parent.pc = "fork"
        /\ \A j \in Children : m_pid'[j] = IF j = i THEN Pid(i) ELSE m_pid[j]
        /\ \A j \in Children : j # i => child'[j] = child[j]
    BY <1>1 DEF Fork, TypeOK
  <2>2. Pid(i) # -1
    BY ChildrenFacts DEF Pid, Children
  <2> QED
    BY <2>1, <2>2 DEF MarkInv, MarkedIsReaped, Handling
<1>2. CASE ParentSetup
  <2>1. /\ m_pid' = m_pid /\ child' = child /\ parent.pc = "fork"
        /\ \A i \in Children : child[i].pc # "none"
    BY <1>2 DEF ParentSetup
  <2>2. parent'.pc = "wait" /\ parent'.m_stop = parent.m_stop
    BY <1>2 DEF ParentSetup, TypeOK, Parents
  <2> QED
    BY <2>1, <2>2 DEF MarkInv, MarkedIsReaped
<1>3. CASE ParentWake \/ ParentReadSignals \/ SignalsDone \/ ParentBatchEnd
  <2>1. m_pid' = m_pid /\ child' = child
    BY <1>3 DEF ParentWake, ParentReadSignals, SignalsDone, ParentBatchEnd
  <2>2. parent'.m_stop = parent.m_stop /\ parent'.pc # "fork" /\ Handling
    BY <1>3 DEF ParentWake, ParentReadSignals, SignalsDone, ParentBatchEnd, Handling,
                TypeOK, Parents
  <2> QED
    BY <2>1, <2>2, MarksKept DEF StillOut
<1>4. CASE Dispatch
  <2>1. m_pid' = m_pid /\ StillOut
    BY <1>4 DEF Dispatch, StillOut, TypeOK, ChildStates
  <2>2. parent'.m_stop = parent.m_stop /\ parent'.pc = "batch" /\ Handling
    BY <1>4 DEF Dispatch, Handling, TypeOK, Parents
  <2> QED
    BY <2>1, <2>2, MarksKept
<1>5. CASE DispatchStop
  <2>1. /\ m_pid' = m_pid /\ child' = child
        /\ parent.pc = "batch" /\ \E j \in Children : m_pid[j] = -1
    BY <1>5 DEF DispatchStop
  <2>2. parent'.pc = "batch"
    BY <1>5 DEF DispatchStop, TypeOK, Parents
  <2> QED
    BY <2>1, <2>2 DEF MarkInv, MarkedIsReaped, Handling
<1>6. CASE KillAll
  <2>1. m_pid' = m_pid /\ StillOut
    BY <1>6, StrikeOut DEF KillAll, Defenceless, Alive
  <2>2. parent'.m_stop = parent.m_stop /\ parent'.pc = "sigs" /\ Handling
    BY <1>6 DEF KillAll, Handling, TypeOK, Parents
  <2> QED
    BY <2>1, <2>2, MarksKept
<1> QED
  BY <1>1, <1>2, <1>3, <1>4, <1>5, <1>6, ReapMarks DEF ParentStep

LEMMA ChildMarks ==
    ASSUME TypeOK, MarkInv, NEW i \in Children, ChildStep(i) \/ ChildHandler(i)
    PROVE  MarkInv'
<1>1. ASSUME \A j \in Children : j # i => child'[j] = child[j],
             child[i].pc \in {"setup", "wait", "batch"},
             parent' = parent, m_pid' = m_pid
      PROVE  MarkInv'
  <2>1. StillOut
    BY <1>1 DEF StillOut
  <2> QED
    BY <1>1, <2>1, MarksKept DEF Handling
<1>2. CASE ChildSetup(i)
  BY <1>1, <1>2 DEF ChildSetup, TypeOK
<1>3. CASE ChildWake(i)
  BY <1>1, <1>3 DEF ChildWake, TypeOK
<1>4. CASE ChildPipe(i)
  BY <1>1, <1>4 DEF ChildPipe, TypeOK
<1>5. CASE ChildConn(i)
  BY <1>1, <1>5 DEF ChildConn, TypeOK
<1>6. CASE ChildReadSignals(i)
  BY <1>1, <1>6 DEF ChildReadSignals, TypeOK
<1>7. CASE ChildInterrupted(i)
  BY <1>7, DiesMarks DEF ChildInterrupted, Alive
<1>8. CASE ChildBatchEnd(i)
  <2>1. CASE child[i].m_stop
    BY <1>8, <2>1, DiesMarks DEF ChildBatchEnd, Alive
  <2>2. CASE ~child[i].m_stop
    BY <1>1, <1>8, <2>2 DEF ChildBatchEnd, TypeOK
  <2> QED
    BY <2>1, <2>2
<1>9. ASSUME NEW s \in Signals, ChildSignal(i, s)
      PROVE  MarkInv'
  BY <1>1, <1>9 DEF ChildSignal, Listening, TypeOK
<1> QED
  BY <1>2, <1>3, <1>4, <1>5, <1>6, <1>7, <1>8, <1>9 DEF ChildStep, ChildHandler

(* Once serving, the parent takes a child for gone (m_pid -1) only when it   *)
(* has reaped it, and means to stop only when a child is marked (lines 302   *)
(* to 312, 340 to 355), whatever the uninitialised pid holds.                *)
THEOREM MarkedOnlyReaped == Spec => []MarkedIsReaped
<1>1. Init => MarkInv
  BY DEF Init, MarkInv, MarkedIsReaped, Handling
<1>2. TypeOK /\ MarkInv /\ [Next]_vars => MarkInv'
  <2> SUFFICES ASSUME TypeOK, MarkInv, [Next]_vars PROVE MarkInv'
    OBVIOUS
  <2>1. CASE UNCHANGED vars
    BY <2>1 DEF vars, MarkInv, MarkedIsReaped, Handling
  <2>2. ASSUME NEW s \in Signals, ParentSignal(s)
        PROVE  MarkInv'
    <3>1. parent'.pc = parent.pc /\ parent'.m_stop = parent.m_stop
      BY <2>2 DEF ParentSignal, TypeOK, Parents
    <3> QED
      BY <2>2, <3>1, MarksKept DEF ParentSignal, StillOut, Handling
  <2>3. CASE Next
    BY <2>2, <2>3, EnvMarks, ParentMarks, ChildMarks DEF Next
  <2> QED
    BY <2>1, <2>3
<1>3. MarkInv => MarkedIsReaped
  BY DEF MarkInv
<1> QED
  BY <1>1, <1>2, <1>3, TypeCorrect, PTL DEF Spec

=============================================================================
