-------------------------- MODULE ThreadPool_proof --------------------------
(* For any number of workers and any limit: the posts match the list, and no *)
(* request is taken twice.  Each needs the other: a worker that finds the    *)
(* list at its turn finds a request because there is a post for each, and    *)
(* the list stays as it looked at it because nobody else holds the mutex.    *)
EXTENDS ThreadPool, FiniteSetTheorems, TLAPS

\* What the owner holds between its lock and its push: the latest request,
\* which nobody has seen.
Held ==
    owner = "held" =>
        /\ m_queuelocker
        /\ made \in Pending
        /\ \A k \in 1 .. Len(m_workqueue) : m_workqueue[k] < made
        /\ \A w \in Workers : pc[w] = "process" => request[w] < made

\* What is done with was made.
Answered == refused \union processed \subseteq 1 .. made

Inv == TypeOK /\ PostsMatch /\ TakenOnce /\ Held /\ Answered

LEMMA AwakeFinite == IsFiniteSet(Awake) /\ Cardinality(Awake) \in Nat
BY WorkersAssumption, FS_Subset, FS_CardinalityType DEF Awake

\* A worker that is awake has something to take.
LEMMA AwakeFinds ==
    ASSUME Inv, NEW w \in Awake
    PROVE  m_workqueue # <<>>
<1>1. Cardinality(Awake) # 0
  BY AwakeFinite, FS_EmptySet
<1>2. Len(m_workqueue) > 0
  BY <1>1, AwakeFinite DEF Inv, PostsMatch, TypeOK
<1> QED
  BY <1>2 DEF Inv, TypeOK

\* Posts are matched as long as the list, the semaphore and those awake are
\* left alone, wherever the owner is but for its post.
LEMMA MatchKept ==
    ASSUME Inv, Awake' = Awake, m_workqueue' = m_workqueue,
           m_queuestat' = m_queuestat, owner = "post" <=> owner' = "post"
    PROVE  PostsMatch'
BY DEF Inv, PostsMatch

LEMMA CreateKeeps ==
    ASSUME Inv, NEW w \in Workers, Create(w)
    PROVE  Inv'
<1>1. TypeOK'
  BY DEF Create, Inv, TypeOK
<1>2. Awake' = Awake
  BY DEF Create, Inv, TypeOK, Awake
<1>3. PostsMatch'
  BY <1>2, MatchKept DEF Create
<1>4. Pending' = Pending
  BY DEF Create, Pending
<1>5. \A v \in Workers : /\ pc'[v] = "held" => pc[v] = "held"
                         /\ pc'[v] = "process" => pc[v] = "process"
  BY DEF Create, Inv, TypeOK
<1>6. TakenOnce'
  BY <1>4, <1>5 DEF Create, Inv, TakenOnce
<1>7. Held' /\ Answered'
  BY DEF Create, Inv, Held, Answered
<1> QED
  BY <1>1, <1>3, <1>6, <1>7 DEF Inv

LEMMA OwnerKeeps ==
    ASSUME Inv, Destroy \/ AppendLock \/ AppendPost
    PROVE  Inv'
<1>1. CASE Destroy
  <2>1. TypeOK' /\ Awake' = Awake /\ Pending' = Pending
    BY <1>1 DEF Destroy, Inv, TypeOK, Awake, Pending
  <2>2. PostsMatch'
    BY <1>1, <2>1, MatchKept DEF Destroy
  <2> QED
    BY <1>1, <2>1, <2>2 DEF Destroy, Inv, TakenOnce, Held, Answered
<1>2. CASE AppendPost
  <2>1. TypeOK' /\ Awake' = Awake /\ Pending' = Pending
    BY <1>2 DEF AppendPost, Posted, Inv, TypeOK, Awake, Pending
  <2>2. PostsMatch'
    BY <1>2, <2>1, AwakeFinite DEF AppendPost, Posted, Inv, PostsMatch, TypeOK
  <2> QED
    BY <1>2, <2>1, <2>2 DEF AppendPost, Inv, TakenOnce, Held, Answered
<1>3. CASE AppendLock
  <2>1. TypeOK' /\ Awake' = Awake
    BY <1>3 DEF AppendLock, Inv, TypeOK, Awake
  <2>2. PostsMatch'
    BY <1>3, <2>1, MatchKept DEF AppendLock
  <2>3. \A t \in Pending : t \in Pending' /\ t < made'
    BY <1>3 DEF AppendLock, Pending, Inv, TypeOK
  <2>4. \A w \in Workers : pc[w] # "held"
    BY <1>3 DEF AppendLock, Inv, TakenOnce
  <2>5. TakenOnce'
    BY <1>3, <2>3, <2>4 DEF AppendLock, Inv, TakenOnce
  <2>6. made' \in Pending' /\ Answered'
    BY <1>3 DEF AppendLock, Inv, Answered, Pending, TypeOK
  <2>7. Held'
    BY <1>3, <2>3, <2>6 DEF AppendLock, Inv, TakenOnce, Held
  <2> QED
    BY <2>1, <2>2, <2>5, <2>6, <2>7 DEF Inv
<1> QED
  BY <1>1, <1>2, <1>3

LEMMA AppendRefusedKeeps ==
    ASSUME Inv, AppendRefused
    PROVE  Inv'
<1>1. TypeOK' /\ Awake' = Awake
  BY DEF AppendRefused, Inv, TypeOK, Awake
<1>2. PostsMatch'
  BY <1>1, MatchKept DEF AppendRefused
<1>3. made \in Pending /\ Pending' = Pending \ {made}
  BY DEF AppendRefused, Pending, Inv, Held
<1>4. \A k \in 1 .. Len(m_workqueue) : m_workqueue[k] # made
  BY DEF AppendRefused, Inv, Held, TypeOK
<1>5. \A w \in Workers : pc[w] # "held" /\ (pc[w] = "process" => request[w] # made)
  BY DEF AppendRefused, Inv, Held, TakenOnce, TypeOK
<1>6. TakenOnce'
  BY <1>3, <1>4, <1>5 DEF AppendRefused, Inv, TakenOnce
<1>7. Held' /\ Answered'
  BY <1>3 DEF AppendRefused, Inv, Held, Answered, Pending
<1> QED
  BY <1>1, <1>2, <1>6, <1>7 DEF Inv

LEMMA AppendPushKeeps ==
    ASSUME Inv, AppendPush
    PROVE  Inv'
<1> DEFINE q == m_workqueue
<1>1. TypeOK' /\ Awake' = Awake /\ Pending' = Pending
  <2>1. m_workqueue \in Seq(Nat) /\ made \in Nat
    BY DEF Inv, TypeOK
  <2>2. Append(m_workqueue, made) \in Seq(Nat)
    BY <2>1
  <2>3. TypeOK'
    BY <2>2 DEF AppendPush, Inv, TypeOK
  <2> QED
    BY <2>3 DEF AppendPush, Awake, Pending
<1>2. /\ Len(q') = Len(q) + 1
      /\ \A k \in 1 .. Len(q) : q'[k] = q[k]
      /\ q'[Len(q) + 1] = made
  BY DEF AppendPush, Inv, TypeOK
<1>3. PostsMatch'
  BY <1>1, <1>2, AwakeFinite DEF AppendPush, Inv, PostsMatch, TypeOK
<1>4. \A w \in Workers : pc[w] # "held"
  BY DEF AppendPush, Inv, TakenOnce
<1>5. made \in Pending /\ Len(q) \in Nat
  BY DEF AppendPush, Inv, Held, TypeOK
<1>6. \A k \in 1 .. Len(q') : q'[k] \in Pending
  BY <1>2, <1>5 DEF Inv, TakenOnce
<1>7. \A k, n \in 1 .. Len(q') : k < n => q'[k] < q'[n]
  BY <1>2, <1>5 DEF AppendPush, Inv, TakenOnce, Held
<1>8. \A k \in 1 .. Len(q'), w \in Workers : pc[w] = "process" => request[w] < q'[k]
  BY <1>2, <1>5 DEF AppendPush, Inv, TakenOnce, Held
<1>9. TakenOnce'
  BY <1>1, <1>4, <1>6, <1>7, <1>8 DEF AppendPush, Inv, TakenOnce
<1>10. Held' /\ Answered'
  BY DEF AppendPush, Inv, Held, Answered
<1> QED
  BY <1>1, <1>3, <1>9, <1>10 DEF Inv

LEMMA WaitKeeps ==
    ASSUME Inv, NEW w \in Workers, Wait(w)
    PROVE  Inv'
<1>1. TypeOK' /\ Pending' = Pending
  BY DEF Wait, Inv, TypeOK, Pending
<1>2. Awake' = Awake \union {w} /\ w \notin Awake
  BY DEF Wait, Inv, TypeOK, Awake
<1>3. Cardinality(Awake') = Cardinality(Awake) + 1
  BY <1>2, AwakeFinite, FS_AddElement
<1>4. PostsMatch'
  BY <1>3, AwakeFinite DEF Wait, Inv, PostsMatch, TypeOK
<1>5. \A v \in Workers : /\ pc'[v] = "held" <=> pc[v] = "held"
                         /\ pc'[v] = "process" <=> pc[v] = "process"
  BY DEF Wait, Inv, TypeOK
<1>6. TakenOnce'
  BY <1>1, <1>5 DEF Wait, Inv, TakenOnce
<1>7. Held' /\ Answered'
  BY <1>1, <1>5 DEF Wait, Inv, Held, Answered
<1> QED
  BY <1>1, <1>4, <1>6, <1>7 DEF Inv

LEMMA LockAndLookKeeps ==
    ASSUME Inv, NEW w \in Workers, LockAndLook(w)
    PROVE  Inv'
<1>1. m_workqueue # <<>>
  BY AwakeFinds DEF LockAndLook, Awake
<1>2. request' = [request EXCEPT ![w] = Head(m_workqueue)] /\ Head(m_workqueue) \in Nat
  BY <1>1 DEF LockAndLook, Inv, TypeOK
<1>3. TypeOK' /\ Pending' = Pending
  BY <1>2 DEF LockAndLook, Inv, TypeOK, Pending
<1>4. Awake' = Awake
  BY DEF LockAndLook, Inv, TypeOK, Awake
<1>5. PostsMatch'
  BY <1>4, MatchKept DEF LockAndLook
<1>6. owner # "held" /\ \A v \in Workers : pc[v] # "held"
  BY DEF LockAndLook, MayEnter, Inv, Held, TakenOnce
<1>7. \A v \in Workers : /\ pc'[v] = "held" <=> v = w
                         /\ pc'[v] = "process" <=> pc[v] = "process"
                         /\ v # w => request'[v] = request[v]
                         /\ pc'[v] = "process" => v # w
  BY <1>2, <1>6 DEF LockAndLook, Inv, TypeOK
<1>8. request'[w] = Head(m_workqueue)
  BY <1>2 DEF Inv, TypeOK
<1>9. TakenOnce'
  BY <1>1, <1>3, <1>6, <1>7, <1>8 DEF LockAndLook, Inv, TakenOnce
<1>10. Held' /\ Answered'
  BY <1>6 DEF LockAndLook, Inv, Held, Answered
<1> QED
  BY <1>3, <1>5, <1>9, <1>10 DEF Inv

LEMMA PopAndUnlockKeeps ==
    ASSUME Inv, NEW w \in Workers, PopAndUnlock(w)
    PROVE  Inv'
<1> DEFINE q == m_workqueue
<1>1. q # <<>>
  BY DEF PopAndUnlock, Inv, TakenOnce
<1>2. /\ q' = Tail(q) /\ pc' = [pc EXCEPT ![w] = "process"]
      /\ Len(q) \in Nat \ {0} /\ Len(q') = Len(q) - 1
      /\ \A k \in 1 .. Len(q') : q'[k] = q[k + 1]
      /\ q' \in Seq(Nat)
  <2>1. q \in Seq(Nat)
    BY DEF Inv, TypeOK
  <2>2. q' = Tail(q) /\ pc' = [pc EXCEPT ![w] = "process"]
    BY <1>1 DEF PopAndUnlock
  <2>3. /\ Len(q) \in Nat \ {0} /\ Len(Tail(q)) = Len(q) - 1
        /\ \A k \in 1 .. Len(Tail(q)) : Tail(q)[k] = q[k + 1]
        /\ Tail(q) \in Seq(Nat)
    BY <2>1, <1>1
  <2> QED
    BY <2>2, <2>3
<1>3. TypeOK' /\ Pending' = Pending
  <2>1. TypeOK'
    BY <1>2 DEF PopAndUnlock, Inv, TypeOK
  <2> QED
    BY <2>1 DEF PopAndUnlock, Pending
<1>4. Awake' = Awake \ {w} /\ w \in Awake
  BY <1>2 DEF PopAndUnlock, Inv, TypeOK, Awake
<1>5. Cardinality(Awake') = Cardinality(Awake) - 1
  BY <1>4, AwakeFinite, FS_RemoveElement
<1>6. PostsMatch'
  BY <1>2, <1>5, AwakeFinite DEF PopAndUnlock, Inv, PostsMatch, TypeOK
<1>7. /\ request[w] = q[1] /\ owner # "held" /\ pc[w] = "held"
      /\ \A v \in Workers : pc[v] = "held" <=> v = w
  BY <1>1 DEF PopAndUnlock, Inv, TakenOnce, TypeOK
<1>8. \A v \in Workers : /\ pc'[v] # "held"
                         /\ pc'[v] = "process" <=> (v = w \/ pc[v] = "process")
  BY <1>2, <1>7 DEF Inv, TypeOK
<1>9. request' = request
  BY DEF PopAndUnlock
<1>10. \A v \in Workers : pc[v] = "process" => request[v] < request[w]
  BY <1>2, <1>7 DEF Inv, TakenOnce
<1>11. \A v, u \in Workers :
          pc'[v] = "process" /\ pc'[u] = "process" /\ request[v] = request[u] => v = u
  BY <1>8, <1>10 DEF Inv, TakenOnce, TypeOK
<1>12. \A v \in Workers : pc'[v] = "process" => request[v] \in Pending
  BY <1>2, <1>7, <1>8 DEF Inv, TakenOnce
<1>13. \A k \in 1 .. Len(q') : q'[k] \in Pending
  BY <1>2 DEF Inv, TakenOnce
<1>14. \A k, n \in 1 .. Len(q') : k < n => q'[k] < q'[n]
  BY <1>2 DEF Inv, TakenOnce
<1>15. \A k \in 1 .. Len(q'), v \in Workers : pc'[v] = "process" => request[v] < q'[k]
  BY <1>2, <1>7, <1>8 DEF Inv, TakenOnce
<1>16. TakenOnce'
  BY <1>3, <1>8, <1>9, <1>11, <1>12, <1>13, <1>14, <1>15 DEF TakenOnce
<1>17. Held' /\ Answered'
  BY <1>7 DEF PopAndUnlock, Inv, Held, Answered
<1> QED
  BY <1>3, <1>6, <1>16, <1>17 DEF Inv

LEMMA ProcessKeeps ==
    ASSUME Inv, NEW w \in Workers, Process(w)
    PROVE  Inv'
<1>1. TypeOK' /\ Awake' = Awake
  BY DEF Process, Inv, TypeOK, Awake
<1>2. PostsMatch'
  BY <1>1, MatchKept DEF Process
<1>3. request[w] \in Pending /\ Pending' = Pending \ {request[w]}
  BY DEF Process, Inv, TakenOnce, Pending
<1>4. \A v \in Workers : /\ pc'[v] = "held" <=> pc[v] = "held"
                         /\ pc'[v] = "process" <=> (pc[v] = "process" /\ v # w)
  BY DEF Process, Inv, TypeOK
<1>5. \A k \in 1 .. Len(m_workqueue) : m_workqueue[k] # request[w]
  BY DEF Process, Inv, TakenOnce, TypeOK
<1>6. \A v \in Workers : pc'[v] = "process" => request[v] # request[w]
  BY <1>4 DEF Process, Inv, TakenOnce
<1>7. TakenOnce'
  BY <1>3, <1>4, <1>5, <1>6 DEF Process, Inv, TakenOnce
<1>8. owner = "held" => made # request[w]
  BY DEF Process, Inv, Held, TypeOK
<1>9. Held' /\ Answered'
  BY <1>3, <1>4, <1>8 DEF Process, Inv, Held, Answered, Pending
<1> QED
  BY <1>1, <1>2, <1>7, <1>9 DEF Inv

LEMMA InvHolds == Spec => []Inv
<1>1. Init => Inv
  <2> SUFFICES ASSUME Init PROVE Inv
    OBVIOUS
  <2>1. TypeOK
    <3>1. m_workqueue \in Seq(Nat) /\ m_queuestat \in Nat /\ made \in Nat
      BY DEF Init
    <3>2. pc \in [Workers -> {"unborn", "wait", "lock", "held", "process"}]
      BY DEF Init
    <3>3. request \in [Workers -> Nat]
      BY DEF Init
    <3> QED
      BY <3>1, <3>2, <3>3 DEF Init, TypeOK
  <2>2. Awake = {}
    BY DEF Init, Awake
  <2>3. PostsMatch
    BY <2>2, FS_EmptySet DEF Init, PostsMatch
  <2> QED
    BY <2>1, <2>3 DEF Init, Inv, TakenOnce, Held, Answered
<1>2. Inv /\ [Next]_vars => Inv'
  <2> SUFFICES ASSUME Inv, [Next]_vars PROVE Inv'
    OBVIOUS
  <2>1. CASE UNCHANGED vars
    <3>1. Awake' = Awake /\ Pending' = Pending
      BY <2>1 DEF vars, Awake, Pending
    <3> QED
      BY <2>1, <3>1 DEF vars, Inv, TypeOK, PostsMatch, TakenOnce, Held, Answered
  <2>2. CASE \E w \in Workers : Work(w)
    BY <2>2, WaitKeeps, LockAndLookKeeps, PopAndUnlockKeeps, ProcessKeeps DEF Work
  <2> QED
    BY <2>1, <2>2, CreateKeeps, OwnerKeeps, AppendRefusedKeeps, AppendPushKeeps
       DEF Next, Appending
<1> QED
  BY <1>1, <1>2, PTL DEF Spec

(* Lines 79 and 96 to 102: the list, the semaphore and the workers that woke *)
(* agree, so that no post is lost and none is wasted.                        *)
THEOREM PostsMatchHolds == Spec => []PostsMatch
BY InvHolds, PTL DEF Inv

(* Lines 97 to 110: however many workers there are, no request is given to   *)
(* two of them, or to one again, or out of turn.                             *)
THEOREM TakenOnceHolds == Spec => []TakenOnce
BY InvHolds, PTL DEF Inv

=============================================================================
