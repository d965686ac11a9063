----------------------------- MODULE ThreadPool ------------------------------
(* threadpool.h and the semaphore and mutex of locker.h: a thread appends    *)
(* requests to a list under a mutex and posts a semaphore for each; workers  *)
(* wait for the semaphore, take a request under the mutex and process it.    *)
(* Line 71 names the mutex's constructor where it means lock(), so that no   *)
(* program that calls append compiles; it is modelled as lock().             *)
(* Once the pool is destroyed, by its owner or because its constructor threw,*)
(* the workers that are left use freed memory: the model ends there.         *)
(*                                                                           *)
(* An operator named like another with a suffix is that operator with a      *)
(* plausible mistake, which the specification does not use (PostIfEmpty).    *)
EXTENDS Integers, Sequences, FiniteSets

CONSTANTS Workers,          \* the threads, of which there are m_thread_number
          m_max_request,
          MaxTask           \* bound: requests made

ASSUME WorkersAssumption == IsFiniteSet(Workers) /\ Workers # {}
ASSUME LimitAssumption == m_max_request \in Nat \ {0} /\ MaxTask \in Nat

VARIABLES
    owner,          \* where the thread is that made the pool and appends to it
    pc,             \* where each worker is
    m_workqueue,
    m_queuestat,    \* the semaphore's value
    m_queuelocker,  \* whether the mutex is held
    request,        \* what each worker has taken last, 0 before
    made,           \* requests the owner has called append for
    refused,        \* those append returned false for
    processed       \* those a worker has done

vars == <<owner, pc, m_workqueue, m_queuestat, m_queuelocker, request,
          made, refused, processed>>

Init ==
    /\ owner = "create"
    /\ pc = [w \in Workers |-> "unborn"]
    /\ m_workqueue = <<>> /\ m_queuestat = 0 /\ m_queuelocker = FALSE
    /\ request = [w \in Workers |-> 0]
    /\ made = 0 /\ refused = {} /\ processed = {}

Awake == {w \in Workers : pc[w] \in {"lock", "held"}}
Pending == 1 .. made \ (refused \union processed)

-----------------------------------------------------------------------------
(* The owner: the constructor, append and the destructor.                    *)

\* pthread_create and pthread_detach; the new thread may be the first to run.
Create(w) ==
    /\ owner = "create" /\ pc[w] = "unborn"
    /\ pc' = [pc EXCEPT ![w] = "wait"]
    /\ owner' = IF \A v \in Workers \ {w} : pc[v] # "unborn" THEN "idle" ELSE "create"
    /\ UNCHANGED <<m_workqueue, m_queuestat, m_queuelocker, request, made, refused,
                   processed>>

\* One of the two fails and the constructor throws; or the destructor.
Destroy ==
    /\ owner \in {"create", "idle"}
    /\ owner' = "gone"
    /\ UNCHANGED <<pc, m_workqueue, m_queuestat, m_queuelocker, request, made, refused,
                   processed>>

AppendLock ==
    /\ owner = "idle" /\ made < MaxTask /\ ~m_queuelocker
    /\ owner' = "held" /\ m_queuelocker' = TRUE
    /\ made' = made + 1
    /\ UNCHANGED <<pc, m_workqueue, m_queuestat, request, refused, processed>>

IsFull == Len(m_workqueue) > m_max_request

AppendRefused ==
    /\ owner = "held" /\ IsFull
    /\ owner' = "idle" /\ m_queuelocker' = FALSE
    /\ refused' = refused \union {made}
    /\ UNCHANGED <<pc, m_workqueue, m_queuestat, request, made, processed>>

AppendPush ==
    /\ owner = "held" /\ ~IsFull
    /\ m_workqueue' = Append(m_workqueue, made)
    /\ owner' = "post" /\ m_queuelocker' = FALSE
    /\ UNCHANGED <<pc, m_queuestat, request, made, refused, processed>>

PostIfEmpty == IF Len(m_workqueue) = 1 THEN m_queuestat + 1 ELSE m_queuestat
Posted == m_queuestat + 1

AppendPost ==
    /\ owner = "post"
    /\ m_queuestat' = Posted
    /\ owner' = "idle"
    /\ UNCHANGED <<pc, m_workqueue, m_queuelocker, request, made, refused, processed>>

-----------------------------------------------------------------------------
(* A worker: run.                                                            *)

Wait(w) ==
    /\ owner # "gone" /\ pc[w] = "wait" /\ m_queuestat > 0
    /\ m_queuestat' = m_queuestat - 1
    /\ pc' = [pc EXCEPT ![w] = "lock"]
    /\ UNCHANGED <<owner, m_workqueue, m_queuelocker, request, made, refused, processed>>

MayEnterAnyway == TRUE
MayEnter == ~m_queuelocker

\* The front is read under the mutex, and the pop follows.
LockAndLook(w) ==
    /\ owner # "gone" /\ pc[w] = "lock" /\ MayEnter
    /\ m_queuelocker' = TRUE
    /\ request' = IF m_workqueue = <<>> THEN request
                  ELSE [request EXCEPT ![w] = Head(m_workqueue)]
    /\ pc' = [pc EXCEPT ![w] = "held"]
    /\ UNCHANGED <<owner, m_workqueue, m_queuestat, made, refused, processed>>

\* An empty list sends the worker back to wait.
PopAndUnlock(w) ==
    /\ owner # "gone" /\ pc[w] = "held"
    /\ m_queuelocker' = FALSE
    /\ IF m_workqueue = <<>>
       THEN pc' = [pc EXCEPT ![w] = "wait"] /\ UNCHANGED m_workqueue
       ELSE pc' = [pc EXCEPT ![w] = "process"] /\ m_workqueue' = Tail(m_workqueue)
    /\ UNCHANGED <<owner, m_queuestat, request, made, refused, processed>>

Process(w) ==
    /\ owner # "gone" /\ pc[w] = "process"
    /\ processed' = processed \union {request[w]}
    /\ pc' = [pc EXCEPT ![w] = "wait"]
    /\ UNCHANGED <<owner, m_workqueue, m_queuestat, m_queuelocker, request, made,
                   refused>>

Appending == AppendRefused \/ AppendPush \/ AppendPost
Work(w) == Wait(w) \/ LockAndLook(w) \/ PopAndUnlock(w) \/ Process(w)

Next ==
    \/ (\E w \in Workers : Create(w)) \/ Destroy
    \/ AppendLock \/ Appending
    \/ \E w \in Workers : Work(w)

Spec == Init /\ [][Next]_vars

(* A call of append, once begun, returns, and every thread runs.  The pool   *)
(* need not be created in full, used or destroyed.                           *)
FairSpec == Spec /\ WF_vars(Appending) /\ \A w \in Workers : WF_vars(Work(w))

-----------------------------------------------------------------------------
TypeOK ==
    /\ owner \in {"create", "idle", "held", "post", "gone"}
    /\ pc \in [Workers -> {"unborn", "wait", "lock", "held", "process"}]
    /\ m_workqueue \in Seq(Nat)
    /\ m_queuestat \in Nat
    /\ m_queuelocker \in BOOLEAN
    /\ request \in [Workers -> Nat]
    /\ made \in Nat /\ refused \subseteq Nat /\ processed \subseteq Nat

(* Lines 79 and 96 to 102: every request in the list has a post that no      *)
(* worker has used up, a worker awake for it, or its append about to post;   *)
(* so none is left behind, and no worker that woke finds the list empty.     *)
PostsMatch ==
    Len(m_workqueue) = m_queuestat + Cardinality(Awake) + (IF owner = "post" THEN 1 ELSE 0)

(* Lines 97 to 106: one thread at a time is at the list, it pops the request *)
(* it looked at, and no request is given to two workers, or to one again.    *)
TakenOnce ==
    /\ \A w \in Workers : pc[w] = "held" =>
        /\ m_queuelocker /\ owner # "held"
        /\ m_workqueue # <<>> /\ request[w] = Head(m_workqueue)
    /\ \A w, v \in Workers : pc[w] = "held" /\ pc[v] = "held" => w = v
    /\ \A w, v \in Workers :
        pc[w] = "process" /\ pc[v] = "process" /\ request[w] = request[v] => w = v
    /\ \A w \in Workers : pc[w] = "process" => request[w] \in Pending
    /\ \A i, j \in 1 .. Len(m_workqueue) : i < j => m_workqueue[i] < m_workqueue[j]
    /\ \A i \in 1 .. Len(m_workqueue) : m_workqueue[i] \in Pending
    /\ \A i \in 1 .. Len(m_workqueue), w \in Workers :
        pc[w] = "process" => request[w] < m_workqueue[i]

(* Lines 69 to 111: a request that append took is processed while the pool   *)
(* lives.                                                                    *)
TasksServed ==
    \A t \in 1 .. MaxTask :
        (t \in Pending) ~> (t \in refused \union processed \/ owner = "gone")

=============================================================================
