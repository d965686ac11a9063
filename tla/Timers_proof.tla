---------------------------- MODULE Timers_proof ----------------------------
(* The two containers of timers.  For every finite set of timers and all     *)
(* times, the sorted list is well linked between and during calls, and       *)
(* implements the queue; the timer wheel comes after it.                     *)
EXTENDS TimerList, TimeWheelMC, FiniteSetTheorems, WellFoundedInduction, TLAPS

(* The objects L are linked both ways from h to z.  The last conjunct says   *)
(* that nothing of L is apart from the list: what holds of the first object, *)
(* and of the next one whenever it holds of an object, holds of all.         *)
Chain(L, h, z, nx, pv) ==
    /\ h # Null => h \in L /\ z \in L /\ pv[h] = Null /\ nx[z] = Null
    /\ \A t \in L \ {z} : nx[t] \in L /\ pv[nx[t]] = t
    /\ \A S \in SUBSET L :
          (h # Null => h \in S) /\ (\A t \in S \ {z} : nx[t] \in S) => S = L

Ordered(L, z, nx, ex) == \A t \in L \ {z} : ex[t] <= ex[nx[t]]

-----------------------------------------------------------------------------
(* What linking and unlinking an object does to a chain.                     *)

LEMMA EmptyChain ==
    ASSUME NEW L, NEW z, NEW nx, NEW pv
    PROVE  Chain(L, Null, z, nx, pv) <=> L = {}
<1>1. ASSUME Chain(L, Null, z, nx, pv)
      PROVE  L = {}
  <2> DEFINE S == {}
  <2>1. S \in SUBSET L /\ \A t \in S \ {z} : nx[t] \in S
    OBVIOUS
  <2>2. S = L
    BY <1>1, <2>1 DEF Chain
  <2> QED
    BY <2>2
<1>2. ASSUME L = {}
      PROVE  Chain(L, Null, z, nx, pv)
  BY <1>2 DEF Chain
<1> QED
  BY <1>1, <1>2

(* What the links of an object t of the chain are.                           *)
Placed(t, L, h, z, nx, pv) ==
    /\ h # Null /\ h \in L /\ z \in L
    /\ nx[t] = Null <=> t = z
    /\ t # z => nx[t] \in L /\ nx[t] # h /\ nx[t] # t
    /\ t # h => pv[t] \in L /\ pv[t] # z /\ pv[t] # t /\ nx[pv[t]] = t

LEMMA Neighbours ==
    ASSUME NEW L \in SUBSET Timers, NEW h, NEW z, NEW nx, NEW pv, Chain(L, h, z, nx, pv)
    PROVE  \A t \in L : Placed(t, L, h, z, nx, pv)
<1> SUFFICES ASSUME NEW t \in L
             PROVE  Placed(t, L, h, z, nx, pv)
  OBVIOUS
<1>0. \A S \in SUBSET L : (h # Null => h \in S) /\ (\A u \in S \ {z} : nx[u] \in S) => S = L
  BY DEF Chain
<1>1. h # Null
  BY EmptyChain
<1>2. h \in L /\ z \in L /\ pv[h] = Null /\ nx[z] = Null
  BY <1>1 DEF Chain
<1>3. \A u \in L : u # Null
  BY NullAssumption
<1>4. \A u \in L \ {z} : nx[u] \in L /\ pv[nx[u]] = u
  BY DEF Chain
<1>5. t # h => \E u \in L \ {z, t} : nx[u] = t
  <2> SUFFICES ASSUME t # h, \A u \in L \ {z, t} : nx[u] # t
               PROVE  FALSE
    OBVIOUS
  <2> DEFINE S == L \ {t}
  <2>1. S \in SUBSET L /\ h \in S
    BY <1>2
  <2>2. \A u \in S \ {z} : nx[u] \in S
    BY <1>4
  <2> HIDE DEF S
  <2>3. S = L
    BY <1>0, <2>1, <2>2
  <2> QED
    BY <2>3 DEF S
<1> QED
  BY <1>1, <1>2, <1>3, <1>4, <1>5 DEF Placed

LEMMA SameChain ==
    ASSUME NEW L, NEW h, NEW z, NEW nx, NEW pv, Chain(L, h, z, nx, pv),
           NEW nx2, NEW pv2, \A u \in L : nx2[u] = nx[u] /\ pv2[u] = pv[u]
    PROVE  Chain(L, h, z, nx2, pv2)
<1>1. ASSUME NEW S \in SUBSET L, h # Null => h \in S, \A t \in S \ {z} : nx2[t] \in S
      PROVE  S = L
  <2>1. \A t \in S \ {z} : nx[t] \in S
    BY <1>1
  <2> QED
    BY <1>1, <2>1 DEF Chain
<1>2. \A t \in L \ {z} : nx2[t] \in L /\ pv2[nx2[t]] = t
  BY DEF Chain
<1>3. h # Null => h \in L /\ z \in L /\ pv2[h] = Null /\ nx2[z] = Null
  BY DEF Chain
<1> QED
  BY <1>1, <1>2, <1>3 DEF Chain

LEMMA OneChain ==
    ASSUME NEW t \in Timers, NEW nx, NEW pv, nx[t] = Null, pv[t] = Null
    PROVE  Chain({t}, t, t, nx, pv)
BY NullAssumption DEF Chain

(* t becomes the first.                                                      *)
LEMMA PushChain ==
    ASSUME NEW L \in SUBSET Timers, NEW h, NEW z, NEW nx, NEW pv, Chain(L, h, z, nx, pv),
           h # Null, NEW t \in Timers \ L, NEW nx2, NEW pv2,
           nx2[t] = h, \A u \in L : nx2[u] = nx[u],
           pv2[t] = Null, pv2[h] = t, \A u \in L \ {h} : pv2[u] = pv[u]
    PROVE  Chain(L \union {t}, t, z, nx2, pv2)
<1>0. \A S \in SUBSET L : (h # Null => h \in S) /\ (\A u \in S \ {z} : nx[u] \in S) => S = L
  BY DEF Chain
<1>1. h \in L /\ z \in L /\ nx[z] = Null
  BY DEF Chain
<1>2. \A u \in L \ {z} : nx[u] \in L \ {h} /\ pv[nx[u]] = u
  <2>1. \A u \in L \ {z} : nx[u] \in L /\ pv[nx[u]] = u
    BY DEF Chain
  <2>2. \A u \in L \ {z} : nx[u] # h
    BY Neighbours DEF Placed
  <2> QED
    BY <2>1, <2>2
<1>3. \A u \in (L \union {t}) \ {z} : nx2[u] \in L \union {t} /\ pv2[nx2[u]] = u
  BY <1>1, <1>2
<1>4. ASSUME NEW S \in SUBSET (L \union {t}), t \in S, \A u \in S \ {z} : nx2[u] \in S
      PROVE  S = L \union {t}
  <2> DEFINE R == S \ {t}
  <2>1. R \in SUBSET L /\ h \in R
    BY <1>1, <1>4
  <2>2. \A u \in R \ {z} : nx[u] \in R
    BY <1>4 DEF Chain
  <2> HIDE DEF R
  <2>3. R = L
    BY <1>0, <2>1, <2>2
  <2> QED
    BY <1>4, <2>3 DEF R
<1>5. t \in L \union {t} /\ z \in L \union {t} /\ pv2[t] = Null /\ nx2[z] = Null /\ t # Null
  BY <1>1, NullAssumption
<1> QED
  BY <1>3, <1>4, <1>5 DEF Chain

(* t is linked behind p, which is not the last.                              *)
LEMMA InsertChain ==
    ASSUME NEW L \in SUBSET Timers, NEW h, NEW z, NEW nx, NEW pv, Chain(L, h, z, nx, pv),
           NEW t \in Timers \ L, NEW p \in L, p # z, NEW nx2, NEW pv2,
           nx2[p] = t, nx2[t] = nx[p], \A u \in L \ {p} : nx2[u] = nx[u],
           pv2[nx[p]] = t, pv2[t] = p, \A u \in L \ {nx[p]} : pv2[u] = pv[u]
    PROVE  Chain(L \union {t}, h, z, nx2, pv2)
<1>0. \A S \in SUBSET L : (h # Null => h \in S) /\ (\A u \in S \ {z} : nx[u] \in S) => S = L
  BY DEF Chain
<1>1. /\ h \in L /\ z \in L /\ nx[z] = Null /\ pv[h] = Null /\ h # Null
      /\ nx[p] \in L /\ nx[p] # h
  <2>1. h # Null /\ nx[p] \in L /\ nx[p] # h
    BY Neighbours DEF Placed
  <2> QED
    BY <2>1 DEF Chain
<1>2. \A u \in (L \union {t}) \ {z} : nx2[u] \in L \union {t} /\ pv2[nx2[u]] = u
  BY <1>1 DEF Chain
<1>3. ASSUME NEW S \in SUBSET (L \union {t}), h \in S, \A u \in S \ {z} : nx2[u] \in S
      PROVE  S = L \union {t}
  <2> DEFINE R == S \ {t}
  <2>1. R \in SUBSET L /\ h \in R
    BY <1>1, <1>3
  <2>2. ASSUME NEW u \in R \ {z}
        PROVE  nx[u] \in R
    <3>1. CASE u = p
      <4>1. t \in S /\ t # z
        BY <1>1, <1>3, <2>2, <3>1
      <4> QED
        BY <1>1, <1>3, <3>1, <4>1
    <3>2. CASE u # p
      BY <1>3, <2>2, <3>2 DEF Chain
    <3> QED
      BY <3>1, <3>2
  <2> HIDE DEF R
  <2>3. R = L
    BY <1>0, <2>1, <2>2
  <2>4. t \in S
    BY <1>3, <2>3 DEF R
  <2> QED
    BY <2>3, <2>4 DEF R
<1> QED
  BY <1>1, <1>2, <1>3 DEF Chain

(* t becomes the last.                                                       *)
LEMMA AppendChain ==
    ASSUME NEW L \in SUBSET Timers, NEW h, NEW z, NEW nx, NEW pv, Chain(L, h, z, nx, pv),
           h # Null, NEW t \in Timers \ L, NEW nx2, NEW pv2,
           nx2[z] = t, nx2[t] = Null, \A u \in L \ {z} : nx2[u] = nx[u],
           pv2[t] = z, \A u \in L : pv2[u] = pv[u]
    PROVE  Chain(L \union {t}, h, t, nx2, pv2)
<1>0. \A S \in SUBSET L : (h # Null => h \in S) /\ (\A u \in S \ {z} : nx[u] \in S) => S = L
  BY DEF Chain
<1>1. h \in L /\ z \in L /\ nx[z] = Null /\ pv[h] = Null
  BY DEF Chain
<1>2. \A u \in (L \union {t}) \ {t} : nx2[u] \in L \union {t} /\ pv2[nx2[u]] = u
  BY <1>1 DEF Chain
<1>3. ASSUME NEW S \in SUBSET (L \union {t}), h \in S, \A u \in S \ {t} : nx2[u] \in S
      PROVE  S = L \union {t}
  <2> DEFINE R == S \ {t}
  <2>1. R \in SUBSET L /\ h \in R
    BY <1>1, <1>3
  <2>2. \A u \in R \ {z} : nx[u] \in R
    BY <1>3 DEF Chain
  <2> HIDE DEF R
  <2>3. R = L
    BY <1>0, <2>1, <2>2
  <2>4. t \in S
    BY <1>1, <1>3, <2>3 DEF R
  <2> QED
    BY <2>3, <2>4 DEF R
<1> QED
  BY <1>1, <1>2, <1>3 DEF Chain

(* The first leaves.                                                         *)
LEMMA PopChain ==
    ASSUME NEW L \in SUBSET Timers, NEW h, NEW z, NEW nx, NEW pv, Chain(L, h, z, nx, pv),
           h # Null, h # z, NEW nx2, NEW pv2,
           \A u \in L \ {h} : nx2[u] = nx[u],
           pv2[nx[h]] = Null, \A u \in L \ {h, nx[h]} : pv2[u] = pv[u]
    PROVE  Chain(L \ {h}, nx[h], z, nx2, pv2)
<1>0. \A S \in SUBSET L : (h # Null => h \in S) /\ (\A u \in S \ {z} : nx[u] \in S) => S = L
  BY DEF Chain
<1>1. /\ h \in L /\ z \in L /\ nx[z] = Null
      /\ nx[h] \in L \ {h}
  <2>1. h \in L /\ z \in L /\ nx[z] = Null
    BY DEF Chain
  <2> QED
    BY <2>1, Neighbours DEF Placed
<1>2. \A u \in L \ {z} : nx[u] \in L \ {h} /\ pv[nx[u]] = u
  <2>1. \A u \in L \ {z} : nx[u] \in L /\ pv[nx[u]] = u
    BY DEF Chain
  <2>2. \A u \in L \ {z} : nx[u] # h
    BY Neighbours DEF Placed
  <2> QED
    BY <2>1, <2>2
<1>3. \A u \in (L \ {h}) \ {z} : nx2[u] \in L \ {h} /\ pv2[nx2[u]] = u
  BY <1>1, <1>2
<1>4. ASSUME NEW S \in SUBSET (L \ {h}), nx[h] \in S, \A u \in S \ {z} : nx2[u] \in S
      PROVE  S = L \ {h}
  <2> DEFINE R == S \union {h}
  <2>1. R \in SUBSET L /\ h \in R
    BY <1>1, <1>4
  <2>2. \A u \in R \ {z} : nx[u] \in R
    BY <1>4
  <2> HIDE DEF R
  <2>3. R = L
    BY <1>0, <2>1, <2>2
  <2> QED
    BY <2>3 DEF R
<1>5. nx[h] # Null => nx[h] \in L \ {h} /\ z \in L \ {h} /\ pv2[nx[h]] = Null /\ nx2[z] = Null
  BY <1>1
<1>6. nx[h] # Null
  BY <1>1, NullAssumption
<1> QED
  BY <1>3, <1>4, <1>5, <1>6 DEF Chain

LEMMA PopLast ==
    ASSUME NEW L \in SUBSET Timers, NEW h, NEW nx, NEW pv, Chain(L, h, h, nx, pv), h # Null
    PROVE  L = {h}
<1> DEFINE S == {h}
<1>1. h \in L
  BY DEF Chain
<1>2. S \in SUBSET L /\ \A t \in S \ {h} : nx[t] \in S
  BY <1>1
<1> QED
  BY <1>2 DEF Chain

(* The last leaves.                                                          *)
LEMMA CutTail ==
    ASSUME NEW L \in SUBSET Timers, NEW h, NEW z, NEW nx, NEW pv, Chain(L, h, z, nx, pv),
           h # Null, h # z, NEW nx2, NEW pv2,
           nx2[pv[z]] = Null, \A u \in L \ {z, pv[z]} : nx2[u] = nx[u],
           \A u \in L \ {z} : pv2[u] = pv[u]
    PROVE  Chain(L \ {z}, h, pv[z], nx2, pv2)
<1>0. \A S \in SUBSET L : (h # Null => h \in S) /\ (\A u \in S \ {z} : nx[u] \in S) => S = L
  BY DEF Chain
<1>1. /\ h \in L /\ z \in L /\ pv[h] = Null
      /\ pv[z] \in L \ {z} /\ nx[pv[z]] = z
  <2>1. h \in L /\ z \in L /\ pv[h] = Null
    BY DEF Chain
  <2>2. pv[z] \in L /\ pv[z] # z /\ nx[pv[z]] = z
    <3>1. Placed(z, L, h, z, nx, pv)
      BY <2>1, Neighbours
    <3> QED
      BY <3>1 DEF Placed
  <2>3. pv[z] \in L \ {z}
    BY <2>2
  <2> QED
    BY <2>1, <2>2, <2>3
<1>2. \A u \in (L \ {z}) \ {pv[z]} : nx2[u] \in L \ {z} /\ pv2[nx2[u]] = u
  <2>1. \A u \in L \ {z} : nx[u] \in L /\ pv[nx[u]] = u
    BY DEF Chain
  <2>2. \A u \in (L \ {z}) \ {pv[z]} : nx[u] \in L \ {z} /\ nx2[u] = nx[u]
    BY <1>1, <2>1
  <2>3. \A u \in L \ {z} : pv2[u] = pv[u]
    OBVIOUS
  <2> QED
    BY <2>1, <2>2, <2>3
<1>3. ASSUME NEW S \in SUBSET (L \ {z}), h \in S, \A u \in S \ {pv[z]} : nx2[u] \in S
      PROVE  S = L \ {z}
  <2>1. CASE pv[z] \in S
    <3> DEFINE R == S \union {z}
    <3>1. R \in SUBSET L /\ h \in R
      BY <1>1, <1>3
    <3>2. \A u \in R \ {z} : nx[u] \in R
      BY <1>1, <1>3
    <3> HIDE DEF R
    <3>3. R = L
      BY <1>0, <3>1, <3>2
    <3> QED
      BY <3>3 DEF R
  <2>2. CASE pv[z] \notin S
    <3>1. S \in SUBSET L /\ \A u \in S \ {z} : nx[u] \in S
      BY <1>3, <2>2
    <3>2. S = L
      BY <1>3, <3>1 DEF Chain
    <3> QED
      BY <1>1, <3>2
  <2> QED
    BY <2>1, <2>2
<1> QED
  BY <1>1, <1>2, <1>3 DEF Chain

(* One that is neither leaves.                                               *)
LEMMA CutInner ==
    ASSUME NEW L \in SUBSET Timers, NEW h, NEW z, NEW nx, NEW pv, Chain(L, h, z, nx, pv),
           NEW t \in L, t # h, t # z, NEW nx2, NEW pv2,
           nx2[pv[t]] = nx[t], \A u \in L \ {t, pv[t]} : nx2[u] = nx[u],
           pv2[nx[t]] = pv[t], \A u \in L \ {t, nx[t]} : pv2[u] = pv[u]
    PROVE  Chain(L \ {t}, h, z, nx2, pv2)
<1>0. \A S \in SUBSET L : (h # Null => h \in S) /\ (\A u \in S \ {z} : nx[u] \in S) => S = L
  BY DEF Chain
<1>1. /\ h # Null /\ h \in L /\ z \in L /\ pv[h] = Null /\ nx[z] = Null
      /\ pv[t] \in L \ {t, z} /\ nx[pv[t]] = t
      /\ nx[t] \in L \ {t, h}
  <2>1. /\ h # Null /\ pv[t] \in L \ {t, z} /\ nx[pv[t]] = t
        /\ nx[t] \in L \ {t, h}
    BY Neighbours DEF Placed
  <2> QED
    BY <2>1 DEF Chain
<1>2. \A u \in (L \ {t}) \ {z} : nx2[u] \in L \ {t} /\ pv2[nx2[u]] = u
  BY <1>1 DEF Chain
<1>3. ASSUME NEW S \in SUBSET (L \ {t}), h \in S, \A u \in S \ {z} : nx2[u] \in S
      PROVE  S = L \ {t}
  <2>1. CASE pv[t] \in S
    <3> DEFINE R == S \union {t}
    <3>1. R \in SUBSET L /\ h \in R
      BY <1>1, <1>3
    <3>2. nx[t] \in S
      BY <1>1, <1>3, <2>1
    <3>3. \A u \in R \ {z} : nx[u] \in R
      BY <1>1, <1>3, <3>2
    <3> HIDE DEF R
    <3>4. R = L
      BY <1>0, <3>1, <3>3
    <3> QED
      BY <3>4 DEF R
  <2>2. CASE pv[t] \notin S
    <3>1. S \in SUBSET L /\ \A u \in S \ {z} : nx[u] \in S
      BY <1>3, <2>2
    <3>2. S = L
      BY <1>3, <3>1 DEF Chain
    <3> QED
      BY <3>2
  <2> QED
    BY <2>1, <2>2
<1>4. pv2[h] = Null /\ nx2[z] = Null
  BY <1>1
<1> QED
  BY <1>1, <1>2, <1>3, <1>4 DEF Chain

(* The first of an ordered chain expires first.                              *)
LEMMA FirstExpires ==
    ASSUME NEW L \in SUBSET Timers, NEW h, NEW z, NEW nx, NEW pv, Chain(L, h, z, nx, pv),
           NEW ex \in [Timers -> Nat], Ordered(L, z, nx, ex)
    PROVE  \A t \in L : ex[h] <= ex[t]
<1>0. \A S \in SUBSET L : (h # Null => h \in S) /\ (\A u \in S \ {z} : nx[u] \in S) => S = L
  BY DEF Chain
<1> SUFFICES ASSUME NEW v \in L
             PROVE  \A t \in L : ex[h] <= ex[t]
  OBVIOUS
<1> DEFINE S == {t \in L : ex[h] <= ex[t]}
<1>1. h \in L
  BY Neighbours DEF Placed
<1>2. S \in SUBSET L /\ h \in S
  BY <1>1
<1>3. \A t \in S \ {z} : nx[t] \in S
  BY <1>1 DEF Chain, Ordered
<1>4. S = L
  BY <1>2, <1>3 DEF Chain
<1> QED
  BY <1>4
-----------------------------------------------------------------------------
(* The invariant.                                                            *)

(* A search is before an object that expires no later than the one to be     *)
(* linked; a tick is at the head.                                            *)
Locals ==
    /\ pc = "idle" => timer = Null /\ prv = Null /\ tmp = Null /\ cur = -1
    /\ pc = "insert" => /\ timer \in live /\ prv \in Linked /\ tmp = next[prv]
                        /\ expire[prv] <= expire[timer] /\ cur = -1
    /\ pc = "tick" => timer = Null /\ prv = Null /\ tmp = head /\ cur \in Times

Inv ==
    /\ TypeOK /\ Locals
    /\ Chain(Linked, head, tail, next, prev)
    /\ Ordered(Linked, tail, next, expire)

LEMMA LinkedFacts ==
    ASSUME Inv
    PROVE  /\ Linked \in SUBSET Timers /\ Null \notin Linked
           /\ timer = Null => Linked = live
           /\ head = Null => Linked = {}
           /\ head # Null => head \in Linked /\ tail \in Linked
<1>1. Linked \in SUBSET Timers /\ Null \notin Linked /\ (timer = Null => Linked = live)
  BY NullAssumption DEF Inv, TypeOK, Linked
<1>2. head = Null => Linked = {}
  BY EmptyChain DEF Inv
<1>3. head # Null => head \in Linked /\ tail \in Linked
  BY DEF Inv, Chain
<1> QED
  BY <1>1, <1>2, <1>3

LEMMA LinkedPlaced ==
    ASSUME Inv
    PROVE  \A t \in Linked : Placed(t, Linked, head, tail, next, prev)
BY LinkedFacts, Neighbours DEF Inv

LEMMA Returned == Return => Locals'
BY DEF Return, Locals

LEMMA InitHolds == Init => Inv /\ Promise!Init
<1> SUFFICES ASSUME Init PROVE Inv /\ Promise!Init
  OBVIOUS
<1>1. Linked = {}
  BY DEF Init, Linked
<1>2. TypeOK /\ Locals
  BY DEF Init, TypeOK, Locals, Pointer
<1>3. Chain(Linked, head, tail, next, prev)
  BY <1>1, EmptyChain DEF Init
<1>4. Ordered(Linked, tail, next, expire)
  BY <1>1 DEF Ordered
<1>5. Promise!Init
  BY DEF Init, Promise!Init
<1> QED
  BY <1>2, <1>3, <1>4, <1>5 DEF Inv

-----------------------------------------------------------------------------
(* The search for a place.                                                   *)

LEMMA InsertKeeps ==
    ASSUME Inv, insert
    PROVE  Inv' /\ UNCHANGED <<live, expire, cur>>
<1>1. /\ timer \in live /\ prv \in Linked /\ tmp = next[prv]
      /\ expire[prv] <= expire[timer] /\ cur = -1
  BY DEF insert, InsertSkip, InsertHere, InsertLast, Inv, Locals
<1>2. /\ Linked \in SUBSET Timers /\ Null \notin Linked /\ timer \in Timers \ Linked
      /\ live \subseteq Timers /\ timer # Null
  BY <1>1, LinkedFacts, NullAssumption DEF Linked, Inv, TypeOK
<1>3. /\ head # Null /\ head \in Linked /\ tail \in Linked
      /\ (tmp = Null <=> prv = tail) /\ (prv # tail => tmp \in Linked)
  <2>1. Chain(Linked, head, tail, next, prev)
    BY DEF Inv
  <2>2. /\ head # Null /\ head \in Linked /\ tail \in Linked
        /\ next[prv] = Null <=> prv = tail
        /\ prv # tail => next[prv] \in Linked
    BY <1>1, <1>2, <2>1, LinkedPlaced DEF Placed
  <2> QED
    BY <1>1, <2>2
<1>4. expire \in [Timers -> Nat] /\ next \in [Timers -> Pointer] /\ prev \in [Timers -> Pointer]
  BY DEF Inv, TypeOK
<1>5. CASE InsertSkip
  <2>1. /\ tmp # Null /\ expire[timer] >= expire[tmp]
        /\ prv' = tmp /\ tmp' = next[tmp] /\ pc = "insert"
        /\ UNCHANGED <<head, tail, prev, next, expire, live, pc, timer, cur>>
    BY <1>5 DEF InsertSkip, Skips, list
  <2>2. Linked' = Linked
    BY <2>1 DEF Linked
  <2>3. tmp \in Linked /\ (next[tmp] = Null \/ next[tmp] \in Linked)
    BY <1>2, <1>3, <2>1, LinkedPlaced DEF Placed
  <2>4. TypeOK'
    BY <2>1, <2>3 DEF Inv, TypeOK, Linked
  <2>5. Locals'
    BY <1>1, <1>2, <1>4, <2>1, <2>2, <2>3 DEF Locals
  <2> QED
    BY <2>1, <2>2, <2>4, <2>5 DEF Inv
<1>6. CASE InsertHere
  <2>1. /\ tmp # Null /\ expire[timer] < expire[tmp]
        /\ next' = [next EXCEPT ![prv] = timer, ![timer] = tmp]
        /\ prev' = [prev EXCEPT ![tmp] = timer, ![timer] = prv]
        /\ Return /\ timer' = Null /\ cur' = -1
        /\ UNCHANGED <<head, tail, expire, live>>
    BY <1>2, <1>3, <1>4, <1>6 DEF InsertHere, Skips, Return
  <2>2. Linked' = Linked \union {timer}
    BY <1>1, <1>2, <2>1, NullAssumption DEF Linked, Inv, TypeOK
  <2>3. prv # tail /\ tmp \in Linked
    BY <1>3, <2>1
  <2>4. /\ next'[prv] = timer /\ next'[timer] = tmp
        /\ \A u \in Linked \ {prv} : next'[u] = next[u]
        /\ prev'[tmp] = timer /\ prev'[timer] = prv
        /\ \A u \in Linked \ {tmp} : prev'[u] = prev[u]
    BY <1>1, <1>2, <1>4, <2>1, <2>3
  <2>5. Chain(Linked', head, tail, next', prev')
    BY <1>1, <1>2, <2>2, <2>3, <2>4, InsertChain DEF Inv
  <2>6. Ordered(Linked', tail, next', expire)
    BY <1>1, <1>2, <1>4, <2>1, <2>2, <2>3, <2>4 DEF Inv, Ordered
  <2>7. TypeOK'
    BY <1>1, <1>2, <2>1, <2>3 DEF Inv, TypeOK, Return, Pointer, Linked
  <2> QED
    BY <1>1, <2>1, <2>5, <2>6, <2>7, Returned DEF Inv
<1>7. CASE InsertLast
  <2>1. /\ tmp = Null
        /\ next' = [next EXCEPT ![prv] = timer, ![timer] = Null]
        /\ prev' = [prev EXCEPT ![timer] = prv] /\ tail' = timer
        /\ Return /\ timer' = Null /\ cur' = -1
        /\ UNCHANGED <<head, expire, live>>
    BY <1>7 DEF InsertLast, Return
  <2>2. Linked' = Linked \union {timer}
    BY <1>1, <1>2, <2>1, NullAssumption DEF Linked, Inv, TypeOK
  <2>3. prv = tail
    BY <1>3, <2>1
  <2>4. /\ next'[tail] = timer /\ next'[timer] = Null
        /\ \A u \in Linked \ {tail} : next'[u] = next[u]
        /\ prev'[timer] = tail /\ \A u \in Linked : prev'[u] = prev[u]
    BY <1>1, <1>2, <1>4, <2>1, <2>3
  <2>5. Chain(Linked', head, timer, next', prev')
    BY <1>2, <1>3, <2>2, <2>4, AppendChain DEF Inv
  <2>6. Ordered(Linked', timer, next', expire)
    BY <1>1, <2>2, <2>3, <2>4 DEF Inv, Ordered
  <2>7. TypeOK'
    BY <1>1, <1>2, <2>1 DEF Inv, TypeOK, Return, Pointer, Linked
  <2> QED
    BY <1>1, <2>1, <2>5, <2>6, <2>7, Returned DEF Inv
<1> QED
  BY <1>5, <1>6, <1>7 DEF insert, InsertSkip

-----------------------------------------------------------------------------
(* add_timer.                                                                *)

LEMMA AddKeeps ==
    ASSUME Inv, NEW t \in Timers, NEW e \in Times, add_timer(t, e)
    PROVE  Inv' /\ Promise!Add(t, e)
<1>1. /\ pc = "idle" /\ t \notin live /\ live' = live \union {t}
      /\ expire' = [expire EXCEPT ![t] = e] /\ cur' = cur
  BY DEF add_timer, AddFirstEver, AddFirst, AddLater, New, Search, locals
<1>2. /\ timer = Null /\ prv = Null /\ tmp = Null /\ cur = -1
      /\ Linked = live /\ Linked \in SUBSET Timers /\ t \in Timers \ Linked
      /\ t # Null /\ Null \notin Linked /\ e \in Nat
  BY <1>1, LinkedFacts, NullAssumption, TimesAssumption DEF Inv, Locals
<1>3. expire \in [Timers -> Nat] /\ next \in [Timers -> Pointer] /\ prev \in [Timers -> Pointer]
  BY DEF Inv, TypeOK
<1>4. /\ expire' \in [Timers -> Nat] /\ expire'[t] = e
      /\ \A u \in Linked : expire'[u] = expire[u]
  BY <1>1, <1>2, <1>3
<1>5. Promise!Add(t, e)
  BY <1>1, <1>2, <1>3 DEF Promise!Add, Promise!Set, Promise!Schedule
<1>6. CASE AddFirstEver(t, e)
  <2>1. /\ head = Null /\ head' = t /\ tail' = t
        /\ next' = [next EXCEPT ![t] = Null] /\ prev' = [prev EXCEPT ![t] = Null]
        /\ UNCHANGED <<pc, timer, prv, tmp, cur>>
    BY <1>6 DEF AddFirstEver, locals
  <2>2. Linked' = {t}
    BY <1>1, <1>2, <2>1, LinkedFacts DEF Linked
  <2>3. next'[t] = Null /\ prev'[t] = Null
    BY <1>3, <2>1
  <2>4. Chain(Linked', head', tail', next', prev')
    BY <2>1, <2>2, <2>3, OneChain
  <2>5. Ordered(Linked', tail', next', expire')
    BY <2>1, <2>2 DEF Ordered
  <2>6. TypeOK' /\ Locals'
    BY <1>1, <1>2, <1>4, <2>1 DEF Inv, TypeOK, Locals, Pointer
  <2> QED
    BY <1>5, <2>4, <2>5, <2>6 DEF Inv
<1>7. CASE AddFirst(t, e)
  <2>1. /\ head # Null /\ e < expire[head] /\ head' = t
        /\ next' = [next EXCEPT ![t] = head]
        /\ prev' = [prev EXCEPT ![t] = Null, ![head] = t]
        /\ UNCHANGED <<tail, pc, timer, prv, tmp, cur>>
    BY <1>7 DEF AddFirst, locals
  <2>2. Linked' = Linked \union {t}
    BY <1>1, <1>2, <2>1 DEF Linked
  <2>3. head \in Linked /\ tail \in Linked
    BY <2>1, LinkedFacts
  <2>4. /\ next'[t] = head /\ \A u \in Linked : next'[u] = next[u]
        /\ prev'[t] = Null /\ prev'[head] = t /\ \A u \in Linked \ {head} : prev'[u] = prev[u]
    BY <1>2, <1>3, <2>1, <2>3
  <2>5. Chain(Linked', t, tail, next', prev')
    <3>1. Chain(Linked, head, tail, next, prev)
      BY DEF Inv
    <3>2. Linked \in SUBSET Timers /\ t \in Timers \ Linked /\ head # Null
      BY <1>2, <2>1
    <3>3. Chain(Linked \union {t}, t, tail, next', prev')
      BY <2>4, <3>1, <3>2, PushChain
    <3> QED
      BY <2>2, <3>3
  <2>6. Ordered(Linked', tail, next', expire')
    <3>1. \A u \in Linked \ {tail} : next[u] \in Linked /\ expire[u] <= expire[next[u]]
      BY DEF Inv, Chain, Ordered
    <3> QED
      BY <1>2, <1>3, <1>4, <2>1, <2>2, <2>3, <2>4, <3>1 DEF Ordered
  <2>7. TypeOK' /\ Locals'
    BY <1>1, <1>2, <1>4, <2>1, <2>3 DEF Inv, TypeOK, Locals, Pointer
  <2> QED
    BY <1>5, <2>1, <2>5, <2>6, <2>7 DEF Inv
<1>8. CASE AddLater(t, e)
  <2>1. /\ head # Null /\ e >= expire[head] /\ pc' = "insert" /\ timer' = t
        /\ next' = [next EXCEPT ![t] = Null] /\ prev' = [prev EXCEPT ![t] = Null]
        /\ prv' = head /\ tmp' = next'[head]
        /\ UNCHANGED <<head, tail>>
    BY <1>8 DEF AddLater, Search
  <2>2. Linked' = Linked
    BY <1>1, <1>2, <2>1 DEF Linked
  <2>3. head \in Linked /\ tail \in Linked
    BY <2>1, LinkedFacts
  <2>4. \A u \in Linked : next'[u] = next[u] /\ prev'[u] = prev[u]
    BY <1>2, <1>3, <2>1
  <2>5. Chain(Linked', head', tail', next', prev')
    <3>1. Chain(Linked, head, tail, next, prev)
      BY DEF Inv
    <3>2. Chain(Linked, head, tail, next', prev')
      BY <2>4, <3>1, SameChain
    <3> QED
      BY <2>1, <2>2, <3>2
  <2>6. Ordered(Linked', tail', next', expire')
    <3>1. \A u \in Linked \ {tail} : next[u] \in Linked /\ expire[u] <= expire[next[u]]
      BY DEF Inv, Chain, Ordered
    <3> QED
      BY <1>4, <2>1, <2>2, <2>4, <3>1 DEF Ordered
  <2>7. next[head] = Null \/ next[head] \in Linked
    BY <1>2, <2>3, LinkedPlaced DEF Placed
  <2>8. TypeOK' /\ Locals'
    BY <1>1, <1>2, <1>3, <1>4, <2>1, <2>2, <2>3, <2>4, <2>7 DEF Inv, TypeOK, Locals, Pointer
  <2> QED
    BY <1>5, <2>5, <2>6, <2>8 DEF Inv
<1> QED
  BY <1>6, <1>7, <1>8 DEF add_timer

-----------------------------------------------------------------------------
(* adjust_timer.                                                             *)

LEMMA AdjustKeeps ==
    ASSUME Inv, NEW t \in Timers, NEW e \in Times, adjust_timer(t, e)
    PROVE  Inv' /\ Promise!Adjust(t, e)
<1>1. /\ pc = "idle" /\ t \in live /\ e >= expire[t] /\ live' = live
      /\ expire' = [expire EXCEPT ![t] = e] /\ cur' = cur
  BY DEF adjust_timer, AdjustInPlace, AdjustHead, AdjustInner, PutOff, Search, locals
<1>2. /\ timer = Null /\ prv = Null /\ tmp = Null /\ cur = -1
      /\ Linked = live /\ Linked \in SUBSET Timers /\ t \in Linked
      /\ t # Null /\ Null \notin Linked /\ e \in Nat
  BY <1>1, LinkedFacts, TimesAssumption DEF Inv, Locals
<1>3. expire \in [Timers -> Nat] /\ next \in [Timers -> Pointer] /\ prev \in [Timers -> Pointer]
  BY DEF Inv, TypeOK
<1>4. /\ expire' \in [Timers -> Nat] /\ expire'[t] = e
      /\ \A u \in Timers : u # t => expire'[u] = expire[u]
  BY <1>1, <1>2, <1>3
<1>5. Promise!Adjust(t, e)
  <2>1. \A u \in live \union {t} : u \in live
    BY <1>1
  <2>2. [u \in live |-> expire'[u]]
           = [u \in live \union {t} |-> IF u = t THEN e ELSE [v \in live |-> expire[v]][u]]
    BY <1>1, <1>2, <1>4, <2>1
  <2> QED
    BY <1>1, <1>2, <2>2 DEF Promise!Adjust, Promise!Set, Promise!Schedule
<1>6. Chain(Linked, head, tail, next, prev)
  BY DEF Inv
<1>7. \A u \in Linked \ {tail} : next[u] \in Linked /\ expire[u] <= expire[next[u]]
  BY DEF Inv, Chain, Ordered
<1>8. /\ head # Null /\ head \in Linked /\ tail \in Linked
      /\ next[t] = Null <=> t = tail
      /\ t # tail => next[t] \in Linked /\ next[t] # head /\ next[t] # t
      /\ t # head => prev[t] \in Linked \ {tail, t} /\ next[prev[t]] = t
  <2>1. Linked \in SUBSET Timers /\ t \in Linked
    BY <1>2
  <2>2. /\ head # Null /\ head \in Linked /\ tail \in Linked
        /\ next[t] = Null <=> t = tail
    BY <1>6, <2>1, LinkedPlaced DEF Placed
  <2>3. t # tail => next[t] \in Linked /\ next[t] # head /\ next[t] # t
    BY <1>6, <2>1, LinkedPlaced DEF Placed
  <2>4. ASSUME t # head
        PROVE  prev[t] \in Linked /\ prev[t] # tail /\ prev[t] # t /\ next[prev[t]] = t
    BY <1>6, <2>1, <2>4, LinkedPlaced DEF Placed
  <2> QED
    BY <2>2, <2>3, <2>4
<1>9. CASE AdjustInPlace(t, e)
  <2>1. /\ next[t] # Null => e < expire[next[t]]
        /\ UNCHANGED <<head, tail, prev, next, live, pc, timer, prv, tmp, cur>>
    BY <1>9 DEF AdjustInPlace, InPlace, locals
  <2>2. Linked' = Linked
    BY <1>1, <2>1 DEF Linked
  <2>3. ASSUME NEW u \in Linked \ {tail}
        PROVE  expire'[u] <= expire'[next[u]]
    <3>1. next[u] \in Linked /\ expire[u] <= expire[next[u]] /\ u \in Timers
          /\ expire[u] \in Nat /\ expire[next[u]] \in Nat
      BY <1>2, <1>3, <1>7
    <3>2. CASE u = t
      BY <1>2, <1>4, <1>8, <2>1, <3>1, <3>2
    <3>3. CASE u # t
      BY <1>1, <1>2, <1>4, <3>1, <3>3
    <3> QED
      BY <3>2, <3>3
  <2>4. Ordered(Linked', tail', next', expire')
    BY <2>1, <2>2, <2>3 DEF Ordered
  <2>5. TypeOK' /\ Locals'
    BY <1>1, <1>2, <1>4, <2>1 DEF Inv, TypeOK, Locals
  <2> QED
    BY <1>5, <1>6, <2>1, <2>2, <2>4, <2>5 DEF Inv
<1>10. CASE AdjustHead(t, e)
  <2>1. /\ t = head /\ next[t] # Null /\ e >= expire[next[t]]
        /\ head' = next[t]
        /\ prev' = [prev EXCEPT ![next[t]] = Null]
        /\ next' = [next EXCEPT ![t] = Null]
        /\ pc' = "insert" /\ timer' = t /\ prv' = next[t] /\ tmp' = next'[next[t]]
        /\ tail' = tail
    BY <1>2, <1>3, <1>8, <1>10 DEF AdjustHead, InPlace, Search
  <2>2. Linked' = Linked \ {t}
    BY <1>1, <1>2, <2>1 DEF Linked
  <2>3. /\ next[t] \in Linked \ {t} /\ t # tail
        /\ \A u \in Linked \ {t} : next'[u] = next[u]
        /\ prev'[next[t]] = Null
        /\ \A u \in Linked \ {t, next[t]} : prev'[u] = prev[u]
    BY <1>2, <1>3, <1>8, <2>1
  <2>4. Chain(Linked \ {head}, next[head], tail, next', prev')
    <3>1. Linked \in SUBSET Timers /\ head # Null /\ head # tail
      BY <1>2, <1>8, <2>1, <2>3
    <3>2. /\ \A u \in Linked \ {head} : next'[u] = next[u]
          /\ prev'[next[head]] = Null
          /\ \A u \in Linked \ {head, next[head]} : prev'[u] = prev[u]
      BY <2>1, <2>3
    <3> QED
      BY <1>6, <3>1, <3>2, PopChain
  <2>5. \A u \in (Linked \ {t}) \ {tail} : next[u] # t
    BY <1>2, <1>6, <2>1, LinkedPlaced DEF Placed
  <2>6. Ordered(Linked', tail', next', expire')
    BY <1>2, <1>4, <1>7, <2>1, <2>2, <2>3, <2>5 DEF Ordered
  <2>7. next[next[t]] = Null \/ next[next[t]] \in Linked
    BY <1>2, <1>6, <2>3, LinkedPlaced DEF Placed
  <2>8. TypeOK'
    BY <1>1, <1>2, <1>3, <1>4, <2>1, <2>3, <2>7 DEF Inv, TypeOK, Pointer
  <2>9. expire'[next[t]] <= expire'[t]
    BY <1>2, <1>4, <2>1, <2>3
  <2>10. Locals'
    BY <1>1, <1>2, <2>1, <2>2, <2>3, <2>9 DEF Locals
  <2> QED
    BY <1>5, <2>1, <2>2, <2>4, <2>6, <2>8, <2>10 DEF Inv
<1>11. CASE AdjustInner(t, e)
  <2>1. /\ t # head /\ next[t] # Null /\ e >= expire[next[t]]
        /\ next' = [next EXCEPT ![prev[t]] = next[t]]
        /\ prev' = [prev EXCEPT ![next[t]] = prev[t]]
        /\ pc' = "insert" /\ timer' = t /\ prv' = head /\ tmp' = next'[head]
        /\ tail' = tail /\ head' = head
    BY <1>2, <1>3, <1>8, <1>11 DEF AdjustInner, InPlace, Search
  <2>2. Linked' = Linked \ {t}
    BY <1>1, <1>2, <2>1 DEF Linked
  <2>3. /\ next[t] \in Linked \ {t} /\ t # tail
        /\ prev[t] \in Linked \ {t, tail} /\ next[prev[t]] = t
        /\ next'[prev[t]] = next[t]
        /\ \A u \in Linked \ {t, prev[t]} : next'[u] = next[u]
        /\ prev'[next[t]] = prev[t]
        /\ \A u \in Linked \ {t, next[t]} : prev'[u] = prev[u]
    BY <1>2, <1>3, <1>8, <2>1
  <2>4. Chain(Linked \ {t}, head, tail, next', prev')
    <3>1. Linked \in SUBSET Timers /\ t \in Linked /\ t # head /\ t # tail
      BY <1>2, <2>1, <2>3
    <3> QED
      BY <1>6, <2>3, <3>1, CutInner
  <2>5. \A u \in (Linked \ {t}) \ {tail} : next'[u] \in Linked \ {t}
    BY <2>4 DEF Chain
  <2>6. Ordered(Linked', tail', next', expire')
    <3>1. ASSUME NEW u \in (Linked \ {t}) \ {tail}
          PROVE  expire[u] <= expire[next'[u]]
      <4>1. CASE u = prev[t]
        <5>1. /\ expire[u] \in Nat /\ expire[t] \in Nat /\ expire[next[t]] \in Nat
              /\ expire[u] <= expire[t] /\ expire[t] <= expire[next[t]]
          BY <1>2, <1>3, <1>7, <2>3, <4>1
        <5> QED
          BY <2>3, <4>1, <5>1
      <4>2. CASE u # prev[t]
        BY <1>7, <2>3, <3>1, <4>2
      <4> QED
        BY <4>1, <4>2
    <3>2. \A u \in (Linked \ {t}) \ {tail} :
             expire'[u] = expire[u] /\ expire'[next'[u]] = expire[next'[u]]
      BY <1>2, <1>4, <2>5
    <3> QED
      BY <2>1, <2>2, <3>1, <3>2 DEF Ordered
  <2>7. next'[head] = Null \/ next'[head] \in Linked
    <3>1. CASE head = tail
      <4>1. next[head] = Null
        BY <1>6, <1>8, <3>1 DEF Chain
      <4> QED
        BY <1>8, <2>1, <2>3, <3>1, <4>1
    <3>2. CASE head # tail
      BY <1>8, <2>1, <2>5, <3>2
    <3> QED
      BY <3>1, <3>2
  <2>8. TypeOK'
    BY <1>1, <1>2, <1>3, <1>4, <1>8, <2>1, <2>3, <2>7 DEF Inv, TypeOK, Pointer
  <2>9. expire'[head] <= expire'[t]
    <3>1. expire[head] <= expire[t] /\ expire[head] \in Nat /\ expire[t] \in Nat
      BY <1>2, <1>3, <1>6, <1>8, FirstExpires DEF Inv
    <3> QED
      BY <1>1, <1>2, <1>4, <1>8, <2>1, <3>1
  <2>10. Locals'
    BY <1>1, <1>2, <1>8, <2>1, <2>2, <2>9 DEF Locals
  <2> QED
    BY <1>5, <2>1, <2>2, <2>4, <2>6, <2>8, <2>10 DEF Inv
<1> QED
  BY <1>9, <1>10, <1>11 DEF adjust_timer

-----------------------------------------------------------------------------
(* del_timer.                                                                *)

LEMMA DeleteKeeps ==
    ASSUME Inv, NEW t \in Timers, del_timer(t)
    PROVE  Inv' /\ Promise!Delete(t)
<1>1. /\ pc = "idle" /\ t \in live /\ live' = live \ {t}
      /\ UNCHANGED <<expire, pc, timer, prv, tmp, cur>>
  BY DEF del_timer, DelOnly, DelHead, DelTail, DelInner, Delete, locals
<1>2. /\ timer = Null /\ prv = Null /\ tmp = Null /\ cur = -1
      /\ Linked = live /\ Linked \in SUBSET Timers /\ t \in Linked
      /\ Linked' = Linked \ {t} /\ Null \notin Linked
  BY <1>1, LinkedFacts DEF Inv, Locals, Linked
<1>3. expire \in [Timers -> Nat] /\ next \in [Timers -> Pointer] /\ prev \in [Timers -> Pointer]
  BY DEF Inv, TypeOK
<1>4. Promise!Delete(t)
  BY <1>1, <1>2 DEF Promise!Delete, Promise!Set, Promise!Forget
<1>5. Chain(Linked, head, tail, next, prev) /\ Linked \in SUBSET Timers
  BY <1>2 DEF Inv
<1>6. \A u \in Linked \ {tail} : next[u] \in Linked /\ expire[u] <= expire[next[u]]
  BY DEF Inv, Chain, Ordered
<1>7. /\ head # Null /\ head \in Linked /\ tail \in Linked
      /\ t # tail => next[t] \in Linked /\ next[t] # head /\ next[t] # t
      /\ t # head => prev[t] \in Linked /\ prev[t] # tail /\ prev[t] # t /\ next[prev[t]] = t
  BY <1>2, LinkedPlaced DEF Placed
<1>8. Locals'
  BY <1>1, <1>2 DEF Locals
<1>9. CASE DelOnly(t)
  <2>1. t = head /\ t = tail /\ head' = Null /\ tail' = Null /\ UNCHANGED <<prev, next>>
    BY <1>9 DEF DelOnly
  <2>2. Linked' = {}
    <3>1. Linked = {head}
      BY <1>5, <1>7, <2>1, PopLast
    <3> QED
      BY <1>2, <2>1, <3>1
  <2>3. Chain(Linked', head', tail', next', prev')
    BY <2>1, <2>2, EmptyChain
  <2>4. Ordered(Linked', tail', next', expire')
    BY <2>2 DEF Ordered
  <2>5. TypeOK'
    BY <1>1, <1>2, <2>1 DEF Inv, TypeOK, Pointer
  <2> QED
    BY <1>4, <1>8, <2>3, <2>4, <2>5 DEF Inv
<1>10. CASE DelHead(t)
  <2>1. /\ t = head /\ t # tail /\ head' = next[t]
        /\ prev' = [prev EXCEPT ![next[t]] = Null] /\ UNCHANGED <<tail, next>>
    BY <1>10 DEF DelHead
  <2>2. /\ prev'[next[head]] = Null
        /\ \A u \in Linked \ {head, next[head]} : prev'[u] = prev[u]
        /\ \A u \in Linked \ {head} : next'[u] = next[u]
        /\ head # Null /\ head # tail
    BY <1>2, <1>3, <1>7, <2>1
  <2>3. Chain(Linked \ {head}, next[head], tail, next', prev')
    BY <1>5, <2>2, PopChain
  <2>4. Ordered(Linked', tail', next', expire')
    BY <1>1, <1>2, <1>6, <2>1 DEF Ordered
  <2>5. TypeOK'
    BY <1>1, <1>2, <1>3, <1>7, <2>1 DEF Inv, TypeOK, Pointer
  <2> QED
    BY <1>2, <1>4, <1>8, <2>1, <2>3, <2>4, <2>5 DEF Inv
<1>11. CASE DelTail(t)
  <2>1. /\ t # head /\ t = tail /\ tail' = prev[t]
        /\ next' = [next EXCEPT ![prev[t]] = Null] /\ UNCHANGED <<head, prev>>
    BY <1>11 DEF DelTail
  <2>2. /\ next'[prev[tail]] = Null
        /\ \A u \in Linked \ {tail, prev[tail]} : next'[u] = next[u]
        /\ \A u \in Linked \ {tail} : prev'[u] = prev[u]
        /\ head # Null /\ head # tail
    BY <1>2, <1>3, <1>7, <2>1
  <2>3. Chain(Linked \ {tail}, head, prev[tail], next', prev')
    BY <1>5, <2>2, CutTail
  <2>4. Ordered(Linked', tail', next', expire')
    BY <1>1, <1>2, <1>6, <2>1, <2>2 DEF Ordered
  <2>5. TypeOK'
    BY <1>1, <1>2, <1>3, <1>7, <2>1 DEF Inv, TypeOK, Pointer
  <2> QED
    BY <1>2, <1>4, <1>8, <2>1, <2>3, <2>4, <2>5 DEF Inv
<1>12. CASE DelInner(t)
  <2>1. /\ t # head /\ t # tail
        /\ next' = [next EXCEPT ![prev[t]] = next[t]]
        /\ prev' = [prev EXCEPT ![next[t]] = prev[t]] /\ UNCHANGED <<head, tail>>
    BY <1>12 DEF DelInner
  <2>2. /\ next'[prev[t]] = next[t] /\ prev'[next[t]] = prev[t]
        /\ \A u \in Linked \ {t, prev[t]} : next'[u] = next[u]
        /\ \A u \in Linked \ {t, next[t]} : prev'[u] = prev[u]
        /\ t \in Linked /\ t # head /\ t # tail
    BY <1>2, <1>3, <1>7, <2>1
  <2>3. Chain(Linked \ {t}, head, tail, next', prev')
    BY <1>5, <2>2, CutInner
  <2>4. Ordered(Linked', tail', next', expire')
    <3>1. ASSUME NEW u \in (Linked \ {t}) \ {tail}
          PROVE  expire[u] <= expire[next'[u]]
      <4>1. CASE u = prev[t]
        <5>1. /\ expire[u] \in Nat /\ expire[t] \in Nat /\ expire[next[t]] \in Nat
              /\ expire[u] <= expire[t] /\ expire[t] <= expire[next[t]]
          BY <1>2, <1>3, <1>6, <1>7, <2>1, <4>1
        <5> QED
          BY <2>2, <4>1, <5>1
      <4>2. CASE u # prev[t]
        BY <1>6, <2>2, <3>1, <4>2
      <4> QED
        BY <4>1, <4>2
    <3> QED
      BY <1>1, <1>2, <2>1, <3>1 DEF Ordered
  <2>5. TypeOK'
    BY <1>1, <1>2, <1>3, <1>7, <2>1 DEF Inv, TypeOK, Pointer
  <2> QED
    BY <1>2, <1>4, <1>8, <2>1, <2>3, <2>4, <2>5 DEF Inv
<1> QED
  BY <1>9, <1>10, <1>11, <1>12 DEF del_timer

-----------------------------------------------------------------------------
(* tick.                                                                     *)

LEMMA BeginKeeps ==
    ASSUME Inv, NEW now \in Times, TickBegin(now)
    PROVE  Inv' /\ Promise!TickBegin(now)
<1>1. /\ pc = "idle" /\ head # Null /\ pc' = "tick" /\ cur' = now /\ tmp' = head
      /\ UNCHANGED <<head, tail, prev, next, expire, live, timer, prv>>
  BY DEF TickBegin, list
<1>2. timer = Null /\ prv = Null /\ cur = -1
  BY <1>1 DEF Inv, Locals
<1>3. Linked' = Linked
  BY <1>1 DEF Linked
<1>4. TypeOK' /\ Locals'
  BY <1>1, <1>2 DEF Inv, TypeOK, Locals
<1>5. Promise!TickBegin(now)
  BY <1>1, <1>2 DEF Promise!TickBegin
<1> QED
  BY <1>1, <1>3, <1>4, <1>5 DEF Inv

LEMMA RunKeeps ==
    ASSUME Inv, TickRun
    PROVE  Inv' /\ \E t \in Timers : Promise!Run(t)
<1>1. /\ pc = "tick" /\ tmp # Null /\ expire[tmp] <= cur
      /\ head' = next[tmp] /\ tmp' = next[tmp]
      /\ prev' = IF next[tmp] = Null THEN prev ELSE [prev EXCEPT ![next[tmp]] = Null]
      /\ live' = live \ {tmp}
      /\ UNCHANGED <<tail, next, expire, pc, timer, prv, cur>>
  BY DEF TickRun, Due
<1>2. /\ timer = Null /\ prv = Null /\ tmp = head /\ cur \in Times /\ cur \in Nat
      /\ Linked = live /\ Linked \in SUBSET Timers /\ Null \notin Linked
      /\ head \in Linked /\ tail \in Linked /\ Linked' = Linked \ {head}
  BY <1>1, LinkedFacts, TimesAssumption DEF Inv, Locals, Linked
<1>3. expire \in [Timers -> Nat] /\ next \in [Timers -> Pointer] /\ prev \in [Timers -> Pointer]
  BY DEF Inv, TypeOK
<1>4. Chain(Linked, head, tail, next, prev) /\ Linked \in SUBSET Timers
  BY <1>2 DEF Inv
<1>5. /\ head # Null
      /\ next[head] = Null <=> head = tail
      /\ head # tail => next[head] \in Linked /\ next[head] # head
  BY <1>2, LinkedPlaced DEF Placed
<1>6. \A u \in live : expire[head] <= expire[u]
  BY <1>2, <1>3, <1>4, FirstExpires DEF Inv
<1>7. ASSUME NEW t \in Timers, t = head
      PROVE  Promise!Run(t)
  <2>1. live = DOMAIN [u \in live |-> expire[u]]
    OBVIOUS
  <2> QED
    BY <1>1, <1>2, <1>6, <1>7 DEF Promise!Run, Promise!Due, Promise!Set, Promise!Forget
<1>8. Chain(Linked', head', tail', next', prev')
  <2>1. CASE head = tail
    <3>1. Linked = {head}
      BY <1>4, <1>5, <2>1, PopLast
    <3>2. Linked' = {} /\ head' = Null
      BY <1>1, <1>2, <1>5, <2>1, <3>1
    <3> QED
      BY <3>2, EmptyChain
  <2>2. CASE head # tail
    <3>1. next[head] # Null /\ next[head] \in Linked
      BY <1>5, <2>2
    <3>2. /\ prev'[next[head]] = Null
          /\ \A u \in Linked \ {head, next[head]} : prev'[u] = prev[u]
          /\ \A u \in Linked \ {head} : next'[u] = next[u]
      BY <1>1, <1>2, <1>3, <3>1
    <3>3. Chain(Linked \ {head}, next[head], tail, next', prev')
      BY <1>4, <1>5, <2>2, <3>2, PopChain
    <3> QED
      BY <1>1, <1>2, <3>3
  <2> QED
    BY <2>1, <2>2
<1>9. Ordered(Linked', tail', next', expire')
  BY <1>1, <1>2 DEF Inv, Ordered
<1>10. TypeOK'
  BY <1>1, <1>2, <1>3, <1>5 DEF Inv, TypeOK, Pointer
<1>11. Locals'
  BY <1>1, <1>2 DEF Inv, Locals
<1>12. \E t \in Timers : Promise!Run(t)
  BY <1>2, <1>7
<1> QED
  BY <1>8, <1>9, <1>10, <1>11, <1>12 DEF Inv

LEMMA EndKeeps ==
    ASSUME Inv, TickEnd
    PROVE  Inv' /\ Promise!TickEnd
<1>1. /\ pc = "tick" /\ (tmp # Null => ~(expire[tmp] <= cur))
      /\ Return /\ pc' = "idle" /\ timer' = Null /\ prv' = Null /\ tmp' = Null /\ cur' = -1
      /\ UNCHANGED <<head, tail, prev, next, expire, live>>
  BY DEF TickEnd, Due, Return, list
<1>2. /\ timer = Null /\ tmp = head /\ cur \in Nat /\ Linked = live
      /\ Linked \in SUBSET Timers
  BY <1>1, LinkedFacts, TimesAssumption DEF Inv, Locals
<1>3. Linked' = Linked
  BY <1>1, <1>2 DEF Linked
<1>4. expire \in [Timers -> Nat]
  BY DEF Inv, TypeOK
<1>5. \A u \in live : ~(expire[u] <= cur)
  <2>1. CASE head = Null
    BY <1>2, <2>1, LinkedFacts
  <2>2. CASE head # Null
    <3>1. head \in Linked
      BY <2>2, LinkedFacts
    <3>2. \A u \in live : expire[head] <= expire[u]
      BY <1>2, <1>4, FirstExpires DEF Inv
    <3> QED
      BY <1>1, <1>2, <1>4, <2>2, <3>1, <3>2
  <2> QED
    BY <2>1, <2>2
<1>6. Promise!TickEnd
  BY <1>1, <1>2, <1>5 DEF Promise!TickEnd, Promise!Due, Promise!Set
<1>7. TypeOK' /\ Locals'
  BY <1>1, Returned DEF Inv, TypeOK
<1> QED
  BY <1>1, <1>3, <1>6, <1>7 DEF Inv

-----------------------------------------------------------------------------
(* All steps.                                                                *)

pending == [t \in live |-> expire[t]]

LEMMA StepKeeps == Inv /\ [Next]_vars => Inv' /\ [Promise!Next]_<<pending, cur>>
<1> SUFFICES ASSUME Inv, [Next]_vars
             PROVE  Inv' /\ [Promise!Next]_<<pending, cur>>
  OBVIOUS
<1>1. CASE UNCHANGED vars
  <2>1. UNCHANGED <<head, tail, prev, next, expire, live, pc, timer, prv, tmp, cur>>
    BY <1>1 DEF vars, list, locals
  <2> QED
    BY <2>1 DEF Inv, TypeOK, Locals, Linked, pending
<1>2. CASE insert
  BY <1>2, InsertKeeps DEF pending
<1>3. CASE TickRun
  BY <1>3, RunKeeps DEF Promise!Next
<1>4. CASE TickEnd
  BY <1>4, EndKeeps DEF Promise!Next
<1>5. ASSUME NEW now \in Times, TickBegin(now)
      PROVE  Inv' /\ Promise!Next
  BY <1>5, BeginKeeps DEF Promise!Next
<1>6. ASSUME NEW t \in Timers, NEW e \in Times, add_timer(t, e) \/ adjust_timer(t, e)
      PROVE  Inv' /\ Promise!Next
  BY <1>6, AddKeeps, AdjustKeeps DEF Promise!Next
<1>7. ASSUME NEW t \in Timers, del_timer(t)
      PROVE  Inv' /\ Promise!Next
  BY <1>7, DeleteKeeps DEF Promise!Next
<1> QED
  BY <1>1, <1>2, <1>3, <1>4, <1>5, <1>6, <1>7 DEF Next, Loop

(* Every pointer the list keeps is null or a timer, and head and the locals  *)
(* of the loops are timers not yet deleted (lines 45 to 175).                *)
THEOREM TypeCorrect == Spec => []TypeOK
BY InitHolds, StepKeeps, PTL DEF Spec, Inv

(* For any number of timers and all times, a tick (lines 125 to 148) runs    *)
(* every timer that is due and no other, the earliest first.                 *)
THEOREM Implements == Spec => RunsDueInOrder
BY InitHolds, StepKeeps, PTL DEF Spec, RunsDueInOrder, Promise!Spec, pending

-----------------------------------------------------------------------------
(* Walking the list from the head on.  The recursive function Nth is what    *)
(* its definition says: for each k there is one walk of k steps.             *)

LEMMA LeastOf ==
    ASSUME NEW S \in SUBSET Nat, S # {}
    PROVE  \E m \in S : \A q \in S : m <= q
<1>1. PICK m \in S : \A q \in S : ~ (<<q, m>> \in OpToRel(<, Nat))
  BY NatLessThanWellFounded, WFMin
<1>2. \A q \in S : ~ (q < m)
  BY <1>1 DEF OpToRel
<1> QED
  BY <1>2

LEMMA AllOfNat ==
    ASSUME NEW S \in SUBSET Nat, 0 \in S, \A n \in S : n + 1 \in S
    PROVE  S = Nat
<1> SUFFICES ASSUME Nat \ S # {}
             PROVE  FALSE
  OBVIOUS
<1>1. PICK m \in Nat \ S : \A q \in Nat \ S : m <= q
  BY LeastOf
<1>2. m - 1 \in Nat /\ m - 1 \in S
  BY <1>1
<1>3. (m - 1) + 1 \in S
  BY <1>2
<1> QED
  BY <1>1, <1>3

Step(x) == IF x = Null THEN Null ELSE next[x]

IsWalk(f, n) ==
    f[0] = head /\ \A k \in 1 .. n : f[k] = Step(f[k - 1])

LEMMA WalkExists == \A n \in Nat : \E f : IsWalk(f, n)
<1> DEFINE S == {n \in Nat : \E f : IsWalk(f, n)}
<1>1. 0 \in S
  <2> DEFINE f == [k \in {0} |-> head]
  <2>1. IsWalk(f, 0)
    BY DEF IsWalk
  <2> HIDE DEF f
  <2> QED
    BY <2>1
<1>2. ASSUME NEW n \in S
      PROVE  n + 1 \in S
  <2>1. PICK f : IsWalk(f, n)
    OBVIOUS
  <2> DEFINE g == [k \in 0 .. n + 1 |-> IF k = n + 1 THEN Step(f[n]) ELSE f[k]]
  <2>2. n \in Nat
    OBVIOUS
  <2>3. g[0] = head
    BY <2>1, <2>2 DEF IsWalk
  <2>4. ASSUME NEW k \in 1 .. n + 1
        PROVE  g[k] = Step(g[k - 1])
    <3>1. CASE k = n + 1
      <4>1. k - 1 = n /\ k \in 0 .. n + 1 /\ n \in 0 .. n + 1 /\ n # n + 1
        BY <2>2, <3>1
      <4> QED
        BY <3>1, <4>1
    <3>2. CASE k # n + 1
      <4>1. k \in 1 .. n /\ k - 1 \in 0 .. n + 1 /\ k - 1 # n + 1 /\ k \in 0 .. n + 1
        BY <2>2, <3>2
      <4> QED
        BY <2>1, <3>2, <4>1 DEF IsWalk
    <3> QED
      BY <3>1, <3>2
  <2> HIDE DEF g
  <2>5. IsWalk(g, n + 1)
    BY <2>3, <2>4 DEF IsWalk
  <2> QED
    BY <2>2, <2>5
<1> HIDE DEF S
<1>3. S = Nat
  <2>1. S \in SUBSET Nat
    BY DEF S
  <2> QED
    BY <1>1, <1>2, <2>1, AllOfNat
<1> QED
  BY <1>3 DEF S

LEMMA WalksAgree ==
    ASSUME NEW n \in Nat, NEW m \in Nat, NEW f, NEW g, IsWalk(f, n), IsWalk(g, m)
    PROVE  \A k \in Nat : k <= n /\ k <= m => f[k] = g[k]
<1> DEFINE S == {k \in Nat : k <= n /\ k <= m => f[k] = g[k]}
<1>1. 0 \in S
  BY DEF IsWalk
<1>2. ASSUME NEW k \in S
      PROVE  k + 1 \in S
  <2> SUFFICES ASSUME k + 1 <= n, k + 1 <= m
               PROVE  f[k + 1] = g[k + 1]
    OBVIOUS
  <2>1. k \in Nat /\ k + 1 \in 1 .. n /\ k + 1 \in 1 .. m /\ (k + 1) - 1 = k
    OBVIOUS
  <2>2. f[k + 1] = Step(f[k]) /\ g[k + 1] = Step(g[k])
    BY <2>1 DEF IsWalk
  <2>3. f[k] = g[k]
    BY <2>1
  <2> QED
    BY <2>2, <2>3
<1> HIDE DEF S
<1>3. S = Nat
  <2>1. S \in SUBSET Nat
    BY DEF S
  <2> QED
    BY <1>1, <1>2, <2>1, AllOfNat
<1> QED
  BY <1>3 DEF S

LEMMA NthSteps == Nth[0] = head /\ \A k \in Nat : Nth[k + 1] = Step(Nth[k])
<1> DEFINE W(n) == CHOOSE f : IsWalk(f, n)
           g == [k \in Nat |-> W(k)[k]]
<1>1. \A n \in Nat : IsWalk(W(n), n)
  BY WalkExists
<1> HIDE DEF W
<1>2. g[0] = head
  BY <1>1 DEF IsWalk
<1>3. ASSUME NEW k \in Nat
      PROVE  g[k + 1] = Step(g[k])
  <2>1. k + 1 \in Nat /\ k + 1 \in 1 .. k + 1 /\ (k + 1) - 1 = k /\ k <= k + 1 /\ k <= k
    OBVIOUS
  <2>2. W(k + 1)[k + 1] = Step(W(k + 1)[k])
    BY <1>1, <2>1 DEF IsWalk
  <2>3. W(k + 1)[k] = W(k)[k]
    BY <1>1, <2>1, WalksAgree
  <2> QED
    BY <2>1, <2>2, <2>3
<1> HIDE DEF g
<1>4. g = [k \in Nat |-> IF k = 0 THEN head
                         ELSE IF g[k - 1] = Null THEN Null ELSE next[g[k - 1]]]
  <2>1. g = [k \in Nat |-> g[k]]
    BY DEF g
  <2>2. ASSUME NEW k \in Nat
        PROVE  g[k] = IF k = 0 THEN head
                      ELSE IF g[k - 1] = Null THEN Null ELSE next[g[k - 1]]
    <3>1. CASE k = 0
      BY <1>2, <3>1
    <3>2. CASE k # 0
      <4>1. k - 1 \in Nat /\ (k - 1) + 1 = k
        BY <3>2
      <4>2. g[k] = Step(g[k - 1])
        BY <1>3, <4>1
      <4> QED
        BY <3>2, <4>2 DEF Step
    <3> QED
      BY <3>1, <3>2
  <2> QED
    BY <2>1, <2>2
<1>5. Nth = [k \in Nat |-> IF k = 0 THEN head
                           ELSE IF Nth[k - 1] = Null THEN Null ELSE next[Nth[k - 1]]]
  BY <1>4 DEF Nth
<1>6. Nth[0] = head
  BY <1>5
<1>7. ASSUME NEW k \in Nat
      PROVE  Nth[k + 1] = Step(Nth[k])
  <2>1. k + 1 \in Nat /\ k + 1 # 0 /\ (k + 1) - 1 = k
    OBVIOUS
  <2>2. Nth[k + 1] = IF k + 1 = 0 THEN head
                     ELSE IF Nth[(k + 1) - 1] = Null THEN Null ELSE next[Nth[(k + 1) - 1]]
    BY <1>5, <2>1
  <2> QED
    BY <2>1, <2>2 DEF Step
<1> QED
  BY <1>6, <1>7

(* The walk stays in the list, visits all of it, and nothing twice.          *)
LEMMA NthIn ==
    ASSUME Inv
    PROVE  \A k \in Nat : Nth[k] \in Linked \union {Null}
<1> DEFINE S == {k \in Nat : Nth[k] \in Linked \union {Null}}
<1>1. 0 \in S
  BY NthSteps, LinkedFacts
<1>2. ASSUME NEW k \in S
      PROVE  k + 1 \in S
  <2>1. Nth[k + 1] = Step(Nth[k]) /\ k \in Nat /\ Nth[k] \in Linked \union {Null}
    BY NthSteps
  <2>2. Step(Nth[k]) \in Linked \union {Null}
    BY <2>1, LinkedPlaced DEF Step, Placed
  <2> QED
    BY <2>1, <2>2
<1> HIDE DEF S
<1>3. S = Nat
  <2>1. S \in SUBSET Nat
    BY DEF S
  <2> QED
    BY <1>1, <1>2, <2>1, AllOfNat
<1> QED
  BY <1>3 DEF S

(* How the walk comes to the object after the k-th.                          *)
LEMMA NthNext ==
    ASSUME Inv, NEW k \in Nat, Nth[k + 1] # Null
    PROVE  /\ Nth[k] \in Linked /\ Nth[k + 1] \in Linked
           /\ Nth[k + 1] = next[Nth[k]] /\ Nth[k + 1] # head /\ prev[Nth[k + 1]] = Nth[k]
<1>1. Nth[k + 1] = Step(Nth[k]) /\ Nth[k] # Null
  BY NthSteps DEF Step
<1>2. Nth[k] \in Linked /\ Nth[k + 1] \in Linked
  BY <1>1, NthIn
<1>3. Nth[k + 1] = next[Nth[k]]
  BY <1>1 DEF Step
<1>4. Nth[k] # tail /\ Nth[k + 1] # head
  BY <1>2, <1>3, LinkedPlaced DEF Placed
<1>5. prev[next[Nth[k]]] = Nth[k]
  BY <1>2, <1>4 DEF Inv, Chain
<1> QED
  BY <1>2, <1>3, <1>4, <1>5

LEMMA NthReaches ==
    ASSUME Inv, NEW t \in Linked
    PROVE  \E k \in Nat : Nth[k] = t
<1> DEFINE S == {u \in Linked : \E k \in Nat : Nth[k] = u}
<1>1. S \in SUBSET Linked
  OBVIOUS
<1>2. head # Null => head \in S
  BY NthSteps, LinkedFacts
<1>3. ASSUME NEW u \in S \ {tail}
      PROVE  next[u] \in S
  <2>1. PICK k \in Nat : Nth[k] = u
    OBVIOUS
  <2>2. u # Null /\ next[u] \in Linked
    BY LinkedFacts, LinkedPlaced DEF Placed
  <2>3. Nth[k + 1] = next[u] /\ k + 1 \in Nat
    BY <2>1, <2>2, NthSteps DEF Step
  <2> QED
    BY <2>2, <2>3
<1> HIDE DEF S
<1>4. S = Linked
  BY <1>1, <1>2, <1>3 DEF Inv, Chain
<1> QED
  BY <1>4 DEF S

LEMMA NthNoNull ==
    ASSUME Inv, NEW k \in Nat, Nth[k] # Null
    PROVE  \A i \in 0 .. k : Nth[i] # Null
<1> DEFINE S == {n \in Nat : Nth[n] # Null => \A i \in 0 .. n : Nth[i] # Null}
<1>1. 0 \in S
  OBVIOUS
<1>2. ASSUME NEW n \in S
      PROVE  n + 1 \in S
  <2> SUFFICES ASSUME Nth[n + 1] # Null, NEW i \in 0 .. n + 1
               PROVE  Nth[i] # Null
    OBVIOUS
  <2>1. n \in Nat /\ Nth[n] # Null
    BY NthSteps DEF Step
  <2>2. CASE i = n + 1
    BY <2>2
  <2>3. CASE i \in 0 .. n
    BY <2>1, <2>3
  <2> QED
    BY <2>1, <2>2, <2>3
<1> HIDE DEF S
<1>3. S = Nat
  <2>1. S \in SUBSET Nat
    BY DEF S
  <2> QED
    BY <1>1, <1>2, <2>1, AllOfNat
<1> QED
  BY <1>3 DEF S

LEMMA NthDistinct ==
    ASSUME Inv
    PROVE  \A i, j \in Nat : i < j /\ Nth[j] # Null => Nth[i] # Nth[j]
<1> DEFINE S == {i \in Nat : \A j \in Nat : i < j /\ Nth[j] # Null => Nth[i] # Nth[j]}
<1>1. 0 \in S
  <2> SUFFICES ASSUME NEW j \in Nat, 0 < j, Nth[j] # Null
               PROVE  Nth[0] # Nth[j]
    OBVIOUS
  <2>1. j - 1 \in Nat /\ (j - 1) + 1 = j
    OBVIOUS
  <2>2. Nth[j] # head
    BY <2>1, NthNext
  <2> QED
    BY <2>2, NthSteps
<1>2. ASSUME NEW i \in S
      PROVE  i + 1 \in S
  <2> SUFFICES ASSUME NEW j \in Nat, i + 1 < j, Nth[j] # Null, Nth[i + 1] = Nth[j]
               PROVE  FALSE
    OBVIOUS
  <2>1. i \in Nat /\ j - 1 \in Nat /\ (j - 1) + 1 = j /\ i < j - 1
    OBVIOUS
  <2>2. prev[Nth[j]] = Nth[j - 1] /\ Nth[j - 1] \in Linked
    BY <2>1, NthNext
  <2>3. prev[Nth[i + 1]] = Nth[i]
    BY <2>1, NthNext
  <2>4. Nth[i] = Nth[j - 1] /\ Nth[j - 1] # Null
    BY <2>2, <2>3, LinkedFacts
  <2> QED
    BY <2>1, <2>4
<1> HIDE DEF S
<1>3. S = Nat
  <2>1. S \in SUBSET Nat
    BY DEF S
  <2> QED
    BY <1>1, <1>2, <2>1, AllOfNat
<1> QED
  BY <1>3 DEF S

LEMMA NthBound ==
    ASSUME Inv, NEW k \in Nat, Nth[k] # Null
    PROVE  k <= Cardinality(Timers)
<1> DEFINE f == [i \in 0 .. k |-> Nth[i]]
<1>1. \A i \in 0 .. k : Nth[i] \in Timers
  BY NthIn, NthNoNull, LinkedFacts
<1>2. f \in Injection(0 .. k, Timers)
  <2>1. ASSUME NEW i \in 0 .. k, NEW j \in 0 .. k, f[i] = f[j]
        PROVE  i = j
    <3>1. i \in Nat /\ j \in Nat /\ Nth[i] = Nth[j] /\ Nth[i] # Null
      BY <2>1, NthNoNull
    <3> QED
      BY <3>1, NthDistinct
  <2> QED
    BY <1>1, <2>1 DEF Injection, IsInjective
<1>3. IsFiniteSet(0 .. k) /\ Cardinality(0 .. k) = k + 1
  BY FS_Interval
<1>4. Cardinality(0 .. k) <= Cardinality(Timers)
  BY <1>2, TimersAssumption, FS_Injection
<1>5. Cardinality(Timers) \in Nat
  BY TimersAssumption, FS_CardinalityType
<1> QED
  BY <1>3, <1>4, <1>5

LEMMA InvImpliesWellLinked == Inv => WellLinked
<1> SUFFICES ASSUME Inv
             PROVE  WellLinked
  OBVIOUS
<1> DEFINE Met == {Nth[k] : k \in 0 .. Cardinality(Timers)} \ {Null}
<1>1. Met \subseteq Linked
  <2>1. 0 .. Cardinality(Timers) \subseteq Nat
    OBVIOUS
  <2> QED
    BY <2>1, NthIn
<1>2. ASSUME NEW t \in Linked
      PROVE  t \in Met
  <2>1. PICK k \in Nat : Nth[k] = t
    BY NthReaches
  <2>2. t # Null
    BY LinkedFacts
  <2>3. k <= Cardinality(Timers)
    BY <2>1, <2>2, NthBound
  <2>4. k \in 0 .. Cardinality(Timers)
    BY <2>3, TimersAssumption, FS_CardinalityType
  <2> QED
    BY <2>1, <2>2, <2>4
<1>3. Met = Linked
  BY <1>1, <1>2
<1>4. head # Null => tail \in Linked /\ prev[head] = Null /\ next[tail] = Null
  BY DEF Inv, Chain
<1>5. \A t \in Linked \ {tail} :
         next[t] \in Linked /\ prev[next[t]] = t /\ expire[t] <= expire[next[t]]
  BY DEF Inv, Chain, Ordered
<1> QED
  BY <1>3, <1>4, <1>5 DEF WellLinked

(* For any number of timers the list can be walked both ways between and     *)
(* during calls, holds every timer but the one being inserted, and nothing   *)
(* freed (lines 45 to 175).                                                  *)
THEOREM WellLinkedHolds == Spec => []WellLinked
BY InitHolds, StepKeeps, InvImpliesWellLinked, PTL DEF Spec

-----------------------------------------------------------------------------
(* The timer wheel: for every number of slots, interval and set of timers it *)
(* keeps its timers in the slots they name, and implements Countdown.        *)

(* What / and % of the source give for the numbers that occur.               *)
LEMMA DivMod ==
    ASSUME NEW a \in Nat, NEW n \in Nat \ {0}
    PROVE  /\ a = (a \div n) * n + (a % n)
           /\ a \div n \in Nat /\ a % n \in 0 .. n - 1
OBVIOUS

LEMMA ModSmall ==
    ASSUME NEW a \in Nat, NEW n \in Nat \ {0}, a < 2 * n
    PROVE  a % n = IF a < n THEN a ELSE a - n
OBVIOUS

(* The slot that add_timer picks is ticks % N steps ahead (line 71).         *)
LEMMA SlotAhead ==
    ASSUME NEW ticks \in Nat, cur_slot \in Wheel!Slots
    PROVE  /\ Wheel!SlotOf(ticks) \in Wheel!Slots
           /\ Wheel!Distance(cur_slot, Wheel!SlotOf(ticks)) = ticks % N
<1>1. N \in Nat \ {0} /\ cur_slot \in 0 .. N - 1
  BY WheelAssumption DEF Wheel!Slots, Wheel!Parameters
<1>2. ticks % N \in 0 .. N - 1
  BY <1>1, DivMod
<1> DEFINE s == cur_slot + (ticks % N)
<1>3. s \in Nat /\ s < 2 * N
  BY <1>1, <1>2
<1>4. s % N = IF s < N THEN s ELSE s - N
  BY <1>1, <1>3, ModSmall
<1>5. Wheel!SlotOf(ticks) = IF s < N THEN s ELSE s - N
  BY <1>4 DEF Wheel!SlotOf
<1> QED
  BY <1>1, <1>2, <1>5 DEF Wheel!Slots, Wheel!Distance

(* A tick brings the wheel one slot nearer to every slot but the current one.*)
LEMMA Nearer ==
    ASSUME NEW c \in Wheel!Slots, NEW j \in Wheel!Slots
    PROVE  /\ (c + 1) % N \in Wheel!Slots
           /\ Wheel!Distance((c + 1) % N, j) = IF c = j THEN N - 1 ELSE Wheel!Distance(c, j) - 1
<1>1. N \in Nat \ {0} /\ c \in 0 .. N - 1 /\ j \in 0 .. N - 1
  BY WheelAssumption DEF Wheel!Slots, Wheel!Parameters
<1> DEFINE s == c + 1
<1>2. s \in Nat /\ s < 2 * N
  BY <1>1
<1>3. s % N = IF s < N THEN s ELSE s - N
  BY <1>1, <1>2, ModSmall
<1> QED
  BY <1>1, <1>3 DEF Wheel!Slots, Wheel!Distance

(* Lines 60 to 68 compute what the countdown says of the timeout.            *)
LEMMA TicksPass ==
    ASSUME NEW x \in Timeouts, x >= 0
    PROVE  /\ Wheel!TicksOf(x) \in 1 .. x + 1
           /\ Wheel!Promise!LetsPass(Wheel!TicksOf(x), x)
<1>1. x \in Nat /\ SI \in Nat \ {0}
  BY WheelAssumption DEF Wheel!Parameters
<1>2. CASE x < SI
  <2>1. Wheel!TicksOf(x) = 1 /\ x < (1 + 1) * SI
    BY <1>1, <1>2 DEF Wheel!TicksOf
  <2> QED
    BY <1>1, <2>1 DEF Wheel!Promise!LetsPass
<1>3. CASE SI <= x
  <2>1. PICK q \in Nat : q = x \div SI
    BY <1>1, DivMod
  <2>2. x = q * SI + (x % SI) /\ x % SI \in 0 .. SI - 1
    BY <1>1, <2>1, DivMod
  <2>3. Wheel!TicksOf(x) = q
    BY <1>1, <1>3, <2>1 DEF Wheel!TicksOf
  <2>4. q * SI \in Nat /\ (q + 1) * SI = q * SI + SI
    BY <1>1
  <2>5. q * SI <= x /\ x < (q + 1) * SI
    BY <1>1, <2>2, <2>4
  <2>6. q # 0
    BY <1>1, <1>3, <2>5
  <2>7. q <= q * SI
    BY <1>1
  <2> QED
    BY <1>1, <2>1, <2>3, <2>4, <2>5, <2>6, <2>7 DEF Wheel!Promise!LetsPass
<1> QED
  BY <1>1, <1>2, <1>3

WheelInv == Wheel!TypeOK /\ Wheel!InOneSlot

(* What each action does to a timer's place in the wheel, in one formula.    *)
LEMMA WheelAdd ==
    ASSUME WheelInv, NEW t \in WheelTimers, NEW x \in Timeouts, Wheel!add_timer(t, x)
    PROVE  WheelInv' /\ Wheel!Promise!Set(t, x)
<1> DEFINE k == Wheel!TicksOf(x)
<1>1. x >= 0 /\ t \notin Wheel!InWheel /\ cur_slot' = cur_slot
  BY DEF Wheel!add_timer
<1>2. k \in Nat /\ k \in 1 .. x + 1 /\ Wheel!Promise!LetsPass(k, x)
  BY <1>1, TicksPass
<1>3. N \in Nat \ {0} /\ cur_slot \in Wheel!Slots
  BY WheelAssumption DEF WheelInv, Wheel!TypeOK, Wheel!Parameters
<1>4. Wheel!SlotOf(k) \in Wheel!Slots /\ Wheel!Distance(cur_slot, Wheel!SlotOf(k)) = k % N
  BY <1>2, <1>3, SlotAhead
<1>5. k \div N \in Nat /\ k = (k \div N) * N + (k % N)
  BY <1>2, <1>3, DivMod
<1>6. /\ rotation' = [rotation EXCEPT ![t] = k \div N]
      /\ time_slot' = [time_slot EXCEPT ![t] = Wheel!SlotOf(k)]
      /\ slots' = [slots EXCEPT ![Wheel!SlotOf(k)] = @ \union {t}]
      /\ asked' = [asked EXCEPT ![t] = x]
  BY DEF Wheel!add_timer, Wheel!Place
<1> HIDE DEF k
<1>7. Wheel!TypeOK'
  BY <1>1, <1>3, <1>4, <1>5, <1>6 DEF WheelInv, Wheel!TypeOK
<1>8. \A i \in Wheel!Slots : t \notin slots[i]
  BY <1>1 DEF Wheel!InWheel, WheelInv, Wheel!InOneSlot, Wheel!TypeOK
<1>9. Wheel!InOneSlot'
  BY <1>4, <1>6, <1>8 DEF WheelInv, Wheel!InOneSlot, Wheel!TypeOK
<1>10. Wheel!InWheel' = Wheel!InWheel \union {t}
  BY <1>4, <1>6, <1>8 DEF WheelInv, Wheel!TypeOK, Wheel!InWheel
<1>11. Wheel!Left[t] = -1
  BY <1>1 DEF Wheel!Left
<1>12. Wheel!Left'[t] = k
  BY <1>1, <1>4, <1>5, <1>6, <1>10 DEF Wheel!Left, WheelInv, Wheel!TypeOK
<1>13. \A u \in WheelTimers \ {t} : Wheel!Left'[u] = Wheel!Left[u]
  BY <1>1, <1>6, <1>10 DEF Wheel!Left, WheelInv, Wheel!TypeOK
<1>14. Wheel!Left' = [Wheel!Left EXCEPT ![t] = k]
  BY <1>12, <1>13 DEF Wheel!Left
<1> QED
  BY <1>2, <1>6, <1>7, <1>9, <1>11, <1>14 DEF WheelInv, Wheel!Promise!Set

LEMMA WheelDelete ==
    ASSUME WheelInv, NEW t \in WheelTimers, Wheel!del_timer(t)
    PROVE  WheelInv' /\ Wheel!Promise!Delete(t)
<1>1. /\ t \in Wheel!InWheel
      /\ slots' = [slots EXCEPT ![time_slot[t]] = @ \ {t}]
      /\ asked' = [asked EXCEPT ![t] = -1]
      /\ UNCHANGED <<cur_slot, rotation, time_slot>>
  BY DEF Wheel!del_timer
<1>2. Wheel!TypeOK'
  BY <1>1 DEF WheelInv, Wheel!TypeOK
<1>3. Wheel!InOneSlot'
  BY <1>1 DEF WheelInv, Wheel!InOneSlot, Wheel!TypeOK
<1>4. Wheel!InWheel' = Wheel!InWheel \ {t}
  BY <1>1 DEF WheelInv, Wheel!TypeOK, Wheel!InWheel
<1>5. rotation[t] * N \in Nat
  BY WheelAssumption DEF WheelInv, Wheel!TypeOK, Wheel!Parameters
<1>6. Wheel!Distance(cur_slot, time_slot[t]) \in Nat
  BY WheelAssumption DEF WheelInv, Wheel!TypeOK, Wheel!Distance, Wheel!Slots, Wheel!Parameters
<1>7. Wheel!Left[t] # -1
  BY <1>1, <1>5, <1>6 DEF Wheel!Left
<1>8. Wheel!Left' = [Wheel!Left EXCEPT ![t] = -1]
  BY <1>1, <1>4 DEF Wheel!Left
<1> QED
  BY <1>1, <1>2, <1>3, <1>7, <1>8 DEF WheelInv, Wheel!Promise!Delete

LEMMA WheelTick ==
    ASSUME WheelInv, Wheel!tick
    PROVE  WheelInv' /\ Wheel!Promise!Tick
<1>1. /\ rotation' = [t \in WheelTimers |->
                        IF t \in slots[cur_slot] \ Wheel!Firing
                        THEN rotation[t] - 1 ELSE rotation[t]]
      /\ slots' = [slots EXCEPT ![cur_slot] = @ \ Wheel!Firing]
      /\ cur_slot' = (cur_slot + 1) % N
      /\ time_slot' = time_slot
      /\ asked' = [t \in WheelTimers |-> IF t \in Wheel!Firing THEN -1 ELSE asked[t]]
  BY DEF Wheel!tick
<1>2. N \in Nat \ {0} /\ cur_slot \in Wheel!Slots /\ cur_slot' \in Wheel!Slots
  BY <1>1, Nearer, WheelAssumption DEF WheelInv, Wheel!TypeOK, Wheel!Parameters
<1>3. \A t \in slots[cur_slot] \ Wheel!Firing : rotation[t] - 1 \in Nat
  BY <1>2 DEF Wheel!Firing, WheelInv, Wheel!TypeOK
<1>4. rotation' \in [WheelTimers -> Nat]
  BY <1>1, <1>3 DEF WheelInv, Wheel!TypeOK
<1>5. Wheel!TypeOK'
  BY <1>1, <1>2, <1>4 DEF WheelInv, Wheel!TypeOK
<1>6. Wheel!InOneSlot'
  BY <1>1, <1>2 DEF WheelInv, Wheel!InOneSlot, Wheel!TypeOK
<1>7. Wheel!InWheel' = Wheel!InWheel \ Wheel!Firing
  BY <1>1, <1>2 DEF WheelInv, Wheel!InOneSlot, Wheel!TypeOK, Wheel!InWheel, Wheel!Firing
<1>8. ASSUME NEW t \in WheelTimers
      PROVE  /\ Wheel!Left'[t] = IF Wheel!Left[t] = -1 THEN -1 ELSE Wheel!Left[t] - 1
             /\ t \in Wheel!Firing <=> Wheel!Left[t] = 0
  <2>1. CASE t \notin Wheel!InWheel
    <3>1. Wheel!Left[t] = -1 /\ Wheel!Left'[t] = -1
      BY <1>7, <2>1 DEF Wheel!Left
    <3>2. t \notin Wheel!Firing
      BY <1>2, <2>1 DEF Wheel!Firing, Wheel!InWheel, WheelInv, Wheel!InOneSlot
    <3> QED
      BY <3>1, <3>2
  <2>2. CASE t \in Wheel!Firing
    <3>1. t \in Wheel!InWheel /\ rotation[t] = 0 /\ time_slot[t] = cur_slot
      BY <1>2, <2>2 DEF Wheel!Firing, Wheel!InWheel, WheelInv, Wheel!InOneSlot
    <3>2. Wheel!Left[t] = 0
      BY <1>2, <3>1 DEF Wheel!Left, Wheel!Distance, Wheel!Slots
    <3> QED
      BY <1>7, <2>2, <3>2 DEF Wheel!Left
  <2>3. CASE t \in Wheel!InWheel \ Wheel!Firing
    <3> DEFINE d == Wheel!Distance(cur_slot, time_slot[t])
               e == Wheel!Distance(cur_slot', time_slot[t])
    <3>1. time_slot[t] \in Wheel!Slots /\ rotation[t] \in Nat
      BY DEF WheelInv, Wheel!TypeOK
    <3>2. e = IF cur_slot = time_slot[t] THEN N - 1 ELSE d - 1
      BY <1>1, <1>2, <3>1, Nearer
    <3>3. d \in Nat /\ (cur_slot = time_slot[t] => d = 0)
      BY <1>2, <3>1 DEF Wheel!Slots, Wheel!Distance
    <3>4. t \in slots[cur_slot] <=> cur_slot = time_slot[t]
      BY <1>2, <2>3 DEF Wheel!InWheel, WheelInv, Wheel!InOneSlot
    <3>5. rotation'[t] = IF cur_slot = time_slot[t] THEN rotation[t] - 1 ELSE rotation[t]
      BY <1>1, <2>3, <3>4
    <3>6. Wheel!Left[t] = rotation[t] * N + d /\ Wheel!Left'[t] = rotation'[t] * N + e
      BY <1>1, <1>7, <2>3 DEF Wheel!Left
    <3> HIDE DEF d, e
    <3>7. (rotation[t] - 1) * N = rotation[t] * N - N /\ rotation[t] * N \in Nat
      BY <1>2, <3>1
    <3>8. cur_slot = time_slot[t] => rotation[t] > 0
      BY <2>3, <3>1, <3>4 DEF Wheel!Firing
    <3>9. rotation[t] > 0 => rotation[t] * N > 0
      BY <1>2, <3>1
    <3>10. cur_slot # time_slot[t] => d > 0
      BY <1>2, <3>1 DEF d, Wheel!Slots, Wheel!Distance
    <3> QED
      BY <1>2, <2>3, <3>1, <3>2, <3>3, <3>5, <3>6, <3>7, <3>8, <3>9, <3>10
  <2> QED
    BY <2>1, <2>2, <2>3
<1>9. Wheel!Left' = [t \in WheelTimers |-> IF Wheel!Left[t] = -1 THEN -1 ELSE Wheel!Left[t] - 1]
  BY <1>8 DEF Wheel!Left
<1>10. asked' = [t \in WheelTimers |-> IF Wheel!Left[t] = 0 THEN -1 ELSE asked[t]]
  BY <1>1, <1>8
<1> QED
  BY <1>5, <1>6, <1>9, <1>10 DEF WheelInv, Wheel!Promise!Tick

LEMMA WheelSteps ==
    WheelInv /\ [Wheel!Next]_(Wheel!vars)
        => WheelInv' /\ [Wheel!Promise!Next]_<<asked, Wheel!Left>>
<1> SUFFICES ASSUME WheelInv, [Wheel!Next]_(Wheel!vars)
             PROVE  WheelInv' /\ [Wheel!Promise!Next]_<<asked, Wheel!Left>>
  OBVIOUS
<1>1. CASE UNCHANGED Wheel!vars
  BY <1>1 DEF Wheel!vars, WheelInv, Wheel!TypeOK, Wheel!InOneSlot, Wheel!Left, Wheel!InWheel
<1>2. CASE Wheel!tick
  BY <1>2, WheelTick DEF Wheel!Promise!Next
<1>3. ASSUME NEW t \in WheelTimers, Wheel!del_timer(t)
      PROVE  WheelInv' /\ [Wheel!Promise!Next]_<<asked, Wheel!Left>>
  BY <1>3, WheelDelete DEF Wheel!Promise!Next
<1>4. ASSUME NEW t \in WheelTimers, NEW x \in Timeouts, Wheel!add_timer(t, x)
      PROVE  WheelInv' /\ [Wheel!Promise!Next]_<<asked, Wheel!Left>>
  BY <1>4, WheelAdd DEF Wheel!Promise!Next
<1> QED
  BY <1>1, <1>2, <1>3, <1>4 DEF Wheel!Next

LEMMA WheelInit == Wheel!Init => WheelInv /\ Wheel!Promise!Init
<1> SUFFICES ASSUME Wheel!Init PROVE WheelInv /\ Wheel!Promise!Init
  OBVIOUS
<1>1. 0 \in Wheel!Slots
  BY WheelAssumption DEF Wheel!Slots, Wheel!Parameters
<1>2. Wheel!InWheel = {}
  BY <1>1 DEF Wheel!Init, Wheel!InWheel
<1> QED
  BY <1>1, <1>2 DEF Wheel!Init, WheelInv, Wheel!TypeOK, Wheel!InOneSlot, Wheel!Promise!Init,
                    Wheel!Left

(* The wheel's variables keep their types: a rotation never falls below 0.   *)
THEOREM WheelTypeCorrect == WheelSpec => []WheelTypeOK
BY WheelInit, WheelSteps, PTL DEF WheelSpec, WheelTypeOK, Wheel!Spec, WheelInv

(* A timer is in no slot but the one del_timer looks in.                     *)
THEOREM OneSlotHolds == WheelSpec => []InOneSlot
BY WheelInit, WheelSteps, PTL DEF WheelSpec, InOneSlot, Wheel!Spec, WheelInv

(* The wheel implements the countdown: each callback runs on the tick that   *)
(* its timeout asks for.                                                     *)
THEOREM WheelImplements == WheelSpec => FiresOnItsTick
BY WheelInit, WheelSteps, PTL
   DEF WheelSpec, FiresOnItsTick, Wheel!Spec, Wheel!FiresOnItsTick, Wheel!Promise!Spec

=============================================================================
