-------------------------- MODULE TimerQueueProofs --------------------------
(***************************************************************************)
(* Correctness of the timer heap and of the adapter's thread for any       *)
(* number of timers: the free ids counted, the steps that set and cancel   *)
(* timers, and the theorems.                                               *)
(***************************************************************************)
EXTENDS TimerHeapProofs, FiniteSetTheorems

-----------------------------------------------------------------------------
(* Timer ids.                                                              *)

(* There are n slots, or ids, below n.                                     *)
LEMMA CountedFromZero ==
    ASSUME NEW n \in Nat
    PROVE  IsFiniteSet(0..(n - 1)) /\ Cardinality(0..(n - 1)) = n
<1>1. 0 \in Int /\ n - 1 \in Int
  OBVIOUS
<1>2. /\ IsFiniteSet(0..(n - 1))
      /\ Cardinality(0..(n - 1)) = IF 0 > n - 1 THEN 0 ELSE (n - 1) - 0 + 1
  BY <1>1, FS_Interval, Zenon
<1> QED
  BY <1>2

(* mCurSize counts the timers set, so that all ids but those of the timers *)
(* set and in limbo are free, and they are as many as the counts say.      *)
LEMMA FreeIdsCounted ==
    ASSUME NEW p, NEW A, NEW L, Sound(p, A, L)
    PROVE  /\ IsFiniteSet(A) /\ Cardinality(A) = p.mCurSize
           /\ IsFiniteSet(DOMAIN p.mTimerIds \ (A \cup L))
           /\ Cardinality(DOMAIN p.mTimerIds \ (A \cup L))
                = p.mMaxSize - p.mCurSize - p.mCurLimbo
           /\ \A j \in DOMAIN p.mTimerIds : Free(p, j) <=> j \notin A \cup L
<1> DEFINE Ids == DOMAIN p.mTimerIds
           n == p.mCurSize
           f == [i \in A |-> p.mTimerIds[i]]
<1>1. /\ n \in Nat /\ p.mMaxSize \in Nat /\ Ids = 0..(p.mMaxSize - 1)
      /\ A \subseteq Ids /\ Stored(p, 0..(n - 1), A)
      /\ \A j \in Ids \ A : p.mTimerIds[j] \in Int /\ p.mTimerIds[j] < 0
  BY DEF Sound, Good
<1>2. /\ L \subseteq Ids \ A /\ IsFiniteSet(L) /\ p.mCurLimbo = Cardinality(L)
      /\ \A j \in Ids \ A : j \in L <=> p.mTimerIds[j] = Limbo
  BY DEF Sound
<1>3. IsFiniteSet(Ids) /\ Cardinality(Ids) = p.mMaxSize
  BY <1>1, CountedFromZero
<1>4. f \in Bijection(A, 0..(n - 1))
  <2>1. f \in [A -> 0..(n - 1)] /\ \A i \in A : p.mHeap[f[i]] = i
    BY <1>1 DEF Stored
  <2>2. \A s \in 0..(n - 1) : p.mHeap[s] \in A /\ f[p.mHeap[s]] = s
    BY <1>1 DEF Stored
  <2> HIDE DEF f
  <2> QED
    <3>1. \A a, b \in A : f[a] = f[b] => a = b
      BY <2>1
    <3>2. \A t \in 0..(n - 1) : \E a \in A : f[a] = t
      BY <2>2
    <3> QED
      BY <2>1, <3>1, <3>2 DEF Bijection, Injection, Surjection, IsInjective
<1>5. IsFiniteSet(0..(n - 1)) /\ Cardinality(0..(n - 1)) = n
  BY <1>1, CountedFromZero
<1>6. IsFiniteSet(A) /\ Cardinality(A) = n
  <2>1. ExistsBijection(A, 0..(n - 1))
    BY <1>4 DEF ExistsBijection
  <2>2. IsFiniteSet(A)
    BY <1>1, <1>3, FS_Subset
  <2> QED
    BY <2>1, <2>2, <1>5, FS_Bijection
<1>7. IsFiniteSet(A \cup L) /\ Cardinality(A \cup L) = n + p.mCurLimbo
  <2>1. A \cap L = {}
    BY <1>2
  <2>2. Cardinality(A \cup L) = Cardinality(A) + Cardinality(L) - Cardinality(A \cap L)
    BY <1>2, <1>6, FS_Union
  <2>3. Cardinality(A \cap L) = 0
    BY <2>1, FS_EmptySet
  <2> QED
    BY <2>2, <2>3, <1>1, <1>2, <1>6, FS_Union, FS_CardinalityType
<1>8. /\ IsFiniteSet(Ids \ (A \cup L))
      /\ Cardinality(Ids \ (A \cup L)) = p.mMaxSize - (n + p.mCurLimbo)
  <2>1. Ids \cap (A \cup L) = A \cup L
    BY <1>1, <1>2
  <2>2. /\ IsFiniteSet(Ids \ (A \cup L))
        /\ Cardinality(Ids \ (A \cup L)) = Cardinality(Ids) - Cardinality(Ids \cap (A \cup L))
    BY <1>3, FS_Difference, ZenonT(40)
  <2> QED
    BY <2>1, <2>2, <1>3, <1>7
<1>9. ASSUME NEW j \in Ids PROVE Free(p, j) <=> j \notin A \cup L
  <2>1. CASE j \in A
    BY <2>1, <1>1 DEF Free, Stored
  <2>2. CASE j \notin A
    BY <2>2, <1>1, <1>2 DEF Free
  <2> QED
    BY <2>1, <2>2
<1>10. p.mCurLimbo \in Nat
  BY <1>2, FS_CardinalityType
<1> HIDE DEF n
<1>11. p.mMaxSize - (n + p.mCurLimbo) = p.mMaxSize - n - p.mCurLimbo
  BY <1>1, <1>10
<1> QED
  BY <1>6, <1>8, <1>9, <1>11 DEF n

(* popFreelist() finds a free id.                                          *)
LEMMA TimerIdFree ==
    ASSUME NEW p, NEW A, NEW L, Sound(p, A, L)
    PROVE  /\ timerId(p) \in DOMAIN p.mTimerIds \ (A \cup L)
           /\ Above(p) # {} => /\ timerId(p) \in Above(p)
                               /\ \A j \in Above(p) : timerId(p) <= j
<1> DEFINE F == DOMAIN p.mTimerIds \ (A \cup L)
<1>1. /\ p.mCurSize \in Nat /\ p.mMaxSize \in Nat /\ DOMAIN p.mTimerIds = 0..(p.mMaxSize - 1)
      /\ p.mCurSize + p.mCurLimbo + 2 <= p.mMaxSize /\ p.mCurLimbo = Cardinality(L)
      /\ IsFiniteSet(L)
      /\ p.mTimerIdsCurr \in 0..(p.mMaxSize - 1) /\ p.mTimerIdsMinFree \in 0..p.mMaxSize
      /\ p.mTimerIdsMinFree < p.mMaxSize =>
           p.mTimerIdsMinFree \notin A \cup L /\ p.mTimerIdsMinFree <= p.mTimerIdsCurr
  BY DEF Sound, Good
<1>2. \A i, j \in F :
        /\ i <= p.mTimerIdsCurr /\ i < p.mTimerIdsMinFree
        /\ j <= p.mTimerIdsCurr /\ j < p.mTimerIdsMinFree
        => i = j
  BY DEF Sound
<1>3. /\ IsFiniteSet(F) /\ Cardinality(F) = p.mMaxSize - p.mCurSize - p.mCurLimbo
      /\ \A j \in DOMAIN p.mTimerIds : Free(p, j) <=> j \in F
  BY FreeIdsCounted
<1>4. Cardinality(F) >= 2
  <2>1. p.mCurLimbo \in Nat
    BY <1>1, FS_CardinalityType
  <2> QED
    BY <2>1, <1>1, <1>3
<1>5. PICK i \in F, j \in F : i # j
  <2>1. F # {}
    BY <1>4, FS_EmptySet
  <2>2. PICK i \in F : TRUE
    BY <2>1
  <2>3. F # {i}
    BY <1>4, FS_Singleton
  <2> QED
    BY <2>2, <2>3
<1>6. Above(p) = {k \in F : k > p.mTimerIdsCurr}
  BY <1>1, <1>3 DEF Above
<1> HIDE DEF F
<1>7. CASE Above(p) = {}
  <2>1. p.mTimerIdsMinFree < p.mMaxSize
    <3>1. i <= p.mTimerIdsCurr /\ j <= p.mTimerIdsCurr /\ i \in 0..(p.mMaxSize - 1)
          /\ j \in 0..(p.mMaxSize - 1)
      BY <1>1, <1>6, <1>7 DEF F
    <3>2. ~(i < p.mTimerIdsMinFree) \/ ~(j < p.mTimerIdsMinFree)
      BY <3>1, <1>2, <1>5
    <3> QED
      BY <3>1, <3>2, <1>1
  <2>2. timerId(p) = p.mTimerIdsMinFree
    BY <1>7 DEF timerId
  <2> QED
    BY <2>1, <2>2, <1>1, <1>7 DEF F
<1>8. CASE Above(p) # {}
  <2>1. Above(p) \in SUBSET Nat
    BY <1>1, <1>6 DEF F
  <2>2. PICK m \in Above(p) : \A k \in Above(p) : m <= k
    BY <2>1, <1>8, LeastNumber
  <2>3. timerId(p) = CHOOSE k \in Above(p) : \A l \in Above(p) : k <= l
    BY <1>8 DEF timerId
  <2>4. timerId(p) \in Above(p) /\ \A k \in Above(p) : timerId(p) <= k
    BY <2>2, <2>3, Zenon
  <2> QED
    BY <2>4, <1>6 DEF F
<1> QED
  BY <1>7, <1>8

(* Two ids are left besides a third one only where three are free.         *)
LEMMA OneOfTwo ==
    ASSUME NEW F, IsFiniteSet(F), Cardinality(F) = 2, NEW i \in F, NEW j \in F, NEW k \in F,
           j # i, k # i
    PROVE  j = k
<1>1. IsFiniteSet(F \ {i}) /\ Cardinality(F \ {i}) = 1
  BY FS_RemoveElement
<1>2. PICK x : F \ {i} = {x}
  BY <1>1, FS_Singleton
<1> QED
  BY <1>2

(* What scheduleI() makes of heap p: the timer n is set, with id i.        *)
TimerSet(p, r, A, L, i, n) ==
    /\ i \in DOMAIN p.mTimerIds \ (A \cup L) /\ Sound(r, A \cup {i}, L)
    /\ r.node[i] = n /\ \A j \in A \cup L : r.node[j] = p.node[j]
    /\ r.mMaxSize \in {p.mMaxSize, 2 * p.mMaxSize}

(* scheduleI(): a free id gets the node, and whatever the free list loses  *)
(* sight of when the heap grows, it is one id.                             *)
LEMMA ScheduleSound ==
    ASSUME NEW p, NEW A, NEW L, Sound(p, A, L), NEW n \in Node,
           NEW r, r = scheduleI(p, n), NEW i, i = timerId(p)
    PROVE  TimerSet(p, r, A, L, i, n)
<1> DEFINE Ids == DOMAIN p.mTimerIds
           F == Ids \ (A \cup L)
           c == popFreelist(p)
           m == [c EXCEPT !.node = [j \in DOMAIN @ \cup {i} |->
                                            IF j = i THEN n ELSE @[j]]]
           grow == p.mCurSize + p.mCurLimbo + 2 >= p.mMaxSize
           curr == p.mTimerIdsCurr
           min == p.mTimerIdsMinFree
<1>1. /\ Good(p, A) /\ IsHeap(p) /\ p.mCurSize \in Nat /\ p.mMaxSize \in Nat
      /\ p.mMaxSize >= 2 /\ Ids = 0..(p.mMaxSize - 1)
      /\ p.mCurLimbo = Cardinality(L) /\ IsFiniteSet(L)
      /\ p.mCurSize + p.mCurLimbo + 2 <= p.mMaxSize
      /\ curr \in 0..(p.mMaxSize - 1) /\ min \in 0..p.mMaxSize
      /\ min < p.mMaxSize => min \notin A \cup L /\ min <= curr
      /\ A \subseteq Ids /\ L \subseteq Ids \ A
      /\ DOMAIN p.node = A \cup L /\ \A j \in A \cup L : p.node[j] \in Node
  BY DEF Sound, Good
<1>2. /\ \A j, k \in F : j <= curr /\ j < min /\ k <= curr /\ k < min => j = k
      /\ \A j \in Ids \ A : j \in L <=> p.mTimerIds[j] = Limbo
  BY DEF Sound
<1>3. i \in F /\ (Above(p) # {} => i \in Above(p) /\ \A j \in Above(p) : i <= j)
  BY TimerIdFree
<1>4. /\ IsFiniteSet(F) /\ Cardinality(F) = p.mMaxSize - p.mCurSize - p.mCurLimbo
      /\ \A j \in Ids : Free(p, j) <=> j \in F
  BY FreeIdsCounted
<1>5. p.mCurLimbo \in Nat
  BY <1>1, FS_CardinalityType
<1>6. Above(p) = {k \in F : k > curr}
  BY <1>1, <1>4 DEF Above
<1>7. Above(p) = {} => i = min /\ min <= curr
  <2>1. Above(p) = {} => i = min
    BY DEF timerId
  <2> QED
    BY <2>1, <1>1, <1>3
<1>8. /\ IsHeap(m) /\ m.mHeap = p.mHeap /\ m.mCurSize = p.mCurSize
      /\ m.mCurLimbo = p.mCurLimbo /\ m.mMaxSize = p.mMaxSize
      /\ m.mTimerIds = p.mTimerIds /\ m.mTimerIdsCurr = i
      /\ m.mTimerIdsMinFree = (IF Above(p) = {} THEN p.mMaxSize ELSE min)
      /\ m.node = [j \in A \cup L \cup {i} |-> IF j = i THEN n ELSE p.node[j]]
  <2>1. /\ IsHeap(c) /\ c.mHeap = p.mHeap /\ c.mCurSize = p.mCurSize
        /\ c.mCurLimbo = p.mCurLimbo /\ c.mMaxSize = p.mMaxSize
        /\ c.mTimerIds = p.mTimerIds /\ c.mTimerIdsCurr = i
        /\ c.mTimerIdsMinFree = (IF Above(p) = {} THEN p.mMaxSize ELSE min)
        /\ c.node = p.node
    BY <1>1, PopEffect
  <2> HIDE DEF c
  <2>2. /\ IsHeap(m) /\ m.mHeap = c.mHeap /\ m.mCurSize = c.mCurSize
        /\ m.mCurLimbo = c.mCurLimbo /\ m.mMaxSize = c.mMaxSize
        /\ m.mTimerIds = c.mTimerIds /\ m.mTimerIdsCurr = c.mTimerIdsCurr
        /\ m.mTimerIdsMinFree = c.mTimerIdsMinFree
        /\ m.node = [j \in DOMAIN c.node \cup {i} |-> IF j = i THEN n ELSE c.node[j]]
    BY <2>1 DEF IsHeap
  <2> HIDE DEF m
  <2> QED
    BY <1>1, <2>1, <2>2
<1>9. r = insert(m, i)
  BY DEF scheduleI
<1> HIDE DEF m
<1>10. Good(m, A)
  <2>1. i \notin A
    BY <1>3
  <2>2. \A j \in A : m.node[j] = p.node[j]
    BY <2>1, <1>8
  <2>3. Stored(m, 0..(p.mCurSize - 1), A)
    <3>1. Stored(p, 0..(p.mCurSize - 1), A)
      BY DEF Sound, Good
    <3> QED
      BY <3>1, <1>8 DEF Stored
  <2>4. \A s \in 0..(p.mCurSize - 1) : InOrder(m, s)
    <3>1. /\ Stored(p, 0..(p.mCurSize - 1), A)
          /\ \A s \in 0..(p.mCurSize - 1) : InOrder(p, s)
      BY DEF Sound, Good
    <3>2. \A s \in 0..(p.mCurSize - 1) : Value(m, s) = Value(p, s)
      BY <3>1, <2>2, <1>8 DEF Value, Stored
    <3>3. \A s \in 0..(p.mCurSize - 1) : Parent(s) \in 0..(p.mCurSize - 1)
      BY <1>1, ParentInRange
    <3> QED
      BY <3>1, <3>2, <3>3 DEF InOrder
  <2> QED
    BY <2>2, <2>3, <2>4, <1>1, <1>8 DEF Good
<1>11. m.node[i] = n /\ n.timerValue \in Nat
  BY <1>8 DEF Node
<1>12. /\ Good(r, A \cup {i})
       /\ r.mCurSize = p.mCurSize + 1 /\ r.mCurLimbo = p.mCurLimbo
       /\ r.mTimerIdsCurr = i /\ r.node = m.node
       /\ p.mCurSize + p.mCurLimbo + 2 < p.mMaxSize =>
            r.mMaxSize = p.mMaxSize /\ r.mTimerIdsMinFree = m.mTimerIdsMinFree
       /\ p.mCurSize + p.mCurLimbo + 2 >= p.mMaxSize =>
            r.mMaxSize = 2 * p.mMaxSize /\ r.mTimerIdsMinFree = 2 * p.mMaxSize
       /\ \A j \in Ids \ (A \cup {i}) : r.mTimerIds[j] = p.mTimerIds[j]
       /\ \A j \in DOMAIN r.mTimerIds \ Ids : Free(r, j)
  <2>1. /\ i \in DOMAIN m.mTimerIds /\ i \notin A
        /\ m.mMaxSize >= 2 /\ m.mCurLimbo \in Nat /\ m.node[i].timerValue \in Nat
    BY <1>1, <1>3, <1>5, <1>8, <1>11
  <2>2. Put(m, r, A, i)
    BY <2>1, <1>9, <1>10, InsertEffect
  <2> QED
    BY <2>2, <1>8 DEF Put
<1>13. DOMAIN r.mTimerIds = 0..(r.mMaxSize - 1) /\ r.mMaxSize \in Nat
  BY <1>12 DEF Good
<1>14. grow \/ p.mCurSize + p.mCurLimbo + 2 < p.mMaxSize
  BY <1>1, <1>5
<1>15. /\ r.mMaxSize \in {p.mMaxSize, 2 * p.mMaxSize} /\ r.mMaxSize >= p.mMaxSize
       /\ r.mCurSize + r.mCurLimbo + 2 <= r.mMaxSize
       /\ Ids \subseteq DOMAIN r.mTimerIds
  <2>1. r.mMaxSize \in {p.mMaxSize, 2 * p.mMaxSize}
    BY <1>12, <1>14
  <2>2. r.mMaxSize >= p.mMaxSize
    BY <2>1, <1>1
  <2>3. r.mCurSize + r.mCurLimbo + 2 <= r.mMaxSize
    <3>1. CASE grow
      <4>1. r.mMaxSize >= p.mMaxSize + 2
        BY <3>1, <1>1, <1>12
      <4>2. r.mCurSize = p.mCurSize + 1 /\ r.mCurLimbo = p.mCurLimbo
        BY <1>12
      <4>3. p.mCurSize \in Nat /\ p.mMaxSize \in Nat /\ p.mCurSize + p.mCurLimbo + 2 <= p.mMaxSize
        BY <1>1
      <4> QED
        BY <4>1, <4>2, <4>3, <1>5, <1>13
    <3>2. CASE ~grow
      BY <3>2, <1>1, <1>5, <1>12, <1>14
    <3> QED
      BY <3>1, <3>2
  <2> QED
    BY <2>1, <2>2, <2>3, <1>1, <1>13
<1>16. /\ L \subseteq DOMAIN r.mTimerIds \ (A \cup {i})
       /\ \A j \in DOMAIN r.mTimerIds \ (A \cup {i}) : j \in L <=> r.mTimerIds[j] = Limbo
  <2>1. \A j \in DOMAIN r.mTimerIds \ Ids : j \notin L /\ r.mTimerIds[j] # Limbo
    BY <1>1, <1>12 DEF Free
  <2>2. \A j \in Ids \ (A \cup {i}) : j \in L <=> r.mTimerIds[j] = Limbo
    BY <1>2, <1>12
  <2> QED
    BY <2>1, <2>2, <1>1, <1>3, <1>15
<1>17. /\ DOMAIN r.node = (A \cup {i}) \cup L /\ r.node[i] = n
       /\ \A j \in A \cup L : r.node[j] = p.node[j]
       /\ \A j \in (A \cup {i}) \cup L : r.node[j] \in Node
  <2>1. \A j \in A \cup L : j # i
    BY <1>3
  <2> QED
    BY <2>1, <1>1, <1>8, <1>12
<1>18. /\ i \in 0..(r.mMaxSize - 1) /\ r.mTimerIdsMinFree \in 0..r.mMaxSize
  <2>1. m.mTimerIdsMinFree \in 0..p.mMaxSize
    BY <1>1, <1>8
  <2> QED
    BY <2>1, <1>1, <1>3, <1>12, <1>13, <1>14, <1>15
<1>19. r.mTimerIdsMinFree < r.mMaxSize =>
         /\ r.mTimerIdsMinFree \notin (A \cup {i}) \cup L
         /\ r.mTimerIdsMinFree <= i
  <2>1. ASSUME r.mTimerIdsMinFree < r.mMaxSize
        PROVE  Above(p) # {} /\ r.mTimerIdsMinFree = min /\ r.mMaxSize = p.mMaxSize
    BY <2>1, <1>1, <1>8, <1>12, <1>14
  <2>2. Above(p) # {} => i > curr /\ i \in Int
    BY <1>1, <1>3, <1>6
  <2> QED
    BY <2>1, <2>2, <1>1
<1>20. ASSUME NEW j \in DOMAIN r.mTimerIds \ ((A \cup {i}) \cup L),
              NEW k \in DOMAIN r.mTimerIds \ ((A \cup {i}) \cup L),
              j <= i, j < r.mTimerIdsMinFree, k <= i, k < r.mTimerIdsMinFree
       PROVE  j = k
  <2>1. j \in F /\ k \in F /\ j # i /\ k # i /\ j \in Int /\ k \in Int /\ i \in Int
    BY <1>1, <1>3, <1>13, <1>20
  <2>2. CASE grow
    <3>1. Cardinality(F) = 2
      BY <2>2, <1>1, <1>4, <1>5
    <3> HIDE DEF F
    <3> QED
      BY <3>1, <2>1, <1>3, <1>4, OneOfTwo
  <2>3. CASE ~grow /\ Above(p) = {}
    <3>1. j < min /\ k < min /\ j <= curr /\ k <= curr
      BY <2>1, <2>3, <1>1, <1>7, <1>20
    <3> QED
      BY <3>1, <2>1, <1>2
  <2>4. CASE ~grow /\ Above(p) # {}
    <3>1. r.mTimerIdsMinFree = min
      BY <2>4, <1>8, <1>12, <1>14
    <3>2. j <= curr /\ k <= curr
      BY <2>1, <2>4, <1>1, <1>3, <1>6, <1>20, SMTT(30)
    <3> QED
      BY <3>1, <3>2, <2>1, <1>2, <1>20
  <2> QED
    BY <2>2, <2>3, <2>4
<1>21. r.mMaxSize >= 2
  BY <1>1, <1>13, <1>15
<1> HIDE DEF Ids, F, grow, curr, min
<1>22. Sound(r, A \cup {i}, L)
  <2>1. Good(r, A \cup {i}) /\ IsFiniteSet(L) /\ r.mCurLimbo = Cardinality(L)
    BY <1>1, <1>12
  <2>2. /\ r.mTimerIdsCurr \in 0..(r.mMaxSize - 1) /\ r.mTimerIdsMinFree \in 0..r.mMaxSize
        /\ r.mTimerIdsMinFree < r.mMaxSize =>
             /\ r.mTimerIdsMinFree \notin (A \cup {i}) \cup L
             /\ r.mTimerIdsMinFree <= r.mTimerIdsCurr
    BY <1>12, <1>18, <1>19
  <2>3. \A x, y \in DOMAIN r.mTimerIds \ ((A \cup {i}) \cup L) :
          /\ x <= r.mTimerIdsCurr /\ x < r.mTimerIdsMinFree
          /\ y <= r.mTimerIdsCurr /\ y < r.mTimerIdsMinFree
          => x = y
    BY <1>12, <1>20
  <2>4. DOMAIN r.node = (A \cup {i}) \cup L /\ \A j \in (A \cup {i}) \cup L : r.node[j] \in Node
    BY <1>17
  <2>5. r.mCurSize + r.mCurLimbo + 2 <= r.mMaxSize
    BY <1>15
  <2> QED
    BY <2>1, <2>2, <2>3, <2>4, <2>5, <1>16, <1>21, Zenon DEF Sound
<1> QED
  BY <1>3, <1>15, <1>17, <1>22 DEF F, Ids, TimerSet

-----------------------------------------------------------------------------
(* Removal, rescheduling and cancelling.                                   *)

(* What remove() makes of heap p: the timer with id x is in limbo.         *)
TakenOut(p, r, A, L, x) ==
    /\ Sound(r, A \ {x}, L \cup {x})
    /\ r.node = p.node /\ r.mMaxSize = p.mMaxSize /\ r.mCurSize = p.mCurSize - 1

(* remove() leaves a sound heap.                                           *)
LEMMA RemoveSound ==
    ASSUME NEW p, NEW A, NEW L, Sound(p, A, L), NEW x \in A,
           NEW r, r = remove(p, p.mTimerIds[x])
    PROVE  TakenOut(p, r, A, L, x)
<1> DEFINE slot == p.mTimerIds[x]
           Ids == DOMAIN p.mTimerIds
<1>1. /\ Good(p, A) /\ p.mCurSize \in Nat /\ p.mMaxSize >= 2
      /\ Ids = 0..(p.mMaxSize - 1)
      /\ p.mCurLimbo = Cardinality(L) /\ IsFiniteSet(L)
      /\ p.mCurSize + p.mCurLimbo + 2 <= p.mMaxSize
      /\ A \subseteq Ids /\ L \subseteq Ids \ A /\ Stored(p, 0..(p.mCurSize - 1), A)
  BY DEF Sound, Good
<1>2. /\ DOMAIN p.node = A \cup L /\ \A j \in A \cup L : p.node[j] \in Node
      /\ \A j \in Ids \ A : j \in L <=> p.mTimerIds[j] = Limbo
      /\ p.mTimerIdsCurr \in 0..(p.mMaxSize - 1) /\ p.mTimerIdsMinFree \in 0..p.mMaxSize
      /\ p.mTimerIdsMinFree < p.mMaxSize =>
           p.mTimerIdsMinFree \notin A \cup L /\ p.mTimerIdsMinFree <= p.mTimerIdsCurr
      /\ \A i, j \in Ids \ (A \cup L) :
           /\ i <= p.mTimerIdsCurr /\ i < p.mTimerIdsMinFree
           /\ j <= p.mTimerIdsCurr /\ j < p.mTimerIdsMinFree
           => i = j
  BY DEF Sound
<1>3. slot \in 0..(p.mCurSize - 1) /\ p.mHeap[slot] = x
  BY <1>1 DEF Stored
<1>4. Removed(p, r, A, x)
  BY <1>1, <1>3, RemoveGood
<1>5. /\ Good(r, A \ {x})
      /\ r.mCurSize = p.mCurSize - 1 /\ r.mCurLimbo = p.mCurLimbo + 1
      /\ r.mMaxSize = p.mMaxSize /\ r.mTimerIdsCurr = p.mTimerIdsCurr
      /\ r.mTimerIdsMinFree = p.mTimerIdsMinFree /\ r.node = p.node
      /\ r.mTimerIds[x] = Limbo
      /\ \A j \in Ids \ A : r.mTimerIds[j] = p.mTimerIds[j]
  BY <1>4 DEF Removed
<1>6. DOMAIN r.mTimerIds = Ids
  BY <1>1, <1>5 DEF Good
<1>7. (A \ {x}) \cup (L \cup {x}) = A \cup L
  OBVIOUS
<1>8. /\ L \cup {x} \subseteq DOMAIN r.mTimerIds \ (A \ {x})
      /\ \A j \in DOMAIN r.mTimerIds \ (A \ {x}) : j \in L \cup {x} <=> r.mTimerIds[j] = Limbo
  BY <1>1, <1>2, <1>5, <1>6, SMTT(30)
<1>9. IsFiniteSet(L \cup {x}) /\ r.mCurLimbo = Cardinality(L \cup {x})
  <2>1. x \notin L
    BY <1>1
  <2>2. /\ IsFiniteSet(L \cup {x})
        /\ Cardinality(L \cup {x}) = IF x \in L THEN Cardinality(L) ELSE Cardinality(L) + 1
    BY <1>1, FS_AddElement, Zenon
  <2> QED
    BY <2>1, <2>2, <1>1, <1>5
<1>10. r.mCurSize + r.mCurLimbo + 2 <= r.mMaxSize
  <2>1. p.mCurLimbo \in Nat
    BY <1>1, FS_CardinalityType
  <2> QED
    BY <2>1, <1>1, <1>5
<1> HIDE DEF Ids, slot
<1>11. Sound(r, A \ {x}, L \cup {x})
  BY <1>1, <1>2, <1>5, <1>6, <1>7, <1>8, <1>9, <1>10 DEF Sound
<1> QED
  BY <1>5, <1>11 DEF TakenOut

(* freeNode() of a timer in limbo: its id is free, and not out of reach.   *)
LEMMA FreeSound ==
    ASSUME NEW p, NEW A, NEW L, Sound(p, A, L), NEW i \in L, NEW r, r = freeNode(p, i)
    PROVE  /\ Sound(r, A, L \ {i})
           /\ DOMAIN r.node = (A \cup L) \ {i}
           /\ \A j \in (A \cup L) \ {i} : r.node[j] = p.node[j]
           /\ r.mMaxSize = p.mMaxSize /\ r.mHeap = p.mHeap /\ r.mCurSize = p.mCurSize
           /\ \A j \in A : r.mTimerIds[j] = p.mTimerIds[j]
<1> DEFINE Ids == DOMAIN p.mTimerIds
           curr == p.mTimerIdsCurr
           min == p.mTimerIdsMinFree
<1>1. /\ Good(p, A) /\ IsHeap(p) /\ p.mCurSize \in Nat /\ p.mMaxSize \in Nat
      /\ p.mMaxSize >= 2 /\ Ids = 0..(p.mMaxSize - 1)
      /\ p.mCurLimbo = Cardinality(L) /\ IsFiniteSet(L)
      /\ p.mCurSize + p.mCurLimbo + 2 <= p.mMaxSize
      /\ A \subseteq Ids /\ L \subseteq Ids \ A /\ Stored(p, 0..(p.mCurSize - 1), A)
  BY DEF Sound, Good
<1>2. /\ DOMAIN p.node = A \cup L /\ \A j \in A \cup L : p.node[j] \in Node
      /\ \A j \in Ids \ A : j \in L <=> p.mTimerIds[j] = Limbo
      /\ curr \in 0..(p.mMaxSize - 1) /\ min \in 0..p.mMaxSize
      /\ min < p.mMaxSize => min \notin A \cup L /\ min <= curr
  BY DEF Sound
<1>3. \A j, k \in Ids \ (A \cup L) : j <= curr /\ j < min /\ k <= curr /\ k < min => j = k
  BY DEF Sound
<1>4. i \in Ids /\ i \notin A /\ p.mTimerIds[i] = Limbo
  BY <1>1, <1>2
<1>5. /\ IsHeap(r) /\ r.mHeap = p.mHeap /\ r.mCurSize = p.mCurSize
      /\ r.mCurLimbo = p.mCurLimbo - 1 /\ r.mMaxSize = p.mMaxSize
      /\ r.mTimerIds = [p.mTimerIds EXCEPT ![i] = -1]
      /\ r.mTimerIdsCurr = curr
      /\ r.mTimerIdsMinFree = (IF i < min /\ i <= curr THEN i ELSE min)
      /\ r.node = [j \in DOMAIN p.node \ {i} |-> p.node[j]]
  <2>1. Freed(p, r, i)
    BY <1>1, <1>4, FreeNodeEffect
  <2> QED
    BY <2>1 DEF Freed
<1>6. /\ DOMAIN r.mTimerIds = Ids /\ r.mTimerIds[i] = -1
      /\ \A j \in Ids \ {i} : r.mTimerIds[j] = p.mTimerIds[j]
      /\ \A j \in A : r.mTimerIds[j] = p.mTimerIds[j]
  BY <1>1, <1>4, <1>5
<1>7. /\ DOMAIN r.node = (A \cup L) \ {i}
      /\ \A j \in (A \cup L) \ {i} : r.node[j] = p.node[j]
      /\ \A j \in A : r.node[j] = p.node[j]
  BY <1>2, <1>4, <1>5
<1>8. Good(r, A)
  <2>1. Stored(r, 0..(r.mCurSize - 1), A)
    BY <1>1, <1>5, <1>6, SMTT(30) DEF Stored
  <2>2. \A s \in 0..(r.mCurSize - 1) : InOrder(r, s)
    <3>1. \A s \in 0..(p.mCurSize - 1) : InOrder(p, s)
      BY <1>1 DEF Good
    <3>2. \A s \in 0..(p.mCurSize - 1) : Value(r, s) = Value(p, s)
      BY <1>1, <1>5, <1>7, SMTT(30) DEF Value, Stored
    <3>3. \A s \in 0..(p.mCurSize - 1) : Parent(s) \in 0..(p.mCurSize - 1)
      BY <1>1, ParentInRange
    <3> QED
      BY <3>1, <3>2, <3>3, <1>5 DEF InOrder
  <2>3. \A j \in DOMAIN r.mTimerIds \ A : r.mTimerIds[j] \in Int /\ r.mTimerIds[j] < 0
    <3>1. \A j \in Ids \ A : p.mTimerIds[j] \in Int /\ p.mTimerIds[j] < 0
      BY <1>1 DEF Good
    <3> QED
      BY <3>1, <1>6
  <2>4. \A j \in A : r.node[j].timerValue \in Nat
    BY <1>1, <1>7 DEF Good
  <2> QED
    BY <2>1, <2>2, <2>3, <2>4, <1>1, <1>5, <1>6, ZenonT(40) DEF Good
<1>9. /\ L \ {i} \subseteq DOMAIN r.mTimerIds \ A
      /\ \A j \in DOMAIN r.mTimerIds \ A : j \in L \ {i} <=> r.mTimerIds[j] = Limbo
  BY <1>1, <1>2, <1>6 DEF Limbo
<1>10. IsFiniteSet(L \ {i}) /\ r.mCurLimbo = Cardinality(L \ {i})
  BY <1>1, <1>5, FS_RemoveElement
<1>11. r.mCurSize + r.mCurLimbo + 2 <= r.mMaxSize
  <2>1. p.mCurLimbo \in Nat
    BY <1>1, FS_CardinalityType
  <2> QED
    BY <2>1, <1>1, <1>5
<1>12. /\ r.mTimerIdsMinFree \in 0..r.mMaxSize
       /\ r.mTimerIdsMinFree < r.mMaxSize =>
            r.mTimerIdsMinFree \notin A \cup (L \ {i}) /\ r.mTimerIdsMinFree <= curr
  BY <1>1, <1>2, <1>4, <1>5
<1>13. ASSUME NEW j \in Ids \ (A \cup (L \ {i})), NEW k \in Ids \ (A \cup (L \ {i})),
              j <= curr, j < r.mTimerIdsMinFree, k <= curr, k < r.mTimerIdsMinFree
       PROVE  j = k
  <2>1. j # i /\ k # i /\ j < min /\ k < min
    BY <1>1, <1>2, <1>4, <1>5, <1>13, SMTT(30)
  <2> QED
    BY <2>1, <1>3, <1>13
<1>14. A \cup (L \ {i}) = (A \cup L) \ {i}
  BY <1>4
<1> HIDE DEF Ids
<1>15. /\ DOMAIN r.node = A \cup (L \ {i})
       /\ \A j \in A \cup (L \ {i}) : r.node[j] \in Node
  BY <1>2, <1>7, <1>14
<1>16. /\ r.mMaxSize >= 2 /\ r.mTimerIdsCurr \in 0..(r.mMaxSize - 1)
       /\ r.mTimerIdsMinFree < r.mMaxSize =>
            /\ r.mTimerIdsMinFree \notin A \cup (L \ {i})
            /\ r.mTimerIdsMinFree <= r.mTimerIdsCurr
  BY <1>1, <1>2, <1>5, <1>12
<1>17. \A j, k \in DOMAIN r.mTimerIds \ (A \cup (L \ {i})) :
         /\ j <= r.mTimerIdsCurr /\ j < r.mTimerIdsMinFree
         /\ k <= r.mTimerIdsCurr /\ k < r.mTimerIdsMinFree
         => j = k
  BY <1>5, <1>6, <1>13
<1>18. Sound(r, A, L \ {i})
  BY <1>8, <1>9, <1>10, <1>11, <1>12, <1>15, <1>16, <1>17, Zenon DEF Sound
<1> QED
  BY <1>5, <1>6, <1>7, <1>18

(* What reschedule() makes of heap p, for a timer in limbo.                *)
Rescheduled(p, r, A, L, i, t) ==
    /\ Sound(r, A \cup {i}, L \ {i})
    /\ r.node = [p.node EXCEPT ![i].timerValue = t]
    /\ r.mMaxSize = p.mMaxSize

(* reschedule() of a timer in limbo, for time t: the heap never grows.     *)
LEMMA RescheduleSound ==
    ASSUME NEW p, NEW A, NEW L, Sound(p, A, L), NEW i \in L, NEW t \in Nat,
           NEW r, r = reschedule([p EXCEPT !.node[i].timerValue = t], i)
    PROVE  Rescheduled(p, r, A, L, i, t)
<1> DEFINE Ids == DOMAIN p.mTimerIds
           c == [p EXCEPT !.node[i].timerValue = t]
           m == [c EXCEPT !.mCurLimbo = IF c.mTimerIds[i] = Limbo THEN @ - 1 ELSE @]
<1>1. /\ Good(p, A) /\ IsHeap(p) /\ p.mCurSize \in Nat /\ p.mMaxSize \in Nat
      /\ p.mMaxSize >= 2 /\ Ids = 0..(p.mMaxSize - 1)
      /\ p.mCurLimbo = Cardinality(L) /\ IsFiniteSet(L)
      /\ p.mCurSize + p.mCurLimbo + 2 <= p.mMaxSize
      /\ A \subseteq Ids /\ L \subseteq Ids \ A /\ Stored(p, 0..(p.mCurSize - 1), A)
  BY DEF Sound, Good
<1>2. /\ DOMAIN p.node = A \cup L /\ \A j \in A \cup L : p.node[j] \in Node
      /\ \A j \in Ids \ A : j \in L <=> p.mTimerIds[j] = Limbo
      /\ p.mTimerIdsCurr \in 0..(p.mMaxSize - 1) /\ p.mTimerIdsMinFree \in 0..p.mMaxSize
      /\ p.mTimerIdsMinFree < p.mMaxSize =>
           p.mTimerIdsMinFree \notin A \cup L /\ p.mTimerIdsMinFree <= p.mTimerIdsCurr
      /\ \A k, j \in Ids \ (A \cup L) :
           /\ k <= p.mTimerIdsCurr /\ k < p.mTimerIdsMinFree
           /\ j <= p.mTimerIdsCurr /\ j < p.mTimerIdsMinFree
           => k = j
  BY DEF Sound
<1>3. i \in Ids /\ i \notin A /\ p.mTimerIds[i] = Limbo /\ i \in DOMAIN p.node
  BY <1>1, <1>2
<1>4. /\ IsHeap(m) /\ m.mHeap = p.mHeap /\ m.mCurSize = p.mCurSize
      /\ m.mCurLimbo = p.mCurLimbo - 1 /\ m.mMaxSize = p.mMaxSize
      /\ m.mTimerIds = p.mTimerIds /\ m.mTimerIdsCurr = p.mTimerIdsCurr
      /\ m.mTimerIdsMinFree = p.mTimerIdsMinFree
      /\ m.node = [p.node EXCEPT ![i].timerValue = t]
  <2>1. /\ IsHeap(c) /\ c.mHeap = p.mHeap /\ c.mCurSize = p.mCurSize
        /\ c.mCurLimbo = p.mCurLimbo /\ c.mMaxSize = p.mMaxSize
        /\ c.mTimerIds = p.mTimerIds /\ c.mTimerIdsCurr = p.mTimerIdsCurr
        /\ c.mTimerIdsMinFree = p.mTimerIdsMinFree
        /\ c.node = [p.node EXCEPT ![i].timerValue = t]
    BY <1>1 DEF IsHeap
  <2> HIDE DEF c
  <2> QED
    BY <2>1, <1>3 DEF IsHeap
<1>5. r = insert(m, i)
  BY DEF reschedule
<1> HIDE DEF m, c
<1>6. /\ DOMAIN m.node = A \cup L /\ m.node[i] = [p.node[i] EXCEPT !.timerValue = t]
      /\ \A j \in (A \cup L) \ {i} : m.node[j] = p.node[j]
      /\ \A j \in A : m.node[j] = p.node[j]
  BY <1>2, <1>3, <1>4
<1>7. \A j \in A \cup L : m.node[j] \in Node
  BY <1>2, <1>6 DEF Node
<1>8. Good(m, A)
  <2>1. Stored(m, 0..(p.mCurSize - 1), A)
    BY <1>1, <1>4 DEF Stored
  <2>2. \A s \in 0..(p.mCurSize - 1) : InOrder(m, s)
    <3>1. \A s \in 0..(p.mCurSize - 1) : InOrder(p, s)
      BY <1>1 DEF Good
    <3>2. \A s \in 0..(p.mCurSize - 1) : Value(m, s) = Value(p, s)
      BY <1>1, <1>4, <1>6 DEF Value, Stored
    <3>3. \A s \in 0..(p.mCurSize - 1) : Parent(s) \in 0..(p.mCurSize - 1)
      BY <1>1, ParentInRange
    <3> QED
      BY <3>1, <3>2, <3>3 DEF InOrder
  <2>3. \A j \in A : m.node[j].timerValue \in Nat
    BY <1>1, <1>6 DEF Good
  <2> QED
    BY <2>1, <2>2, <2>3, <1>1, <1>4, Zenon DEF Good
<1>9. IsFiniteSet(L \ {i}) /\ m.mCurLimbo = Cardinality(L \ {i})
  BY <1>1, <1>4, FS_RemoveElement
<1>10. m.mCurLimbo \in Nat /\ p.mCurLimbo \in Nat
  BY <1>1, <1>9, FS_CardinalityType
<1>11. /\ m.mMaxSize >= 2 /\ i \in DOMAIN m.mTimerIds
       /\ m.node[i].timerValue \in Nat
  BY <1>1, <1>3, <1>4, <1>7 DEF Node
<1>12. Put(m, r, A, i)
  BY <1>3, <1>5, <1>8, <1>10, <1>11, InsertEffect
<1>13. m.mCurSize + m.mCurLimbo + 2 < m.mMaxSize
  BY <1>1, <1>4, <1>10, SMTT(30)
<1>14. /\ Good(r, A \cup {i}) /\ r.mCurSize = p.mCurSize + 1 /\ r.mCurLimbo = m.mCurLimbo
       /\ r.mTimerIdsCurr = p.mTimerIdsCurr /\ r.node = m.node
       /\ r.mMaxSize = p.mMaxSize /\ r.mTimerIdsMinFree = p.mTimerIdsMinFree
       /\ \A j \in Ids \ (A \cup {i}) : r.mTimerIds[j] = p.mTimerIds[j]
  BY <1>4, <1>12, <1>13 DEF Put
<1>15. DOMAIN r.mTimerIds = Ids
  BY <1>1, <1>14, Zenon DEF Good
<1>16. (A \cup {i}) \cup (L \ {i}) = A \cup L
  OBVIOUS
<1>17. /\ L \ {i} \subseteq DOMAIN r.mTimerIds \ (A \cup {i})
       /\ \A j \in DOMAIN r.mTimerIds \ (A \cup {i}) : j \in L \ {i} <=> r.mTimerIds[j] = Limbo
  BY <1>1, <1>2, <1>14, <1>15, ZenonT(40)
<1>18. r.mCurSize + r.mCurLimbo + 2 <= r.mMaxSize
  BY <1>1, <1>4, <1>10, <1>14
<1> HIDE DEF Ids
<1>19. Sound(r, A \cup {i}, L \ {i})
  BY <1>1, <1>2, <1>6, <1>7, <1>9, <1>14, <1>15, <1>16, <1>17, <1>18, ZenonT(40) DEF Sound
<1> QED
  BY <1>4, <1>14, <1>19 DEF Rescheduled

(* What cancelling the timer with id x makes of heap p.                    *)
Cancelled(p, r, A, L, x) ==
    /\ Sound(r, A \ {x}, L)
    /\ r.mCurSize = p.mCurSize - 1 /\ r.mMaxSize = p.mMaxSize
    /\ \A j \in (A \cup L) \ {x} : r.node[j] = p.node[j]

(* What the first match of cancel(type) makes of heap p: one timer of      *)
(* handler h is gone, unless there is none.                                *)
OneCancelled(p, r, A, L, h) ==
    \/ /\ \A x \in A : p.node[x].type # h
       /\ r = p
    \/ \E x \in A : p.node[x].type = h /\ Cancelled(p, r, A, L, x)

(* Cancelling a timer frees its id.                                        *)
LEMMA CancelSound ==
    ASSUME NEW p, NEW A, NEW L, Sound(p, A, L), NEW x \in A,
           NEW r, r = freeNode(remove(p, p.mTimerIds[x]), x)
    PROVE  Cancelled(p, r, A, L, x)
<1> DEFINE out == remove(p, p.mTimerIds[x])
<1>1. /\ Sound(out, A \ {x}, L \cup {x})
      /\ out.node = p.node /\ out.mMaxSize = p.mMaxSize /\ out.mCurSize = p.mCurSize - 1
  <2>1. TakenOut(p, out, A, L, x)
    BY RemoveSound
  <2> HIDE DEF out
  <2> QED
    BY <2>1 DEF TakenOut
<1> HIDE DEF out
<1>2. x \in L \cup {x} /\ r = freeNode(out, x)
  BY DEF out
<1>3. /\ Sound(r, A \ {x}, (L \cup {x}) \ {x})
      /\ \A j \in ((A \ {x}) \cup (L \cup {x})) \ {x} : r.node[j] = out.node[j]
      /\ r.mMaxSize = out.mMaxSize /\ r.mCurSize = out.mCurSize
  BY <1>1, <1>2, FreeSound
<1>4. x \notin L
  BY DEF Sound
<1>5. (L \cup {x}) \ {x} = L /\ ((A \ {x}) \cup (L \cup {x})) \ {x} = (A \cup L) \ {x}
  BY <1>4
<1> QED
  BY <1>1, <1>3, <1>5 DEF Cancelled

(* One pass of the scan of cancel(type).                                   *)
LEMMA CancelFirstOfSound ==
    ASSUME NEW p, NEW A, NEW L, Sound(p, A, L), NEW h, NEW r, r = CancelFirstOf(p, h)
    PROVE  OneCancelled(p, r, A, L, h)
<1> DEFINE found == {s \in 0..(p.mCurSize - 1) : p.node[p.mHeap[s]].type = h}
           s == CHOOSE x \in found : \A y \in found : x <= y
<1>1. p.mCurSize \in Nat /\ Stored(p, 0..(p.mCurSize - 1), A)
  BY DEF Sound, Good
<1>2. r = IF found = {} THEN p ELSE freeNode(remove(p, s), p.mHeap[s])
  BY DEF CancelFirstOf
<1>3. CASE found = {}
  <2>1. \A x \in A : p.node[x].type # h
    <3> SUFFICES ASSUME NEW x \in A PROVE p.node[x].type # h
      OBVIOUS
    <3>1. p.mTimerIds[x] \in 0..(p.mCurSize - 1) /\ p.mHeap[p.mTimerIds[x]] = x
      BY <1>1 DEF Stored
    <3> QED
      BY <3>1, <1>3
  <2> QED
    BY <2>1, <1>2, <1>3 DEF OneCancelled
<1>4. CASE found # {}
  <2>1. found \in SUBSET Nat
    BY <1>1
  <2>2. \E x \in found : \A y \in found : x <= y
    BY <2>1, <1>4, LeastNumber, Zenon
  <2>3. s \in found
    BY <2>2, Zenon
  <2> DEFINE x == p.mHeap[s]
  <2>4. s \in 0..(p.mCurSize - 1) /\ p.node[x].type = h
    BY <2>3, Zenon
  <2> HIDE DEF s, found
  <2>5. x \in A /\ p.mTimerIds[x] = s
    BY <2>4, <1>1 DEF Stored
  <2>6. r = freeNode(remove(p, p.mTimerIds[x]), x)
    BY <2>5, <1>2, <1>4
  <2> HIDE DEF x
  <2>7. Cancelled(p, r, A, L, x)
    BY <2>5, <2>6, CancelSound
  <2> QED
    BY <2>4, <2>5, <2>7 DEF OneCancelled
<1> QED
  BY <1>3, <1>4

(* What k passes of cancel(type) make of heap p: some timers of handler h  *)
(* are gone, k unless none is left, and the others are as they were.       *)
TypeCancelled(p, r, A, L, h, k) ==
    \E B \in SUBSET A :
      /\ Sound(r, B, L) /\ r.mMaxSize = p.mMaxSize
      /\ \A j \in B \cup L : r.node[j] = p.node[j]
      /\ \A j \in A \ B : p.node[j].type = h
      /\ r.mCurSize = p.mCurSize - k \/ \A j \in B : p.node[j].type # h

(* Every pass of cancelType() leaves a sound heap, with one timer of the   *)
(* handler fewer as long as there are any.                                 *)
LEMMA PassesSound ==
    ASSUME NEW p, NEW A, NEW L, Sound(p, A, L), NEW h, NEW n \in Nat,
           NEW f, Passes(f, p, h, n), NEW k \in 0..n
    PROVE  TypeCancelled(p, f[k], A, L, h, k)
<1> DEFINE Bad == {m \in 0..n : ~TypeCancelled(p, f[m], A, L, h, m)}
<1> SUFFICES ASSUME Bad # {} PROVE FALSE
  OBVIOUS
<1>1. Bad \in SUBSET Nat
  OBVIOUS
<1> HIDE DEF Bad
<1>2. PICK m \in Bad : \A l \in Bad : m <= l
  BY <1>1, LeastNumber
<1>3. m \in 0..n /\ ~TypeCancelled(p, f[m], A, L, h, m)
  BY <1>2 DEF Bad
<1>4. p.mCurSize \in Nat
  BY DEF Sound, Good
<1>5. CASE m = 0
  <2>1. f[0] = p /\ p.mCurSize = p.mCurSize - 0
    BY <1>4 DEF Passes
  <2>2. A \in SUBSET A
    OBVIOUS
  <2>3. TypeCancelled(p, p, A, L, h, 0)
    BY <2>1, <2>2 DEF TypeCancelled
  <2> QED
    BY <2>1, <2>3, <1>3, <1>5
<1>6. CASE m # 0
  <2> DEFINE l == m - 1
             u == f[l]
             r == f[m]
  <2>1. l \in 0..n /\ l \notin Bad /\ m \in 1..n /\ m = l + 1
    BY <1>2, <1>3, <1>6
  <2>2. r = CancelFirstOf(u, h)
    BY <2>1 DEF Passes
  <2>3. TypeCancelled(p, u, A, L, h, l)
    BY <2>1 DEF Bad
  <2> HIDE DEF l, u, r
  <2>4. PICK B \in SUBSET A :
          /\ Sound(u, B, L) /\ u.mMaxSize = p.mMaxSize
          /\ \A j \in B \cup L : u.node[j] = p.node[j]
          /\ \A j \in A \ B : p.node[j].type = h
          /\ u.mCurSize = p.mCurSize - l \/ \A j \in B : p.node[j].type # h
    BY <2>3 DEF TypeCancelled
  <2>5. OneCancelled(u, r, B, L, h)
    BY <2>2, <2>4, CancelFirstOfSound
  <2>6. CASE r = u /\ \A x \in B : u.node[x].type # h
    <3>1. \A j \in B : p.node[j].type # h
      BY <2>4, <2>6
    <3>2. TypeCancelled(p, r, A, L, h, m)
      BY <3>1, <2>4, <2>6 DEF TypeCancelled
    <3> QED
      BY <3>2, <1>3 DEF r
  <2>7. ASSUME NEW x \in B, u.node[x].type = h, Cancelled(u, r, B, L, x) PROVE FALSE
    <3>1. p.node[x].type = h
      BY <2>4, <2>7
    <3>2. u.mCurSize = p.mCurSize - l
      BY <3>1, <2>4
    <3>3. /\ Sound(r, B \ {x}, L) /\ r.mMaxSize = p.mMaxSize
          /\ r.mCurSize = (p.mCurSize - l) - 1
          /\ \A j \in (B \cup L) \ {x} : r.node[j] = u.node[j]
      BY <3>2, <2>4, <2>7 DEF Cancelled
    <3>4. r.mCurSize = p.mCurSize - m
      BY <3>3, <2>1, <1>4
    <3>5. x \notin L
      BY <2>4 DEF Sound
    <3>6. \A j \in (B \ {x}) \cup L : r.node[j] = p.node[j]
      BY <3>3, <3>5, <2>4
    <3>7. \A j \in A \ (B \ {x}) : p.node[j].type = h
      BY <3>1, <2>4
    <3>8. B \ {x} \in SUBSET A
      BY <2>4
    <3>9. TypeCancelled(p, r, A, L, h, m)
      BY <3>3, <3>4, <3>6, <3>7, <3>8 DEF TypeCancelled
    <3> QED
      BY <3>9, <1>3 DEF r
  <2> QED
    BY <2>5, <2>6, <2>7 DEF OneCancelled
<1> QED
  BY <1>5, <1>6

(* cancel(type) cancels the timers of handler h, all of them and no others.*)
LEMMA CancelTypeSound ==
    ASSUME NEW p, NEW A, NEW L, Sound(p, A, L), NEW h, NEW r, r = cancelType(p, h),
           NEW B, B = {j \in A : p.node[j].type # h}
    PROVE  /\ Sound(r, B, L) /\ r.mMaxSize = p.mMaxSize
           /\ \A j \in B \cup L : r.node[j] = p.node[j]
<1> DEFINE n == p.mCurSize
<1>1. n \in Nat
  BY DEF Sound, Good
<1>2. PICK f : Passes(f, p, h, n) /\ r = f[n]
  BY <1>1, CancelTypePasses
<1>3. n \in 0..n
  BY <1>1
<1> HIDE DEF n
<1>4. TypeCancelled(p, r, A, L, h, n)
  BY <1>1, <1>2, <1>3, PassesSound
<1>5. PICK C \in SUBSET A :
        /\ Sound(r, C, L) /\ r.mMaxSize = p.mMaxSize
        /\ \A j \in C \cup L : r.node[j] = p.node[j]
        /\ \A j \in A \ C : p.node[j].type = h
        /\ r.mCurSize = p.mCurSize - n \/ \A j \in C : p.node[j].type # h
  BY <1>4 DEF TypeCancelled
<1>6. r.mCurSize = p.mCurSize - n => C = {}
  <2>1. ASSUME r.mCurSize = p.mCurSize - n PROVE C = {}
    <3>1. r.mCurSize = 0
      BY <2>1, <1>1 DEF n
    <3>2. Stored(r, 0..(r.mCurSize - 1), C)
      BY <1>5 DEF Sound, Good
    <3> QED
      BY <3>1, <3>2 DEF Stored
  <2> QED
    BY <2>1
<1>7. C = B
  BY <1>5, <1>6
<1> QED
  BY <1>5, <1>7

-----------------------------------------------------------------------------
(* Steps.                                                                  *)

(* Setting a timer.                                                        *)
LEMMA ScheduleStep ==
    ASSUME IInv, NEW h \in EventHandler, NEW d \in Delay, NEW v \in Interval, Schedule(h, d, v)
    PROVE  IInv' /\ \E i \in 0..(InitialSize + 2 * MaxSize) : Promise!Schedule(i)
<1> DEFINE n == [type |-> h, timerValue |-> now + d, interval |-> v]
           i == timerId(q)
<1>1. /\ WithinBounds(d) /\ q' = scheduleI(q, n) /\ Signal /\ now' = now /\ closing' = closing
  BY DEF Schedule
<1>2. /\ Sound(q, Active, Closing) /\ q.mMaxSize <= InitialSize + 2 * MaxSize
      /\ now \in 0..MaxTime /\ (cur = None \/ cur \in 0..now)
      /\ svc \in {"waiting", "woken", "expiring", "upcall"} /\ until \in Nat \cup {Never}
  BY DEF IInv
<1>3. /\ d \in Nat /\ now + d \in 0..MaxTime /\ n \in Node /\ n.timerValue >= now
      /\ n \in [type : EventHandler, timerValue : 0..MaxTime, interval : Interval]
      /\ q.mMaxSize <= MaxSize
  BY <1>1, <1>2, TimerAssumption DEF Node, WithinBounds
<1> HIDE DEF n, i
<1>4. /\ i \in DOMAIN q.mTimerIds \ (Active \cup Closing) /\ Sound(q', Active \cup {i}, Closing)
      /\ q'.node[i] = n /\ \A j \in Active \cup Closing : q'.node[j] = q.node[j]
      /\ q'.mMaxSize \in {q.mMaxSize, 2 * q.mMaxSize}
  <2>1. i = timerId(q)
    BY DEF i
  <2>2. TimerSet(q, q', Active, Closing, i, n)
    BY <2>1, <1>1, <1>2, <1>3, ScheduleSound
  <2> QED
    BY <2>2 DEF TimerSet
<1>5. Closing' = Closing
  BY <1>1 DEF Closing
<1>6. Active' = Active \cup {i} /\ Sound(q, Active, Closing)'
  BY <1>4, <1>5, SoundAfter
<1>7. q.mMaxSize \in Nat /\ DOMAIN q.mTimerIds = 0..(q.mMaxSize - 1)
  BY <1>2 DEF Sound, Good
<1>8. (q.mMaxSize <= InitialSize + 2 * MaxSize)'
  BY <1>2, <1>3, <1>4, <1>7, TimerAssumption, SMTT(30)
<1>9. /\ svc' \in {"woken", "expiring", "upcall"} /\ until' = until /\ cur' = cur
  BY <1>1, <1>2 DEF Signal
<1>10. NeverOversleeps'
  BY <1>9 DEF NeverOversleeps
<1>11. IInv'
  BY <1>1, <1>2, <1>6, <1>8, <1>9, <1>10 DEF IInv
<1>12. i \in 0..(InitialSize + 2 * MaxSize)
  BY <1>2, <1>4, <1>7, TimerAssumption
<1>13. Promise!Schedule(i)
  <2>1. i \notin Active
    BY <1>4
  <2>2. DOMAIN timers = Active /\ DOMAIN timers' = Active \cup {i}
    BY <1>6 DEF timers
  <2>3. timers'[i] = n
    BY <1>4, <1>6 DEF timers
  <2>4. \A j \in Active : timers'[j] = timers[j]
    BY <1>4, <1>6 DEF timers
  <2> QED
    BY <2>1, <2>2, <2>3, <2>4, <1>1, <1>3 DEF Promise!Schedule
<1> QED
  BY <1>11, <1>12, <1>13

(* Cancelling a timer by its id.                                           *)
LEMMA CancelStep ==
    ASSUME IInv, NEW i \in Active, Cancel(i)
    PROVE  IInv' /\ i \in DOMAIN timers /\ Promise!Cancel(i)
<1>1. q' = freeNode(remove(q, q.mTimerIds[i]), i) /\ Signal /\ now' = now /\ closing' = closing
  BY DEF Cancel
<1>2. /\ Sound(q, Active, Closing) /\ q.mMaxSize <= InitialSize + 2 * MaxSize
      /\ now \in 0..MaxTime /\ (cur = None \/ cur \in 0..now)
      /\ svc \in {"waiting", "woken", "expiring", "upcall"} /\ until \in Nat \cup {Never}
  BY DEF IInv
<1>3. Cancelled(q, q', Active, Closing, i)
  BY <1>1, <1>2, CancelSound
<1>4. Closing' = Closing
  BY <1>1 DEF Closing
<1>5. Active' = Active \ {i} /\ Sound(q, Active, Closing)'
  BY <1>3, <1>4, SoundAfter DEF Cancelled
<1>6. q'.mMaxSize = q.mMaxSize /\ \A j \in Active \ {i} : q'.node[j] = q.node[j]
  BY <1>3 DEF Cancelled
<1>7. /\ svc' \in {"woken", "expiring", "upcall"} /\ until' = until /\ cur' = cur
  BY <1>1, <1>2 DEF Signal
<1>8. NeverOversleeps'
  BY <1>7 DEF NeverOversleeps
<1>9. IInv'
  BY <1>1, <1>2, <1>5, <1>6, <1>7, <1>8 DEF IInv
<1>10. timers' = [j \in DOMAIN timers \ {i} |-> timers[j]] /\ DOMAIN timers = Active
  BY <1>5, <1>6 DEF timers
<1> QED
  BY <1>1, <1>9, <1>10 DEF Promise!Cancel, Promise!Without

(* Cancelling a timer by its id, up to handleClose(): its id is in limbo.  *)
LEMMA CancelAndCloseStep ==
    ASSUME IInv, NEW i \in Active, CancelAndClose(i)
    PROVE  IInv' /\ i \in DOMAIN timers /\ Promise!Cancel(i)
<1>1. /\ closing = None /\ q' = remove(q, q.mTimerIds[i]) /\ closing' = i
      /\ Signal /\ now' = now
  BY DEF CancelAndClose
<1>2. /\ Sound(q, Active, Closing) /\ q.mMaxSize <= InitialSize + 2 * MaxSize
      /\ now \in 0..MaxTime /\ (cur = None \/ cur \in 0..now)
      /\ svc \in {"waiting", "woken", "expiring", "upcall"} /\ until \in Nat \cup {Never}
  BY DEF IInv
<1>3. /\ Sound(q', Active \ {i}, Closing \cup {i})
      /\ q'.node = q.node /\ q'.mMaxSize = q.mMaxSize
  <2>1. TakenOut(q, q', Active, Closing, i)
    BY <1>1, <1>2, RemoveSound
  <2> QED
    BY <2>1 DEF TakenOut
<1>4. Closing \cup {i} = Closing'
  <2>1. i # None
    <3>1. Active \subseteq DOMAIN q.mTimerIds /\ DOMAIN q.mTimerIds = 0..(q.mMaxSize - 1)
          /\ q.mMaxSize \in Nat
      BY <1>2 DEF Sound, Good
    <3> QED
      BY <3>1 DEF None
  <2> QED
    BY <2>1, <1>1 DEF Closing
<1>5. Active' = Active \ {i} /\ Sound(q, Active, Closing)'
  BY <1>3, <1>4, SoundAfter
<1>6. /\ svc' \in {"woken", "expiring", "upcall"} /\ until' = until /\ cur' = cur
  BY <1>1, <1>2 DEF Signal
<1>7. NeverOversleeps'
  BY <1>6 DEF NeverOversleeps
<1>8. IInv'
  BY <1>1, <1>2, <1>3, <1>5, <1>6, <1>7 DEF IInv
<1>9. timers' = [j \in DOMAIN timers \ {i} |-> timers[j]] /\ DOMAIN timers = Active
  BY <1>3, <1>5 DEF timers
<1> QED
  BY <1>1, <1>8, <1>9 DEF Promise!Cancel, Promise!Without

(* handleClose() returns: nobody else sees anything of it.                 *)
LEMMA CloseReturnsStep ==
    ASSUME IInv, CloseReturns
    PROVE  IInv' /\ UNCHANGED <<timers, now>>
<1>1. /\ closing # None /\ q' = freeNode(q, closing) /\ closing' = None
      /\ now' = now /\ UNCHANGED <<svc, until, cur, type>>
  BY DEF CloseReturns, svcVars
<1>2. /\ Sound(q, Active, Closing) /\ q.mMaxSize <= InitialSize + 2 * MaxSize
      /\ now \in 0..MaxTime /\ (cur = None \/ cur \in 0..now)
      /\ svc \in {"waiting", "woken", "expiring", "upcall"} /\ until \in Nat \cup {Never}
  BY DEF IInv
<1>3. Closing = {closing} /\ Closing' = {} /\ Closing \ {closing} = {}
  BY <1>1 DEF Closing
<1>4. closing \in Closing /\ closing \notin Active
  BY <1>2, <1>3 DEF Sound
<1>5. /\ Sound(q', Active, Closing \ {closing})
      /\ \A j \in (Active \cup Closing) \ {closing} : q'.node[j] = q.node[j]
      /\ q'.mMaxSize = q.mMaxSize
  BY <1>1, <1>2, <1>4, FreeSound
<1>6. Active' = Active /\ Sound(q, Active, Closing)'
  BY <1>3, <1>5, SoundAfter
<1>7. \A j \in Active : q'.node[j] = q.node[j]
  BY <1>4, <1>5
<1>8. NeverOversleeps'
  BY <1>1, <1>5, <1>7, StillInTime
<1>9. IInv'
  BY <1>1, <1>2, <1>5, <1>6, <1>8 DEF IInv
<1> QED
  BY <1>1, <1>6, <1>7, <1>9 DEF timers

(* Cancelling the timers of a handler.                                     *)
LEMMA TypeCancelledStep ==
    ASSUME IInv, NEW h, q' = cancelType(q, h), closing' = closing
    PROVE  /\ Sound(q, Active, Closing)' /\ q'.mMaxSize = q.mMaxSize
           /\ Active' \subseteq Active
           /\ \A j \in Active' : q'.node[j] = q.node[j]
           /\ timers' = [j \in DOMAIN timers \ {i \in DOMAIN timers : timers[i].type = h}
                           |-> timers[j]]
<1> DEFINE B == {j \in Active : q.node[j].type # h}
<1>1. Sound(q, Active, Closing) /\ Closing' = Closing
  BY DEF IInv, Closing
<1> HIDE DEF B
<1>2. B = {j \in Active : q.node[j].type # h}
  BY DEF B
<1>3. /\ Sound(q', B, Closing) /\ q'.mMaxSize = q.mMaxSize
      /\ \A j \in B \cup Closing : q'.node[j] = q.node[j]
  BY <1>1, <1>2, CancelTypeSound
<1>4. Active' = B /\ Sound(q, Active, Closing)'
  BY <1>1, <1>3, SoundAfter
<1>5. DOMAIN timers = Active /\ \A j \in Active : timers[j] = q.node[j]
  BY DEF timers
<1>6. DOMAIN timers \ {i \in DOMAIN timers : timers[i].type = h} = B
  BY <1>2, <1>5
<1>7. timers' = [j \in B |-> timers[j]]
  BY <1>2, <1>3, <1>4, <1>5 DEF timers
<1> QED
  BY <1>2, <1>3, <1>4, <1>6, <1>7

(* cancel() of all timers of a handler: the thread is not woken, and need  *)
(* not be, as the earliest timer is no earlier than before.                *)
LEMMA CancelHandlerStep ==
    ASSUME IInv, NEW h \in EventHandler, CancelHandler(h)
    PROVE  IInv' /\ \E i \in DOMAIN timers : Promise!CancelType(timers[i].type)
<1>1. /\ q' = cancelType(q, h) /\ now' = now /\ closing' = closing
      /\ UNCHANGED <<svc, until, cur, type>>
  BY DEF CancelHandler, NoSignal, svcVars
<1>2. PICK i \in Active : q.node[i].type = h
  BY DEF CancelHandler
<1>3. /\ Sound(q, Active, Closing)' /\ q'.mMaxSize = q.mMaxSize
      /\ Active' \subseteq Active
      /\ \A j \in Active' : q'.node[j] = q.node[j]
      /\ timers' = [j \in DOMAIN timers \ {k \in DOMAIN timers : timers[k].type = h}
                      |-> timers[j]]
  BY <1>1, TypeCancelledStep
<1>4. NeverOversleeps'
  BY <1>1, <1>3, StillInTime
<1>5. IInv'
  BY <1>1, <1>3, <1>4 DEF IInv
<1>6. i \in DOMAIN timers /\ timers[i].type = h
  BY <1>2 DEF timers
<1>7. Promise!CancelType(timers[i].type)
  BY <1>1, <1>3, <1>6 DEF Promise!CancelType, Promise!Without
<1> QED
  BY <1>5, <1>6, <1>7

(* handleTimeout() returns, and may have the timers of its handler         *)
(* cancelled.                                                              *)
LEMMA TimeoutReturnsStep ==
    ASSUME IInv, TimeoutReturns
    PROVE  /\ IInv'
           /\ \/ UNCHANGED <<timers, now>>
              \/ \E i \in DOMAIN timers : Promise!CancelType(timers[i].type)
<1>1. /\ svc' = "expiring" /\ now' = now /\ UNCHANGED <<until, cur, closing>>
      /\ q' = q \/ q' = cancelType(q, type)
  BY DEF TimeoutReturns
<1>2. NeverOversleeps'
  BY <1>1 DEF NeverOversleeps
<1>3. CASE q' = q
  BY <1>1, <1>2, <1>3, HeapUntouched DEF IInv
<1>4. CASE q' = cancelType(q, type)
  <2> DEFINE gone == {i \in DOMAIN timers : timers[i].type = type}
  <2>1. /\ Sound(q, Active, Closing)' /\ q'.mMaxSize = q.mMaxSize
        /\ timers' = [j \in DOMAIN timers \ gone |-> timers[j]]
    BY <1>1, <1>4, TypeCancelledStep
  <2>2. IInv'
    BY <1>1, <1>2, <2>1 DEF IInv
  <2>3. CASE gone = {}
    <3>1. timers = [j \in DOMAIN timers |-> timers[j]]
      BY DEF timers
    <3>2. DOMAIN timers \ gone = DOMAIN timers
      BY <2>3
    <3> QED
      BY <3>1, <3>2, <2>1, <2>2, <1>1
  <2>4. CASE gone # {}
    <3>1. PICK i \in DOMAIN timers : timers[i].type = type
      BY <2>4
    <3>2. Promise!CancelType(timers[i].type)
      BY <3>1, <2>1, <1>1 DEF Promise!CancelType, Promise!Without
    <3> QED
      BY <3>2, <2>2
  <2> QED
    BY <2>3, <2>4
<1> QED
  BY <1>1, <1>3, <1>4

(* Dispatching the earliest timer, once it is due.                         *)
LEMMA DispatchStep ==
    ASSUME IInv, Dispatch
    PROVE  IInv' /\ \E i \in DOMAIN timers : Promise!Dispatch(i)
<1> DEFINE i == q.mHeap[0]
           n == q.node[i]
           out == remove(q, 0)
           t == SkippedTo(n)
<1>1. /\ Due(cur) /\ svc' = "upcall" /\ UNCHANGED <<now, until, cur, closing>>
      /\ q' = IF n.interval > 0 THEN reschedule([out EXCEPT !.node[i].timerValue = t], i)
                                ELSE freeNode(out, i)
  BY DEF Dispatch
<1>2. /\ Sound(q, Active, Closing) /\ Good(q, Active) /\ Closing' = Closing
      /\ now \in 0..MaxTime /\ (cur = None \/ cur \in 0..now)
      /\ q.mMaxSize <= InitialSize + 2 * MaxSize /\ until \in Nat \cup {Never}
  BY <1>1 DEF IInv, Sound, Closing
<1>3. /\ i \in Active /\ EarliestTime(q) \in Nat /\ q.mTimerIds[i] = 0
      /\ \A x \in Active : EarliestTime(q) <= q.node[x].timerValue
      /\ EarliestTime(q) = n.timerValue
  <2>1. ~IsEmpty(q)
    BY <1>1 DEF Due
  <2> QED
    BY <2>1, <1>2, RootEarliest DEF EarliestTime, Value
<1>4. cur \in 0..now /\ n.timerValue <= cur
  <2>1. EarliestTime(q) <= cur
    BY <1>1 DEF Due
  <2> QED
    BY <2>1, <1>2, <1>3 DEF None
<1>5. n \in Node
  BY <1>2, <1>3 DEF Sound
<1>6. n.timerValue \in Nat /\ n.interval \in Nat /\ cur \in Nat /\ now \in Nat
  <2>1. n.timerValue \in Nat /\ n.interval \in Nat
    <3> HIDE DEF n
    <3> QED
      BY <1>5, TimerAssumption, Zenon DEF Node
  <2> QED
    BY <2>1, <1>2, <1>4
<1>7. NeverOversleeps'
  BY <1>1 DEF NeverOversleeps
<1>8. i \in DOMAIN timers /\ DOMAIN timers = Active /\ timers[i] = n
      /\ \A j \in Active : timers[j] = q.node[j]
  BY <1>3 DEF timers
<1>9. out = remove(q, q.mTimerIds[i])
  BY <1>3
<1>10. TakenOut(q, out, Active, Closing, i)
  BY <1>2, <1>3, <1>9, RemoveSound
<1> DEFINE Early == /\ timers[i].timerValue <= now
                    /\ \A j \in DOMAIN timers : timers[i].timerValue <= timers[j].timerValue
<1>11. Early
  BY <1>3, <1>4, <1>6, <1>8, SMTT(30)
<1> HIDE DEF out, n, i, t, Early
<1>12. ASSUME n.interval > 0
       PROVE  IInv' /\ Promise!Dispatch(i)
  <2>1. PICK k \in 1..(cur + 1) : t = n.timerValue + k * n.interval
    <3>1. \E x \in (cur + 1)..(cur + n.interval) : (x - n.timerValue) % n.interval = 0
      BY <1>4, <1>6, <1>12, SkipExists, ZenonT(40)
    <3>2. t \in (cur + 1)..(cur + n.interval) /\ (t - n.timerValue) % n.interval = 0
      BY <3>1, Zenon DEF SkippedTo, t
    <3>3. Periods(n.timerValue, n.interval, cur, t)
      BY <3>2, <1>4, <1>6, <1>12, Skips
    <3> QED
      BY <3>3 DEF Periods
  <2>2. t \in Nat /\ k \in 1..(now + 1)
    BY <2>1, <1>4, <1>6
  <2>3. /\ Sound(out, Active \ {i}, Closing \cup {i}) /\ out.node = q.node
        /\ out.mMaxSize = q.mMaxSize
    BY <1>10 DEF TakenOut
  <2>4. q' = reschedule([out EXCEPT !.node[i].timerValue = t], i) /\ i \in Closing \cup {i}
    BY <1>1, <1>12
  <2>5. /\ Sound(q', (Active \ {i}) \cup {i}, (Closing \cup {i}) \ {i})
        /\ q'.node = [out.node EXCEPT ![i].timerValue = t]
        /\ q'.mMaxSize = out.mMaxSize
    <3>1. Rescheduled(out, q', Active \ {i}, Closing \cup {i}, i, t)
      BY <2>2, <2>3, <2>4, RescheduleSound
    <3> QED
      BY <3>1 DEF Rescheduled
  <2>6. i \notin Closing /\ Active \subseteq DOMAIN q.node
    BY <1>2, <1>3 DEF Sound
  <2>7. (Active \ {i}) \cup {i} = Active /\ (Closing \cup {i}) \ {i} = Closing
    BY <2>6, <1>3
  <2>8. Active' = Active /\ Sound(q, Active, Closing)'
    BY <2>5, <2>7, <1>2, SoundAfter, ZenonT(40)
  <2>9. IInv'
    BY <2>3, <2>5, <2>8, <1>1, <1>2, <1>7 DEF IInv
  <2>10. timers' = [timers EXCEPT ![i].timerValue = @ + k * timers[i].interval]
    <3>1. q'.node = [q.node EXCEPT ![i].timerValue = t]
      BY <2>3, <2>5
    <3>2. timers' = [j \in Active |-> q'.node[j]] /\ timers = [j \in Active |-> q.node[j]]
      BY <2>8 DEF timers
    <3>3. timers' = [timers EXCEPT ![i].timerValue = t]
      BY <3>1, <3>2, <2>6, <1>3
    <3> QED
      BY <3>3, <2>1, <1>8
  <2> QED
    BY <2>2, <2>9, <2>10, <1>1, <1>8, <1>11, <1>12, Zenon DEF Promise!Dispatch, Early
<1>13. ASSUME ~(n.interval > 0)
       PROVE  IInv' /\ Promise!Dispatch(i)
  <2>1. q' = freeNode(remove(q, q.mTimerIds[i]), i)
    BY <1>1, <1>9, <1>13
  <2>2. Cancelled(q, q', Active, Closing, i)
    BY <2>1, <1>2, <1>3, CancelSound
  <2>3. Active' = Active \ {i} /\ Sound(q, Active, Closing)'
    BY <2>2, <1>2, SoundAfter DEF Cancelled
  <2>4. q'.mMaxSize = q.mMaxSize /\ \A j \in Active \ {i} : q'.node[j] = q.node[j]
    BY <2>2 DEF Cancelled
  <2>5. IInv'
    BY <2>3, <2>4, <1>1, <1>2, <1>7 DEF IInv
  <2>6. timers' = [j \in DOMAIN timers \ {i} |-> timers[j]]
    BY <2>3, <2>4, <1>8 DEF timers
  <2>7. n.interval = 0
    BY <1>6, <1>13
  <2> QED
    BY <2>5, <2>6, <2>7, <1>1, <1>8, <1>11 DEF Promise!Dispatch, Promise!Without, Early
<1> QED
  BY <1>8, <1>12, <1>13

(* The heap that the constructor makes is sound.                           *)
LEMMA ConstructedSound == Sound(Constructed, {}, {})
<1> DEFINE p == Constructed
<1>1. /\ IsHeap(p) /\ p.mHeap = <<>> /\ p.mCurSize = 0 /\ p.mCurLimbo = 0
      /\ p.mMaxSize = InitialSize /\ p.mTimerIdsCurr = 0 /\ p.mTimerIdsMinFree = 0
      /\ p.node = <<>> /\ p.mTimerIds = [i \in 0..(InitialSize - 1) |-> -1]
  BY DEF Constructed, IsHeap
<1> HIDE DEF p
<1>2. DOMAIN p.mHeap = 0..(0 - 1) /\ DOMAIN p.node = {} /\ 0..(0 - 1) = {}
  BY <1>1
<1>3. /\ DOMAIN p.mTimerIds = 0..(p.mMaxSize - 1)
      /\ \A j \in DOMAIN p.mTimerIds : p.mTimerIds[j] = -1
  BY <1>1
<1>4. InitialSize \in Nat /\ InitialSize >= 2
  BY TimerAssumption
<1>5. Good(p, {})
  BY <1>1, <1>2, <1>3, <1>4 DEF Good, Stored
<1>6. IsFiniteSet({}) /\ Cardinality({}) = 0
  BY FS_EmptySet
<1>7. Sound(p, {}, {})
  BY <1>1, <1>2, <1>3, <1>4, <1>5, <1>6 DEF Sound, Limbo
<1> QED
  BY <1>7 DEF p

(* The constructor leaves a sound heap without timers.                     *)
LEMMA InitStep == Init => IInv /\ Promise!Init
<1> SUFFICES ASSUME Init PROVE IInv /\ Promise!Init
  OBVIOUS
<1>1. /\ q = Constructed /\ now = 0 /\ svc = "waiting" /\ until = Never /\ cur = None
      /\ closing = None
  BY DEF Init
<1>2. Sound(q, {}, {})
  BY <1>1, ConstructedSound
<1>3. Active = {} /\ Closing = {}
  BY <1>1, <1>2, ActiveOf DEF Active, Closing
<1>4. q.mMaxSize <= InitialSize + 2 * MaxSize
  BY <1>1, TimerAssumption DEF Constructed
<1>5. NeverOversleeps
  BY <1>1 DEF NeverOversleeps, IsEmpty, Constructed
<1>6. IInv
  BY <1>1, <1>2, <1>3, <1>4, <1>5, TimerAssumption DEF IInv
<1>7. timers = <<>>
  BY <1>3 DEF timers
<1> QED
  BY <1>1, <1>6, <1>7 DEF Promise!Init

(* Every step keeps the invariant and is a step of the abstract queue, or  *)
(* one that it does not see.                                               *)
LEMMA NextStep ==
    ASSUME IInv, [Next]_vars
    PROVE  IInv' /\ [Promise!Next]_<<timers, now>>
<1>1. CASE UNCHANGED vars
  <2>1. UNCHANGED <<q, now, svc, until, cur, type, closing>>
    BY <1>1 DEF vars, svcVars
  <2>2. /\ Sound(q, Active, Closing)' /\ (q.mMaxSize <= InitialSize + 2 * MaxSize)'
        /\ timers' = timers
        /\ (~IsEmpty(q) <=> ~IsEmpty(q)') /\ EarliestTime(q)' = EarliestTime(q)
    BY <2>1, HeapUntouched
  <2>3. NeverOversleeps'
    BY <2>1, <2>2 DEF IInv, NeverOversleeps
  <2> QED
    BY <2>1, <2>2, <2>3 DEF IInv
<1>2. ASSUME NEW h \in EventHandler, NEW d \in Delay, NEW v \in Interval, Schedule(h, d, v)
      PROVE  IInv' /\ Promise!Next
  BY <1>2, ScheduleStep DEF Promise!Next
<1>3. ASSUME NEW i \in Active, Cancel(i) \/ CancelAndClose(i)
      PROVE  IInv' /\ Promise!Next
  BY <1>3, CancelStep, CancelAndCloseStep DEF Promise!Next
<1>4. ASSUME NEW i \in Active, NEW v \in Interval, ResetInterval(i, v)
      PROVE  IInv' /\ Promise!Next
  BY <1>4, ResetIntervalStep DEF Promise!Next
<1>5. ASSUME NEW h \in EventHandler, CancelHandler(h)
      PROVE  IInv' /\ Promise!Next
  BY <1>5, CancelHandlerStep DEF Promise!Next
<1>6. CASE CloseReturns
  BY <1>6, CloseReturnsStep
<1>7. CASE SpuriousWake \/ Wake \/ ExpireReturns
  BY <1>7, ThreadStep
<1>8. CASE Dispatch
  BY <1>8, DispatchStep DEF Promise!Next
<1>9. CASE TimeoutReturns
  BY <1>9, TimeoutReturnsStep DEF Promise!Next
<1>10. CASE Tick
  BY <1>10, TickStep DEF Promise!Next
<1> QED
  BY <1>1, <1>2, <1>3, <1>4, <1>5, <1>6, <1>7, <1>8, <1>9, <1>10 DEF Next

-----------------------------------------------------------------------------
(* Theorems.                                                               *)

(* Whatever timers are set, cancelled, reset and dispatched, in whatever   *)
(* order and from within whatever upcalls, for any initial size of the     *)
(* heap: it is sound between any two steps.                                *)
THEOREM TimerInvariant == Spec => []IInv
<1>1. Init => IInv
  BY InitStep
<1>2. IInv /\ [Next]_vars => IInv'
  BY NextStep
<1> QED
  BY <1>1, <1>2, PTL DEF Spec

(* The counts that schedule() and growHeap() go by, mCurSize and           *)
(* mCurLimbo, are those of the ids in the heap and in limbo.               *)
THEOREM TypeCorrect == Spec => []TypeOK
<1>1. IInv => TypeOK
  <2> SUFFICES ASSUME IInv PROVE TypeOK
    OBVIOUS
  <2>1. /\ Sound(q, Active, Closing)
        /\ now \in 0..MaxTime /\ (cur = None \/ cur \in 0..now)
        /\ svc \in {"waiting", "woken", "expiring", "upcall"}
    BY DEF IInv
  <2>2. /\ Cardinality(Active) = q.mCurSize
        /\ \A j \in DOMAIN q.mTimerIds : Free(q, j) <=> j \notin Active \cup Closing
    BY <2>1, FreeIdsCounted, ZenonT(40)
  <2>3. /\ Active \subseteq DOMAIN q.mTimerIds /\ Closing \subseteq DOMAIN q.mTimerIds \ Active
        /\ \A j \in DOMAIN q.mTimerIds \ Active : j \in Closing <=> q.mTimerIds[j] = Limbo
        /\ DOMAIN q.mHeap = 0..(q.mCurSize - 1) /\ DOMAIN q.mTimerIds = 0..(q.mMaxSize - 1)
        /\ q.mMaxSize \in Nat
        /\ DOMAIN q.node = Active \cup Closing /\ q.mCurLimbo = Cardinality(Closing)
        /\ q.mTimerIdsCurr \in 0..(q.mMaxSize - 1) /\ q.mTimerIdsMinFree \in 0..q.mMaxSize
    BY <2>1, Zenon DEF Sound, Good
  <2>4. \A j \in Active : q.mTimerIds[j] # Limbo
    BY DEF Active, Limbo
  <2>5. {i \in DOMAIN q.mTimerIds : q.mTimerIds[i] = Limbo} = Closing
    BY <2>3, <2>4
  <2>6. DOMAIN q.node = {i \in DOMAIN q.mTimerIds : ~Free(q, i)}
    BY <2>2, <2>3
  <2>7. closing = None \/ q.mTimerIds[closing] = Limbo
    <3>1. closing = None \/ closing \in Closing
      BY DEF Closing
    <3> QED
      BY <3>1, <2>5
  <2>8. q.mTimerIdsCurr < q.mMaxSize /\ q.mTimerIdsMinFree <= q.mMaxSize
    BY <2>3
  <2> QED
    BY <2>1, <2>2, <2>3, <2>5, <2>6, <2>7, <2>8, Zenon DEF TypeOK
<1> QED
  BY <1>1, TimerInvariant, PTL

(* copy() keeps mTimerIds and mHeap inverse to each other: cancel() finds  *)
(* the timer with the id it was given.                                     *)
THEOREM IdsAlwaysMatch == Spec => []IdsMatchHeap
<1>1. IInv => IdsMatchHeap
  BY DEF IInv, Sound, Good, Stored, IdsMatchHeap
<1> QED
  BY <1>1, TimerInvariant, PTL

(* reheapUp() and reheapDown() restore the order after every insertion and *)
(* removal.                                                                *)
THEOREM HeapAlwaysOrdered == Spec => []HeapOrdered
<1>1. IInv => HeapOrdered
  BY DEF IInv, Sound, Good, InOrder, HeapOrdered
<1> QED
  BY <1>1, TimerInvariant, PTL

(* popFreelist() always finds a free id, and growHeap() leaves at most one *)
(* free id out of its reach.                                               *)
THEOREM FreeIdAlwaysFound == Spec => []FreeIdFound
<1>1. IInv => FreeIdFound
  <2> SUFFICES ASSUME IInv PROVE FreeIdFound
    OBVIOUS
  <2>1. Sound(q, Active, Closing)
    BY DEF IInv
  <2>2. /\ DOMAIN q.mTimerIds = 0..(q.mMaxSize - 1) /\ q.mMaxSize \in Nat
        /\ q.mCurSize + q.mCurLimbo + 2 <= q.mMaxSize
        /\ \A i, j \in DOMAIN q.mTimerIds \ (Active \cup Closing) :
             /\ i <= q.mTimerIdsCurr /\ i < q.mTimerIdsMinFree
             /\ j <= q.mTimerIdsCurr /\ j < q.mTimerIdsMinFree
             => i = j
    BY <2>1 DEF Sound, Good
  <2>3. timerId(q) \in DOMAIN q.mTimerIds \ (Active \cup Closing)
    BY <2>1, TimerIdFree
  <2>4. \A j \in DOMAIN q.mTimerIds : Free(q, j) <=> j \notin Active \cup Closing
    BY <2>1, FreeIdsCounted, Zenon
  <2>5. Cardinality(Unreachable) <= 1
    <3>1. CASE Unreachable = {}
      <4>1. Cardinality(Unreachable) = 0
        BY <3>1, FS_EmptySet
      <4> QED
        BY <4>1
    <3>2. CASE Unreachable # {}
      <4>1. PICK i \in Unreachable : TRUE
        BY <3>2
      <4>2. \A j \in Unreachable : j = i
        BY <4>1, <2>2, <2>4 DEF Unreachable
      <4>3. Unreachable = {i}
        BY <4>1, <4>2
      <4>4. Cardinality(Unreachable) = 1
        BY <4>3, FS_Singleton, Zenon
      <4> QED
        BY <4>4
    <3> QED
      BY <3>1, <3>2
  <2>6. timerId(q) < q.mMaxSize /\ Free(q, timerId(q))
    BY <2>2, <2>3, <2>4
  <2> QED
    BY <2>2, <2>5, <2>6 DEF FreeIdFound
<1> QED
  BY <1>1, TimerInvariant, PTL

(* The adapter's thread never waits past the earliest timer, although      *)
(* cancelling the timers of a handler does not wake it.                    *)
THEOREM ThreadWakesInTime == Spec => []NeverOversleeps
<1>1. IInv => NeverOversleeps
  BY DEF IInv
<1> QED
  BY <1>1, TimerInvariant, PTL

(* The heap, its table of ids and the dispatching thread implement a set   *)
(* of timers with unique ids, of which the earliest is dispatched when it  *)
(* is due, and a periodic one is due again whole intervals later.          *)
THEOREM HeapIsTimerQueue == Spec => IsTimerQueue
<1>1. Init => Promise!Init
  BY InitStep
<1>2. IInv /\ [Next]_vars => [Promise!Next]_<<timers, now>>
  BY NextStep
<1> QED
  BY <1>1, <1>2, TimerInvariant, PTL DEF Spec, IsTimerQueue, Promise!Spec

=============================================================================
