--------------------------- MODULE TimerHeapProofs ---------------------------
(***************************************************************************)
(* The timer heap for any number of timers: what its functions make of a   *)
(* heap, and the steps of the adapter that set or cancel no timer.         *)
(***************************************************************************)
EXTENDS TimerHeap, WellFoundedInduction, TLAPS

(* A set of numbers has a least one.                                       *)
LEMMA LeastNumber ==
    ASSUME NEW S \in SUBSET Nat, S # {}
    PROVE  \E m \in S : \A n \in S : m <= n
<1> DEFINE R == OpToRel(<, Nat)
<1>1. PICK x \in S : \A y \in S : ~(<<y, x>> \in R)
  BY NatLessThanWellFounded, WFMin, Zenon
<1>2. \A y \in Nat : y < x => <<y, x>> \in R
  BY SMT DEF OpToRel
<1> HIDE DEF R
<1>3. \A y \in S : ~(y < x)
  BY <1>1, <1>2, Zenon
<1> QED
  BY <1>3

-----------------------------------------------------------------------------
(* The loops of reheapUp() and reheapDown().                               *)

(* The slots visited are closed under next, and there are no fewer.        *)
LEMMA VisitedClosed ==
    ASSUME NEW D, NEW next \in [D -> D], NEW s \in D
    PROVE  /\ s \in Visited(next, s)
           /\ Visited(next, s) \subseteq D
           /\ \A x \in Visited(next, s) : next[x] \in Visited(next, s)
BY DEF Visited

(* No set of slots that is closed under next and holds the first has       *)
(* fewer than those visited.                                               *)
LEMMA VisitedLeast ==
    ASSUME NEW D, NEW next \in [D -> D], NEW s \in D,
           NEW S \in SUBSET D, s \in S, \A y \in S : next[y] \in S
    PROVE  Visited(next, s) \subseteq S
BY DEF Visited

(* After the first slot the loop does what one begun at the second does.   *)
LEMMA VisitedFrom ==
    ASSUME NEW D, NEW next \in [D -> D], NEW s \in D
    PROVE  Visited(next, s) \subseteq {s} \cup Visited(next, next[s])
<1> DEFINE S == {s} \cup Visited(next, next[s])
<1>1. S \in SUBSET D /\ s \in S /\ \A y \in S : next[y] \in S
  BY VisitedClosed
<1> HIDE DEF S
<1>2. Visited(next, s) \subseteq S
  BY <1>1, VisitedLeast
<1> QED
  BY <1>2 DEF S

(* Of two slots visited, one is visited after the other.                   *)
LEMMA VisitedChain ==
    ASSUME NEW D, NEW next \in [D -> D], NEW s \in D
    PROVE  \A x, y \in Visited(next, s) :
             x \in Visited(next, y) \/ y \in Visited(next, x)
<1> DEFINE V == Visited(next, s)
           S == {x \in V : \A y \in V : x \in Visited(next, y) \/ y \in Visited(next, x)}
<1>1. s \in V /\ V \subseteq D /\ \A x \in V : next[x] \in V
  BY VisitedClosed
<1>2. s \in S
  BY <1>1
<1>3. ASSUME NEW x \in S PROVE next[x] \in S
  <2> SUFFICES ASSUME NEW y \in V
               PROVE  next[x] \in Visited(next, y) \/ y \in Visited(next, next[x])
    BY <1>1
  <2>1. CASE x \in Visited(next, y)
    BY <2>1, <1>1, VisitedClosed
  <2>2. CASE y \in Visited(next, x) /\ y # x
    BY <2>2, <1>1, VisitedFrom
  <2>3. CASE y = x
    BY <2>3, <1>1, VisitedClosed
  <2> QED
    BY <2>1, <2>2, <2>3
<1>4. S \in SUBSET D
  BY <1>1
<1> HIDE DEF S
<1>5. V \subseteq S
  BY <1>2, <1>3, <1>4, VisitedLeast
<1> QED
  BY <1>5 DEF S

(* Each step of such a loop goes to a slot of lower rank.                  *)
Descends(next, rank) ==
    \A x \in DOMAIN next : next[x] # x => rank[next[x]] < rank[x]

(* So a slot visited later ranks lower.                                    *)
LEMMA VisitedRank ==
    ASSUME NEW D, NEW next \in [D -> D], NEW s \in D,
           NEW rank \in [D -> Nat], Descends(next, rank)
    PROVE  \A x \in Visited(next, s) : x = s \/ rank[x] < rank[s]
<1> DEFINE S == {x \in D : x = s \/ rank[x] < rank[s]}
<1>1. ASSUME NEW x \in S PROVE next[x] \in S
  <2>1. next[x] = x \/ rank[next[x]] < rank[x]
    BY DEF Descends
  <2>2. rank[x] \in Nat /\ rank[s] \in Nat /\ rank[next[x]] \in Nat
    OBVIOUS
  <2> QED
    BY <2>1, <2>2
<1>2. s \in S /\ S \in SUBSET D
  OBVIOUS
<1> HIDE DEF S
<1>3. Visited(next, s) \subseteq S
  BY <1>1, <1>2, VisitedLeast
<1> QED
  BY <1>3 DEF S

(* The loop ends, in one slot.                                             *)
LEMMA VisitedEnd ==
    ASSUME NEW D, NEW next \in [D -> D], NEW s \in D,
           NEW rank \in [D -> Nat], Descends(next, rank)
    PROVE  \E e \in Visited(next, s) :
             \A x \in Visited(next, s) : next[x] = x <=> x = e
<1> DEFINE V == Visited(next, s)
           R == {rank[x] : x \in V}
<1>1. s \in V /\ V \subseteq D /\ \A x \in V : next[x] \in V
  BY VisitedClosed
<1>2. R \in SUBSET Nat /\ R # {}
  BY <1>1
<1>3. PICK r \in R : \A n \in R : r <= n
  BY <1>2, LeastNumber, Zenon
<1>4. PICK e \in V : rank[e] = r
  BY <1>3
<1>5. next[e] = e
  <2>1. rank[next[e]] \in R /\ rank[next[e]] \in Nat /\ rank[e] \in Nat
    BY <1>1, <1>4
  <2>2. rank[e] <= rank[next[e]]
    BY <2>1, <1>3, <1>4
  <2> QED
    BY <2>1, <2>2, <1>1, <1>4 DEF Descends
<1>6. ASSUME NEW x \in V, next[x] = x PROVE x = e
  <2>1. x \in Visited(next, e) \/ e \in Visited(next, x)
    BY <1>4, VisitedChain
  <2>2. Visited(next, e) \subseteq {e} /\ Visited(next, x) \subseteq {x}
    <3>1. \A y \in {e} : next[y] \in {e}
      BY <1>5
    <3>2. \A y \in {x} : next[y] \in {x}
      BY <1>6
    <3>3. {e} \in SUBSET D /\ {x} \in SUBSET D
      BY <1>1, <1>4
    <3> QED
      BY <3>1, <3>2, <3>3, <1>1, <1>4, VisitedLeast, Zenon
  <2> QED
    BY <2>1, <2>2
<1> QED
  BY <1>4, <1>5, <1>6

(* Its steps come from one slot each, and none goes to the slot the loop   *)
(* began at.                                                               *)
LEMMA VisitedOnce ==
    ASSUME NEW D, NEW next \in [D -> D], NEW s \in D,
           NEW rank \in [D -> Nat], Descends(next, rank)
    PROVE  \A x \in Visited(next, s) : next[x] # x =>
             /\ next[x] # s
             /\ \A y \in Visited(next, s) : next[y] # y /\ next[y] = next[x] => y = x
<1> DEFINE V == Visited(next, s)
<1>1. s \in V /\ V \subseteq D /\ \A x \in V : next[x] \in V
  BY VisitedClosed
<1>2. ASSUME NEW x \in V, next[x] # x PROVE next[x] # s
  <2>1. rank[x] \in Nat /\ rank[s] \in Nat /\ rank[next[x]] < rank[x]
    BY <1>1, <1>2 DEF Descends
  <2>2. x = s \/ rank[x] < rank[s]
    BY VisitedRank
  <2> QED
    BY <2>1, <2>2, <1>1
<1>3. ASSUME NEW x \in V, NEW y \in V, next[x] # x, next[y] # y, next[y] = next[x],
             x \in Visited(next, y)
      PROVE  y = x
  <2>1. x = y \/ x \in Visited(next, next[y])
    BY <1>1, <1>3, VisitedFrom
  <2>2. x = next[y] \/ rank[x] < rank[next[y]] \/ x = y
    BY <2>1, <1>1, VisitedRank
  <2>3. rank[next[x]] < rank[x] /\ rank[x] \in Nat /\ rank[next[x]] \in Nat
    BY <1>1, <1>3 DEF Descends
  <2> QED
    BY <2>2, <2>3, <1>3
<1>4. \A x, y \in V : x \in Visited(next, y) \/ y \in Visited(next, x)
  BY VisitedChain
<1> QED
  BY <1>2, <1>3, <1>4

(* And every slot visited but the first has been stepped to.               *)
LEMMA VisitedFromOther ==
    ASSUME NEW D, NEW next \in [D -> D], NEW s \in D
    PROVE  \A x \in Visited(next, s) :
             x = s \/ \E y \in Visited(next, s) : y # x /\ next[y] = x
<1> DEFINE V == Visited(next, s)
           S == {x \in V : x = s \/ \E y \in V : y # x /\ next[y] = x}
<1>1. s \in V /\ V \subseteq D /\ \A x \in V : next[x] \in V
  BY VisitedClosed
<1>2. \A x \in S : next[x] \in S
  BY <1>1
<1>3. s \in S /\ S \in SUBSET D
  BY <1>1
<1> HIDE DEF S
<1>4. V \subseteq S
  BY <1>2, <1>3, VisitedLeast
<1> QED
  BY <1>4 DEF S

-----------------------------------------------------------------------------
(* What a loop makes of the heap.                                          *)

(* Only mHeap and mTimerIds differ, as after copy(), reheapUp() and        *)
(* reheapDown().                                                           *)
SameBookkeeping(p, r) ==
    /\ r.mCurSize = p.mCurSize /\ r.mCurLimbo = p.mCurLimbo /\ r.mMaxSize = p.mMaxSize
    /\ r.mTimerIdsCurr = p.mTimerIdsCurr /\ r.mTimerIdsMinFree = p.mTimerIdsMinFree
    /\ r.node = p.node

(* copy() changes nothing but the heap and the table of ids.               *)
LEMMA CopyEffect ==
    ASSUME NEW p, IsHeap(p), NEW moved, NEW r, r = copy(p, moved)
    PROVE  /\ IsHeap(r) /\ SameBookkeeping(p, r)
           /\ DOMAIN r.mHeap = DOMAIN p.mHeap \cup DOMAIN moved
           /\ \A s \in DOMAIN r.mHeap :
                r.mHeap[s] = IF s \in DOMAIN moved THEN moved[s] ELSE p.mHeap[s]
           /\ DOMAIN r.mTimerIds = DOMAIN p.mTimerIds
           /\ \A i \in DOMAIN p.mTimerIds :
                IF \E s \in DOMAIN moved : moved[s] = i
                  THEN r.mTimerIds[i] \in DOMAIN moved /\ moved[r.mTimerIds[i]] = i
                  ELSE r.mTimerIds[i] = p.mTimerIds[i]
BY Zenon DEF copy, IsHeap, SameBookkeeping

(* A loop that fills slot s with id i, or with one of the ids A that it    *)
(* moves within the slots S.                                               *)
MayShift(p, i, next, s, S, A) ==
    /\ IsHeap(p) /\ s \notin S /\ i \notin A
    /\ S \cup {s} = DOMAIN p.mHeap \cup {s} /\ Stored(p, S, A)
    /\ A \cup {i} \subseteq DOMAIN p.mTimerIds
    /\ DOMAIN next \subseteq S \cup {s} /\ s \in DOMAIN next
    /\ next \in [DOMAIN next -> DOMAIN next]
    /\ \E rank \in [DOMAIN next -> Nat] : Descends(next, rank)

(* What it leaves behind.                                                  *)
Shifted(p, r, i, next, s, S, A) ==
    /\ IsHeap(r) /\ SameBookkeeping(p, r)
    /\ DOMAIN r.mHeap = S \cup {s}
    /\ \A x \in S \cup {s} :
         r.mHeap[x] = IF x \notin Visited(next, s) THEN p.mHeap[x]
                      ELSE IF next[x] = x THEN i ELSE p.mHeap[next[x]]
    /\ Stored(r, S \cup {s}, A \cup {i})
    /\ DOMAIN r.mTimerIds = DOMAIN p.mTimerIds
    /\ \A j \in DOMAIN p.mTimerIds \ (A \cup {i}) : r.mTimerIds[j] = p.mTimerIds[j]

(* The loop puts id i into the heap at the slot s it begins at: mHeap and  *)
(* mTimerIds stay inverse, and the entries of other ids stay as they are.  *)
LEMMA ShiftStores ==
    ASSUME NEW p, NEW i, NEW next, NEW s, NEW S, NEW A, MayShift(p, i, next, s, S, A),
           NEW r, r = shift(p, i, next, s)
    PROVE  Shifted(p, r, i, next, s, S, A)
<1> DEFINE D == DOMAIN next
<1>a. /\ IsHeap(p) /\ s \notin S /\ i \notin A
      /\ S \cup {s} = DOMAIN p.mHeap \cup {s} /\ Stored(p, S, A)
      /\ A \cup {i} \subseteq DOMAIN p.mTimerIds
      /\ D \subseteq S \cup {s} /\ s \in D /\ next \in [D -> D]
  BY DEF MayShift
<1>b. PICK rank \in [D -> Nat] : Descends(next, rank)
  BY DEF MayShift
<1> HIDE DEF D
<1> USE <1>a, <1>b
<1> DEFINE V == Visited(next, s)
           moved == [x \in V |-> IF next[x] = x THEN i ELSE p.mHeap[next[x]]]
<1>1. s \in V /\ V \subseteq D /\ \A x \in V : next[x] \in V
  BY VisitedClosed
<1>2. PICK e \in V : \A x \in V : next[x] = x <=> x = e
  BY VisitedEnd
<1>3. \A x \in V : x # e =>
        next[x] # s /\ \A y \in V : y # e /\ next[y] = next[x] => y = x
  BY <1>2, VisitedOnce
<1>4. \A x \in V : x = s \/ \E y \in V : y # e /\ next[y] = x
  BY <1>2, VisitedFromOther
<1>5. /\ DOMAIN moved = V
      /\ \A x \in V : moved[x] = IF x = e THEN i ELSE p.mHeap[next[x]]
  BY <1>2
<1>6. r = copy(p, moved)
  BY DEF shift
<1> HIDE DEF V, moved
<1>7. \A x \in V : x # e => next[x] \in S
  BY <1>1, <1>3
<1>8. \A x \in V : x # e => moved[x] \in A /\ p.mTimerIds[moved[x]] = next[x]
  BY <1>5, <1>7 DEF Stored
<1>9. \A x, y \in V : moved[x] = moved[y] => x = y
  BY <1>3, <1>5, <1>8
<1>10. /\ IsHeap(r) /\ SameBookkeeping(p, r)
       /\ DOMAIN r.mHeap = DOMAIN p.mHeap \cup V
       /\ \A x \in DOMAIN r.mHeap : r.mHeap[x] = IF x \in V THEN moved[x] ELSE p.mHeap[x]
       /\ DOMAIN r.mTimerIds = DOMAIN p.mTimerIds
       /\ \A j \in DOMAIN p.mTimerIds :
            IF \E x \in V : moved[x] = j
              THEN r.mTimerIds[j] \in V /\ moved[r.mTimerIds[j]] = j
              ELSE r.mTimerIds[j] = p.mTimerIds[j]
  BY <1>5, <1>6, CopyEffect
<1>11. DOMAIN r.mHeap = S \cup {s}
  BY <1>1, <1>10
<1>12. \A x \in S \cup {s} : r.mHeap[x] = IF x \in V THEN moved[x] ELSE p.mHeap[x]
  BY <1>1, <1>10
<1>13. \A x \in V : moved[x] \in A \cup {i} /\ r.mTimerIds[moved[x]] = x
  BY <1>5, <1>8, <1>9, <1>10
<1>14. \A x \in S \ V : p.mHeap[x] \in A /\ \A y \in V : moved[y] # p.mHeap[x]
  BY <1>1, <1>5, <1>8 DEF Stored
<1>15. \A x \in S \ V : r.mHeap[x] \in A /\ r.mTimerIds[r.mHeap[x]] = x
  BY <1>10, <1>12, <1>14 DEF Stored
<1>16. \A x \in S \cup {s} : r.mHeap[x] \in A \cup {i} /\ r.mTimerIds[r.mHeap[x]] = x
  BY <1>1, <1>12, <1>13, <1>15
<1>17. \A j \in A \cup {i} : \E x \in S \cup {s} : r.mHeap[x] = j
  <2> TAKE j \in A \cup {i}
  <2>1. CASE j = i
    BY <2>1, <1>1, <1>5, <1>12
  <2>2. CASE j \in A
    <3>1. PICK x \in S : p.mHeap[x] = j
      BY <2>2 DEF Stored
    <3>2. CASE x \notin V
      BY <3>1, <3>2, <1>12
    <3>3. CASE x \in V
      <4>1. PICK y \in V : y # e /\ next[y] = x
        BY <3>1, <3>3, <1>4
      <4> QED
        BY <4>1, <3>1, <1>1, <1>5, <1>12
    <3> QED
      BY <3>2, <3>3
  <2> QED
    BY <2>1, <2>2
<1>18. Stored(r, S \cup {s}, A \cup {i})
  BY <1>16, <1>17 DEF Stored
<1>19. \A j \in DOMAIN p.mTimerIds \ (A \cup {i}) : r.mTimerIds[j] = p.mTimerIds[j]
  BY <1>10, <1>13
<1>20. \A x \in S \cup {s} :
         r.mHeap[x] = IF x \notin V THEN p.mHeap[x]
                      ELSE IF next[x] = x THEN i ELSE p.mHeap[next[x]]
  BY <1>2, <1>5, <1>12
<1> QED
  BY <1>10, <1>11, <1>18, <1>19, <1>20 DEF V, Shifted

-----------------------------------------------------------------------------
(* The order of the heap.                                                  *)

(* A slot is one of the two children of its parent, which is a lower slot, *)
(* and the parent of both of its own.                                      *)
LEMMA ParentFacts ==
    /\ Parent(0) = 0
    /\ \A s \in Nat \ {0} :
         /\ Parent(s) \in Nat /\ Parent(s) < s
         /\ s = LChild(Parent(s)) \/ s = LChild(Parent(s)) + 1
    /\ \A s \in Nat : /\ LChild(s) \in Nat /\ LChild(s) > s
                      /\ Parent(LChild(s)) = s /\ Parent(LChild(s) + 1) = s
BY DEF Parent, LChild

(* The parent of a slot in use is in use.                                  *)
LEMMA ParentInRange == \A n \in Int : \A s \in 0..n : Parent(s) \in 0..n
BY DEF Parent

(* What a reheap makes of heap p, from which only the node with id i was   *)
(* missing: a heap r of n slots with the ids A and i, in order.            *)
Reheaped(p, r, n, A, i) ==
    /\ IsHeap(r) /\ SameBookkeeping(p, r)
    /\ DOMAIN r.mHeap = 0..(n - 1) /\ Stored(r, 0..(n - 1), A \cup {i})
    /\ DOMAIN r.mTimerIds = DOMAIN p.mTimerIds
    /\ \A j \in DOMAIN p.mTimerIds \ (A \cup {i}) : r.mTimerIds[j] = p.mTimerIds[j]
    /\ \A s \in 0..(n - 1) : InOrder(r, s)

(* What it begins with: slot d of n is to be filled, the others have the   *)
(* ids A and are in order, also across slot d.                             *)
Gap(p, n, A, i, d) ==
    /\ IsHeap(p) /\ d \in 0..(n - 1) /\ i \notin A
    /\ 0..(n - 1) = DOMAIN p.mHeap \cup {d}
    /\ Stored(p, (0..(n - 1)) \ {d}, A)
    /\ A \cup {i} \subseteq DOMAIN p.mTimerIds
    /\ \A j \in A \cup {i} : p.node[j].timerValue \in Nat
    /\ \A s \in 1..(n - 1) : s # d /\ Parent(s) # d => InOrder(p, s)
    /\ \A s \in 1..(n - 1) : Parent(s) = d /\ d > 0 =>
         Value(p, Parent(d)) <= Value(p, s)

(* reheapUp() restores the order, if the node is no later than those below *)
(* the slot it begins at.                                                  *)
LEMMA UpReheaps ==
    ASSUME NEW p, NEW n \in Nat, NEW A, NEW i, NEW d, Gap(p, n, A, i, d),
           \A s \in 1..(n - 1) : Parent(s) = d => p.node[i].timerValue <= Value(p, s),
           NEW r, r = reheapUp(p, i, d)
    PROVE  Reheaped(p, r, n, A, i)
<1> DEFINE tv == p.node[i].timerValue
           D == 0..d
           next == [s \in D |-> IF s > 0 /\ tv < Value(p, Parent(s)) THEN Parent(s) ELSE s]
           rank == [s \in D |-> s]
           S == (0..(n - 1)) \ {d}
           V == Visited(next, d)
<1>1. IsHeap(p) /\ d \in 0..(n - 1) /\ i \notin A
  BY DEF Gap
<1>2. /\ S \cup {d} = DOMAIN p.mHeap \cup {d} /\ Stored(p, S, A)
      /\ A \cup {i} \subseteq DOMAIN p.mTimerIds
      /\ d \notin S /\ S \cup {d} = 0..(n - 1) /\ D \in SUBSET (S \cup {d}) /\ d \in D
  BY <1>1 DEF Gap
<1>3. /\ \A s \in 1..(n - 1) : s # d /\ Parent(s) # d => InOrder(p, s)
      /\ \A s \in 1..(n - 1) : Parent(s) = d /\ d > 0 => Value(p, Parent(d)) <= Value(p, s)
  BY DEF Gap
<1>4. next \in [D -> D]
  BY <1>1, ParentFacts
<1>5. rank \in [D -> Nat]
  BY <1>1
<1>6. Descends(next, rank)
  <2>1. ASSUME NEW x \in D, next[x] # x PROVE next[x] \in D /\ next[x] < x
    BY <2>1, <1>1, ParentFacts
  <2> QED
    BY <2>1 DEF Descends
<1>7. r = shift(p, i, next, d)
  BY DEF reheapUp
<1>8. /\ \A s \in S : Value(p, s) \in Nat /\ p.mHeap[s] \in A
      /\ tv \in Nat
  BY <1>2 DEF Gap, Stored, Value
<1>9. \A s \in D : next[s] = IF s > 0 /\ tv < Value(p, Parent(s)) THEN Parent(s) ELSE s
  OBVIOUS
<1> HIDE DEF next, rank, S, D
<1>10. d \in V /\ V \subseteq D /\ \A x \in V : next[x] \in V
  BY <1>2, <1>4, VisitedClosed
<1> HIDE DEF V
<1>11. Shifted(p, r, i, next, d, S, A)
  <2>1. MayShift(p, i, next, d, S, A)
    BY <1>1, <1>2, <1>4, <1>5, <1>6 DEF MayShift
  <2> QED
    BY <2>1, <1>7, ShiftStores
<1>12. \A x \in V : next[x] # x => next[x] \in S
  BY <1>1, <1>9, <1>10, ParentFacts DEF S, D
<1>13. \A x \in 0..(n - 1) :
         Value(r, x) = IF x \notin V THEN Value(p, x)
                       ELSE IF next[x] = x THEN tv ELSE Value(p, next[x])
  BY <1>2, <1>11 DEF Value, SameBookkeeping, Shifted, V
(* Above slot d the loop visits nodes that are later.                      *)
<1>14. \A x \in V : x = d \/ tv < Value(p, x)
  BY <1>2, <1>4, <1>9, <1>10, VisitedFromOther DEF V
<1>15. ASSUME NEW x \in V, next[x] = x, x > 0 PROVE Parent(x) \notin V
  <2>1. Parent(x) \in D /\ Parent(x) < x /\ x \in Nat
    BY <1>1, <1>10, <1>15, ParentFacts DEF D
  <2>2. SUFFICES ASSUME Parent(x) \in V PROVE FALSE
    OBVIOUS
  <2>3. Parent(x) \in Visited(next, x) \/ x \in Visited(next, Parent(x))
    BY <1>2, <1>4, <2>2, VisitedChain DEF V
  <2>4. x \notin Visited(next, Parent(x))
    <3>1. x = Parent(x) \/ rank[x] < rank[Parent(x)] \/ x \notin Visited(next, Parent(x))
      BY <2>1, <1>4, <1>5, <1>6, VisitedRank
    <3>2. rank[x] = x /\ rank[Parent(x)] = Parent(x)
      BY <2>1, <1>10 DEF rank
    <3> QED
      BY <2>1, <3>1, <3>2, <1>1, <1>10 DEF D
  <2>5. Visited(next, x) \subseteq {x}
    <3>1. {x} \in SUBSET D /\ \A y \in {x} : next[y] \in {x}
      BY <1>10, <1>15
    <3> QED
      BY <3>1, <1>4, VisitedLeast, Zenon
  <2> QED
    BY <2>1, <2>3, <2>4, <2>5
<1>16. ASSUME NEW s \in 1..(n - 1) PROVE InOrder(r, s)
  <2> DEFINE u == Parent(s)
  <2>1. u \in 0..(n - 1) /\ u < s
    BY ParentFacts
  <2>2. CASE s \in V /\ next[s] # s
    BY <2>1, <2>2, <1>1, <1>2, <1>3, <1>8, <1>9, <1>10, <1>12, <1>13, ParentFacts
    DEF InOrder, D, S
  <2>3. CASE s \in V /\ next[s] = s
    BY <2>1, <2>3, <1>1, <1>8, <1>9, <1>10, <1>13, <1>15 DEF InOrder, D, S
  <2>4. CASE s \notin V /\ u = d
    BY <2>1, <2>4, <1>1, <1>3, <1>8, <1>9, <1>10, <1>13 DEF InOrder, D, S
  <2>5. CASE s \notin V /\ u # d /\ u \notin V
    BY <2>1, <2>5, <1>3, <1>10, <1>13 DEF InOrder
  <2>6. CASE s \notin V /\ u # d /\ u \in V
    <3>1. tv < Value(p, u) /\ Value(p, u) <= Value(p, s)
      BY <2>6, <1>3, <1>10, <1>14 DEF InOrder
    <3>2. Value(r, s) = Value(p, s)
      BY <2>6, <1>13
    <3>3. Value(p, u) \in Nat /\ Value(p, s) \in Nat
      BY <2>1, <2>6, <1>8, <1>10 DEF S
    <3>4. CASE next[u] = u
      BY <2>1, <2>6, <3>1, <3>2, <3>3, <3>4, <1>8, <1>13 DEF InOrder
    <3>5. CASE next[u] # u
      <4>1. next[u] = Parent(u) /\ u > 0 /\ u < d
        BY <2>1, <2>6, <3>5, <1>1, <1>9, <1>10 DEF D
      <4>2. Value(p, next[u]) <= Value(p, u) /\ Value(p, next[u]) \in Nat
        BY <4>1, <2>1, <2>6, <3>5, <1>1, <1>3, <1>8, <1>12, ParentFacts DEF InOrder
      <4> QED
        BY <2>1, <2>6, <3>1, <3>2, <3>3, <3>5, <4>2, <1>13 DEF InOrder
    <3> QED
      BY <3>4, <3>5
  <2> QED
    BY <2>2, <2>3, <2>4, <2>5, <2>6
<1>17. n > 0 => InOrder(r, 0)
  BY <1>1, <1>8, <1>10, <1>12, <1>13, ParentFacts DEF InOrder, S
<1>18. \A s \in 0..(n - 1) : InOrder(r, s)
  BY <1>16, <1>17
<1> QED
  BY <1>2, <1>11, <1>18, Zenon DEF Reheaped, Shifted

(* The child reheapDown() goes on to is the earlier one, if there are two. *)
LEMMA SmallerChildFacts ==
    ASSUME NEW p, NEW n \in Nat, p.mCurSize = n, NEW s \in 0..(n - 1), LChild(s) < n
    PROVE  /\ SmallerChild(p, s) \in 0..(n - 1) /\ SmallerChild(p, s) > s
           /\ Parent(SmallerChild(p, s)) = s
           /\ \A c \in 1..(n - 1) : Parent(c) = s /\ Value(p, c) \in Nat
                /\ Value(p, SmallerChild(p, s)) \in Nat
                => Value(p, SmallerChild(p, s)) <= Value(p, c)
<1> DEFINE c == LChild(s)
<1>1. c \in Nat /\ c > s /\ Parent(c) = s /\ Parent(c + 1) = s
  BY ParentFacts
<1>2. SmallerChild(p, s) = IF c + 1 < n /\ Value(p, c + 1) < Value(p, c) THEN c + 1 ELSE c
  BY DEF SmallerChild
<1>3. \A x \in 1..(n - 1) : Parent(x) = s => x = c \/ x = c + 1
  BY ParentFacts
<1> HIDE DEF c
<1>4. c < n
  BY DEF c
<1> QED
  BY <1>1, <1>2, <1>3, <1>4

(* reheapDown() restores the order, if the node is no earlier than the one *)
(* above the slot it begins at.                                            *)
LEMMA DownReheaps ==
    ASSUME NEW p, NEW n \in Nat, p.mCurSize = n, NEW A, NEW i, NEW d, Gap(p, n, A, i, d),
           d > 0 => Value(p, Parent(d)) <= p.node[i].timerValue,
           NEW r, r = reheapDown(p, i, d)
    PROVE  Reheaped(p, r, n, A, i)
<1> DEFINE tv == p.node[i].timerValue
           D == 0..(n - 1)
           down(s) == LChild(s) < n /\ Value(p, SmallerChild(p, s)) < tv
           next == [s \in D |-> IF down(s) THEN SmallerChild(p, s) ELSE s]
           rank == [s \in D |-> n - s]
           S == (0..(n - 1)) \ {d}
           V == Visited(next, d)
<1>1. IsHeap(p) /\ d \in 0..(n - 1) /\ i \notin A
  BY DEF Gap
<1>2. /\ S \cup {d} = DOMAIN p.mHeap \cup {d} /\ Stored(p, S, A)
      /\ A \cup {i} \subseteq DOMAIN p.mTimerIds
      /\ d \notin S /\ S \cup {d} = D /\ d \in D
  BY <1>1 DEF Gap
<1>3. /\ \A s \in 1..(n - 1) : s # d /\ Parent(s) # d => InOrder(p, s)
      /\ \A s \in 1..(n - 1) : Parent(s) = d /\ d > 0 => Value(p, Parent(d)) <= Value(p, s)
  BY DEF Gap
<1>4. next \in [D -> D]
  BY SmallerChildFacts
<1>5. rank \in [D -> Nat]
  OBVIOUS
<1>6. Descends(next, rank)
  <2>1. ASSUME NEW x \in D, next[x] # x PROVE next[x] \in D /\ next[x] > x
    BY <2>1, SmallerChildFacts
  <2> QED
    BY <2>1 DEF Descends
<1>7. r = shift(p, i, next, d)
  BY DEF reheapDown
<1>8. /\ \A s \in S : Value(p, s) \in Nat /\ p.mHeap[s] \in A
      /\ tv \in Nat
  BY <1>2 DEF Gap, Stored, Value
<1>9. \A s \in D : next[s] = IF down(s) THEN SmallerChild(p, s) ELSE s
  OBVIOUS
<1>10. DOMAIN next = D
  OBVIOUS
<1> HIDE DEF next, rank, S
<1>11. d \in V /\ V \subseteq D /\ \A x \in V : next[x] \in V
  BY <1>2, <1>4, VisitedClosed, Zenon
<1>12. Shifted(p, r, i, next, d, S, A)
  <2>1. MayShift(p, i, next, d, S, A)
    BY <1>1, <1>2, <1>4, <1>5, <1>6, <1>10, Zenon DEF MayShift
  <2> QED
    BY <2>1, <1>7, ShiftStores
<1>13. \A x \in D : Value(r, x) = IF x \notin V THEN Value(p, x)
                                  ELSE IF next[x] = x THEN tv ELSE Value(p, next[x])
  BY <1>2, <1>12 DEF Value, SameBookkeeping, Shifted
<1>14. \A x \in V : x # d => /\ Parent(x) \in V /\ next[Parent(x)] = x
                             /\ Parent(x) # x /\ x > d
  <2>4. \A y \in D : next[y] # y => Parent(next[y]) = y
    BY <1>9, SmallerChildFacts
  <2>5. \A x \in D : rank[x] = n - x
    BY DEF rank
  <2> HIDE DEF D
  <2>1. \A x \in V : x = d \/ \E y \in V : y # x /\ next[y] = x
    BY <1>2, <1>4, VisitedFromOther
  <2>2. \A x \in V : x = d \/ rank[x] < rank[d]
    BY <1>2, <1>4, <1>5, <1>6, VisitedRank
  <2> HIDE DEF V
  <2>3. \A x \in V : x = d \/ x > d
    BY <2>2, <2>5, <1>1, <1>2, <1>11 DEF D
  <2> QED
    BY <2>1, <2>3, <2>4, <1>11
<1> HIDE DEF V
(* Below slot d the loop visits nodes that are earlier.                    *)
<1>15. \A x \in V : next[x] # x =>
         /\ next[x] \in S /\ Value(p, next[x]) < tv
         /\ \A c \in S \ {0} : Parent(c) = x => Value(p, next[x]) <= Value(p, c)
  <2> SUFFICES ASSUME NEW x \in V, next[x] # x
               PROVE  /\ next[x] \in S /\ Value(p, next[x]) < tv
                      /\ \A c \in S \ {0} : Parent(c) = x => Value(p, next[x]) <= Value(p, c)
    OBVIOUS
  <2>1. x \in D /\ down(x) /\ next[x] = SmallerChild(p, x)
    BY <1>9, <1>11
  <2>2. next[x] \in D /\ next[x] > x /\ Parent(next[x]) = x /\ x >= d
    BY <2>1, <1>1, <1>11, <1>14, SmallerChildFacts
  <2>3. next[x] \in S
    BY <2>1, <2>2, <1>1 DEF S
  <2>4. \A c \in S \ {0} : c \in 1..(n - 1)
    BY DEF S
  <2> QED
    BY <2>1, <2>3, <2>4, <1>8, SmallerChildFacts
<1>16. ASSUME NEW s \in 1..(n - 1) PROVE InOrder(r, s)
  <2> DEFINE u == Parent(s)
  <2>1. u \in D /\ u < s /\ s \in D
    BY ParentFacts
  <2>2. CASE u \in V /\ next[u] = s
    <3>1. s \in V /\ s \in S /\ s # d /\ next[u] # u /\ u >= d
      BY <2>1, <2>2, <1>1, <1>11, <1>14, <1>15
    <3>2. Value(r, u) = Value(p, s) /\ Value(p, s) < tv /\ Value(p, s) \in Nat
      BY <2>1, <2>2, <3>1, <1>8, <1>13, <1>15
    <3>3. CASE next[s] = s
      BY <2>1, <3>1, <3>2, <3>3, <1>8, <1>13 DEF InOrder
    <3>4. CASE next[s] # s
      <4>1. next[s] \in S /\ Parent(next[s]) = s /\ next[s] # d /\ next[s] \in 1..(n - 1)
        <5>1. next[s] \in D /\ next[s] > s /\ Parent(next[s]) = s
          BY <2>1, <3>4, <1>9, SmallerChildFacts
        <5> QED
          BY <5>1, <2>1, <3>1, <3>4, <1>1, <1>15
      <4>2. Value(p, s) <= Value(p, next[s]) /\ Value(p, next[s]) \in Nat
        BY <4>1, <3>1, <1>3, <1>8 DEF InOrder
      <4>3. Value(r, s) = Value(p, next[s])
        BY <2>1, <3>1, <3>4, <1>13
      <4> QED
        BY <3>2, <4>2, <4>3 DEF InOrder
    <3> QED
      BY <3>3, <3>4
  <2>3. CASE u \in V /\ next[u] # s
    <3>1. s \notin V /\ s # d /\ s \in S \ {0} /\ Value(p, s) \in Nat
      BY <2>1, <2>3, <1>1, <1>8, <1>11, <1>14 DEF S
    <3>2. Value(r, s) = Value(p, s)
      BY <2>1, <3>1, <1>13
    <3>3. CASE next[u] # u
      <4>1. Value(p, next[u]) <= Value(p, s)
        BY <2>3, <3>1, <3>3, <1>15
      <4> QED
        BY <2>1, <2>3, <3>2, <3>3, <4>1, <1>13 DEF InOrder
    <3>4. CASE next[u] = u
      <4>1. LChild(u) < n
        BY <2>1, ParentFacts
      <4>2. SmallerChild(p, u) \in D /\ SmallerChild(p, u) > u
            /\ (Value(p, SmallerChild(p, u)) \in Nat => Value(p, SmallerChild(p, u)) <= Value(p, s))
        BY <4>1, <2>1, <3>1, SmallerChildFacts
      <4>3. u >= d /\ SmallerChild(p, u) \in S
        BY <4>2, <2>1, <2>3, <1>1, <1>14 DEF S
      <4>4. ~(Value(p, SmallerChild(p, u)) < tv)
        BY <4>1, <4>2, <2>1, <3>4, <1>9
      <4>5. tv <= Value(p, s)
        BY <4>2, <4>3, <4>4, <3>1, <1>8
      <4> QED
        BY <2>1, <2>3, <3>2, <3>4, <4>5, <1>13 DEF InOrder
    <3> QED
      BY <3>3, <3>4
  <2>4. CASE u \notin V /\ s # d
    <3>1. s \notin V /\ u # d
      BY <2>4, <1>11, <1>14
    <3> QED
      BY <2>1, <2>4, <3>1, <1>3, <1>13 DEF InOrder
  <2>5. CASE u \notin V /\ s = d
    <3>1. Value(p, u) <= tv /\ Value(r, u) = Value(p, u)
      BY <2>1, <2>5, <1>13
    <3>2. CASE next[d] = d
      BY <2>1, <2>5, <3>1, <3>2, <1>11, <1>13 DEF InOrder
    <3>3. CASE next[d] # d
      <4>1. next[d] \in 1..(n - 1) /\ Parent(next[d]) = d
        BY <2>1, <2>5, <3>3, <1>9, SmallerChildFacts
      <4>2. Value(p, u) <= Value(p, next[d])
        BY <4>1, <2>1, <2>5, <1>3
      <4> QED
        BY <2>1, <2>5, <3>1, <3>3, <4>2, <1>11, <1>13 DEF InOrder
    <3> QED
      BY <3>2, <3>3
  <2> QED
    BY <2>2, <2>3, <2>4, <2>5
<1>17. n > 0 => InOrder(r, 0)
  BY <1>1, <1>8, <1>11, <1>13, <1>15, ParentFacts DEF InOrder, S
<1>18. \A s \in 0..(n - 1) : InOrder(r, s)
  BY <1>16, <1>17
<1> QED
  BY <1>2, <1>12, <1>18, Zenon DEF Reheaped, Shifted

-----------------------------------------------------------------------------
(* remove(), growHeap() and insert().                                      *)

(* What remove() makes of heap p: the timer with id x is in limbo.         *)
Removed(p, r, A, x) ==
    /\ Good(r, A \ {x})
    /\ r.mCurSize = p.mCurSize - 1 /\ r.mCurLimbo = p.mCurLimbo + 1
    /\ r.mMaxSize = p.mMaxSize /\ r.mTimerIdsCurr = p.mTimerIdsCurr
    /\ r.mTimerIdsMinFree = p.mTimerIdsMinFree /\ r.node = p.node
    /\ r.mTimerIds[x] = Limbo
    /\ \A j \in DOMAIN p.mTimerIds \ A : r.mTimerIds[j] = p.mTimerIds[j]

(* remove() gives up the last slot, and marks the id at the end.           *)
LEMMA WithoutLastEffect ==
    ASSUME NEW p, IsHeap(p), NEW r, r = WithoutLast(p)
    PROVE  /\ IsHeap(r) /\ r.mCurSize = p.mCurSize - 1 /\ r.mCurLimbo = p.mCurLimbo
           /\ r.mMaxSize = p.mMaxSize /\ r.mTimerIds = p.mTimerIds
           /\ r.mTimerIdsCurr = p.mTimerIdsCurr
           /\ r.mTimerIdsMinFree = p.mTimerIdsMinFree /\ r.node = p.node
           /\ DOMAIN r.mHeap = 0..(p.mCurSize - 2)
           /\ \A s \in 0..(p.mCurSize - 2) : r.mHeap[s] = p.mHeap[s]
BY Zenon DEF IsHeap, WithoutLast

(* Heap r is heap p with id x in limbo.                                    *)
MarkedOnly(p, r, x) ==
    /\ IsHeap(r) /\ r.mCurSize = p.mCurSize /\ r.mCurLimbo = p.mCurLimbo + 1
    /\ r.mMaxSize = p.mMaxSize /\ r.mHeap = p.mHeap
    /\ r.mTimerIdsCurr = p.mTimerIdsCurr
    /\ r.mTimerIdsMinFree = p.mTimerIdsMinFree /\ r.node = p.node
    /\ DOMAIN r.mTimerIds = DOMAIN p.mTimerIds
    /\ \A j \in DOMAIN p.mTimerIds :
         r.mTimerIds[j] = IF j = x THEN Limbo ELSE p.mTimerIds[j]

(* remove() puts the id it takes out of the heap in limbo.                 *)
LEMMA InLimboEffect ==
    ASSUME NEW p, IsHeap(p), NEW x, NEW r, r = InLimbo(p, x)
    PROVE  MarkedOnly(p, r, x)
BY Zenon DEF IsHeap, InLimbo, MarkedOnly

(* What LastInto makes of heap p with n + 1 slots: node last, which was    *)
(* the last, is in the slot of node x, and only its place may be wrong.    *)
LastMoved(p, filled, A, n, slot, x, last) ==
    /\ x \in A /\ last \in A /\ x # last
    /\ SameBookkeeping(WithoutLast(p), filled) /\ filled.mHeap[slot] = last
    /\ DOMAIN filled.mTimerIds = DOMAIN p.mTimerIds
    /\ \A j \in DOMAIN p.mTimerIds \ {last} : filled.mTimerIds[j] = p.mTimerIds[j]
    /\ Gap(filled, n, A \ {x, last}, last, slot)

(* remove() fills the slot with the last node: the rest is in order.       *)
LEMMA LastIntoGap ==
    ASSUME NEW p, NEW A, Good(p, A), NEW n, n = p.mCurSize - 1, NEW slot \in 0..(n - 1),
           NEW x, x = p.mHeap[slot], NEW last, last = p.mHeap[n],
           NEW filled, filled = LastInto(p, slot)
    PROVE  LastMoved(p, filled, A, n, slot, x, last)
<1> DEFINE B == A \ {x, last}
           S == (0..(n - 1)) \ {slot}
           moved == [s \in {slot} |-> last]
<1>1. /\ IsHeap(p) /\ p.mCurSize \in Nat
      /\ A \subseteq DOMAIN p.mTimerIds /\ Stored(p, 0..(p.mCurSize - 1), A)
      /\ \A j \in A : p.node[j].timerValue \in Nat
      /\ \A s \in 0..(p.mCurSize - 1) : InOrder(p, s)
  BY DEF Good
<1>2. /\ n \in Nat /\ 0..(p.mCurSize - 1) = 0..n /\ slot \in 0..n /\ slot # n
      /\ p.mCurSize - 2 = n - 1
  BY <1>1
<1>3. x \in A /\ last \in A /\ x # last /\ p.mTimerIds[x] = slot /\ p.mTimerIds[last] = n
  BY <1>1, <1>2 DEF Stored
<1> DEFINE w == WithoutLast(p)
<1>4. /\ IsHeap(w) /\ w.mTimerIds = p.mTimerIds /\ w.node = p.node
      /\ DOMAIN w.mHeap = 0..(n - 1)
      /\ \A s \in 0..(n - 1) : w.mHeap[s] = p.mHeap[s]
  BY <1>1, <1>2, WithoutLastEffect
<1>5. DOMAIN moved = {slot} /\ moved[slot] = last
  OBVIOUS
<1>6. filled = copy(w, moved)
  BY DEF LastInto
<1> HIDE DEF moved, w
<1>7. /\ IsHeap(filled) /\ SameBookkeeping(w, filled)
      /\ DOMAIN filled.mHeap = 0..(n - 1)
      /\ DOMAIN filled.mTimerIds = DOMAIN p.mTimerIds
      /\ filled.mHeap[slot] = last
      /\ \A s \in S : filled.mHeap[s] = p.mHeap[s]
      /\ \A j \in DOMAIN p.mTimerIds \ {last} : filled.mTimerIds[j] = p.mTimerIds[j]
  <2>1. /\ IsHeap(filled) /\ SameBookkeeping(w, filled)
        /\ DOMAIN filled.mHeap = DOMAIN w.mHeap \cup DOMAIN moved
        /\ \A s \in DOMAIN filled.mHeap :
             filled.mHeap[s] = IF s \in DOMAIN moved THEN moved[s] ELSE w.mHeap[s]
        /\ DOMAIN filled.mTimerIds = DOMAIN w.mTimerIds
        /\ \A j \in DOMAIN w.mTimerIds :
             ~(\E s \in DOMAIN moved : moved[s] = j) => filled.mTimerIds[j] = w.mTimerIds[j]
    BY <1>4, <1>6, CopyEffect, SMTT(30)
  <2> QED
    BY <2>1, <1>4, <1>5
<1> HIDE DEF S
<1>8. filled.node = p.node
  BY <1>4, <1>7 DEF SameBookkeeping
<1>9. \A s \in S : Value(filled, s) = Value(p, s)
  BY <1>7, <1>8 DEF Value
<1>10. Stored(filled, S, B)
  <2>1. \A s \in S : p.mHeap[s] \in B /\ p.mTimerIds[p.mHeap[s]] = s
    BY <1>1, <1>2, <1>3 DEF Stored, S
  <2>2. \A j \in B : p.mTimerIds[j] \in S /\ p.mHeap[p.mTimerIds[j]] = j
    BY <1>1, <1>2, <1>3 DEF Stored, S
  <2>3. \A j \in B : j \in DOMAIN p.mTimerIds \ {last}
    BY <1>1
  <2> HIDE DEF B
  <2> QED
    BY <2>1, <2>2, <2>3, <1>7, SMTT(30) DEF Stored
<1>11. \A s \in 0..n : Value(p, s) \in Nat
  BY <1>1, <1>2 DEF Value, Stored
<1>12. ASSUME NEW s \in 1..(n - 1), s # slot, Parent(s) # slot PROVE InOrder(filled, s)
  <2>1. s \in S /\ Parent(s) \in S /\ s \in 0..n
    BY <1>2, <1>12, ParentFacts DEF S
  <2> QED
    BY <2>1, <1>1, <1>2, <1>9, Zenon DEF InOrder
<1>13. ASSUME NEW s \in 1..(n - 1), Parent(s) = slot, slot > 0
       PROVE  Value(filled, Parent(slot)) <= Value(filled, s)
  <2>1. s \in S /\ Parent(slot) \in S /\ {s, slot, Parent(slot)} \subseteq 0..n
    BY <1>2, <1>13, ParentFacts DEF S
  <2>2. InOrder(p, s) /\ InOrder(p, slot)
    BY <2>1, <1>1, <1>2
  <2>3. Value(p, Parent(slot)) <= Value(p, s)
    BY <2>1, <2>2, <1>11, <1>13 DEF InOrder
  <2> QED
    BY <2>1, <2>3, <1>9
<1>14. Gap(filled, n, B, last, slot)
  <2>1. 0..(n - 1) = DOMAIN filled.mHeap \cup {slot}
    BY <1>7
  <2>2. B \cup {last} \subseteq DOMAIN filled.mTimerIds /\ last \notin B
    BY <1>1, <1>3, <1>7
  <2>3. \A j \in B \cup {last} : filled.node[j].timerValue \in Nat
    BY <1>1, <1>3, <1>8
  <2> HIDE DEF B
  <2> QED
    BY <2>1, <2>2, <2>3, <1>7, <1>10, <1>12, <1>13 DEF Gap, S
<1> QED
  BY <1>3, <1>7, <1>14 DEF w, LastMoved

(* So moving that node up or down from there restores the order.           *)
LEMMA FilledReheaps ==
    ASSUME NEW p, NEW n \in Nat, p.mCurSize = n, NEW A, NEW i, NEW d, Gap(p, n, A, i, d),
           p.mHeap[d] = i, NEW r,
           r = IF Value(p, d) >= Value(p, Parent(d))
                 THEN reheapDown(p, i, d) ELSE reheapUp(p, i, d)
    PROVE  Reheaped(p, r, n, A, i)
<1> DEFINE tv == p.node[i].timerValue
<1>1. d \in 0..(n - 1) /\ Value(p, d) = tv /\ tv \in Nat
  BY DEF Value, Gap
<1>2. \A s \in (0..(n - 1)) \ {d} : Value(p, s) \in Nat
  BY DEF Value, Gap, Stored
<1>3. CASE Value(p, d) >= Value(p, Parent(d))
  <2>1. d > 0 => Value(p, Parent(d)) <= tv
    BY <1>1, <1>2, <1>3, ParentFacts
  <2> QED
    BY <2>1, <1>3, DownReheaps
<1>4. CASE ~(Value(p, d) >= Value(p, Parent(d)))
  <2>1. d > 0 /\ Parent(d) \in (0..(n - 1)) \ {d}
    BY <1>1, <1>4, ParentFacts
  <2>2. ASSUME NEW s \in 1..(n - 1), Parent(s) = d PROVE tv <= Value(p, s)
    <3>1. Value(p, Parent(d)) <= Value(p, s)
      BY <2>1, <2>2 DEF Gap
    <3>2. s # d
      BY <2>2, ParentFacts
    <3> QED
      BY <3>1, <3>2, <2>1, <1>1, <1>2, <1>4
  <2> QED
    BY <2>2, <1>4, UpReheaps, Zenon
<1> QED
  BY <1>3, <1>4

(* remove() takes the timer out of the heap and leaves the others in order.*)
LEMMA RemoveGood ==
    ASSUME NEW p, NEW A, Good(p, A), NEW slot \in 0..(p.mCurSize - 1),
           NEW r, r = remove(p, slot), NEW x, x = p.mHeap[slot]
    PROVE  x \in A /\ Removed(p, r, A, x)
<1> DEFINE n == p.mCurSize - 1
           last == p.mHeap[n]
           w == WithoutLast(p)
           filled == LastInto(p, slot)
           moved == IF Value(filled, slot) >= Value(filled, Parent(slot))
                      THEN reheapDown(filled, last, slot)
                      ELSE reheapUp(filled, last, slot)
           fixed == IF slot = n THEN w ELSE moved
<1>1. /\ IsHeap(p) /\ p.mCurSize \in Nat /\ p.mMaxSize \in Nat
      /\ DOMAIN p.mTimerIds = 0..(p.mMaxSize - 1)
      /\ A \subseteq DOMAIN p.mTimerIds /\ Stored(p, 0..(p.mCurSize - 1), A)
      /\ \A j \in DOMAIN p.mTimerIds \ A : p.mTimerIds[j] \in Int /\ p.mTimerIds[j] < 0
      /\ \A j \in A : p.node[j].timerValue \in Nat
      /\ \A s \in 0..(p.mCurSize - 1) : InOrder(p, s)
  BY DEF Good
<1>2. n \in Nat /\ slot \in 0..n /\ 0..(p.mCurSize - 1) = 0..n /\ p.mCurSize - 2 = n - 1
  BY <1>1
<1>3. r = InLimbo(fixed, x)
  BY DEF remove
<1>4. /\ IsHeap(w) /\ w.mCurSize = n /\ w.mCurLimbo = p.mCurLimbo
      /\ w.mMaxSize = p.mMaxSize /\ w.mTimerIds = p.mTimerIds
      /\ w.mTimerIdsCurr = p.mTimerIdsCurr
      /\ w.mTimerIdsMinFree = p.mTimerIdsMinFree /\ w.node = p.node
      /\ DOMAIN w.mHeap = 0..(n - 1)
      /\ \A s \in 0..(n - 1) : w.mHeap[s] = p.mHeap[s]
  BY <1>1, <1>2, WithoutLastEffect, SMTT(30)
<1>5. x \in A /\ p.mTimerIds[x] = slot
  BY <1>1, <1>2 DEF Stored
<1> DEFINE Left(f) ==
             /\ IsHeap(f) /\ SameBookkeeping(w, f) /\ DOMAIN f.mHeap = 0..(n - 1)
             /\ Stored(f, 0..(n - 1), A \ {x}) /\ DOMAIN f.mTimerIds = DOMAIN p.mTimerIds
             /\ \A j \in DOMAIN p.mTimerIds \ A : f.mTimerIds[j] = p.mTimerIds[j]
             /\ \A s \in 0..(n - 1) : InOrder(f, s)
<1>6. n = p.mCurSize - 1
  OBVIOUS
<1> HIDE DEF n, w, filled, last
<1>7. ASSUME slot = n PROVE Left(fixed)
  <2>1. Stored(w, 0..(n - 1), A \ {x})
    <3>1. \A s \in 0..(n - 1) : s \in 0..n /\ s # slot
      BY <1>7, <1>2
    <3>2. \A s \in 0..n : s # slot => s \in 0..(n - 1)
      BY <1>7, <1>2
    <3>3. \A s \in 0..(n - 1) : w.mHeap[s] \in A \ {x} /\ w.mTimerIds[w.mHeap[s]] = s
      <4>1. \A s \in 0..n : p.mHeap[s] \in A /\ p.mTimerIds[p.mHeap[s]] = s
        BY <1>1, <1>2 DEF Stored
      <4>2. \A s \in 0..(n - 1) : p.mHeap[s] # x
        BY <4>1, <3>1, <1>5
      <4> QED
        BY <4>1, <4>2, <3>1, <1>4
    <3>4. \A j \in A \ {x} : p.mTimerIds[j] \in 0..(n - 1) /\ p.mHeap[p.mTimerIds[j]] = j
      BY <3>2, <1>1, <1>2, Zenon DEF Stored
    <3> QED
      BY <3>3, <3>4, <1>4, SMTT(30) DEF Stored
  <2>2. \A s \in 0..(n - 1) : s \in 0..n /\ Parent(s) \in 0..(n - 1)
    <3>1. n - 1 \in Int /\ \A s \in 0..(n - 1) : s \in 0..n
      BY <1>2
    <3>2. \A s \in 0..(n - 1) : Parent(s) \in 0..(n - 1)
      BY <3>1, ParentInRange, Zenon
    <3> QED
      BY <3>1, <3>2
  <2>3. \A s \in 0..(n - 1) : InOrder(w, s)
    BY <2>2, <1>1, <1>2, <1>4, ZenonT(40) DEF InOrder, Value
  <2> QED
    BY <1>7, <2>1, <2>3, <1>4 DEF SameBookkeeping
<1>8. ASSUME slot # n PROVE Left(fixed)
  <2>1. slot \in 0..(n - 1)
    BY <1>8, <1>2
  <2>2. /\ last \in A /\ x # last
        /\ SameBookkeeping(w, filled) /\ filled.mHeap[slot] = last
        /\ DOMAIN filled.mTimerIds = DOMAIN p.mTimerIds
        /\ \A j \in DOMAIN p.mTimerIds \ {last} : filled.mTimerIds[j] = p.mTimerIds[j]
        /\ Gap(filled, n, A \ {x, last}, last, slot)
    <3>1. last = p.mHeap[n] /\ filled = LastInto(p, slot) /\ w = WithoutLast(p)
      BY DEF filled, last, w
    <3>2. LastMoved(p, filled, A, n, slot, x, last)
      BY <3>1, <2>1, <1>6, LastIntoGap
    <3> QED
      BY <3>1, <3>2 DEF LastMoved
  <2>3. filled.mCurSize = n
    BY <2>2, <1>4 DEF SameBookkeeping
  <2>4. Reheaped(filled, moved, n, A \ {x, last}, last)
    BY <2>2, <2>3, <1>2, FilledReheaps, Zenon
  <2>5. (A \ {x, last}) \cup {last} = A \ {x}
    BY <2>2
  <2> HIDE DEF moved
  <2>6. Left(moved)
    BY <2>2, <2>4, <2>5, <1>1, <1>5, ZenonT(40) DEF Reheaped, SameBookkeeping
  <2> QED
    BY <2>6, <1>8
<1>9. Left(fixed)
  BY <1>7, <1>8, Zenon
<1> HIDE DEF fixed
<1>10. /\ IsHeap(r) /\ r.mCurSize = fixed.mCurSize /\ r.mCurLimbo = fixed.mCurLimbo + 1
       /\ r.mMaxSize = fixed.mMaxSize /\ r.mHeap = fixed.mHeap
       /\ r.mTimerIdsCurr = fixed.mTimerIdsCurr
       /\ r.mTimerIdsMinFree = fixed.mTimerIdsMinFree /\ r.node = fixed.node
       /\ DOMAIN r.mTimerIds = DOMAIN fixed.mTimerIds
       /\ \A j \in DOMAIN fixed.mTimerIds :
            r.mTimerIds[j] = IF j = x THEN Limbo ELSE fixed.mTimerIds[j]
  <2>1. IsHeap(fixed)
    BY <1>9
  <2> HIDE DEF Left
  <2>2. MarkedOnly(fixed, r, x)
    BY <2>1, <1>3, InLimboEffect, Zenon
  <2> QED
    BY <2>2, Zenon DEF MarkedOnly
<1>11. /\ r.mCurSize = n /\ r.mCurLimbo = p.mCurLimbo + 1
       /\ r.mMaxSize = p.mMaxSize /\ r.mTimerIdsCurr = p.mTimerIdsCurr
       /\ r.mTimerIdsMinFree = p.mTimerIdsMinFree /\ r.node = p.node
  BY <1>4, <1>9, <1>10 DEF SameBookkeeping
<1>12. /\ DOMAIN r.mHeap = 0..(n - 1) /\ DOMAIN r.mTimerIds = DOMAIN p.mTimerIds
       /\ r.mTimerIds[x] = Limbo
       /\ \A j \in DOMAIN p.mTimerIds \ A : r.mTimerIds[j] = p.mTimerIds[j]
  BY <1>1, <1>5, <1>9, <1>10
<1>13. Stored(r, 0..(n - 1), A \ {x})
  <2>1. \A j \in A \ {x} : r.mTimerIds[j] = fixed.mTimerIds[j]
    BY <1>1, <1>9, <1>10
  <2>2. Stored(fixed, 0..(n - 1), A \ {x}) /\ r.mHeap = fixed.mHeap
    BY <1>9, <1>10
  <2> QED
    BY <2>1, <2>2 DEF Stored
<1>14. \A s \in 0..(n - 1) : InOrder(r, s)
  BY <1>9, <1>10 DEF InOrder, Value
<1>15. Good(r, A \ {x})
  BY <1>1, <1>2, <1>10, <1>11, <1>12, <1>13, <1>14, SMTT(30) DEF Good, Limbo
<1> QED
  BY <1>5, <1>6, <1>11, <1>12, <1>15 DEF Removed

(* What growHeap() makes of heap p: room for as many ids again.            *)
Grown(p, r, A) ==
    /\ Good(r, A)
    /\ r.mCurSize = p.mCurSize /\ r.mCurLimbo = p.mCurLimbo
    /\ r.mMaxSize = 2 * p.mMaxSize /\ r.mTimerIdsCurr = p.mTimerIdsCurr
    /\ r.mTimerIdsMinFree = 2 * p.mMaxSize /\ r.node = p.node
    /\ \A j \in DOMAIN p.mTimerIds : r.mTimerIds[j] = p.mTimerIds[j]
    /\ \A j \in p.mMaxSize..(2 * p.mMaxSize - 1) : Free(r, j)

(* growHeap() leaves the timers alone, and none of the new ids has the     *)
(* mark -2 of an id in limbo.                                              *)
LEMMA GrowGood ==
    ASSUME NEW p, NEW A, Good(p, A), p.mMaxSize >= 2, NEW r, r = growHeap(p)
    PROVE  Grown(p, r, A)
<1>1. /\ IsHeap(p) /\ p.mCurSize \in Nat /\ p.mMaxSize \in Nat
      /\ DOMAIN p.mHeap = 0..(p.mCurSize - 1) /\ DOMAIN p.mTimerIds = 0..(p.mMaxSize - 1)
      /\ A \subseteq DOMAIN p.mTimerIds /\ Stored(p, 0..(p.mCurSize - 1), A)
      /\ \A j \in DOMAIN p.mTimerIds \ A : p.mTimerIds[j] \in Int /\ p.mTimerIds[j] < 0
      /\ \A j \in A : p.node[j].timerValue \in Nat
      /\ \A s \in 0..(p.mCurSize - 1) : InOrder(p, s)
  BY DEF Good
<1>2. /\ IsHeap(r) /\ r.mHeap = p.mHeap /\ r.mCurSize = p.mCurSize
      /\ r.mCurLimbo = p.mCurLimbo
      /\ r.mMaxSize = 2 * p.mMaxSize /\ r.mTimerIdsCurr = p.mTimerIdsCurr
      /\ r.mTimerIdsMinFree = 2 * p.mMaxSize /\ r.node = p.node
      /\ r.mTimerIds = [i \in 0..(2 * p.mMaxSize - 1) |->
                          IF i < p.mMaxSize THEN p.mTimerIds[i] ELSE -(i + 1)]
  BY <1>1, ZenonT(40) DEF IsHeap, growHeap
<1>3. /\ DOMAIN r.mTimerIds = 0..(r.mMaxSize - 1) /\ r.mMaxSize \in Nat
      /\ \A j \in DOMAIN p.mTimerIds : j \in DOMAIN r.mTimerIds /\ r.mTimerIds[j] = p.mTimerIds[j]
      /\ \A j \in p.mMaxSize..(2 * p.mMaxSize - 1) : r.mTimerIds[j] = -(j + 1)
  BY <1>1, <1>2, SMTT(30)
<1>4. \A j \in DOMAIN r.mTimerIds : j \in DOMAIN p.mTimerIds \/ j \in p.mMaxSize..(2 * p.mMaxSize - 1)
  BY <1>1, <1>2, <1>3, SMTT(30)
<1>5. \A j \in p.mMaxSize..(2 * p.mMaxSize - 1) :
        r.mTimerIds[j] \in Int /\ r.mTimerIds[j] < 0 /\ r.mTimerIds[j] # Limbo
  <2>1. \A j \in Nat : j >= 2 => -(j + 1) \in Int /\ -(j + 1) < 0 /\ -(j + 1) # Limbo
    BY DEF Limbo
  <2>2. \A j \in p.mMaxSize..(2 * p.mMaxSize - 1) : j \in Nat /\ j >= 2
    BY <1>1, SMTT(30)
  <2> QED
    BY <2>1, <2>2, <1>3
<1>6. Stored(r, 0..(p.mCurSize - 1), A)
  <2>1. \A j \in A : r.mTimerIds[j] = p.mTimerIds[j]
    BY <1>1, <1>3
  <2> QED
    <3>1. r.mHeap = p.mHeap /\ Stored(p, 0..(p.mCurSize - 1), A)
      BY <1>1, <1>2
    <3> QED
      BY <2>1, <3>1 DEF Stored
<1>7. \A s \in 0..(p.mCurSize - 1) : InOrder(r, s)
  BY <1>1, <1>2 DEF InOrder, Value
<1>8. \A j \in DOMAIN r.mTimerIds \ A : r.mTimerIds[j] \in Int /\ r.mTimerIds[j] < 0
  BY <1>1, <1>3, <1>4, <1>5
<1>9. Good(r, A)
  BY <1>1, <1>2, <1>3, <1>6, <1>7, <1>8, ZenonT(40) DEF Good
<1> QED
  BY <1>2, <1>3, <1>5, <1>9, Zenon DEF Grown, Free

(* What insert() makes of heap p when it need not grow.                    *)
Inserted(p, r, A, i) ==
    /\ Good(r, A \cup {i})
    /\ r.mCurSize = p.mCurSize + 1 /\ r.mCurLimbo = p.mCurLimbo
    /\ r.mMaxSize = p.mMaxSize /\ r.mTimerIdsCurr = p.mTimerIdsCurr
    /\ r.mTimerIdsMinFree = p.mTimerIdsMinFree /\ r.node = p.node
    /\ \A j \in DOMAIN p.mTimerIds \ (A \cup {i}) : r.mTimerIds[j] = p.mTimerIds[j]

(* insert() into a heap with room for one more timer: reheapUp() puts it   *)
(* in order.                                                               *)
LEMMA InsertGood ==
    ASSUME NEW p, NEW A, Good(p, A), NEW i \in DOMAIN p.mTimerIds, i \notin A,
           p.node[i].timerValue \in Nat, NEW r,
           r = [reheapUp(p, i, p.mCurSize) EXCEPT !.mCurSize = @ + 1]
    PROVE  Inserted(p, r, A, i)
<1> DEFINE d == p.mCurSize
           up == reheapUp(p, i, d)
<1>1. /\ IsHeap(p) /\ d \in Nat /\ p.mMaxSize \in Nat
      /\ DOMAIN p.mHeap = 0..(d - 1) /\ DOMAIN p.mTimerIds = 0..(p.mMaxSize - 1)
      /\ A \subseteq DOMAIN p.mTimerIds /\ Stored(p, 0..(d - 1), A)
      /\ \A j \in DOMAIN p.mTimerIds \ A : p.mTimerIds[j] \in Int /\ p.mTimerIds[j] < 0
      /\ \A j \in A : p.node[j].timerValue \in Nat
      /\ \A s \in 0..(d - 1) : InOrder(p, s)
  BY DEF Good
<1> HIDE DEF d
<1>2. /\ d + 1 \in Nat /\ (d + 1) - 1 = d /\ d \in 0..d /\ 0..d \ {d} = 0..(d - 1)
      /\ 0..d = 0..(d - 1) \cup {d}
  BY <1>1
<1>3. \A s \in 1..d : Parent(s) # d /\ (s # d => s \in 0..(d - 1))
  BY <1>1, ParentFacts
<1>4. Gap(p, d + 1, A, i, d)
  BY <1>1, <1>2, <1>3, Zenon DEF Gap
<1>5. Reheaped(p, up, d + 1, A, i)
  BY <1>2, <1>3, <1>4, UpReheaps
<1> HIDE DEF up
<1>6. /\ IsHeap(up) /\ SameBookkeeping(p, up)
      /\ DOMAIN up.mHeap = 0..d /\ Stored(up, 0..d, A \cup {i})
      /\ DOMAIN up.mTimerIds = DOMAIN p.mTimerIds
      /\ \A j \in DOMAIN p.mTimerIds \ (A \cup {i}) : up.mTimerIds[j] = p.mTimerIds[j]
      /\ \A s \in 0..d : InOrder(up, s)
  BY <1>2, <1>5 DEF Reheaped
<1>7. r = [up EXCEPT !.mCurSize = @ + 1]
  BY DEF up, d
<1>8. /\ IsHeap(r) /\ r.mCurSize = up.mCurSize + 1 /\ r.mHeap = up.mHeap
      /\ r.mCurLimbo = up.mCurLimbo
      /\ r.mMaxSize = up.mMaxSize /\ r.mTimerIdsCurr = up.mTimerIdsCurr
      /\ r.mTimerIdsMinFree = up.mTimerIdsMinFree /\ r.node = up.node
      /\ r.mTimerIds = up.mTimerIds
  BY <1>6, <1>7 DEF IsHeap
<1>9. /\ r.mCurSize = d + 1 /\ r.mCurLimbo = p.mCurLimbo
      /\ r.mMaxSize = p.mMaxSize /\ r.mTimerIdsCurr = p.mTimerIdsCurr
      /\ r.mTimerIdsMinFree = p.mTimerIdsMinFree /\ r.node = p.node
  BY <1>6, <1>8 DEF SameBookkeeping, d
<1>10. Stored(r, 0..d, A \cup {i}) /\ \A s \in 0..d : InOrder(r, s)
  BY <1>6, <1>8, SMTT(30) DEF Stored, InOrder, Value
<1>11. Good(r, A \cup {i})
  <2>1. r.mCurSize \in Nat /\ r.mCurSize - 1 = d
    BY <1>1, <1>9
  <2>2. \A j \in DOMAIN r.mTimerIds \ (A \cup {i}) : r.mTimerIds[j] \in Int /\ r.mTimerIds[j] < 0
    BY <1>1, <1>6, <1>8
  <2>3. A \cup {i} \subseteq DOMAIN r.mTimerIds /\ DOMAIN r.mTimerIds = 0..(r.mMaxSize - 1)
    BY <1>1, <1>6, <1>8, <1>9
  <2> QED
    BY <2>1, <2>2, <2>3, <1>1, <1>6, <1>8, <1>9, <1>10, Zenon DEF Good
<1> QED
  BY <1>6, <1>8, <1>9, <1>11 DEF Inserted, d

(* What insert() makes of heap p: the heap grows first when fewer than     *)
(* three ids are free.                                                     *)
Put(p, r, A, i) ==
    /\ Good(r, A \cup {i})
    /\ r.mCurSize = p.mCurSize + 1 /\ r.mCurLimbo = p.mCurLimbo
    /\ r.mTimerIdsCurr = p.mTimerIdsCurr /\ r.node = p.node
    /\ p.mCurSize + p.mCurLimbo + 2 < p.mMaxSize =>
         r.mMaxSize = p.mMaxSize /\ r.mTimerIdsMinFree = p.mTimerIdsMinFree
    /\ p.mCurSize + p.mCurLimbo + 2 >= p.mMaxSize =>
         r.mMaxSize = 2 * p.mMaxSize /\ r.mTimerIdsMinFree = 2 * p.mMaxSize
    /\ \A j \in DOMAIN p.mTimerIds \ (A \cup {i}) : r.mTimerIds[j] = p.mTimerIds[j]
    /\ \A j \in DOMAIN r.mTimerIds \ DOMAIN p.mTimerIds : Free(r, j)

(* insert() puts the timer in its place, growing the heap if need be.      *)
LEMMA InsertEffect ==
    ASSUME NEW p, NEW A, Good(p, A), p.mMaxSize >= 2, p.mCurLimbo \in Nat,
           NEW i \in DOMAIN p.mTimerIds, i \notin A, p.node[i].timerValue \in Nat,
           NEW r, r = insert(p, i)
    PROVE  Put(p, r, A, i)
<1> DEFINE grow == p.mCurSize + p.mCurLimbo + 2 >= p.mMaxSize
           room == IF grow THEN growHeap(p) ELSE p
<1>1. /\ p.mCurSize \in Nat /\ p.mMaxSize \in Nat
      /\ DOMAIN p.mTimerIds = 0..(p.mMaxSize - 1)
  BY DEF Good
<1>2. grow \in BOOLEAN /\ (p.mCurSize + p.mCurLimbo + 2 < p.mMaxSize <=> ~grow)
  BY <1>1
<1> HIDE DEF grow
<1>3. /\ Good(room, A)
      /\ room.mCurSize = p.mCurSize /\ room.mCurLimbo = p.mCurLimbo
      /\ room.mTimerIdsCurr = p.mTimerIdsCurr /\ room.node = p.node
      /\ ~grow => room.mMaxSize = p.mMaxSize /\ room.mTimerIdsMinFree = p.mTimerIdsMinFree
      /\ grow => room.mMaxSize = 2 * p.mMaxSize /\ room.mTimerIdsMinFree = 2 * p.mMaxSize
      /\ \A j \in DOMAIN p.mTimerIds : room.mTimerIds[j] = p.mTimerIds[j]
      /\ ~grow => DOMAIN room.mTimerIds = DOMAIN p.mTimerIds
      /\ grow => \A j \in p.mMaxSize..(2 * p.mMaxSize - 1) : Free(room, j)
  <2>1. CASE grow
    <3>1. Grown(p, room, A)
      BY <2>1, GrowGood
    <3> HIDE DEF room
    <3> QED
      BY <2>1, <3>1 DEF Grown
  <2>2. CASE ~grow
    BY <2>2
  <2> QED
    BY <2>1, <2>2, ZenonT(40)
<1>4. r = [reheapUp(room, i, room.mCurSize) EXCEPT !.mCurSize = @ + 1]
  BY DEF insert, grow
<1> HIDE DEF room
<1>5. DOMAIN room.mTimerIds = 0..(room.mMaxSize - 1)
  BY <1>3 DEF Good
<1>6. /\ DOMAIN p.mTimerIds \subseteq DOMAIN room.mTimerIds
      /\ \A j \in DOMAIN room.mTimerIds \ DOMAIN p.mTimerIds : Free(room, j)
  <2>1. CASE grow
    BY <2>1, <1>1, <1>3, <1>5
  <2>2. CASE ~grow
    BY <2>2, <1>3
  <2> QED
    BY <2>1, <2>2
<1>7. Inserted(room, r, A, i)
  BY <1>3, <1>4, <1>6, InsertGood
<1>8. DOMAIN r.mTimerIds = DOMAIN room.mTimerIds
  BY <1>5, <1>7 DEF Inserted, Good
<1>9. A \subseteq DOMAIN p.mTimerIds
  BY DEF Good
<1>10. \A j \in DOMAIN r.mTimerIds \ DOMAIN p.mTimerIds : Free(r, j)
  BY <1>6, <1>7, <1>8, <1>9 DEF Inserted, Free
<1> QED
  BY <1>2, <1>3, <1>6, <1>7, <1>10 DEF Inserted, grow, Put

(* popFreelist() changes the state of the search only.                     *)
LEMMA PopEffect ==
    ASSUME NEW p, IsHeap(p), NEW r, r = popFreelist(p)
    PROVE  /\ IsHeap(r) /\ r.mHeap = p.mHeap /\ r.mCurSize = p.mCurSize
           /\ r.mCurLimbo = p.mCurLimbo /\ r.mMaxSize = p.mMaxSize
           /\ r.mTimerIds = p.mTimerIds /\ r.mTimerIdsCurr = timerId(p)
           /\ r.mTimerIdsMinFree = (IF Above(p) = {} THEN p.mMaxSize ELSE p.mTimerIdsMinFree)
           /\ r.node = p.node
BY Zenon DEF IsHeap, popFreelist

-----------------------------------------------------------------------------
(* freeNode(), resetInterval() and the passes of cancelType().             *)

(* A record with the fields of a heap is one.                              *)
LEMMA HeapShape ==
    ASSUME NEW p, IsHeap(p), NEW c, DOMAIN c = DOMAIN p, c = [f \in DOMAIN p |-> c[f]]
    PROVE  IsHeap(c)
BY DEF IsHeap

(* What freeNode() makes of heap p, for a timer in limbo.                  *)
Freed(p, r, i) ==
    /\ IsHeap(r) /\ r.mHeap = p.mHeap /\ r.mCurSize = p.mCurSize
    /\ r.mCurLimbo = p.mCurLimbo - 1 /\ r.mMaxSize = p.mMaxSize
    /\ r.mTimerIds = [p.mTimerIds EXCEPT ![i] = -1]
    /\ r.mTimerIdsCurr = p.mTimerIdsCurr
    /\ r.mTimerIdsMinFree = (IF i < p.mTimerIdsMinFree /\ i <= p.mTimerIdsCurr
                               THEN i ELSE p.mTimerIdsMinFree)
    /\ r.node = [j \in DOMAIN p.node \ {i} |-> p.node[j]]

(* freeNode() changes the entry of its id, the counts and the free list.   *)
LEMMA FreeNodeEffect ==
    ASSUME NEW p, IsHeap(p), NEW i, p.mTimerIds[i] = Limbo, NEW r, r = freeNode(p, i)
    PROVE  Freed(p, r, i)
<1> DEFINE c == pushFreelist(p, i)
<1>1. /\ IsHeap(c) /\ c.mHeap = p.mHeap /\ c.mCurSize = p.mCurSize
      /\ c.mCurLimbo = p.mCurLimbo - 1 /\ c.mMaxSize = p.mMaxSize
      /\ c.mTimerIds = [p.mTimerIds EXCEPT ![i] = -1]
      /\ c.mTimerIdsCurr = p.mTimerIdsCurr
      /\ c.mTimerIdsMinFree = (IF i < p.mTimerIdsMinFree /\ i <= p.mTimerIdsCurr
                                 THEN i ELSE p.mTimerIdsMinFree)
      /\ c.node = p.node
  <2>1. c.mTimerIds = [p.mTimerIds EXCEPT ![i] = -1] /\ c.mCurLimbo = p.mCurLimbo - 1
    BY DEF IsHeap, pushFreelist
  <2>2. /\ c.mHeap = p.mHeap /\ c.mCurSize = p.mCurSize
        /\ c.mMaxSize = p.mMaxSize /\ c.mTimerIdsCurr = p.mTimerIdsCurr /\ c.node = p.node
    BY DEF IsHeap, pushFreelist
  <2>4. IsHeap(c)
    <3>1. DOMAIN c = DOMAIN p /\ c = [f \in DOMAIN p |-> c[f]]
      BY Zenon DEF IsHeap, pushFreelist
    <3> QED
      BY <3>1, HeapShape
  <2>3. c.mTimerIdsMinFree = (IF i < p.mTimerIdsMinFree /\ i <= p.mTimerIdsCurr
                                THEN i ELSE p.mTimerIdsMinFree)
    BY DEF IsHeap, pushFreelist
  <2> QED
    BY <2>1, <2>2, <2>3, <2>4
<1>2. r = [c EXCEPT !.node = [j \in DOMAIN @ \ {i} |-> @[j]]]
  BY DEF freeNode
<1> HIDE DEF c
<1> QED
  BY <1>1, <1>2 DEF IsHeap, Freed

(* What resetInterval() makes of heap p.                                   *)
IntervalReset(p, r, A, L, i, v) ==
    /\ Sound(r, A, L) /\ r.mMaxSize = p.mMaxSize
    /\ r.node = [p.node EXCEPT ![i].interval = v]
    /\ \A j \in A : r.node[j].timerValue = p.node[j].timerValue

(* resetInterval() concerns neither the heap nor the ids.                  *)
LEMMA IntervalSound ==
    ASSUME NEW p, NEW A, NEW L, Sound(p, A, L), NEW i \in A, NEW v \in Interval,
           NEW r, r = [p EXCEPT !.node[i].interval = v]
    PROVE  IntervalReset(p, r, A, L, i, v)
<1>1. /\ IsHeap(p) /\ DOMAIN p.node = A \cup L /\ \A j \in A \cup L : p.node[j] \in Node
      /\ p.mCurSize \in Nat /\ Stored(p, 0..(p.mCurSize - 1), A)
      /\ \A s \in 0..(p.mCurSize - 1) : InOrder(p, s)
  BY DEF Sound, Good
<1>2. /\ IsHeap(r) /\ r.mHeap = p.mHeap /\ r.mCurSize = p.mCurSize
      /\ r.mCurLimbo = p.mCurLimbo /\ r.mMaxSize = p.mMaxSize
      /\ r.mTimerIds = p.mTimerIds /\ r.mTimerIdsCurr = p.mTimerIdsCurr
      /\ r.mTimerIdsMinFree = p.mTimerIdsMinFree
      /\ r.node = [p.node EXCEPT ![i].interval = v]
  BY <1>1 DEF IsHeap
<1>3. DOMAIN r.node = A \cup L /\ \A j \in A \cup L : r.node[j] \in Node
  BY <1>1, <1>2 DEF Node
<1>4. \A j \in A : r.node[j].timerValue = p.node[j].timerValue
  BY <1>1, <1>2 DEF Node
<1>5. Stored(r, 0..(r.mCurSize - 1), A)
  BY <1>1, <1>2 DEF Stored
<1>6. \A s \in 0..(r.mCurSize - 1) : InOrder(r, s)
  <2>1. \A s \in 0..(p.mCurSize - 1) : Value(r, s) = Value(p, s)
    BY <1>1, <1>2, <1>4 DEF Value, Stored
  <2>2. \A s \in 0..(p.mCurSize - 1) : Parent(s) \in 0..(p.mCurSize - 1)
    BY <1>1, ParentInRange
  <2> QED
    BY <2>1, <2>2, <1>1, <1>2 DEF InOrder
<1>7. Good(r, A)
  BY <1>2, <1>4, <1>5, <1>6, Zenon DEF Good, Sound
<1>8. Sound(r, A, L)
  BY <1>2, <1>3, <1>7 DEF Sound
<1> QED
  BY <1>2, <1>4, <1>8 DEF IntervalReset

(* Some multiple of the interval v leads from time tv to one of the first  *)
(* v times after c, ...                                                    *)
LEMMA SkipExists ==
    ASSUME NEW tv \in Nat, NEW v \in Nat, v > 0, NEW c \in Nat, tv <= c
    PROVE  \E t \in (c + 1)..(c + v) : (t - tv) % v = 0
<1> DEFINE k == ((c - tv) \div v) + 1
<1>1. c - tv \in Nat
  OBVIOUS
<1>2. c - tv = v * ((c - tv) \div v) + ((c - tv) % v) /\ (c - tv) \div v \in Nat
      /\ (c - tv) % v \in 0..(v - 1)
  BY <1>1
<1>3. k \in Nat /\ c - tv = v * (k - 1) + ((c - tv) % v)
  BY <1>2
<1>4. ((v * k + tv) - tv) = k * v /\ v * k \in Nat
  BY <1>3
<1>5. (k * v) % v = 0
  BY <1>3
<1>6. v * (k - 1) = v * k - v
  BY <1>3
<1>7. v * k + tv \in (c + 1)..(c + v)
  <2> HIDE DEF k
  <2> QED
    BY <1>2, <1>3, <1>4, <1>6
<1> QED
  BY <1>4, <1>5, <1>7, Zenon

(* g lists the heaps that the first k passes of cancel(type) lead to.      *)
Passes(g, p, h, k) ==
    /\ g[0] = p
    /\ \A j \in 1..k : g[j] = CancelFirstOf(g[j - 1], h)

(* The passes can be listed, and in one way only, ...                      *)
LEMMA PassesExist ==
    ASSUME NEW p, NEW h, NEW k \in Nat
    PROVE  \E g : Passes(g, p, h, k)
<1> DEFINE Bad == {l \in Nat : ~\E g : Passes(g, p, h, l)}
<1> SUFFICES ASSUME Bad # {} PROVE FALSE
  OBVIOUS
<1>1. Bad \in SUBSET Nat
  OBVIOUS
<1> HIDE DEF Bad
<1>2. PICK l \in Bad : \A m \in Bad : l <= m
  BY <1>1, LeastNumber
<1>3. l \in Nat /\ ~\E g : Passes(g, p, h, l)
  BY <1>2 DEF Bad
<1>4. CASE l = 0
  <2> DEFINE g == [j \in {0} |-> p]
  <2>1. Passes(g, p, h, l)
    BY <1>4 DEF Passes
  <2> QED
    BY <2>1, <1>3
<1>5. CASE l # 0
  <2>1. l - 1 \in Nat /\ l - 1 \notin Bad
    BY <1>2, <1>3, <1>5
  <2>2. PICK g : Passes(g, p, h, l - 1)
    BY <2>1 DEF Bad
  <2> DEFINE f == [j \in 0..l |-> IF j = l THEN CancelFirstOf(g[l - 1], h) ELSE g[j]]
  <2>3. f[0] = p
    BY <2>2, <1>3, <1>5 DEF Passes
  <2>4. ASSUME NEW j \in 1..l PROVE f[j] = CancelFirstOf(f[j - 1], h)
    <3>1. j - 1 \in 0..l /\ j \in 0..l /\ j - 1 # l
      BY <1>3
    <3>2. f[j - 1] = g[j - 1]
      BY <3>1
    <3>3. CASE j = l
      BY <3>1, <3>2, <3>3
    <3>4. CASE j # l
      <4>1. j \in 1..(l - 1)
        BY <3>4, <1>3
      <4>2. f[j] = g[j]
        BY <3>1, <3>4
      <4> QED
        BY <4>1, <4>2, <3>2, <2>2 DEF Passes
    <3> QED
      BY <3>3, <3>4
  <2> HIDE DEF f
  <2>5. Passes(f, p, h, l)
    BY <2>3, <2>4 DEF Passes
  <2> QED
    BY <2>5, <1>3
<1> QED
  BY <1>4, <1>5

(* The passes of cancelType() go one way only.                             *)
LEMMA PassesUnique ==
    ASSUME NEW p, NEW h, NEW k \in Nat, NEW l \in Nat, NEW f, NEW g,
           Passes(f, p, h, k), Passes(g, p, h, l), NEW j \in 0..k, j <= l
    PROVE  f[j] = g[j]
<1> DEFINE Bad == {m \in 0..k : m <= l /\ f[m] # g[m]}
<1> SUFFICES ASSUME Bad # {} PROVE FALSE
  OBVIOUS
<1>1. Bad \in SUBSET Nat
  OBVIOUS
<1>2. PICK m \in Bad : \A n \in Bad : m <= n
  BY <1>1, LeastNumber, Zenon
<1>3. m # 0
  BY <1>2 DEF Passes
<1>4. m - 1 \in 0..k /\ m - 1 <= l /\ m - 1 \notin Bad /\ m \in 1..k /\ m \in 1..l
  BY <1>2, <1>3
<1>5. f[m - 1] = g[m - 1]
  BY <1>4
<1>6. f[m] = g[m]
  BY <1>4, <1>5 DEF Passes
<1> QED
  BY <1>2, <1>6

(* ... so that cancel(type) is well defined.                               *)
LEMMA CancelTypePasses ==
    ASSUME NEW p, p.mCurSize \in Nat, NEW h
    PROVE  \E f : Passes(f, p, h, p.mCurSize) /\ cancelType(p, h) = f[p.mCurSize]
<1> DEFINE G(k) == CHOOSE g : Passes(g, p, h, k)
           F == [k \in Nat |-> G(k)[k]]
           Body(f) == [k \in Nat |-> IF k = 0 THEN p ELSE CancelFirstOf(f[k - 1], h)]
           after == CHOOSE f : f = Body(f)
<1>1. \A k \in Nat : Passes(G(k), p, h, k)
  BY PassesExist
<1> HIDE DEF G
<1>2. ASSUME NEW k \in Nat PROVE F[k] = IF k = 0 THEN p ELSE CancelFirstOf(F[k - 1], h)
  <2>1. CASE k = 0
    BY <2>1, <1>1 DEF Passes
  <2>2. CASE k # 0
    <3>1. k - 1 \in Nat /\ k \in 1..k /\ k - 1 \in 0..k /\ k - 1 \in 0..(k - 1) /\ k - 1 <= k
      BY <2>2
    <3>2. G(k - 1)[k - 1] = G(k)[k - 1]
      <4>1. Passes(G(k - 1), p, h, k - 1) /\ Passes(G(k), p, h, k)
        BY <3>1, <1>1
      <4> DEFINE j == k - 1
      <4>2. j \in Nat /\ j \in 0..j /\ j <= k /\ Passes(G(j), p, h, j) /\ Passes(G(k), p, h, k)
        BY <3>1, <4>1
      <4> HIDE DEF j
      <4>3. G(j)[j] = G(k)[j]
        BY <4>2, PassesUnique
      <4> QED
        BY <4>3 DEF j
    <3>3. G(k)[k] = CancelFirstOf(G(k)[k - 1], h)
      BY <3>1, <1>1 DEF Passes
    <3>4. F[k] = G(k)[k] /\ F[k - 1] = G(k - 1)[k - 1]
      BY <3>1
    <3> QED
      BY <3>2, <3>3, <3>4, <2>2
  <2> QED
    BY <2>1, <2>2
<1>3. F = [k \in Nat |-> F[k]]
  OBVIOUS
<1> HIDE DEF F
<1>4. F = Body(F)
  BY <1>2, <1>3
<1>5. after = Body(after)
  BY <1>4, Zenon
<1>6. cancelType(p, h) = after[p.mCurSize]
  BY DEF cancelType
<1> HIDE DEF after
<1>7. Passes(after, p, h, p.mCurSize)
  <2>1. \A k \in Nat : after[k] = IF k = 0 THEN p ELSE CancelFirstOf(after[k - 1], h)
    BY <1>5
  <2> QED
    BY <2>1 DEF Passes
<1> QED
  BY <1>6, <1>7

-----------------------------------------------------------------------------
(* The earliest timer.                                                     *)

(* The ids of the timers set are those with an entry that is no mark.      *)
LEMMA ActiveOf ==
    ASSUME NEW p, NEW A, NEW L, Sound(p, A, L)
    PROVE  {i \in DOMAIN p.mTimerIds : p.mTimerIds[i] >= 0} = A
<1>1. /\ A \subseteq DOMAIN p.mTimerIds /\ Stored(p, 0..(p.mCurSize - 1), A)
      /\ \A j \in DOMAIN p.mTimerIds \ A : p.mTimerIds[j] \in Int /\ p.mTimerIds[j] < 0
  BY DEF Sound, Good
<1>2. \A j \in A : p.mTimerIds[j] >= 0
  BY <1>1 DEF Stored
<1> QED
  BY <1>1, <1>2

(* The timer at the root is the earliest.                                  *)
LEMMA RootEarliest ==
    ASSUME NEW p, NEW A, Good(p, A)
    PROVE  /\ IsEmpty(p) <=> A = {}
           /\ ~IsEmpty(p) => /\ p.mHeap[0] \in A /\ EarliestTime(p) \in Nat
                             /\ p.mTimerIds[p.mHeap[0]] = 0
                             /\ \A x \in A : EarliestTime(p) <= p.node[x].timerValue
<1>1. /\ p.mCurSize \in Nat /\ Stored(p, 0..(p.mCurSize - 1), A)
      /\ \A s \in 0..(p.mCurSize - 1) : InOrder(p, s)
      /\ \A j \in A : p.node[j].timerValue \in Nat
  BY DEF Good
<1>2. IsEmpty(p) => A = {}
  BY <1>1 DEF IsEmpty, Stored
<1>3. ASSUME ~IsEmpty(p)
      PROVE  /\ p.mHeap[0] \in A /\ EarliestTime(p) \in Nat /\ p.mTimerIds[p.mHeap[0]] = 0
             /\ \A x \in A : EarliestTime(p) <= p.node[x].timerValue
  <2>1. 0 \in 0..(p.mCurSize - 1)
    BY <1>1, <1>3 DEF IsEmpty
  <2>2. \A s \in 0..(p.mCurSize - 1) : p.mHeap[s] \in A /\ Value(p, s) \in Nat
    BY <1>1 DEF Stored, Value
  <2> DEFINE Bad == {s \in 0..(p.mCurSize - 1) : Value(p, s) < Value(p, 0)}
  <2>3. Bad = {}
    <3> SUFFICES ASSUME Bad # {} PROVE FALSE
      OBVIOUS
    <3>1. Bad \in SUBSET Nat
      BY <1>1
    <3> HIDE DEF Bad
    <3>2. PICK s \in Bad : \A t \in Bad : s <= t
      BY <3>1, LeastNumber
    <3>3. s \in 0..(p.mCurSize - 1) /\ Value(p, s) < Value(p, 0)
      BY <3>2 DEF Bad
    <3>4. s # 0
      BY <3>3, <2>1, <2>2
    <3>5. Parent(s) \in 0..(p.mCurSize - 1) /\ Parent(s) < s
      BY <3>3, <3>4, <1>1 DEF Parent
    <3>6. Value(p, Parent(s)) <= Value(p, s)
      BY <3>3, <1>1 DEF InOrder
    <3>7. Parent(s) \in Bad
      BY <3>3, <3>5, <3>6, <2>1, <2>2 DEF Bad
    <3> QED
      BY <3>2, <3>5, <3>7, <3>3
  <2>4. ASSUME NEW x \in A PROVE EarliestTime(p) <= p.node[x].timerValue
    <3>1. p.mTimerIds[x] \in 0..(p.mCurSize - 1) /\ Value(p, p.mTimerIds[x]) = p.node[x].timerValue
      BY <1>1 DEF Stored, Value
    <3> QED
      BY <3>1, <2>1, <2>2, <2>3 DEF EarliestTime
  <2> QED
    BY <2>1, <2>2, <2>4, <1>1 DEF EarliestTime, Stored
<1> QED
  BY <1>2, <1>3

(* While timers are only taken away, the earliest time grows no earlier.   *)
LEMMA NoEarlier ==
    ASSUME NEW p, NEW A, Good(p, A), NEW r, NEW B, Good(r, B), B \subseteq A,
           \A j \in B : r.node[j].timerValue = p.node[j].timerValue, ~IsEmpty(r)
    PROVE  /\ ~IsEmpty(p) /\ EarliestTime(p) \in Nat /\ EarliestTime(r) \in Nat
           /\ EarliestTime(p) <= EarliestTime(r)
<1> DEFINE x == r.mHeap[0]
<1>1. x \in B /\ EarliestTime(r) \in Nat
  BY RootEarliest
<1>2. EarliestTime(r) = p.node[x].timerValue
  BY <1>1 DEF EarliestTime, Value
<1> HIDE DEF x
<1>3. x \in A
  BY <1>1
<1>4. ~IsEmpty(p)
  BY <1>3, RootEarliest
<1> QED
  BY <1>1, <1>2, <1>3, <1>4, RootEarliest

(* A number of intervals v, at most c + 1, leads from time tv to time t.   *)
Periods(tv, v, c, t) == \E k \in 1..(c + 1) : t = tv + k * v

(* ... and it is reached after at most c + 1 intervals.                    *)
LEMMA Skips ==
    ASSUME NEW tv \in Nat, NEW v \in Nat, v > 0, NEW c \in Nat, tv <= c,
           NEW t \in (c + 1)..(c + v), (t - tv) % v = 0
    PROVE  Periods(tv, v, c, t)
<1> DEFINE k == (t - tv) \div v
<1>1. t - tv \in Nat
  OBVIOUS
<1>2. t - tv = v * k + ((t - tv) % v) /\ k \in Nat
  BY <1>1
<1>3. t - tv = k * v
  BY <1>2
<1>4. k # 0
  <2>1. t - tv > 0
    OBVIOUS
  <2> QED
    BY <2>1, <1>3
<1> HIDE DEF k
<1>5. k <= c + 1
  <2>1. SUFFICES ASSUME k >= c + 2 PROVE FALSE
    BY <1>2
  <2>2. k * v = (k - 1) * v + v /\ (k - 1) * v >= k - 1
    BY <1>2, <1>4
  <2> QED
    BY <2>1, <2>2, <1>2, <1>3
<1>6. t = tv + k * v
  BY <1>1, <1>2, <1>3
<1> QED
  BY <1>2, <1>4, <1>5, <1>6 DEF Periods

-----------------------------------------------------------------------------
(* The steps that set or cancel no timer.                                  *)

(* A step that leaves a sound heap leaves the invariant to be shown for    *)
(* the rest of the state.                                                  *)
LEMMA SoundAfter ==
    ASSUME NEW B, NEW M, Sound(q', B, M), M = Closing'
    PROVE  Active' = B /\ Sound(q, Active, Closing)'
<1>1. Active' = B
  BY ActiveOf DEF Active
<1> QED
  BY <1>1

(* Steps of the thread and of the clock do not touch the heap.             *)
LEMMA HeapUntouched ==
    ASSUME IInv, UNCHANGED <<q, closing>>
    PROVE  /\ Sound(q, Active, Closing)' /\ (q.mMaxSize <= InitialSize + 2 * MaxSize)'
           /\ timers' = timers
           /\ (~IsEmpty(q) <=> ~IsEmpty(q)') /\ EarliestTime(q)' = EarliestTime(q)
<1>1. Active' = Active /\ Closing' = Closing /\ q' = q
  BY DEF Active, Closing
<1> QED
  BY <1>1 DEF IInv, timers

(* A step that only takes timers away without waking the thread does not   *)
(* make it oversleep.                                                      *)
LEMMA StillInTime ==
    ASSUME IInv, svc' = svc, until' = until, NEW B, NEW M, Sound(q', B, M), B \subseteq Active,
           \A j \in B : q'.node[j].timerValue = q.node[j].timerValue
    PROVE  NeverOversleeps'
<1> SUFFICES ASSUME svc = "waiting", ~IsEmpty(q')
             PROVE  until # Never /\ until <= EarliestTime(q')
  BY DEF NeverOversleeps
<1>1. Good(q, Active) /\ Good(q', B)
  BY DEF IInv, Sound
<1>2. /\ ~IsEmpty(q) /\ EarliestTime(q) \in Nat /\ EarliestTime(q') \in Nat
      /\ EarliestTime(q) <= EarliestTime(q')
  BY <1>1, NoEarlier
<1>3. until # Never /\ until <= EarliestTime(q) /\ until \in Nat
  BY <1>2 DEF IInv, NeverOversleeps
<1> QED
  BY <1>2, <1>3

(* resetInterval().                                                        *)
LEMMA ResetIntervalStep ==
    ASSUME IInv, NEW i \in Active, NEW v \in Interval, ResetInterval(i, v)
    PROVE  /\ IInv' /\ i \in DOMAIN timers
           /\ \E t \in [type : EventHandler, timerValue : 0..MaxTime, interval : Interval] :
                Promise!ResetInterval(i, t.interval)
<1>1. /\ q' = [q EXCEPT !.node[i].interval = v] /\ now' = now /\ closing' = closing
      /\ UNCHANGED <<svc, until, cur, type>>
  BY DEF ResetInterval, NoSignal, svcVars
<1>2. Sound(q, Active, Closing) /\ Closing' = Closing
  BY <1>1 DEF IInv, Closing
<1>3. /\ Sound(q', Active, Closing) /\ q'.mMaxSize = q.mMaxSize
      /\ q'.node = [q.node EXCEPT ![i].interval = v]
      /\ \A j \in Active : q'.node[j].timerValue = q.node[j].timerValue
  <2>1. IntervalReset(q, q', Active, Closing, i, v)
    BY <1>1, <1>2, IntervalSound
  <2> QED
    BY <2>1 DEF IntervalReset
<1>4. Active' = Active /\ Sound(q, Active, Closing)'
  BY <1>2, <1>3, SoundAfter
<1>5. NeverOversleeps'
  BY <1>1, <1>3, StillInTime
<1>6. IInv'
  BY <1>1, <1>3, <1>4, <1>5 DEF IInv
<1>7. i \in DOMAIN timers /\ DOMAIN timers = Active
  BY DEF timers
<1>8. timers' = [timers EXCEPT ![i].interval = v]
  <2>1. i \in DOMAIN q.node /\ Active \subseteq DOMAIN q.node
    BY <1>2 DEF Sound
  <2> QED
    BY <2>1, <1>3, <1>4, Zenon DEF timers
<1>9. Promise!ResetInterval(i, v)
  BY <1>1, <1>8 DEF Promise!ResetInterval
<1> DEFINE t == [type |-> q.node[i].type, timerValue |-> 0, interval |-> v]
<1>10. t \in [type : EventHandler, timerValue : 0..MaxTime, interval : Interval] /\ t.interval = v
  <2>1. q.node[i] \in Node
    BY <1>2 DEF Sound
  <2> QED
    BY <2>1, TimerAssumption DEF Node
<1> QED
  BY <1>6, <1>7, <1>9, <1>10, Zenon

(* The steps of the thread and of the clock.                               *)
LEMMA ThreadStep ==
    ASSUME IInv, SpuriousWake \/ Wake \/ ExpireReturns
    PROVE  IInv' /\ UNCHANGED <<timers, now>>
<1>1. UNCHANGED <<q, now, closing>>
  BY DEF SpuriousWake, Wake, ExpireReturns
<1>2. /\ Sound(q, Active, Closing)' /\ (q.mMaxSize <= InitialSize + 2 * MaxSize)'
      /\ timers' = timers
      /\ (~IsEmpty(q) <=> ~IsEmpty(q)') /\ EarliestTime(q)' = EarliestTime(q)
  BY <1>1, HeapUntouched
<1>3. /\ now \in 0..MaxTime /\ (cur = None \/ cur \in 0..now) /\ until \in Nat \cup {Never}
      /\ Good(q, Active)
  BY DEF IInv, Sound
<1>4. now \in 0..now
  BY <1>3
<1>5. CASE SpuriousWake \/ Wake
  <2>1. /\ svc' \in {"woken", "expiring"} /\ until' \in {until, Never} /\ cur' \in {cur, now}
    BY <1>5 DEF SpuriousWake, Wake
  <2>2. NeverOversleeps'
    BY <2>1 DEF NeverOversleeps
  <2> QED
    BY <2>1, <2>2, <1>1, <1>2, <1>3, <1>4 DEF IInv
<1>6. CASE ExpireReturns
  <2>1. CASE Due(now)
    <3>1. svc' = "expiring" /\ until' = until /\ cur' = now
      BY <2>1, <1>6 DEF ExpireReturns
    <3>2. NeverOversleeps'
      BY <3>1 DEF NeverOversleeps
    <3> QED
      BY <3>1, <3>2, <1>1, <1>2, <1>3, <1>4 DEF IInv
  <2>2. CASE ~Due(now)
    <3>1. /\ svc' = "waiting" /\ cur' = None
          /\ until' = IF IsEmpty(q) THEN Never ELSE EarliestTime(q)
      BY <2>2, <1>6 DEF ExpireReturns
    <3>2. ~IsEmpty(q) => EarliestTime(q) \in Nat
      BY <1>3, RootEarliest
    <3>3. until' \in Nat \cup {Never}
      BY <3>1, <3>2
    <3>4. NeverOversleeps'
      <4>1. ASSUME ~IsEmpty(q)' PROVE (until # Never /\ until <= EarliestTime(q))'
        <5>1. until' = EarliestTime(q) /\ EarliestTime(q) \in Nat
          BY <4>1, <3>1, <3>2, <1>2
        <5> QED
          BY <5>1, <1>2 DEF Never
      <4> QED
        BY <4>1 DEF NeverOversleeps
    <3> QED
      BY <3>1, <3>3, <3>4, <1>1, <1>2, <1>3 DEF IInv
  <2> QED
    BY <2>1, <2>2
<1> QED
  BY <1>5, <1>6

(* Time passing is a step of the abstract queue.                           *)
LEMMA TickStep ==
    ASSUME IInv, Tick
    PROVE  IInv' /\ Promise!Tick
<1>1. /\ now < MaxTime /\ now' = now + 1
      /\ UNCHANGED <<q, closing, svc, until, cur, type>>
  BY DEF Tick, svcVars
<1>2. /\ Sound(q, Active, Closing)' /\ (q.mMaxSize <= InitialSize + 2 * MaxSize)'
      /\ timers' = timers
      /\ (~IsEmpty(q) <=> ~IsEmpty(q)') /\ EarliestTime(q)' = EarliestTime(q)
  BY <1>1, HeapUntouched
<1>3. now' \in 0..MaxTime /\ (cur' = None \/ cur' \in 0..now')
  BY <1>1, TimerAssumption DEF IInv
<1>4. NeverOversleeps'
  BY <1>1, <1>2 DEF IInv, NeverOversleeps
<1>5. IInv'
  BY <1>1, <1>2, <1>3, <1>4 DEF IInv
<1> QED
  BY <1>1, <1>2, <1>5 DEF Promise!Tick

=============================================================================
