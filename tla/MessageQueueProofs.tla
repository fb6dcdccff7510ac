------------------------- MODULE MessageQueueProofs -------------------------
(***************************************************************************)
(* Proofs about MessageQueue, for any number of threads and blocks and any *)
(* water marks.                                                            *)
(***************************************************************************)
EXTENDS MessageQueue, TLAPS

-----------------------------------------------------------------------------
(* Sequences: the two operations of the queue, element by element.         *)

(* Append adds one element at the end and moves none.                      *)
LEMMA AppendFacts ==
    ASSUME NEW S, NEW s \in Seq(S), NEW x \in S
    PROVE  /\ Append(s, x) \in Seq(S)
           /\ Len(s) \in Nat
           /\ Len(Append(s, x)) = Len(s) + 1
           /\ \A k \in 1..Len(s) : Append(s, x)[k] = s[k] /\ s[k] \in S
           /\ Append(s, x)[Len(s) + 1] = x
  OBVIOUS

(* Tail drops the first element and moves the others one place down.       *)
LEMMA TailFacts ==
    ASSUME NEW S, NEW s \in Seq(S), Len(s) > 0
    PROVE  /\ Tail(s) \in Seq(S)
           /\ Len(s) \in Nat
           /\ Len(Tail(s)) = Len(s) - 1
           /\ \A k \in 1..(Len(s) - 1) : Tail(s)[k] = s[k + 1]
           /\ \A k \in 1..Len(s) : s[k] \in S
           /\ Head(s) = s[1]
           /\ s # <<>>
  OBVIOUS

(* The initial state satisfies the inductive invariant.                    *)
LEMMA InvInit == Init => IInv
  <1> SUFFICES ASSUME Init PROVE IInv
    OBVIOUS
  <1>1. Len(<<>>) = 0 /\ <<>> \in Seq(Item)
    OBVIOUS
  <1>2. TypeOK
    BY <1>1 DEF Init, TypeOK, ListTypeOK, ThreadTypeOK
  <1>3. ListIsQueue
    BY <1>1 DEF Init, ListIsQueue
  <1>4. /\ WaitSets /\ PendingItemsOwned
        /\ NoLostDequeueSignal /\ NoLostEnqueueSignal /\ EveryPlaceSignalled
    BY DEF EveryPlaceSignalled, Init, WaitSets, PendingItemsOwned, NoLostDequeueSignal, NoLostEnqueueSignal
  <1>5. WithinHighWaterMark
    BY QueueAssumption DEF Init, WithinHighWaterMark
  <1> QED
    BY <1>2, <1>3, <1>4, <1>5 DEF IInv

-----------------------------------------------------------------------------
(* The list.                                                               *)

(* Linking a block that is not in the queue keeps the list right.          *)
LEMMA LinkStep ==
    ASSUME ListTypeOK, ListIsQueue, NEW x \in Item,
           \A k \in 1..Len(q) : q[k] # x, LinkAtTail(x)
    PROVE  /\ ListTypeOK'
           /\ ListIsQueue'
           /\ m_curCount' = m_curCount + 1
           /\ m_curCount \in Nat
           /\ m_curCount = Len(q)
           /\ \A y \in Item : (\A k \in 1..Len(q) : q[k] # y) /\ y # x
                                => \A k \in 1..Len(q') : q'[k] # y
  <1>1. /\ q' \in Seq(Item)
        /\ Len(q) \in Nat
        /\ Len(q') = Len(q) + 1
        /\ \A k \in 1..Len(q) : q'[k] = q[k] /\ q[k] \in Item
        /\ q'[Len(q) + 1] = x
    BY AppendFacts DEF ListTypeOK, LinkAtTail
  <1>n. NoItem \notin Item
    BY QueueAssumption
  <1>2. ListTypeOK'
    BY <1>1 DEF ListTypeOK, LinkAtTail
  <1>3. m_curCount' = m_curCount + 1 /\ m_curCount = Len(q) /\ m_curCount \in Nat
    BY <1>1 DEF LinkAtTail, ListIsQueue
  <1>4. ASSUME NEW y \in Item, \A k \in 1..Len(q) : q[k] # y, y # x
        PROVE  \A k \in 1..Len(q') : q'[k] # y
    BY <1>1, <1>4
  <1>5. CASE Len(q) = 0
    <2>1. m_tail = NoItem /\ m_head' = x /\ m_tail' = x /\ next' = next /\ prev' = prev
      BY <1>5 DEF ListIsQueue, LinkAtTail
    <2>2. next[x] = NoItem /\ prev[x] = NoItem
      BY <1>5 DEF ListIsQueue
    <2>3. \A y \in Item : next[y] = NoItem /\ prev[y] = NoItem
      BY <1>5, <1>1 DEF ListIsQueue
    <2>4. Len(q') = 1 /\ q'[1] = x
      BY <1>1, <1>5
    <2>5. ListIsQueue'
      BY <1>3, <1>5, <2>1, <2>2, <2>3, <2>4 DEF ListIsQueue
    <2> QED
      BY <1>2, <1>3, <1>4, <2>5
  <1>6. CASE Len(q) # 0
    <2>1. /\ m_tail = q[Len(q)] /\ m_tail \in Item /\ m_tail # NoItem
          /\ m_head = q[1]
          /\ m_head' = m_head /\ m_tail' = x
          /\ next' = [next EXCEPT ![m_tail] = x]
          /\ prev' = [prev EXCEPT ![x] = m_tail]
      BY <1>1, <1>6, <1>n DEF ListIsQueue, LinkAtTail
    <2>2. m_curCount' = Len(q') /\ m_head' = q'[1] /\ m_tail' = q'[Len(q')] /\ Len(q') # 0
      BY <1>1, <1>3, <1>6, <2>1
    <2>3. \A j, k \in 1..Len(q') : q'[j] = q'[k] => j = k
      <3> SUFFICES ASSUME NEW j \in 1..(Len(q) + 1), NEW k \in 1..(Len(q) + 1),
                          q'[j] = q'[k]
                   PROVE  j = k
        BY <1>1
      <3>1. \A i, l \in 1..Len(q) : q[i] = q[l] => i = l
        BY DEF ListIsQueue
      <3> QED
        BY <1>1, <3>1
    <2>4. ASSUME NEW k \in 1..Len(q')
          PROVE  /\ next'[q'[k]] = IF k = Len(q') THEN NoItem ELSE q'[k + 1]
                 /\ prev'[q'[k]] = IF k = 1 THEN NoItem ELSE q'[k - 1]
      <3>0. next \in [Item -> Item \cup {NoItem}] /\ prev \in [Item -> Item \cup {NoItem}]
        BY DEF ListTypeOK
      <3>1. CASE k = Len(q) + 1
        <4>1. q'[k] = x /\ x # m_tail
          BY <3>1, <1>1, <1>6, <2>1
        <4>2. next[x] = NoItem
          BY DEF ListIsQueue
        <4> QED
          BY <4>1, <4>2, <3>1, <3>0, <2>1, <1>1, <1>6
      <3>2. CASE k = Len(q)
        <4>1. q'[k] = m_tail /\ m_tail # x /\ q'[k + 1] = x
          BY <3>2, <1>1, <1>6, <2>1
        <4>2. prev[m_tail] = IF k = 1 THEN NoItem ELSE q[k - 1]
          BY <3>2, <2>1, <1>1, <1>6 DEF ListIsQueue
        <4>3. k # 1 => q'[k - 1] = q[k - 1]
          BY <3>2, <1>1, <1>6
        <4> QED
          BY <4>1, <4>2, <4>3, <3>2, <3>0, <2>1, <1>1, <1>6
      <3>3. CASE k \in 1..(Len(q) - 1)
        <4>1. k \in 1..Len(q) /\ Len(q) \in 1..Len(q) /\ k + 1 \in 1..Len(q) /\ k # Len(q)
              /\ (k # 1 => k - 1 \in 1..Len(q))
          BY <3>3, <1>1
        <4>2. q'[k] = q[k] /\ q'[k + 1] = q[k + 1] /\ (k # 1 => q'[k - 1] = q[k - 1])
              /\ q[k] \in Item /\ q[k] # x
          BY <4>1, <1>1
        <4>3. q[k] # m_tail
          BY <4>1, <2>1 DEF ListIsQueue
        <4>4. /\ next[q[k]] = q[k + 1]
              /\ prev[q[k]] = IF k = 1 THEN NoItem ELSE q[k - 1]
          BY <4>1 DEF ListIsQueue
        <4>5. next'[q[k]] = next[q[k]] /\ prev'[q[k]] = prev[q[k]]
          BY <4>2, <4>3, <2>1, <3>0
        <4>6. k # Len(q')
          BY <4>1, <1>1
        <4> QED
          BY <4>2, <4>4, <4>5, <4>6
      <3> QED
        BY <3>1, <3>2, <3>3, <1>1, <2>4
    <2>5. ASSUME NEW y \in Item, \A k \in 1..Len(q') : q'[k] # y
          PROVE  next'[y] = NoItem /\ prev'[y] = NoItem
      <3>1. y # x /\ \A k \in 1..Len(q) : q[k] # y
        BY <1>1, <2>5
      <3>2. y # m_tail
        BY <3>1, <2>1, <1>1, <1>6
      <3>3. next[y] = NoItem /\ prev[y] = NoItem
        BY <3>1 DEF ListIsQueue
      <3> QED
        BY <3>1, <3>2, <3>3, <2>1 DEF ListTypeOK
    <2>6. ListIsQueue'
      BY <2>2, <2>3, <2>4, <2>5 DEF ListIsQueue
    <2> QED
      BY <1>2, <1>3, <1>4, <2>6
  <1> QED
    BY <1>5, <1>6

(* Unlinking the head of a queue that is not empty keeps the list right,   *)
(* and the head is the block that was enqueued first.                      *)
LEMMA UnlinkStep ==
    ASSUME ListTypeOK, ListIsQueue, m_tail # NoItem, UnlinkHead
    PROVE  /\ ListTypeOK'
           /\ ListIsQueue'
           /\ m_curCount' = m_curCount - 1
           /\ m_curCount \in Nat
           /\ m_curCount > 0
           /\ m_curCount' \in Nat
           /\ m_head \in Item
           /\ q # <<>>
           /\ m_head = Head(q)
           /\ \A y : (\A k \in 1..Len(q) : q[k] # y)
                         => \A k \in 1..Len(q') : q'[k] # y
  <1>n. NoItem \notin Item
    BY QueueAssumption
  <1>0. Len(q) \in Nat /\ Len(q) # 0
    BY DEF ListTypeOK, ListIsQueue
  <1>1. /\ q' \in Seq(Item)
        /\ Len(q') = Len(q) - 1
        /\ \A k \in 1..(Len(q) - 1) : q'[k] = q[k + 1]
        /\ \A k \in 1..Len(q) : q[k] \in Item
        /\ Head(q) = q[1]
        /\ q # <<>>
    BY TailFacts, <1>0 DEF ListTypeOK, UnlinkHead
  <1>2. m_curCount = Len(q) /\ m_head = q[1] /\ m_head \in Item /\ m_tail = q[Len(q)]
    BY <1>0, <1>1 DEF ListIsQueue
  <1>3. next[m_head] = IF Len(q) = 1 THEN NoItem ELSE q[2]
    BY <1>0, <1>2 DEF ListIsQueue
  <1>4. /\ next \in [Item -> Item \cup {NoItem}]
        /\ prev \in [Item -> Item \cup {NoItem}]
    BY DEF ListTypeOK
  <1> DEFINE rest == next[m_head]
  <1>5. /\ m_head' = rest
        /\ m_tail' = IF rest = NoItem THEN NoItem ELSE m_tail
        /\ \A y \in Item : prev'[y] = IF y = m_head \/ y = rest THEN NoItem ELSE prev[y]
        /\ \A y \in Item : next'[y] = IF y = m_head THEN NoItem ELSE next[y]
        /\ m_curCount' = m_curCount - 1
    BY <1>4 DEF UnlinkHead
  <1>6. ListTypeOK'
    BY <1>0, <1>1, <1>2, <1>4 DEF ListTypeOK, UnlinkHead
  <1>7. ASSUME NEW y, \A k \in 1..Len(q) : q[k] # y
        PROVE  \A k \in 1..Len(q') : q'[k] # y
    BY <1>0, <1>1, <1>7
  <1>8. /\ Len(q) = 1 => rest = NoItem
        /\ Len(q) # 1 => rest = q[2] /\ rest \in Item /\ rest # NoItem
    BY <1>0, <1>1, <1>3, <1>n
  <1> HIDE DEF rest
  <1>9. /\ m_curCount' = Len(q')
        /\ m_head' = IF Len(q') = 0 THEN NoItem ELSE q'[1]
        /\ m_tail' = IF Len(q') = 0 THEN NoItem ELSE q'[Len(q')]
    <2>1. CASE Len(q) = 1
      BY <2>1, <1>0, <1>1, <1>2, <1>5, <1>8
    <2>2. CASE Len(q) # 1
      <3>1. q'[1] = q[2] /\ q'[Len(q')] = q[Len(q)] /\ Len(q') # 0
        BY <2>2, <1>0, <1>1
      <3> QED
        BY <3>1, <2>2, <1>0, <1>1, <1>2, <1>5, <1>8
    <2> QED
      BY <2>1, <2>2
  <1>10. \A j, k \in 1..Len(q') : q'[j] = q'[k] => j = k
    <2> SUFFICES ASSUME NEW j \in 1..(Len(q) - 1), NEW k \in 1..(Len(q) - 1),
                        q'[j] = q'[k]
                 PROVE  j = k
      BY <1>1
    <2>1. q[j + 1] = q[k + 1] /\ j + 1 \in 1..Len(q) /\ k + 1 \in 1..Len(q)
      BY <1>0, <1>1
    <2>2. j + 1 = k + 1
      BY <2>1 DEF ListIsQueue
    <2> QED
      BY <2>2
  <1>11. ASSUME NEW k \in 1..Len(q')
         PROVE  /\ next'[q'[k]] = IF k = Len(q') THEN NoItem ELSE q'[k + 1]
                /\ prev'[q'[k]] = IF k = 1 THEN NoItem ELSE q'[k - 1]
    <2>1. /\ k \in 1..(Len(q) - 1) /\ k + 1 \in 1..Len(q) /\ 1 \in 1..Len(q)
          /\ k + 1 # 1 /\ (k + 1) - 1 = k /\ (k + 1) + 1 = k + 2
          /\ (k # 1 => k - 1 \in 1..(Len(q) - 1) /\ (k - 1) + 1 = k)
          /\ (k # Len(q') => k + 1 \in 1..(Len(q) - 1) /\ k + 1 # Len(q))
          /\ (k = Len(q') => k + 1 = Len(q))
      BY <1>0, <1>1
    <2>2. /\ q'[k] = q[k + 1] /\ q[k + 1] \in Item
          /\ (k # Len(q') => q'[k + 1] = q[k + 2])
          /\ (k # 1 => q'[k - 1] = q[k])
      BY <2>1, <1>1
    <2>3. /\ next[q[k + 1]] = IF k + 1 = Len(q) THEN NoItem ELSE q[k + 2]
          /\ prev[q[k + 1]] = q[k]
      BY <2>1 DEF ListIsQueue
    <2>4. q[k + 1] # m_head
      BY <2>1, <1>2 DEF ListIsQueue
    <2>5. next'[q[k + 1]] = next[q[k + 1]]
      BY <2>2, <2>4, <1>5
    <2>6. rest = q[2] /\ 2 \in 1..Len(q)
      BY <2>1, <1>0, <1>1, <1>8
    <2>7. k + 1 # 2 => q[k + 1] # q[2]
      BY <2>1, <2>6 DEF ListIsQueue
    <2>8. prev'[q[k + 1]] = IF k = 1 THEN NoItem ELSE q[k]
      BY <2>1, <2>2, <2>3, <2>4, <2>6, <2>7, <1>5
    <2> QED
      BY <2>1, <2>2, <2>3, <2>5, <2>8
  <1>12. ASSUME NEW y \in Item, \A k \in 1..Len(q') : q'[k] # y
         PROVE  next'[y] = NoItem /\ prev'[y] = NoItem
    <2>1. CASE y = m_head
      BY <2>1, <1>5
    <2>2. CASE y # m_head
      <3>1. ASSUME NEW k \in 1..Len(q) PROVE q[k] # y
        <4>1. CASE k = 1
          BY <4>1, <2>2, <1>2
        <4>2. CASE k # 1
          <5>1. k - 1 \in 1..Len(q') /\ q'[k - 1] = q[k]
            BY <4>2, <1>0, <1>1
          <5> QED
            BY <5>1, <1>12
        <4> QED
          BY <4>1, <4>2
      <3>2. next[y] = NoItem /\ prev[y] = NoItem
        BY <3>1 DEF ListIsQueue
      <3> QED
        BY <3>2, <2>2, <1>5
    <2> QED
      BY <2>1, <2>2
  <1>13. ListIsQueue'
    BY <1>9, <1>10, <1>11, <1>12 DEF ListIsQueue
  <1>14. m_curCount \in Nat /\ m_curCount > 0 /\ m_curCount' \in Nat
    BY <1>0, <1>2, <1>5
  <1> QED
    BY <1>1, <1>2, <1>5, <1>6, <1>7, <1>13, <1>14

-----------------------------------------------------------------------------
(* The signals.                                                            *)

INSTANCE FiniteSetTheorems

(* The threads are finitely many, so the woken ones can be counted.        *)
LEMMA WokenCount ==
    ASSUME NEW S, IsFiniteSet(S), NEW W, W \subseteq S
    PROVE  /\ Cardinality(W) \in Nat
           /\ \A t \in S : t \notin W => Cardinality(W \cup {t}) = Cardinality(W) + 1
           /\ \A t \in W : Cardinality(W \ {t}) = Cardinality(W) - 1
           /\ \A t : Cardinality(W \cup {t}) \in Nat /\ Cardinality(W \ {t}) \in Nat
  <1>1. IsFiniteSet(W)
    BY FS_Subset
  <1>2. Cardinality(W) \in Nat
    BY <1>1, FS_CardinalityType
  <1>3. \A t : IsFiniteSet(W \cup {t}) /\ IsFiniteSet(W \ {t})
    BY <1>1, FS_AddElement, FS_RemoveElement
  <1>4. \A t : Cardinality(W \cup {t}) \in Nat /\ Cardinality(W \ {t}) \in Nat
    BY <1>3, FS_CardinalityType, Zenon
  <1>5. \A t \in S : t \notin W => Cardinality(W \cup {t}) = Cardinality(W) + 1
    BY <1>1, FS_AddElement
  <1>6. \A t \in W : Cardinality(W \ {t}) = Cardinality(W) - 1
    BY <1>1, FS_RemoveElement
  <1> QED
    BY <1>2, <1>4, <1>5, <1>6, Zenon

(* What enqueueTailInternal does with a block that is not in the queue:    *)
(* the list stays right and a block that is added has its signal.          *)
LEMMA EnqueueInternalStep ==
    ASSUME IInv, NEW x \in Item, \A k \in 1..Len(q) : q[k] # x,
           enqueueTailInternal(x)
    PROVE  /\ ListTypeOK' /\ ListIsQueue'
           /\ waitC' \subseteq Consumer /\ wokenC' \subseteq Consumer
           /\ waitC' \cap wokenC' = {}
           /\ NoLostDequeueSignal'
           /\ m_curCount' = m_curCount + 1
           /\ m_curCount \in Nat
           /\ \A y \in Item :
                (\A k \in 1..Len(q) : q[k] # y) /\ y # x
                  => \A k \in 1..Len(q') : q'[k] # y
  <1>0. /\ ListTypeOK /\ ListIsQueue /\ m_curCount \in Nat
        /\ waitC \subseteq Consumer /\ wokenC \subseteq Consumer /\ waitC \cap wokenC = {}
        /\ NoLostDequeueSignal
    BY DEF IInv, TypeOK, ListTypeOK, ThreadTypeOK, WaitSets
  <1>n. NoItem \notin Item /\ IsFiniteSet(Consumer)
    BY QueueAssumption
  <1>1. LinkAtTail(x) /\ signalDequeueWaiters
    BY DEF enqueueTailInternal
  <1>2. /\ ListTypeOK' /\ ListIsQueue'
        /\ m_curCount' = m_curCount + 1
        /\ \A y \in Item : (\A k \in 1..Len(q) : q[k] # y) /\ y # x
                             => \A k \in 1..Len(q') : q'[k] # y
    BY <1>1, <1>0, LinkStep
  <1>4. CASE waitC = {}
    <2>1. waitC' = {} /\ wokenC' = wokenC
      BY <1>1, <1>4 DEF signalDequeueWaiters
    <2> QED
      BY <2>1, <1>1, <1>2, <1>0 DEF NoLostDequeueSignal
  <1>5. CASE waitC # {}
    <2>1. PICK c \in waitC : waitC' = waitC \ {c} /\ wokenC' = wokenC \cup {c}
      BY <1>1, <1>5 DEF signalDequeueWaiters
    <2>2. Cardinality(wokenC) >= m_curCount
      BY <1>5, <1>0 DEF NoLostDequeueSignal
    <2>3. Cardinality(wokenC') = Cardinality(wokenC) + 1 /\ Cardinality(wokenC) \in Nat
      BY <2>1, <1>0, <1>n, WokenCount
    <2>4. Cardinality(wokenC') >= m_curCount'
      BY <2>2, <2>3, <1>2, <1>0
    <2>5. waitC' \subseteq Consumer /\ wokenC' \subseteq Consumer /\ waitC' \cap wokenC' = {}
      BY <2>1, <1>0
    <2> QED
      BY <2>4, <2>5, <1>1, <1>2, <1>0 DEF NoLostDequeueSignal
  <1> QED
    BY <1>4, <1>5

(* What dequeueHeadInternal does when the queue is not empty: the list     *)
(* stays right, and if the last block, or with the default marks any       *)
(* block, is taken a waiting producer is woken.                            *)
LEMMA DequeueInternalStep ==
    ASSUME IInv, NEW c \in Consumer, ~isEmptyInternal, dequeueHeadInternal(c)
    PROVE  /\ ListTypeOK' /\ ListIsQueue'
           /\ got' \in [Consumer -> Item \cup {NoItem}]
           /\ waitP' \subseteq Producer /\ wokenP' \subseteq Producer
           /\ waitP' \cap wokenP' = {}
           /\ waitP' \cup wokenP' = waitP \cup wokenP
           /\ m_curCount \in Nat /\ m_curCount' = m_curCount - 1
           /\ NoLostEnqueueSignal' /\ EveryPlaceSignalled'
           /\ \A y : (\A k \in 1..Len(q) : q[k] # y)
                         => \A k \in 1..Len(q') : q'[k] # y
  <1>0. /\ ListTypeOK /\ ListIsQueue
        /\ waitP \subseteq Producer /\ wokenP \subseteq Producer /\ waitP \cap wokenP = {}
        /\ got \in [Consumer -> Item \cup {NoItem}]
        /\ NoLostEnqueueSignal /\ EveryPlaceSignalled /\ m_curCount <= m_highWaterMark
    BY DEF IInv, TypeOK, ThreadTypeOK, WaitSets, WithinHighWaterMark
  <1>n. /\ IsFiniteSet(Producer) /\ m_lowWaterMark \in Nat
        /\ m_highWaterMark \in Nat
    BY QueueAssumption
  <1>1. /\ ListTypeOK' /\ ListIsQueue'
        /\ m_curCount' = m_curCount - 1 /\ m_curCount \in Nat /\ m_curCount' \in Nat
        /\ m_curCount > 0
        /\ m_head \in Item
        /\ \A y : (\A k \in 1..Len(q) : q[k] # y)
                      => \A k \in 1..Len(q') : q'[k] # y
    BY <1>0, UnlinkStep DEF dequeueHeadInternal, isEmptyInternal
  <1>2. got' \in [Consumer -> Item \cup {NoItem}]
    BY <1>0, <1>1 DEF dequeueHeadInternal
  <1>3. CASE waitP' = waitP /\ wokenP' = wokenP /\ m_curCount - 1 > m_lowWaterMark
    <2>1. NoLostEnqueueSignal' /\ EveryPlaceSignalled'
      BY <1>3, <1>1, <1>0, <1>n DEF NoLostEnqueueSignal, EveryPlaceSignalled
    <2> QED
      BY <2>1, <1>0, <1>1, <1>2, <1>3
  <1>4. CASE waitP' = waitP /\ wokenP' = wokenP /\ waitP = {}
    BY <1>0, <1>1, <1>2, <1>4 DEF NoLostEnqueueSignal, EveryPlaceSignalled
  <1>5. CASE \E p \in waitP : waitP' = waitP \ {p} /\ wokenP' = wokenP \cup {p}
    <2>1. PICK p \in waitP : waitP' = waitP \ {p} /\ wokenP' = wokenP \cup {p}
      BY <1>5
    <2>2. Cardinality(wokenP') = Cardinality(wokenP) + 1 /\ Cardinality(wokenP) \in Nat
      BY <2>1, <1>0, <1>n, WokenCount
    <2>3. m_curCount + Cardinality(wokenP) = m_curCount' + Cardinality(wokenP')
      BY <2>2, <1>1
    <2>4. EveryPlaceSignalled'
      BY <2>1, <2>3, <1>0 DEF EveryPlaceSignalled
    <2>5. NoLostEnqueueSignal'
      BY <2>1 DEF NoLostEnqueueSignal
    <2>6. /\ waitP' \subseteq Producer /\ wokenP' \subseteq Producer
          /\ waitP' \cap wokenP' = {} /\ waitP' \cup wokenP' = waitP \cup wokenP
      BY <2>1, <1>0
    <2> QED
      BY <2>4, <2>5, <2>6, <1>1, <1>2
  <1>6. m_curCount - 1 > m_lowWaterMark \/ m_curCount - 1 <= m_lowWaterMark
    BY <1>1, <1>n
  <1> QED
    BY <1>3, <1>4, <1>5, <1>6, Zenon DEF dequeueHeadInternal, signalEnqueueWaiters

-----------------------------------------------------------------------------
(* The actions.                                                            *)

(* A call of enqueueTail, and the return of a woken producer to its loop,  *)
(* keep the invariant.                                                     *)
LEMMA EnqueueStep ==
    ASSUME IInv, NEW p \in Producer,
           (\E x \in Item : enqueueTail(p, x)) \/ enqueueResume(p)
    PROVE  IInv'
  <1>0. /\ ListTypeOK /\ ListIsQueue /\ WithinHighWaterMark
        /\ waitP \subseteq Producer /\ wokenP \subseteq Producer /\ waitP \cap wokenP = {}
        /\ waitC \subseteq Consumer /\ wokenC \subseteq Consumer /\ waitC \cap wokenC = {}
        /\ arg \in [Producer -> Item \cup {NoItem}]
        /\ got \in [Consumer -> Item \cup {NoItem}]
        /\ PendingItemsOwned
        /\ NoLostDequeueSignal /\ NoLostEnqueueSignal /\ EveryPlaceSignalled
        /\ m_curCount \in Nat
    BY DEF IInv, TypeOK, ListTypeOK, ThreadTypeOK, WaitSets
  <1>n. /\ NoItem \notin Item
        /\ m_highWaterMark \in Nat /\ m_highWaterMark > 0 /\ IsFiniteSet(Producer)
    BY QueueAssumption
  <1>q. \A k \in 1..Len(q) : q[k] \in Item
    BY <1>0 DEF ListTypeOK
  <1>w. Cardinality(wokenP) \in Nat /\ Cardinality(wokenP \ {p}) \in Nat
    BY <1>0, <1>n, WokenCount
  <1>1. ASSUME NEW x \in Item, enqueueTail(p, x), ~isFullInternal
        PROVE  IInv'
    <2>0. /\ p \notin waitP \cup wokenP /\ x \in FreeItems
          /\ enqueueTailInternal(x) /\ m_curCount < m_highWaterMark
          /\ waitP' = waitP /\ wokenP' = wokenP /\ arg' = arg /\ got' = got
      BY <1>1, <1>0, <1>n DEF enqueueTail, isFullInternal
    <2>1. x \in Item /\ (\A k \in 1..Len(q) : q[k] # x)
          /\ \A r \in waitP \cup wokenP : arg[r] # x
      BY <2>0, <1>n, <1>q DEF FreeItems
    <2>2. /\ ListTypeOK' /\ ListIsQueue'
          /\ waitC' \subseteq Consumer /\ wokenC' \subseteq Consumer
          /\ waitC' \cap wokenC' = {} /\ NoLostDequeueSignal'
          /\ m_curCount' = m_curCount + 1
          /\ \A y \in Item :
               (\A k \in 1..Len(q) : q[k] # y) /\ y # x
                 => \A k \in 1..Len(q') : q'[k] # y
      BY <2>0, <2>1, EnqueueInternalStep
    <2>3. TypeOK' /\ WaitSets'
      BY <2>0, <2>2, <1>0 DEF TypeOK, ThreadTypeOK, WaitSets
    <2>4. PendingItemsOwned'
      BY <2>0, <2>1, <2>2, <1>0, <1>n, SMTT(30) DEF PendingItemsOwned
    <2>5. WithinHighWaterMark' /\ NoLostEnqueueSignal' /\ EveryPlaceSignalled'
      BY <2>0, <2>2, <1>0, <1>n, <1>w, SMTT(30)
         DEF WithinHighWaterMark, NoLostEnqueueSignal, EveryPlaceSignalled
    <2> QED
      BY <2>2, <2>3, <2>4, <2>5 DEF IInv
  <1>2. ASSUME NEW x \in Item, enqueueTail(p, x), isFullInternal
        PROVE  IInv'
    <2>0. /\ p \notin waitP \cup wokenP /\ x \in FreeItems
          /\ m_curCount >= m_highWaterMark
          /\ waitP' = waitP \cup {p} /\ wokenP' = wokenP
          /\ arg' = [arg EXCEPT ![p] = x]
          /\ UNCHANGED <<listVars, waitC, wokenC, got>>
      BY <1>2 DEF enqueueTail, isFullInternal
    <2>1. (\A k \in 1..Len(q) : q[k] # x)
          /\ \A r \in waitP \cup wokenP : arg[r] # x
      BY <2>0, <1>n, <1>q DEF FreeItems
    <2>2. ListTypeOK' /\ ListIsQueue'
      BY <2>0, <1>0 DEF listVars, ListTypeOK, ListIsQueue
    <2>3. TypeOK' /\ WaitSets'
      BY <2>0, <2>2, <1>0, <1>n DEF TypeOK, ThreadTypeOK, WaitSets, listVars
    <2>4. /\ \A r \in waitP \cup wokenP : arg'[r] = arg[r] /\ r # p
          /\ arg'[p] = x /\ q' = q
      BY <2>0, <1>0 DEF listVars
    <2>5. PendingItemsOwned'
      BY <2>0, <2>1, <2>4, <1>0 DEF PendingItemsOwned
    <2>6. WithinHighWaterMark' /\ NoLostDequeueSignal'
      BY <2>0, <1>0 DEF WithinHighWaterMark, NoLostDequeueSignal, listVars
    <2>7. NoLostEnqueueSignal' /\ EveryPlaceSignalled'
      BY <2>0, <1>0, <1>n, <1>w DEF NoLostEnqueueSignal, EveryPlaceSignalled, listVars
    <2> QED
      BY <2>2, <2>3, <2>5, <2>6, <2>7 DEF IInv
  <1>3. ASSUME enqueueResume(p), ~isFullInternal
        PROVE  IInv'
    <2>0. /\ p \in wokenP /\ wokenP' = wokenP \ {p} /\ waitP' = waitP
          /\ enqueueTailInternal(arg[p]) /\ m_curCount < m_highWaterMark
          /\ arg' = arg /\ got' = got
      BY <1>3, <1>0, <1>n DEF enqueueResume, isFullInternal
    <2>1. /\ arg[p] \in Item
          /\ \A k \in 1..Len(q) : q[k] # arg[p]
          /\ \A r \in (waitP \cup wokenP) \ {p} : arg[r] # arg[p]
      BY <2>0, <1>0, <1>n DEF PendingItemsOwned
    <2>2. /\ ListTypeOK' /\ ListIsQueue'
          /\ waitC' \subseteq Consumer /\ wokenC' \subseteq Consumer
          /\ waitC' \cap wokenC' = {} /\ NoLostDequeueSignal'
          /\ m_curCount' = m_curCount + 1
          /\ \A y \in Item :
               (\A k \in 1..Len(q) : q[k] # y) /\ y # arg[p]
                 => \A k \in 1..Len(q') : q'[k] # y
      BY <2>0, <2>1, EnqueueInternalStep
    <2>3. TypeOK' /\ WaitSets'
      BY <2>0, <2>2, <1>0 DEF TypeOK, ThreadTypeOK, WaitSets
    <2>4. PendingItemsOwned'
      BY <2>0, <2>1, <2>2, <1>0, <1>n DEF PendingItemsOwned
    <2>5. WithinHighWaterMark'
      BY <2>0, <2>2, <1>0, <1>n DEF WithinHighWaterMark
    <2>6. m_curCount' = m_curCount + 1
      BY <2>1, <2>2
    <2>7. Cardinality(wokenP \ {p}) = Cardinality(wokenP) - 1
      BY <2>0, <1>0, <1>n, WokenCount
    <2>8. NoLostEnqueueSignal'
      BY <2>6, <1>0 DEF NoLostEnqueueSignal
    <2>9. m_curCount' + Cardinality(wokenP')
                              = m_curCount + Cardinality(wokenP)
      BY <2>0, <2>6, <2>7, <1>0, <1>w
    <2>10. EveryPlaceSignalled'
      BY <2>0, <2>9, <1>0 DEF EveryPlaceSignalled
    <2> QED
      BY <2>2, <2>3, <2>4, <2>5, <2>8, <2>10 DEF IInv
  <1>4. ASSUME enqueueResume(p), isFullInternal
        PROVE  IInv'
    <2>0. /\ p \in wokenP /\ wokenP' = wokenP \ {p} /\ waitP' = waitP \cup {p}
          /\ m_curCount >= m_highWaterMark
          /\ UNCHANGED <<listVars, waitC, wokenC, arg, got>>
      BY <1>4 DEF enqueueResume, isFullInternal
    <2>1. ListTypeOK' /\ ListIsQueue'
      BY <2>0, <1>0 DEF listVars, ListTypeOK, ListIsQueue
    <2>2. TypeOK' /\ WaitSets'
      BY <2>0, <2>1, <1>0 DEF TypeOK, ThreadTypeOK, WaitSets
    <2>3. PendingItemsOwned'
      BY <2>0, <1>0 DEF PendingItemsOwned, listVars
    <2>4. WithinHighWaterMark' /\ NoLostDequeueSignal'
      BY <2>0, <1>0 DEF WithinHighWaterMark, NoLostDequeueSignal, listVars
    <2>5. NoLostEnqueueSignal' /\ EveryPlaceSignalled'
      BY <2>0, <1>0, <1>n, <1>w DEF NoLostEnqueueSignal, EveryPlaceSignalled, listVars
    <2> QED
      BY <2>1, <2>2, <2>3, <2>4, <2>5 DEF IInv
  <1> QED
    BY <1>1, <1>2, <1>3, <1>4

(* A producer's wait that ends without a signal keeps the invariant: it    *)
(* had no signal to pass on.                                               *)
LEMMA EnqueueWaitEndsStep ==
    ASSUME IInv, NEW p \in Producer, enqueueTimeout(p) \/ enqueueSpuriousWakeup(p)
    PROVE  IInv'
  <1>0. /\ ListTypeOK /\ ListIsQueue /\ ThreadTypeOK
        /\ waitP \subseteq Producer /\ wokenP \subseteq Producer /\ waitP \cap wokenP = {}
        /\ PendingItemsOwned /\ WithinHighWaterMark
        /\ NoLostDequeueSignal /\ NoLostEnqueueSignal /\ EveryPlaceSignalled
        /\ m_curCount \in Nat
    BY DEF IInv, TypeOK, ListTypeOK, ThreadTypeOK, WaitSets
  <1>1. /\ p \in waitP /\ waitP' = waitP \ {p}
        /\ wokenP' = wokenP \/ wokenP' = wokenP \cup {p}
        /\ UNCHANGED <<listVars, waitC, wokenC, arg, got>>
    BY DEF enqueueTimeout, enqueueSpuriousWakeup
  <1>2. IsFiniteSet(Producer) /\ m_highWaterMark \in Nat
    BY QueueAssumption
  <1>3. /\ Cardinality(wokenP) \in Nat /\ Cardinality(wokenP') \in Nat
        /\ Cardinality(wokenP') >= Cardinality(wokenP)
    <2>1. /\ Cardinality(wokenP) \in Nat
          /\ Cardinality(wokenP \cup {p}) = Cardinality(wokenP) + 1
      BY <1>0, <1>1, <1>2, WokenCount
    <2>2. \/ Cardinality(wokenP') = Cardinality(wokenP)
          \/ Cardinality(wokenP') = Cardinality(wokenP \cup {p})
      BY <1>1
    <2> QED
      BY <2>1, <2>2
  <1>4. ListTypeOK' /\ ListIsQueue'
    BY <1>0, <1>1 DEF listVars, ListTypeOK, ListIsQueue
  <1>5. TypeOK' /\ WaitSets'
    <2>1. waitP' \subseteq Producer /\ wokenP' \subseteq Producer
      BY <1>0, <1>1
    <2>2. waitC \cap wokenC = {}
      BY DEF IInv, WaitSets
    <2>3. waitP' \cap wokenP' = {} /\ waitC' = waitC /\ wokenC' = wokenC
          /\ arg' = arg /\ got' = got
      BY <1>0, <1>1
    <2> QED
      BY <2>1, <2>2, <2>3, <1>0, <1>4 DEF TypeOK, ThreadTypeOK, WaitSets
  <1>6. PendingItemsOwned'
    BY <1>0, <1>1 DEF PendingItemsOwned, listVars
  <1>7. WithinHighWaterMark' /\ NoLostDequeueSignal' /\ NoLostEnqueueSignal'
    BY <1>0, <1>1
       DEF WithinHighWaterMark, NoLostDequeueSignal, NoLostEnqueueSignal, listVars
  <1>8. m_curCount' + Cardinality(wokenP') >= m_curCount + Cardinality(wokenP)
    BY <1>0, <1>1, <1>3 DEF listVars
  <1>9. EveryPlaceSignalled'
    BY <1>0, <1>1, <1>2, <1>3, <1>8 DEF EveryPlaceSignalled, listVars
  <1> QED
    BY <1>4, <1>5, <1>6, <1>7, <1>9 DEF IInv

(* A call of dequeueHead, and the return of a woken consumer to its loop,  *)
(* keep the invariant.                                                     *)
LEMMA DequeueStep ==
    ASSUME IInv, NEW c \in Consumer, dequeueHead(c) \/ dequeueResume(c)
    PROVE  IInv'
  <1>0. /\ ListTypeOK /\ ListIsQueue /\ WithinHighWaterMark
        /\ waitP \subseteq Producer /\ wokenP \subseteq Producer /\ waitP \cap wokenP = {}
        /\ waitC \subseteq Consumer /\ wokenC \subseteq Consumer /\ waitC \cap wokenC = {}
        /\ arg \in [Producer -> Item \cup {NoItem}]
        /\ got \in [Consumer -> Item \cup {NoItem}]
        /\ PendingItemsOwned
        /\ NoLostDequeueSignal /\ NoLostEnqueueSignal /\ EveryPlaceSignalled
        /\ m_curCount \in Nat
    BY DEF IInv, TypeOK, ListTypeOK, ThreadTypeOK, WaitSets
  <1>n. m_highWaterMark \in Nat /\ IsFiniteSet(Consumer)
    BY QueueAssumption
  <1>1. CASE ~isEmptyInternal
    <2>1. dequeueHeadInternal(c) /\ arg' = arg /\ waitC' = waitC
      BY <1>1 DEF dequeueHead, dequeueResume
    <2>2. \/ wokenC' = wokenC
          \/ c \in wokenC /\ wokenC' = wokenC \ {c}
      BY <1>1 DEF dequeueHead, dequeueResume
    <2>3. /\ ListTypeOK' /\ ListIsQueue'
          /\ got' \in [Consumer -> Item \cup {NoItem}]
          /\ waitP' \subseteq Producer /\ wokenP' \subseteq Producer
          /\ waitP' \cap wokenP' = {}
          /\ waitP' \cup wokenP' = waitP \cup wokenP
          /\ m_curCount' = m_curCount - 1
          /\ NoLostEnqueueSignal' /\ EveryPlaceSignalled'
          /\ \A y : (\A k \in 1..Len(q) : q[k] # y)
                        => \A k \in 1..Len(q') : q'[k] # y
      BY <1>1, <2>1, DequeueInternalStep
    <2>4. TypeOK' /\ WaitSets'
      BY <2>1, <2>2, <2>3, <1>0 DEF TypeOK, ThreadTypeOK, WaitSets
    <2>5. PendingItemsOwned'
      BY <2>1, <2>3, <1>0, Zenon DEF PendingItemsOwned
    <2>6. WithinHighWaterMark'
      <3>1. m_curCount' = m_curCount - 1 /\ m_curCount <= m_highWaterMark
        BY <2>3, <1>0 DEF WithinHighWaterMark
      <3>2. m_curCount \in Nat /\ m_highWaterMark \in Nat
        BY <1>0, <1>n
      <3> QED
        BY ONLY <3>1, <3>2 DEF WithinHighWaterMark
    <2>7. NoLostDequeueSignal'
      <3>1. Cardinality(wokenC) \in Nat
            /\ (c \in wokenC => Cardinality(wokenC \ {c}) = Cardinality(wokenC) - 1)
        BY <1>0, <1>n, WokenCount
      <3>2. CASE wokenC' = wokenC
        BY <3>1, <3>2, <2>1, <2>3, <1>0 DEF NoLostDequeueSignal
      <3>3. CASE c \in wokenC /\ wokenC' = wokenC \ {c}
        <4>1. Cardinality(wokenC') = Cardinality(wokenC) - 1
          BY <3>1, <3>3
        <4> QED
          BY <3>1, <4>1, <2>1, <2>3, <1>0 DEF NoLostDequeueSignal
      <3> QED
        BY <2>2, <3>2, <3>3
    <2> QED
      BY <2>3, <2>4, <2>5, <2>6, <2>7 DEF IInv
  <1>2. CASE isEmptyInternal
    <2>1. /\ waitC' = waitC \cup {c} /\ wokenC' \subseteq wokenC /\ c \notin wokenC'
          /\ UNCHANGED <<listVars, waitP, wokenP, arg, got>>
      BY <1>2 DEF dequeueHead, dequeueResume
    <2>2. m_curCount = 0
      BY <1>2, <1>0, QueueAssumption DEF isEmptyInternal, ListIsQueue, ListTypeOK
    <2>3. ListTypeOK' /\ ListIsQueue'
      BY <2>1, <1>0 DEF listVars, ListTypeOK, ListIsQueue
    <2>4. waitC' \subseteq Consumer /\ wokenC' \subseteq Consumer /\ waitC' \cap wokenC' = {}
      BY <2>1, <1>0
    <2>5. TypeOK' /\ WaitSets'
      BY <2>1, <2>3, <2>4, <1>0 DEF TypeOK, ThreadTypeOK, WaitSets
    <2>6. PendingItemsOwned'
      BY <2>1, <1>0 DEF PendingItemsOwned, listVars
    <2>7. Cardinality(wokenC') \in Nat
      BY <2>4, <1>n, WokenCount
    <2>8. NoLostDequeueSignal'
      BY <2>1, <2>2, <2>7 DEF NoLostDequeueSignal, listVars
    <2>9. WithinHighWaterMark' /\ NoLostEnqueueSignal' /\ EveryPlaceSignalled'
      BY <2>1, <1>0
         DEF WithinHighWaterMark, NoLostEnqueueSignal, EveryPlaceSignalled, listVars
    <2> QED
      BY <2>3, <2>5, <2>6, <2>8, <2>9 DEF IInv
  <1> QED
    BY <1>1, <1>2

(* A consumer's wait that ends without a signal keeps the invariant.       *)
LEMMA DequeueWaitEndsStep ==
    ASSUME IInv, NEW c \in Consumer, dequeueTimeout(c) \/ dequeueSpuriousWakeup(c)
    PROVE  IInv'
  <1>0. /\ ListTypeOK /\ ListIsQueue /\ ThreadTypeOK
        /\ waitC \subseteq Consumer /\ wokenC \subseteq Consumer /\ waitC \cap wokenC = {}
        /\ waitP \cap wokenP = {}
        /\ PendingItemsOwned /\ WithinHighWaterMark
        /\ NoLostDequeueSignal /\ NoLostEnqueueSignal /\ EveryPlaceSignalled
        /\ m_curCount \in Nat
    BY DEF IInv, TypeOK, ListTypeOK, ThreadTypeOK, WaitSets
  <1>1. /\ c \in waitC /\ waitC' = waitC \ {c}
        /\ wokenC' = wokenC \/ wokenC' = wokenC \cup {c}
        /\ UNCHANGED <<listVars, waitP, wokenP, arg, got>>
    BY DEF dequeueTimeout, dequeueSpuriousWakeup
  <1>2. /\ Cardinality(wokenC) \in Nat
        /\ Cardinality(wokenC \cup {c}) = Cardinality(wokenC) + 1
    BY <1>0, <1>1, QueueAssumption, WokenCount
  <1>3. \/ Cardinality(wokenC') = Cardinality(wokenC)
        \/ Cardinality(wokenC') = Cardinality(wokenC \cup {c})
    BY <1>1
  <1>4. ListTypeOK' /\ ListIsQueue'
    BY <1>0, <1>1 DEF listVars, ListTypeOK, ListIsQueue
  <1>5. TypeOK' /\ WaitSets'
    <2>1. waitC' \subseteq Consumer /\ wokenC' \subseteq Consumer /\ waitC' \cap wokenC' = {}
      BY <1>0, <1>1
    <2> QED
      BY <2>1, <1>0, <1>1, <1>4 DEF TypeOK, ThreadTypeOK, WaitSets
  <1>6. PendingItemsOwned'
    BY <1>0, <1>1 DEF PendingItemsOwned, listVars
  <1>7. WithinHighWaterMark' /\ NoLostEnqueueSignal' /\ EveryPlaceSignalled'
    BY <1>0, <1>1
       DEF WithinHighWaterMark, NoLostEnqueueSignal, EveryPlaceSignalled, listVars
  <1>8. NoLostDequeueSignal'
    BY <1>0, <1>1, <1>2, <1>3 DEF NoLostDequeueSignal, listVars
  <1> QED
    BY <1>4, <1>5, <1>6, <1>7, <1>8 DEF IInv

(* Every step keeps the inductive invariant.                               *)
LEMMA InvStep == IInv /\ [Next]_vars => IInv'
  <1> SUFFICES ASSUME IInv, [Next]_vars PROVE IInv'
    OBVIOUS
  <1>1. ASSUME NEW p \in Producer, ProducerStep(p) PROVE IInv'
    BY <1>1, EnqueueStep, EnqueueWaitEndsStep DEF ProducerStep
  <1>2. ASSUME NEW c \in Consumer, ConsumerStep(c) PROVE IInv'
    BY <1>2, DequeueStep, DequeueWaitEndsStep DEF ConsumerStep
  <1>3. CASE UNCHANGED vars
    <2>1. UNCHANGED <<m_head, m_tail, m_curCount, next, prev, q,
                      waitP, wokenP, waitC, wokenC, arg, got>>
      BY <1>3 DEF vars, listVars
    <2>2. TypeOK' /\ WaitSets' /\ PendingItemsOwned' /\ ListIsQueue'
      BY <2>1, SMTT(30)
         DEF IInv, TypeOK, ListTypeOK, ThreadTypeOK, WaitSets,
             PendingItemsOwned, ListIsQueue
    <2>3. /\ WithinHighWaterMark' /\ NoLostDequeueSignal'
          /\ NoLostEnqueueSignal' /\ EveryPlaceSignalled'
      BY <2>1 DEF IInv, WithinHighWaterMark, NoLostDequeueSignal,
                  NoLostEnqueueSignal, EveryPlaceSignalled
    <2> QED
      BY <2>2, <2>3 DEF IInv
  <1> QED
    BY <1>1, <1>2, <1>3 DEF Next

-----------------------------------------------------------------------------
(* The theorems.                                                           *)

(* The inductive invariant of the message queue.                           *)
THEOREM QueueInvariant == Spec => []IInv
  BY InvInit, InvStep, PTL DEF Spec

(* The pointers, the links and the sets of threads keep their types.       *)
THEOREM TypeCorrect == Spec => []TypeOK
  <1>1. IInv => TypeOK
    BY DEF IInv
  <1> QED
    BY <1>1, QueueInvariant, PTL

(* The linked list of enqueueTailInternal and dequeueHeadInternal is the   *)
(* queue, both ways and with its counter, whatever threads do.             *)
THEOREM ListIsQueueHolds == Spec => []ListIsQueue
  <1>1. IInv => ListIsQueue
    BY DEF IInv
  <1> QED
    BY <1>1, QueueInvariant, PTL

(* The list holds at most the high water mark: waitNotFullCond checks      *)
(* again when it is woken.                                                 *)
THEOREM WithinHighWaterMarkHolds == Spec => []WithinHighWaterMark
  <1>1. IInv => WithinHighWaterMark
    BY DEF IInv
  <1> QED
    BY <1>1, QueueInvariant, PTL

(* signalDequeueWaiters loses no wakeup.                                   *)
THEOREM NoLostDequeueSignalHolds == Spec => []NoLostDequeueSignal
  <1>1. IInv => NoLostDequeueSignal
    BY DEF IInv
  <1> QED
    BY <1>1, QueueInvariant, PTL

(* Whatever the water marks, a producer that waits while nobody is woken   *)
(* has blocks in front of it, whose dequeue signals.                       *)
THEOREM NoLostEnqueueSignalHolds == Spec => []NoLostEnqueueSignal
  <1>1. IInv => NoLostEnqueueSignal
    BY DEF IInv
  <1> QED
    BY <1>1, QueueInvariant, PTL

(* With a low water mark of at least the high one less one, as by default, *)
(* every free place has a signal to a producer.                            *)
THEOREM EveryPlaceSignalledHolds == Spec => []EveryPlaceSignalled
  <1>1. IInv => EveryPlaceSignalled
    BY DEF IInv
  <1> QED
    BY <1>1, QueueInvariant, PTL

(* Whatever the water marks, producers and consumers never all wait.       *)
THEOREM NoMutualWaitHolds == Spec => []NoMutualWait
  <1>1. IInv => NoMutualWait
    <2> SUFFICES ASSUME IInv, waitP # {}, wokenP = {},
                        waitC # {}, wokenC = {}
                 PROVE  FALSE
      BY DEF NoMutualWait
    <2>1. m_curCount > 0
      BY DEF IInv, NoLostEnqueueSignal
    <2>2. Cardinality(wokenC) >= m_curCount
      BY DEF IInv, NoLostDequeueSignal
    <2>3. Cardinality(wokenC) = 0
      BY FS_EmptySet
    <2>4. m_curCount \in Nat
      BY DEF IInv, TypeOK, ListTypeOK
    <2> QED
      BY <2>1, <2>2, <2>3, <2>4
  <1> QED
    BY <1>1, QueueInvariant, PTL

(* A step of the code is a Put, a Take or no step of the FIFO queue.       *)
LEMMA FifoStep == IInv /\ [Next]_vars => [Fifo!Next]_<<q, got>>
  <1> SUFFICES ASSUME IInv, [Next]_vars PROVE [Fifo!Next]_<<q, got>>
    OBVIOUS
  <1>0. /\ ListTypeOK /\ ListIsQueue /\ m_curCount = Len(q) /\ m_curCount \in Nat
        /\ PendingItemsOwned
        /\ NoItem \notin Item
        /\ m_highWaterMark \in Nat
    BY QueueAssumption DEF IInv, TypeOK, ListTypeOK, ListIsQueue
  <1>1. ASSUME NEW x \in Item, enqueueTailInternal(x), ~isFullInternal,
               \A k \in 1..Len(q) : q[k] # x, got' = got
        PROVE  [Fifo!Next]_<<q, got>>
    <2>1. q' = Append(q, x)
      BY <1>1 DEF enqueueTailInternal, LinkAtTail
    <2>2. Len(q) < m_highWaterMark
      BY <1>0, <1>1 DEF isFullInternal
    <2>3. Fifo!Put(x)
      BY <1>1, <2>1, <2>2 DEF Fifo!Put
    <2> QED
      BY <2>3 DEF Fifo!Next
  <1>2. ASSUME NEW c \in Consumer, dequeueHeadInternal(c), ~isEmptyInternal
        PROVE  [Fifo!Next]_<<q, got>>
    <2>1. UnlinkHead /\ got' = [got EXCEPT ![c] = m_head] /\ q' = Tail(q)
      BY <1>2 DEF dequeueHeadInternal, UnlinkHead
    <2>2. q # <<>> /\ m_head = Head(q)
      BY <2>1, <1>0, <1>2, UnlinkStep DEF isEmptyInternal
    <2>3. Fifo!Take(c)
      BY <2>1, <2>2 DEF Fifo!Take
    <2> QED
      BY <2>3 DEF Fifo!Next
  <1>3. ASSUME NEW p \in Producer, ProducerStep(p) PROVE [Fifo!Next]_<<q, got>>
    <2>1. ASSUME NEW x \in Item, enqueueTail(p, x)
          PROVE  [Fifo!Next]_<<q, got>>
      <3>1. \A k \in 1..Len(q) : q[k] # x
        BY <2>1, <1>0 DEF enqueueTail, FreeItems
      <3>2. \/ enqueueTailInternal(x) /\ ~isFullInternal /\ got' = got
            \/ q' = q /\ got' = got
        BY <2>1 DEF enqueueTail, listVars
      <3> QED
        BY <3>1, <3>2, <1>0, <1>1
    <2>2. ASSUME enqueueResume(p)
          PROVE  [Fifo!Next]_<<q, got>>
      <3>1. arg[p] \in Item /\ \A k \in 1..Len(q) : q[k] # arg[p]
        BY <2>2, <1>0 DEF enqueueResume, PendingItemsOwned
      <3>2. \/ enqueueTailInternal(arg[p]) /\ ~isFullInternal /\ got' = got
            \/ q' = q /\ got' = got
        BY <2>2 DEF enqueueResume, listVars
      <3> QED
        BY <3>1, <3>2, <1>1
    <2>3. CASE enqueueTimeout(p) \/ enqueueSpuriousWakeup(p)
      BY <2>3 DEF enqueueTimeout, enqueueSpuriousWakeup, listVars
    <2> QED
      BY <1>3, <2>1, <2>2, <2>3 DEF ProducerStep
  <1>4. ASSUME NEW c \in Consumer, ConsumerStep(c) PROVE [Fifo!Next]_<<q, got>>
    <2>1. CASE dequeueHead(c) \/ dequeueResume(c)
      <3>1. \/ dequeueHeadInternal(c) /\ ~isEmptyInternal
            \/ q' = q /\ got' = got
        BY <2>1 DEF dequeueHead, dequeueResume, listVars
      <3> QED
        BY <3>1, <1>2
    <2>2. CASE dequeueTimeout(c) \/ dequeueSpuriousWakeup(c)
      BY <2>2 DEF dequeueTimeout, dequeueSpuriousWakeup, listVars
    <2> QED
      BY <1>4, <2>1, <2>2 DEF ConsumerStep
  <1>5. CASE UNCHANGED vars
    BY <1>5 DEF vars, listVars
  <1> QED
    BY <1>3, <1>4, <1>5 DEF Next

(* The message queue implements the bounded FIFO queue.                    *)
THEOREM QueueIsFifo == Spec => IsFifo
  <1>1. Init => Fifo!Init
    BY DEF Init, Fifo!Init
  <1> QED
    BY <1>1, FifoStep, QueueInvariant, PTL DEF Spec, IsFifo, Fifo!Spec
=============================================================================
