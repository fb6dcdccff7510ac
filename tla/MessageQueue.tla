---------------------------- MODULE MessageQueue ----------------------------
(***************************************************************************)
(* The message queue of a Task (icc/MessageQueue.cpp), used by any number  *)
(* of producer and consumer threads: a doubly linked list of blocks, one   *)
(* mutex, and a condition variable each for "not full" and "not empty".    *)
(*                                                                         *)
(* A thread holds the mutex from its call to its return except while it    *)
(* waits, so a call that need not wait is one step; one that must is split *)
(* where it waits.  A signal wakes one waiting thread, any one, if there   *)
(* is any; the thread woken takes the mutex again some time later, after   *)
(* others may have had it.  A wait may also end without a signal, by a     *)
(* timeout or spuriously.                                                  *)
(***************************************************************************)
EXTENDS Naturals, Sequences, FiniteSets

CONSTANTS
    Producer, Consumer,
    Item,               \* MessageBlock objects
    NoItem,             \* the null MessageBlock pointer
    m_highWaterMark, m_lowWaterMark

ASSUME QueueAssumption ==
    /\ NoItem \notin Item
    /\ IsFiniteSet(Producer)
    /\ IsFiniteSet(Consumer)
    /\ m_highWaterMark \in Nat
    /\ m_highWaterMark > 0
    /\ m_lowWaterMark \in Nat

VARIABLES
    m_head, m_tail, m_curCount,
    next, prev,         \* the links of the blocks
    waitP, wokenP,      \* producers in m_notFullCond.wait; woken from it
    waitC, wokenC,      \* consumers in m_notEmptyCond.wait; woken from it
    arg,                \* producer -> the block of its call
    got,                \* consumer -> the block its last dequeue returned
    q                   \* the blocks in the queue, first to last (history)

listVars == <<m_head, m_tail, m_curCount, next, prev, q>>
vars == <<listVars, waitP, wokenP, waitC, wokenC, arg, got>>

Init ==
    /\ m_head = NoItem
    /\ m_tail = NoItem
    /\ m_curCount = 0
    /\ next = [x \in Item |-> NoItem]
    /\ prev = [x \in Item |-> NoItem]
    /\ q = <<>>
    /\ waitP = {} /\ wokenP = {}
    /\ waitC = {} /\ wokenC = {}
    /\ arg = [p \in Producer |-> NoItem]
    /\ got = [c \in Consumer |-> NoItem]

isFullInternal == m_curCount >= m_highWaterMark
isEmptyInternal == m_tail = NoItem

-----------------------------------------------------------------------------
(* The conditions.                                                         *)

signalEnqueueWaiters ==
    \/ waitP = {} /\ UNCHANGED <<waitP, wokenP>>
    \/ \E p \in waitP : waitP' = waitP \ {p} /\ wokenP' = wokenP \cup {p}

SignalOnlyWhenEmpty ==
    \/ (waitC = {} \/ m_curCount > 0) /\ UNCHANGED <<waitC, wokenC>>
    \/ \E c \in waitC : /\ m_curCount = 0
                        /\ waitC' = waitC \ {c} /\ wokenC' = wokenC \cup {c}

NobodySignalled == UNCHANGED <<waitC, wokenC>>

signalDequeueWaiters ==
    \/ waitC = {} /\ UNCHANGED <<waitC, wokenC>>
    \/ \E c \in waitC : waitC' = waitC \ {c} /\ wokenC' = wokenC \cup {c}

-----------------------------------------------------------------------------
(* enqueueTail.                                                            *)

LinkUncounted(x) ==
    /\ UNCHANGED m_curCount
    /\ m_tail' = x
    /\ IF m_tail = NoItem
         THEN m_head' = x /\ UNCHANGED <<next, prev>>
         ELSE /\ next' = [next EXCEPT ![m_tail] = x]
              /\ prev' = [prev EXCEPT ![x] = m_tail]
              /\ UNCHANGED m_head
    /\ q' = Append(q, x)

LinkAtTail(x) ==
    /\ m_curCount' = m_curCount + 1
    /\ m_tail' = x
    /\ IF m_tail = NoItem
         THEN m_head' = x /\ UNCHANGED <<next, prev>>
         ELSE /\ next' = [next EXCEPT ![m_tail] = x]
              /\ prev' = [prev EXCEPT ![x] = m_tail]
              /\ UNCHANGED m_head
    /\ q' = Append(q, x)

enqueueTailInternal(x) == LinkAtTail(x) /\ signalDequeueWaiters

(* A block is in one queue at a time: a caller enqueues one that is        *)
(* neither in the queue nor on its way into it, and never the null block.  *)
FreeItems == {x \in Item : /\ \A k \in 1..Len(q) : q[k] # x
                           /\ \A p \in waitP \cup wokenP : arg[p] # x}

enqueueTail(p, x) ==
    /\ p \notin waitP \cup wokenP
    /\ x \in FreeItems
    /\ \/ /\ ~isFullInternal
          /\ enqueueTailInternal(x)
          /\ UNCHANGED <<waitP, arg>>
       \/ /\ isFullInternal
          /\ waitP' = waitP \cup {p}
          /\ arg' = [arg EXCEPT ![p] = x]
          /\ UNCHANGED <<listVars, waitC, wokenC>>
    /\ UNCHANGED <<wokenP, got>>

ResumeUnchecked(p) ==
    /\ p \in wokenP
    /\ wokenP' = wokenP \ {p}
    /\ enqueueTailInternal(arg[p])
    /\ UNCHANGED <<waitP, arg, got>>

(* A woken producer goes round the loop of waitNotFullCond.                *)
enqueueResume(p) ==
    /\ p \in wokenP
    /\ wokenP' = wokenP \ {p}
    /\ \/ /\ ~isFullInternal
          /\ enqueueTailInternal(arg[p])
          /\ UNCHANGED waitP
       \/ /\ isFullInternal
          /\ waitP' = waitP \cup {p}
          /\ UNCHANGED <<listVars, waitC, wokenC>>
    /\ UNCHANGED <<arg, got>>

enqueueTimeout(p) ==
    /\ p \in waitP
    /\ waitP' = waitP \ {p}
    /\ UNCHANGED <<listVars, wokenP, waitC, wokenC, arg, got>>

enqueueSpuriousWakeup(p) ==
    /\ p \in waitP
    /\ waitP' = waitP \ {p}
    /\ wokenP' = wokenP \cup {p}
    /\ UNCHANGED <<listVars, waitC, wokenC, arg, got>>

-----------------------------------------------------------------------------
(* dequeueHead.                                                            *)

UnlinkKeepingNext ==
    LET rest == next[m_head] IN
    /\ m_head' = rest
    /\ m_tail' = IF rest = NoItem THEN NoItem ELSE m_tail
    /\ prev' = [x \in Item |-> IF x = m_head \/ x = rest THEN NoItem
                                                         ELSE prev[x]]
    /\ m_curCount' = m_curCount - 1
    /\ q' = Tail(q)
    /\ UNCHANGED next

UnlinkHead ==
    LET rest == next[m_head] IN
    /\ m_head' = rest
    /\ m_tail' = IF rest = NoItem THEN NoItem ELSE m_tail
    /\ prev' = [x \in Item |-> IF x = m_head \/ x = rest THEN NoItem
                                                         ELSE prev[x]]
    /\ next' = [next EXCEPT ![m_head] = NoItem]
    /\ m_curCount' = m_curCount - 1
    /\ q' = Tail(q)

DequeueSignalsFromFull(c) ==
    /\ got' = [got EXCEPT ![c] = m_head]
    /\ UnlinkHead
    /\ IF m_curCount = m_highWaterMark
         THEN signalEnqueueWaiters
         ELSE UNCHANGED <<waitP, wokenP>>

dequeueHeadInternal(c) ==
    /\ got' = [got EXCEPT ![c] = m_head]
    /\ UnlinkHead
    /\ IF m_curCount - 1 <= m_lowWaterMark
         THEN signalEnqueueWaiters
         ELSE UNCHANGED <<waitP, wokenP>>

dequeueHead(c) ==
    /\ c \notin waitC \cup wokenC
    /\ \/ /\ ~isEmptyInternal
          /\ dequeueHeadInternal(c)
          /\ UNCHANGED waitC
       \/ /\ isEmptyInternal
          /\ waitC' = waitC \cup {c}
          /\ UNCHANGED <<listVars, waitP, wokenP, got>>
    /\ UNCHANGED <<wokenC, arg>>

(* A woken consumer goes round the loop of waitNotEmptyCond.               *)
dequeueResume(c) ==
    /\ c \in wokenC
    /\ wokenC' = wokenC \ {c}
    /\ \/ /\ ~isEmptyInternal
          /\ dequeueHeadInternal(c)
          /\ UNCHANGED waitC
       \/ /\ isEmptyInternal
          /\ waitC' = waitC \cup {c}
          /\ UNCHANGED <<listVars, waitP, wokenP, got>>
    /\ UNCHANGED arg

dequeueTimeout(c) ==
    /\ c \in waitC
    /\ waitC' = waitC \ {c}
    /\ UNCHANGED <<listVars, waitP, wokenP, wokenC, arg, got>>

dequeueSpuriousWakeup(c) ==
    /\ c \in waitC
    /\ waitC' = waitC \ {c}
    /\ wokenC' = wokenC \cup {c}
    /\ UNCHANGED <<listVars, waitP, wokenP, arg, got>>

-----------------------------------------------------------------------------
ProducerStep(p) ==
    \/ \E x \in Item : enqueueTail(p, x)
    \/ enqueueResume(p)
    \/ enqueueTimeout(p)
    \/ enqueueSpuriousWakeup(p)

ConsumerStep(c) ==
    \/ dequeueHead(c)
    \/ dequeueResume(c)
    \/ dequeueTimeout(c)
    \/ dequeueSpuriousWakeup(c)

Next == \/ \E p \in Producer : ProducerStep(p)
        \/ \E c \in Consumer : ConsumerStep(c)

Spec == Init /\ [][Next]_vars

(* A consumer is the svc loop of a Task: it calls getq again after every   *)
(* return.  A woken thread gets the mutex some time.  Nothing is assumed   *)
(* of the producers that call.                                             *)
Fairness ==
    /\ \A c \in Consumer : WF_vars(dequeueHead(c) \/ dequeueResume(c))
    /\ \A p \in Producer : WF_vars(enqueueResume(p))

FairSpec == Spec /\ Fairness

-----------------------------------------------------------------------------
ListTypeOK ==
    /\ m_head \in Item \cup {NoItem}
    /\ m_tail \in Item \cup {NoItem}
    /\ m_curCount \in Nat
    /\ next \in [Item -> Item \cup {NoItem}]
    /\ prev \in [Item -> Item \cup {NoItem}]
    /\ q \in Seq(Item)

ThreadTypeOK ==
    /\ waitP \subseteq Producer
    /\ wokenP \subseteq Producer
    /\ waitC \subseteq Consumer
    /\ wokenC \subseteq Consumer
    /\ arg \in [Producer -> Item \cup {NoItem}]
    /\ got \in [Consumer -> Item \cup {NoItem}]

(* The types of the state: pointers to blocks, a counter that never goes   *)
(* below zero (it is a size_t), threads waiting or woken.                  *)
TypeOK == ListTypeOK /\ ThreadTypeOK

(* The list the code keeps is the queue of the calls so far: m_head and    *)
(* m_tail are its ends, next leads from each block to the one enqueued     *)
(* after it and prev back, both end in the null pointer, m_curCount is the *)
(* length, no block is in it twice, and a block outside it has no links    *)
(* left over (enqueueTailInternal relies on that: it resets none).         *)
ListIsQueue ==
    /\ m_curCount = Len(q)
    /\ m_head = IF Len(q) = 0 THEN NoItem ELSE q[1]
    /\ m_tail = IF Len(q) = 0 THEN NoItem ELSE q[Len(q)]
    /\ \A j, k \in 1..Len(q) : q[j] = q[k] => j = k
    /\ \A k \in 1..Len(q) :
          /\ next[q[k]] = IF k = Len(q) THEN NoItem ELSE q[k + 1]
          /\ prev[q[k]] = IF k = 1 THEN NoItem ELSE q[k - 1]
    /\ \A x \in Item : (\A k \in 1..Len(q) : q[k] # x)
                          => next[x] = NoItem /\ prev[x] = NoItem

(* The queue never holds more than the high water mark, although a         *)
(* producer that was woken finds others have enqueued before it.           *)
WithinHighWaterMark == m_curCount <= m_highWaterMark

(* No wakeup is lost on the consumers' side: enqueueTailInternal signals   *)
(* once per block, so while a consumer waits there are at least as many    *)
(* woken consumers on their way to the mutex as there are blocks.          *)
NoLostDequeueSignal == waitC # {} => Cardinality(wokenC) >= m_curCount

(* No wakeup is lost on the producers' side: dequeueHeadInternal signals   *)
(* only at or under the low water mark, but a waiting producer with nobody *)
(* woken always has blocks in the queue, whose dequeue will signal.        *)
NoLostEnqueueSignal == waitP # {} /\ wokenP = {} => m_curCount > 0

(* With marks at most one apart (the default ones are equal) every free    *)
(* place has its signal: blocks and woken producers fill the queue.        *)
EveryPlaceSignalled ==
    /\ m_lowWaterMark + 1 >= m_highWaterMark
    /\ waitP # {}
    => m_curCount + Cardinality(wokenP) >= m_highWaterMark

(* Producers and consumers never wait for each other: there is no state    *)
(* in which some producer and some consumer wait and nobody is woken.      *)
NoMutualWait == ~((waitP # {} /\ wokenP = {}) /\ (waitC # {} /\ wokenC = {}))

(* Blocks on their way into the queue belong to one producer each and are  *)
(* not in the queue.                                                       *)
PendingItemsOwned ==
    \A p \in waitP \cup wokenP :
        /\ arg[p] \in Item
        /\ \A k \in 1..Len(q) : q[k] # arg[p]
        /\ \A r \in waitP \cup wokenP : arg[p] = arg[r] => p = r

(* The threads in a wait are not among the woken.                          *)
WaitSets == waitP \cap wokenP = {} /\ waitC \cap wokenC = {}

(* The inductive invariant.                                                *)
IInv ==
    /\ TypeOK
    /\ WaitSets
    /\ PendingItemsOwned
    /\ ListIsQueue
    /\ WithinHighWaterMark
    /\ NoLostDequeueSignal
    /\ NoLostEnqueueSignal
    /\ EveryPlaceSignalled

(* The queue is a bounded FIFO queue: each call takes effect at one        *)
(* instant, blocks come out in the order in which they went in.            *)
Fifo == INSTANCE FifoQueue WITH queue <- q, Capacity <- m_highWaterMark

IsFifo == Fifo!Spec

(* Every block that is enqueued is dequeued.                               *)
EveryItemTaken ==
    \A x \in Item : (\E k \in 1..Len(q) : q[k] = x)
                       ~> (\A k \in 1..Len(q) : q[k] # x)

(* With the default marks a producer's wait does not last for ever without *)
(* a signal to one of the producers that wait.                             *)
WaitersAreSignalled == waitP # {} ~> wokenP # {} \/ waitP = {}
=============================================================================
