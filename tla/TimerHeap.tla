------------------------------ MODULE TimerHeap ------------------------------
(***************************************************************************)
(* The timers of ICC: the heap and its table of ids (icc/TimerHeap.cpp),   *)
(* dispatching (icc/TimerQueue.cpp) and the thread that drives it          *)
(* (icc/TimerQueueAdapter.cpp).                                            *)
(*                                                                         *)
(* mTimerIds maps a timer id to its slot in mHeap; -2 is a timer taken out *)
(* of the heap and not yet freed or put back ("in limbo"), every other     *)
(* negative number a free id.  All operations run under one recursive      *)
(* mutex, so other threads act while the dispatching thread waits, and     *)
(* handlers act from within their upcalls.                                 *)
(***************************************************************************)
EXTENDS Integers, FiniteSets

CONSTANTS
    EventHandler,   \* handlers for which timers are set
    InitialSize,    \* ACE_DEFAULT_TIMERS
    Delay,          \* delays with which timers are set
    Interval,       \* intervals with which timers are set, 0 for none
    MaxTimers,      \* bound on the timers set at one time
    MaxSize,        \* bound on mMaxSize above which no timer is set
    MaxTime         \* bound on the time

ASSUME TimerAssumption ==
    /\ InitialSize \in Nat /\ InitialSize >= 2
    /\ Delay \subseteq Nat /\ Interval \subseteq Nat
    /\ MaxTimers \in Nat /\ MaxSize \in Nat /\ MaxTime \in Nat

VARIABLES
    q,        \* the TimerHeap object; node maps timer ids to TimerNodes
    now,      \* gettimeofday()
    svc,      \* adapter thread: "waiting", "woken", "expiring" or "upcall"
    until,    \* time at which its wait ends; Never: no such time, or no wait
    cur,      \* the cur_time of the expire() under way, or None
    type,     \* the handler whose handleTimeout() runs, or None
    closing   \* the id whose cancellation upcall, handleClose(), runs; or None

svcVars == <<svc, until, cur, type>>
vars == <<q, now, svcVars, closing>>

None == -1
Never == -1
Limbo == -2

Constructed ==
    [mHeap |-> <<>>, mCurSize |-> 0, mCurLimbo |-> 0, mMaxSize |-> InitialSize,
     mTimerIds |-> [i \in 0..(InitialSize - 1) |-> -1],
     mTimerIdsCurr |-> 0, mTimerIdsMinFree |-> 0, node |-> <<>>]

Init ==
    /\ q = Constructed
    /\ now = 0
    /\ svc = "waiting"
    /\ until = Never
    /\ cur = None
    /\ type = None
    /\ closing = None

-----------------------------------------------------------------------------
(* The heap: slot 0 is the root.                                           *)

Parent(s) == IF s = 0 THEN 0 ELSE (s - 1) \div 2
LChild(s) == s + s + 1

Value(p, s) == p.node[p.mHeap[s]].timerValue

IsEmpty(p) == p.mCurSize = 0
EarliestTime(p) == Value(p, 0)

CopyHeapOnly(p, moved) ==
    [p EXCEPT !.mHeap = [s \in DOMAIN @ \cup DOMAIN moved |->
                           IF s \in DOMAIN moved THEN moved[s] ELSE @[s]]]

(* The calls of copy(): slot s gets the node with the id moved[s].         *)
copy(p, moved) ==
    [p EXCEPT !.mHeap = [s \in DOMAIN @ \cup DOMAIN moved |->
                           IF s \in DOMAIN moved THEN moved[s] ELSE @[s]],
              !.mTimerIds = [i \in DOMAIN @ |->
                 IF \E s \in DOMAIN moved : moved[s] = i
                   THEN CHOOSE s \in DOMAIN moved : moved[s] = i
                   ELSE @[i]]]

(* The slots a loop visits that begins at slot s and goes on from each     *)
(* slot x to next[x], until next[x] = x: the least such set.               *)
Visited(next, s) ==
    {x \in DOMAIN next : \A S \in SUBSET DOMAIN next :
       s \in S /\ (\A y \in S : next[y] \in S) => x \in S}

(* Every slot visited gets the node of the next one, the last one the node *)
(* with id i.                                                              *)
shift(p, i, next, s) ==
    copy(p, [x \in Visited(next, s) |-> IF next[x] = x THEN i ELSE p.mHeap[next[x]]])

(* The node with id i moves up from slot d as far as parents are later.    *)
reheapUp(p, i, d) ==
    shift(p, i, [s \in 0..d |-> IF s > 0 /\ p.node[i].timerValue < Value(p, Parent(s))
                                  THEN Parent(s) ELSE s], d)

SmallerChild(p, s) ==
    LET c == LChild(s)
    IN  IF c + 1 < p.mCurSize /\ Value(p, c + 1) < Value(p, c) THEN c + 1 ELSE c

(* The node with id i moves down from slot a as far as children are        *)
(* earlier, along the earlier child each time.                             *)
reheapDown(p, i, a) ==
    shift(p, i, [s \in 0..(p.mCurSize - 1) |->
                   IF /\ LChild(s) < p.mCurSize
                      /\ Value(p, SmallerChild(p, s)) < p.node[i].timerValue
                     THEN SmallerChild(p, s) ELSE s], a)

(* The steps of remove(): the last node leaves its slot, takes the slot of *)
(* the node removed, and the id of that node is marked in the end.         *)
WithoutLast(p) ==
    [p EXCEPT !.mCurSize = @ - 1,
              !.mHeap = [s \in 0..(p.mCurSize - 2) |-> @[s]]]

LastInto(p, slot) == copy(WithoutLast(p), [s \in {slot} |-> p.mHeap[p.mCurSize - 1]])

InLimbo(p, i) == [p EXCEPT !.mTimerIds[i] = Limbo, !.mCurLimbo = @ + 1]

RemoveDownOnly(p, slot) ==
    LET n == p.mCurSize - 1
        last == p.mHeap[n]
    IN  InLimbo(IF slot = n THEN WithoutLast(p)
                ELSE reheapDown(LastInto(p, slot), last, slot), p.mHeap[slot])

(* remove(): the last node moves down or up from the slot.                 *)
remove(p, slot) ==
    LET n == p.mCurSize - 1
        last == p.mHeap[n]
        filled == LastInto(p, slot)
    IN  InLimbo(IF slot = n THEN WithoutLast(p)
                ELSE IF Value(filled, slot) >= Value(filled, Parent(slot))
                       THEN reheapDown(filled, last, slot)
                       ELSE reheapUp(filled, last, slot), p.mHeap[slot])

(* growHeap(): twice the size; the new ids are free.                       *)
growHeap(p) ==
    LET size == 2 * p.mMaxSize
    IN  [p EXCEPT !.mTimerIds = [i \in 0..(size - 1) |->
                                   IF i < p.mMaxSize THEN @[i] ELSE -(i + 1)],
                  !.mMaxSize = size,
                  !.mTimerIdsMinFree = size]

GrowLate(p, i) ==
    LET room == IF p.mCurSize + p.mCurLimbo + 1 >= p.mMaxSize THEN growHeap(p) ELSE p
    IN  [reheapUp(room, i, room.mCurSize) EXCEPT !.mCurSize = @ + 1]

insert(p, i) ==
    LET room == IF p.mCurSize + p.mCurLimbo + 2 >= p.mMaxSize THEN growHeap(p) ELSE p
    IN  [reheapUp(room, i, room.mCurSize) EXCEPT !.mCurSize = @ + 1]

-----------------------------------------------------------------------------
(* Timer ids.                                                              *)

Free(p, i) == p.mTimerIds[i] < 0 /\ p.mTimerIds[i] # Limbo

(* popFreelist(): the next free id above the last one given out, or else   *)
(* the lowest one freed since.  id >= mMaxSize if there is none.           *)
Above(p) == {i \in (p.mTimerIdsCurr + 1)..(p.mMaxSize - 1) : Free(p, i)}

NextId(p) == (p.mTimerIdsCurr + 1) % p.mMaxSize

timerId(p) ==
    IF Above(p) = {} THEN p.mTimerIdsMinFree
    ELSE CHOOSE i \in Above(p) : \A j \in Above(p) : i <= j

popFreelist(p) ==
    [p EXCEPT !.mTimerIdsCurr = timerId(p),
              !.mTimerIdsMinFree = IF Above(p) = {} THEN p.mMaxSize ELSE @]

PushSizeOnly(p, i) ==
    [p EXCEPT !.mCurSize = IF p.mTimerIds[i] = Limbo THEN @ ELSE @ - 1,
              !.mTimerIds[i] = -1,
              !.mTimerIdsMinFree = IF i < @ /\ i <= p.mTimerIdsCurr THEN i ELSE @]

PushAboveOnly(p, i) ==
    [p EXCEPT !.mCurLimbo = IF p.mTimerIds[i] = Limbo THEN @ - 1 ELSE @,
              !.mCurSize = IF p.mTimerIds[i] = Limbo THEN @ ELSE @ - 1,
              !.mTimerIds[i] = -1,
              !.mTimerIdsMinFree = IF i < @ /\ i < p.mTimerIdsCurr THEN i ELSE @]

pushFreelist(p, i) ==
    [p EXCEPT !.mCurLimbo = IF p.mTimerIds[i] = Limbo THEN @ - 1 ELSE @,
              !.mCurSize = IF p.mTimerIds[i] = Limbo THEN @ ELSE @ - 1,
              !.mTimerIds[i] = -1,
              !.mTimerIdsMinFree = IF i < @ /\ i <= p.mTimerIdsCurr THEN i ELSE @]

freeNode(p, i) ==
    [pushFreelist(p, i) EXCEPT !.node = [j \in DOMAIN @ \ {i} |-> @[j]]]

scheduleI(p, n) ==
    LET i == timerId(p)
    IN  insert([popFreelist(p) EXCEPT !.node = [j \in DOMAIN @ \cup {i} |->
                                            IF j = i THEN n ELSE @[j]]], i)

reschedule(p, i) ==
    insert([p EXCEPT !.mCurLimbo = IF p.mTimerIds[i] = Limbo THEN @ - 1 ELSE @], i)

-----------------------------------------------------------------------------
(* The operations of other threads, and of handlers in their upcalls.      *)

(* The mutex is free, or held by the thread that calls.                    *)
MayCall == svc # "expiring"

Active == {i \in DOMAIN q.mTimerIds : q.mTimerIds[i] >= 0}

(* The adapter signals its condition after every schedule and cancel.      *)
Signal ==
    /\ svc' = IF svc = "waiting" THEN "woken" ELSE svc
    /\ UNCHANGED <<until, cur, type>>

NoSignal == UNCHANGED svcVars

WithinBounds(d) ==
    /\ Cardinality(DOMAIN q.node) < MaxTimers
    /\ q.mMaxSize <= MaxSize
    /\ now + d <= MaxTime

ScheduleSilently(h, d, v) ==
    /\ MayCall
    /\ WithinBounds(d)
    /\ q.mCurSize + q.mCurLimbo < q.mMaxSize
    /\ q' = scheduleI(q, [type |-> h, timerValue |-> now + d, interval |-> v])
    /\ NoSignal
    /\ UNCHANGED <<now, closing>>

Schedule(h, d, v) ==
    /\ MayCall
    /\ WithinBounds(d)
    /\ q.mCurSize + q.mCurLimbo < q.mMaxSize
    /\ q' = scheduleI(q, [type |-> h, timerValue |-> now + d, interval |-> v])
    /\ Signal
    /\ UNCHANGED <<now, closing>>

(* cancel(timer_id) of a timer that is set, without the upcall.  Any other *)
(* id is refused and changes nothing.                                      *)
Cancel(i) ==
    /\ MayCall
    /\ i \in Active
    /\ q' = freeNode(remove(q, q.mTimerIds[i]), i)
    /\ Signal
    /\ UNCHANGED <<now, closing>>

(* cancel(timer_id) with dont_call = 0: handleClose() runs before the node *)
(* is freed.  Other operations may run in it, one such upcall at a time.   *)
CancelAndClose(i) ==
    /\ MayCall
    /\ closing = None
    /\ i \in Active
    /\ q' = remove(q, q.mTimerIds[i])
    /\ closing' = i
    /\ Signal
    /\ UNCHANGED now

CloseReturns ==
    /\ closing # None
    /\ q' = freeNode(q, closing)
    /\ closing' = None
    /\ UNCHANGED <<now, svcVars>>

CancelFirstOf(p, h) ==
    LET found == {s \in 0..(p.mCurSize - 1) : p.node[p.mHeap[s]].type = h}
        s == CHOOSE x \in found : \A y \in found : x <= y
    IN  IF found = {} THEN p ELSE freeNode(remove(p, s), p.mHeap[s])

(* cancel(type): the scan starts again at the root after each removal.     *)
cancelType(p, h) ==
    LET after[k \in Nat] == IF k = 0 THEN p ELSE CancelFirstOf(after[k - 1], h)
    IN  after[p.mCurSize]

(* cancelTimer(handler) of the reactor, which has nobody to signal.        *)
CancelHandler(h) ==
    /\ MayCall
    /\ \E i \in Active : q.node[i].type = h
    /\ q' = cancelType(q, h)
    /\ NoSignal
    /\ UNCHANGED <<now, closing>>

ResetInterval(i, v) ==
    /\ MayCall
    /\ i \in Active
    /\ q' = [q EXCEPT !.node[i].interval = v]
    /\ NoSignal
    /\ UNCHANGED <<now, closing>>

-----------------------------------------------------------------------------
(* The thread of the adapter, which dispatches the timers.                 *)

SpuriousWake ==
    /\ svc = "waiting"
    /\ svc' = "woken"
    /\ UNCHANGED <<q, now, until, cur, type, closing>>

(* The wait is over and the mutex taken again; expire() begins.            *)
Wake ==
    /\ svc = "woken" \/ (svc = "waiting" /\ until # Never /\ now >= until)
    /\ closing = None
    /\ svc' = "expiring"
    /\ cur' = now
    /\ until' = Never
    /\ UNCHANGED <<q, now, type, closing>>

Due(t) == ~IsEmpty(q) /\ EarliestTime(q) <= t

(* A periodic timer skips the times that have passed.                      *)
SkippedTo(n) == CHOOSE t \in (cur + 1)..(cur + n.interval) :
                  (t - n.timerValue) % n.interval = 0

(* dispatchInfoI() with a timer due, up to the upcall.                     *)
Dispatch ==
    /\ svc = "expiring"
    /\ Due(cur)
    /\ LET i == q.mHeap[0]
           out == remove(q, 0)
       IN  /\ q' = IF q.node[i].interval > 0
                     THEN reschedule([out EXCEPT !.node[i].timerValue = SkippedTo(q.node[i])], i)
                     ELSE freeNode(out, i)
           /\ type' = q.node[i].type
    /\ svc' = "upcall"
    /\ UNCHANGED <<now, until, cur, closing>>

(* handleTimeout() returns; -1 cancels all timers of the handler.          *)
TimeoutReturns ==
    /\ svc = "upcall" /\ closing = None
    /\ svc' = "expiring"
    /\ q' \in {q, cancelType(q, type)}
    /\ type' = None
    /\ UNCHANGED <<now, until, cur, closing>>

ExpireThenWait ==
    /\ svc = "expiring"
    /\ ~Due(cur)
    /\ svc' = "waiting"
    /\ until' = Never
    /\ cur' = None
    /\ UNCHANGED <<q, now, type, closing>>

(* expire() ends; the loop waits unless a timer has become due meanwhile.  *)
ExpireReturns ==
    /\ svc = "expiring"
    /\ ~Due(cur)
    /\ IF Due(now)
         THEN cur' = now /\ UNCHANGED <<svc, until>>
         ELSE /\ svc' = "waiting"
              /\ until' = IF IsEmpty(q) THEN Never ELSE EarliestTime(q)
              /\ cur' = None
    /\ UNCHANGED <<q, now, type, closing>>

Tick ==
    /\ now < MaxTime
    /\ now' = now + 1
    /\ UNCHANGED <<q, svcVars, closing>>

Next ==
    \/ \E h \in EventHandler, d \in Delay, v \in Interval : Schedule(h, d, v)
    \/ \E i \in Active : Cancel(i) \/ CancelAndClose(i)
    \/ \E i \in Active, v \in Interval : ResetInterval(i, v)
    \/ \E h \in EventHandler : CancelHandler(h)
    \/ CloseReturns
    \/ SpuriousWake \/ Wake \/ Dispatch \/ TimeoutReturns \/ ExpireReturns
    \/ Tick

Spec == Init /\ [][Next]_vars

(* Upcalls return, and the thread gets the mutex again when its wait is    *)
(* over, although others may take it first.  The steps that change q are   *)
(* given by what they do to the control state, by which Next knows them:   *)
(* CloseReturns, TimeoutReturns and Dispatch.                              *)
FairSpec ==
    /\ Spec
    /\ WF_closing(closing # None /\ closing' = None)
    /\ SF_svc(svc = "upcall" /\ closing = None /\ svc' = "expiring")
    /\ WF_svc(svc = "expiring" /\ Due(cur) /\ svc' = "upcall")
    /\ WF_vars(ExpireReturns) /\ SF_vars(Wake)

-----------------------------------------------------------------------------
(* Properties.                                                             *)

(* Types, and the counts that schedule() and growHeap() go by: mCurSize is *)
(* the number of ids in the heap, mCurLimbo that of ids in limbo.          *)
TypeOK ==
    /\ q.mCurSize = Cardinality(Active) /\ DOMAIN q.mHeap = 0..(q.mCurSize - 1)
    /\ q.mCurLimbo = Cardinality({i \in DOMAIN q.mTimerIds : q.mTimerIds[i] = Limbo})
    /\ DOMAIN q.mTimerIds = 0..(q.mMaxSize - 1)
    /\ DOMAIN q.node = {i \in DOMAIN q.mTimerIds : ~Free(q, i)}
    /\ q.mTimerIdsCurr < q.mMaxSize /\ q.mTimerIdsMinFree <= q.mMaxSize
    /\ now \in 0..MaxTime /\ (cur = None \/ cur \in 0..now)
    /\ svc \in {"waiting", "woken", "expiring", "upcall"}
    /\ closing = None \/ q.mTimerIds[closing] = Limbo

(* copy() keeps the table of ids and the heap inverse to each other, which *)
(* cancel() asserts (TimerHeap.cpp:600): the wrong timer is never          *)
(* cancelled, whatever was inserted, removed and moved before.             *)
IdsMatchHeap ==
    /\ \A s \in DOMAIN q.mHeap : q.mTimerIds[q.mHeap[s]] = s
    /\ \A i \in Active : q.mHeap[q.mTimerIds[i]] = i

(* reheapUp() and reheapDown() restore the heap: no timer is later than    *)
(* those below it, so that mHeap[0] is the earliest.                       *)
HeapOrdered ==
    \A s \in DOMAIN q.mHeap : Value(q, Parent(s)) <= Value(q, s)

(* "we are guaranteed to find a free ID" (TimerHeap.cpp:188): popFreelist() *)
(* finds an id in range that is free.  The reason is that, however often   *)
(* the heap has grown, at least two ids are free and at most one of the    *)
(* free ones is out of the search's reach.                                 *)
Unreachable == {i \in DOMAIN q.mTimerIds :
                  Free(q, i) /\ i <= q.mTimerIdsCurr /\ i < q.mTimerIdsMinFree}

FreeIdFound ==
    /\ timerId(q) < q.mMaxSize
    /\ Free(q, timerId(q))
    /\ Cardinality(Unreachable) <= 1
    /\ q.mCurSize + q.mCurLimbo + 2 <= q.mMaxSize

(* A wait of the adapter's thread never ends later than the earliest timer *)
(* set: whoever sets an earlier one wakes it.                              *)
NeverOversleeps ==
    svc = "waiting" /\ ~IsEmpty(q) => until # Never /\ until <= EarliestTime(q)

-----------------------------------------------------------------------------
(* The inductive invariant: a heap that its operations keep sound.         *)

Node == [type : EventHandler, timerValue : Nat, interval : Interval]

IsHeap(p) ==
    p = [mHeap |-> p.mHeap, mCurSize |-> p.mCurSize, mCurLimbo |-> p.mCurLimbo,
         mMaxSize |-> p.mMaxSize, mTimerIds |-> p.mTimerIds,
         mTimerIdsCurr |-> p.mTimerIdsCurr, mTimerIdsMinFree |-> p.mTimerIdsMinFree,
         node |-> p.node]

(* mHeap and mTimerIds are inverse between the slots S and the ids A.      *)
Stored(p, S, A) ==
    /\ \A s \in S : p.mHeap[s] \in A /\ p.mTimerIds[p.mHeap[s]] = s
    /\ \A i \in A : p.mTimerIds[i] \in S /\ p.mHeap[p.mTimerIds[i]] = i

(* The heap is in order between slot s and its parent.                     *)
InOrder(p, s) == Value(p, Parent(s)) <= Value(p, s)

(* Heap p holds the timers with the ids A, in order.                       *)
Good(p, A) ==
    /\ IsHeap(p) /\ p.mCurSize \in Nat /\ p.mMaxSize \in Nat
    /\ DOMAIN p.mHeap = 0..(p.mCurSize - 1) /\ DOMAIN p.mTimerIds = 0..(p.mMaxSize - 1)
    /\ A \subseteq DOMAIN p.mTimerIds /\ Stored(p, 0..(p.mCurSize - 1), A)
    /\ \A j \in DOMAIN p.mTimerIds \ A : p.mTimerIds[j] \in Int /\ p.mTimerIds[j] < 0
    /\ \A j \in A : p.node[j].timerValue \in Nat
    /\ \A s \in 0..(p.mCurSize - 1) : InOrder(p, s)

(* Moreover the timers L are in limbo, two ids are free, and popFreelist() *)
(* can reach all free ones but one.                                        *)
Sound(p, A, L) ==
    /\ Good(p, A) /\ p.mMaxSize >= 2
    /\ L \subseteq DOMAIN p.mTimerIds \ A
    /\ \A j \in DOMAIN p.mTimerIds \ A : j \in L <=> p.mTimerIds[j] = Limbo
    /\ DOMAIN p.node = A \cup L /\ \A j \in A \cup L : p.node[j] \in Node
    /\ IsFiniteSet(L) /\ p.mCurLimbo = Cardinality(L)
    /\ p.mCurSize + p.mCurLimbo + 2 <= p.mMaxSize
    /\ p.mTimerIdsCurr \in 0..(p.mMaxSize - 1) /\ p.mTimerIdsMinFree \in 0..p.mMaxSize
    /\ p.mTimerIdsMinFree < p.mMaxSize =>
         p.mTimerIdsMinFree \notin A \cup L /\ p.mTimerIdsMinFree <= p.mTimerIdsCurr
    /\ \A i, j \in DOMAIN p.mTimerIds \ (A \cup L) :
         /\ i <= p.mTimerIdsCurr /\ i < p.mTimerIdsMinFree
         /\ j <= p.mTimerIdsCurr /\ j < p.mTimerIdsMinFree
         => i = j

Closing == IF closing = None THEN {} ELSE {closing}

(* Between any two steps the heap is sound: the only timer in limbo is the *)
(* one whose handleClose() runs, so that whatever is called during that or *)
(* any other upcall finds the heap, the ids and the free list in order.    *)
IInv ==
    /\ Sound(q, Active, Closing) /\ q.mMaxSize <= InitialSize + 2 * MaxSize
    /\ now \in 0..MaxTime /\ (cur = None \/ cur \in 0..now)
    /\ svc \in {"waiting", "woken", "expiring", "upcall"}
    /\ until \in Nat \cup {Never}
    /\ NeverOversleeps

-----------------------------------------------------------------------------
timers == [i \in Active |-> q.node[i]]

(* The heap implements a set of timers with unique ids.                    *)
Promise == INSTANCE TimerQueue WITH
    Id <- 0..(InitialSize + 2 * MaxSize),
    TimerNode <- [type : EventHandler, timerValue : 0..MaxTime, interval : Interval],
    timer <- timers

IsTimerQueue == Promise!Spec

(* A timer that is due is dispatched or cancelled, even when handlers set  *)
(* and cancel timers while expire() runs.                                  *)
DueTimerDispatched ==
    \A i \in 0..(4 * InitialSize - 1) :
      LET due == i \in Active /\ q.node[i].timerValue <= now
      IN  due ~> ~due
=============================================================================
