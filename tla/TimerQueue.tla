----------------------------- MODULE TimerQueue -----------------------------
(***************************************************************************)
(* What icc/TimerQueue.h promises its callers: a set of timers, each known *)
(* by an id no other timer of the set has, of which the earliest is        *)
(* dispatched once its time has come, and none after it was cancelled.     *)
(***************************************************************************)
EXTENDS Naturals

CONSTANTS
    Id,         \* timer ids
    TimerNode   \* [type, timerValue, interval]

VARIABLES
    timer,  \* ids of the timers set -> [type, timerValue, interval]
    now     \* the time of day

Without(ids) == [i \in DOMAIN timer \ ids |-> timer[i]]

Init == timer = <<>> /\ now = 0

(* A new timer, not in the past, gets an id that no other timer has.       *)
Schedule(i) ==
    /\ i \notin DOMAIN timer
    /\ DOMAIN timer' = DOMAIN timer \cup {i}
    /\ timer'[i] \in TimerNode /\ timer'[i].timerValue >= now
    /\ \A j \in DOMAIN timer : timer'[j] = timer[j]
    /\ UNCHANGED now

Cancel(i) == timer' = Without({i}) /\ UNCHANGED now

CancelType(h) ==
    /\ timer' = Without({i \in DOMAIN timer : timer[i].type = h})
    /\ UNCHANGED now

ResetInterval(i, v) ==
    /\ timer' = [timer EXCEPT ![i].interval = v]
    /\ UNCHANGED now

(* The earliest timer is dispatched; a periodic one is due again, a whole  *)
(* number of intervals later.                                              *)
Dispatch(i) ==
    /\ timer[i].timerValue <= now
    /\ \A j \in DOMAIN timer : timer[i].timerValue <= timer[j].timerValue
    /\ \/ timer[i].interval = 0 /\ timer' = Without({i})
       \/ /\ timer[i].interval > 0
          /\ \E k \in 1..(now + 1) :
               timer' = [timer EXCEPT ![i].timerValue = @ + k * timer[i].interval]
    /\ UNCHANGED now

Tick == now' = now + 1 /\ UNCHANGED timer

Next ==
    \/ Tick
    \/ \E i \in Id : Schedule(i)
    \/ \E i \in DOMAIN timer :
         \/ Cancel(i)
         \/ CancelType(timer[i].type)
         \/ \E t \in TimerNode : ResetInterval(i, t.interval)
         \/ Dispatch(i)

Spec == Init /\ [][Next]_<<timer, now>>
=============================================================================
