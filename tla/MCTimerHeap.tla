----------------------------- MODULE MCTimerHeap -----------------------------
(***************************************************************************)
(* The timers with, besides the empty heap, the initial states that six    *)
(* calls of schedule() lead to: the heap has then grown twice, and its     *)
(* last node can be earlier than the parent of a node removed.             *)
(***************************************************************************)
EXTENDS TimerHeap

CONSTANTS Handler, Times

(* The heap after timers were set for the given times.                     *)
Scheduled(times) ==
    LET after[k \in 0..6] ==
          IF k = 0 THEN Constructed
          ELSE scheduleI(after[k - 1],
                 [type |-> Handler, timerValue |-> times[k], interval |-> 0])
    IN  after[6]

Filled ==
    /\ q \in {Scheduled(times) : times \in [1..6 -> Times]}
    /\ now = 0
    /\ svc = "woken"
    /\ until = Never
    /\ cur = None
    /\ type = None
    /\ closing = None

FilledSpec == (Init \/ Filled) /\ [][Next]_vars
=============================================================================
