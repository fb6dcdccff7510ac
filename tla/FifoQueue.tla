------------------------------ MODULE FifoQueue ------------------------------
(***************************************************************************)
(* What icc/MessageQueue promises the threads of a Task: a bounded FIFO    *)
(* queue, each operation of which happens at one instant.                  *)
(***************************************************************************)
EXTENDS Naturals, Sequences

CONSTANTS Item, Consumer, NoItem, Capacity

VARIABLES
    queue,  \* the items put and not yet taken
    got     \* consumer -> the item its last successful dequeue returned

Init ==
    /\ queue = <<>>
    /\ got = [c \in Consumer |-> NoItem]

Put(x) ==
    /\ Len(queue) < Capacity
    /\ \A k \in 1..Len(queue) : queue[k] # x
    /\ queue' = Append(queue, x)
    /\ UNCHANGED got

Take(c) ==
    /\ queue # <<>>
    /\ got' = [got EXCEPT ![c] = Head(queue)]
    /\ queue' = Tail(queue)

Next == (\E x \in Item : Put(x)) \/ (\E c \in Consumer : Take(c))

Spec == Init /\ [][Next]_<<queue, got>>
=============================================================================
