---------------------------- MODULE BoundedQueue ----------------------------
(***************************************************************************)
(* What the producers and consumers of project_2/main.cpp share: a queue   *)
(* of at most SHARED_BUFFER_SIZE items, taken in the order they came.      *)
(***************************************************************************)
EXTENDS Integers, Sequences

CONSTANTS Items, SHARED_BUFFER_SIZE

VARIABLE items

QueueInit == items = << >>

Put(x) == Len(items) < SHARED_BUFFER_SIZE /\ items' = Append(items, x)

Get == items # << >> /\ items' = Tail(items)

QueueSpec == QueueInit /\ [][Get \/ \E x \in Items : Put(x)]_items
=============================================================================
