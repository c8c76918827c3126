--------------------------- MODULE BoundedBuffer ---------------------------
(***************************************************************************)
(* project_2/main.cpp: producers and consumers of a shared buffer, clients *)
(* of the lock and the condition variables of Monitor.  Each thread has a  *)
(* program counter; the timer may switch threads between any two steps.    *)
(***************************************************************************)
EXTENDS Monitor

CONSTANTS
  SHARED_BUFFER_SIZE,
  Producers, Consumers,
  need_space_cv, need_item_cv

ASSUME BoundedBufferAssumption ==
  /\ SHARED_BUFFER_SIZE \in Nat \ {0}
  /\ Producers \cup Consumers = Tids \ {MAIN_THREAD}
  /\ Producers \cap Consumers = {} /\ Producers # {}
  /\ CondVars = {need_space_cv, need_item_cv}
  /\ need_space_cv # need_item_cv
  /\ NestedSignals

VARIABLES
  buffer, head, tail, item_count,
  surplus,              \* produced_count - consumed_count
  in_critical_section,  \* the two flags, by role
  pc                    \* where a thread is in its loop

sharedVars == <<buffer, head, tail, item_count, surplus, in_critical_section>>
bufferVars == <<sharedVars, pc>>
allVars == <<vars, bufferVars>>

Slots == 0 .. SHARED_BUFFER_SIZE - 1
Roles == {"producer", "consumer"}
Role(t) == IF t \in Producers THEN "producer" ELSE "consumer"

BufferInit ==
  /\ MonitorInit
  /\ buffer = [k \in Slots |-> 0]
  /\ head = 0 /\ tail = 0 /\ item_count = 0
  /\ surplus = 0
  /\ in_critical_section = [r \in Roles |-> FALSE]
  /\ pc = [t \in Tids |-> "lock"]

At(where) == running # MAIN_THREAD /\ pc[running] = where
Goto(where) == pc' = [pc EXCEPT ![running] = where]

\* Steps of the client's own code leave the library alone.
Library == <<uthreadVars, monitorVars>>
-----------------------------------------------------------------------------
buffer_lock_lock == At("lock") /\ lock /\ Goto("test") /\ UNCHANGED sharedVars

must_wait ==
  IF Role(running) = "producer" THEN item_count = SHARED_BUFFER_SIZE
  ELSE item_count = 0

wanted_cv ==
  IF Role(running) = "producer" THEN need_space_cv ELSE need_item_cv

\* Hoare semantics: the condition is tested once.
test_and_wait ==
  /\ At("test") /\ must_wait
  /\ wait(wanted_cv)
  /\ Goto("work")
  /\ UNCHANGED sharedVars

test_and_go ==
  /\ At("test") /\ InUserCode /\ ~must_wait
  /\ Goto("work")
  /\ UNCHANGED <<Library, sharedVars>>

assert_buffer_invariants ==
  /\ item_count \in 0 .. SHARED_BUFFER_SIZE
  /\ head \in Slots /\ tail \in Slots
  /\ head > tail => head - tail = item_count
  /\ head < tail => (SHARED_BUFFER_SIZE - tail) + head = item_count
  /\ head = tail => item_count \in {0, SHARED_BUFFER_SIZE}
  /\ surplus >= 0

\* Mutant: the index is not wrapped.
advancedPast(index) == index + 1
advanced(index) == (index + 1) % SHARED_BUFFER_SIZE

Asserted == ~in_critical_section[Role(running)] /\ assert_buffer_invariants

\* The asserts (AssertsHold: no thread is stopped by them), then the item
\* goes into or out of the buffer.
place_item ==
  /\ At("work") /\ InUserCode /\ Role(running) = "producer" /\ Asserted
  /\ buffer' = [buffer EXCEPT ![head] = running]
  /\ head' = advanced(head)
  /\ item_count' = item_count + 1
  /\ surplus' = surplus + 1
  /\ in_critical_section' = [in_critical_section EXCEPT !["producer"] = TRUE]
  /\ Goto("signal")
  /\ UNCHANGED <<Library, tail>>

grab_item ==
  /\ At("work") /\ InUserCode /\ Role(running) = "consumer" /\ Asserted
  /\ tail' = advanced(tail)
  /\ item_count' = item_count - 1
  /\ surplus' = surplus - 1
  /\ in_critical_section' = [in_critical_section EXCEPT !["consumer"] = TRUE]
  /\ Goto("signal")
  /\ UNCHANGED <<Library, buffer, head>>

signalled_cv ==
  IF Role(running) = "producer" THEN need_item_cv ELSE need_space_cv

signal_other ==
  /\ At("signal") /\ InUserCode
  /\ IF cond_var_waiting_queue[signalled_cv] = << >> THEN UNCHANGED Library
     ELSE signal(signalled_cv)
  /\ Goto("unlock")
  /\ UNCHANGED sharedVars

\* The flag is only looked at with the lock held, so clearing it and
\* unlocking are one step.
leave_and_unlock ==
  /\ At("unlock") /\ unlock
  /\ in_critical_section' = [in_critical_section EXCEPT ![Role(running)] = FALSE]
  /\ Goto("lock")
  /\ UNCHANGED <<buffer, head, tail, item_count, surplus>>

\* The main thread joins the first producer, and waits for ever.
main ==
  /\ running = MAIN_THREAD
  /\ uthread_join(CHOOSE t \in Producers : \A u \in Producers : t <= u)
  /\ UNCHANGED <<monitorVars, bufferVars>>

\* The timer, or the random uthread_yield between two rounds of the loop,
\* which does the same.
preempted ==
  /\ timeHandler
  /\ UNCHANGED <<monitorVars, bufferVars>>

\* A thread goes on inside the library.
switched_in ==
  /\ \/ resumed /\ UNCHANGED monitorVars
     \/ lock_resumed \/ unlock_resumed
     \/ wait_unlocked \/ wait_resumed \/ signal_resumed
  /\ UNCHANGED bufferVars

ClientStep ==
  \/ buffer_lock_lock \/ test_and_wait \/ test_and_go
  \/ place_item \/ grab_item
  \/ signal_other \/ leave_and_unlock

BufferNext == ClientStep \/ main \/ preempted \/ switched_in

BufferSpec == BufferInit /\ [][BufferNext]_allVars
-----------------------------------------------------------------------------
(* Every variable of the client has its type.                              *)
BufferTypeOK ==
  /\ buffer \in [Slots -> Tids]
  /\ head \in Slots /\ tail \in Slots
  /\ item_count \in Int /\ surplus \in Int
  /\ in_critical_section \in [Roles -> BOOLEAN]
  /\ pc \in [Tids -> {"lock", "test", "work", "signal", "unlock"}]

(* The asserts of producer() and consumer() hold when they are reached:    *)
(* with Hoare semantics the condition tested before wait() still holds     *)
(* after it, and no second producer or consumer gets in while one has      *)
(* signalled and waits for the lock to come back.                          *)
AssertsHold == InUserCode /\ At("work") => Asserted

Queue == INSTANCE BoundedQueue WITH
  Items <- Producers,
  items <- [k \in 1 .. item_count |->
              buffer[(tail + k - 1) % SHARED_BUFFER_SIZE]]

(* The buffer is a bounded queue: items are taken in the order they were   *)
(* placed, and none is overwritten or taken twice.                         *)
ImplementsQueue == Queue!QueueSpec
=============================================================================
