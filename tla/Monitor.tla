------------------------------ MODULE Monitor ------------------------------
(***************************************************************************)
(* project_2/Lock.cpp and CondVar.cpp on top of the threads of UThread: a  *)
(* lock and the condition variables used with it, with Hoare semantics.    *)
(* A signal hands the processor and the lock to the waiting thread; the    *)
(* signaller gets both back when that thread unlocks or waits again.       *)
(*                                                                         *)
(* The client's discipline: a thread locks when it is not inside, and      *)
(* unlocks, waits, signals and broadcasts when it is.                      *)
(***************************************************************************)
EXTENDS UThread

CONSTANTS CondVars,
          Null,           \* no thread in nextThreadToWakeUp
          NestedSignals   \* may a woken thread signal before it unlocks

ASSUME MonitorAssumption ==
  /\ Null \notin Tids
  /\ NestedSignals \in BOOLEAN

VARIABLES
  value,                    \* Lock: 1 when held
  waiting_queue,            \* Lock: blocked in lock()
  nextThreadToWakeUp,       \* Lock: who gets the lock back at unlock
  cond_var_waiting_queue,   \* CondVar: blocked in wait()
  wake_up_order,            \* CondVar: woken or signalling, not yet resumed
  waits_on,                 \* the condition variable of a thread in wait()
  inside                    \* threads between an acquire and a release

lockVars == <<value, waiting_queue, nextThreadToWakeUp>>
condVars == <<cond_var_waiting_queue, wake_up_order, waits_on>>
monitorVars == <<lockVars, condVars, inside>>
vars == <<uthreadVars, monitorVars>>

MonitorInit ==
  /\ Init
  /\ value = 0
  /\ waiting_queue = << >>
  /\ nextThreadToWakeUp = Null
  /\ cond_var_waiting_queue = [c \in CondVars |-> << >>]
  /\ wake_up_order = [c \in CondVars |-> << >>]
  /\ waits_on = [t \in Tids |-> Null]
  /\ inside = {}

Outside(op) == Calling(op) /\ running \notin inside
Inside(op) == Calling(op) /\ running \in inside

\* The running thread has been switched back into its call.
Back(c) == proc = "alive" /\ ~interrupts_enabled /\ context[running] = c

Enter == inside' = inside \cup {running}
Leave == inside' = inside \ {running}
-----------------------------------------------------------------------------
(* Lock.                                                                   *)

\* Mutant: the test of value is inverted in a rewrite.
takenNever == FALSE
taken == value = 1

lock ==
  /\ Outside("lock")
  /\ IF taken
       THEN /\ waiting_queue' = Append(waiting_queue, running)
            /\ switchThreads(ready, "lock")
            /\ UNCHANGED <<value, lock_count, inside>>
       ELSE /\ value' = 1
            /\ lock_count' = [lock_count EXCEPT ![running] = @ + 1]
            /\ Enter
            /\ UNCHANGED <<waiting_queue, ready, running, context,
                           interrupts_enabled, proc>>
  /\ UNCHANGED <<table, priority, queues, boosting, call,
                 nextThreadToWakeUp, condVars>>

lock_resumed ==
  /\ Back("lock")
  /\ lock_count' = [lock_count EXCEPT ![running] = @ + 1]
  /\ interrupts_enabled' = TRUE
  /\ Enter
  /\ UNCHANGED <<table, priority, ready, running, queues, boosting, call,
                 context, proc, lockVars, condVars>>

\* _unlock hands the lock to the thread a wait has named, else to the first
\* waiting thread, else frees it.  The first case switches threads at once.
HandBack(c) ==
  /\ nextThreadToWakeUp # Null
  /\ nextThreadToWakeUp' = Null
  /\ ready' = addToReady(ready, priority, running)
  /\ switchToThread(nextThreadToWakeUp, c)
  /\ UNCHANGED <<value, waiting_queue, proc>>

\* Mutant: the lock is freed although threads wait for it.
released_valueFreed == 0
\* Mutant: value counts down like a semaphore's although the lock is passed on.
released_valueCounted == value - 1
released_value == IF waiting_queue = << >> THEN 0 ELSE value

\* Mutant: the thread the lock is passed to is not made ready.
released_readyForgotten == ready
released_ready == IF waiting_queue = << >> THEN ready
                  ELSE addToReady(ready, priority, Head(waiting_queue))

Release ==
  /\ nextThreadToWakeUp = Null
  /\ value' = released_value
  /\ waiting_queue' = IF waiting_queue = << >> THEN << >> ELSE Tail(waiting_queue)
  /\ UNCHANGED nextThreadToWakeUp

unlock ==
  /\ Inside("unlock")
  /\ lock_count' = [lock_count EXCEPT ![running] = @ - 1]
  /\ \/ HandBack("unlock")
     \/ /\ Release
        /\ ready' = released_ready
        /\ UNCHANGED <<running, context, interrupts_enabled, proc>>
  /\ Leave
  /\ UNCHANGED <<table, priority, queues, boosting, call, condVars>>

unlock_resumed ==
  /\ Back("unlock")
  /\ interrupts_enabled' = TRUE
  /\ UNCHANGED <<table, priority, lock_count, ready, running, queues,
                 boosting, call, context, proc, monitorVars>>
-----------------------------------------------------------------------------
(* CondVar.                                                                *)

wait(c) ==
  /\ Inside("wait")
  /\ cond_var_waiting_queue' =
       [cond_var_waiting_queue EXCEPT ![c] = Append(@, running)]
  /\ waits_on' = [waits_on EXCEPT ![running] = c]
  /\ \/ HandBack("wait_unlock")
     \/ Release /\ switchThreads(released_ready, "wait")
  /\ Leave
  /\ UNCHANGED <<table, priority, lock_count, queues, boosting, call,
                 wake_up_order>>

\* wait() gave the lock back to a signaller and was put on the ready queue by
\* _unlock; it now blocks.
wait_unlocked ==
  /\ Back("wait_unlock")
  /\ switchThreads(ready, "wait")
  /\ UNCHANGED <<table, priority, lock_count, queues, boosting, call,
                 monitorVars>>

\* The woken thread names the next one to get the lock.
\* Mutant: it names nobody.
next_to_wakeNobody(order) == Null
next_to_wake(order) == Head(order)

wait_resumed ==
  /\ Back("wait")
  /\ LET order == wake_up_order[waits_on[running]] IN
       IF order = << >>
         THEN Die("empty_wake_up_order") /\ UNCHANGED monitorVars
         ELSE /\ nextThreadToWakeUp' = next_to_wake(order)
              /\ wake_up_order' =
                   [wake_up_order EXCEPT ![waits_on[running]] = Tail(order)]
              /\ interrupts_enabled' = TRUE
              /\ Enter
              /\ UNCHANGED <<table, priority, lock_count, ready, running,
                             queues, boosting, call, context, proc, value,
                             waiting_queue, cond_var_waiting_queue, waits_on>>

\* signal() and broadcast() of a condition nobody waits for do nothing.
Notify(c, woken, remaining) ==
  /\ cond_var_waiting_queue[c] # << >>
  /\ NestedSignals \/ nextThreadToWakeUp = Null
  /\ cond_var_waiting_queue' = [cond_var_waiting_queue EXCEPT ![c] = remaining]
  /\ wake_up_order' = [wake_up_order EXCEPT ![c] = @ \o woken]
  /\ switchToThread(Head(cond_var_waiting_queue[c]), "signal")
  /\ Leave
  /\ UNCHANGED <<table, priority, lock_count, ready, queues, boosting, call,
                 proc, lockVars, waits_on>>

signal(c) ==
  /\ Inside("signal")
  /\ Notify(c, <<running>>, Tail(cond_var_waiting_queue[c]))

\* Mutant: each further thread is queued in front of the ones before it.
broadcast_orderReversed(c) ==
  Append(Reverse(Tail(cond_var_waiting_queue[c])), running)
\* Mutant: the calling thread is not queued at all.
broadcast_orderNoCaller(c) == Tail(cond_var_waiting_queue[c])
broadcast_order(c) == Append(Tail(cond_var_waiting_queue[c]), running)

broadcast(c) ==
  /\ Inside("broadcast")
  /\ Notify(c, broadcast_order(c), << >>)

signal_resumed ==
  /\ Back("signal")
  /\ interrupts_enabled' = TRUE
  /\ Enter
  /\ UNCHANGED <<table, priority, lock_count, ready, running, queues,
                 boosting, call, context, proc, lockVars, condVars>>
-----------------------------------------------------------------------------
\* A worker does not end, and nobody joins, while it is inside.
ThreadStep ==
  /\ UThreadNext
  /\ running \in inside => /\ finished_queue' \subseteq finished_queue
                           /\ join_queue' = join_queue
  /\ UNCHANGED monitorVars

Next ==
  \/ ThreadStep
  \/ lock \/ lock_resumed
  \/ unlock \/ unlock_resumed
  \/ \E c \in CondVars : wait(c) \/ signal(c) \/ broadcast(c)
  \/ wait_unlocked \/ wait_resumed \/ signal_resumed

MonitorSpec == MonitorInit /\ [][Next]_vars

(* The timer fires, a switched-in thread runs on, and client code inside   *)
(* the lock is finite: a thread that keeps being scheduled inside          *)
(* eventually unlocks, and one scheduled inside a call finishes it.        *)
MonitorFairness ==
  /\ WF_vars(ThreadStep /\ timeHandler)
  /\ WF_vars(ThreadStep /\ ~interrupts_enabled)
  /\ WF_vars(lock_resumed \/ unlock_resumed \/ wait_unlocked
               \/ wait_resumed \/ signal_resumed)
  /\ \A t \in Tids : SF_vars(running = t /\ unlock)
  /\ SF_vars(ThreadStep /\ uthread_create)

FairMonitorSpec == MonitorSpec /\ MonitorFairness
-----------------------------------------------------------------------------
SeqThreads(q) == UNION {ToSet(q[c]) : c \in CondVars}
Waiting == SeqThreads(cond_var_waiting_queue)
Notified == SeqThreads(wake_up_order)

(* Every variable of the lock and the condition variables has its type.    *)
MonitorTypeOK ==
  /\ value \in {0, 1}
  /\ waiting_queue \in Seq(Tids)
  /\ nextThreadToWakeUp \in Tids \cup {Null}
  /\ cond_var_waiting_queue \in [CondVars -> Seq(Tids)]
  /\ wake_up_order \in [CondVars -> Seq(Tids)]
  /\ waits_on \in [Tids -> CondVars \cup {Null}]
  /\ inside \subseteq Tids

(* At most one thread is between acquiring and releasing the lock, through *)
(* hand-offs, signals, broadcasts and preemption.                          *)
MutualExclusion == Cardinality(inside) <= 1

\* Threads the lock has been passed to: inside, or about to return from
\* lock(), wait() or signal() with it.
HasLock ==
  inside \cup
  {t \in threads :
     /\ t \in ReadyThreads \cup blocked \/ (t = running /\ ~interrupts_enabled)
     /\ context[t] \in {"lock", "wait", "wait_unlock", "signal"}
     /\ t \notin ToSet(waiting_queue) \cup Waiting \cup Notified
     /\ t # nextThreadToWakeUp}

(* The lock is conserved: while it is held exactly one thread has it or    *)
(* has been passed it, even when that thread waits to be scheduled; two    *)
(* threads never both believe they were handed it.                         *)
LockHasOneHolder ==
  proc = "alive" => Cardinality(HasLock) = value

(* The process dies for want of a ready thread only when every thread      *)
(* waits for a signal.                                                     *)
StuckOnlyWhenAllWait == proc = "no_ready" => threads \subseteq Waiting

(* No thread of a monitor client is lost: it runs, is ready, or is in a    *)
(* queue something will take it from.                                      *)
NoThreadLost ==
  proc = "alive" =>
    threads \subseteq {running, nextThreadToWakeUp} \cup ReadyThreads
                      \cup blocked \cup Joining \cup finished_queue
                      \cup ToSet(waiting_queue) \cup Waiting \cup Notified

(* The lock is free only when nobody wants or is owed it: no wake-up is    *)
(* lost between unlock, lock and the condition variables.                  *)
FreeLockIsUnwanted ==
  value = 0 => /\ inside = {}
               /\ waiting_queue = << >>
               /\ nextThreadToWakeUp = Null
               /\ Notified = {}

\* The threads that are owed the lock, in order: the thread named next, then
\* the wake-up order of the condition variable that has one.
Owed ==
  (IF nextThreadToWakeUp = Null THEN << >> ELSE <<nextThreadToWakeUp>>)
    \o (IF Notified = {} THEN << >>
        ELSE wake_up_order[CHOOSE c \in CondVars : wake_up_order[c] # << >>])

\* A call wakes the threads woken and then returns to its caller: the first of
\* them runs at once, the others and last the caller are owed the lock.
HandsOver(woken) == <<running'>> \o Owed' = Append(woken, running)

\* The lock stays where it is and is owed as before, or the first thread that
\* is owed it gets it.
HonoursOwed ==
  \/ Owed' = Owed /\ HasLock' \subseteq HasLock
  \/ Owed' = Tail(Owed) /\ running' = Head(Owed) /\ HasLock' = {Head(Owed)}

(* CondVar.h:19-28, Hoare semantics: signal() hands the lock to the first  *)
(* waiting thread and broadcast() to all of them in the order of their     *)
(* queue, and last it goes back to the caller; until then it goes to no    *)
(* other thread, and nothing else makes a thread owed the lock; two        *)
(* condition variables never have threads to wake at the same time.        *)
OwedInOrder ==
  [][/\ \A c, d \in CondVars :
          wake_up_order'[c] # << >> /\ wake_up_order'[d] # << >> => c = d
     /\ \A c \in CondVars :
          /\ signal(c) => HandsOver(<<Head(cond_var_waiting_queue[c])>>)
          /\ broadcast(c) => HandsOver(cond_var_waiting_queue[c])
     /\ Owed # << >> /\ proc' = "alive" => HonoursOwed
     /\ Owed = << >> /\ Owed' # << >> =>
          \E c \in CondVars : signal(c) \/ broadcast(c)]_vars

(* Boosting is undone exactly: with priorities the client leaves alone, a  *)
(* thread is above its own priority by the boosts recorded for it.         *)
BoostsAccountedFor ==
  \A t \in threads :
    priority[t] + (IF numBoosts[t] = NoBoosts THEN 0 ELSE numBoosts[t])
      = StartPriority[t]

(* lock() returns: a thread waiting for the lock eventually gets it.       *)
LockGranted ==
  \A t \in Tids : (t \in ToSet(waiting_queue)) ~> (t \in inside)

(* README.md:146-153: boosting preempted lock holders resolves priority    *)
(* inversion, so a RED thread waiting for the lock eventually gets it,     *)
(* unless the thread that has it is suspended.                             *)
InversionResolved ==
  \A t \in Tids :
    (t \in ToSet(waiting_queue) /\ priority[t] = RED)
      ~> (t \in inside \/ HasLock \cap blocked # {} \/ proc # "alive")

(* signal() and broadcast() return: the caller, and every thread they      *)
(* woke, eventually gets the lock.                                         *)
NotifiedReturn ==
  \A t \in Tids :
    (t \in Notified \cup {nextThreadToWakeUp}) ~> (t \in inside \/ proc # "alive")
=============================================================================
