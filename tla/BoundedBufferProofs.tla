------------------------ MODULE BoundedBufferProofs ------------------------
(***************************************************************************)
(* The producer/consumer demo of project 2 for every number of producers   *)
(* and consumers and every size of the buffer: its asserts hold, no thread *)
(* is lost, and the buffer is a queue.  A woken thread does signal before  *)
(* it unlocks here, but the condition it signals has no waiting thread:    *)
(* producers and consumers never wait at the same time.                    *)
(***************************************************************************)
EXTENDS BoundedBuffer, MonitorHoareProofs

Clients == Producers \cup Consumers

\* The condition variable a thread waits for.
OwnCV(t) == IF Role(t) = "producer" THEN need_space_cv ELSE need_item_cv

\* A thread that has been switched out of lock(), wait() or signal(); r runs,
\* with interrupts on, and ctx are the contexts.
MidCall(t, r, on, ctx) == ctx[t] \in {"lock", "wait", "signal"} /\ ~(t = r /\ on)

\* Its program counter p is behind the call; any other thread is inside the
\* lock, in I, between lock() and unlock().
Fits(t, r, on, ctx, I, p) ==
  /\ MidCall(t, r, on, ctx) =>
       /\ t \notin I
       /\ ctx[t] = "lock" => p[t] = "test"
       /\ ctx[t] = "wait" => p[t] = "work"
       /\ ctx[t] = "signal" => p[t] = "unlock"
  /\ ~MidCall(t, r, on, ctx) => (t \in I <=> p[t] # "lock")

\* The main thread takes no lock, and no thread gives the lock back in wait().
Aloof(ctx, I, T, w, F) ==
  /\ MAIN_THREAD \notin I /\ ctx[MAIN_THREAD] \in {"stub", "yield", "join"}
  /\ \A t \in Tids : /\ ctx[t] # "wait_unlock"
                     /\ ctx[t] = "wait" => w[t] = OwnCV(t)
                     /\ ctx[t] # "stub" => t \in T
  /\ F = {}

\* The flag of a role is set while one of its threads is in its section.
Between(t, p) == p[t] \in {"signal", "unlock"}
Flagged(p, ics) ==
  /\ \A t \in Clients : Between(t, p) => ics[Role(t)]
  /\ \A r \in Roles : ics[r] => \E t \in Clients : Role(t) = r /\ Between(t, p)
  /\ \A s, t \in Clients :
       Role(s) = Role(t) /\ Between(s, p) /\ Between(t, p) => s = t

\* A thread that may place or take an item, and one that just has.
Working(t, p, cvq) == p[t] = "work" /\ t \notin ToSet(cvq[OwnCV(t)])
Signalling(t, p) == p[t] = "signal"

\* The next item or slot is spoken for.
SlotOpen(p, cvq) == \/ \E t \in Producers : Working(t, p, cvq)
                    \/ \E t \in Consumers : Signalling(t, p)
ItemOpen(p, cvq) == \/ \E t \in Consumers : Working(t, p, cvq)
                    \/ \E t \in Producers : Signalling(t, p)

\* Producers wait only when the buffer is full and consumers only when it is
\* empty, but for one slot or item; a thread that need not wait finds one.
Stocked(p, cvq, k) ==
  /\ cvq[need_space_cv] # << >> =>
       k = IF SlotOpen(p, cvq) THEN SHARED_BUFFER_SIZE - 1 ELSE SHARED_BUFFER_SIZE
  /\ cvq[need_item_cv] # << >> => k = IF ItemOpen(p, cvq) THEN 1 ELSE 0
  /\ \A t \in Producers : Working(t, p, cvq) => k < SHARED_BUFFER_SIZE
  /\ \A t \in Consumers : Working(t, p, cvq) => k > 0
  /\ cvq[need_space_cv] = << >> \/ cvq[need_item_cv] = << >>

\* A thread in signal() has the other role than the threads it signals, and
\* no thread of the other role waits until it has the lock back.
InSignal(t, c, ctx, cvq) ==
  ctx[t] = "signal" /\ OwnCV(t) # c /\ cvq[OwnCV(t)] = << >>
SignalsCross(n, wo, cvq, I, ctx, p) ==
  /\ \A c \in CondVars : \A t \in ToSet(wo[c]) : InSignal(t, c, ctx, cvq)
  /\ n # Null => \A t \in I : InSignal(n, OwnCV(t), ctx, cvq) /\ p[t] # "test"

\* The indices, the number of items and the counters agree.
Ring ==
  /\ item_count \in 0 .. SHARED_BUFFER_SIZE /\ surplus = item_count
  /\ head = IF tail + item_count >= SHARED_BUFFER_SIZE
              THEN tail + item_count - SHARED_BUFFER_SIZE ELSE tail + item_count

ClientParts ==
  /\ \A t \in Clients : Fits(t, running, interrupts_enabled, context, inside, pc)
  /\ Aloof(context, inside, threads, waits_on, finished_queue)
  /\ Flagged(pc, in_critical_section)
  /\ Stocked(pc, cond_var_waiting_queue, item_count)
  /\ SignalsCross(nextThreadToWakeUp, wake_up_order, cond_var_waiting_queue,
                  inside, context, pc)

\* The inductive invariant of the demo.
BufferInv ==
  /\ HoareInv /\ BufferTypeOK /\ Ring
  /\ proc = "alive" => ClientParts

\* The state a step starts from.
BufferState == HoareState /\ BufferTypeOK /\ Ring /\ ClientParts
-----------------------------------------------------------------------------
(* The state before a step.                                                *)

(* The two roles and the condition variables they wait for.                *)
LEMMA RoleFacts ==
  /\ \A t \in Clients : /\ t \in Producers <=> Role(t) = "producer"
                        /\ t \in Consumers <=> Role(t) = "consumer"
                        /\ t \in Tids /\ t # MAIN_THREAD
  /\ \A t \in Tids : t # MAIN_THREAD => t \in Clients
  /\ \A t : Role(t) \in Roles /\ OwnCV(t) \in CondVars
  /\ \A t \in Producers : OwnCV(t) = need_space_cv /\ t \in Clients
  /\ \A t \in Consumers : OwnCV(t) = need_item_cv /\ t \in Clients
  /\ \A s, t : OwnCV(s) = OwnCV(t) <=> Role(s) = Role(t)
  BY BoundedBufferAssumption DEF Clients, Role, OwnCV, Roles

(* The remainders the buffer's indices are.                                *)
LEMMA Remainders ==
  /\ \A x \in 0 .. SHARED_BUFFER_SIZE - 1 : x % SHARED_BUFFER_SIZE = x
  /\ \A x \in SHARED_BUFFER_SIZE .. 2 * SHARED_BUFFER_SIZE - 1 :
       x % SHARED_BUFFER_SIZE = x - SHARED_BUFFER_SIZE
<1>1. SHARED_BUFFER_SIZE \in Nat \ {0}
  BY BoundedBufferAssumption
<1>2. ASSUME NEW x \in 0 .. SHARED_BUFFER_SIZE - 1 PROVE x % SHARED_BUFFER_SIZE = x
  BY <1>1
<1>3. ASSUME NEW x \in SHARED_BUFFER_SIZE .. 2 * SHARED_BUFFER_SIZE - 1
      PROVE  x % SHARED_BUFFER_SIZE = x - SHARED_BUFFER_SIZE
  BY <1>1
<1> QED
  BY <1>2, <1>3

(* What the invariants of the library say of the threads.                  *)
LEMMA BufferFacts ==
  ASSUME BufferState
  PROVE  /\ proc = "alive" /\ running \in Tids /\ interrupts_enabled \in BOOLEAN
         /\ context \in [Tids -> Contexts] /\ inside \subseteq Tids
         /\ pc \in [Tids -> {"lock", "test", "work", "signal", "unlock"}]
         /\ cond_var_waiting_queue \in [CondVars -> Seq(Tids)]
         /\ wake_up_order \in [CondVars -> Seq(Tids)]
         /\ waits_on \in [Tids -> CondVars \cup {Null}]
         /\ running \in threads /\ threads \subseteq Tids
         /\ nextThreadToWakeUp \in Tids \cup {Null}
  BY LockFacts DEF BufferState, BufferTypeOK, HoareState, LockState, MonitorTypeOK

(* A thread in the queues of the condition variables does not run.         *)
LEMMA SleepersDoNotRun ==
  ASSUME BufferState
  PROVE  /\ running \notin Asleep
         /\ \A c \in CondVars : ToSet(cond_var_waiting_queue[c]) \subseteq Asleep
         /\ \A c \in CondVars : ToSet(wake_up_order[c]) \subseteq Asleep
         /\ nextThreadToWakeUp # Null => nextThreadToWakeUp \in Asleep
<1>1. Places(Able, running, interrupts_enabled, context, inside, ToSet(waiting_queue),
             Asleep)
  BY LockFacts DEF BufferState, HoareState, Lawful
<1>2. context[running] # "wait_unlock"
  BY BufferFacts DEF BufferState, ClientParts, Aloof
<1>3. running \notin Asleep
  BY <1>1, <1>2 DEF Places
<1> QED
  BY <1>3 DEF Asleep, Sleepers, SeqThreads

(* A thread in the middle of a call is where the call has put it.          *)
LEMMA MidCallPlaces ==
  ASSUME BufferState, NEW t \in Tids,
         MidCall(t, running, interrupts_enabled, context)
  PROVE  \/ context[t] \in {"lock", "wait"} /\ t \in Able
         \/ t = running /\ ~interrupts_enabled
         \/ context[t] = "lock" /\ t \in ToSet(waiting_queue)
         \/ context[t] = "wait" /\ t \in ToSet(cond_var_waiting_queue[OwnCV(t)])
         \/ context[t] = "signal" /\ \E c \in CondVars : t \in ToSet(wake_up_order[c])
         \/ context[t] = "signal" /\ t = nextThreadToWakeUp
<1>1. context[t] \in {"lock", "wait", "signal"} /\ ~(t = running /\ interrupts_enabled)
  BY DEF MidCall
<1>2. /\ t \in threads /\ finished_queue = {}
      /\ context[t] = "wait" => waits_on[t] = OwnCV(t)
  BY <1>1 DEF BufferState, ClientParts, Aloof
<1>3. /\ threads \subseteq {running} \cup Able \cup Joiners(join_queue)
                             \cup finished_queue \cup ToSet(waiting_queue) \cup Asleep
      /\ Waiters(cond_var_waiting_queue, context, waits_on)
  BY HoareFacts DEF BufferState, Promised
<1>4. /\ \A j \in Joiners(join_queue) : context[j] = "join"
      /\ Places(Able, running, interrupts_enabled, context, inside,
                ToSet(waiting_queue), Asleep)
  BY LockFacts DEF BufferState, HoareState, Lawful
<1>5. /\ t \in Able => context[t] # "signal"
      /\ t \in ToSet(waiting_queue) => context[t] = "lock"
  BY <1>4 DEF Places
<1>6. CASE t \in Asleep
  <2>1. \/ \E c \in CondVars : t \in ToSet(cond_var_waiting_queue[c])
        \/ \E c \in CondVars : t \in ToSet(wake_up_order[c])
        \/ t = nextThreadToWakeUp /\ t # Null
    BY <1>6 DEF Asleep, Sleepers, SeqThreads
  <2>2. ASSUME NEW c \in CondVars, t \in ToSet(cond_var_waiting_queue[c])
        PROVE  context[t] = "wait" /\ waits_on[t] = c
    BY <1>1, <1>3, <2>2 DEF Waiters
  <2>3. ASSUME NEW c \in CondVars, t \in ToSet(wake_up_order[c])
        PROVE  context[t] = "signal"
    BY <2>3 DEF BufferState, ClientParts, SignalsCross, InSignal
  <2>4. ASSUME t = nextThreadToWakeUp, t # Null PROVE context[t] = "signal"
    <3>1. inside # {}
      BY <2>4, HoareFacts DEF BufferState, Promised
    <3> QED
      BY <2>4, <3>1 DEF BufferState, ClientParts, SignalsCross, InSignal
  <2> QED
    BY <1>2, <2>1, <2>2, <2>3, <2>4
<1> QED
  BY <1>1, <1>2, <1>3, <1>4, <1>5, <1>6

(* While a thread runs inside, no other may place or take an item, or just *)
(* has.                                                                    *)
LEMMA AloneAtWork ==
  ASSUME BufferState, interrupts_enabled, running \in inside, NEW t \in Clients,
         Working(t, pc, cond_var_waiting_queue) \/ Signalling(t, pc)
  PROVE  t = running
<1>1. /\ inside = {running}
      /\ \A u \in Able : context[u] \notin {"lock", "wait"}
  BY InsideFacts DEF BufferState
<1>2. t \in Tids /\ Fits(t, running, interrupts_enabled, context, inside, pc)
  BY RoleFacts DEF BufferState, ClientParts
<1>3. SUFFICES ASSUME MidCall(t, running, interrupts_enabled, context) PROVE FALSE
  BY <1>1, <1>2 DEF Fits, Working, Signalling
<1>4. context[t] = "wait" /\ t \notin ToSet(cond_var_waiting_queue[OwnCV(t)])
  BY <1>2, <1>3 DEF Fits, MidCall, Working, Signalling
<1> QED
  BY <1>1, <1>2, <1>3, <1>4, MidCallPlaces

(* A thread that runs inside and is not in its own section finds no other  *)
(* thread of its role in one.                                              *)
LEMMA SectionIsFree ==
  ASSUME BufferState, interrupts_enabled, running \in inside,
         NEW t \in Clients, Between(t, pc), Role(t) = Role(running)
  PROVE  t = running
<1>1. /\ inside = {running}
      /\ \A u \in Able : context[u] \notin {"lock", "wait"}
  BY InsideFacts DEF BufferState
<1>2. t \in Tids /\ Fits(t, running, interrupts_enabled, context, inside, pc)
  BY RoleFacts DEF BufferState, ClientParts
<1>3. SUFFICES ASSUME MidCall(t, running, interrupts_enabled, context) PROVE FALSE
  BY <1>1, <1>2 DEF Fits, Between
<1>4. context[t] = "signal"
  BY <1>2, <1>3 DEF Fits, MidCall, Between
<1>5. /\ nextThreadToWakeUp # Null =>
           Owes(nextThreadToWakeUp, wake_up_order, context, waits_on)
      /\ nextThreadToWakeUp = Null => Idle(wake_up_order)
  BY <1>1, HoareFacts DEF BufferState, Promised
<1>6. nextThreadToWakeUp # Null =>
        InSignal(nextThreadToWakeUp, OwnCV(running), context, cond_var_waiting_queue)
  BY <1>1 DEF BufferState, ClientParts, SignalsCross
<1>7. Idle(wake_up_order)
  BY <1>5, <1>6 DEF Owes, InSignal
<1>8. \A c \in CondVars : t \notin ToSet(wake_up_order[c])
  BY <1>7, BufferFacts, Members DEF Idle
<1>9. t # nextThreadToWakeUp
  BY <1>2, <1>6, RoleFacts, MonitorAssumption DEF InSignal
<1> QED
  BY <1>2, <1>3, <1>4, <1>8, <1>9, MidCallPlaces

-----------------------------------------------------------------------------
(* The demo is a client of the monitor.                                    *)

(* A process that has died takes no step.                                  *)
LEMMA BufferAlive ==
  ASSUME BufferNext
  PROVE  proc = "alive"
  BY DEF BufferNext, ClientStep, buffer_lock_lock, test_and_wait, test_and_go,
     place_item, grab_item, signal_other, leave_and_unlock, main, preempted,
     switched_in, lock, unlock, wait, Outside, Inside, uthread_join, timeHandler,
     Calling, InUserCode, resumed, lock_resumed, unlock_resumed, wait_unlocked,
     wait_resumed, signal_resumed, Back

(* The main thread joins a producer.                                       *)
LEMMA FirstProducer ==
  (CHOOSE t \in Producers : \A u \in Producers : t <= u) \in Producers
<1>1. Producers \in SUBSET Nat /\ Producers # {}
  BY BoundedBufferAssumption, UThreadAssumption DEF Tids
<1>2. \E t \in Producers : \A u \in Producers : t <= u
  BY <1>1, LeastNumber
<1> QED
  BY <1>2

(* A running client past lock() is inside.                                 *)
LEMMA PastLockInside ==
  ASSUME BufferState, InUserCode, running # MAIN_THREAD, pc[running] # "lock"
  PROVE  running \in inside /\ running \in Clients
<1>1. running \in Clients
  BY BufferFacts, RoleFacts
<1>2. Fits(running, running, interrupts_enabled, context, inside, pc)
  BY <1>1 DEF BufferState, ClientParts
<1> QED
  BY <1>1, <1>2 DEF Fits, MidCall, InUserCode

(* A thread that signals a condition somebody waits for was not woken      *)
(* itself: then no thread of the other role would wait.                    *)
LEMMA SignallerWasNotWoken ==
  ASSUME BufferState, At("signal"), InUserCode,
         cond_var_waiting_queue[signalled_cv] # << >>
  PROVE  nextThreadToWakeUp = Null
<1>1. running \in inside /\ running \in Clients
  BY PastLockInside DEF At
<1>2. SUFFICES ASSUME nextThreadToWakeUp # Null PROVE FALSE
  OBVIOUS
<1>3. /\ OwnCV(nextThreadToWakeUp) # OwnCV(running)
      /\ cond_var_waiting_queue[OwnCV(nextThreadToWakeUp)] = << >>
  BY <1>1, <1>2 DEF BufferState, ClientParts, SignalsCross, InSignal
<1>4. signalled_cv = OwnCV(nextThreadToWakeUp)
  BY <1>3 DEF signalled_cv, OwnCV
<1> QED
  BY <1>3, <1>4

(* Steps that are no signal, or no signal of a woken thread.               *)
LEMMA NoSignal ==
  ASSUME BufferState,
         \/ ~interrupts_enabled \/ running \notin inside \/ inside' = inside
         \/ context'[running] # "signal" \/ lock_count' # lock_count \/ proc' # proc
         \/ nextThreadToWakeUp = Null
  PROVE  SignalsInTurn
<1>1. SUFFICES ASSUME NEW c \in CondVars, signal(c) \/ broadcast(c)
               PROVE  nextThreadToWakeUp = Null
  BY DEF SignalsInTurn
<1>2. context'[running] = "signal"
  BY <1>1, BufferFacts DEF signal, broadcast, Notify, switchToThread
<1> QED
  BY <1>1, <1>2 DEF signal, broadcast, Inside, Calling, InUserCode, Notify, Leave

(* Every step of the demo is a step of the lock and condition variables,   *)
(* and a woken thread never finds a thread to signal.                      *)
LEMMA DemoIsClient ==
  ASSUME BufferState, BufferNext
  PROVE  [Next]_vars /\ SignalsInTurn
<1>1. \A c : c = wanted_cv \/ c = signalled_cv => c \in CondVars
  BY BoundedBufferAssumption DEF wanted_cv, signalled_cv
<1>2. MAIN_THREAD \notin inside
  BY DEF BufferState, ClientParts, Aloof
<1>3. lock_count \in [Tids -> Nat] /\ running \in Tids
  BY BufferFacts, LockFacts DEF BufferState, HoareState
<1>4. CASE test_and_go \/ place_item \/ grab_item \/ (signal_other /\ UNCHANGED Library)
  <2>1. UNCHANGED vars
    BY <1>4 DEF test_and_go, place_item, grab_item, Library, vars
  <2>2. inside' = inside
    BY <2>1 DEF vars, monitorVars
  <2> QED
    BY <2>1, <2>2, NoSignal
<1>5. CASE signal_other /\ ~UNCHANGED Library
  <2>1. /\ signal(signalled_cv) /\ At("signal") /\ InUserCode
        /\ cond_var_waiting_queue[signalled_cv] # << >>
    BY <1>5 DEF signal_other
  <2>2. nextThreadToWakeUp = Null
    BY <2>1, SignallerWasNotWoken
  <2> QED
    BY <1>1, <2>1, <2>2, NoSignal DEF Next
<1>6. CASE buffer_lock_lock
  <2>1. lock /\ running \notin inside
    BY <1>6 DEF buffer_lock_lock, lock, Outside
  <2> QED
    BY <2>1, NoSignal DEF Next
<1>7. CASE test_and_wait
  <2>1. wait(wanted_cv)
    BY <1>7 DEF test_and_wait
  <2>2. context'[running] \in {"wait", "wait_unlock"} \/ proc' # proc
    BY <1>3, <2>1, BufferFacts DEF wait, HandBack, switchThreads, switchToThread
  <2> QED
    BY <1>1, <2>1, <2>2, NoSignal DEF Next
<1>8. CASE leave_and_unlock
  <2>1. unlock
    BY <1>8 DEF leave_and_unlock
  <2>2. lock_count' = [lock_count EXCEPT ![running] = @ - 1]
    BY <2>1 DEF unlock
  <2>3. lock_count' # lock_count
    BY <1>3, <2>2
  <2> QED
    BY <2>1, <2>3, NoSignal DEF Next
<1>9. CASE main
  <2>1. /\ running \notin inside
        /\ \E tid \in Tids : uthread_join(tid)
    BY <1>2, <1>9, FirstProducer, BoundedBufferAssumption DEF main
  <2>2. ThreadStep
    BY <1>9, <2>1 DEF ThreadStep, UThreadNext, main
  <2> QED
    BY <2>1, <2>2, NoSignal DEF Next
<1>10. CASE preempted
  <2>1. UNCHANGED queues /\ inside' = inside
    BY <1>10 DEF preempted, timeHandler, yield_body, Die, monitorVars
  <2>2. ThreadStep
    BY <1>10, <2>1 DEF ThreadStep, UThreadNext, preempted, queues
  <2> QED
    BY <2>1, <2>2, NoSignal DEF Next
<1>11. CASE switched_in
  <2>1. ~interrupts_enabled
    BY <1>11 DEF switched_in, resumed, lock_resumed, unlock_resumed, wait_unlocked,
       wait_resumed, signal_resumed, Back
  <2>2. resumed /\ UNCHANGED monitorVars => ThreadStep
    BY DEF resumed, ThreadStep, UThreadNext, queues
  <2> QED
    BY <1>11, <2>1, <2>2, NoSignal DEF switched_in, Next
<1> QED
  BY <1>4, <1>5, <1>6, <1>7, <1>8, <1>9, <1>10, <1>11 DEF BufferNext, ClientStep

-----------------------------------------------------------------------------
(* What a step may do to the invariant's parts.                            *)

\* Only the running thread's place changes, and a thread switched to is still
\* inside its call.
OneMoves ==
  /\ UNCHANGED <<threads, finished_queue>>
  /\ \A t \in Tids : t # running =>
       /\ context'[t] = context[t] /\ pc'[t] = pc[t] /\ waits_on'[t] = waits_on[t]
       /\ t \in inside' <=> t \in inside
  /\ running' = running \/ interrupts_enabled' = FALSE

\* What is required of the running thread.
MovesRightly ==
  /\ running \in Clients =>
       Fits(running, running', interrupts_enabled', context', inside', pc')
  /\ context'[running] \in {context[running], "yield", "join", "lock", "unlock",
                            "wait", "signal"}
  /\ context'[running] = "wait" => waits_on'[running] = OwnCV(running)
  /\ running = MAIN_THREAD =>
       running \notin inside' /\ context'[running] \in {"stub", "yield", "join"}

(* One thread moves: every thread still fits its program counter.          *)
LEMMA FitsKept ==
  ASSUME BufferState, OneMoves, MovesRightly
  PROVE  /\ \A t \in Clients : Fits(t, running, interrupts_enabled, context, inside, pc)'
         /\ Aloof(context, inside, threads, waits_on, finished_queue)'
<1>1. /\ running \in Tids /\ running \in threads
      /\ Aloof(context, inside, threads, waits_on, finished_queue)
  BY BufferFacts DEF BufferState, ClientParts
<1>2. ASSUME NEW t \in Clients
      PROVE  Fits(t, running', interrupts_enabled', context', inside', pc')
  <2>1. t \in Tids /\ Fits(t, running, interrupts_enabled, context, inside, pc)
    BY RoleFacts DEF BufferState, ClientParts
  <2>2. CASE t = running
    BY <1>1, <2>2 DEF MovesRightly
  <2>3. CASE t # running
    <3>1. /\ context'[t] = context[t] /\ pc'[t] = pc[t]
          /\ t \in inside' <=> t \in inside
          /\ t # running' \/ interrupts_enabled' = FALSE
      BY <2>1, <2>3 DEF OneMoves
    <3> QED
      BY <2>1, <2>3, <3>1 DEF Fits, MidCall
  <2> QED
    BY <2>2, <2>3
<1>3. ASSUME NEW t \in Tids
      PROVE  /\ context'[t] # "wait_unlock"
             /\ context'[t] = "wait" => waits_on'[t] = OwnCV(t)
             /\ context'[t] # "stub" => t \in threads'
  <2>1. CASE t = running
    BY <1>1, <2>1 DEF OneMoves, MovesRightly, Aloof
  <2>2. CASE t # running
    BY <1>1, <2>2 DEF OneMoves, Aloof
  <2> QED
    BY <2>1, <2>2
<1>4. /\ MAIN_THREAD \notin inside' /\ finished_queue' = {}
      /\ context'[MAIN_THREAD] \in {"stub", "yield", "join"}
  <2>1. MAIN_THREAD \in Tids
    BY UThreadAssumption
  <2>2. CASE running = MAIN_THREAD
    BY <1>1, <2>2 DEF OneMoves, MovesRightly, Aloof
  <2>3. CASE running # MAIN_THREAD
    BY <1>1, <2>1, <2>3 DEF OneMoves, Aloof
  <2> QED
    BY <2>2, <2>3
<1> QED
  BY <1>2, <1>3, <1>4 DEF Aloof

(* The number of items still suits the threads when none begins or ends    *)
(* its work.                                                               *)
LEMMA StockedKept ==
  ASSUME NEW p, NEW p2, NEW cvq, NEW k, Stocked(p, cvq, k),
         \A t \in Clients : /\ Working(t, p2, cvq) <=> Working(t, p, cvq)
                            /\ Signalling(t, p2) <=> Signalling(t, p)
  PROVE  Stocked(p2, cvq, k)
<1>1. /\ \A t \in Producers : Working(t, p2, cvq) <=> Working(t, p, cvq)
      /\ \A t \in Consumers : Working(t, p2, cvq) <=> Working(t, p, cvq)
      /\ \A t \in Producers : Signalling(t, p2) <=> Signalling(t, p)
      /\ \A t \in Consumers : Signalling(t, p2) <=> Signalling(t, p)
  BY DEF Clients
<1>2. SlotOpen(p2, cvq) <=> SlotOpen(p, cvq)
  BY <1>1 DEF SlotOpen
<1>3. ItemOpen(p2, cvq) <=> ItemOpen(p, cvq)
  BY <1>1 DEF ItemOpen
<1> QED
  BY <1>1, <1>2, <1>3 DEF Stocked

(* The threads in signal() still are when nobody begins to wait.           *)
LEMMA CrossKept ==
  ASSUME BufferState, OneMoves, wake_up_order' = wake_up_order,
         nextThreadToWakeUp' = Null \/
           /\ nextThreadToWakeUp' = nextThreadToWakeUp
           /\ \A t \in inside' : t \in inside /\ (pc[t] # "test" => pc'[t] # "test"),
         \A c \in CondVars :
           cond_var_waiting_queue[c] = << >> => cond_var_waiting_queue'[c] = << >>
  PROVE  SignalsCross(nextThreadToWakeUp, wake_up_order, cond_var_waiting_queue,
                      inside, context, pc)'
<1> DEFINE n == nextThreadToWakeUp
           cvq == cond_var_waiting_queue
           cvq2 == cond_var_waiting_queue'
           ctx2 == context'
<1>1. /\ SignalsCross(n, wake_up_order, cvq, inside, context, pc)
      /\ wake_up_order \in [CondVars -> Seq(Tids)] /\ inside \subseteq Tids
      /\ nextThreadToWakeUp \in Tids \cup {Null}
  BY BufferFacts DEF BufferState, ClientParts
<1>2. ASSUME NEW t \in Tids, t # running, NEW c, InSignal(t, c, context, cvq)
      PROVE  InSignal(t, c, ctx2, cvq2)
  BY <1>2, RoleFacts DEF InSignal, OneMoves
<1>3. ASSUME NEW c \in CondVars, NEW t \in ToSet(wake_up_order[c])
      PROVE  t \in Tids /\ t # running
  BY <1>1, <1>3, SleepersDoNotRun, Members
<1>4. n # Null => n \in Tids /\ n # running
  BY <1>1, SleepersDoNotRun
<1> HIDE DEF cvq2, ctx2
<1>5. SignalsCross(nextThreadToWakeUp', wake_up_order, cvq2, inside', ctx2, pc')
  <2>1. ASSUME NEW c \in CondVars, NEW t \in ToSet(wake_up_order[c])
        PROVE  InSignal(t, c, ctx2, cvq2)
    BY <1>1, <1>2, <1>3, <2>1 DEF SignalsCross
  <2>2. ASSUME nextThreadToWakeUp' # Null, NEW t \in inside'
        PROVE  InSignal(n, OwnCV(t), ctx2, cvq2) /\ pc'[t] # "test"
    BY <1>1, <1>2, <1>4, <2>2 DEF SignalsCross
  <2>3. nextThreadToWakeUp' # Null => nextThreadToWakeUp' = n
    OBVIOUS
  <2> QED
    BY <2>1, <2>2, <2>3 DEF SignalsCross
<1> QED
  BY <1>5 DEF cvq2, ctx2

-----------------------------------------------------------------------------
(* The steps inside the library.                                           *)

(* They leave the demo's variables and the waiting queues alone.           *)
LEMMA LibraryStep ==
  ASSUME BufferState, OneMoves, MovesRightly, UNCHANGED bufferVars,
         UNCHANGED cond_var_waiting_queue,
         SignalsCross(nextThreadToWakeUp, wake_up_order, cond_var_waiting_queue,
                      inside, context, pc)'
  PROVE  ClientParts'
<1>1. UNCHANGED <<pc, in_critical_section, item_count>>
  BY DEF bufferVars, sharedVars
<1>2. Flagged(pc, in_critical_section)'
  BY <1>1 DEF BufferState, ClientParts
<1>3. Stocked(pc, cond_var_waiting_queue, item_count)'
  BY <1>1 DEF BufferState, ClientParts
<1> QED
  BY <1>2, <1>3, FitsKept DEF ClientParts

(* The processor goes to another thread: the running one was preempted, or *)
(* is the main thread and joins.                                           *)
LEMMA SwitchStep ==
  ASSUME BufferState, proc' = "alive",
         UNCHANGED <<bufferVars, monitorVars, threads, finished_queue>>,
         NEW c \in {"yield", "join"}, c = "join" => running = MAIN_THREAD,
         interrupts_enabled, interrupts_enabled' = FALSE,
         context' = [context EXCEPT ![running] = c]
  PROVE  ClientParts'
<1>1. /\ UNCHANGED <<pc, inside, waits_on, wake_up_order, nextThreadToWakeUp>>
      /\ UNCHANGED cond_var_waiting_queue
  BY DEF bufferVars, monitorVars, lockVars, condVars
<1>2. /\ context'[running] = c
      /\ \A t \in Tids : t # running => context'[t] = context[t]
  BY BufferFacts
<1>3. OneMoves
  BY <1>1, <1>2 DEF OneMoves
<1>4. MovesRightly
  <2>1. running \in Clients =>
          Fits(running, running, interrupts_enabled, context, inside, pc)
    BY DEF BufferState, ClientParts
  <2>2. running \in Clients => c = "yield"
    BY RoleFacts
  <2>3. MAIN_THREAD \notin inside
    BY DEF BufferState, ClientParts, Aloof
  <2> QED
    BY <1>1, <1>2, <2>1, <2>2, <2>3 DEF MovesRightly, Fits, MidCall
<1>5. SignalsCross(nextThreadToWakeUp, wake_up_order, cond_var_waiting_queue,
                   inside, context, pc)'
  BY <1>1, <1>3, CrossKept
<1> QED
  BY <1>1, <1>3, <1>4, <1>5, LibraryStep

(* The main thread's join.                                                 *)
LEMMA MainStep ==
  ASSUME BufferState, main, proc' = "alive"
  PROVE  ClientParts'
<1> DEFINE tid == CHOOSE t \in Producers : \A u \in Producers : t <= u
<1>1. tid \notin finished_queue /\ proc = "alive"
  BY BufferFacts DEF BufferState, ClientParts, Aloof
<1>2. /\ running = MAIN_THREAD /\ interrupts_enabled /\ uthread_join(tid)
      /\ UNCHANGED <<monitorVars, bufferVars>>
  BY DEF main, uthread_join, Calling, InUserCode
<1> HIDE DEF tid
<1>3. switchThreads(ready, "join") /\ UNCHANGED <<threads, finished_queue>>
  BY <1>1, <1>2 DEF uthread_join
<1>4. /\ interrupts_enabled' = FALSE
      /\ context' = [context EXCEPT ![running] = "join"]
  BY <1>1, <1>3 DEF switchThreads, switchToThread
<1> QED
  BY <1>2, <1>3, <1>4, SwitchStep

(* The timer.                                                              *)
LEMMA PreemptedStep ==
  ASSUME BufferState, preempted, proc' = "alive"
  PROVE  ClientParts'
<1>1. /\ interrupts_enabled /\ proc = "alive" /\ yield_body
      /\ UNCHANGED <<monitorVars, bufferVars>>
  BY BufferFacts DEF preempted, timeHandler, InUserCode
<1>2. /\ \E rdy : switchThreads(rdy, "yield")
      /\ UNCHANGED <<table, queues>>
  BY <1>1 DEF yield_body, Die, BoostingFault
<1>3. /\ interrupts_enabled' = FALSE
      /\ context' = [context EXCEPT ![running] = "yield"]
  BY <1>1, <1>2 DEF switchThreads, switchToThread
<1>4. UNCHANGED <<threads, finished_queue>>
  BY <1>2 DEF table, queues
<1> QED
  BY <1>1, <1>3, <1>4, SwitchStep

(* A call that was switched out returns with the lock, or without it: k    *)
(* says where the call was left.                                           *)
LEMMA ReturnStep ==
  ASSUME BufferState, ~interrupts_enabled, interrupts_enabled' = TRUE,
         UNCHANGED <<bufferVars, threads, finished_queue, running, context,
                     cond_var_waiting_queue, waits_on>>,
         \/ /\ context[running] \in {"stub", "yield", "suspend", "unlock"}
            /\ inside' = inside
         \/ /\ context[running] \in {"lock", "wait", "signal"}
            /\ inside' = inside \cup {running},
         SignalsCross(nextThreadToWakeUp, wake_up_order, cond_var_waiting_queue,
                      inside, context, pc)'
  PROVE  ClientParts'
<1>1. pc' = pc
  BY DEF bufferVars
<1>2. OneMoves
  BY <1>1 DEF OneMoves
<1>3. Aloof(context, inside, threads, waits_on, finished_queue) /\ running \in Tids
  BY BufferFacts DEF BufferState, ClientParts
<1>4. MovesRightly
  <2>1. ASSUME running \in Clients
        PROVE  Fits(running, running', interrupts_enabled', context', inside', pc')
    <3>1. Fits(running, running, interrupts_enabled, context, inside, pc)
      BY <2>1 DEF BufferState, ClientParts
    <3> QED
      BY <1>1, <3>1 DEF Fits, MidCall
  <2> QED
    BY <1>3, <2>1 DEF MovesRightly, Aloof
<1> QED
  BY <1>2, <1>4, LibraryStep

(* A call that is back with the lock is the only thread that has it.       *)
LEMMA BackIsAlone ==
  ASSUME BufferState, ~interrupts_enabled, context[running] \in {"lock", "wait", "signal"}
  PROVE  inside = {} /\ nextThreadToWakeUp = Null
<1>1. inside = {}
  BY LockFacts, BackAlone DEF BufferState, HoareState
<1> QED
  BY <1>1, HoareFacts DEF BufferState, Promised

(* lock() and signal() return with the lock.                               *)
LEMMA EnteredStep ==
  ASSUME BufferState, (lock_resumed \/ signal_resumed) /\ UNCHANGED bufferVars
  PROVE  ClientParts'
<1>1. /\ ~interrupts_enabled /\ interrupts_enabled' = TRUE
      /\ context[running] \in {"lock", "signal"} /\ inside' = inside \cup {running}
      /\ UNCHANGED <<bufferVars, table, queues, running, context, lockVars, condVars>>
  BY DEF lock_resumed, signal_resumed, Back, Enter
<1>2. UNCHANGED <<threads, finished_queue, cond_var_waiting_queue, waits_on,
                  wake_up_order, nextThreadToWakeUp, pc>>
  BY <1>1 DEF table, queues, lockVars, condVars, bufferVars
<1>3. nextThreadToWakeUp' = Null
  BY <1>1, <1>2, BackIsAlone
<1>4. OneMoves
  BY <1>1, <1>2 DEF OneMoves
<1>5. SignalsCross(nextThreadToWakeUp, wake_up_order, cond_var_waiting_queue,
                   inside, context, pc)'
  BY <1>2, <1>3, <1>4, CrossKept
<1> QED
  BY <1>1, <1>2, <1>5, ReturnStep

(* A thread goes on after a switch that was not about the lock.            *)
LEMMA WentOnStep ==
  ASSUME BufferState, (resumed /\ UNCHANGED monitorVars) \/ unlock_resumed,
         UNCHANGED bufferVars
  PROVE  ClientParts'
<1>1. /\ ~interrupts_enabled /\ interrupts_enabled' = TRUE
      /\ context[running] \in {"stub", "yield", "suspend", "unlock"}
      /\ UNCHANGED <<bufferVars, table, queues, running, context, monitorVars>>
  BY DEF resumed, unlock_resumed, Back
<1>2. UNCHANGED <<threads, finished_queue, cond_var_waiting_queue, waits_on,
                  wake_up_order, nextThreadToWakeUp, pc, inside>>
  BY <1>1 DEF table, queues, monitorVars, lockVars, condVars, bufferVars
<1>3. OneMoves
  BY <1>1, <1>2 DEF OneMoves
<1>4. SignalsCross(nextThreadToWakeUp, wake_up_order, cond_var_waiting_queue,
                   inside, context, pc)'
  BY <1>2, <1>3, CrossKept
<1> QED
  BY <1>1, <1>2, <1>4, ReturnStep

(* A woken thread names the thread that woke it as the next to get the     *)
(* lock.                                                                   *)
LEMMA WokenStep ==
  ASSUME BufferState, wait_resumed, UNCHANGED bufferVars, proc' = "alive"
  PROVE  ClientParts'
<1> DEFINE c == OwnCV(running)
           order == wake_up_order[c]
           cvq == cond_var_waiting_queue
           wo2 == [wake_up_order EXCEPT ![c] = Tail(order)]
<1>1. ~interrupts_enabled /\ context[running] = "wait" /\ running \in Tids
  BY BufferFacts DEF wait_resumed, Back
<1>2. waits_on[running] = c /\ c \in CondVars
  BY <1>1, RoleFacts DEF BufferState, ClientParts, Aloof
<1>3. /\ order # << >> /\ nextThreadToWakeUp' = Head(order) /\ wake_up_order' = wo2
      /\ interrupts_enabled' = TRUE /\ inside' = inside \cup {running}
      /\ UNCHANGED <<table, queues, running, context, cond_var_waiting_queue, waits_on>>
  BY <1>2, BufferFacts DEF wait_resumed, Die, next_to_wake, Enter
<1>4. UNCHANGED <<threads, finished_queue, pc>>
  BY <1>3 DEF table, queues, bufferVars
<1>5. order \in Seq(Tids) /\ wake_up_order \in [CondVars -> Seq(Tids)]
  BY <1>2, BufferFacts
<1>6. Head(order) \in ToSet(order) /\ ToSet(Tail(order)) \subseteq ToSet(order)
  <2>1. Head(order) = order[1] /\ 1 \in 1 .. Len(order)
    BY <1>3, <1>5
  <2>2. Tail(order) \in Seq(Tids) /\ ToSet(Tail(order)) \subseteq ToSet(order)
    <3> HIDE DEF order
    <3> QED
      BY <1>3, <1>5, TailMembers
  <2> QED
    BY <1>5, <2>1, <2>2, Members
<1>7. \A d \in CondVars : \A t \in ToSet(wake_up_order[d]) : InSignal(t, d, context, cvq)
  BY DEF BufferState, ClientParts, SignalsCross
<1>8. running \in Clients /\ pc[running] = "work" /\ inside = {}
  <2>1. running \in Clients
    BY <1>1, RoleFacts DEF BufferState, ClientParts, Aloof
  <2>2. Fits(running, running, interrupts_enabled, context, inside, pc)
    BY <2>1 DEF BufferState, ClientParts
  <2> QED
    BY <1>1, <2>1, <2>2, BackIsAlone DEF Fits, MidCall
<1>9. SignalsCross(Head(order), wo2, cvq, {running}, context, pc)
  <2>1. ASSUME NEW d \in CondVars, NEW t \in ToSet(wo2[d])
        PROVE  InSignal(t, d, context, cvq)
    <3>1. t \in ToSet(wake_up_order[d])
      BY <1>2, <1>5, <1>6, <2>1
    <3> QED
      BY <1>7, <3>1
  <2>2. InSignal(Head(order), OwnCV(running), context, cvq)
    BY <1>2, <1>6, <1>7
  <2> HIDE DEF wo2, order
  <2> QED
    BY <1>8, <2>1, <2>2 DEF SignalsCross
<1>10. SignalsCross(nextThreadToWakeUp, wake_up_order, cond_var_waiting_queue,
                    inside, context, pc)'
  BY <1>3, <1>4, <1>8, <1>9
<1> QED
  BY <1>1, <1>3, <1>4, <1>10, ReturnStep

(* The steps inside the library keep the demo's part of the invariant.     *)
LEMMA SwitchedInStep ==
  ASSUME BufferState, switched_in, proc' = "alive"
  PROVE  ClientParts'
<1>1. ~wait_unlocked
  BY BufferFacts DEF wait_unlocked, Back, BufferState, ClientParts, Aloof
<1> QED
  BY <1>1, EnteredStep, WentOnStep, WokenStep DEF switched_in

-----------------------------------------------------------------------------
(* The demo's own steps, and its calls of the lock.                        *)

(* The program counter of the running thread moves.                        *)
LEMMA GoneTo ==
  ASSUME BufferState,
         NEW where \in {"lock", "test", "work", "signal", "unlock"}, Goto(where)
  PROVE  pc'[running] = where /\ \A t \in Tids : t # running => pc'[t] = pc[t]
  BY BufferFacts DEF Goto

(* The flags still suit the threads when none begins or ends its section.  *)
LEMMA FlaggedKept ==
  ASSUME NEW p, NEW p2, NEW ics, Flagged(p, ics),
         \A t \in Clients : Between(t, p2) <=> Between(t, p)
  PROVE  Flagged(p2, ics)
  BY DEF Flagged

(* lock(): the caller is inside, or waits for the lock.                    *)
LEMMA LockCallStep ==
  ASSUME BufferState, buffer_lock_lock, proc' = "alive"
  PROVE  ClientParts'
<1>1. /\ running # MAIN_THREAD /\ pc[running] = "lock" /\ running \notin inside
      /\ interrupts_enabled /\ running \in Tids /\ running \in Clients
      /\ UNCHANGED <<table, queues, nextThreadToWakeUp, condVars, sharedVars>>
  BY BufferFacts, RoleFacts DEF buffer_lock_lock, At, lock, Outside, Calling, InUserCode
<1>2. /\ UNCHANGED <<threads, finished_queue, cond_var_waiting_queue, wake_up_order,
                     waits_on, item_count, in_critical_section>>
  BY <1>1 DEF table, queues, condVars, sharedVars
<1>3. pc'[running] = "test" /\ \A t \in Tids : t # running => pc'[t] = pc[t]
  BY GoneTo DEF buffer_lock_lock
<1>4. Aloof(context, inside, threads, waits_on, finished_queue)
  BY DEF BufferState, ClientParts
<1>5. /\ Flagged(pc, in_critical_section)
      /\ Stocked(pc, cond_var_waiting_queue, item_count)
  BY DEF BufferState, ClientParts
<1>6. \A t \in Clients : t \in Tids
  BY RoleFacts
<1>7. Flagged(pc', in_critical_section)
  BY <1>1, <1>3, <1>5, <1>6, FlaggedKept DEF Between
<1>8. Stocked(pc', cond_var_waiting_queue, item_count)
  <2>1. ASSUME NEW t \in Clients
        PROVE  /\ Working(t, pc', cond_var_waiting_queue)
                    <=> Working(t, pc, cond_var_waiting_queue)
               /\ Signalling(t, pc') <=> Signalling(t, pc)
    BY <1>1, <1>3, <1>6 DEF Working, Signalling
  <2> QED
    BY <1>5, <2>1, StockedKept
<1>9. CASE taken
  <2>1. /\ interrupts_enabled' = FALSE /\ inside' = inside
        /\ context' = [context EXCEPT ![running] = "lock"]
    BY <1>9, BufferFacts DEF buffer_lock_lock, lock, switchThreads, switchToThread
  <2>2. context'[running] = "lock" /\ \A t \in Tids : t # running => context'[t] = context[t]
    BY <2>1, BufferFacts
  <2>3. OneMoves
    BY <1>2, <1>3, <2>1, <2>2 DEF OneMoves
  <2>4. MovesRightly
    BY <1>1, <1>3, <2>1, <2>2 DEF MovesRightly, Fits, MidCall
  <2>5. \A t \in inside' : t \in inside /\ (pc[t] # "test" => pc'[t] # "test")
    BY <1>1, <1>3, <2>1, BufferFacts
  <2>6. SignalsCross(nextThreadToWakeUp, wake_up_order, cond_var_waiting_queue,
                     inside, context, pc)'
    BY <1>1, <1>2, <2>3, <2>5, CrossKept
  <2> QED
    BY <1>2, <1>7, <1>8, <2>3, <2>4, <2>6, FitsKept DEF ClientParts
<1>10. CASE ~taken
  <2>1. /\ UNCHANGED <<running, context, interrupts_enabled>>
        /\ inside' = inside \cup {running}
    BY <1>10 DEF buffer_lock_lock, lock, Enter
  <2>2. nextThreadToWakeUp' = Null
    <3>1. value = 0
      BY <1>10, LockFacts DEF BufferState, HoareState, taken
    <3> QED
      BY <1>1, <3>1, HoareFacts DEF BufferState
  <2>3. OneMoves
    BY <1>2, <1>3, <2>1 DEF OneMoves
  <2>4. MovesRightly
    BY <1>1, <1>2, <1>3, <1>4, <2>1 DEF MovesRightly, Fits, MidCall, Aloof
  <2>5. SignalsCross(nextThreadToWakeUp, wake_up_order, cond_var_waiting_queue,
                     inside, context, pc)'
    BY <1>2, <2>2, <2>3, CrossKept
  <2> QED
    BY <1>2, <1>7, <1>8, <2>3, <2>4, <2>5, FitsKept DEF ClientParts
<1> QED
  BY <1>9, <1>10

(* unlock(): the flag is cleared, and the lock freed, passed on or handed  *)
(* back.                                                                   *)
LEMMA LeaveStep ==
  ASSUME BufferState, leave_and_unlock, proc' = "alive"
  PROVE  ClientParts'
<1> DEFINE ics2 == [in_critical_section EXCEPT ![Role(running)] = FALSE]
<1>1. /\ running # MAIN_THREAD /\ pc[running] = "unlock" /\ running \in inside
      /\ interrupts_enabled /\ running \in Tids /\ running \in Clients
      /\ UNCHANGED <<table, queues, condVars, item_count>>
      /\ in_critical_section' = ics2
  BY BufferFacts, RoleFacts DEF leave_and_unlock, At, unlock, Inside, Calling, InUserCode
<1>2. /\ UNCHANGED <<threads, finished_queue, cond_var_waiting_queue, wake_up_order,
                     waits_on>>
  BY <1>1 DEF table, queues, condVars
<1>3. pc'[running] = "lock" /\ \A t \in Tids : t # running => pc'[t] = pc[t]
  BY GoneTo DEF leave_and_unlock
<1>4. /\ Aloof(context, inside, threads, waits_on, finished_queue)
      /\ Flagged(pc, in_critical_section)
      /\ Stocked(pc, cond_var_waiting_queue, item_count)
      /\ in_critical_section \in [Roles -> BOOLEAN]
  BY DEF BufferState, ClientParts, BufferTypeOK
<1>5. \A t \in Clients : t \in Tids /\ Role(t) \in Roles
  BY RoleFacts
<1>6. Flagged(pc', ics2)
  <2>1. \A t \in Clients : Between(t, pc') <=> Between(t, pc) /\ t # running
    BY <1>1, <1>3, <1>5 DEF Between
  <2>2. ASSUME NEW t \in Clients, Between(t, pc') PROVE ics2[Role(t)]
    <3>1. Role(t) # Role(running)
      BY <1>1, <1>4, <2>1, <2>2 DEF Flagged, Between
    <3> QED
      BY <1>4, <1>5, <2>1, <2>2, <3>1 DEF Flagged
  <2>3. ASSUME NEW r \in Roles, ics2[r]
        PROVE  \E t \in Clients : Role(t) = r /\ Between(t, pc')
    <3>1. r # Role(running) /\ in_critical_section[r]
      BY <1>1, <1>4, <2>3
    <3>2. PICK t \in Clients : Role(t) = r /\ Between(t, pc)
      BY <1>4, <3>1 DEF Flagged
    <3> QED
      BY <2>1, <3>1, <3>2
  <2>4. ASSUME NEW s \in Clients, NEW t \in Clients, Role(s) = Role(t),
               Between(s, pc'), Between(t, pc')
        PROVE  s = t
    BY <1>4, <2>1, <2>4 DEF Flagged
  <2> HIDE DEF ics2
  <2> QED
    BY <2>2, <2>3, <2>4 DEF Flagged
<1>7. Stocked(pc', cond_var_waiting_queue, item_count)
  <2>1. ASSUME NEW t \in Clients
        PROVE  /\ Working(t, pc', cond_var_waiting_queue)
                    <=> Working(t, pc, cond_var_waiting_queue)
               /\ Signalling(t, pc') <=> Signalling(t, pc)
    BY <1>1, <1>3, <1>5 DEF Working, Signalling
  <2> QED
    BY <1>4, <2>1, StockedKept
<1>8. /\ inside' = inside \ {running} /\ nextThreadToWakeUp' = Null
      /\ \/ /\ interrupts_enabled' = FALSE
            /\ context' = [context EXCEPT ![running] = "unlock"]
         \/ UNCHANGED <<running, context, interrupts_enabled>>
  BY DEF leave_and_unlock, unlock, HandBack, Release, switchToThread, Leave
<1>9. /\ context'[running] \in {context[running], "unlock"}
      /\ context'[running] = "unlock" \/ UNCHANGED <<running, context, interrupts_enabled>>
      /\ \A t \in Tids : t # running => context'[t] = context[t]
  BY <1>1, <1>8, BufferFacts
<1>10. OneMoves
  BY <1>2, <1>3, <1>8, <1>9 DEF OneMoves
<1>11. MovesRightly
  <2>1. context'[running] = "wait" => waits_on'[running] = OwnCV(running)
    BY <1>1, <1>2, <1>4, <1>9 DEF Aloof
  <2>2. Fits(running, running', interrupts_enabled', context', inside', pc')
    BY <1>1, <1>3, <1>8, <1>9 DEF Fits, MidCall
  <2> QED
    BY <1>1, <1>9, <2>1, <2>2 DEF MovesRightly
<1>12. SignalsCross(nextThreadToWakeUp, wake_up_order, cond_var_waiting_queue,
                    inside, context, pc)'
  BY <1>2, <1>8, <1>10, CrossKept
<1> QED
  BY <1>1, <1>2, <1>6, <1>7, <1>10, <1>11, <1>12, FitsKept DEF ClientParts

\* Stocked when no thread but r may place or take an item or just has.
Alone(r, p, cvq) ==
  \A t \in Clients : Working(t, p, cvq) \/ Signalling(t, p) => t = r
TakesSlot(r, p, cvq) == \/ Role(r) = "producer" /\ Working(r, p, cvq)
                        \/ Role(r) # "producer" /\ Signalling(r, p)
TakesItem(r, p, cvq) == \/ Role(r) # "producer" /\ Working(r, p, cvq)
                        \/ Role(r) = "producer" /\ Signalling(r, p)
StockedFor(r, p, cvq, k) ==
  /\ cvq[need_space_cv] # << >> =>
       k = IF TakesSlot(r, p, cvq) THEN SHARED_BUFFER_SIZE - 1 ELSE SHARED_BUFFER_SIZE
  /\ cvq[need_item_cv] # << >> => k = IF TakesItem(r, p, cvq) THEN 1 ELSE 0
  /\ Role(r) = "producer" /\ Working(r, p, cvq) => k < SHARED_BUFFER_SIZE
  /\ Role(r) # "producer" /\ Working(r, p, cvq) => k > 0
  /\ cvq[need_space_cv] = << >> \/ cvq[need_item_cv] = << >>

(* The stock depends on the thread at work only.                           *)
LEMMA StockedByOne ==
  ASSUME NEW r \in Clients, NEW p, NEW cvq, NEW k, Alone(r, p, cvq)
  PROVE  Stocked(p, cvq, k) <=> StockedFor(r, p, cvq, k)
<1>1. /\ \A t \in Clients : /\ t \in Producers <=> Role(t) = "producer"
                            /\ t \in Consumers <=> Role(t) = "consumer"
      /\ \A t : Role(t) \in {"producer", "consumer"}
      /\ \A t \in Producers : t \in Clients
      /\ \A t \in Consumers : t \in Clients
  BY RoleFacts DEF Roles
<1>2. SlotOpen(p, cvq) = TakesSlot(r, p, cvq)
  BY <1>1 DEF SlotOpen, Alone, TakesSlot
<1>3. ItemOpen(p, cvq) = TakesItem(r, p, cvq)
  BY <1>1 DEF ItemOpen, Alone, TakesItem
<1>4. (\A t \in Producers : Working(t, p, cvq) => k < SHARED_BUFFER_SIZE)
        <=> (Role(r) = "producer" /\ Working(r, p, cvq) => k < SHARED_BUFFER_SIZE)
  BY <1>1 DEF Alone
<1>5. (\A t \in Consumers : Working(t, p, cvq) => k > 0)
        <=> (Role(r) # "producer" /\ Working(r, p, cvq) => k > 0)
  BY <1>1 DEF Alone
<1> QED
  BY <1>2, <1>3, <1>4, <1>5 DEF Stocked, StockedFor

(* The running thread past lock() is alone at work.                        *)
LEMMA RunnerAlone ==
  ASSUME BufferState, InUserCode, running # MAIN_THREAD, pc[running] # "lock"
  PROVE  /\ running \in inside /\ running \in Clients /\ interrupts_enabled
         /\ Alone(running, pc, cond_var_waiting_queue)
         /\ StockedFor(running, pc, cond_var_waiting_queue, item_count)
         /\ running \notin ToSet(cond_var_waiting_queue[OwnCV(running)])
<1>1. running \in inside /\ running \in Clients /\ interrupts_enabled
  BY PastLockInside DEF InUserCode
<1>2. Alone(running, pc, cond_var_waiting_queue)
  BY <1>1, AloneAtWork DEF Alone
<1>3. StockedFor(running, pc, cond_var_waiting_queue, item_count)
  BY <1>1, <1>2, StockedByOne DEF BufferState, ClientParts
<1>4. running \notin ToSet(cond_var_waiting_queue[OwnCV(running)])
  BY SleepersDoNotRun, RoleFacts
<1> QED
  BY <1>1, <1>2, <1>3, <1>4

(* A step of the demo's own code moves the running thread only.            *)
LEMMA OwnStep ==
  ASSUME BufferState, InUserCode, running # MAIN_THREAD, pc[running] # "lock",
         NEW where \in {"work", "signal", "unlock"}, Goto(where), UNCHANGED Library
  PROVE  /\ \A t \in Clients : Fits(t, running, interrupts_enabled, context, inside, pc)'
         /\ Aloof(context, inside, threads, waits_on, finished_queue)'
         /\ SignalsCross(nextThreadToWakeUp, wake_up_order, cond_var_waiting_queue,
                         inside, context, pc)'
         /\ UNCHANGED cond_var_waiting_queue
<1>1. UNCHANGED <<threads, finished_queue, running, context, interrupts_enabled, inside,
                  nextThreadToWakeUp, wake_up_order, cond_var_waiting_queue, waits_on>>
  BY DEF Library, uthreadVars, monitorVars, lockVars, condVars, table, queues
<1>2. running \in inside /\ running \in Clients
  BY PastLockInside
<1>3. pc'[running] = where /\ \A t \in Tids : t # running => pc'[t] = pc[t]
  BY GoneTo
<1>4. OneMoves
  BY <1>1, <1>3 DEF OneMoves
<1>5. Aloof(context, inside, threads, waits_on, finished_queue) /\ running \in Tids
  BY BufferFacts DEF BufferState, ClientParts
<1>6. MovesRightly
  BY <1>1, <1>2, <1>3, <1>5 DEF MovesRightly, Fits, MidCall, Aloof, InUserCode
<1>7. \A t \in inside' : t \in inside /\ (pc[t] # "test" => pc'[t] # "test")
  BY <1>1, <1>3, BufferFacts
<1> QED
  BY <1>1, <1>4, <1>6, <1>7, FitsKept, CrossKept

(* The test finds a slot or an item.                                       *)
LEMMA GoStep ==
  ASSUME BufferState, test_and_go
  PROVE  ClientParts'
<1> DEFINE cvq == cond_var_waiting_queue
<1>1. /\ InUserCode /\ running # MAIN_THREAD /\ pc[running] = "test" /\ ~must_wait
      /\ Goto("work") /\ UNCHANGED <<Library, sharedVars>>
  BY DEF test_and_go, At
<1>2. UNCHANGED <<item_count, in_critical_section, cond_var_waiting_queue>>
  BY <1>1 DEF sharedVars, Library, monitorVars, condVars
<1>3. pc'[running] = "work" /\ \A t \in Tids : t # running => pc'[t] = pc[t]
  BY <1>1, GoneTo
<1>4. /\ running \in Clients /\ Alone(running, pc, cvq)
      /\ StockedFor(running, pc, cvq, item_count)
  BY <1>1, RunnerAlone
<1>5. Alone(running, pc', cvq)
  BY <1>3, <1>4, RoleFacts DEF Alone, Working, Signalling
<1>6. StockedFor(running, pc', cvq, item_count)
  <2>1. ~Working(running, pc, cvq) /\ ~Signalling(running, pc) /\ ~Signalling(running, pc')
    BY <1>1, <1>3 DEF Working, Signalling
  <2>2. IF Role(running) = "producer" THEN item_count # SHARED_BUFFER_SIZE
                                      ELSE item_count # 0
    BY <1>1 DEF must_wait
  <2>3. item_count \in 0 .. SHARED_BUFFER_SIZE /\ SHARED_BUFFER_SIZE \in Nat
    BY BoundedBufferAssumption DEF BufferState, Ring
  <2> QED
    BY <1>4, <2>1, <2>2, <2>3 DEF StockedFor, TakesSlot, TakesItem
<1>7. Stocked(pc', cvq, item_count)
  BY <1>4, <1>5, <1>6, StockedByOne
<1>8. Flagged(pc', in_critical_section)
  <2>1. Flagged(pc, in_critical_section)
    BY DEF BufferState, ClientParts
  <2> QED
    BY <1>1, <1>3, <2>1, RoleFacts, FlaggedKept DEF Between
<1> QED
  BY <1>1, <1>2, <1>7, <1>8, OwnStep DEF ClientParts

(* The test finds the buffer full or empty: the thread waits, and no       *)
(* thread of the other role does.                                          *)
LEMMA WaitCallStep ==
  ASSUME BufferState, test_and_wait, proc' = "alive"
  PROVE  ClientParts'
<1> DEFINE c == OwnCV(running)
           cvq == cond_var_waiting_queue
           cvq2 == [cvq EXCEPT ![c] = Append(@, running)]
<1>1. /\ running # MAIN_THREAD /\ pc[running] = "test" /\ must_wait
      /\ wait(c) /\ UNCHANGED sharedVars /\ InUserCode
  BY DEF test_and_wait, At, wanted_cv, OwnCV, wait, Inside, Calling
<1>2. /\ running \in inside /\ running \in Clients /\ interrupts_enabled
      /\ Alone(running, pc, cvq) /\ StockedFor(running, pc, cvq, item_count)
      /\ running \in Tids /\ c \in CondVars /\ cvq \in [CondVars -> Seq(Tids)]
      /\ inside = {running}
  BY <1>1, RunnerAlone, RoleFacts, BufferFacts, InsideFacts DEF BufferState
<1>3. nextThreadToWakeUp = Null /\ Idle(wake_up_order)
  <2>1. nextThreadToWakeUp = Null
    BY <1>1, <1>2 DEF BufferState, ClientParts, SignalsCross
  <2> QED
    BY <1>2, <2>1, HoareFacts DEF BufferState, Promised
<1>4. /\ cond_var_waiting_queue' = cvq2 /\ wake_up_order' = wake_up_order
      /\ waits_on' = [waits_on EXCEPT ![running] = c]
      /\ inside' = inside \ {running} /\ nextThreadToWakeUp' = Null
      /\ interrupts_enabled' = FALSE
      /\ context' = [context EXCEPT ![running] = "wait"]
      /\ UNCHANGED <<table, queues>>
  BY <1>1, <1>3, BufferFacts DEF wait, HandBack, Release, switchThreads,
     switchToThread, Leave
<1>5. UNCHANGED <<threads, finished_queue, item_count, in_critical_section>>
  BY <1>1, <1>4 DEF table, queues, sharedVars
<1>6. pc'[running] = "work" /\ \A t \in Tids : t # running => pc'[t] = pc[t]
  BY GoneTo DEF test_and_wait
<1>7. /\ context'[running] = "wait" /\ waits_on'[running] = c
      /\ \A t \in Tids : t # running => context'[t] = context[t] /\ waits_on'[t] = waits_on[t]
  BY <1>2, <1>4, BufferFacts
<1>8. OneMoves
  BY <1>4, <1>5, <1>6, <1>7 DEF OneMoves
<1>9. MovesRightly
  BY <1>1, <1>4, <1>6, <1>7 DEF MovesRightly, Fits, MidCall
<1>10. SignalsCross(nextThreadToWakeUp, wake_up_order, cond_var_waiting_queue,
                    inside, context, pc)'
  <2>1. \A d \in CondVars : ToSet(wake_up_order[d]) = {}
    BY <1>3, BufferFacts, Members DEF Idle
  <2> QED
    BY <1>4, <2>1 DEF SignalsCross
<1>11. Flagged(pc', in_critical_section)
  <2>1. Flagged(pc, in_critical_section)
    BY DEF BufferState, ClientParts
  <2> QED
    BY <1>1, <1>6, <2>1, RoleFacts, FlaggedKept DEF Between
<1>12. /\ \A d \in CondVars : d # c => cvq2[d] = cvq[d]
       /\ cvq2[c] = Append(cvq[c], running) /\ cvq[c] \in Seq(Tids)
  BY <1>2
<1>13. cvq2[c] # << >> /\ ToSet(cvq2[c]) = ToSet(cvq[c]) \cup {running}
  <2> HIDE DEF cvq2, cvq
  <2> QED
    BY <1>2, <1>12, AppendMembers
<1> HIDE DEF cvq2
<1>14. ~Working(running, pc', cvq2) /\ ~Signalling(running, pc')
  BY <1>6, <1>13 DEF Working, Signalling
<1>15. Alone(running, pc', cvq2)
  <2>1. ASSUME NEW t \in Clients, t # running,
               Working(t, pc', cvq2) \/ Signalling(t, pc')
        PROVE  Working(t, pc, cvq) \/ Signalling(t, pc)
    <3>1. t \in Tids /\ OwnCV(t) \in CondVars
      BY RoleFacts
    <3> QED
      BY <1>6, <1>12, <1>13, <2>1, <3>1 DEF Working, Signalling
  <2> QED
    BY <1>2, <2>1 DEF Alone
<1>16. StockedFor(running, pc', cvq2, item_count)
  <2>1. ~TakesSlot(running, pc, cvq) /\ ~TakesItem(running, pc, cvq)
    BY <1>1 DEF TakesSlot, TakesItem, Working, Signalling
  <2>2. ~TakesSlot(running, pc', cvq2) /\ ~TakesItem(running, pc', cvq2)
    BY <1>14 DEF TakesSlot, TakesItem
  <2>3. SHARED_BUFFER_SIZE # 0 /\ need_space_cv # need_item_cv
        /\ need_space_cv \in CondVars /\ need_item_cv \in CondVars
    BY BoundedBufferAssumption
  <2>4. CASE Role(running) = "producer"
    <3>1. item_count = SHARED_BUFFER_SIZE /\ c = need_space_cv
      BY <1>1, <2>4 DEF must_wait, OwnCV
    <3>2. cvq[need_item_cv] = << >>
      BY <1>2, <2>1, <2>3, <3>1 DEF StockedFor
    <3> QED
      BY <1>12, <1>14, <2>2, <2>3, <3>1, <3>2 DEF StockedFor
  <2>5. CASE Role(running) # "producer"
    <3>1. item_count = 0 /\ c = need_item_cv
      BY <1>1, <2>5 DEF must_wait, OwnCV
    <3>2. cvq[need_space_cv] = << >>
      BY <1>2, <2>1, <2>3, <3>1 DEF StockedFor
    <3> QED
      BY <1>12, <1>14, <2>2, <2>3, <3>1, <3>2 DEF StockedFor
  <2> QED
    BY <2>4, <2>5
<1>17. Stocked(pc', cvq2, item_count)
  BY <1>2, <1>15, <1>16, StockedByOne
<1> QED
  BY <1>4, <1>5, <1>8, <1>9, <1>10, <1>11, <1>17, FitsKept DEF ClientParts

(* No flag of its role is up when a thread is about to begin its section.  *)
LEMMA FlagDown ==
  ASSUME BufferState, InUserCode, running # MAIN_THREAD, pc[running] = "work"
  PROVE  /\ \A t \in Clients : Between(t, pc) => Role(t) # Role(running)
         /\ ~in_critical_section[Role(running)]
<1>1. running \in Clients /\ running \in inside /\ interrupts_enabled
  BY PastLockInside DEF InUserCode
<1>2. ASSUME NEW t \in Clients, Between(t, pc) PROVE Role(t) # Role(running)
  BY <1>1, <1>2, SectionIsFree DEF Between
<1>3. Flagged(pc, in_critical_section) /\ Role(running) \in Roles
  BY RoleFacts DEF BufferState, ClientParts
<1> QED
  BY <1>2, <1>3 DEF Flagged

(* The flag of a thread that begins its section.                           *)
LEMMA FlagRaised ==
  ASSUME BufferState, InUserCode, running # MAIN_THREAD, pc[running] = "work",
         Goto("signal"), NEW r \in Roles, r = Role(running)
  PROVE  Flagged(pc', [in_critical_section EXCEPT ![r] = TRUE])
<1> DEFINE ics2 == [in_critical_section EXCEPT ![r] = TRUE]
<1>1. running \in Clients
  BY PastLockInside
<1>2. /\ Flagged(pc, in_critical_section)
      /\ in_critical_section \in [Roles -> BOOLEAN]
  BY DEF BufferState, ClientParts, BufferTypeOK
<1>3. \A t \in Clients : Between(t, pc) => Role(t) # r
  BY FlagDown
<1>4. pc'[running] = "signal" /\ \A t \in Tids : t # running => pc'[t] = pc[t]
  BY GoneTo
<1>5. \A t \in Clients : t \in Tids /\ Role(t) \in Roles
  BY RoleFacts
<1>6. \A t \in Clients : Between(t, pc') <=> Between(t, pc) \/ t = running
  BY <1>4, <1>5 DEF Between
<1>7. \A s \in Roles : ics2[s] = (in_critical_section[s] \/ s = r)
  BY <1>2
<1> HIDE DEF ics2
<1>8. Flagged(pc', ics2)
  <2>1. ASSUME NEW t \in Clients, Between(t, pc') PROVE ics2[Role(t)]
    BY <1>2, <1>5, <1>6, <1>7, <2>1 DEF Flagged
  <2>2. ASSUME NEW s \in Roles, ics2[s]
        PROVE  \E t \in Clients : Role(t) = s /\ Between(t, pc')
    BY <1>1, <1>2, <1>6, <1>7, <2>2 DEF Flagged
  <2>3. ASSUME NEW s \in Clients, NEW t \in Clients, Role(s) = Role(t),
               Between(s, pc'), Between(t, pc')
        PROVE  s = t
    BY <1>2, <1>3, <1>6, <2>3 DEF Flagged
  <2> QED
    BY <2>1, <2>2, <2>3 DEF Flagged
<1> QED
  BY <1>8 DEF ics2

(* An item is placed or taken.                                             *)
LEMMA WorkStep ==
  ASSUME BufferState, place_item \/ grab_item
  PROVE  ClientParts'
<1> DEFINE cvq == cond_var_waiting_queue
           r == Role(running)
<1>1. /\ InUserCode /\ running # MAIN_THREAD /\ pc[running] = "work"
      /\ Goto("signal") /\ UNCHANGED Library
      /\ in_critical_section' = [in_critical_section EXCEPT ![r] = TRUE]
      /\ item_count' = IF r = "producer" THEN item_count + 1 ELSE item_count - 1
  BY DEF place_item, grab_item, At
<1>2. pc'[running] = "signal" /\ \A t \in Tids : t # running => pc'[t] = pc[t]
  BY <1>1, GoneTo
<1>3. /\ running \in Clients /\ Alone(running, pc, cvq)
      /\ StockedFor(running, pc, cvq, item_count)
      /\ running \notin ToSet(cvq[OwnCV(running)])
  BY <1>1, RunnerAlone
<1>4. Alone(running, pc', cvq)
  BY <1>2, <1>3, RoleFacts DEF Alone, Working, Signalling
<1>5. StockedFor(running, pc', cvq, item_count')
  <2>1. /\ Working(running, pc, cvq) /\ ~Signalling(running, pc)
        /\ ~Working(running, pc', cvq) /\ Signalling(running, pc')
    BY <1>1, <1>2, <1>3 DEF Working, Signalling
  <2>2. item_count \in 0 .. SHARED_BUFFER_SIZE /\ SHARED_BUFFER_SIZE \in Nat
    BY BoundedBufferAssumption DEF BufferState, Ring
  <2> QED
    BY <1>1, <1>3, <2>1, <2>2 DEF StockedFor, TakesSlot, TakesItem
<1>6. Stocked(pc', cvq, item_count')
  BY <1>3, <1>4, <1>5, StockedByOne
<1>7. Flagged(pc', in_critical_section')
  BY <1>1, RoleFacts, FlagRaised
<1> QED
  BY <1>1, <1>6, <1>7, OwnStep DEF ClientParts

(* Nobody waits for the signal.                                            *)
LEMMA QuietSignalStep ==
  ASSUME BufferState, signal_other, cond_var_waiting_queue[signalled_cv] = << >>
  PROVE  ClientParts'
<1> DEFINE cvq == cond_var_waiting_queue
<1>1. /\ InUserCode /\ running # MAIN_THREAD /\ pc[running] = "signal"
      /\ Goto("unlock") /\ UNCHANGED <<Library, sharedVars>>
  BY DEF signal_other, At
<1>2. UNCHANGED <<item_count, in_critical_section>>
  BY <1>1 DEF sharedVars
<1>3. pc'[running] = "unlock" /\ \A t \in Tids : t # running => pc'[t] = pc[t]
  BY <1>1, GoneTo
<1>4. /\ running \in Clients /\ Alone(running, pc, cvq)
      /\ StockedFor(running, pc, cvq, item_count)
  BY <1>1, RunnerAlone
<1>5. Alone(running, pc', cvq)
  BY <1>3, <1>4, RoleFacts DEF Alone, Working, Signalling
<1>6. StockedFor(running, pc', cvq, item_count)
  <2>1. /\ ~Working(running, pc, cvq) /\ Signalling(running, pc)
        /\ ~Working(running, pc', cvq) /\ ~Signalling(running, pc')
    BY <1>1, <1>3 DEF Working, Signalling
  <2>2. IF Role(running) = "producer" THEN cvq[need_item_cv] = << >>
        ELSE cvq[need_space_cv] = << >>
    BY DEF signalled_cv
  <2> QED
    BY <1>4, <2>1, <2>2 DEF StockedFor, TakesSlot, TakesItem
<1>7. Stocked(pc', cvq, item_count)
  BY <1>4, <1>5, <1>6, StockedByOne
<1>8. Flagged(pc', in_critical_section)
  <2>1. Flagged(pc, in_critical_section)
    BY DEF BufferState, ClientParts
  <2> QED
    BY <1>1, <1>3, <2>1, RoleFacts, FlaggedKept DEF Between
<1> QED
  BY <1>1, <1>2, <1>7, <1>8, OwnStep DEF ClientParts

(* A thread in a waiting queue waits for what it wants.                    *)
LEMMA WaiterFacts ==
  ASSUME BufferState, NEW c \in CondVars, NEW h \in ToSet(cond_var_waiting_queue[c])
  PROVE  h \in Clients /\ h # running /\ OwnCV(h) = c /\ pc[h] = "work"
<1>1. h # running /\ h \in Tids
  BY SleepersDoNotRun, BufferFacts, Members
<1>2. Waiters(cond_var_waiting_queue, context, waits_on)
  BY HoareFacts DEF BufferState, Promised
<1>3. context[h] \in {"wait", "wait_unlock"} /\ waits_on[h] = c
  BY <1>2 DEF Waiters
<1>4. Aloof(context, inside, threads, waits_on, finished_queue)
  BY DEF BufferState, ClientParts
<1>5. context[h] = "wait" /\ OwnCV(h) = c /\ h # MAIN_THREAD
  BY <1>1, <1>3, <1>4 DEF Aloof
<1>6. h \in Clients
  BY <1>1, <1>5, RoleFacts
<1>7. Fits(h, running, interrupts_enabled, context, inside, pc)
  BY <1>6 DEF BufferState, ClientParts
<1>8. pc[h] = "work"
  BY <1>1, <1>5, <1>7 DEF Fits, MidCall
<1> QED
  BY <1>1, <1>5, <1>6, <1>8

(* A thread of the other role is woken: it finds the slot or the item, and *)
(* nobody of the signaller's role waits.                                   *)
LEMMA WakeStep ==
  ASSUME BufferState, signal_other, cond_var_waiting_queue[signalled_cv] # << >>,
         proc' = "alive"
  PROVE  ClientParts'
<1> DEFINE c == signalled_cv
           cvq == cond_var_waiting_queue
           wo == wake_up_order
           q == cvq[c]
           h == Head(q)
           cvq2 == [cvq EXCEPT ![c] = Tail(q)]
           wo2 == [wo EXCEPT ![c] = @ \o <<running>>]
<1>1. /\ InUserCode /\ running # MAIN_THREAD /\ pc[running] = "signal" /\ At("signal")
      /\ Goto("unlock") /\ UNCHANGED sharedVars
      /\ Notify(c, <<running>>, Tail(q))
  BY DEF signal_other, At, signal
<1>2. /\ running \in inside /\ running \in Clients /\ interrupts_enabled
      /\ Alone(running, pc, cvq) /\ StockedFor(running, pc, cvq, item_count)
      /\ running \in Tids /\ cvq \in [CondVars -> Seq(Tids)]
      /\ wo \in [CondVars -> Seq(Tids)]
  BY <1>1, RunnerAlone, BufferFacts
<1>3. /\ c \in CondVars /\ OwnCV(running) # c /\ OwnCV(running) \in CondVars
      /\ \A d \in CondVars : d = c \/ d = OwnCV(running)
  BY BoundedBufferAssumption DEF signalled_cv, OwnCV
<1>4. nextThreadToWakeUp = Null /\ Idle(wo)
  <2>1. nextThreadToWakeUp = Null
    BY <1>1, SignallerWasNotWoken
  <2> QED
    BY <1>2, <2>1, HoareFacts DEF BufferState, Promised
<1>5. /\ cond_var_waiting_queue' = cvq2 /\ wake_up_order' = wo2
      /\ running' = h /\ context' = [context EXCEPT ![running] = "signal"]
      /\ interrupts_enabled' = FALSE /\ inside' = inside \ {running}
      /\ UNCHANGED <<table, queues, nextThreadToWakeUp, waits_on>>
  BY <1>1 DEF Notify, switchToThread, Leave, lockVars
<1>6. UNCHANGED <<threads, finished_queue, item_count, in_critical_section>>
  BY <1>1, <1>5 DEF table, queues, sharedVars
<1>7. pc'[running] = "unlock" /\ \A t \in Tids : t # running => pc'[t] = pc[t]
  BY <1>1, GoneTo
<1>8. /\ context'[running] = "signal"
      /\ \A t \in Tids : t # running => context'[t] = context[t]
  BY <1>2, <1>5, BufferFacts
<1>9. OneMoves
  BY <1>5, <1>6, <1>7, <1>8 DEF OneMoves
<1>10. MovesRightly
  BY <1>1, <1>5, <1>7, <1>8 DEF MovesRightly, Fits, MidCall
<1>11. Flagged(pc', in_critical_section)
  <2>1. Flagged(pc, in_critical_section)
    BY DEF BufferState, ClientParts
  <2> QED
    BY <1>1, <1>7, <2>1, RoleFacts, FlaggedKept DEF Between
<1>12. q \in Seq(Tids) /\ q # << >> /\ IsInjective(q)
  BY <1>2, <1>3 DEF BufferState, HoareState, LockState, MonitorParts, AtMostOnce, Separate
<1>13. ToSet(q) = ToSet(Tail(q)) \cup {h} /\ h \notin ToSet(Tail(q))
  <2> HIDE DEF q
  <2> QED
    BY <1>12, TailMembers
<1>14. h \in Clients /\ h # running /\ OwnCV(h) = c /\ pc[h] = "work"
  BY <1>3, <1>13, WaiterFacts
<1>15. /\ \A d \in CondVars : d # c => cvq2[d] = cvq[d]
       /\ cvq2[c] = Tail(q)
  BY <1>2, <1>3
<1>16. cvq[OwnCV(running)] = << >>
  BY <1>2, <1>3, <1>12 DEF StockedFor, OwnCV, signalled_cv
<1> HIDE DEF h, q, cvq2
<1>17. SignalsCross(Null, wo2, cvq2, {}, context', pc')
  <2>1. \A d \in CondVars : d # c => ToSet(wo2[d]) = {}
    <3>1. \A d \in CondVars : d # c => wo2[d] = << >>
      BY <1>2, <1>4 DEF Idle
    <3> QED
      BY <3>1, Members DEF ToSet
  <2>2. ToSet(wo2[c]) = {running}
    <3>1. wo2[c] = << >> \o <<running>>
      BY <1>2, <1>3, <1>4 DEF Idle
    <3>2. wo2[c] = <<running>>
      BY <1>2, <3>1
    <3> QED
      BY <3>2 DEF ToSet
  <2>3. InSignal(running, c, context', cvq2)
    BY <1>3, <1>8, <1>15, <1>16 DEF InSignal
  <2> HIDE DEF wo2
  <2> QED
    BY <2>1, <2>2, <2>3 DEF SignalsCross
<1>18. SignalsCross(nextThreadToWakeUp, wake_up_order, cond_var_waiting_queue,
                    inside, context, pc)'
  <2>1. inside = {running}
    BY <1>2, InsideFacts DEF BufferState
  <2>2. inside' = {} /\ nextThreadToWakeUp' = Null
    BY <1>4, <1>5, <2>1
  <2> QED
    BY <1>5, <1>17, <2>2
<1>19. Working(h, pc', cvq2)
  BY <1>7, <1>13, <1>14, <1>15, RoleFacts DEF Working
<1>20. Alone(h, pc', cvq2)
  <2>1. ASSUME NEW t \in Clients, Working(t, pc', cvq2) \/ Signalling(t, pc'), t # h
        PROVE  Working(t, pc, cvq) \/ Signalling(t, pc)
    <3>1. t \in Tids /\ OwnCV(t) \in CondVars
      BY RoleFacts
    <3> QED
      BY <1>7, <1>13, <1>15, <2>1, <3>1 DEF Working, Signalling, q
  <2>2. ~Working(running, pc', cvq2) /\ ~Signalling(running, pc')
    BY <1>7 DEF Working, Signalling
  <2> QED
    BY <1>2, <2>1, <2>2 DEF Alone
<1>21. StockedFor(h, pc', cvq2, item_count)
  <2>1. ~Working(running, pc, cvq) /\ Signalling(running, pc) /\ ~Signalling(h, pc')
    BY <1>1, <1>19 DEF Working, Signalling
  <2>2. Role(h) = "producer" <=> Role(running) # "producer"
    BY <1>3, <1>14 DEF OwnCV, signalled_cv
  <2>3. /\ SHARED_BUFFER_SIZE \in Nat /\ need_space_cv # need_item_cv
        /\ need_space_cv \in CondVars /\ need_item_cv \in CondVars
    BY BoundedBufferAssumption
  <2>4. CASE Role(running) = "producer"
    <3>1. c = need_item_cv /\ cvq2[need_space_cv] = << >>
      BY <1>15, <1>16, <2>3, <2>4 DEF signalled_cv, OwnCV
    <3>2. item_count = 1
      BY <1>2, <1>12, <2>1, <2>4, <3>1 DEF StockedFor, TakesItem, q
    <3> QED
      BY <1>19, <2>1, <2>2, <2>4, <3>1, <3>2 DEF StockedFor, TakesItem
  <2>5. CASE Role(running) # "producer"
    <3>1. c = need_space_cv /\ cvq2[need_item_cv] = << >>
      BY <1>15, <1>16, <2>3, <2>5 DEF signalled_cv, OwnCV
    <3>2. item_count = SHARED_BUFFER_SIZE - 1
      BY <1>2, <1>12, <2>1, <2>5, <3>1 DEF StockedFor, TakesSlot, q
    <3> QED
      BY <1>19, <2>1, <2>2, <2>3, <2>5, <3>1, <3>2 DEF StockedFor, TakesSlot
  <2> QED
    BY <2>4, <2>5
<1>22. Stocked(pc', cvq2, item_count)
  BY <1>14, <1>20, <1>21, StockedByOne
<1> QED
  BY <1>5, <1>6, <1>9, <1>10, <1>11, <1>18, <1>22, FitsKept DEF ClientParts

-----------------------------------------------------------------------------
(* The ring of slots.                                                      *)

(* An index moves on to the next slot of the ring.                         *)
LEMMA Advanced ==
  ASSUME NEW i \in Slots
  PROVE  /\ advanced(i) \in Slots
         /\ advanced(i) = IF i + 1 = SHARED_BUFFER_SIZE THEN 0 ELSE i + 1
<1>1. SHARED_BUFFER_SIZE \in Nat \ {0}
  BY BoundedBufferAssumption
<1>2. CASE i + 1 = SHARED_BUFFER_SIZE
  BY <1>1, <1>2, Remainders DEF advanced, Slots
<1>3. CASE i + 1 # SHARED_BUFFER_SIZE
  BY <1>1, <1>3, Remainders DEF advanced, Slots
<1> QED
  BY <1>2, <1>3

(* A thread that places or takes an item finds the slot or the item.       *)
LEMMA RoomFound ==
  ASSUME BufferState, InUserCode, running # MAIN_THREAD, pc[running] = "work"
  PROVE  /\ Role(running) = "producer" => item_count < SHARED_BUFFER_SIZE
         /\ Role(running) # "producer" => item_count > 0
<1>1. Working(running, pc, cond_var_waiting_queue)
  BY RunnerAlone DEF Working
<1> QED
  BY <1>1, RunnerAlone DEF StockedFor

(* Placing and taking an item keep the ring.                               *)
LEMMA RingStep ==
  ASSUME BufferState, BufferNext
  PROVE  BufferTypeOK' /\ Ring'
<1>1. /\ BufferTypeOK /\ Ring /\ running \in Tids
      /\ SHARED_BUFFER_SIZE \in Nat \ {0}
  BY BufferFacts, BoundedBufferAssumption DEF BufferState
<1>2. Role(running) \in Roles /\ {"producer", "consumer"} = Roles
  BY DEF Roles, Role
<1>3. CASE place_item
  <2>1. /\ InUserCode /\ running # MAIN_THREAD /\ pc[running] = "work"
        /\ Role(running) = "producer"
        /\ buffer' = [buffer EXCEPT ![head] = running]
        /\ head' = advanced(head) /\ tail' = tail
        /\ item_count' = item_count + 1 /\ surplus' = surplus + 1
        /\ in_critical_section' = [in_critical_section EXCEPT !["producer"] = TRUE]
        /\ pc' = [pc EXCEPT ![running] = "signal"]
    BY <1>3 DEF place_item, At, Goto
  <2>2. item_count < SHARED_BUFFER_SIZE
    BY <2>1, RoomFound
  <2>3. /\ head' \in Slots
        /\ head' = IF head + 1 = SHARED_BUFFER_SIZE THEN 0 ELSE head + 1
    BY <1>1, <2>1, Advanced DEF BufferTypeOK
  <2>4. Ring'
    BY <1>1, <2>1, <2>2, <2>3 DEF Ring, BufferTypeOK, Slots
  <2>5. BufferTypeOK'
    BY <1>1, <1>2, <2>1, <2>3 DEF BufferTypeOK
  <2> QED
    BY <2>4, <2>5
<1>4. CASE grab_item
  <2>1. /\ InUserCode /\ running # MAIN_THREAD /\ pc[running] = "work"
        /\ Role(running) = "consumer"
        /\ tail' = advanced(tail) /\ head' = head /\ buffer' = buffer
        /\ item_count' = item_count - 1 /\ surplus' = surplus - 1
        /\ in_critical_section' = [in_critical_section EXCEPT !["consumer"] = TRUE]
        /\ pc' = [pc EXCEPT ![running] = "signal"]
    BY <1>4 DEF grab_item, At, Goto
  <2>2. item_count > 0
    BY <2>1, RoomFound
  <2>3. /\ tail' \in Slots
        /\ tail' = IF tail + 1 = SHARED_BUFFER_SIZE THEN 0 ELSE tail + 1
    BY <1>1, <2>1, Advanced DEF BufferTypeOK
  <2>4. Ring'
    BY <1>1, <2>1, <2>2, <2>3 DEF Ring, BufferTypeOK, Slots
  <2>5. BufferTypeOK'
    BY <1>1, <1>2, <2>1, <2>3 DEF BufferTypeOK
  <2> QED
    BY <2>4, <2>5
<1>5. CASE BufferNext /\ ~place_item /\ ~grab_item
  <2>1. /\ UNCHANGED <<buffer, head, tail, item_count, surplus>>
        /\ \/ UNCHANGED in_critical_section
           \/ in_critical_section' = [in_critical_section EXCEPT ![Role(running)] = FALSE]
        /\ \/ UNCHANGED pc
           \/ \E where \in {"lock", "test", "work", "signal", "unlock"} : Goto(where)
    BY <1>5 DEF BufferNext, ClientStep, buffer_lock_lock, test_and_wait, test_and_go,
       signal_other, leave_and_unlock, main, preempted, switched_in, bufferVars,
       sharedVars
  <2>2. pc' \in [Tids -> {"lock", "test", "work", "signal", "unlock"}]
    BY <1>1, <2>1 DEF BufferTypeOK, Goto
  <2>3. in_critical_section' \in [Roles -> BOOLEAN]
    BY <1>1, <1>2, <2>1 DEF BufferTypeOK
  <2> QED
    BY <1>1, <2>1, <2>2, <2>3 DEF BufferTypeOK, Ring
<1> QED
  BY <1>3, <1>4, <1>5

-----------------------------------------------------------------------------
(* The invariant.                                                          *)

(* Every step of the demo keeps the invariant.                             *)
LEMMA BufferInvStep ==
  ASSUME BufferInv, [BufferNext]_allVars
  PROVE  BufferInv'
<1>1. CASE UNCHANGED allVars
  <2>1. UNCHANGED <<vars, bufferVars>>
    BY <1>1 DEF allVars
  <2>2. HoareInv'
    <3>1. SignalsInTurn
      <4>1. SUFFICES ASSUME NEW c \in CondVars, signal(c) \/ broadcast(c) PROVE FALSE
        BY DEF SignalsInTurn
      <4>2. running \in inside /\ running \notin inside'
        BY <4>1 DEF signal, broadcast, Inside, Notify, Leave
      <4> QED
        BY <2>1, <4>2 DEF vars, monitorVars
    <3> QED
      BY <2>1, <3>1, HoareInvKept DEF BufferInv
  <2>3. UNCHANGED <<sharedVars, pc, threads, finished_queue, running, context,
                    interrupts_enabled, inside, proc, nextThreadToWakeUp,
                    wake_up_order, cond_var_waiting_queue, waits_on>>
    BY <2>1 DEF vars, uthreadVars, monitorVars, lockVars, condVars, table, queues,
       bufferVars
  <2>4. UNCHANGED <<buffer, head, tail, item_count, surplus, in_critical_section>>
    BY <2>3 DEF sharedVars
  <2>5. BufferTypeOK' /\ Ring'
    BY <2>3, <2>4 DEF BufferInv, BufferTypeOK, Ring
  <2>6. proc' = "alive" => ClientParts'
    BY <2>3, <2>4 DEF BufferInv, ClientParts
  <2> QED
    BY <2>2, <2>5, <2>6 DEF BufferInv
<1>2. CASE BufferNext
  <2>1. proc = "alive"
    BY <1>2, BufferAlive
  <2>2. BufferState
    BY <2>1 DEF BufferInv, BufferState, HoareState, HoareInv, LockInv, LockState
  <2>3. HoareInv'
    BY <1>2, <2>2, DemoIsClient, HoareInvKept DEF BufferInv
  <2>4. BufferTypeOK' /\ Ring'
    BY <1>2, <2>2, RingStep
  <2>5. ASSUME proc' = "alive" PROVE ClientParts'
    BY <1>2, <2>2, <2>5, LockCallStep, WaitCallStep, GoStep, WorkStep, QuietSignalStep,
       WakeStep, LeaveStep, MainStep, PreemptedStep, SwitchedInStep
       DEF BufferNext, ClientStep
  <2> QED
    BY <2>3, <2>4, <2>5 DEF BufferInv
<1> QED
  BY <1>1, <1>2

(* At the start every thread is outside and the buffer is empty.           *)
LEMMA BufferInvInit ==
  ASSUME BufferInit
  PROVE  BufferInv
<1>1. HoareInv
  BY HoareInvInit DEF BufferInit
<1>2. /\ buffer = [k \in Slots |-> 0] /\ head = 0 /\ tail = 0 /\ item_count = 0
      /\ surplus = 0 /\ in_critical_section = [r \in Roles |-> FALSE]
      /\ pc = [t \in Tids |-> "lock"]
  BY DEF BufferInit
<1>3. /\ threads = StartThreads /\ running = MAIN_THREAD /\ finished_queue = {}
      /\ context = [t \in Tids |-> "stub"] /\ inside = {}
      /\ nextThreadToWakeUp = Null
      /\ cond_var_waiting_queue = [c \in CondVars |-> << >>]
      /\ wake_up_order = [c \in CondVars |-> << >>]
  BY DEF BufferInit, MonitorInit, Init
<1>4. /\ SHARED_BUFFER_SIZE \in Nat \ {0} /\ 0 \in Slots /\ MAIN_THREAD \in Tids
      /\ 0 \in Tids
  BY BoundedBufferAssumption, UThreadAssumption DEF Slots, Tids
<1>5. BufferTypeOK /\ Ring
  BY <1>2, <1>4 DEF BufferTypeOK, Ring
<1>6. \A t \in Clients : t \in Tids
  BY RoleFacts
<1>7. \A t \in Clients : Fits(t, running, interrupts_enabled, context, inside, pc)
  BY <1>2, <1>3, <1>6 DEF Fits, MidCall
<1>8. Aloof(context, inside, threads, waits_on, finished_queue)
  BY <1>3, <1>4 DEF Aloof
<1>9. Flagged(pc, in_critical_section)
  BY <1>2, <1>6 DEF Flagged, Between
<1>10. Stocked(pc, cond_var_waiting_queue, item_count)
  <2>1. /\ cond_var_waiting_queue[need_space_cv] = << >>
        /\ cond_var_waiting_queue[need_item_cv] = << >>
    BY <1>3, BoundedBufferAssumption
  <2>2. \A t \in Clients : ~Working(t, pc, cond_var_waiting_queue)
    BY <1>2, <1>6 DEF Working
  <2> QED
    BY <2>1, <2>2, RoleFacts DEF Stocked
<1>11. SignalsCross(nextThreadToWakeUp, wake_up_order, cond_var_waiting_queue,
                    inside, context, pc)
  <2>1. \A c \in CondVars : ToSet(wake_up_order[c]) = {}
    BY <1>3 DEF ToSet
  <2> QED
    BY <1>3, <2>1 DEF SignalsCross
<1> QED
  BY <1>1, <1>5, <1>7, <1>8, <1>9, <1>10, <1>11 DEF BufferInv, ClientParts

-----------------------------------------------------------------------------
(* The properties.                                                         *)

(* The inductive invariant of the demo, for every number of producers and  *)
(* consumers and every size of the buffer.                                 *)
THEOREM BufferSound == BufferSpec => []BufferInv
<1>1. BufferInit => BufferInv
  BY BufferInvInit
<1>2. BufferInv /\ [BufferNext]_allVars => BufferInv'
  BY BufferInvStep
<1> QED
  BY <1>1, <1>2, PTL DEF BufferSpec

(* Every variable of producer() and consumer() has its type; the indices   *)
(* stay in the buffer.                                                     *)
THEOREM BufferTypes == BufferSpec => []BufferTypeOK
<1>1. BufferInv => BufferTypeOK
  BY DEF BufferInv
<1> QED
  BY <1>1, BufferSound, PTL

(* No assert of producer() and consumer() ever fails: the condition tested *)
(* once before wait() holds after it, and no two producers, and no two     *)
(* consumers, are between their asserts and unlock() at the same time.     *)
THEOREM AssertsNeverFail == BufferSpec => []AssertsHold
<1>1. BufferInv => AssertsHold
  <2>1. SUFFICES ASSUME BufferInv, InUserCode, At("work") PROVE Asserted
    BY DEF AssertsHold
  <2>2. BufferState /\ running # MAIN_THREAD /\ pc[running] = "work"
    BY <2>1 DEF BufferInv, BufferState, HoareState, HoareInv, LockInv, LockState,
       InUserCode, At
  <2>3. ~in_critical_section[Role(running)]
    BY <2>1, <2>2, FlagDown
  <2>4. assert_buffer_invariants
    BY <2>1, BoundedBufferAssumption DEF BufferInv, BufferTypeOK, Ring, Slots,
       assert_buffer_invariants
  <2> QED
    BY <2>3, <2>4 DEF Asserted
<1> QED
  BY <1>1, BufferSound, PTL

(* No producer or consumer is lost, although woken threads signal.         *)
THEOREM NoClientLost == BufferSpec => []NoThreadLost
<1>1. BufferInv => NoThreadLost
  BY AllReachable DEF BufferInv
<1> QED
  BY <1>1, BufferSound, PTL

(* producer() and consumer() keep the discipline of the lock and the       *)
(* condition variables: every behaviour of the demo is one of theirs.      *)
THEOREM DemoUsesMonitor == BufferSpec => MonitorSpec
<1>1. BufferInit => MonitorInit
  BY DEF BufferInit
<1>2. BufferInv /\ [BufferNext]_allVars => [Next]_vars
  <2>1. SUFFICES ASSUME BufferInv, BufferNext PROVE [Next]_vars
    BY DEF allVars
  <2>2. BufferState
    BY <2>1, BufferAlive DEF BufferInv, BufferState, HoareState, HoareInv, LockInv,
       LockState
  <2> QED
    BY <2>1, <2>2, DemoIsClient
<1> QED
  BY <1>1, <1>2, BufferSound, PTL DEF BufferSpec, MonitorSpec

(* The demo never loses the lock, hands it to two threads or lets a woken  *)
(* thread find nobody to hand it back to.                                  *)
THEOREM DemoKeepsLock ==
  BufferSpec => [](/\ MutualExclusion /\ LockHasOneHolder /\ FreeLockIsUnwanted
                   /\ proc # "empty_wake_up_order")
<1>1. BufferInv => LockHasOneHolder /\ FreeLockIsUnwanted /\ proc # "empty_wake_up_order"
  BY OneHolder DEF BufferInv, HoareInv
<1> QED
  BY <1>1, BufferSound, DemoUsesMonitor, LockExcludes, PTL

(* Producers and consumers never wait at the same time, so a thread woken  *)
(* by a signal finds nobody to signal in turn.                             *)
THEOREM OneSideWaits ==
  BufferSpec => [](proc = "alive" => \/ cond_var_waiting_queue[need_space_cv] = << >>
                                     \/ cond_var_waiting_queue[need_item_cv] = << >>)
<1>1. BufferInv => (proc = "alive" => \/ cond_var_waiting_queue[need_space_cv] = << >>
                                      \/ cond_var_waiting_queue[need_item_cv] = << >>)
  BY DEF BufferInv, ClientParts, Stocked
<1> QED
  BY <1>1, BufferSound, PTL

-----------------------------------------------------------------------------
(* The buffer is a queue.                                                  *)

\* The items in the buffer, the oldest first.
ItemsFrom(buf, i, n) == [k \in 1 .. n |-> buf[(i + k - 1) % SHARED_BUFFER_SIZE]]
Contents == ItemsFrom(buffer, tail, item_count)

(* Counting past the end of the buffer goes on from its start.             *)
LEMMA Wrapped ==
  ASSUME NEW x \in 0 .. 2 * SHARED_BUFFER_SIZE - 1
  PROVE  /\ x % SHARED_BUFFER_SIZE \in Slots
         /\ x % SHARED_BUFFER_SIZE =
              IF x < SHARED_BUFFER_SIZE THEN x ELSE x - SHARED_BUFFER_SIZE
<1>1. SHARED_BUFFER_SIZE \in Nat \ {0}
  BY BoundedBufferAssumption
<1>2. CASE x < SHARED_BUFFER_SIZE
  <2>1. x \in 0 .. SHARED_BUFFER_SIZE - 1
    BY <1>1, <1>2
  <2>2. x % SHARED_BUFFER_SIZE = x
    BY <2>1, Remainders
  <2> QED
    BY <1>2, <2>1, <2>2 DEF Slots
<1>3. CASE ~(x < SHARED_BUFFER_SIZE)
  <2>1. /\ x \in SHARED_BUFFER_SIZE .. 2 * SHARED_BUFFER_SIZE - 1
        /\ x - SHARED_BUFFER_SIZE \in 0 .. SHARED_BUFFER_SIZE - 1
    BY <1>1, <1>3
  <2>2. x % SHARED_BUFFER_SIZE = x - SHARED_BUFFER_SIZE
    BY <2>1, Remainders
  <2> QED
    BY <1>3, <2>1, <2>2 DEF Slots
<1> QED
  BY <1>2, <1>3

(* Where the k-th item is.                                                 *)
LEMMA SlotOf ==
  ASSUME NEW i \in Slots, NEW k \in 1 .. SHARED_BUFFER_SIZE + 1
  PROVE  /\ (i + k - 1) % SHARED_BUFFER_SIZE \in Slots
         /\ (i + k - 1) % SHARED_BUFFER_SIZE =
              IF i + k - 1 < SHARED_BUFFER_SIZE THEN i + k - 1
              ELSE (i + k - 1) - SHARED_BUFFER_SIZE
<1>1. i + k - 1 \in 0 .. 2 * SHARED_BUFFER_SIZE - 1
  BY BoundedBufferAssumption DEF Slots
<1> QED
  BY <1>1, Wrapped, Zenon

(* The items of a run of slots are a sequence, by position.                *)
LEMMA ItemsByPosition ==
  ASSUME NEW buf \in [Slots -> Tids], NEW i \in Slots, NEW n \in 0 .. SHARED_BUFFER_SIZE
  PROVE  /\ ItemsFrom(buf, i, n) \in Seq(Tids) /\ Len(ItemsFrom(buf, i, n)) = n
         /\ \A k \in 1 .. n :
              ItemsFrom(buf, i, n)[k] = buf[(i + k - 1) % SHARED_BUFFER_SIZE]
<1>1. SHARED_BUFFER_SIZE \in Nat
  BY BoundedBufferAssumption
<1>2. ASSUME NEW k \in 1 .. n
      PROVE  buf[(i + k - 1) % SHARED_BUFFER_SIZE] \in Tids
  <2>1. k \in 1 .. SHARED_BUFFER_SIZE + 1
    BY <1>1
  <2> QED
    BY <2>1, SlotOf
<1>3. ItemsFrom(buf, i, n) \in [1 .. n -> Tids]
  BY <1>2 DEF ItemsFrom
<1> QED
  BY <1>1, <1>3 DEF ItemsFrom

(* What the buffer holds, by position.                                     *)
LEMMA ContentsFacts ==
  ASSUME BufferTypeOK, Ring
  PROVE  /\ Contents \in Seq(Tids) /\ Len(Contents) = item_count
         /\ \A k \in 1 .. item_count :
              Contents[k] = buffer[(tail + k - 1) % SHARED_BUFFER_SIZE]
<1>1. /\ item_count \in 0 .. SHARED_BUFFER_SIZE /\ tail \in Slots
      /\ buffer \in [Slots -> Tids]
  BY DEF BufferTypeOK, Ring
<1> QED
  BY <1>1, ItemsByPosition DEF Contents

(* A producer appends its item.                                            *)
LEMMA Placed ==
  ASSUME BufferState, place_item, BufferTypeOK', Ring'
  PROVE  Contents' = Append(Contents, running) /\ Len(Contents) < SHARED_BUFFER_SIZE
<1> DEFINE n == item_count
           s == Contents
           s2 == Contents'
           N == SHARED_BUFFER_SIZE
<1>1. /\ InUserCode /\ running # MAIN_THREAD /\ pc[running] = "work"
      /\ Role(running) = "producer" /\ tail' = tail /\ n' = n + 1
      /\ buffer' = [buffer EXCEPT ![head] = running]
  BY DEF place_item, At
<1>2. n < N /\ n \in Nat /\ running \in Tids
  BY <1>1, RoomFound, BufferFacts DEF BufferState, Ring
<1>3. /\ s \in Seq(Tids) /\ Len(s) = n
      /\ \A k \in 1 .. n : s[k] = buffer[(tail + k - 1) % N]
  BY ContentsFacts DEF BufferState
<1>4. /\ s2 \in Seq(Tids) /\ Len(s2) = n + 1
      /\ \A k \in 1 .. n + 1 : s2[k] = buffer'[(tail + k - 1) % N]
  <2>1. s2 = ItemsFrom(buffer', tail, n + 1)
    BY <1>1 DEF Contents
  <2>2. buffer' \in [Slots -> Tids] /\ tail \in Slots /\ n + 1 \in 0 .. N
    BY <1>1 DEF BufferTypeOK, Ring
  <2> HIDE DEF s2, n, N
  <2>3. /\ ItemsFrom(buffer', tail, n + 1) \in Seq(Tids)
        /\ Len(ItemsFrom(buffer', tail, n + 1)) = n + 1
        /\ \A k \in 1 .. n + 1 :
             ItemsFrom(buffer', tail, n + 1)[k] = buffer'[(tail + k - 1) % N]
    BY <2>2, ItemsByPosition DEF N
  <2> QED
    BY <2>1, <2>3
<1>5. /\ buffer \in [Slots -> Tids] /\ tail \in Slots /\ head \in Slots /\ N \in Nat \ {0}
      /\ head = IF tail + n >= N THEN tail + n - N ELSE tail + n
  BY BoundedBufferAssumption DEF BufferState, BufferTypeOK, Ring
<1>6. ASSUME NEW k \in 1 .. n PROVE s2[k] = s[k]
  <2>1. k \in 1 .. N + 1 /\ k \in Int
    BY <1>2, <1>5
  <2>2. /\ (tail + k - 1) % N \in Slots
        /\ (tail + k - 1) % N = IF tail + k - 1 < N THEN tail + k - 1 ELSE (tail + k - 1) - N
    BY <1>5, <2>1, SlotOf
  <2>3. (tail + k - 1) % N # head
    BY <1>2, <1>5, <2>1, <2>2 DEF Slots
  <2>4. buffer'[(tail + k - 1) % N] = buffer[(tail + k - 1) % N]
    BY <1>1, <1>5, <2>2, <2>3
  <2> QED
    BY <1>2, <1>3, <1>4, <2>4
<1>7. s2[n + 1] = running
  <2>1. n + 1 \in 1 .. N + 1
    BY <1>2, <1>5
  <2>2. (tail + (n + 1) - 1) % N = IF tail + (n + 1) - 1 < N THEN tail + (n + 1) - 1
                                   ELSE (tail + (n + 1) - 1) - N
    BY <1>5, <2>1, SlotOf
  <2>3. (tail + (n + 1) - 1) % N = head
    BY <1>2, <1>5, <2>2 DEF Slots
  <2> QED
    BY <1>1, <1>2, <1>4, <1>5, <2>3
<1> HIDE DEF s, s2
<1>8. /\ Append(s, running) \in Seq(Tids) /\ Len(Append(s, running)) = n + 1
      /\ \A k \in 1 .. n : Append(s, running)[k] = s[k]
      /\ Append(s, running)[n + 1] = running
  BY <1>2, <1>3, AppendProperties
<1>9. \A k \in 1 .. n + 1 : s2[k] = Append(s, running)[k]
  BY <1>2, <1>6, <1>7, <1>8
<1>10. s2 = Append(s, running)
  BY <1>4, <1>8, <1>9, SeqEqual
<1> QED
  BY <1>2, <1>3, <1>10 DEF s, s2

(* A consumer takes the first item.                                        *)
LEMMA Taken ==
  ASSUME BufferState, grab_item, BufferTypeOK', Ring'
  PROVE  Contents' = Tail(Contents) /\ Contents # << >>
<1> DEFINE n == item_count
           s == Contents
           s2 == Contents'
           N == SHARED_BUFFER_SIZE
<1>1. /\ InUserCode /\ running # MAIN_THREAD /\ pc[running] = "work"
      /\ Role(running) # "producer" /\ tail' = advanced(tail) /\ n' = n - 1
      /\ buffer' = buffer
  BY DEF grab_item, At
<1>2. n > 0 /\ n \in Nat /\ n <= N
  BY <1>1, RoomFound, BoundedBufferAssumption DEF BufferState, Ring
<1>3. /\ s \in Seq(Tids) /\ Len(s) = n
      /\ \A k \in 1 .. n : s[k] = buffer[(tail + k - 1) % N]
  BY ContentsFacts DEF BufferState
<1>4. /\ s2 \in Seq(Tids) /\ Len(s2) = n - 1
      /\ \A k \in 1 .. n - 1 : s2[k] = buffer[(tail' + k - 1) % N]
  <2>1. s2 = ItemsFrom(buffer, tail', n - 1)
    BY <1>1 DEF Contents
  <2>2. buffer \in [Slots -> Tids] /\ tail' \in Slots /\ n - 1 \in 0 .. N
    BY <1>1 DEF BufferTypeOK, Ring
  <2> HIDE DEF s2, n, N
  <2>3. /\ ItemsFrom(buffer, tail', n - 1) \in Seq(Tids)
        /\ Len(ItemsFrom(buffer, tail', n - 1)) = n - 1
        /\ \A k \in 1 .. n - 1 :
             ItemsFrom(buffer, tail', n - 1)[k] = buffer[(tail' + k - 1) % N]
    BY <2>2, ItemsByPosition DEF N
  <2> QED
    BY <2>1, <2>3
<1>5. tail \in Slots /\ N \in Nat \ {0}
  BY BoundedBufferAssumption DEF BufferState, BufferTypeOK
<1>6. tail' \in Slots /\ tail' = IF tail + 1 = N THEN 0 ELSE tail + 1
  BY <1>1, <1>5, Advanced
<1>7. ASSUME NEW k \in 1 .. n - 1 PROVE s2[k] = s[k + 1]
  <2>1. k \in 1 .. N + 1 /\ k + 1 \in 1 .. N + 1 /\ k \in Int /\ k + 1 \in 1 .. n
    BY <1>2, <1>5
  <2>2. (tail' + k - 1) % N = IF tail' + k - 1 < N THEN tail' + k - 1
                              ELSE (tail' + k - 1) - N
    BY <1>6, <2>1, SlotOf
  <2>3. (tail + (k + 1) - 1) % N = IF tail + (k + 1) - 1 < N THEN tail + (k + 1) - 1
                                   ELSE (tail + (k + 1) - 1) - N
    BY <1>5, <2>1, SlotOf
  <2>4. (tail' + k - 1) % N = (tail + (k + 1) - 1) % N
    BY <1>2, <1>5, <1>6, <2>1, <2>2, <2>3 DEF Slots
  <2> QED
    BY <1>3, <1>4, <2>1, <2>4
<1> HIDE DEF s, s2
<1>8. s # << >>
  BY <1>2, <1>3
<1>9. /\ Tail(s) \in Seq(Tids) /\ Len(Tail(s)) = n - 1
      /\ \A k \in 1 .. n - 1 : Tail(s)[k] = s[k + 1]
  BY <1>3, <1>8, HeadTailProperties
<1>10. s2 = Tail(s)
  BY <1>4, <1>7, <1>9, SeqEqual
<1> QED
  BY <1>8, <1>10 DEF s, s2

(* Every step of the demo places an item at the end of the queue, takes    *)
(* one from its front, or leaves the queue alone.                          *)
LEMMA QueueStep ==
  ASSUME BufferInv, [BufferNext]_allVars, BufferInv'
  PROVE  \/ Contents # << >> /\ Contents' = Tail(Contents)
         \/ \E x \in Producers : /\ Len(Contents) < SHARED_BUFFER_SIZE
                                 /\ Contents' = Append(Contents, x)
         \/ Contents' = Contents
<1>1. BufferTypeOK' /\ Ring'
  BY DEF BufferInv
<1>2. BufferNext => BufferState
  BY BufferAlive DEF BufferInv, BufferState, HoareState, HoareInv, LockInv, LockState
<1>3. CASE BufferNext /\ place_item
  <2>1. running \in Producers
    BY <1>3 DEF place_item, Role
  <2> QED
    BY <1>1, <1>2, <1>3, <2>1, Placed
<1>4. CASE BufferNext /\ grab_item
  BY <1>1, <1>2, <1>4, Taken
<1>5. CASE (BufferNext /\ ~place_item /\ ~grab_item) \/ UNCHANGED allVars
  <2>1. UNCHANGED <<buffer, tail, item_count>>
    BY <1>5 DEF BufferNext, ClientStep, buffer_lock_lock, test_and_wait, test_and_go,
       signal_other, leave_and_unlock, main, preempted, switched_in, bufferVars,
       sharedVars, allVars
  <2> QED
    BY <2>1 DEF Contents
<1> QED
  BY <1>3, <1>4, <1>5

(* The buffer is a bounded queue: items come out in the order they went    *)
(* in, none is overwritten, and none is taken twice.                       *)
THEOREM BufferIsQueue == BufferSpec => ImplementsQueue
<1>1. BufferInit => Queue!QueueInit
  <2>1. SUFFICES ASSUME BufferInit PROVE Contents = << >>
    BY DEF Queue!QueueInit, Contents, ItemsFrom
  <2>2. Contents \in Seq(Tids) /\ Len(Contents) = 0
    BY <2>1, BufferInvInit, ContentsFacts DEF BufferInv, BufferInit
  <2> QED
    BY <2>2
<1>2. BufferInv /\ [BufferNext]_allVars /\ BufferInv' =>
        [Queue!Get \/ \E x \in Producers : Queue!Put(x)]_Contents
  BY QueueStep DEF Queue!Get, Queue!Put, Contents, ItemsFrom
<1> QED
  BY <1>1, <1>2, BufferSound, PTL DEF BufferSpec, ImplementsQueue, Queue!QueueSpec,
     Contents, ItemsFrom
=============================================================================
