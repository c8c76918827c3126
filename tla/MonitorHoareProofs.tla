------------------------- MODULE MonitorHoareProofs -------------------------
(***************************************************************************)
(* The hand-off of project 2's lock through its condition variables, for   *)
(* every number of threads and condition variables.  The clients are those *)
(* in which a woken thread unlocks or waits before it signals itself: the  *)
(* condition NestedSignals = FALSE of Monitor, or a client's own argument. *)
(***************************************************************************)
EXTENDS MonitorProofs

\* No condition variable has a thread to wake.
Idle(wo) == \A c \in CondVars : wo[c] = << >>

\* A thread that blocks in wait() without being in the queues still has the
\* lock and may be scheduled.
Settled(A, r, on, ctx, S) ==
  \A t \in A \cup {r} :
    (t \in A \/ ~on) /\ ctx[t] = "wait_unlock" /\ t \notin S => t = r /\ ~on /\ t \in A

\* The waiting queues hold threads that wait for their condition variable.
Waiters(cvq, ctx, w) ==
  \A c \in CondVars : \A t \in ToSet(cvq[c]) :
    ctx[t] \in {"wait", "wait_unlock"} /\ w[t] = c

\* One condition variable at most has threads to wake: those that waited for
\* it and, last, the thread that called signal() or broadcast().
InTurn(wo, ctx, w) ==
  /\ \A c, d \in CondVars : wo[c] # << >> /\ wo[d] # << >> => c = d
  /\ \A c \in CondVars : \A i \in 1 .. Len(wo[c]) :
       IF i = Len(wo[c]) THEN ctx[wo[c][i]] = "signal"
       ELSE ctx[wo[c][i]] \in {"wait", "wait_unlock"} /\ w[wo[c][i]] = c

\* A thread that has been passed the lock out of turn, or will be next: a
\* woken thread finds somebody to wake, any other finds nobody.
Owes(t, wo, ctx, w) ==
  /\ ctx[t] \in {"wait", "wait_unlock"} => wo[w[t]] # << >>
  /\ ctx[t] \in {"lock", "signal"} => Idle(wo)

\* n gets the lock next, the threads I are inside, P have been passed the lock.
Promised(n, I, P, cvq, wo, ctx, w) ==
  /\ n # Null => I # {} /\ Owes(n, wo, ctx, w)
  /\ I # {} /\ n = Null => Idle(wo)
  /\ \A t \in P : Owes(t, wo, ctx, w)
  /\ Waiters(cvq, ctx, w)
  /\ InTurn(wo, ctx, w)

\* The condition variables' part of the invariant while the process lives.
HoareParts ==
  /\ Settled(Able, running, interrupts_enabled, context, Asleep)
  /\ threads \subseteq {running} \cup Able \cup Joiners(join_queue)
                         \cup finished_queue \cup ToSet(waiting_queue) \cup Asleep
  /\ Promised(nextThreadToWakeUp, inside,
              Holders(Able, running, interrupts_enabled, context, {}),
              cond_var_waiting_queue, wake_up_order, context, waits_on)

\* The inductive invariant of the condition variables, for clients in which
\* a woken thread does not signal before it unlocks.
HoareInv ==
  /\ LockInv
  /\ FreeLockIsUnwanted
  /\ proc # "empty_wake_up_order"
  /\ proc = "alive" => HoareParts

\* The state a step of such a client starts from.
HoareState == LockState /\ FreeLockIsUnwanted /\ HoareParts

\* The threads that have been passed the lock and have not returned with it.
Passed == Holders(Able, running, interrupts_enabled, context, {})
-----------------------------------------------------------------------------
(* The order in which the lock is owed.                                    *)

(* No condition variable has a thread to wake when none is notified.       *)
LEMMA IdleMeansNone ==
  ASSUME NEW wo \in [CondVars -> Seq(Tids)]
  PROVE  Idle(wo) <=> SeqThreads(wo) = {}
<1>1. \A c \in CondVars : wo[c] = << >> <=> ToSet(wo[c]) = {}
  BY Members
<1> QED
  BY <1>1 DEF Idle, SeqThreads

(* The threads in a queue are threads of the queues.                       *)
LEMMA QueuedThread ==
  ASSUME NEW wo \in [CondVars -> Seq(Tids)], NEW c \in CondVars, NEW i \in 1 .. Len(wo[c])
  PROVE  wo[c][i] \in SeqThreads(wo) /\ wo[c][i] \in Tids
<1>1. wo[c] \in Seq(Tids) /\ wo[c][i] \in ToSet(wo[c])
  BY Members
<1> QED
  BY <1>1 DEF SeqThreads

(* The promises stay while the queues do, and no context of a thread they  *)
(* are about changes except that wait() has given the lock up.             *)
LEMMA PromiseKept ==
  ASSUME NEW n, NEW I, NEW P, NEW cvq \in [CondVars -> Seq(Tids)],
         NEW wo \in [CondVars -> Seq(Tids)], NEW ctx, NEW w,
         Promised(n, I, P, cvq, wo, ctx, w),
         NEW I2, NEW P2, NEW ctx2, P2 \subseteq P,
         n # Null => I2 # {}, I2 # {} /\ n = Null => Idle(wo),
         \A t \in Sleepers(cvq, wo, n) \cup P2 :
           \/ ctx2[t] = ctx[t]
           \/ ctx[t] = "wait_unlock" /\ ctx2[t] = "wait"
  PROVE  Promised(n, I2, P2, cvq, wo, ctx2, w)
<1>1. \A t : Owes(t, wo, ctx, w) /\ (t \in Sleepers(cvq, wo, n) \cup P2)
              => Owes(t, wo, ctx2, w)
  BY DEF Owes
<1>2. n # Null => I2 # {} /\ Owes(n, wo, ctx2, w)
  BY <1>1 DEF Promised, Sleepers
<1>3. \A t \in P2 : Owes(t, wo, ctx2, w)
  BY <1>1 DEF Promised
<1>4. Waiters(cvq, ctx2, w)
  <2>1. SUFFICES ASSUME NEW c \in CondVars, NEW t \in ToSet(cvq[c])
                 PROVE  ctx2[t] \in {"wait", "wait_unlock"} /\ w[t] = c
    BY DEF Waiters
  <2>2. t \in Sleepers(cvq, wo, n)
    BY DEF Sleepers, SeqThreads
  <2>3. ctx[t] \in {"wait", "wait_unlock"} /\ w[t] = c
    BY DEF Promised, Waiters
  <2> QED
    BY <2>2, <2>3
<1>5. InTurn(wo, ctx2, w)
  <2>1. SUFFICES ASSUME NEW c \in CondVars, NEW i \in 1 .. Len(wo[c])
                 PROVE  IF i = Len(wo[c]) THEN ctx2[wo[c][i]] = "signal"
                        ELSE ctx2[wo[c][i]] \in {"wait", "wait_unlock"} /\ w[wo[c][i]] = c
    BY DEF Promised, InTurn
  <2>2. wo[c][i] \in Sleepers(cvq, wo, n)
    BY QueuedThread DEF Sleepers
  <2>3. IF i = Len(wo[c]) THEN ctx[wo[c][i]] = "signal"
        ELSE ctx[wo[c][i]] \in {"wait", "wait_unlock"} /\ w[wo[c][i]] = c
    BY DEF Promised, InTurn
  <2> QED
    BY <2>2, <2>3
<1> QED
  BY <1>2, <1>3, <1>4, <1>5 DEF Promised

\* The threads T are left where they are.
Undisturbed(T, ctx, w, ctx2, w2) == \A t \in T : ctx2[t] = ctx[t] /\ w2[t] = w[t]

\* The threads S sleep on, and the lock is passed to nobody new: the step
\* leaves A2, r2, on2 and ctx2.
Steady(A, r, on, ctx, A2, r2, on2, ctx2, S) ==
  /\ Settled(A2, r2, on2, ctx2, S)
  /\ Holders(A2, r2, on2, ctx2, {}) \subseteq Holders(A, r, on, ctx, {})
  /\ \A t \in S \cup Holders(A2, r2, on2, ctx2, {}) : ctx2[t] = ctx[t]

(* A call that does not switch threads, or the rest of one that did.       *)
LEMMA SteadyStay ==
  ASSUME NEW A, NEW r, NEW on \in BOOLEAN, NEW ctx, NEW S,
         Settled(A, r, on, ctx, S), r \in A => ~on /\ ctx[r] = "wait_unlock",
         NEW on2 \in BOOLEAN,
         on2 = on \/ (~on /\ on2 = TRUE /\ ctx[r] # "wait_unlock")
  PROVE  Steady(A, r, on, ctx, A, r, on2, ctx, S)
<1>1. Settled(A, r, on2, ctx, S)
  BY DEF Settled
<1>2. Holders(A, r, on2, ctx, {}) \subseteq Holders(A, r, on, ctx, {})
  BY DEF Holders
<1> QED
  BY <1>1, <1>2 DEF Steady

(* The running thread is switched out; the threads X become ready.         *)
LEMMA SteadySwitch ==
  ASSUME NEW A, NEW r, NEW on \in BOOLEAN, NEW ctx, NEW S,
         Settled(A, r, on, ctx, S), on, r \notin A, r \notin S,
         \A t \in A : ctx[t] # "signal",
         NEW X, NEW ctx2, NEW A2, NEW r2,
         A2 \cup {r2} \subseteq A \cup X, r2 \notin A2,
         \A t \in A \cup S : ctx2[t] = ctx[t],
         \A t \in X : ctx2[t] \in {"yield", "suspend", "join"}
  PROVE  Steady(A, r, on, ctx, A2, r2, FALSE, ctx2, S)
<1>1. Settled(A2, r2, FALSE, ctx2, S)
  BY DEF Settled
<1>2. \A t \in Holders(A2, r2, FALSE, ctx2, {}) :
        t \in Holders(A, r, on, ctx, {}) /\ ctx2[t] = ctx[t]
  BY DEF Holders
<1> QED
  BY <1>1, <1>2 DEF Steady

-----------------------------------------------------------------------------
(* The steps of the thread library.                                        *)

(* They pass the lock to nobody, wake nobody and lose nobody.              *)
LEMMA ThreadStepSteady ==
  ASSUME HoareState, Scheduled, proc' = "alive",
         NEW S, S = Asleep, NEW Q, Q = ToSet(waiting_queue)
  PROVE  /\ Steady(Able, running, interrupts_enabled, context,
                   Able', running', interrupts_enabled', context', S)
         /\ threads' \subseteq {running'} \cup Able' \cup Joiners(join_queue')
                                 \cup finished_queue' \cup Q \cup S
<1> DEFINE R == QueuedIn(ready)
           J == Joiners(join_queue)
           R2 == QueuedIn(ready')
           J2 == Joiners(join_queue')
           A == Able
           A2 == Able'
           r == running
           on == interrupts_enabled
           ctx == context
<1>1. /\ A \in SUBSET Tids /\ r \in Tids /\ on \in BOOLEAN
      /\ ctx \in [Tids -> Contexts] /\ S \in SUBSET Tids
      /\ Lawful(A, r, on, ctx, inside, Q, S, value, lock_count)
  BY LockFacts DEF HoareState
<1>2. /\ A = R \cup blocked
      /\ R \cap (blocked \cup J \cup finished_queue) = {}
      /\ blocked \cap (J \cup finished_queue) = {}
      /\ r \in threads /\ r \notin J \cup finished_queue
      /\ A \cup J \cup finished_queue \subseteq threads
      /\ S \subseteq threads \ (J \cup finished_queue)
      /\ threads \subseteq Tids
      /\ \A t \in J : ctx[t] = "join"
      /\ on => r \notin A /\ r \notin S
  BY LockFacts DEF HoareState
<1>3. A2 = R2 \cup blocked'
  BY DEF Able, QueuedIn
<1>4. join_queue' = join_queue => J2 = J
  OBVIOUS
<1>5. /\ Settled(A, r, on, ctx, S)
      /\ threads \subseteq {r} \cup A \cup J \cup finished_queue \cup Q \cup S
  BY DEF HoareState, HoareParts
<1>6. /\ r \in A => ~on /\ ctx[r] = "wait_unlock"
      /\ \A t \in A : ctx[t] # "signal"
  BY <1>1 DEF Lawful, Places
<1> HIDE DEF R, J, R2, J2, A, A2
<1>7. CASE Kept
  <2>1. /\ running' = r /\ context' = ctx /\ A2 = A /\ J2 = J
        /\ UNCHANGED <<threads, finished_queue>>
    BY <1>2, <1>3, <1>4, <1>7 DEF Kept, R, R2
  <2>2. \/ interrupts_enabled' = on
        \/ ~on /\ interrupts_enabled' = TRUE /\ ctx[r] # "wait_unlock"
    BY <1>7 DEF Kept
  <2>3. interrupts_enabled' \in BOOLEAN
    BY <1>1, <2>2
  <2>4. Steady(A, r, on, ctx, A, r, interrupts_enabled', ctx, S)
    BY <1>1, <1>5, <1>6, <2>2, <2>3, SteadyStay
  <2> QED
    BY <1>5, <2>1, <2>4 DEF A, A2, J2
<1>8. CASE Created
  <2>1. PICK tid \in Tids \ threads :
           /\ threads' = threads \cup {tid}
           /\ R2 = R \cup {tid}
           /\ context' = [ctx EXCEPT ![tid] = "stub"]
    BY <1>8 DEF Created, R, R2
  <2>2. /\ running' = r /\ interrupts_enabled' = on /\ J2 = J
        /\ UNCHANGED <<blocked, finished_queue>>
    BY <1>4, <1>8 DEF Created
  <2>3. A2 = A \cup {tid} /\ tid \in Tids /\ tid \notin A \cup S \cup {r}
    BY <1>2, <1>3, <2>1, <2>2
  <2> DEFINE ctx2 == [ctx EXCEPT ![tid] = "stub"]
             X == {tid}
  <2>4. /\ ctx2[r] = ctx[r] /\ \A t \in A : ctx2[t] = ctx[t]
        /\ \A t \in S : ctx2[t] = ctx[t]
        /\ \A t \in X : ctx2[t] = "stub"
    BY <1>1, <2>3
  <2> HIDE DEF ctx2, X
  <2>5. Steady(A, r, on, ctx, A \cup X, r, on, ctx2, S)
    <3>1. on \in BOOLEAN /\ Settled(A, r, on, ctx, S)
      BY <1>1, <1>5
    <3>2. Settled(A \cup X, r, on, ctx2, S)
      BY <2>4, <3>1 DEF Settled
    <3>3. \A t \in Holders(A \cup X, r, on, ctx2, {}) :
            t \in Holders(A, r, on, ctx, {}) /\ ctx2[t] = ctx[t]
      BY <2>4 DEF Holders
    <3> QED
      BY <2>4, <3>2, <3>3 DEF Steady
  <2>6. threads' \subseteq {running'} \cup A2 \cup J2 \cup finished_queue' \cup Q \cup S
    BY <1>5, <2>1, <2>2, <2>3
  <2> QED
    BY <2>1, <2>2, <2>3, <2>5, <2>6 DEF A, A2, J2, ctx2, X
<1>9. CASE Reaped
  <2>1. PICK tid \in finished_queue :
           threads' = threads \ {tid} /\ finished_queue' = finished_queue \ {tid}
    BY <1>9 DEF Reaped
  <2>2. /\ running' = r /\ context' = ctx /\ interrupts_enabled' = TRUE
        /\ J2 = J /\ A2 = A
        /\ on \/ ctx[r] = "join"
    BY <1>2, <1>3, <1>4, <1>9 DEF Reaped, R, R2
  <2>3. on = TRUE \/ (~on /\ ctx[r] # "wait_unlock")
    BY <1>1, <2>2
  <2>4. Steady(A, r, on, ctx, A, r, TRUE, ctx, S)
    BY <1>1, <1>5, <1>6, <2>3, SteadyStay
  <2>5. threads' \subseteq {running'} \cup A2 \cup J2 \cup finished_queue' \cup Q \cup S
    BY <1>5, <2>1, <2>2
  <2> QED
    BY <2>2, <2>4, <2>5 DEF A, A2, J2
<1>10. CASE Shifted
  <2>1. PICK t \in Tids :
           \/ t \in R /\ R2 = R \ {t} /\ blocked' = blocked \cup {t}
           \/ t \in blocked /\ blocked' = blocked \ {t} /\ R2 = R \cup {t}
    BY <1>10 DEF Shifted, R, R2
  <2>2. /\ running' = r /\ context' = ctx /\ interrupts_enabled' = on /\ J2 = J
        /\ UNCHANGED <<threads, finished_queue>>
    BY <1>4, <1>10 DEF Shifted
  <2>3. A2 = A
    BY <1>2, <1>3, <2>1
  <2>4. Steady(A, r, on, ctx, A, r, on, ctx, S)
    BY <1>1, <1>5, <1>6, SteadyStay
  <2> QED
    BY <1>5, <2>2, <2>3, <2>4 DEF A, A2, J2
<1>11. ASSUME NEW W \in SUBSET Tids, NEW c \in {"yield", "suspend", "join", "exit"},
              Switched(W, c)
       PROVE  /\ Steady(A, r, on, ctx, A2, running', interrupts_enabled', context', S)
              /\ threads' \subseteq {running'} \cup A2 \cup J2 \cup finished_queue'
                                      \cup Q \cup S
  <2>1. /\ on /\ threads' = threads
        /\ running' \in W /\ R2 = W \ {running'}
        /\ context' = [ctx EXCEPT ![r] = c] /\ interrupts_enabled' = FALSE
    BY <1>11 DEF Switched, Dispatched, R2
  <2>2. \/ /\ c = "yield" /\ W = R \cup {r} /\ J2 = J
           /\ UNCHANGED <<blocked, finished_queue>>
        \/ /\ c = "suspend" /\ W = R /\ blocked' = blocked \cup {r} /\ J2 = J
           /\ UNCHANGED finished_queue
        \/ /\ c = "join" /\ W = R /\ J2 = J \cup {r}
           /\ UNCHANGED <<blocked, finished_queue>>
        \/ /\ c = "exit" /\ finished_queue' = finished_queue \cup {r}
           /\ R \subseteq W /\ W \cap J2 = {} /\ W \cup J2 = R \cup J
           /\ UNCHANGED blocked
    BY <1>4, <1>11 DEF Switched, R, J, J2
  <2>3. r \notin A /\ r \notin S
    BY <1>2, <2>1
  <2>4. context'[r] = c /\ \A t \in Tids \ {r} : context'[t] = ctx[t]
    <3>1. c \in Contexts
      BY DEF Contexts
    <3> QED
      BY <1>1, <2>1, <3>1
  <2> DEFINE X == IF c \in {"yield", "suspend"} THEN {r} ELSE W \ R
  <2>5. \A t \in X : context'[t] \in {"yield", "suspend", "join"}
    BY <1>2, <2>2, <2>4
  <2>6. running' \in A \cup X /\ A2 = (A \cup X) \ {running'}
    BY <1>2, <1>3, <2>1, <2>2, <2>3
  <2>7. threads' \subseteq {running'} \cup A2 \cup J2 \cup finished_queue' \cup Q \cup S
    <3>1. threads' \subseteq A \cup X \cup J2 \cup finished_queue' \cup Q \cup S
      BY <1>2, <1>5, <2>1, <2>2
    <3> QED
      BY <2>6, <3>1
  <2>8. \A t \in A \cup S : context'[t] = ctx[t]
    BY <1>1, <2>3, <2>4
  <2> DEFINE ctx2 == context'
  <2>9. (\A t \in A \cup S : ctx2[t] = ctx[t])
        /\ (\A t \in X : ctx2[t] \in {"yield", "suspend", "join"})
    BY <2>5, <2>8
  <2>10. A2 \cup {running'} \subseteq A \cup X /\ running' \notin A2
    BY <2>6
  <2> HIDE DEF X, ctx2
  <2>11. Steady(A, r, on, ctx, A2, running', FALSE, ctx2, S)
    BY <1>1, <1>5, <1>6, <2>1, <2>3, <2>9, <2>10, SteadySwitch
  <2> QED
    BY <2>1, <2>7, <2>11 DEF ctx2
<1>12. ~Died
  BY DEF Died
<1> QED
  BY <1>7, <1>8, <1>9, <1>10, <1>11, <1>12 DEF Scheduled, A, A2, J2

(* What is left to show of a step.                                         *)
LEMMA HoareKept ==
  ASSUME LockInv', FreeLockIsUnwanted', proc' = "alive",
         Settled(Able', running', interrupts_enabled', context', Asleep'),
         threads' \subseteq {running'} \cup Able' \cup Joiners(join_queue')
                              \cup finished_queue' \cup ToSet(waiting_queue') \cup Asleep',
         Promised(nextThreadToWakeUp', inside',
                  Holders(Able', running', interrupts_enabled', context', {}),
                  cond_var_waiting_queue', wake_up_order', context', waits_on')
  PROVE  HoareInv'
<1>1. HoareParts' <=>
        /\ Settled(Able', running', interrupts_enabled', context', Asleep')
        /\ threads' \subseteq {running'} \cup Able' \cup Joiners(join_queue')
                                \cup finished_queue' \cup ToSet(waiting_queue') \cup Asleep'
        /\ Promised(nextThreadToWakeUp', inside',
                    Holders(Able', running', interrupts_enabled', context', {}),
                    cond_var_waiting_queue', wake_up_order', context', waits_on')
  BY DEF HoareParts, Settled, Joiners, Holders, Promised, Owes, Idle, Waiters, InTurn
<1> QED
  BY <1>1 DEF HoareInv

(* The thread library does not die of the monitor's fault.                 *)
LEMMA ThreadStepFaults ==
  ASSUME proc = "alive", UThreadNext \/ UNCHANGED vars
  PROVE  proc' # "empty_wake_up_order"
<1> USE DEF Die
<1>1. \A rdy, c : switchThreads(rdy, c) => proc' # "empty_wake_up_order"
  BY DEF switchThreads
<1>2. CASE uthread_create_check \/ uthread_create \/ resumed \/ uthread_resume_find
  BY <1>2 DEF uthread_create_check, uthread_create, resumed, uthread_resume_find
<1>3. ASSUME NEW tid \in Tids, uthread_join(tid) PROVE proc' # "empty_wake_up_order"
  BY <1>1, <1>3 DEF uthread_join
<1>4. CASE uthread_join_resumed \/ uthread_exit_main
  BY <1>4 DEF uthread_join_resumed, uthread_exit_main
<1>5. CASE uthread_exit
  BY <1>1, <1>5 DEF uthread_exit
<1>6. CASE yield_body
  BY <1>1, <1>6 DEF yield_body, BoostingFault
<1>7. ASSUME NEW op, NEW tid, Check(op, tid) PROVE proc' # "empty_wake_up_order"
  BY <1>7 DEF Check
<1>8. CASE uthread_suspend
  BY <1>1, <1>8 DEF uthread_suspend
<1>9. CASE uthread_resume
  BY <1>9 DEF uthread_resume
<1>10. CASE uthread_change_priority
  BY <1>10 DEF uthread_change_priority
<1>11. CASE UNCHANGED vars
  BY <1>11 DEF vars, uthreadVars
<1> QED
  BY <1>2, <1>3, <1>4, <1>5, <1>6, <1>7, <1>8, <1>9, <1>10, <1>11 DEF UThreadNext,
     uthread_yield, timeHandler, uthread_suspend_check, uthread_resume_count,
     uthread_priority_check

(* A step of the thread library keeps every promise.                       *)
LEMMA ThreadStepHoare ==
  ASSUME HoareInv, ThreadStep \/ UNCHANGED vars, proc = "alive", LockInv'
  PROVE  HoareInv'
<1>1. HoareState
  BY DEF HoareInv, LockInv, LockState, HoareState
<1>2. Scheduled
  <2>1. [UThreadNext]_uthreadVars
    BY DEF ThreadStep, vars
  <2> QED
    BY <1>1, <2>1, ThreadStepScheduled DEF LockState, HoareState
<1>3. /\ UNCHANGED <<value, waiting_queue, nextThreadToWakeUp, cond_var_waiting_queue,
                     wake_up_order, waits_on, inside>>
      /\ Asleep' = Asleep
  BY DEF ThreadStep, vars, monitorVars, lockVars, condVars, Asleep, Sleepers
<1>4. FreeLockIsUnwanted' /\ proc' # "empty_wake_up_order"
  <2>1. FreeLockIsUnwanted'
    BY <1>1, <1>3 DEF HoareState, FreeLockIsUnwanted, Notified, SeqThreads
  <2>2. proc' # "empty_wake_up_order"
    BY ThreadStepFaults DEF ThreadStep
  <2> QED
    BY <2>1, <2>2
<1>5. CASE proc' # "alive"
  BY <1>4, <1>5 DEF HoareInv
<1>6. CASE proc' = "alive"
  <2> DEFINE S == Asleep
             Q == ToSet(waiting_queue)
             A == Able
             A2 == Able'
             P2 == Holders(A2, running', interrupts_enabled', context', {})
  <2>1. /\ Steady(A, running, interrupts_enabled, context,
                  A2, running', interrupts_enabled', context', S)
        /\ threads' \subseteq {running'} \cup A2 \cup Joiners(join_queue')
                                \cup finished_queue' \cup Q \cup S
    BY <1>1, <1>2, <1>6, ThreadStepSteady
  <2> HIDE DEF A, A2
  <2>2. /\ Settled(A2, running', interrupts_enabled', context', S)
        /\ P2 \subseteq Holders(A, running, interrupts_enabled, context, {})
        /\ \A t \in S \cup P2 : context'[t] = context[t]
    BY <2>1 DEF Steady
  <2> DEFINE ctx2 == context'
             P == Holders(A, running, interrupts_enabled, context, {})
  <2>3. Promised(nextThreadToWakeUp, inside, P, cond_var_waiting_queue, wake_up_order,
                 context, waits_on)
    BY <1>1 DEF HoareState, HoareParts, A
  <2>4. /\ cond_var_waiting_queue \in [CondVars -> Seq(Tids)]
        /\ wake_up_order \in [CondVars -> Seq(Tids)]
    BY <1>1 DEF HoareState, LockState, MonitorTypeOK
  <2>5. /\ nextThreadToWakeUp # Null => inside # {}
        /\ inside # {} /\ nextThreadToWakeUp = Null => Idle(wake_up_order)
    BY <2>3 DEF Promised
  <2>6. /\ P2 \subseteq P
        /\ \A t \in Sleepers(cond_var_waiting_queue, wake_up_order, nextThreadToWakeUp)
                      \cup P2 : ctx2[t] = context[t]
    BY <2>2 DEF Asleep
  <2> HIDE DEF P, P2, ctx2
  <2>7. Promised(nextThreadToWakeUp, inside, P2, cond_var_waiting_queue, wake_up_order,
                 ctx2, waits_on)
    BY <2>3, <2>4, <2>5, <2>6, PromiseKept
  <2> QED
    BY <1>3, <1>4, <1>6, <2>1, <2>2, <2>7, HoareKept DEF A2, P2, ctx2
<1> QED
  BY <1>5, <1>6

-----------------------------------------------------------------------------
(* The steps of the lock and the condition variables.                      *)

(* What the invariant says of the condition variables.                     *)
LEMMA HoareFacts ==
  ASSUME HoareState
  PROVE  /\ Settled(Able, running, interrupts_enabled, context, Asleep)
         /\ threads \subseteq {running} \cup Able \cup Joiners(join_queue)
                                \cup finished_queue \cup ToSet(waiting_queue) \cup Asleep
         /\ Promised(nextThreadToWakeUp, inside, Passed, cond_var_waiting_queue,
                     wake_up_order, context, waits_on)
         /\ cond_var_waiting_queue \in [CondVars -> Seq(Tids)]
         /\ wake_up_order \in [CondVars -> Seq(Tids)]
         /\ value = 0 => /\ inside = {} /\ waiting_queue = << >>
                         /\ nextThreadToWakeUp = Null /\ Idle(wake_up_order)
<1>1. wake_up_order \in [CondVars -> Seq(Tids)]
  BY DEF HoareState, LockState, MonitorTypeOK
<1>2. Notified = {} <=> Idle(wake_up_order)
  BY <1>1, IdleMeansNone DEF Notified
<1>3. cond_var_waiting_queue \in [CondVars -> Seq(Tids)]
  BY DEF HoareState, LockState, MonitorTypeOK
<1> QED
  BY <1>1, <1>2, <1>3 DEF HoareState, HoareParts, FreeLockIsUnwanted, Passed

(* A step in which the process dies for want of a ready thread.            *)
LEMMA HoareDead ==
  ASSUME LockInv', FreeLockIsUnwanted', proc' = "no_ready"
  PROVE  HoareInv'
  BY DEF HoareInv

(* lock() keeps the invariant: a caller that finds the lock taken joins    *)
(* its queue.                                                              *)
LEMMA LockHoare ==
  ASSUME HoareState, lock, LockInv'
  PROVE  HoareInv'
<1> DEFINE R == QueuedIn(ready)
           A == Able
           r == running
           on == interrupts_enabled
           ctx == context
           Q == ToSet(waiting_queue)
           S == Asleep
           J == Joiners(join_queue)
           n == nextThreadToWakeUp
           cvq == cond_var_waiting_queue
           wo == wake_up_order
<1>1. /\ A \in SUBSET Tids /\ r \in Tids /\ on \in BOOLEAN
      /\ ctx \in [Tids -> Contexts] /\ S \in SUBSET Tids
      /\ Lawful(A, r, on, ctx, inside, Q, S, value, lock_count)
      /\ A = R \cup blocked /\ R \cap blocked = {}
      /\ on => r \notin A /\ r \notin Q /\ r \notin S
  BY LockFacts DEF HoareState
<1>2. /\ Settled(A, r, on, ctx, S)
      /\ threads \subseteq {r} \cup A \cup J \cup finished_queue \cup Q \cup S
      /\ Promised(n, inside, Passed, cvq, wo, ctx, waits_on)
      /\ cvq \in [CondVars -> Seq(Tids)] /\ wo \in [CondVars -> Seq(Tids)]
      /\ value = 0 => n = Null /\ Idle(wo)
  BY HoareFacts
<1>3. /\ on /\ r \notin inside /\ proc = "alive"
      /\ UNCHANGED <<table, priority, queues, boosting, call, nextThreadToWakeUp,
                     cond_var_waiting_queue, wake_up_order, waits_on>>
  BY DEF lock, Outside, Calling, InUserCode, condVars
<1>4. Asleep' = S /\ UNCHANGED <<threads, blocked, join_queue, finished_queue>>
  BY <1>3 DEF Asleep, Sleepers, table, queues
<1>5. value \in {0, 1}
  BY LockFacts DEF HoareState
<1>6. CASE taken
  <2>1. /\ waiting_queue' = Append(waiting_queue, r)
        /\ switchThreads(ready, "lock")
        /\ UNCHANGED <<value, inside>> /\ value = 1
    BY <1>6 DEF lock, taken
  <2>2. FreeLockIsUnwanted'
    BY <2>1 DEF FreeLockIsUnwanted
  <2>3. "lock" \in Contexts /\ TypeOK /\ Sorted(ready, priority')
        /\ priority' \in [Tids -> Priorities]
    BY <1>3 DEF HoareState, LockState, Base, TypeOK, Contexts
  <2>4. Dispatched(R, "lock")
    BY <1>3, <2>1, <2>3, SwitchDispatches
  <2>5. CASE proc' = "alive"
    <3>1. /\ running' \in R /\ QueuedIn(ready') = R \ {running'}
          /\ context' = [ctx EXCEPT ![r] = "lock"] /\ interrupts_enabled' = FALSE
      BY <2>4, <2>5 DEF Dispatched
    <3> DEFINE A2 == Able'
               P2 == Holders(A2, running', FALSE, context', {})
    <3>2. A2 = A \ {running'} /\ running' \in A
      BY <1>1, <1>4, <3>1 DEF Able, QueuedIn
    <3>3. \A t \in A \cup S : context'[t] = ctx[t]
      BY <1>1, <1>3, <3>1
    <3>4. ToSet(waiting_queue') = Q \cup {r}
      BY <1>1, <1>3, <2>1, AppendMembers DEF HoareState, LockState, MonitorTypeOK,
         MonitorParts
    <3>5. \A t \in A : ctx[t] # "signal"
      BY <1>1 DEF Lawful, Places
    <3> HIDE DEF A, A2
    <3>6. Steady(A, r, on, ctx, A2, running', FALSE, context', S)
      <4> DEFINE X == {}
                 ctx2 == context'
      <4>1. /\ A2 \cup {running'} \subseteq A \cup X /\ running' \notin A2
            /\ \A t \in A \cup S : ctx2[t] = ctx[t]
            /\ \A t \in X : ctx2[t] \in {"yield", "suspend", "join"}
            /\ r \notin A /\ r \notin S
        BY <1>1, <1>3, <3>2, <3>3
      <4> HIDE DEF X, ctx2
      <4>2. Steady(A, r, on, ctx, A2, running', FALSE, ctx2, S)
        BY <1>1, <1>2, <1>3, <3>5, <4>1, SteadySwitch
      <4> QED
        BY <4>2 DEF ctx2
    <3>7. P2 \subseteq Passed /\ \A t \in Sleepers(cvq, wo, n) \cup P2 : context'[t] = ctx[t]
      BY <1>3, <3>6 DEF Steady, Passed, A, Asleep
    <3>8. n # Null => inside # {}
      BY <1>2 DEF Promised
    <3>9. inside # {} /\ n = Null => Idle(wo)
      BY <1>2 DEF Promised
    <3> DEFINE ctx2 == context'
    <3>10. P2 \subseteq Passed /\ \A t \in Sleepers(cvq, wo, n) \cup P2 : ctx2[t] = ctx[t]
      BY <3>7
    <3> HIDE DEF P2, ctx2
    <3>11. Promised(n, inside, P2, cvq, wo, ctx2, waits_on)
      BY <1>2, <3>8, <3>9, <3>10, PromiseKept
    <3>12. Promised(nextThreadToWakeUp', inside',
                  Holders(Able', running', interrupts_enabled', context', {}),
                  cond_var_waiting_queue', wake_up_order', context', waits_on')
      BY <1>3, <2>1, <3>1, <3>11 DEF P2, A2, ctx2
    <3>13. Settled(Able', running', interrupts_enabled', context', Asleep')
      BY <1>4, <3>1, <3>6 DEF A2, Steady
    <3>14. threads' \subseteq {running'} \cup Able' \cup Joiners(join_queue')
                           \cup finished_queue' \cup ToSet(waiting_queue') \cup Asleep'
      BY <1>2, <1>4, <3>2, <3>4 DEF A2
    <3> QED
      BY <2>2, <2>5, <3>12, <3>13, <3>14, HoareKept
  <2>6. CASE proc' # "alive"
    BY <2>2, <2>4, <2>6, HoareDead DEF Dispatched
  <2> QED
    BY <2>5, <2>6
<1>7. CASE ~taken
  <2>1. /\ value' = 1 /\ inside' = inside \cup {r} /\ value = 0
        /\ UNCHANGED <<waiting_queue, ready, running, context, interrupts_enabled, proc>>
    BY <1>5, <1>7 DEF lock, Enter, taken
  <2>2. FreeLockIsUnwanted'
    BY <2>1 DEF FreeLockIsUnwanted
  <2>3. Able' = A
    BY <1>4, <2>1 DEF Able, QueuedIn
  <2>4. n = Null /\ Idle(wo)
    BY <1>2, <2>1
  <2>5. Promised(n, inside \cup {r}, Passed, cvq, wo, ctx, waits_on)
    BY <1>2, <2>4 DEF Promised
  <2>6. Promised(nextThreadToWakeUp', inside',
                 Holders(Able', running', interrupts_enabled', context', {}),
                 cond_var_waiting_queue', wake_up_order', context', waits_on')
    BY <1>3, <2>1, <2>3, <2>5 DEF Passed
  <2>7. Settled(Able', running', interrupts_enabled', context', Asleep')
    BY <1>2, <1>4, <2>1, <2>3
  <2>8. threads' \subseteq {running'} \cup Able' \cup Joiners(join_queue')
                           \cup finished_queue' \cup ToSet(waiting_queue') \cup Asleep'
    BY <1>2, <1>4, <2>1, <2>3
  <2> QED
    BY <1>3, <2>1, <2>2, <2>6, <2>7, <2>8, HoareKept
<1> QED
  BY <1>6, <1>7

(* A thread returns from unlock(), or from lock() or signal() with the     *)
(* lock, and finds nobody to wake.                                         *)
LEMMA ReturnHoare ==
  ASSUME HoareState, LockInv', ~interrupts_enabled, interrupts_enabled' = TRUE,
         context[running] \in {"lock", "signal", "unlock"},
         IF context[running] = "unlock" THEN inside' = inside
                                        ELSE inside' = inside \cup {running},
         UNCHANGED <<table, ready, running, queues, context, proc, lockVars, condVars>>
  PROVE  HoareInv'
<1> DEFINE A == Able
           r == running
           on == interrupts_enabled
           ctx == context
           Q == ToSet(waiting_queue)
           S == Asleep
           J == Joiners(join_queue)
           n == nextThreadToWakeUp
           cvq == cond_var_waiting_queue
           wo == wake_up_order
           P2 == Holders(A, r, TRUE, ctx, {})
<1>1. /\ A \in SUBSET Tids /\ r \in Tids /\ on \in BOOLEAN
      /\ ctx \in [Tids -> Contexts] /\ inside \in SUBSET Tids
      /\ Q \in SUBSET Tids /\ S \in SUBSET Tids /\ lock_count \in [Tids -> Nat]
      /\ Lawful(A, r, on, ctx, inside, Q, S, value, lock_count)
      /\ proc = "alive"
  BY LockFacts DEF HoareState, LockState
<1>2. /\ Settled(A, r, on, ctx, S)
      /\ threads \subseteq {r} \cup A \cup J \cup finished_queue \cup Q \cup S
      /\ Promised(n, inside, Passed, cvq, wo, ctx, waits_on)
      /\ cvq \in [CondVars -> Seq(Tids)] /\ wo \in [CondVars -> Seq(Tids)]
  BY HoareFacts
<1>3. /\ UNCHANGED <<threads, blocked, join_queue, finished_queue, value, waiting_queue,
                     nextThreadToWakeUp, cond_var_waiting_queue, wake_up_order, waits_on>>
      /\ Asleep' = S /\ Able' = A
  BY DEF table, queues, lockVars, condVars, Asleep, Sleepers, Able, QueuedIn
<1>4. FreeLockIsUnwanted'
  <2>1. CASE ctx[r] = "unlock"
    BY <1>3, <2>1 DEF HoareState, FreeLockIsUnwanted, Notified, SeqThreads
  <2>2. CASE ctx[r] # "unlock"
    <3>1. value = 1
      BY <1>1, <2>2, BackAlone
    <3> QED
      BY <1>3, <3>1 DEF FreeLockIsUnwanted
  <2> QED
    BY <2>1, <2>2
<1>5. Settled(A, r, TRUE, ctx, S)
  BY <1>2 DEF Settled
<1>6. P2 \subseteq Passed
  BY DEF Passed, Holders
<1>7. (n # Null => inside' # {}) /\ (inside' # {} /\ n = Null => Idle(wo))
  <2>1. CASE ctx[r] = "unlock"
    BY <1>2, <2>1 DEF Promised
  <2>2. CASE ctx[r] # "unlock"
    <3>1. inside = {}
      BY <1>1, <2>2, BackAlone
    <3>2. n = Null
      BY <1>2, <3>1 DEF Promised
    <3>3. r \in Passed
      BY <2>2 DEF Passed, Holders
    <3>4. Idle(wo)
      BY <1>2, <2>2, <3>3 DEF Promised, Owes
    <3> QED
      BY <3>2, <3>4
  <2> QED
    BY <2>1, <2>2
<1> DEFINE I2 == inside'
<1> HIDE DEF P2, I2
<1>8. Promised(n, I2, P2, cvq, wo, ctx, waits_on)
  <2>1. (n # Null => I2 # {}) /\ (I2 # {} /\ n = Null => Idle(wo))
    BY <1>7 DEF I2
  <2> QED
    BY <1>2, <1>6, <2>1, PromiseKept
<1>9. Promised(nextThreadToWakeUp', inside',
               Holders(Able', running', interrupts_enabled', context', {}),
               cond_var_waiting_queue', wake_up_order', context', waits_on')
  BY <1>3, <1>8 DEF P2, I2
<1>10. Settled(Able', running', interrupts_enabled', context', Asleep')
  BY <1>3, <1>5
<1>11. threads' \subseteq {running'} \cup Able' \cup Joiners(join_queue')
                           \cup finished_queue' \cup ToSet(waiting_queue') \cup Asleep'
  BY <1>2, <1>3
<1> QED
  BY <1>1, <1>4, <1>9, <1>10, <1>11, HoareKept

(* A woken thread that returns takes the next one out of the wake-up       *)
(* order: another woken thread, or last the one that called signal().      *)
LEMMA NextInTurn ==
  ASSUME NEW P, NEW cvq, NEW wo \in [CondVars -> Seq(Tids)], NEW ctx, NEW w,
         Promised(Null, {}, P, cvq, wo, ctx, w), NEW c \in CondVars, wo[c] # << >>,
         NEW I2, I2 # {}
  PROVE  Promised(Head(wo[c]), I2, {}, cvq, [wo EXCEPT ![c] = Tail(wo[c])], ctx, w)
<1> DEFINE q == wo[c]
           h == Head(q)
           rest == Tail(q)
           wo2 == [wo EXCEPT ![c] = rest]
<1>1. /\ q \in Seq(Tids) /\ Len(q) \in Nat /\ Len(q) > 0 /\ h = q[1] /\ h \in Tids
      /\ rest \in Seq(Tids) /\ Len(rest) = Len(q) - 1
      /\ \A i \in 1 .. Len(rest) : rest[i] = q[i + 1]
  OBVIOUS
<1>2. wo2[c] = rest /\ \A d \in CondVars \ {c} : wo2[d] = wo[d]
  BY <1>1
<1>3. \A d \in CondVars \ {c} : wo[d] = << >>
  BY DEF Promised, InTurn
<1>4. \A i \in 1 .. Len(q) :
        IF i = Len(q) THEN ctx[q[i]] = "signal"
        ELSE ctx[q[i]] \in {"wait", "wait_unlock"} /\ w[q[i]] = c
  BY DEF Promised, InTurn
<1> HIDE DEF q, h, rest, wo2
<1>5. Owes(h, wo2, ctx, w)
  <2>1. CASE Len(q) = 1
    <3>1. ctx[h] = "signal"
      BY <1>1, <1>4, <2>1
    <3>2. rest = << >>
      BY <1>1, <2>1
    <3> QED
      BY <1>2, <1>3, <3>1, <3>2 DEF Owes, Idle
  <2>2. CASE Len(q) # 1
    <3>1. ctx[h] \in {"wait", "wait_unlock"} /\ w[h] = c
      BY <1>1, <1>4, <2>2
    <3>2. rest # << >>
      BY <1>1, <2>2
    <3> QED
      BY <1>2, <3>1, <3>2 DEF Owes
  <2> QED
    BY <2>1, <2>2
<1>6. InTurn(wo2, ctx, w)
  <2>1. \A d, e \in CondVars : wo2[d] # << >> /\ wo2[e] # << >> => d = e
    BY <1>2, <1>3
  <2>2. ASSUME NEW d \in CondVars, NEW i \in 1 .. Len(wo2[d])
        PROVE  IF i = Len(wo2[d]) THEN ctx[wo2[d][i]] = "signal"
               ELSE ctx[wo2[d][i]] \in {"wait", "wait_unlock"} /\ w[wo2[d][i]] = d
    <3>1. d = c
      <4>1. d # c => Len(wo2[d]) = 0
        BY <1>2, <1>3
      <4> QED
        BY <4>1
    <3>2. i + 1 \in 1 .. Len(q) /\ rest[i] = q[i + 1] /\ (i = Len(rest) <=> i + 1 = Len(q))
      BY <1>1, <1>2, <2>2, <3>1
    <3> QED
      BY <1>2, <1>4, <3>1, <3>2
  <2> QED
    BY <2>1, <2>2 DEF InTurn
<1>7. Waiters(cvq, ctx, w)
  BY DEF Promised
<1>8. h # Null
  BY <1>1, MonitorAssumption
<1> QED
  BY <1>5, <1>6, <1>7, <1>8 DEF Promised, q, h, rest, wo2

(* The rest of a wait() that was woken: the next thread to wake is named.  *)
LEMMA WaitResumedHoare ==
  ASSUME HoareState, wait_resumed, LockInv'
  PROVE  HoareInv'
<1> DEFINE A == Able
           r == running
           on == interrupts_enabled
           ctx == context
           Q == ToSet(waiting_queue)
           S == Asleep
           J == Joiners(join_queue)
           n == nextThreadToWakeUp
           cvq == cond_var_waiting_queue
           wo == wake_up_order
           c == waits_on[r]
           order == wo[c]
<1>1. /\ A \in SUBSET Tids /\ r \in Tids /\ on \in BOOLEAN
      /\ ctx \in [Tids -> Contexts] /\ inside \in SUBSET Tids
      /\ Q \in SUBSET Tids /\ S \in SUBSET Tids /\ lock_count \in [Tids -> Nat]
      /\ Lawful(A, r, on, ctx, inside, Q, S, value, lock_count)
  BY LockFacts DEF HoareState
<1>2. /\ Settled(A, r, on, ctx, S)
      /\ threads \subseteq {r} \cup A \cup J \cup finished_queue \cup Q \cup S
      /\ Promised(n, inside, Passed, cvq, wo, ctx, waits_on)
      /\ cvq \in [CondVars -> Seq(Tids)] /\ wo \in [CondVars -> Seq(Tids)]
  BY HoareFacts
<1>3. ~on /\ ctx[r] = "wait" /\ proc = "alive"
  BY DEF wait_resumed, Back
<1>4. /\ value = 1 /\ inside = {} /\ r \notin A
      /\ \A t \in A : ctx[t] \notin {"lock", "wait"}
  BY <1>1, <1>3, BackAlone
<1>5. r \in Passed
  BY <1>3 DEF Passed, Holders
<1>6. order # << >> /\ n = Null
  BY <1>2, <1>3, <1>4, <1>5 DEF Promised, Owes
<1>7. c \in CondVars
  BY <1>1, <1>3 DEF HoareState, LockState, MonitorParts, WaitsKnown
<1>8. /\ nextThreadToWakeUp' = Head(order)
      /\ wake_up_order' = [wo EXCEPT ![c] = Tail(order)]
      /\ interrupts_enabled' = TRUE /\ inside' = inside \cup {r}
      /\ UNCHANGED <<table, ready, running, queues, context, proc, value, waiting_queue,
                     cond_var_waiting_queue, waits_on>>
  BY <1>6 DEF wait_resumed, Enter, next_to_wake
<1>9. /\ UNCHANGED <<threads, blocked, join_queue, finished_queue>> /\ Able' = A
  BY <1>8 DEF table, queues, Able, QueuedIn
<1>10. Asleep' = S
  <2>1. AtMostOnce(cvq, wo, n)
    BY DEF HoareState, LockState, MonitorParts
  <2>2. Sleepers(cvq, wake_up_order', Head(order)) = SeqThreads(cvq) \cup SeqThreads(wo)
    BY <1>6, <1>7, <1>8, <2>1, SleepNext
  <2>3. Asleep' = Sleepers(cvq, wake_up_order', Head(order))
    BY <1>8 DEF Asleep, Sleepers
  <2> QED
    BY <1>6, <2>2, <2>3 DEF Asleep, Sleepers
<1>11. FreeLockIsUnwanted'
  BY <1>4, <1>8 DEF FreeLockIsUnwanted
<1>12. Settled(Able', running', interrupts_enabled', context', Asleep')
  <2>1. Settled(A, r, TRUE, ctx, S)
    BY <1>2, <1>3 DEF Settled
  <2> QED
    BY <1>8, <1>9, <1>10, <2>1
<1>13. threads' \subseteq {running'} \cup Able' \cup Joiners(join_queue')
                           \cup finished_queue' \cup ToSet(waiting_queue') \cup Asleep'
  BY <1>2, <1>8, <1>9, <1>10
<1>14. Holders(Able', running', interrupts_enabled', context', {}) = {}
  <2>1. Holders(A, r, TRUE, ctx, {}) = {}
    BY <1>4 DEF Holders
  <2> QED
    BY <1>8, <1>9, <2>1
<1>15. Promised(nextThreadToWakeUp', inside',
                Holders(Able', running', interrupts_enabled', context', {}),
                cond_var_waiting_queue', wake_up_order', context', waits_on')
  <2> DEFINE I2 == inside'
  <2>1. I2 # {}
    BY <1>8
  <2>2. Promised(Null, {}, Passed, cvq, wo, ctx, waits_on)
    BY <1>2, <1>4, <1>6
  <2> HIDE DEF I2
  <2>3. Promised(Head(wo[c]), I2, {}, cvq, [wo EXCEPT ![c] = Tail(wo[c])], ctx, waits_on)
    BY <1>2, <1>6, <1>7, <2>1, <2>2, NextInTurn
  <2> QED
    BY <1>8, <1>14, <2>3 DEF I2
<1> QED
  BY <1>3, <1>8, <1>11, <1>12, <1>13, <1>15, HoareKept

(* A thread that runs inside has the lock for itself.                      *)
LEMMA InsideFacts ==
  ASSUME HoareState, interrupts_enabled, running \in inside
  PROVE  /\ value = 1 /\ inside = {running}
         /\ \A t \in Able : context[t] \notin {"lock", "wait"}
<1> DEFINE H == Holders(Able, running, interrupts_enabled, context, inside)
<1>1. Token(H, value) /\ running \notin Able
  BY LockFacts DEF HoareState, Lawful
<1>2. running \in H
  BY DEF Holders
<1> HIDE DEF H
<1>3. value = 1 /\ \A t \in H : t = running
  BY <1>1, <1>2 DEF Token
<1>4. \A t \in inside : t \in H
  BY DEF H, Holders
<1>5. \A t \in Able : context[t] \in {"lock", "wait"} => t \in H
  BY DEF H, Holders
<1>6. \A t \in Able : context[t] \notin {"lock", "wait"}
  BY <1>1, <1>3, <1>5
<1>7. inside = {running}
  BY <1>3, <1>4
<1> QED
  BY <1>3, <1>6, <1>7

\* The thread h has been passed the lock and the processor.
Handed(A, h, ctx, S) ==
  Settled(A, h, FALSE, ctx, S) /\ Holders(A, h, FALSE, ctx, {}) \subseteq {h}

(* The processor goes to a sleeping thread h, and the lock with it.        *)
LEMMA HandedTo ==
  ASSUME HoareState, interrupts_enabled, running \in inside, NEW h \in Asleep,
         NEW c \in {"unlock", "wait_unlock", "signal"},
         NEW ctx2, ctx2[running] = c, \A t \in Tids \ {running} : ctx2[t] = context[t],
         NEW A2, A2 \subseteq Able \cup {running}, Able \subseteq A2,
         NEW S2, \A t \in Asleep : t # h => t \in S2, c = "wait_unlock" => running \in S2
  PROVE  Handed(A2, h, ctx2, S2)
<1> DEFINE A == Able
           r == running
           ctx == context
           S == Asleep
<1>1. /\ A \in SUBSET Tids /\ S \in SUBSET Tids /\ r \in Tids
      /\ Lawful(A, r, interrupts_enabled, ctx, inside, ToSet(waiting_queue), S, value,
                lock_count)
      /\ r \notin A /\ r \notin S
  BY LockFacts DEF HoareState
<1>2. r # h /\ (ctx[h] = "wait_unlock" => h \in A)
  BY <1>1 DEF Lawful, Places
<1>3. \A t \in A : ctx[t] \notin {"lock", "wait"}
  BY InsideFacts
<1>4. \A t \in A : ctx[t] = "wait_unlock" => t \in S
  BY HoareFacts DEF Settled
<1> HIDE DEF A, S
<1>5. Settled(A2, h, FALSE, ctx2, S2)
  <2>1. SUFFICES ASSUME NEW t \in A2 \cup {h}, ctx2[t] = "wait_unlock", t \notin S2
                 PROVE  t = h /\ t \in A2
    BY DEF Settled
  <2>2. t # r /\ t \in A \cup {h}
    BY <1>2, <2>1 DEF A
  <2>3. ctx[t] = "wait_unlock"
    BY <1>1, <2>1, <2>2 DEF S
  <2>4. t \in A
    BY <1>2, <2>2, <2>3
  <2> QED
    BY <1>4, <2>1, <2>3, <2>4 DEF A, S
<1>6. Holders(A2, h, FALSE, ctx2, {}) \subseteq {h}
  <2>1. SUFFICES ASSUME NEW t \in A2, ctx2[t] \in {"lock", "wait"} PROVE FALSE
    BY DEF Holders
  <2>2. t \in A /\ t # r
    BY <2>1 DEF A
  <2> QED
    BY <1>1, <1>3, <2>1, <2>2
<1> QED
  BY <1>5, <1>6 DEF Handed

(* The threads in the waiting queues are left alone.                       *)
LEMMA WaitersKept ==
  ASSUME NEW cvq, NEW ctx, NEW w, Waiters(cvq, ctx, w),
         NEW ctx2, NEW w2, Undisturbed(SeqThreads(cvq), ctx, w, ctx2, w2)
  PROVE  Waiters(cvq, ctx2, w2)
<1> SUFFICES ASSUME NEW c \in CondVars, NEW t \in ToSet(cvq[c])
             PROVE  ctx2[t] \in {"wait", "wait_unlock"} /\ w2[t] = c
  BY DEF Waiters
<1>1. t \in SeqThreads(cvq)
  BY DEF SeqThreads
<1>2. ctx[t] \in {"wait", "wait_unlock"} /\ w[t] = c
  BY DEF Waiters
<1> QED
  BY <1>1, <1>2 DEF Undisturbed

(* The thread r joins a waiting queue.                                     *)
LEMMA WaitersJoined ==
  ASSUME NEW cvq \in [CondVars -> Seq(Tids)], NEW ctx, NEW w, Waiters(cvq, ctx, w),
         NEW r \in Tids, r \notin SeqThreads(cvq), NEW c \in CondVars,
         NEW ctx2, NEW w2, Undisturbed(SeqThreads(cvq), ctx, w, ctx2, w2),
         ctx2[r] \in {"wait", "wait_unlock"}, w2[r] = c
  PROVE  Waiters([cvq EXCEPT ![c] = Append(@, r)], ctx2, w2)
<1> DEFINE cvq2 == [cvq EXCEPT ![c] = Append(@, r)]
<1>1. Waiters(cvq, ctx2, w2)
  BY WaitersKept
<1>2. cvq2[c] = Append(cvq[c], r) /\ \A d \in CondVars \ {c} : cvq2[d] = cvq[d]
  OBVIOUS
<1>3. ToSet(cvq2[c]) = ToSet(cvq[c]) \cup {r}
  <2>1. cvq[c] \in Seq(Tids) /\ ToSet(cvq[c]) \subseteq SeqThreads(cvq)
    BY DEF SeqThreads
  <2> QED
    BY <1>2, <2>1, AppendMembers
<1> HIDE DEF cvq2
<1>4. Waiters(cvq2, ctx2, w2)
  <2>1. SUFFICES ASSUME NEW d \in CondVars, NEW t \in ToSet(cvq2[d])
                 PROVE  ctx2[t] \in {"wait", "wait_unlock"} /\ w2[t] = d
    BY DEF Waiters
  <2>2. CASE t \in ToSet(cvq[d])
    BY <1>1, <2>2 DEF Waiters
  <2>3. CASE t \notin ToSet(cvq[d])
    <3>1. d = c /\ t = r
      BY <1>2, <1>3, <2>1, <2>3
    <3> QED
      BY <3>1
  <2> QED
    BY <2>2, <2>3
<1> QED
  BY <1>4 DEF cvq2

(* The promise to the thread n is kept when n gets the lock.               *)
LEMMA PromiseMet ==
  ASSUME NEW n, NEW I, NEW P, NEW cvq, NEW wo \in [CondVars -> Seq(Tids)],
         NEW ctx, NEW w, Promised(n, I, P, cvq, wo, ctx, w), n # Null,
         NEW ctx2, NEW w2, NEW cvq2, Waiters(cvq2, ctx2, w2),
         Undisturbed(SeqThreads(wo) \cup {n}, ctx, w, ctx2, w2),
         NEW P2, P2 \subseteq {n}
  PROVE  Promised(Null, {}, P2, cvq2, wo, ctx2, w2)
<1>1. \A t \in P2 : Owes(t, wo, ctx2, w2)
  <2>1. Owes(n, wo, ctx2, w2)
    BY DEF Promised, Owes, Undisturbed
  <2> QED
    BY <2>1
<1>2. InTurn(wo, ctx2, w2)
  <2>1. SUFFICES ASSUME NEW c \in CondVars, NEW i \in 1 .. Len(wo[c])
                 PROVE  IF i = Len(wo[c]) THEN ctx2[wo[c][i]] = "signal"
                        ELSE ctx2[wo[c][i]] \in {"wait", "wait_unlock"} /\ w2[wo[c][i]] = c
    BY DEF Promised, InTurn
  <2>2. wo[c][i] \in SeqThreads(wo)
    BY QueuedThread
  <2>3. IF i = Len(wo[c]) THEN ctx[wo[c][i]] = "signal"
        ELSE ctx[wo[c][i]] \in {"wait", "wait_unlock"} /\ w[wo[c][i]] = c
    BY DEF Promised, InTurn
  <2> QED
    BY <2>2, <2>3 DEF Undisturbed
<1> QED
  BY <1>1, <1>2 DEF Promised

(* Nothing is promised when the lock is released with nobody to wake.      *)
LEMMA NothingPromised ==
  ASSUME NEW wo \in [CondVars -> Seq(Tids)], Idle(wo), NEW cvq, NEW ctx, NEW w,
         Waiters(cvq, ctx, w), NEW P, \A t \in P : ctx[t] = "lock"
  PROVE  Promised(Null, {}, P, cvq, wo, ctx, w)
<1>1. \A c \in CondVars : Len(wo[c]) = 0
  BY DEF Idle
<1>2. InTurn(wo, ctx, w)
  BY <1>1 DEF InTurn, Idle
<1>3. \A t \in P : Owes(t, wo, ctx, w)
  BY DEF Owes
<1> QED
  BY <1>2, <1>3 DEF Promised

(* The thread that is owed the lock gets it.                               *)
LEMMA HandBackHoare ==
  ASSUME HoareState, LockInv', interrupts_enabled, running \in inside,
         NEW c \in {"unlock", "wait_unlock"}, HandBack(c),
         UNCHANGED <<table, queues, wake_up_order>>, inside' = inside \ {running},
         \A t \in Tids \ {running} : waits_on'[t] = waits_on[t],
         Waiters(cond_var_waiting_queue', context', waits_on'),
         Asleep' = (Asleep \ {nextThreadToWakeUp})
                     \cup (IF c = "wait_unlock" THEN {running} ELSE {})
  PROVE  HoareInv'
<1> DEFINE R == QueuedIn(ready)
           A == Able
           r == running
           on == interrupts_enabled
           ctx == context
           I == inside
           Q == ToSet(waiting_queue)
           S == Asleep
           J == Joiners(join_queue)
           n == nextThreadToWakeUp
           wo == wake_up_order
           A2 == Able'
           S2 == Asleep'
           ctx2 == context'
           w2 == waits_on'
           cvq2 == cond_var_waiting_queue'
           P2 == Holders(A2, n, FALSE, ctx2, {})
<1>1. /\ A \in SUBSET Tids /\ r \in Tids /\ on \in BOOLEAN
      /\ ctx \in [Tids -> Contexts] /\ I \in SUBSET Tids
      /\ Q \in SUBSET Tids /\ S \in SUBSET Tids /\ lock_count \in [Tids -> Nat]
      /\ Lawful(A, r, on, ctx, I, Q, S, value, lock_count)
      /\ A = R \cup blocked /\ r \notin A /\ r \notin S
  BY LockFacts DEF HoareState
<1>2. /\ Settled(A, r, on, ctx, S)
      /\ threads \subseteq {r} \cup A \cup J \cup finished_queue \cup Q \cup S
      /\ Promised(n, I, Passed, cond_var_waiting_queue, wo, ctx, waits_on)
      /\ wo \in [CondVars -> Seq(Tids)]
  BY HoareFacts
<1>3. /\ n # Null /\ nextThreadToWakeUp' = Null
      /\ ready' = addToReady(ready, priority, r)
      /\ running' = n /\ ctx2 = [ctx EXCEPT ![r] = c] /\ interrupts_enabled' = FALSE
      /\ UNCHANGED <<value, waiting_queue, proc>>
  BY DEF HandBack, switchToThread
<1>4. UNCHANGED <<threads, blocked, join_queue, finished_queue>>
  BY DEF table, queues
<1>5. A2 = A \cup {r}
  <2>1. priority \in [Tids -> Priorities] /\ Sorted(ready, priority) /\ r \notin R
    BY <1>1 DEF HoareState, LockState, Base, TypeOK
  <2>2. QueuedIn(ready') = R \cup {r}
    BY <1>1, <1>3, <2>1, ReadyAdd
  <2>3. A2 = QueuedIn(ready') \cup blocked
    BY <1>4 DEF Able, QueuedIn
  <2> QED
    BY <1>1, <2>2, <2>3
<1>6. n \in S /\ n # r
  BY <1>1, <1>3 DEF Asleep, Sleepers
<1>7. ctx2[r] = c /\ \A t \in Tids \ {r} : ctx2[t] = ctx[t]
  BY <1>1, <1>3 DEF Contexts
<1>8. /\ S2 = (S \ {n}) \cup (IF c = "wait_unlock" THEN {r} ELSE {})
      /\ \A t \in Tids \ {r} : w2[t] = waits_on[t]
      /\ Waiters(cvq2, ctx2, w2)
  OBVIOUS
<1> HIDE DEF A2, S2, ctx2, w2, cvq2
<1>9. (\A t \in S : t # n => t \in S2) /\ (c = "wait_unlock" => r \in S2)
  BY <1>8
<1>10. value = 1 /\ I = {r}
  BY InsideFacts
<1>11. FreeLockIsUnwanted'
  BY <1>3, <1>10 DEF FreeLockIsUnwanted
<1>12. Settled(A2, n, FALSE, ctx2, S2) /\ P2 \subseteq {n}
  <2>1. c \in {"unlock", "wait_unlock", "signal"}
    OBVIOUS
  <2>2. A2 \subseteq Able \cup {running} /\ Able \subseteq A2
    BY <1>5
  <2>3. Handed(A2, n, ctx2, S2)
    BY <1>6, <1>7, <1>9, <2>1, <2>2, HandedTo
  <2> QED
    BY <2>3 DEF Handed
<1>13. SeqThreads(wo) \cup {n} \subseteq S
  BY <1>6 DEF Asleep, Sleepers
<1>14. Undisturbed(SeqThreads(wo) \cup {n}, ctx, waits_on, ctx2, w2)
  BY <1>1, <1>7, <1>8, <1>13 DEF Undisturbed
<1> HIDE DEF P2
<1>15. Promised(Null, {}, P2, cvq2, wo, ctx2, w2)
  BY <1>2, <1>3, <1>8, <1>12, <1>14, PromiseMet
<1>16. Promised(nextThreadToWakeUp', inside',
                Holders(Able', running', interrupts_enabled', context', {}),
                cond_var_waiting_queue', wake_up_order', context', waits_on')
  <2>1. inside' = {}
    BY <1>10
  <2> QED
    BY <1>3, <1>15, <2>1 DEF P2, A2, ctx2, w2, cvq2
<1>17. Settled(Able', running', interrupts_enabled', context', Asleep')
  BY <1>3, <1>12 DEF A2, S2, ctx2
<1>18. threads' \subseteq {running'} \cup Able' \cup Joiners(join_queue')
                           \cup finished_queue' \cup ToSet(waiting_queue') \cup Asleep'
  <2>1. threads \subseteq {n} \cup A2 \cup J \cup finished_queue \cup Q \cup S2
    BY <1>2, <1>5, <1>8
  <2> QED
    BY <1>3, <1>4, <2>1 DEF A2, S2
<1>19. proc' = "alive"
  BY <1>3 DEF HoareState, LockState
<1> QED
  BY <1>11, <1>16, <1>17, <1>18, <1>19, HoareKept

(* A lock that is freed is not wanted.                                     *)
LEMMA ReleaseUnwanted ==
  ASSUME HoareState, interrupts_enabled, running \in inside, Release,
         inside' = inside \ {running}, wake_up_order' = wake_up_order
  PROVE  FreeLockIsUnwanted' /\ nextThreadToWakeUp = Null /\ Idle(wake_up_order)
<1>1. /\ value = 1 /\ inside = {running}
  BY InsideFacts
<1>2. nextThreadToWakeUp = Null /\ nextThreadToWakeUp' = Null
  BY DEF Release
<1>3. Idle(wake_up_order) /\ wake_up_order \in [CondVars -> Seq(Tids)]
  BY <1>1, <1>2, HoareFacts DEF Promised
<1>4. Notified' = {}
  <2>1. SeqThreads(wake_up_order) = {}
    BY <1>3, IdleMeansNone
  <2> QED
    BY <2>1 DEF Notified, SeqThreads
<1>5. CASE waiting_queue = << >>
  <2>1. waiting_queue' = << >> /\ inside' = {}
    BY <1>1, <1>5 DEF Release
  <2> QED
    BY <1>2, <1>3, <1>4, <2>1 DEF FreeLockIsUnwanted
<1>6. CASE waiting_queue # << >>
  <2>1. value' = 1
    BY <1>1, <1>6 DEF Release, released_value
  <2> QED
    BY <1>2, <1>3, <2>1 DEF FreeLockIsUnwanted
<1> QED
  BY <1>5, <1>6

(* The lock is released, and passed to the threads P of its queue.         *)
LEMMA ReleasedTo ==
  ASSUME HoareState, interrupts_enabled, running \in inside,
         NEW P \in SUBSET ToSet(waiting_queue), NEW A2, NEW r2, NEW on2 \in BOOLEAN,
         NEW ctx2, NEW S2, A2 \subseteq Able \cup P, Asleep \subseteq S2,
         \A t \in Tids \ {running} : ctx2[t] = context[t],
         r2 \in Able \cup P \/ (r2 = running /\ on2), r2 \notin A2
  PROVE  /\ Settled(A2, r2, on2, ctx2, S2)
         /\ \A t \in Holders(A2, r2, on2, ctx2, {}) : ctx2[t] = "lock"
<1> DEFINE A == Able
           r == running
           ctx == context
           Q == ToSet(waiting_queue)
           S == Asleep
<1>1. /\ A \in SUBSET Tids /\ Q \in SUBSET Tids /\ r \in Tids
      /\ Lawful(A, r, interrupts_enabled, ctx, inside, Q, S, value, lock_count)
      /\ r \notin A /\ r \notin Q
  BY LockFacts DEF HoareState
<1>2. /\ \A t \in Q : ctx[t] = "lock"
      /\ \A t \in A : ctx[t] # "signal"
  BY <1>1 DEF Lawful, Places
<1>3. \A t \in A : ctx[t] \notin {"lock", "wait"}
  BY InsideFacts
<1>4. \A t \in A : ctx[t] = "wait_unlock" => t \in S
  BY HoareFacts DEF Settled
<1>5. \A t \in A \cup P : t # r /\ ctx2[t] = ctx[t]
  BY <1>1
<1> HIDE DEF A, Q, S
<1>6. Settled(A2, r2, on2, ctx2, S2)
  <2>1. SUFFICES ASSUME NEW t \in A2 \cup {r2}, t \in A2 \/ ~on2,
                        ctx2[t] = "wait_unlock", t \notin S2
                 PROVE  FALSE
    BY DEF Settled
  <2>2. t \in A \cup P
    BY <2>1 DEF A
  <2>3. t \in A /\ ctx[t] = "wait_unlock"
    BY <1>2, <1>5, <2>1, <2>2 DEF Q
  <2> QED
    BY <1>4, <2>1, <2>3 DEF S
<1>7. ASSUME NEW t \in Holders(A2, r2, on2, ctx2, {}) PROVE ctx2[t] = "lock"
  <2>1. /\ t \in A2 \cup {r2} /\ (t \in A2 \/ ~on2)
        /\ ctx2[t] \in {"lock", "wait", "signal"} \/ (t = r2 /\ t \in A2)
    BY <1>7 DEF Holders
  <2>2. t \in A \cup P
    BY <2>1 DEF A
  <2>3. CASE t \in P
    BY <1>2, <1>5, <2>3 DEF Q
  <2>4. CASE t \in A
    BY <1>2, <1>3, <1>5, <2>1, <2>4
  <2> QED
    BY <2>2, <2>3, <2>4
<1> QED
  BY <1>6, <1>7

(* unlock() keeps the invariant: the thread that was named is owed the     *)
(* lock.                                                                   *)
LEMMA UnlockHoare ==
  ASSUME HoareState, unlock, LockInv'
  PROVE  HoareInv'
<1> DEFINE R == QueuedIn(ready)
           A == Able
           r == running
           Q == ToSet(waiting_queue)
           S == Asleep
           cvq == cond_var_waiting_queue
           wo == wake_up_order
<1>1. /\ A \in SUBSET Tids /\ r \in Tids /\ interrupts_enabled \in BOOLEAN
      /\ context \in [Tids -> Contexts]
      /\ A = R \cup blocked /\ (interrupts_enabled => r \notin A /\ r \notin S)
  BY LockFacts DEF HoareState
<1>2. /\ threads \subseteq {r} \cup A \cup Joiners(join_queue) \cup finished_queue
                             \cup Q \cup S
      /\ Waiters(cvq, context, waits_on)
      /\ wo \in [CondVars -> Seq(Tids)]
  BY HoareFacts DEF Promised
<1>3. /\ interrupts_enabled /\ r \in inside /\ proc = "alive"
      /\ inside' = inside \ {r}
      /\ UNCHANGED <<table, queues, cond_var_waiting_queue, wake_up_order, waits_on>>
  BY DEF unlock, Inside, Calling, InUserCode, Leave, condVars
<1>4. UNCHANGED <<threads, blocked, join_queue, finished_queue>>
  BY <1>3 DEF table, queues
<1>5. CASE HandBack("unlock")
  <2>1. /\ nextThreadToWakeUp' = Null /\ context' = [context EXCEPT ![r] = "unlock"]
    BY <1>5 DEF HandBack, switchToThread
  <2>2. AtMostOnce(cvq, wo, nextThreadToWakeUp)
    BY DEF HoareState, LockState, MonitorParts
  <2> DEFINE c == "unlock"
  <2>3. /\ c \in {"unlock", "wait_unlock"} /\ HandBack(c)
        /\ Asleep' = (Asleep \ {nextThreadToWakeUp})
                       \cup (IF c = "wait_unlock" THEN {running} ELSE {})
    BY <1>3, <1>5, <2>1, <2>2, SleepHandBack DEF Asleep
  <2> HIDE DEF c
  <2>4. Waiters(cond_var_waiting_queue', context', waits_on')
    <3> DEFINE ctx2 == context'
    <3>1. SeqThreads(cvq) \subseteq S
      BY DEF Asleep, Sleepers
    <3>2. S \in SUBSET Tids /\ r \notin S
      BY <1>3, LockFacts DEF HoareState
    <3>3. Undisturbed(SeqThreads(cvq), context, waits_on, ctx2, waits_on)
      BY <1>1, <2>1, <3>1, <3>2 DEF Undisturbed
    <3> HIDE DEF ctx2
    <3>4. Waiters(cvq, ctx2, waits_on)
      BY <1>2, <3>3, WaitersKept
    <3> QED
      BY <1>3, <3>4 DEF ctx2
  <2> QED
    BY <1>3, <2>3, <2>4, HandBackHoare
<1>6. CASE /\ Release
           /\ ready' = released_ready
           /\ UNCHANGED <<running, context, interrupts_enabled, proc>>
  <2>1. PICK P \in SUBSET Q :
           /\ QueuedIn(released_ready) = R \cup P
           /\ ToSet(waiting_queue') = Q \ P
    BY <1>3, <1>6, ReleaseFacts DEF HoareState
  <2>2. FreeLockIsUnwanted' /\ nextThreadToWakeUp = Null /\ Idle(wo)
    BY <1>3, <1>6, ReleaseUnwanted
  <2>3. nextThreadToWakeUp' = Null /\ Asleep' = S /\ inside' = {}
    BY <1>3, <1>6, InsideFacts DEF Release, Asleep, Sleepers
  <2> DEFINE A2 == Able'
             P2 == Holders(A2, r, TRUE, context, {})
  <2>4. A2 = A \cup P
    BY <1>1, <1>4, <1>6, <2>1 DEF Able, QueuedIn
  <2>5. r \notin A2 /\ A2 \subseteq Able \cup P
    <3>1. r \notin Q
      BY <1>3, LockFacts DEF HoareState
    <3> QED
      BY <1>1, <1>3, <2>4, <3>1
  <2> HIDE DEF A2
  <2>6. Settled(A2, r, TRUE, context, S)
    BY <1>3, <2>5, ReleasedTo
  <2>7. \A t \in P2 : context[t] = "lock"
    BY <1>3, <2>5, ReleasedTo
  <2> HIDE DEF P2
  <2>8. Promised(Null, {}, P2, cvq, wo, context, waits_on)
    BY <1>2, <2>2, <2>7, NothingPromised
  <2>9. interrupts_enabled' = TRUE
    BY <1>1, <1>3, <1>6
  <2>10. Promised(nextThreadToWakeUp', inside',
                 Holders(Able', running', interrupts_enabled', context', {}),
                 cond_var_waiting_queue', wake_up_order', context', waits_on')
    BY <1>3, <1>6, <2>3, <2>8, <2>9 DEF P2, A2
  <2>11. Settled(Able', running', interrupts_enabled', context', Asleep')
    BY <1>6, <2>3, <2>6, <2>9 DEF A2
  <2>12. threads' \subseteq {running'} \cup Able' \cup Joiners(join_queue')
                           \cup finished_queue' \cup ToSet(waiting_queue') \cup Asleep'
    BY <1>2, <1>4, <1>6, <2>1, <2>3, <2>4 DEF A2
  <2> QED
    BY <1>3, <1>6, <2>2, <2>10, <2>11, <2>12, HoareKept
<1> QED
  BY <1>5, <1>6 DEF unlock

(* wait() keeps the invariant: the caller joins the waiting queue.         *)
LEMMA WaitHoare ==
  ASSUME HoareState, NEW c \in CondVars, wait(c), LockInv'
  PROVE  HoareInv'
<1> DEFINE R == QueuedIn(ready)
           A == Able
           r == running
           Q == ToSet(waiting_queue)
           S == Asleep
           J == Joiners(join_queue)
           n == nextThreadToWakeUp
           cvq == cond_var_waiting_queue
           wo == wake_up_order
           cvq2 == [cvq EXCEPT ![c] = Append(@, r)]
           w2 == waits_on'
<1>1. /\ A \in SUBSET Tids /\ r \in Tids /\ S \in SUBSET Tids
      /\ context \in [Tids -> Contexts]
      /\ A = R \cup blocked /\ R \cap blocked = {}
  BY LockFacts DEF HoareState
<1>2. /\ threads \subseteq {r} \cup A \cup J \cup finished_queue \cup Q \cup S
      /\ Waiters(cvq, context, waits_on)
      /\ cvq \in [CondVars -> Seq(Tids)] /\ wo \in [CondVars -> Seq(Tids)]
  BY HoareFacts DEF Promised
<1>3. /\ interrupts_enabled /\ r \in inside /\ proc = "alive"
      /\ cond_var_waiting_queue' = cvq2
      /\ waits_on' = [waits_on EXCEPT ![r] = c]
      /\ inside' = inside \ {r}
      /\ UNCHANGED <<table, priority, queues, wake_up_order>>
  BY DEF wait, Inside, Calling, InUserCode, Leave
<1>4. r \notin A /\ r \notin Q /\ r \notin S
  BY <1>3, LockFacts DEF HoareState
<1>5. UNCHANGED <<threads, blocked, join_queue, finished_queue>>
  BY <1>3 DEF table, queues
<1>6. w2[r] = c /\ \A t \in Tids \ {r} : w2[t] = waits_on[t]
  BY <1>1, <1>3 DEF HoareState, LockState, MonitorTypeOK
<1>7. Sleepers(cvq2, wo, n) = S \cup {r} /\ AtMostOnce(cvq2, wo, n)
  <2>1. r \notin Sleepers(cvq, wo, n) /\ AtMostOnce(cvq, wo, n)
    BY <1>4 DEF Asleep, HoareState, LockState, MonitorParts
  <2>2. Hold(cvq2, wo, n, Sleepers(cvq, wo, n) \cup {r})
    BY <1>1, <2>1, SleepWait
  <2> QED
    BY <2>2 DEF Asleep, Hold
<1> HIDE DEF w2
<1>8. ASSUME NEW ctx2, ctx2[r] \in {"wait", "wait_unlock"},
             \A t \in Tids \ {r} : ctx2[t] = context[t]
      PROVE  Waiters(cvq2, ctx2, w2)
  <2>1. SeqThreads(cvq) \subseteq S
    BY DEF Asleep, Sleepers
  <2>2. Undisturbed(SeqThreads(cvq), context, waits_on, ctx2, w2)
    BY <1>1, <1>4, <1>6, <1>8, <2>1 DEF Undisturbed
  <2>3. r \notin SeqThreads(cvq)
    BY <1>4, <2>1
  <2> QED
    BY <1>1, <1>2, <1>6, <1>8, <2>2, <2>3, WaitersJoined
<1> HIDE DEF cvq2
<1>9. CASE HandBack("wait_unlock")
  <2> DEFINE ctx2 == context'
  <2>1. nextThreadToWakeUp' = Null /\ n # Null /\ ctx2 = [context EXCEPT ![r] = "wait_unlock"]
    BY <1>9 DEF HandBack, switchToThread
  <2>2. ctx2[r] = "wait_unlock" /\ \A t \in Tids \ {r} : ctx2[t] = context[t]
    BY <1>1, <2>1
  <2> HIDE DEF ctx2
  <2>3. Waiters(cond_var_waiting_queue', context', waits_on')
    <3>1. Waiters(cvq2, ctx2, w2)
      BY <1>8, <2>2
    <3> QED
      BY <1>3, <3>1 DEF ctx2, w2
  <2>4. Asleep' = (S \ {n}) \cup {r}
    <3>1. n \in S
      BY <2>1 DEF Asleep, Sleepers
    <3>2. Sleepers(cvq2, wo, Null) = (S \cup {r}) \ {n}
      BY <1>7, SleepHandBack
    <3>3. Asleep' = Sleepers(cvq2, wo, Null)
      BY <1>3, <2>1 DEF Asleep, Sleepers
    <3> QED
      BY <1>4, <3>1, <3>2, <3>3
  <2> DEFINE k == "wait_unlock"
  <2>5. /\ k \in {"unlock", "wait_unlock"} /\ HandBack(k)
        /\ Asleep' = (Asleep \ {nextThreadToWakeUp})
                       \cup (IF k = "wait_unlock" THEN {running} ELSE {})
    BY <1>9, <2>4
  <2>6. \A t \in Tids \ {running} : waits_on'[t] = waits_on[t]
    BY <1>6 DEF w2
  <2> HIDE DEF k
  <2> QED
    BY <1>3, <2>3, <2>5, <2>6, HandBackHoare
<1>10. CASE Release /\ switchThreads(released_ready, "wait")
  <2>1. PICK P \in SUBSET Q :
           /\ Sorted(released_ready, priority)
           /\ QueuedIn(released_ready) = R \cup P
           /\ ToSet(waiting_queue') = Q \ P
    BY <1>3, <1>10, ReleaseFacts DEF HoareState
  <2>2. FreeLockIsUnwanted' /\ n = Null /\ Idle(wo)
    BY <1>3, <1>10, ReleaseUnwanted
  <2>3. nextThreadToWakeUp' = Null /\ inside' = {}
    BY <1>3, <1>10, InsideFacts DEF Release
  <2>4. Asleep' = S \cup {r}
    BY <1>3, <1>7, <2>2, <2>3 DEF Asleep, Sleepers
  <2>5. /\ TypeOK /\ "wait" \in Contexts /\ priority' = priority
        /\ priority' \in [Tids -> Priorities]
    BY <1>3 DEF HoareState, LockState, Base, TypeOK, Contexts
  <2>6. Dispatched(R \cup P, "wait")
    <3>1. Dispatched(QueuedIn(released_ready), "wait")
      BY <1>3, <1>10, <2>1, <2>5, SwitchDispatches
    <3> QED
      BY <2>1, <3>1
  <2>7. CASE proc' = "alive"
    <3> DEFINE A2 == Able'
               r2 == running'
               ctx2 == context'
               S2 == Asleep'
               P2 == Holders(A2, r2, FALSE, ctx2, {})
    <3>1. /\ r2 \in R \cup P /\ QueuedIn(ready') = (R \cup P) \ {r2}
          /\ ctx2 = [context EXCEPT ![r] = "wait"] /\ interrupts_enabled' = FALSE
      BY <2>6, <2>7 DEF Dispatched
    <3>2. Q \cap A = {}
      BY LockFacts DEF HoareState, Lawful, Places
    <3>3. r2 \in A \cup P /\ A2 = (A \cup P) \ {r2}
      BY <1>1, <1>5, <3>1, <3>2 DEF Able, QueuedIn
    <3>4. ctx2[r] = "wait" /\ \A t \in Tids \ {r} : ctx2[t] = context[t]
      BY <1>1, <2>5, <3>1
    <3> HIDE DEF A2, r2, ctx2
    <3>5. Waiters(cvq2, ctx2, w2)
      BY <1>8, <3>4
    <3>6. /\ A2 \subseteq Able \cup P /\ r2 \in Able \cup P /\ r2 \notin A2
          /\ Asleep \subseteq S2
      BY <2>4, <3>3
    <3> HIDE DEF S2
    <3>7. Settled(A2, r2, FALSE, ctx2, S2)
      BY <1>3, <3>4, <3>6, ReleasedTo
    <3>8. \A t \in P2 : ctx2[t] = "lock"
      BY <1>3, <3>4, <3>6, ReleasedTo
    <3> HIDE DEF P2
    <3>9. Promised(Null, {}, P2, cvq2, wo, ctx2, w2)
      BY <1>2, <2>2, <3>5, <3>8, NothingPromised
    <3>10. Promised(nextThreadToWakeUp', inside',
                    Holders(Able', running', interrupts_enabled', context', {}),
                    cond_var_waiting_queue', wake_up_order', context', waits_on')
      BY <1>3, <2>3, <3>1, <3>9 DEF P2, A2, r2, ctx2, w2
    <3>11. Settled(Able', running', interrupts_enabled', context', Asleep')
      BY <3>1, <3>7 DEF A2, r2, ctx2, S2
    <3>12. threads' \subseteq {running'} \cup Able' \cup Joiners(join_queue')
                           \cup finished_queue' \cup ToSet(waiting_queue') \cup Asleep'
      BY <1>2, <1>5, <2>1, <2>4, <3>3 DEF A2, r2
    <3> QED
      BY <2>2, <2>7, <3>10, <3>11, <3>12, HoareKept
  <2>8. CASE proc' # "alive"
    BY <2>2, <2>6, <2>8, HoareDead DEF Dispatched
  <2> QED
    BY <2>7, <2>8
<1> QED
  BY <1>9, <1>10 DEF wait

(* A thread that has given the lock up in wait() blocks.                   *)
LEMMA WaitUnlockedHoare ==
  ASSUME HoareState, wait_unlocked, LockInv'
  PROVE  HoareInv'
<1> DEFINE R == QueuedIn(ready)
           A == Able
           r == running
           on == interrupts_enabled
           ctx == context
           Q == ToSet(waiting_queue)
           S == Asleep
           J == Joiners(join_queue)
           n == nextThreadToWakeUp
           cvq == cond_var_waiting_queue
           wo == wake_up_order
<1>1. /\ A \in SUBSET Tids /\ r \in Tids /\ on \in BOOLEAN /\ S \in SUBSET Tids
      /\ ctx \in [Tids -> Contexts]
      /\ Lawful(A, r, on, ctx, inside, Q, S, value, lock_count)
      /\ A = R \cup blocked /\ R \cap blocked = {}
  BY LockFacts DEF HoareState
<1>2. /\ Settled(A, r, on, ctx, S)
      /\ threads \subseteq {r} \cup A \cup J \cup finished_queue \cup Q \cup S
      /\ Promised(n, inside, Passed, cvq, wo, ctx, waits_on)
      /\ cvq \in [CondVars -> Seq(Tids)] /\ wo \in [CondVars -> Seq(Tids)]
  BY HoareFacts
<1>3. /\ ~on /\ ctx[r] = "wait_unlock" /\ proc = "alive" /\ switchThreads(ready, "wait")
      /\ UNCHANGED <<table, priority, queues, value, waiting_queue, nextThreadToWakeUp,
                     cond_var_waiting_queue, wake_up_order, waits_on, inside>>
  BY DEF wait_unlocked, Back, monitorVars, lockVars, condVars
<1>4. /\ UNCHANGED <<threads, blocked, join_queue, finished_queue>> /\ Asleep' = S
  BY <1>3 DEF table, queues, Asleep, Sleepers
<1>5. /\ TypeOK /\ "wait" \in Contexts /\ Sorted(ready, priority')
      /\ priority' \in [Tids -> Priorities]
  BY <1>3 DEF HoareState, LockState, Base, TypeOK, Contexts
<1>6. Dispatched(R, "wait")
  BY <1>3, <1>5, SwitchDispatches
<1>7. FreeLockIsUnwanted'
  BY <1>3 DEF HoareState, FreeLockIsUnwanted, Notified, SeqThreads
<1>8. CASE proc' = "alive"
  <2> DEFINE A2 == Able'
             r2 == running'
             ctx2 == context'
             P2 == Holders(A2, r2, FALSE, ctx2, {})
  <2>1. /\ r2 \in R /\ QueuedIn(ready') = R \ {r2}
        /\ ctx2 = [ctx EXCEPT ![r] = "wait"] /\ interrupts_enabled' = FALSE
    BY <1>6, <1>8 DEF Dispatched
  <2>2. r2 \in A /\ A2 = A \ {r2}
    BY <1>1, <1>4, <2>1 DEF Able, QueuedIn
  <2>3. ctx2[r] = "wait" /\ \A t \in Tids \ {r} : ctx2[t] = ctx[t]
    BY <1>1, <1>5, <2>1
  <2>4. \A t \in A : ctx[t] # "signal"
    BY <1>1 DEF Lawful, Places
  <2> HIDE DEF A, S, A2, r2, ctx2
  <2>5. r \in A \/ r \in S
    BY <1>2, <1>3 DEF Settled
  <2>6. Settled(A2, r2, FALSE, ctx2, S)
    <3>1. SUFFICES ASSUME NEW t \in A, ctx2[t] = "wait_unlock", t \notin S PROVE FALSE
      BY <2>2 DEF Settled
    <3>2. t # r /\ ctx[t] = "wait_unlock"
      BY <1>1, <2>3, <3>1
    <3> QED
      BY <1>2, <3>1, <3>2 DEF Settled
  <2>7. P2 \subseteq Holders(A, r, on, ctx, {})
    <3>1. SUFFICES ASSUME NEW t \in P2 PROVE t \in Holders(A, r, on, ctx, {})
      OBVIOUS
    <3>2. t \in A /\ ctx2[t] \in {"lock", "wait", "signal"}
      BY <2>2, <3>1 DEF Holders
    <3>3. CASE t = r
      BY <1>3, <3>2, <3>3 DEF Holders
    <3>4. CASE t # r
      <4>1. ctx[t] \in {"lock", "wait"}
        BY <1>1, <2>3, <2>4, <3>2, <3>4
      <4> QED
        BY <3>2, <4>1 DEF Holders
    <3> QED
      BY <3>3, <3>4
  <2>8. \A t \in Sleepers(cvq, wo, n) \cup P2 :
          \/ ctx2[t] = ctx[t]
          \/ ctx[t] = "wait_unlock" /\ ctx2[t] = "wait"
    <3>1. Sleepers(cvq, wo, n) \subseteq Tids
      BY <1>1 DEF S, Asleep
    <3>2. P2 \subseteq Tids
      BY <1>1, <2>2 DEF Holders
    <3> QED
      BY <1>3, <2>3, <3>1, <3>2
  <2>9. P2 \subseteq Passed
    BY <2>7 DEF Passed, A
  <2>10. n # Null => inside # {}
    BY <1>2 DEF Promised
  <2>11. inside # {} /\ n = Null => Idle(wo)
    BY <1>2 DEF Promised
  <2> HIDE DEF P2
  <2>12. Promised(n, inside, P2, cvq, wo, ctx2, waits_on)
    BY <1>2, <2>8, <2>9, <2>10, <2>11, PromiseKept
  <2>13. Promised(nextThreadToWakeUp', inside',
                  Holders(Able', running', interrupts_enabled', context', {}),
                  cond_var_waiting_queue', wake_up_order', context', waits_on')
    BY <1>3, <2>1, <2>12 DEF P2, A2, r2, ctx2
  <2>14. Settled(Able', running', interrupts_enabled', context', Asleep')
    BY <1>4, <2>1, <2>6 DEF A2, r2, ctx2, S
  <2>15. threads' \subseteq {running'} \cup Able' \cup Joiners(join_queue')
                           \cup finished_queue' \cup ToSet(waiting_queue') \cup Asleep'
    <3>1. threads \subseteq {r2} \cup A2 \cup J \cup finished_queue \cup Q \cup S
      BY <1>2, <2>2, <2>5
    <3> QED
      BY <1>3, <1>4, <3>1 DEF A2, r2, S
  <2> QED
    BY <1>7, <1>8, <2>13, <2>14, <2>15, HoareKept
<1>9. CASE proc' # "alive"
  BY <1>6, <1>7, <1>9, HoareDead DEF Dispatched
<1> QED
  BY <1>8, <1>9

(* signal() and broadcast() wake the first waiting thread, and put the     *)
(* others they wake, and last their caller r, into the wake-up order.      *)
LEMMA PromiseMade ==
  ASSUME NEW cvq \in [CondVars -> Seq(Tids)], NEW wo \in [CondVars -> Seq(Tids)],
         NEW ctx, NEW w, Waiters(cvq, ctx, w), Idle(wo),
         NEW c \in CondVars, cvq[c] # << >>, NEW r \in Tids, NEW woken, NEW remaining,
         \/ woken = <<r>> /\ remaining = Tail(cvq[c])
         \/ woken = Append(Tail(cvq[c]), r) /\ remaining = << >>,
         NEW ctx2, ctx2[r] = "signal", Undisturbed(SeqThreads(cvq), ctx, w, ctx2, w),
         NEW P2, P2 \subseteq {Head(cvq[c])}
  PROVE  Promised(Null, {}, P2, [cvq EXCEPT ![c] = remaining],
                  [wo EXCEPT ![c] = @ \o woken], ctx2, w)
<1> DEFINE q == cvq[c]
           h == Head(q)
           rest == Tail(q)
           cvq2 == [cvq EXCEPT ![c] = remaining]
           wo2 == [wo EXCEPT ![c] = @ \o woken]
<1>1. /\ q \in Seq(Tids) /\ Len(q) \in Nat /\ Len(q) > 0 /\ h = q[1]
      /\ rest \in Seq(Tids) /\ Len(rest) = Len(q) - 1
      /\ \A i \in 1 .. Len(rest) : rest[i] = q[i + 1]
  OBVIOUS
<1>2. Waiters(cvq, ctx2, w)
  BY WaitersKept
<1>3. \A i \in 1 .. Len(q) : ctx2[q[i]] \in {"wait", "wait_unlock"} /\ w[q[i]] = c
  <2>1. \A i \in 1 .. Len(q) : q[i] \in ToSet(q)
    BY <1>1, Members
  <2> QED
    BY <1>2, <2>1 DEF Waiters
<1> HIDE DEF q, h, rest
<1>4. /\ woken \in Seq(Tids) /\ Len(woken) \in Nat /\ Len(woken) > 0
      /\ woken[Len(woken)] = r
      /\ \A i \in 1 .. Len(woken) : i # Len(woken) => i \in 1 .. Len(rest) /\ woken[i] = rest[i]
  <2>1. CASE woken = <<r>>
    BY <2>1
  <2>2. CASE woken = Append(rest, r)
    BY <1>1, <2>2
  <2> QED
    BY <2>1, <2>2 DEF rest, q
<1>5. /\ remaining \in Seq(Tids)
      /\ \A t \in ToSet(remaining) : t \in ToSet(q)
  <2>1. CASE remaining = << >>
    <3>1. << >> \in Seq(Tids) /\ ToSet(<< >>) = {}
      BY DEF ToSet
    <3> QED
      BY <2>1, <3>1
  <2>2. CASE remaining = rest
    <3>1. ASSUME NEW t \in ToSet(rest) PROVE t \in ToSet(q)
      <4>1. PICK i \in 1 .. Len(rest) : t = rest[i]
        BY <1>1, Members
      <4>2. i + 1 \in 1 .. Len(q) /\ t = q[i + 1]
        BY <1>1, <4>1
      <4> QED
        BY <1>1, <4>2, Members
    <3> QED
      BY <1>1, <2>2, <3>1
  <2> QED
    BY <2>1, <2>2 DEF rest, q
<1>6. wo2[c] = woken /\ \A d \in CondVars \ {c} : wo2[d] = << >>
  <2>1. wo[c] = << >> /\ << >> \o woken = woken
    BY <1>4 DEF Idle
  <2>2. \A d \in CondVars : wo[d] = << >>
    BY DEF Idle
  <2> QED
    BY <2>1, <2>2
<1>7. cvq2[c] = remaining /\ \A d \in CondVars \ {c} : cvq2[d] = cvq[d]
  BY <1>5
<1> HIDE DEF cvq2, wo2
<1>8. Waiters(cvq2, ctx2, w)
  <2>1. SUFFICES ASSUME NEW d \in CondVars, NEW t \in ToSet(cvq2[d])
                 PROVE  ctx2[t] \in {"wait", "wait_unlock"} /\ w[t] = d
    BY DEF Waiters
  <2>2. t \in ToSet(cvq[d])
    BY <1>5, <1>7, <2>1 DEF q
  <2> QED
    BY <1>2, <2>2 DEF Waiters
<1>9. InTurn(wo2, ctx2, w)
  <2>1. \A d, e \in CondVars : wo2[d] # << >> /\ wo2[e] # << >> => d = e
    BY <1>6
  <2>2. ASSUME NEW d \in CondVars, NEW i \in 1 .. Len(wo2[d])
        PROVE  IF i = Len(wo2[d]) THEN ctx2[wo2[d][i]] = "signal"
               ELSE ctx2[wo2[d][i]] \in {"wait", "wait_unlock"} /\ w[wo2[d][i]] = d
    <3>1. d = c
      <4>1. d # c => Len(wo2[d]) = 0
        BY <1>6
      <4> QED
        BY <4>1
    <3>2. CASE i = Len(woken)
      BY <1>4, <1>6, <3>1, <3>2
    <3>3. CASE i # Len(woken)
      <4>1. i \in 1 .. Len(rest) /\ woken[i] = rest[i]
        BY <1>4, <1>6, <2>2, <3>1, <3>3
      <4>2. i + 1 \in 1 .. Len(q) /\ woken[i] = q[i + 1]
        BY <1>1, <4>1
      <4> QED
        BY <1>3, <1>6, <3>1, <3>3, <4>2
    <3> QED
      BY <3>2, <3>3
  <2> QED
    BY <2>1, <2>2 DEF InTurn
<1>10. \A t \in P2 : Owes(t, wo2, ctx2, w)
  <2>1. ctx2[h] \in {"wait", "wait_unlock"} /\ w[h] = c
    BY <1>1, <1>3
  <2>2. wo2[c] # << >>
    BY <1>4, <1>6
  <2>3. Owes(h, wo2, ctx2, w)
    BY <2>1, <2>2 DEF Owes
  <2> QED
    BY <2>3 DEF h, q
<1>11. Promised(Null, {}, P2, cvq2, wo2, ctx2, w)
  BY <1>8, <1>9, <1>10 DEF Promised
<1> QED
  BY <1>11 DEF cvq2, wo2

(* The steps of signal() and broadcast().                                  *)
LEMMA NotifyHoare ==
  ASSUME nextThreadToWakeUp = Null, HoareState, LockInv', interrupts_enabled,
         running \in inside, NEW c \in CondVars,
         NEW woken, NEW remaining, Notify(c, woken, remaining),
         \/ woken = <<running>> /\ remaining = Tail(cond_var_waiting_queue[c])
         \/ woken = Append(Tail(cond_var_waiting_queue[c]), running) /\ remaining = << >>
  PROVE  HoareInv'
<1> DEFINE A == Able
           r == running
           ctx == context
           Q == ToSet(waiting_queue)
           S == Asleep
           J == Joiners(join_queue)
           n == nextThreadToWakeUp
           cvq == cond_var_waiting_queue
           wo == wake_up_order
           h == Head(cvq[c])
           cvq2 == [cvq EXCEPT ![c] = remaining]
           wo2 == [wo EXCEPT ![c] = @ \o woken]
           ctx2 == context'
           A2 == Able'
           S2 == Asleep'
           P2 == Holders(A2, h, FALSE, ctx2, {})
<1>1. /\ A \in SUBSET Tids /\ r \in Tids /\ S \in SUBSET Tids
      /\ ctx \in [Tids -> Contexts] /\ r \notin S
  BY LockFacts DEF HoareState
<1>2. /\ threads \subseteq {r} \cup A \cup J \cup finished_queue \cup Q \cup S
      /\ Promised(n, inside, Passed, cvq, wo, ctx, waits_on)
      /\ Waiters(cvq, ctx, waits_on)
      /\ cvq \in [CondVars -> Seq(Tids)] /\ wo \in [CondVars -> Seq(Tids)]
  BY HoareFacts DEF Promised
<1>3. /\ cvq[c] # << >> /\ n = Null
      /\ cond_var_waiting_queue' = cvq2 /\ wake_up_order' = wo2
      /\ running' = h /\ ctx2 = [ctx EXCEPT ![r] = "signal"]
      /\ interrupts_enabled' = FALSE /\ inside' = inside \ {r}
      /\ UNCHANGED <<table, ready, queues, proc, value, waiting_queue,
                     nextThreadToWakeUp, waits_on>>
  BY DEF Notify, switchToThread, Leave, lockVars
<1>4. Idle(wo)
  BY <1>2, <1>3 DEF Promised
<1>5. UNCHANGED <<threads, blocked, join_queue, finished_queue>> /\ A2 = A
  BY <1>3 DEF table, queues, Able, QueuedIn
<1>6. h \in S /\ S2 = (S \ {h}) \cup {r}
  <2>1. AtMostOnce(cvq, wo, n) /\ r \notin Sleepers(cvq, wo, n)
    BY <1>1 DEF HoareState, LockState, MonitorParts, Asleep
  <2>2. h \in SeqThreads(cvq)
    BY <1>3, <2>1, FirstSleeps DEF AtMostOnce
  <2>3. Hold(cvq2, wo2, n, (Sleepers(cvq, wo, n) \ {h}) \cup {r})
    BY <1>1, <1>3, <2>1, SleepNotify
  <2>4. S2 = Sleepers(cvq2, wo2, n)
    BY <1>3 DEF Asleep, Sleepers
  <2> QED
    BY <2>2, <2>3, <2>4 DEF Hold, Asleep, Sleepers
<1>7. ctx2[r] = "signal" /\ \A t \in Tids \ {r} : ctx2[t] = ctx[t]
  BY <1>1, <1>3 DEF Contexts
<1>8. value = 1 /\ inside = {r}
  BY InsideFacts
<1>9. FreeLockIsUnwanted'
  BY <1>3, <1>8 DEF FreeLockIsUnwanted
<1> HIDE DEF ctx2, A2, S2, h
<1>10. Settled(A2, h, FALSE, ctx2, S2) /\ P2 \subseteq {h}
  <2> DEFINE k == "signal"
  <2>1. /\ k \in {"unlock", "wait_unlock", "signal"} /\ ctx2[running] = k
        /\ \A t \in Tids \ {running} : ctx2[t] = context[t]
        /\ k = "wait_unlock" => running \in S2
        /\ \A t \in Asleep : t # h => t \in S2
        /\ h \in Asleep
    BY <1>6, <1>7
  <2>2. A2 \subseteq Able \cup {running} /\ Able \subseteq A2
    BY <1>5
  <2> HIDE DEF k
  <2>3. Handed(A2, h, ctx2, S2)
    BY <2>1, <2>2, HandedTo
  <2> QED
    BY <2>3 DEF Handed
<1>11. Undisturbed(SeqThreads(cvq), ctx, waits_on, ctx2, waits_on)
  <2>1. SeqThreads(cvq) \subseteq S
    BY DEF Asleep, Sleepers
  <2> QED
    BY <1>1, <1>7, <2>1 DEF Undisturbed
<1> HIDE DEF P2
<1>12. Promised(Null, {}, P2, cvq2, wo2, ctx2, waits_on)
  <2>1. P2 \subseteq {Head(cvq[c])}
    BY <1>10 DEF h
  <2> QED
    BY <1>1, <1>2, <1>3, <1>4, <1>7, <1>11, <2>1, PromiseMade
<1>13. Promised(nextThreadToWakeUp', inside',
                Holders(Able', running', interrupts_enabled', context', {}),
                cond_var_waiting_queue', wake_up_order', context', waits_on')
  <2>1. inside' = {} /\ nextThreadToWakeUp' = Null
    BY <1>3, <1>8
  <2> QED
    BY <1>3, <1>12, <2>1 DEF P2, A2, ctx2
<1>14. Settled(Able', running', interrupts_enabled', context', Asleep')
  BY <1>3, <1>10 DEF A2, ctx2, S2
<1>15. threads' \subseteq {running'} \cup Able' \cup Joiners(join_queue')
                           \cup finished_queue' \cup ToSet(waiting_queue') \cup Asleep'
  <2>1. threads \subseteq {h} \cup A2 \cup J \cup finished_queue \cup Q \cup S2
    BY <1>2, <1>5, <1>6
  <2> QED
    BY <1>3, <1>5, <2>1 DEF A2, S2
<1>16. proc' = "alive"
  BY <1>3 DEF HoareState, LockState
<1> QED
  BY <1>9, <1>13, <1>14, <1>15, <1>16, HoareKept

(* A process that has died takes no step.                                  *)
LEMMA NextAlive ==
  ASSUME Next
  PROVE  proc = "alive"
  BY DEF Next, ThreadStep, UThreadNext, uthread_create_check, uthread_create,
     uthread_join, uthread_join_resumed, uthread_exit, uthread_exit_main,
     uthread_yield, timeHandler, resumed, uthread_suspend_check, uthread_suspend,
     uthread_resume_count, uthread_resume_find, uthread_resume,
     uthread_priority_check, uthread_change_priority, Check, Calling, Checked,
     InUserCode, lock, lock_resumed, unlock, unlock_resumed, wait, signal, broadcast,
     wait_unlocked, wait_resumed, signal_resumed, Outside, Inside, Back

\* No thread that was woken itself signals or broadcasts in this step.
SignalsInTurn ==
  \A c \in CondVars : signal(c) \/ broadcast(c) => nextThreadToWakeUp = Null

(* Every step keeps the promises, unless a woken thread signals.           *)
LEMMA HoareInvKept ==
  ASSUME HoareInv, [Next]_vars, SignalsInTurn
  PROVE  HoareInv'
<1>1. LockInv'
  BY LockInvStep DEF HoareInv
<1>2. CASE proc # "alive"
  <2>1. ~Next
    BY <1>2, NextAlive
  <2>2. UNCHANGED <<proc, value, waiting_queue, nextThreadToWakeUp, wake_up_order, inside>>
    BY <2>1 DEF vars, uthreadVars, monitorVars, lockVars, condVars
  <2> QED
    BY <1>1, <1>2, <2>2 DEF HoareInv, FreeLockIsUnwanted, Notified, SeqThreads
<1>3. CASE proc = "alive" /\ (ThreadStep \/ UNCHANGED vars)
  BY <1>1, <1>3, ThreadStepHoare
<1>4. CASE proc = "alive" /\ Next /\ ~ThreadStep
  <2>1. HoareState
    BY <1>4 DEF HoareInv, LockInv, LockState, HoareState
  <2>2. CASE lock
    BY <1>1, <2>1, <2>2, LockHoare
  <2>3. CASE lock_resumed
    <3>1. /\ ~interrupts_enabled /\ interrupts_enabled' = TRUE
          /\ context[running] = "lock" /\ inside' = inside \cup {running}
          /\ UNCHANGED <<table, ready, running, queues, context, proc, lockVars, condVars>>
      BY <2>3 DEF lock_resumed, Back, Enter
    <3> QED
      BY <1>1, <2>1, <3>1, ReturnHoare
  <2>4. CASE signal_resumed
    <3>1. /\ ~interrupts_enabled /\ interrupts_enabled' = TRUE
          /\ context[running] = "signal" /\ inside' = inside \cup {running}
          /\ UNCHANGED <<table, ready, running, queues, context, proc, lockVars, condVars>>
      BY <2>4 DEF signal_resumed, Back, Enter
    <3> QED
      BY <1>1, <2>1, <3>1, ReturnHoare
  <2>5. CASE unlock_resumed
    <3>1. /\ ~interrupts_enabled /\ interrupts_enabled' = TRUE
          /\ context[running] = "unlock" /\ inside' = inside
          /\ UNCHANGED <<table, ready, running, queues, context, proc, lockVars, condVars>>
      BY <2>5 DEF unlock_resumed, Back, monitorVars
    <3> QED
      BY <1>1, <2>1, <3>1, ReturnHoare
  <2>6. CASE unlock
    BY <1>1, <2>1, <2>6, UnlockHoare
  <2>7. ASSUME NEW c \in CondVars, wait(c) PROVE HoareInv'
    BY <1>1, <2>1, <2>7, WaitHoare
  <2>8. ASSUME NEW c \in CondVars, signal(c) PROVE HoareInv'
    <3>1. /\ interrupts_enabled /\ running \in inside /\ nextThreadToWakeUp = Null
          /\ Notify(c, <<running>>, Tail(cond_var_waiting_queue[c]))
      BY <2>8 DEF signal, Inside, Calling, InUserCode, SignalsInTurn
    <3> QED
      BY <1>1, <2>1, <3>1, NotifyHoare
  <2>9. ASSUME NEW c \in CondVars, broadcast(c) PROVE HoareInv'
    <3>1. /\ interrupts_enabled /\ running \in inside /\ nextThreadToWakeUp = Null
          /\ Notify(c, Append(Tail(cond_var_waiting_queue[c]), running), << >>)
      BY <2>9 DEF broadcast, broadcast_order, Inside, Calling, InUserCode, SignalsInTurn
    <3> QED
      BY <1>1, <2>1, <3>1, NotifyHoare
  <2>10. CASE wait_unlocked
    BY <1>1, <2>1, <2>10, WaitUnlockedHoare
  <2>11. CASE wait_resumed
    BY <1>1, <2>1, <2>11, WaitResumedHoare
  <2> QED
    BY <1>4, <2>2, <2>3, <2>4, <2>5, <2>6, <2>7, <2>8, <2>9, <2>10, <2>11 DEF Next
<1> QED
  BY <1>2, <1>3, <1>4

(* Every step of a client in which a woken thread does not signal keeps    *)
(* the promises.                                                           *)
LEMMA HoareInvStep ==
  ASSUME NestedSignals = FALSE, HoareInv, [Next]_vars
  PROVE  HoareInv'
<1>1. SignalsInTurn
  BY DEF SignalsInTurn, signal, broadcast, Notify
<1> QED
  BY <1>1, HoareInvKept

(* At the start nothing is promised, and every worker is ready.            *)
LEMMA HoareInvInit ==
  ASSUME MonitorInit
  PROVE  HoareInv
<1>1. LockInv
  BY LockInvInit
<1>2. /\ value = 0 /\ waiting_queue = << >> /\ nextThreadToWakeUp = Null
      /\ cond_var_waiting_queue = [c \in CondVars |-> << >>]
      /\ wake_up_order = [c \in CondVars |-> << >>] /\ inside = {}
      /\ context = [t \in Tids |-> "stub"] /\ proc = "alive"
  BY DEF MonitorInit, Init
<1>3. /\ cond_var_waiting_queue \in [CondVars -> Seq(Tids)]
      /\ wake_up_order \in [CondVars -> Seq(Tids)]
      /\ Able \subseteq Tids /\ running \in Tids
  BY <1>1, <1>2, LockFacts DEF LockInv, MonitorTypeOK, LockState
<1>4. Idle(wake_up_order) /\ Idle(cond_var_waiting_queue)
  BY <1>2 DEF Idle
<1>5. FreeLockIsUnwanted
  BY <1>2, <1>3, <1>4, IdleMeansNone DEF FreeLockIsUnwanted, Notified
<1>6. Settled(Able, running, interrupts_enabled, context, Asleep)
  BY <1>2, <1>3 DEF Settled
<1>7. threads \subseteq {running} \cup Able
  <2>1. /\ threads = StartThreads /\ running = MAIN_THREAD
        /\ ready = [p \in Priorities |-> StartQueue(p)]
    BY DEF MonitorInit, Init
  <2>2. ASSUME NEW t \in StartThreads \ {MAIN_THREAD} PROVE t \in QueuedIn(ready)
    <3>1. StartPriority[t] \in Priorities /\ t \in Workers(StartPriority[t])
      BY UThreadAssumption DEF Workers
    <3>2. t \in ToSet(StartQueue(StartPriority[t]))
      BY <3>1, StartQueueMembers
    <3> QED
      BY <2>1, <3>1, <3>2 DEF QueuedIn
  <2> QED
    BY <2>1, <2>2 DEF Able
<1>8. Holders(Able, running, interrupts_enabled, context, {}) = {}
  BY <1>2, <1>3 DEF Holders
<1>9. Waiters(cond_var_waiting_queue, context, waits_on)
  <2>1. \A c \in CondVars : ToSet(cond_var_waiting_queue[c]) = {}
    BY <1>2 DEF ToSet
  <2> QED
    BY <2>1 DEF Waiters
<1>10. Promised(nextThreadToWakeUp, inside, {}, cond_var_waiting_queue, wake_up_order,
                context, waits_on)
  BY <1>2, <1>3, <1>4, <1>9, NothingPromised
<1> QED
  BY <1>1, <1>2, <1>5, <1>6, <1>7, <1>8, <1>10 DEF HoareInv, HoareParts

-----------------------------------------------------------------------------
(* The properties.                                                         *)

(* The inductive invariant of the condition variables.                     *)
THEOREM HandOffSound ==
  ASSUME NestedSignals = FALSE PROVE MonitorSpec => []HoareInv
<1>1. MonitorInit => HoareInv
  BY HoareInvInit
<1>2. HoareInv /\ [Next]_vars => HoareInv'
  BY HoareInvStep
<1> QED
  BY <1>1, <1>2, PTL DEF MonitorSpec

(* A woken thread always finds somebody to hand the lock on to: wait()     *)
(* never takes the front of an empty wake-up order.                        *)
THEOREM WokenFindsNext ==
  ASSUME NestedSignals = FALSE PROVE MonitorSpec => [](proc # "empty_wake_up_order")
<1>1. HoareInv => proc # "empty_wake_up_order"
  BY DEF HoareInv
<1> QED
  BY <1>1, HandOffSound, PTL

(* The lock is free only when no thread is inside, waits for the lock or   *)
(* is owed it by a condition variable.                                     *)
THEOREM NoWakeUpLost ==
  ASSUME NestedSignals = FALSE PROVE MonitorSpec => []FreeLockIsUnwanted
<1>1. HoareInv => FreeLockIsUnwanted
  BY DEF HoareInv
<1> QED
  BY <1>1, HandOffSound, PTL

(* The invariant accounts for every thread.                                *)
LEMMA AllReachable ==
  ASSUME HoareInv
  PROVE  NoThreadLost
  BY DEF HoareInv, HoareParts, NoThreadLost, Able, Asleep, Sleepers, Waiting, Notified,
     QueuedIn, ReadyThreads, Joiners, Joining

(* No thread drops out of the queues of the scheduler, the lock and the    *)
(* condition variables.                                                    *)
THEOREM ThreadsStayReachable ==
  ASSUME NestedSignals = FALSE PROVE MonitorSpec => []NoThreadLost
<1>1. HoareInv => NoThreadLost
  BY AllReachable
<1> QED
  BY <1>1, HandOffSound, PTL

(* The threads that HasLock collects are the holders of the invariant.     *)
LEMMA HasLockHolds ==
  ASSUME HoareState
  PROVE  HasLock = Holders(Able, running, interrupts_enabled, context, inside)
<1> DEFINE A == Able
           r == running
           on == interrupts_enabled
           ctx == context
           Q == ToSet(waiting_queue)
           S == Asleep
           H == Holders(A, r, on, ctx, inside)
<1>1. /\ Lawful(A, r, on, ctx, inside, Q, S, value, lock_count)
      /\ A \subseteq threads /\ r \in threads /\ threads \subseteq Tids
  BY LockFacts DEF HoareState
<1>2. Settled(A, r, on, ctx, S)
  BY HoareFacts
<1>3. A = ReadyThreads \cup blocked
  BY DEF Able, QueuedIn, ReadyThreads
<1>4. \A t \in Tids : t \in S <=> t \in Waiting \cup Notified \/ t = nextThreadToWakeUp
  BY MonitorAssumption DEF Asleep, Sleepers, Waiting, Notified
<1>5. HasLock = inside \cup
        {t \in threads : /\ t \in A \/ (t = r /\ ~on)
                         /\ ctx[t] \in {"lock", "wait", "wait_unlock", "signal"}
                         /\ t \notin Q /\ t \notin S}
  BY <1>1, <1>3, <1>4 DEF HasLock
<1> HIDE DEF A, Q, S
<1>6. /\ Q \cap (A \cup {r}) = {}
      /\ \A t \in S : t \in A \cup {r} => ctx[t] = "wait_unlock"
      /\ r \in S => r \notin A
      /\ \A t \in A : ctx[t] # "signal"
  BY <1>1 DEF Lawful, Places
<1>7. ASSUME NEW t \in threads, t \in A \/ (t = r /\ ~on),
             ctx[t] \in {"lock", "wait", "wait_unlock", "signal"}, t \notin Q, t \notin S
      PROVE  t \in H
  BY <1>2, <1>6, <1>7 DEF Settled, Holders
<1>8. ASSUME NEW t \in H, t \notin inside
      PROVE  /\ t \in threads
             /\ t \in A \/ (t = r /\ ~on)
             /\ ctx[t] \in {"lock", "wait", "wait_unlock", "signal"}
             /\ t \notin Q /\ t \notin S
  <2>1. \/ t \in A /\ ctx[t] \in {"lock", "wait"}
        \/ /\ t = r /\ ~on
           /\ ctx[t] \in {"lock", "wait", "signal"} \/ (ctx[t] = "wait_unlock" /\ t \in A)
    BY <1>8 DEF Holders
  <2> QED
    BY <1>1, <1>6, <2>1
<1>9. inside \subseteq H
  BY DEF Holders
<1> HIDE DEF H
<1>10. HasLock = H
  BY <1>5, <1>7, <1>8, <1>9
<1> QED
  BY <1>10 DEF H, A

(* The invariant's holders are one while the lock is held.                 *)
LEMMA OneHolder ==
  ASSUME HoareInv
  PROVE  LockHasOneHolder
<1>1. SUFFICES ASSUME proc = "alive" PROVE Cardinality(HasLock) = value
  BY DEF LockHasOneHolder
<1>2. HoareState
  BY <1>1 DEF HoareInv, LockInv, LockState, HoareState
<1>3. Token(HasLock, value)
  BY <1>2, HasLockHolds, LockFacts DEF HoareState, Lawful
<1>4. CASE value = 0 /\ HasLock = {}
  BY <1>4, FS_EmptySet
<1>5. ASSUME value = 1, NEW h \in HasLock, HasLock = {h} PROVE Cardinality(HasLock) = value
  BY <1>5, FS_Singleton
<1> QED
  BY <1>3, <1>4, <1>5 DEF Token

(* The lock is conserved: a lock that is held has exactly one holder, also *)
(* while it is being passed on, and a free one none.                       *)
THEOREM LockIsConserved ==
  ASSUME NestedSignals = FALSE PROVE MonitorSpec => []LockHasOneHolder
<1>1. HoareInv => LockHasOneHolder
  BY OneHolder
<1> QED
  BY <1>1, HandOffSound, PTL

-----------------------------------------------------------------------------
(* The end of the process for want of a ready thread.                      *)

\* The client's threads block in the monitor only.
BlockInMonitorOnly == \A t \in Tids : Calls[t] \cap {"suspend", "join", "exit"} = {}

\* Then no thread is suspended, joins or has ended, or is about to suspend.
NoneElsewhere ==
  /\ blocked = {} /\ join_queue = << >> /\ finished_queue = {}
  /\ \A t \in Tids : call[t].op # "suspend"

\* The inductive invariant of such clients.
StuckInv ==
  /\ HoareInv
  /\ StuckOnlyWhenAllWait
  /\ proc = "alive" => NoneElsewhere

(* A step of the library puts no thread aside in such a client.            *)
LEMMA NoneSetAside ==
  ASSUME BlockInMonitorOnly, LockState, NoneElsewhere, UThreadNext
  PROVE  NoneElsewhere'
<1>1. running \in Tids /\ call \in [Tids -> CallRecords]
  BY DEF LockState, Base, TypeOK, CallRecords
<1>2. "suspend" \notin Calls[running] /\ "join" \notin Calls[running]
        /\ "exit" \notin Calls[running]
  BY <1>1 DEF BlockInMonitorOnly
<1>3. ~uthread_suspend
  BY <1>1 DEF uthread_suspend, Checked, NoneElsewhere
<1>4. ~uthread_exit /\ \A tid \in Tids : ~uthread_join(tid) /\ ~uthread_suspend_check(tid)
  BY <1>2 DEF uthread_exit, uthread_join, uthread_suspend_check, Check, Calling
<1>5. CASE UNCHANGED queues /\ UNCHANGED call
  BY <1>5 DEF NoneElsewhere, queues
<1>6. ASSUME UNCHANGED queues, NEW op, NEW tid, op # "suspend",
             call' = [call EXCEPT ![running] = [op |-> op, tid |-> tid]]
      PROVE  NoneElsewhere'
  <2>1. \A t \in Tids : call'[t].op # "suspend"
    BY <1>1, <1>6 DEF NoneElsewhere
  <2> QED
    BY <1>6, <2>1 DEF NoneElsewhere, queues
<1>7. ASSUME UNCHANGED queues, call' = [call EXCEPT ![running] = NoCall]
      PROVE  NoneElsewhere'
  BY <1>6, <1>7 DEF NoCall
<1>8. CASE uthread_create_check
  BY <1>6, <1>8 DEF uthread_create_check
<1>9. CASE uthread_create
  <2>1. PICK tid \in Tids : call' = [call EXCEPT ![tid] = NoCall, ![running] = NoCall]
    BY <1>9 DEF uthread_create
  <2>2. \A t \in Tids : call'[t].op # "suspend"
    BY <1>1, <2>1 DEF NoneElsewhere, NoCall
  <2> QED
    BY <1>9, <2>2 DEF uthread_create, NoneElsewhere, queues
<1>10. CASE uthread_join_resumed
  BY <1>5, <1>10 DEF uthread_join_resumed, Die, NoneElsewhere
<1>11. CASE uthread_exit_main
  BY <1>5, <1>11 DEF uthread_exit_main, Die
<1>12. CASE uthread_yield \/ timeHandler
  BY <1>5, <1>12 DEF uthread_yield, timeHandler, yield_body, Die
<1>13. CASE resumed
  BY <1>5, <1>7, <1>13 DEF resumed
<1>14. ASSUME NEW tid \in Tids, uthread_resume_count(tid) PROVE NoneElsewhere'
  BY <1>6, <1>14 DEF uthread_resume_count, Check
<1>15. CASE uthread_resume_find
  BY <1>7, <1>15 DEF uthread_resume_find, NoneElsewhere
<1>16. CASE uthread_resume
  BY <1>5, <1>16 DEF uthread_resume, Die, NoneElsewhere
<1>17. ASSUME NEW op \in OpNames, NEW tid \in Tids, uthread_priority_check(op, tid)
       PROVE  NoneElsewhere'
  BY <1>6, <1>17 DEF uthread_priority_check, Check
<1>18. CASE uthread_change_priority
  BY <1>5, <1>7, <1>18 DEF uthread_change_priority, Die, Return
<1> QED
  BY <1>3, <1>4, <1>8, <1>9, <1>10, <1>11, <1>12, <1>13, <1>14, <1>15, <1>16, <1>17,
     <1>18 DEF UThreadNext

(* Nor does it run out of ready threads: who yields is ready itself.       *)
LEMMA ThreadStepGoesOn ==
  ASSUME BlockInMonitorOnly, LockState, NoneElsewhere, UThreadNext
  PROVE  NoneElsewhere' /\ proc' # "no_ready"
<1>1. NoneElsewhere'
  BY NoneSetAside
<1>2. Scheduled /\ proc = "alive"
  BY ThreadStepScheduled DEF LockState
<1>3. Joiners(join_queue') = {} /\ blocked' = {} /\ finished_queue' = {}
  BY <1>1 DEF NoneElsewhere, Joiners, ToSet
<1>4. ASSUME NEW W \in SUBSET Tids, NEW c \in {"yield", "suspend", "join", "exit"},
             Switched(W, c)
      PROVE  proc' # "no_ready"
  <2>1. running \in W
    BY <1>3, <1>4 DEF Switched
  <2> QED
    BY <1>4, <2>1 DEF Switched, Dispatched
<1>5. Kept \/ Created \/ Reaped \/ Shifted \/ Died => proc' # "no_ready"
  BY <1>2 DEF Kept, Created, Reaped, Shifted, Died
<1>6. proc' # "no_ready"
  BY <1>2, <1>4, <1>5 DEF Scheduled
<1> QED
  BY <1>1, <1>6

(* When no thread may be scheduled the lock is held by nobody, or by the   *)
(* running thread.                                                         *)
LEMMA NobodyElseHolds ==
  ASSUME HoareState, NoneElsewhere, QueuedIn(ready) = {}
  PROVE  /\ Able = {}
         /\ \A t \in inside : t = running
         /\ threads \subseteq {running} \cup ToSet(waiting_queue) \cup Asleep
<1>1. Able = {}
  BY DEF Able, NoneElsewhere
<1>2. Joiners(join_queue) = {} /\ finished_queue = {}
  BY DEF NoneElsewhere, Joiners, ToSet
<1>3. Places(Able, running, interrupts_enabled, context, inside,
             ToSet(waiting_queue), Asleep)
  BY LockFacts DEF HoareState, Lawful
<1>4. \A t \in inside : t = running
  BY <1>1, <1>3 DEF Places
<1> QED
  BY <1>1, <1>2, <1>4, HoareFacts

(* lock() never ends the process: the holder of a taken lock is ready.     *)
LEMMA LockGoesOn ==
  ASSUME HoareState, NoneElsewhere, lock
  PROVE  proc' # "no_ready"
<1>1. /\ interrupts_enabled /\ running \notin inside /\ proc = "alive"
      /\ UNCHANGED priority
  BY DEF lock, Outside, Calling, InUserCode
<1>2. SUFFICES ASSUME value = 1, switchThreads(ready, "lock"), proc' = "no_ready"
               PROVE  FALSE
  BY <1>1 DEF lock, taken
<1>3. Dispatched(QueuedIn(ready), "lock")
  <2>1. /\ TypeOK /\ Sorted(ready, priority') /\ priority' \in [Tids -> Priorities]
        /\ "lock" \in Contexts
    BY <1>1 DEF HoareState, LockState, Base, TypeOK, Contexts
  <2> QED
    BY <1>1, <1>2, <2>1, SwitchDispatches
<1>4. QueuedIn(ready) = {}
  BY <1>2, <1>3 DEF Dispatched
<1>5. Able = {} /\ inside = {}
  BY <1>1, <1>4, NobodyElseHolds
<1>6. Token(Holders(Able, running, interrupts_enabled, context, inside), value)
  BY LockFacts DEF HoareState, Lawful
<1>7. Holders(Able, running, interrupts_enabled, context, inside) = {}
  BY <1>1, <1>5 DEF Holders
<1> QED
  BY <1>2, <1>6, <1>7 DEF Token

(* wait() ends the process only when the caller is the last to wait.       *)
LEMMA WaitStuck ==
  ASSUME HoareState, NoneElsewhere, NEW c \in CondVars, wait(c), proc' = "no_ready"
  PROVE  threads' \subseteq Waiting'
<1> DEFINE cvq == cond_var_waiting_queue
<1>1. /\ interrupts_enabled /\ running \in inside /\ proc = "alive"
      /\ cond_var_waiting_queue' = [cvq EXCEPT ![c] = Append(@, running)]
      /\ inside' = inside \ {running}
      /\ UNCHANGED <<threads, priority, wake_up_order>>
  BY DEF wait, Inside, Calling, InUserCode, Leave, table
<1>2. Release /\ switchThreads(released_ready, "wait")
  BY <1>1 DEF wait, HandBack
<1>3. PICK P \in SUBSET ToSet(waiting_queue) :
         /\ (P = {} /\ waiting_queue = << >>) \/ (\E h \in ToSet(waiting_queue) : P = {h})
         /\ Sorted(released_ready, priority)
         /\ QueuedIn(released_ready) = QueuedIn(ready) \cup P
  BY <1>1, <1>2, ReleaseFacts DEF HoareState
<1>4. Dispatched(QueuedIn(released_ready), "wait")
  <2> DEFINE rdy == released_ready
  <2>1. /\ TypeOK /\ Sorted(rdy, priority') /\ priority' \in [Tids -> Priorities]
        /\ "wait" \in Contexts
    BY <1>1, <1>3 DEF HoareState, LockState, Base, TypeOK, Contexts
  <2> HIDE DEF rdy
  <2>2. switchThreads(rdy, "wait")
    BY <1>2 DEF rdy
  <2>3. Dispatched(QueuedIn(rdy), "wait")
    BY <1>1, <2>1, <2>2, SwitchDispatches
  <2> QED
    BY <2>3 DEF rdy
<1>5. QueuedIn(ready) = {} /\ waiting_queue = << >>
  BY <1>2, <1>3, <1>4 DEF Dispatched
<1>6. threads \subseteq {running} \cup Asleep
  <2>1. ToSet(waiting_queue) = {}
    BY <1>5 DEF ToSet
  <2> QED
    BY <1>5, <2>1, NobodyElseHolds
<1>7. nextThreadToWakeUp = Null /\ SeqThreads(wake_up_order) = {}
  BY <1>1, <1>2, ReleaseUnwanted, HoareFacts, IdleMeansNone
<1>8. Asleep = Waiting
  BY <1>7 DEF Asleep, Sleepers, Waiting
<1>9. Waiting \cup {running} \subseteq Waiting'
  <2>1. cvq \in [CondVars -> Seq(Tids)] /\ running \in Tids
    BY HoareFacts, LockFacts DEF HoareState
  <2>2. ToSet(Append(cvq[c], running)) = ToSet(cvq[c]) \cup {running}
    BY <2>1, AppendMembers
  <2> DEFINE cvq2 == [cvq EXCEPT ![c] = Append(@, running)]
  <2>3. cvq2[c] = Append(cvq[c], running) /\ \A d \in CondVars \ {c} : cvq2[d] = cvq[d]
    BY <2>1
  <2> HIDE DEF cvq2
  <2>4. SeqThreads(cvq) \cup {running} \subseteq SeqThreads(cvq2)
    BY <2>2, <2>3 DEF SeqThreads
  <2> QED
    BY <1>1, <2>4 DEF Waiting, cvq2
<1> QED
  BY <1>1, <1>6, <1>8, <1>9

(* Nor does the rest of a wait() that handed the lock back.                *)
LEMMA WaitUnlockedStuck ==
  ASSUME HoareState, NoneElsewhere, wait_unlocked, proc' = "no_ready"
  PROVE  threads' \subseteq Waiting'
<1>1. /\ ~interrupts_enabled /\ context[running] = "wait_unlock" /\ proc = "alive"
      /\ switchThreads(ready, "wait")
      /\ UNCHANGED <<threads, priority, cond_var_waiting_queue>>
  BY DEF wait_unlocked, Back, table, monitorVars, condVars
<1>2. Dispatched(QueuedIn(ready), "wait")
  <2>1. /\ TypeOK /\ Sorted(ready, priority') /\ priority' \in [Tids -> Priorities]
        /\ "wait" \in Contexts
    BY <1>1 DEF HoareState, LockState, Base, TypeOK, Contexts
  <2> QED
    BY <1>1, <2>1, SwitchDispatches
<1>3. QueuedIn(ready) = {}
  BY <1>2 DEF Dispatched
<1>4. /\ Able = {} /\ \A t \in inside : t = running
      /\ threads \subseteq {running} \cup ToSet(waiting_queue) \cup Asleep
  BY <1>3, NobodyElseHolds
<1>5. running \in Asleep
  BY <1>1, <1>4, HoareFacts DEF Settled
<1>6. /\ inside \cap Asleep = {}
      /\ Token(Holders(Able, running, interrupts_enabled, context, inside), value)
  BY LockFacts DEF HoareState, Lawful, Places
<1>7. Holders(Able, running, interrupts_enabled, context, inside) = {}
  BY <1>1, <1>4, <1>5, <1>6 DEF Holders
<1>8. value = 0
  BY <1>6, <1>7 DEF Token
<1>9. waiting_queue = << >> /\ nextThreadToWakeUp = Null /\ SeqThreads(wake_up_order) = {}
  BY <1>8, HoareFacts, IdleMeansNone
<1>10. Asleep = Waiting /\ ToSet(waiting_queue) = {}
  BY <1>9 DEF Asleep, Sleepers, Waiting, ToSet
<1> QED
  BY <1>1, <1>4, <1>5, <1>10 DEF Waiting

(* Every step keeps the invariant.                                         *)
LEMMA StuckInvStep ==
  ASSUME NestedSignals = FALSE, BlockInMonitorOnly, StuckInv, [Next]_vars
  PROVE  StuckInv'
<1>1. HoareInv'
  BY HoareInvStep DEF StuckInv
<1>2. CASE UNCHANGED vars
  BY <1>1, <1>2 DEF StuckInv, vars, uthreadVars, monitorVars, condVars, table, queues,
     StuckOnlyWhenAllWait, NoneElsewhere, Waiting, SeqThreads
<1>3. CASE Next
  <2>1. HoareState /\ NoneElsewhere
    <3>1. proc = "alive"
      BY <1>3, NextAlive
    <3> QED
      BY <3>1 DEF StuckInv, HoareInv, LockInv, LockState, HoareState
  <2>2. CASE ThreadStep
    BY <1>1, <2>1, <2>2, ThreadStepGoesOn DEF ThreadStep, HoareState, StuckInv,
       StuckOnlyWhenAllWait
  <2>3. CASE ~ThreadStep
    <3>1. UNCHANGED <<queues, call>>
      BY <1>3, <2>3 DEF Next, lock, lock_resumed, unlock, unlock_resumed, wait, signal,
         broadcast, Notify, wait_unlocked, wait_resumed, signal_resumed, Die
    <3>2. NoneElsewhere'
      BY <2>1, <3>1 DEF NoneElsewhere, queues
    <3>3. proc' = "no_ready" => lock \/ wait_unlocked \/ \E c \in CondVars : wait(c)
      BY <1>3, <2>1, <2>3 DEF Next, lock_resumed, unlock, HandBack, unlock_resumed,
         signal, broadcast, Notify, wait_resumed, signal_resumed, Die, HoareState,
         LockState
    <3>4. StuckOnlyWhenAllWait'
      BY <2>1, <3>3, LockGoesOn, WaitStuck, WaitUnlockedStuck DEF StuckOnlyWhenAllWait
    <3> QED
      BY <1>1, <3>2, <3>4 DEF StuckInv
  <2> QED
    BY <2>2, <2>3
<1> QED
  BY <1>2, <1>3

(* The process dies for want of a ready thread only when every thread      *)
(* waits for a signal, in clients that block in the monitor only: threads  *)
(* never end up waiting for a lock that nobody will release.               *)
THEOREM OnlyWaitersGetStuck ==
  ASSUME NestedSignals = FALSE, BlockInMonitorOnly
  PROVE  MonitorSpec => []StuckOnlyWhenAllWait
<1>1. MonitorInit => StuckInv
  <2>1. MonitorInit => NoneElsewhere /\ proc = "alive"
    BY DEF MonitorInit, Init, NoneElsewhere, NoCall
  <2> QED
    BY <2>1, HoareInvInit DEF StuckInv, StuckOnlyWhenAllWait
<1>2. StuckInv /\ [Next]_vars => StuckInv'
  BY StuckInvStep
<1>3. StuckInv => StuckOnlyWhenAllWait
  BY DEF StuckInv
<1> QED
  BY <1>1, <1>2, <1>3, PTL DEF MonitorSpec
-----------------------------------------------------------------------------
(* The order in which the lock is handed on.                               *)

\* The threads that are owed the lock: n first, then the order in wo.
OwedBy(n, wo) ==
  (IF n = Null THEN << >> ELSE <<n>>)
    \o (IF SeqThreads(wo) = {} THEN << >> ELSE wo[CHOOSE c \in CondVars : wo[c] # << >>])

\* At most one condition variable has threads to wake.
OneOrder(wo) == \A c, d \in CondVars : wo[c] # << >> /\ wo[d] # << >> => c = d

(* The order of the one condition variable that has threads to wake.       *)
LEMMA OwedOrder ==
  ASSUME NEW wo \in [CondVars -> Seq(Tids)], OneOrder(wo), NEW c \in CondVars,
         \A d \in CondVars \ {c} : wo[d] = << >>
  PROVE  /\ OwedBy(Null, wo) = wo[c]
         /\ \A n \in Tids : OwedBy(n, wo) = <<n>> \o wo[c]
<1> DEFINE rest == IF SeqThreads(wo) = {} THEN << >>
                   ELSE wo[CHOOSE d \in CondVars : wo[d] # << >>]
<1>1. rest = wo[c]
  <2>1. CASE wo[c] = << >>
    <3>1. Idle(wo)
      BY <2>1 DEF Idle
    <3> QED
      BY <2>1, <3>1, IdleMeansNone
  <2>2. CASE wo[c] # << >>
    <3>1. ~Idle(wo)
      BY <2>2 DEF Idle
    <3>2. SeqThreads(wo) # {}
      BY <3>1, IdleMeansNone
    <3>3. (CHOOSE d \in CondVars : wo[d] # << >>) = c
      BY <2>2
    <3> QED
      BY <3>2, <3>3
  <2> QED
    BY <2>1, <2>2
<1>2. \A n : OwedBy(n, wo) = (IF n = Null THEN << >> ELSE <<n>>) \o rest
  BY DEF OwedBy
<1> HIDE DEF rest
<1>3. << >> \o wo[c] = wo[c]
  OBVIOUS
<1>4. Null \notin Tids
  BY MonitorAssumption
<1> QED
  BY <1>1, <1>2, <1>3, <1>4

(* Nothing is owed but to n when no condition variable has threads to wake. *)
LEMMA OwedIdle ==
  ASSUME NEW wo \in [CondVars -> Seq(Tids)], Idle(wo)
  PROVE  OwedBy(Null, wo) = << >> /\ \A n \in Tids : OwedBy(n, wo) = <<n>>
<1>1. SeqThreads(wo) = {}
  BY IdleMeansNone
<1>2. Null \notin Tids
  BY MonitorAssumption
<1>3. << >> \o << >> = << >> /\ \A n \in Tids : <<n>> \o << >> = <<n>>
  OBVIOUS
<1> QED
  BY <1>1, <1>2, <1>3 DEF OwedBy

(* Taking the first of the owed threads leaves the others.                 *)
LEMMA OwedTail ==
  ASSUME NEW wo \in [CondVars -> Seq(Tids)], NEW n \in Tids
  PROVE  /\ OwedBy(n, wo) # << >> /\ Head(OwedBy(n, wo)) = n
         /\ OwedBy(Null, wo) = Tail(OwedBy(n, wo))
<1> DEFINE rest == IF SeqThreads(wo) = {} THEN << >>
                   ELSE wo[CHOOSE d \in CondVars : wo[d] # << >>]
<1>1. rest \in Seq(Tids)
  <2>1. CASE SeqThreads(wo) = {}
    BY <2>1
  <2>2. CASE SeqThreads(wo) # {}
    <3>1. ~Idle(wo)
      BY <2>2, IdleMeansNone
    <3>2. (CHOOSE d \in CondVars : wo[d] # << >>) \in CondVars
      BY <3>1 DEF Idle
    <3> QED
      BY <2>2, <3>2
  <2> QED
    BY <2>1, <2>2
<1>2. \A m : OwedBy(m, wo) = (IF m = Null THEN << >> ELSE <<m>>) \o rest
  BY DEF OwedBy
<1> HIDE DEF rest
<1>3. n # Null
  BY MonitorAssumption
<1>4. /\ <<n>> \o rest # << >> /\ Head(<<n>> \o rest) = n
      /\ Tail(<<n>> \o rest) = rest /\ << >> \o rest = rest
  BY <1>1
<1> QED
  BY <1>2, <1>3, <1>4

(* Nothing is owed when no thread is named next or to be woken.            *)
LEMMA NothingOwed ==
  ASSUME HoareState, nextThreadToWakeUp = Null, Idle(wake_up_order)
  PROVE  Owed = << >>
<1>1. wake_up_order \in [CondVars -> Seq(Tids)]
  BY HoareFacts
<1>2. Owed = OwedBy(Null, wake_up_order)
  BY DEF Owed, OwedBy, Notified
<1> QED
  BY <1>1, <1>2, OwedIdle

\* Who has the lock, and that it is one thread while the lock is held.
HolderKnown ==
  proc = "alive" =>
    /\ HasLock = Holders(Able, running, interrupts_enabled, context, inside)
    /\ Token(HasLock, value)

(* The invariant knows the holder.                                         *)
LEMMA HolderIsKnown ==
  ASSUME HoareInv
  PROVE  HolderKnown
<1>1. SUFFICES ASSUME proc = "alive"
               PROVE  /\ HasLock = Holders(Able, running, interrupts_enabled, context, inside)
                      /\ Token(HasLock, value)
  BY DEF HolderKnown
<1>2. HoareState
  BY <1>1 DEF HoareInv, LockInv, LockState, HoareState
<1> QED
  BY <1>2, HasLockHolds, LockFacts DEF HoareState, Lawful

(* A step that passes the lock to nobody leaves it where it is.            *)
LEMMA StaysPut ==
  ASSUME HolderKnown, HolderKnown', proc = "alive", proc' = "alive",
         Holders(Able', running', interrupts_enabled', context', {}) \subseteq Passed,
         inside' \subseteq inside
  PROVE  HasLock' \subseteq HasLock
<1>1. /\ HasLock = Holders(Able, running, interrupts_enabled, context, inside)
      /\ HasLock' = Holders(Able', running', interrupts_enabled', context', inside')
  BY DEF HolderKnown
<1>2. \A A, r, on, ctx, I : Holders(A, r, on, ctx, I) = I \cup Holders(A, r, on, ctx, {})
  BY DEF Holders
<1>3. /\ HasLock = inside \cup Passed
      /\ HasLock' = inside' \cup Holders(Able', running', interrupts_enabled', context', {})
  BY <1>1, <1>2 DEF Passed
<1> QED
  BY <1>3

(* A thread that returns with the lock had been passed it.                 *)
LEMMA ReturnsWithLock ==
  ASSUME HolderKnown, HolderKnown', proc = "alive", proc' = "alive",
         ~interrupts_enabled, context[running] \in {"lock", "signal", "wait"},
         inside' = inside \cup {running}
  PROVE  HasLock' \subseteq HasLock
<1>1. running \in HasLock
  BY DEF HolderKnown, Holders
<1>2. running \in HasLock'
  <2>1. HasLock' = Holders(Able', running', interrupts_enabled', context', inside')
    BY DEF HolderKnown
  <2>2. inside' \subseteq Holders(Able', running', interrupts_enabled', context', inside')
    BY DEF Holders
  <2> QED
    BY <2>1, <2>2
<1>3. Token(HasLock', value')
  BY DEF HolderKnown
<1> QED
  BY <1>1, <1>2, <1>3 DEF Token

\* What a step that wakes nobody may do to the order in which the lock is owed.
KeepsOrder ==
  /\ OneOrder(wake_up_order')
  /\ Owed = << >> => Owed' = << >>
  /\ Owed # << >> /\ proc' = "alive" => HonoursOwed

(* A step that leaves the order and the lock alone.                        *)
LEMMA LeftInOrder ==
  ASSUME HoareState, UNCHANGED <<nextThreadToWakeUp, wake_up_order>>,
         Owed # << >> /\ proc' = "alive" => HasLock' \subseteq HasLock
  PROVE  KeepsOrder
<1>1. OneOrder(wake_up_order)
  BY HoareFacts DEF Promised, InTurn, OneOrder
<1>2. Owed' = Owed
  BY DEF Owed, Notified, SeqThreads
<1> QED
  BY <1>1, <1>2 DEF KeepsOrder, HonoursOwed

(* The steps of the thread library pass the lock to nobody.                *)
LEMMA ThreadStepInOrder ==
  ASSUME HoareState, HolderKnown, HolderKnown', ThreadStep
  PROVE  KeepsOrder
<1>1. UNCHANGED <<nextThreadToWakeUp, wake_up_order, inside>>
  BY DEF ThreadStep, monitorVars, lockVars, condVars
<1>2. ASSUME proc' = "alive" PROVE HasLock' \subseteq HasLock
  <2>1. [UThreadNext]_uthreadVars
    BY DEF ThreadStep
  <2>2. Scheduled
    BY <2>1, ThreadStepScheduled DEF LockState, HoareState
  <2>3. Steady(Able, running, interrupts_enabled, context,
               Able', running', interrupts_enabled', context', Asleep)
    BY <1>2, <2>2, ThreadStepSteady
  <2>4. Holders(Able', running', interrupts_enabled', context', {}) \subseteq Passed
    BY <2>3 DEF Steady, Passed
  <2>5. proc = "alive"
    BY DEF HoareState, LockState
  <2> QED
    BY <1>1, <1>2, <2>4, <2>5, StaysPut
<1> QED
  BY <1>1, <1>2, LeftInOrder

(* The running thread blocks: the thread that runs next has the lock only  *)
(* if it had been passed it.                                               *)
LEMMA BlockInOrder ==
  ASSUME HoareState, HolderKnown, HolderKnown', proc' = "alive",
         NEW c \in {"lock", "wait"}, switchThreads(ready, c),
         IF c = "lock" THEN interrupts_enabled
         ELSE ~interrupts_enabled /\ context[running] = "wait_unlock",
         UNCHANGED <<priority, blocked, inside>>
  PROVE  HasLock' \subseteq HasLock
<1> DEFINE R == QueuedIn(ready)
           A == Able
           r == running
           on == interrupts_enabled
           ctx == context
           A2 == Able'
           r2 == running'
           ctx2 == context'
<1>1. /\ A \in SUBSET Tids /\ r \in Tids /\ on \in BOOLEAN
      /\ ctx \in [Tids -> Contexts] /\ A = R \cup blocked /\ R \cap blocked = {}
      /\ on => r \notin A
      /\ \A t \in A : ctx[t] # "signal"
  BY LockFacts DEF HoareState, Lawful, Places
<1>2. /\ TypeOK /\ c \in Contexts /\ Sorted(ready, priority')
      /\ priority' \in [Tids -> Priorities] /\ proc = "alive"
  BY DEF HoareState, LockState, Base, TypeOK, Contexts
<1>3. Dispatched(R, c)
  BY <1>2, SwitchDispatches
<1>4. /\ r2 \in R /\ QueuedIn(ready') = R \ {r2}
      /\ ctx2 = [ctx EXCEPT ![r] = c] /\ interrupts_enabled' = FALSE
  BY <1>3 DEF Dispatched
<1>5. r2 \in A /\ A2 = A \ {r2}
  BY <1>1, <1>4 DEF Able, QueuedIn
<1>6. ctx2[r] = c /\ \A t \in Tids \ {r} : ctx2[t] = ctx[t]
  BY <1>1, <1>2, <1>4
<1> HIDE DEF A, A2, r2, ctx2
<1>7. Holders(A2, r2, FALSE, ctx2, {}) \subseteq Holders(A, r, on, ctx, {})
  <2>1. SUFFICES ASSUME NEW t \in Holders(A2, r2, FALSE, ctx2, {})
                 PROVE  t \in Holders(A, r, on, ctx, {})
    OBVIOUS
  <2>2. t \in A /\ ctx2[t] \in {"lock", "wait", "signal"}
    BY <1>5, <2>1 DEF Holders
  <2>3. CASE t = r
    BY <1>1, <2>2, <2>3 DEF Holders
  <2>4. CASE t # r
    <3>1. ctx[t] \in {"lock", "wait"}
      BY <1>1, <1>6, <2>2, <2>4
    <3> QED
      BY <2>2, <3>1 DEF Holders
  <2> QED
    BY <2>3, <2>4
<1>8. Holders(Able', running', interrupts_enabled', context', {}) \subseteq Passed
  BY <1>4, <1>7 DEF A, A2, r2, ctx2, Passed
<1> QED
  BY <1>2, <1>8, StaysPut

(* lock() gets the lock only while it is free, and then nobody is owed it. *)
LEMMA LockInOrder ==
  ASSUME HoareState, HolderKnown, HolderKnown', lock
  PROVE  KeepsOrder
<1>1. UNCHANGED <<nextThreadToWakeUp, wake_up_order, priority, blocked>> /\ interrupts_enabled
  BY DEF lock, condVars, queues, Outside, Calling, InUserCode
<1>2. CASE taken
  <2>1. switchThreads(ready, "lock") /\ inside' = inside
    BY <1>2 DEF lock
  <2>2. ASSUME proc' = "alive" PROVE HasLock' \subseteq HasLock
    <3> DEFINE c == "lock"
    <3>1. c \in {"lock", "wait"} /\ c = "lock" /\ switchThreads(ready, c)
      BY <2>1
    <3> HIDE DEF c
    <3> QED
      BY <1>1, <2>1, <2>2, <3>1, BlockInOrder
  <2> QED
    BY <1>1, <2>2, LeftInOrder
<1>3. CASE ~taken
  <2>1. value = 0
    BY <1>3, LockFacts DEF taken, HoareState
  <2>2. nextThreadToWakeUp = Null /\ Idle(wake_up_order)
    BY <2>1, HoareFacts
  <2>3. Owed = << >>
    BY <2>2, NothingOwed
  <2> QED
    BY <1>1, <2>3, LeftInOrder
<1> QED
  BY <1>2, <1>3

(* unlock() and wait() hand the lock to the first thread that is owed it.  *)
LEMMA HandBackInOrder ==
  ASSUME HoareState, HolderKnown, HolderKnown', running \in inside, interrupts_enabled,
         NEW c \in {"unlock", "wait_unlock"}, HandBack(c), UNCHANGED <<wake_up_order, blocked>>
  PROVE  KeepsOrder
<1> DEFINE wo == wake_up_order
           n == nextThreadToWakeUp
           r == running
           A == Able
           S == Asleep
           ctx == context
           ctx2 == context'
           A2 == Able'
<1>1. /\ n # Null /\ nextThreadToWakeUp' = Null /\ running' = n
      /\ ready' = addToReady(ready, priority, r)
      /\ ctx2 = [ctx EXCEPT ![r] = c] /\ interrupts_enabled' = FALSE
      /\ UNCHANGED proc
  BY DEF HandBack, switchToThread
<1>2. n \in Tids /\ wo \in [CondVars -> Seq(Tids)] /\ OneOrder(wo)
  BY <1>1, HoareFacts DEF HoareState, LockState, MonitorTypeOK, Promised, InTurn, OneOrder
<1>3. Owed = OwedBy(n, wo) /\ Owed' = OwedBy(Null, wo)
  BY <1>1 DEF Owed, OwedBy, Notified
<1>4. /\ OwedBy(n, wo) # << >> /\ Head(OwedBy(n, wo)) = n
      /\ OwedBy(Null, wo) = Tail(OwedBy(n, wo))
  BY <1>2, OwedTail
<1>5. /\ A \in SUBSET Tids /\ r \in Tids /\ ctx \in [Tids -> Contexts]
      /\ r \notin A /\ r \notin S /\ A = QueuedIn(ready) \cup blocked
      /\ \A t \in S : /\ ctx[t] \in {"wait", "wait_unlock", "signal"}
                      /\ t \in A \cup {r} <=> ctx[t] = "wait_unlock"
  BY LockFacts DEF HoareState, Lawful, Places
<1>6. n \in S /\ n # r
  BY <1>1, <1>5 DEF Asleep, Sleepers
<1>7. A2 = A \cup {r}
  <2>1. priority \in [Tids -> Priorities] /\ Sorted(ready, priority) /\ r \notin QueuedIn(ready)
    BY <1>5 DEF HoareState, LockState, Base, TypeOK
  <2>2. QueuedIn(ready') = QueuedIn(ready) \cup {r}
    BY <1>1, <1>5, <2>1, ReadyAdd
  <2>3. A2 = QueuedIn(ready') \cup blocked
    BY DEF Able, QueuedIn
  <2> QED
    BY <1>5, <2>2, <2>3
<1>8. ctx2[n] = ctx[n]
  BY <1>1, <1>2, <1>5, <1>6
<1>9. proc = "alive" /\ proc' = "alive"
  BY <1>1 DEF HoareState, LockState
<1>10. n \in HasLock'
  <2>1. HasLock' = Holders(A2, n, FALSE, ctx2, inside')
    BY <1>1, <1>9 DEF HolderKnown
  <2> HIDE DEF A, S, A2, ctx2
  <2>2. n \in Holders(A2, n, FALSE, ctx2, inside')
    BY <1>5, <1>6, <1>7, <1>8 DEF Holders
  <2> QED
    BY <2>1, <2>2
<1>11. HasLock' = {n}
  <2>1. Token(HasLock', value')
    BY <1>9 DEF HolderKnown
  <2> QED
    BY <1>10, <2>1 DEF Token
<1> QED
  BY <1>1, <1>2, <1>3, <1>4, <1>11 DEF KeepsOrder, HonoursOwed

(* A lock that is released instead is owed to nobody.                      *)
LEMMA ReleaseInOrder ==
  ASSUME HoareState, running \in inside, Release, wake_up_order' = wake_up_order
  PROVE  KeepsOrder
<1>1. nextThreadToWakeUp = Null /\ nextThreadToWakeUp' = Null
  BY DEF Release
<1>2. Idle(wake_up_order)
  BY <1>1, HoareFacts DEF Promised
<1>3. Owed = << >>
  BY <1>1, <1>2, NothingOwed
<1> QED
  BY <1>1, <1>3, LeftInOrder

(* The threads a signal or broadcast wakes, and last its caller, are owed  *)
(* the lock from now on, when nobody was before.                           *)
LEMMA NotifyInOrder ==
  ASSUME NestedSignals = FALSE, HoareState, NEW c \in CondVars, NEW woken \in Seq(Tids),
         NEW remaining, Notify(c, woken, remaining), running \in inside
  PROVE  /\ running' = Head(cond_var_waiting_queue[c])
         /\ OneOrder(wake_up_order')
         /\ Owed = << >> /\ Owed' = woken
<1> DEFINE wo == wake_up_order
           wo2 == [wo EXCEPT ![c] = wo[c] \o woken]
<1>1. /\ nextThreadToWakeUp = Null /\ nextThreadToWakeUp' = Null /\ wake_up_order' = wo2
      /\ running' = Head(cond_var_waiting_queue[c])
  BY DEF Notify, lockVars, switchToThread
<1>2. wo \in [CondVars -> Seq(Tids)] /\ Idle(wo)
  BY <1>1, HoareFacts DEF Promised
<1>3. /\ wo2 \in [CondVars -> Seq(Tids)] /\ wo2[c] = woken
      /\ \A d \in CondVars \ {c} : wo2[d] = << >>
  <2>1. wo[c] = << >> /\ << >> \o woken = woken
    BY <1>2 DEF Idle
  <2> QED
    BY <1>2, <2>1 DEF Idle
<1> HIDE DEF wo2
<1>4. OneOrder(wo2)
  BY <1>3 DEF OneOrder
<1>5. Owed = OwedBy(Null, wo) /\ Owed' = OwedBy(Null, wo2)
  BY <1>1 DEF Owed, OwedBy, Notified
<1>6. OwedBy(Null, wo) = << >> /\ OwedBy(Null, wo2) = woken
  BY <1>2, <1>3, <1>4, OwedIdle, OwedOrder
<1> QED
  BY <1>1, <1>4, <1>5, <1>6

(* signal() hands the lock to the first waiting thread.                    *)
LEMMA SignalInOrder ==
  ASSUME NestedSignals = FALSE, HoareState, NEW c \in CondVars, signal(c)
  PROVE  /\ HandsOver(<<Head(cond_var_waiting_queue[c])>>)
         /\ OneOrder(wake_up_order') /\ Owed = << >>
<1> DEFINE woken == <<running>>
           q == cond_var_waiting_queue[c]
           remaining == Tail(q)
<1>1. running \in inside /\ Notify(c, woken, remaining) /\ q # << >>
  BY DEF signal, Inside, Notify
<1>2. running \in Tids /\ woken \in Seq(Tids)
  BY LockFacts DEF HoareState
<1>3. q \in Seq(Tids) /\ Head(q) \in Tids
  BY <1>1, HoareFacts
<1>4. <<Head(q)>> \o woken = Append(<<Head(q)>>, running)
  BY <1>2, <1>3
<1> HIDE DEF woken, remaining
<1>5. running' = Head(q) /\ OneOrder(wake_up_order') /\ Owed = << >> /\ Owed' = woken
  BY <1>1, <1>2, NotifyInOrder
<1> QED
  BY <1>4, <1>5 DEF HandsOver

(* broadcast() hands it to all of them, in the order of their queue.       *)
LEMMA BroadcastInOrder ==
  ASSUME NestedSignals = FALSE, HoareState, NEW c \in CondVars, broadcast(c)
  PROVE  /\ HandsOver(cond_var_waiting_queue[c])
         /\ OneOrder(wake_up_order') /\ Owed = << >>
<1> DEFINE q == cond_var_waiting_queue[c]
           woken == Append(Tail(q), running)
           remaining == << >>
<1>1. running \in inside /\ Notify(c, woken, remaining) /\ q # << >>
  BY DEF broadcast, broadcast_order, Inside, Notify
<1>2. running \in Tids /\ q \in Seq(Tids)
  BY LockFacts, HoareFacts DEF HoareState
<1>3. woken \in Seq(Tids) /\ <<Head(q)>> \o woken = Append(q, running)
  <2>1. Tail(q) \in Seq(Tids) /\ Head(q) \in Tids
    BY <1>1, <1>2
  <2>2. Append(Tail(q), running) \in Seq(Tids)
    BY <1>2, <2>1
  <2>3. <<Head(q)>> \o Append(Tail(q), running) = Append(q, running)
    <3> DEFINE first == <<Head(q)>>
               rest == Tail(q)
               last == <<running>>
    <3>1. /\ Append(Tail(q), running) = rest \o last
          /\ Append(q, running) = q \o last
      BY <1>2, <2>1, AppendIsConcat
    <3>2. first \in Seq(Tids) /\ rest \in Seq(Tids) /\ last \in Seq(Tids) /\ q = first \o rest
      BY <1>1, <1>2, <2>1
    <3> HIDE DEF first, rest, last
    <3>3. (first \o rest) \o last = first \o (rest \o last)
      BY <3>2, ConcatAssociative
    <3>4. first \o Append(Tail(q), running) = Append(q, running)
      BY <3>1, <3>2, <3>3, Zenon
    <3> QED
      BY <3>4 DEF first
  <2> QED
    BY <2>2, <2>3
<1> HIDE DEF woken, remaining
<1>4. running' = Head(q) /\ OneOrder(wake_up_order') /\ Owed = << >> /\ Owed' = woken
  BY <1>1, <1>2, <1>3, NotifyInOrder
<1> QED
  BY <1>3, <1>4 DEF HandsOver

(* A woken thread names the next one; the order in which the lock is owed  *)
(* stays as it is.                                                         *)
LEMMA WaitResumedInOrder ==
  ASSUME HoareState, HolderKnown, HolderKnown', wait_resumed
  PROVE  KeepsOrder
<1> DEFINE wo == wake_up_order
           r == running
           c == waits_on[r]
           n == nextThreadToWakeUp
           wo2 == [wo EXCEPT ![c] = Tail(wo[c])]
<1>1. ~interrupts_enabled /\ context[r] = "wait" /\ proc = "alive"
  BY DEF wait_resumed, Back
<1>2. r \in Passed
  BY <1>1 DEF Passed, Holders
<1>3. /\ wo \in [CondVars -> Seq(Tids)] /\ r \in Tids /\ c \in CondVars
      /\ OneOrder(wo) /\ wo[c] # << >>
  <2>1. r \in Tids /\ WaitsKnown(context, waits_on)
    BY LockFacts DEF HoareState, LockState, MonitorParts
  <2> QED
    BY <1>1, <1>2, <2>1, HoareFacts DEF WaitsKnown, Promised, InTurn, OneOrder, Owes
<1>4. n = Null
  <2>1. Lawful(Able, r, interrupts_enabled, context, inside, ToSet(waiting_queue), Asleep,
               value, lock_count)
    BY LockFacts DEF HoareState
  <2>2. r \notin inside
    BY <1>1, <2>1 DEF Lawful, Places
  <2>3. r \in Holders(Able, r, interrupts_enabled, context, inside)
    BY <1>1 DEF Holders
  <2>4. inside \subseteq Holders(Able, r, interrupts_enabled, context, inside)
    BY DEF Holders
  <2>5. inside = {}
    BY <2>1, <2>2, <2>3, <2>4 DEF Lawful, Token
  <2> QED
    BY <2>5, HoareFacts DEF Promised
<1>5. nextThreadToWakeUp' = Head(wo[c]) /\ wake_up_order' = wo2
  BY <1>3 DEF wait_resumed, next_to_wake
<1>6. /\ wo[c] \in Seq(Tids) /\ Head(wo[c]) \in Tids /\ Tail(wo[c]) \in Seq(Tids)
      /\ <<Head(wo[c])>> \o Tail(wo[c]) = wo[c]
  BY <1>3
<1>7. /\ wo2 \in [CondVars -> Seq(Tids)] /\ wo2[c] = Tail(wo[c])
      /\ \A d \in CondVars \ {c} : wo[d] = << >> /\ wo2[d] = << >>
  BY <1>3, <1>6 DEF OneOrder
<1> HIDE DEF wo2
<1>8. OneOrder(wo2)
  BY <1>7 DEF OneOrder
<1>9. Owed = OwedBy(Null, wo) /\ Owed' = OwedBy(Head(wo[c]), wo2)
  BY <1>4, <1>5 DEF Owed, OwedBy, Notified
<1>10. OwedBy(Null, wo) = wo[c]
  BY <1>3, <1>7, OwedOrder
<1>11. OwedBy(Head(wo[c]), wo2) = <<Head(wo[c])>> \o wo2[c]
  BY <1>3, <1>6, <1>7, <1>8, OwedOrder
<1>12. Owed' = Owed
  BY <1>6, <1>7, <1>9, <1>10, <1>11
<1>13. HasLock' \subseteq HasLock
  <2>1. inside' = inside \cup {r} /\ proc' = "alive"
    BY <1>1, <1>3 DEF wait_resumed, Enter
  <2> QED
    BY <1>1, <2>1, ReturnsWithLock
<1> QED
  BY <1>5, <1>8, <1>12, <1>13 DEF KeepsOrder, HonoursOwed

(* Every other step keeps the order.                                       *)
LEMMA OtherStepsInOrder ==
  ASSUME NestedSignals = FALSE, HoareState, HolderKnown, HolderKnown', Next,
         \A c \in CondVars : ~signal(c) /\ ~broadcast(c)
  PROVE  KeepsOrder
<1>1. proc = "alive"
  BY DEF HoareState, LockState
<1>2. CASE ThreadStep
  BY <1>2, ThreadStepInOrder
<1>3. CASE lock
  BY <1>3, LockInOrder
<1>4. CASE lock_resumed \/ signal_resumed
  <2>1. /\ UNCHANGED <<nextThreadToWakeUp, wake_up_order, proc>> /\ ~interrupts_enabled
        /\ context[running] \in {"lock", "signal", "wait"} /\ inside' = inside \cup {running}
    BY <1>4 DEF lock_resumed, signal_resumed, Back, Enter, lockVars, condVars
  <2>2. HasLock' \subseteq HasLock
    BY <1>1, <2>1, ReturnsWithLock
  <2> QED
    BY <2>1, <2>2, LeftInOrder
<1>5. CASE unlock_resumed
  <2>1. /\ UNCHANGED <<nextThreadToWakeUp, wake_up_order, proc, ready, blocked, running,
                       context, inside>>
        /\ interrupts_enabled' = TRUE
    BY <1>5 DEF unlock_resumed, monitorVars, lockVars, condVars, queues
  <2>2. Able' = Able
    BY <2>1 DEF Able, QueuedIn
  <2>3. Holders(Able, running, TRUE, context, {}) \subseteq Passed
    BY DEF Holders, Passed
  <2>4. HasLock' \subseteq HasLock
    BY <1>1, <2>1, <2>2, <2>3, StaysPut
  <2> QED
    BY <2>1, <2>4, LeftInOrder
<1>6. CASE unlock
  <2>1. /\ UNCHANGED <<wake_up_order, blocked>> /\ running \in inside /\ interrupts_enabled
    BY <1>6 DEF unlock, condVars, queues, Inside, Calling, InUserCode
  <2>2. CASE HandBack("unlock")
    BY <2>1, <2>2, HandBackInOrder
  <2>3. CASE Release
    BY <2>1, <2>3, ReleaseInOrder
  <2> QED
    BY <1>6, <2>2, <2>3 DEF unlock
<1>7. ASSUME NEW c \in CondVars, wait(c) PROVE KeepsOrder
  <2>1. /\ UNCHANGED <<wake_up_order, blocked>> /\ running \in inside /\ interrupts_enabled
    BY <1>7 DEF wait, queues, Inside, Calling, InUserCode
  <2>2. CASE HandBack("wait_unlock")
    BY <2>1, <2>2, HandBackInOrder
  <2>3. CASE Release
    BY <2>1, <2>3, ReleaseInOrder
  <2> QED
    BY <1>7, <2>2, <2>3 DEF wait
<1>8. CASE wait_unlocked
  <2>1. /\ UNCHANGED <<nextThreadToWakeUp, wake_up_order, priority, blocked, inside>>
        /\ ~interrupts_enabled /\ context[running] = "wait_unlock"
        /\ switchThreads(ready, "wait")
    BY <1>8 DEF wait_unlocked, Back, monitorVars, lockVars, condVars, queues
  <2>2. ASSUME proc' = "alive" PROVE HasLock' \subseteq HasLock
    <3> DEFINE c == "wait"
    <3>1. c \in {"lock", "wait"} /\ c # "lock" /\ switchThreads(ready, c)
      BY <2>1
    <3> HIDE DEF c
    <3> QED
      BY <2>1, <2>2, <3>1, BlockInOrder
  <2> QED
    BY <2>1, <2>2, LeftInOrder
<1>9. CASE wait_resumed
  BY <1>9, WaitResumedInOrder
<1> QED
  BY <1>2, <1>3, <1>4, <1>5, <1>6, <1>7, <1>8, <1>9 DEF Next

\* What every step may do to the order in which the lock is owed.
GrantsInOrder ==
  /\ OneOrder(wake_up_order')
  /\ \A c \in CondVars :
       /\ signal(c) => HandsOver(<<Head(cond_var_waiting_queue[c])>>)
       /\ broadcast(c) => HandsOver(cond_var_waiting_queue[c])
  /\ Owed # << >> /\ proc' = "alive" => HonoursOwed
  /\ Owed = << >> /\ Owed' # << >> => \E c \in CondVars : signal(c) \/ broadcast(c)

(* Every step respects the order.                                          *)
LEMMA StepInOrder ==
  ASSUME NestedSignals = FALSE, HoareInv, HolderKnown, HolderKnown', Next
  PROVE  GrantsInOrder
<1>1. HoareState
  BY NextAlive DEF HoareInv, LockInv, LockState, HoareState
<1>2. CASE \A c \in CondVars : ~signal(c) /\ ~broadcast(c)
  BY <1>1, <1>2, OtherStepsInOrder DEF GrantsInOrder, KeepsOrder
<1>3. ASSUME NEW c \in CondVars, signal(c) \/ broadcast(c)
      PROVE  OneOrder(wake_up_order') /\ Owed = << >>
  BY <1>1, <1>3, SignalInOrder, BroadcastInOrder
<1>4. \A c \in CondVars :
        /\ signal(c) => HandsOver(<<Head(cond_var_waiting_queue[c])>>)
        /\ broadcast(c) => HandsOver(cond_var_waiting_queue[c])
  BY <1>1, SignalInOrder, BroadcastInOrder
<1> QED
  BY <1>2, <1>3, <1>4 DEF GrantsInOrder

(* Hoare semantics, when a woken thread unlocks or waits before it signals *)
(* itself: signal() and broadcast() hand the lock to the waiting threads   *)
(* in the order of their queue and last back to the caller, and while a    *)
(* thread is owed the lock nobody but the first of them gets it.           *)
THEOREM LockIsOwedInOrder ==
  ASSUME NestedSignals = FALSE PROVE MonitorSpec => OwedInOrder
<1>1. HoareInv => HolderKnown
  BY HolderIsKnown
<1>2. HoareInv /\ HolderKnown /\ HolderKnown' /\ [Next]_vars =>
        [/\ \A c, d \in CondVars :
              wake_up_order'[c] # << >> /\ wake_up_order'[d] # << >> => c = d
         /\ \A c \in CondVars :
              /\ signal(c) => HandsOver(<<Head(cond_var_waiting_queue[c])>>)
              /\ broadcast(c) => HandsOver(cond_var_waiting_queue[c])
         /\ Owed # << >> /\ proc' = "alive" => HonoursOwed
         /\ Owed = << >> /\ Owed' # << >> =>
              \E c \in CondVars : signal(c) \/ broadcast(c)]_vars
  BY StepInOrder DEF GrantsInOrder, OneOrder
<1> QED
  BY <1>1, <1>2, HandOffSound, PTL DEF MonitorSpec, OwedInOrder

=============================================================================
