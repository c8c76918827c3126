------------------------------ MODULE UThread ------------------------------
(***************************************************************************)
(* project_2/uthread.cpp: user-level threads on one processor.  A library  *)
(* call runs with the timer signal blocked, from disableInterrupts to      *)
(* enableInterrupts, and is one action up to the point where it switches   *)
(* threads; what the resumed thread still has to do inside its own call    *)
(* (its saved context) is a second action, taken before interrupts are     *)
(* enabled again.  Several calls look at the thread table BEFORE they      *)
(* disable interrupts: there the check is an action of its own, and the    *)
(* timer may switch threads between the check and the call's body.         *)
(*                                                                         *)
(* TCB::_state and the quantum counters are written and never read; they   *)
(* are left out.                                                           *)
(***************************************************************************)
EXTENDS Integers, FiniteSets, SequencesExt

CONSTANTS
  MaxThreads,    \* MAX_THREAD_NUM
  LastTid,       \* bound: threads have ids 0 .. LastTid
  StartThreads,  \* the threads that exist when the program gets going
  StartPriority, \* and the priorities the main thread has given them
  Calls          \* Calls[t]: the library calls the code of thread t makes

RED == 0
ORANGE == 1
GREEN == 2
Priorities == {RED, ORANGE, GREEN}

MAIN_THREAD == 0
Tids == 0 .. LastTid

OpNames == {"create", "join", "yield", "exit", "suspend", "resume",
            "increase_priority", "decrease_priority"}

ASSUME UThreadAssumption ==
  /\ MaxThreads \in Nat \ {0}
  /\ LastTid \in Nat
  /\ MAIN_THREAD \in StartThreads
  /\ StartThreads \subseteq Tids
  /\ DOMAIN Calls = Tids
  /\ StartPriority \in [Tids -> Priorities]

Freed == -1      \* a TCB pointer whose TCB has been deleted
NoBoosts == -1   \* no entry in numBoosts
NoCall == [op |-> "none", tid |-> 0]

\* Where a thread is inside a call when it is switched out; the last five
\* are the calls of Lock and CondVar.
Contexts == {"stub", "yield", "suspend", "join", "exit",
             "lock", "unlock", "wait_unlock", "wait", "signal"}

VARIABLES
  threads,             \* ids in _threads with a TCB
  null_tcbs,           \* ids that _threads[tid] has added with a null TCB
  priority,            \* TCB::_pr
  lock_count,          \* TCB::_lock_count
  ready,               \* the three ready queues
  running,
  blocked,             \* suspended threads; the code only searches it
  join_queue,          \* <<thread, awaited id>> pairs in order
  finished_queue,      \* terminated, not joined; the code only searches it
  numBoosts,
  lowPriorityToBeBoosted, medPriorityToBeBoosted,
  interrupts_enabled,
  call,                \* the call a thread is in, past its unlocked check
  context,             \* where a thread continues when it is switched to
  proc                 \* "alive", "exited", or how the process died

table    == <<threads, null_tcbs>>
boosting == <<numBoosts, lowPriorityToBeBoosted, medPriorityToBeBoosted>>
queues   == <<blocked, join_queue, finished_queue>>
uthreadVars == <<table, priority, lock_count, ready, running, queues,
                 boosting, interrupts_enabled, call, context, proc>>

\* The workers of a priority, in the order they were created.
Workers(p) == {t \in StartThreads \ {MAIN_THREAD} : StartPriority[t] = p}
StartQueue(p) ==
  CHOOSE q \in [1 .. Cardinality(Workers(p)) -> Workers(p)] :
    \A i, j \in DOMAIN q : i < j => q[i] < q[j]

\* uthread_init, then one uthread_create and the priority calls per worker.
Init ==
  /\ threads = StartThreads
  /\ null_tcbs = {}
  /\ priority = StartPriority
  /\ lock_count = [t \in Tids |-> 0]
  /\ ready = [p \in Priorities |-> StartQueue(p)]
  /\ running = MAIN_THREAD
  /\ blocked = {}
  /\ join_queue = << >>
  /\ finished_queue = {}
  /\ numBoosts = [t \in Tids |-> NoBoosts]
  /\ lowPriorityToBeBoosted = {}
  /\ medPriorityToBeBoosted = {}
  /\ interrupts_enabled = TRUE
  /\ call = [t \in Tids |-> NoCall]
  /\ context = [t \in Tids |-> "stub"]
  /\ proc = "alive"
-----------------------------------------------------------------------------
(* The scheduler.                                                          *)

\* Mutant: a thread is put back in front of the others.
addToReadyFront(rdy, prs, t) == [rdy EXCEPT ![prs[t]] = <<t>> \o @]
addToReady(rdy, prs, t) == [rdy EXCEPT ![prs[t]] = Append(@, t)]

isReady(rdy, prs, t) == Contains(rdy[prs[t]], t)

\* Mutant: the thread is found but not erased.
removeFromReadyKept(rdy, prs, t) == rdy
removeFromReady(rdy, prs, t) == [rdy EXCEPT ![prs[t]] = RemoveFirst(@, t)]

\* getcontext saves where the running thread goes on; next runs with
\* interrupts still disabled.
switchToThread(next, c) ==
  /\ running' = next
  /\ context' = [context EXCEPT ![running] = c]
  /\ interrupts_enabled' = FALSE

\* Mutant: only the default priority's queue is examined.
NothingReadyOrange(rdy) == rdy[ORANGE] = << >>
NothingReady(rdy) == \A p \in Priorities : rdy[p] = << >>

Highest(rdy) == CHOOSE p \in Priorities :
                  /\ rdy[p] # << >>
                  /\ \A q \in Priorities : rdy[q] # << >> => p <= q

\* popReady, and its assert that there is a thread to run.
switchThreads(rdy, c) ==
  IF NothingReady(rdy)
    THEN /\ proc' = "no_ready"
         /\ ready' = rdy
         /\ UNCHANGED <<running, context, interrupts_enabled>>
    ELSE /\ switchToThread(Head(rdy[Highest(rdy)]), c)
         /\ ready' = [rdy EXCEPT ![Highest(rdy)] = Tail(@)]
         /\ UNCHANGED proc

InUserCode == proc = "alive" /\ interrupts_enabled

\* The running thread may make the call: it is in no other call.
Calling(op) ==
  /\ InUserCode
  /\ call[running] = NoCall
  /\ op \in Calls[running]

\* The running thread is past the unlocked check of the call.
Checked(op) == InUserCode /\ call[running].op = op

Return == call' = [call EXCEPT ![running] = NoCall]

Die(cause) ==
  /\ proc' = cause
  /\ UNCHANGED <<table, priority, lock_count, ready, running, queues,
                 boosting, interrupts_enabled, call, context>>
-----------------------------------------------------------------------------
(* Creation, termination and join.                                         *)

known == threads \cup null_tcbs

getNextId == CHOOSE i \in 0 .. LastTid + 1 :
               i \notin known /\ \A j \in 0 .. i - 1 : j \in known

uthread_create_check ==
  /\ Calling("create")
  /\ Cardinality(known) # MaxThreads
  /\ getNextId \in Tids
  /\ call' = [call EXCEPT ![running] = [op |-> "create", tid |-> 0]]
  /\ UNCHANGED <<table, priority, lock_count, ready, running, queues,
                 boosting, interrupts_enabled, context, proc>>

uthread_create ==
  /\ Checked("create")
  /\ getNextId \in Tids
  /\ LET tid == getNextId IN
       /\ threads' = threads \cup {tid}
       /\ priority' = [priority EXCEPT ![tid] = ORANGE]
       /\ lock_count' = [lock_count EXCEPT ![tid] = 0]
       /\ context' = [context EXCEPT ![tid] = "stub"]
       /\ ready' = addToReady(ready, priority', tid)
       /\ call' = [call EXCEPT ![tid] = NoCall, ![running] = NoCall]
  /\ UNCHANGED <<null_tcbs, running, queues, boosting, interrupts_enabled, proc>>

Forget(set, tid) ==
  IF tid \in set THEN (set \ {tid}) \cup {Freed} ELSE set

\* removeFromFinished deletes the TCB; pointers to it dangle in the boosting
\* sets and in a priority call that has already looked the thread up.
removeFromFinished(tid) ==
  /\ threads' = threads \ {tid}
  /\ finished_queue' = finished_queue \ {tid}
  /\ lowPriorityToBeBoosted' = Forget(lowPriorityToBeBoosted, tid)
  /\ medPriorityToBeBoosted' = Forget(medPriorityToBeBoosted, tid)
  /\ call' = [t \in Tids |->
                IF t = running THEN NoCall
                ELSE IF call[t].tid = tid
                        /\ call[t].op \in {"increase_priority",
                                           "decrease_priority"}
                  THEN [call[t] EXCEPT !.tid = Freed]
                ELSE call[t]]
  /\ UNCHANGED numBoosts

uthread_join(tid) ==
  /\ Calling("join")
  /\ IF tid \in finished_queue
       THEN /\ removeFromFinished(tid)
            /\ UNCHANGED <<ready, running, context, interrupts_enabled,
                           join_queue, proc>>
       ELSE /\ join_queue' = Append(join_queue, <<running, tid>>)
            /\ call' = [call EXCEPT ![running] = [op |-> "join", tid |-> tid]]
            /\ switchThreads(ready, "join")
            /\ UNCHANGED <<threads, finished_queue, boosting>>
  /\ UNCHANGED <<null_tcbs, priority, lock_count, blocked>>

\* A joining thread is switched to: the join must find the thread finished.
uthread_join_resumed ==
  /\ proc = "alive" /\ ~interrupts_enabled /\ context[running] = "join"
  /\ IF call[running].tid \in finished_queue
       THEN /\ removeFromFinished(call[running].tid)
            /\ interrupts_enabled' = TRUE
            /\ UNCHANGED <<null_tcbs, priority, lock_count, ready, running,
                           blocked, join_queue, context, proc>>
       ELSE Die("join_assert")

\* Mutant: the entry is searched by the joining thread, not the awaited one.
JoinedBySelf(entry, tid) == entry[1] = tid
JoinedBy(entry, tid) == entry[2] = tid

\* One round of the loop: the joiner is made ready and its entry erased.
JoinRound(s, e, tid) ==
  IF JoinedBy(e, tid) THEN [s EXCEPT !.ready = addToReady(@, priority, e[1])]
                      ELSE [s EXCEPT !.kept = Append(@, e)]

moveFromJoinToReady(tid) ==
  LET after[k \in 0 .. Len(join_queue)] ==
        IF k = 0 THEN [ready |-> ready, kept |-> << >>]
                 ELSE JoinRound(after[k - 1], join_queue[k], tid)
  IN after[Len(join_queue)]

uthread_exit ==
  /\ Calling("exit")
  /\ IF running = MAIN_THREAD
       THEN /\ call' = [call EXCEPT ![running] = [op |-> "exit", tid |-> 0]]
            /\ UNCHANGED <<table, priority, lock_count, ready, running,
                           queues, boosting, interrupts_enabled, context, proc>>
       ELSE /\ join_queue' = moveFromJoinToReady(running).kept
            /\ finished_queue' = finished_queue \cup {running}
            /\ switchThreads(moveFromJoinToReady(running).ready, "exit")
            /\ UNCHANGED <<table, priority, lock_count, blocked, boosting,
                           call>>

\* The main thread has deleted every TCB, with interrupts enabled.
uthread_exit_main == Checked("exit") /\ Die("exited")
-----------------------------------------------------------------------------
(* Priority boosting of preempted lock holders, part of every yield.       *)

Boost == [priority |-> priority, ready |-> ready, numBoosts |-> numBoosts,
          low |-> lowPriorityToBeBoosted, med |-> medPriorityToBeBoosted]

\* Mutant: a GREEN thread is lowered further.
decreasePriorityUnchecked(p) == p + 1
decreasePriority(p) == IF p = GREEN THEN GREEN ELSE p + 1
increasePriority(p) == IF p = RED THEN RED ELSE p - 1

isHigherPriorityThreadPresent ==
  \E p \in Priorities : p < priority[running] /\ ready[p] # << >>

\* getBoostingStructureForPriority picks the set of the running thread.
Enroll(b) == IF b.priority[running] = GREEN
               THEN [b EXCEPT !.low = @ \cup {running}]
               ELSE [b EXCEPT !.med = @ \cup {running}]
Unenroll(b) == IF b.priority[running] = GREEN
                 THEN [b EXCEPT !.low = @ \ {running}]
                 ELSE [b EXCEPT !.med = @ \ {running}]

\* A thread that was boosted and is no longer held up gives one level back.
\* Mutant: the record of the boosts is dropped but the priority is kept.
GiveBackRecordOnly(b) == [b EXCEPT !.numBoosts[running] = NoBoosts]
GiveBack(b) ==
  LET n == b.numBoosts[running] IN
    IF n = NoBoosts THEN b
    ELSE [b EXCEPT !.priority[running] =
                      IF n # 0 THEN decreasePriority(@) ELSE @,
                   !.numBoosts[running] = IF n <= 1 THEN NoBoosts ELSE n - 1]

check_and_update_boost_structures(b) ==
  LET n == b.numBoosts[running] IN
    IF b.priority[running] = RED /\ n = NoBoosts THEN b
    ELSE IF lock_count[running] > 0 /\ isHigherPriorityThreadPresent
      THEN Enroll([b EXCEPT !.numBoosts[running] = IF n = NoBoosts THEN 0 ELSE n])
    ELSE Unenroll(GiveBack(b))

\* _uthread_increase_priority moves a ready thread to its new queue.
\* Mutant: a ready thread stays in its old queue.
RaisePriorityInPlace(b, t) ==
  [b EXCEPT !.priority[t] = increasePriority(@)]
RaisePriority(b, t) ==
  LET raised == [b.priority EXCEPT ![t] = increasePriority(@)] IN
    [b EXCEPT !.priority = raised,
              !.ready = IF isReady(@, b.priority, t)
                          THEN addToReady(removeFromReady(@, b.priority, t),
                                          raised, t)
                          ELSE @]

\* One round of boosting_logic for the set named which.
BoostOne(b, t, which) ==
  LET r == RaisePriority(b, t)
      s == [r EXCEPT !.numBoosts[t] = IF @ = NoBoosts THEN 1 ELSE @ + 1,
                     !.med = IF r.priority[t] = ORANGE THEN @ \cup {t} ELSE @]
  IN IF which = "med" THEN [s EXCEPT !.med = @ \ {t}]
                      ELSE [s EXCEPT !.low = @ \ {t}]

\* The loop advances an iterator that erase has invalidated: after a boost
\* it may end, or go on to further threads of the unordered set.  count
\* starts at 1, so a quota of one never stops it once a thread is boosted.
boosting_choices(set, percent) ==
  LET quota == IF Cardinality(set) > percent
                 THEN Cardinality(set) \div percent ELSE 1
      holders == {t \in set \ {Freed} : lock_count[t] # 0}
  IN {B \in SUBSET holders :
        IF quota = 1 THEN B = {} => holders # set \/ set = {}
        ELSE (B = {} => holders = {}) /\ Cardinality(B) < quota}

boosting_logic(b, which, order) ==
  LET after[k \in 0 .. Len(order)] ==
        IF k = 0 THEN b ELSE BoostOne(after[k - 1], order[k], which)
  IN after[Len(order)]

\* The states boost_lp_lock_holding_threads can leave: medium, then low.
boosted_states ==
  LET b0 == check_and_update_boost_structures(Boost)
      afterMed == {boosting_logic(b0, "med", order) :
                     order \in UNION {SetToSeqs(B) :
                                        B \in boosting_choices(b0.med, 20)}}
  IN UNION {{boosting_logic(b1, "low", order) :
               order \in UNION {SetToSeqs(B) :
                                  B \in boosting_choices(b1.low, 10)}}
            : b1 \in afterMed}

\* What boosting_logic can die of: it follows a pointer to a deleted TCB,
\* or the iterator it has invalidated leads nowhere.
BoostingFault ==
  LET b0 == check_and_update_boost_structures(Boost)
      set == b0.low \cup b0.med
  IN IF Freed \in set THEN "freed_boost"
     ELSE IF \E t \in set : lock_count[t] # 0 THEN "bad_iterator" ELSE "none"

yield_body ==
  \/ /\ call[running].op = "exit"
     /\ Die("freed_running")
  \/ /\ BoostingFault # "none"
     /\ call[running].op # "exit"
     /\ Die(BoostingFault)
  \/ \E b \in boosted_states :
       /\ call[running].op # "exit"
       /\ priority' = b.priority
       /\ numBoosts' = b.numBoosts
       /\ lowPriorityToBeBoosted' = b.low
       /\ medPriorityToBeBoosted' = b.med
       /\ switchThreads(addToReady(b.ready, b.priority, running), "yield")
       /\ UNCHANGED <<table, lock_count, queues, call>>

uthread_yield == Calling("yield") /\ yield_body

\* The timer signal may arrive whenever interrupts are enabled.
timeHandler == InUserCode /\ yield_body

\* A thread that was only switched out enables interrupts and goes on.
resumed ==
  /\ proc = "alive" /\ ~interrupts_enabled
  /\ context[running] \in {"stub", "yield", "suspend"}
  /\ interrupts_enabled' = TRUE
  /\ call' = IF context[running] = "suspend"
               THEN [call EXCEPT ![running] = NoCall] ELSE call
  /\ UNCHANGED <<table, priority, lock_count, ready, running, queues,
                 boosting, context, proc>>
-----------------------------------------------------------------------------
(* Suspend, resume and the priority calls.                                 *)

Check(op, tid) ==
  /\ Calling(op)
  /\ tid \in known
  /\ call' = [call EXCEPT ![running] = [op |-> op, tid |-> tid]]
  /\ UNCHANGED <<table, priority, lock_count, ready, running, queues,
                 boosting, interrupts_enabled, context, proc>>

uthread_suspend_check(tid) == tid # MAIN_THREAD /\ Check("suspend", tid)

uthread_suspend ==
  /\ Checked("suspend")
  /\ LET tid == call[running].tid IN
       IF tid \notin threads THEN Die("null_tcb")
       ELSE IF tid = running
         THEN /\ blocked' = blocked \cup {running}
              /\ switchThreads(ready, "suspend")
              /\ UNCHANGED <<table, priority, lock_count, join_queue,
                             finished_queue, boosting, call>>
         ELSE /\ IF isReady(ready, priority, tid)
                   THEN /\ ready' = removeFromReady(ready, priority, tid)
                        /\ blocked' = blocked \cup {tid}
                   ELSE UNCHANGED <<ready, blocked>>
              /\ Return
              /\ UNCHANGED <<table, priority, lock_count, running,
                             join_queue, finished_queue, boosting,
                             interrupts_enabled, context, proc>>

uthread_resume_count(tid) == Check("resume", tid)

\* The search of blocked outside disableInterrupts; _threads[tid] of a thread
\* that is gone by now adds a null TCB to the table, which is not blocked.
uthread_resume_find ==
  /\ Checked("resume")
  /\ LET tid == call[running].tid IN
       /\ null_tcbs' = IF tid \in threads THEN null_tcbs
                       ELSE null_tcbs \cup {tid}
       /\ call' = IF tid \in blocked
                    THEN [call EXCEPT ![running].op = "resume_found"]
                    ELSE [call EXCEPT ![running] = NoCall]
  /\ UNCHANGED <<threads, priority, lock_count, ready, running, queues,
                 boosting, interrupts_enabled, context, proc>>

uthread_resume ==
  /\ Checked("resume_found")
  /\ LET tid == call[running].tid IN
       IF tid \notin threads \/ tid \notin blocked THEN Die("out_of_range")
       ELSE /\ ready' = addToReady(ready, priority, tid)
            /\ blocked' = blocked \ {tid}
            /\ Return
            /\ UNCHANGED <<table, priority, lock_count, running, join_queue,
                           finished_queue, boosting, interrupts_enabled,
                           context, proc>>

uthread_priority_check(op, tid) ==
  /\ op \in {"increase_priority", "decrease_priority"}
  /\ Check(op, tid)

\* _uthread_increase_priority or _uthread_decrease_priority: the thread moves
\* to the end of the ready queue of its new priority if it is ready.
\* Mutant: a ready thread stays in its old queue.
ChangePriorityInPlace(tid, to) ==
  /\ priority' = [priority EXCEPT ![tid] = to]
  /\ ready' = ready
ChangePriority(tid, to) ==
  /\ priority' = [priority EXCEPT ![tid] = to]
  /\ ready' = IF isReady(ready, priority, tid)
                THEN addToReady(removeFromReady(ready, priority, tid),
                                priority', tid)
                ELSE ready

uthread_change_priority ==
  /\ \/ Checked("increase_priority")
     \/ Checked("decrease_priority")
  /\ LET tid == call[running].tid IN
       IF tid = Freed THEN Die("freed_tcb")
       ELSE IF tid \in null_tcbs THEN Die("null_tcb")
       ELSE /\ ChangePriority(tid, IF call[running].op = "increase_priority"
                                     THEN increasePriority(priority[tid])
                                     ELSE decreasePriority(priority[tid]))
            /\ Return
            /\ UNCHANGED <<table, lock_count, running, queues, boosting,
                           interrupts_enabled, context, proc>>
-----------------------------------------------------------------------------
UThreadNext ==
  \/ uthread_create_check
  \/ uthread_create
  \/ \E tid \in Tids : uthread_join(tid)
  \/ uthread_join_resumed
  \/ uthread_exit
  \/ uthread_exit_main
  \/ uthread_yield
  \/ timeHandler
  \/ resumed
  \/ \E tid \in Tids : uthread_suspend_check(tid)
  \/ uthread_suspend
  \/ \E tid \in Tids : uthread_resume_count(tid)
  \/ uthread_resume_find
  \/ uthread_resume
  \/ \E op \in OpNames, tid \in Tids : uthread_priority_check(op, tid)
  \/ uthread_change_priority

Spec == Init /\ [][UThreadNext]_uthreadVars
-----------------------------------------------------------------------------
ReadyThreads == UNION {ToSet(ready[p]) : p \in Priorities}
Joining == {e[1] : e \in ToSet(join_queue)}

Faults == {"no_ready", "join_assert", "null_tcb", "out_of_range", "freed_tcb",
           "freed_boost", "freed_running", "bad_iterator",
           "empty_wake_up_order"}

(* Every variable keeps its type through all calls and switches.           *)
TypeOK ==
  /\ threads \subseteq Tids
  /\ null_tcbs \subseteq Tids \ threads
  /\ priority \in [Tids -> Priorities]
  /\ lock_count \in [Tids -> Nat]
  /\ ready \in [Priorities -> Seq(Tids)]
  /\ running \in Tids
  /\ blocked \subseteq Tids
  /\ join_queue \in Seq(Tids \X Tids)
  /\ finished_queue \subseteq Tids
  /\ numBoosts \in [Tids -> Nat \cup {NoBoosts}]
  /\ lowPriorityToBeBoosted \subseteq Tids \cup {Freed}
  /\ medPriorityToBeBoosted \subseteq Tids \cup {Freed}
  /\ interrupts_enabled \in BOOLEAN
  /\ call \in [Tids -> [op : OpNames \cup {"none", "resume_found"},
                       tid : Tids \cup {Freed}]]
  /\ context \in [Tids -> Contexts]
  /\ proc \in Faults \cup {"alive", "exited"}

(* No thread is lost or queued twice by any sequence of calls and timer    *)
(* switches: a thread of the table is running, or once in one of ready,    *)
(* blocked, the join queue and the finished queue.                         *)
EachThreadInOnePlace ==
  proc = "alive" =>
    /\ \A t \in threads :
         Cardinality({S \in {<<"running", {running}>>, <<"ready", ReadyThreads>>,
                             <<"blocked", blocked>>, <<"joining", Joining>>,
                             <<"finished", finished_queue>>} : t \in S[2]}) = 1
    /\ \A p \in Priorities : IsInjective(ready[p])
    /\ {running} \cup ReadyThreads \cup blocked \cup Joining
         \cup finished_queue \subseteq threads

(* A ready thread is in the queue of its present priority, the only one    *)
(* removeFromReady searches, whoever changed its priority and when.        *)
ReadyMatchesPriority ==
  \A p \in Priorities : \A t \in ToSet(ready[p]) : priority[t] = p

(* No join is lost: a thread never waits for one that has finished.        *)
NoLostJoin ==
  \A e \in ToSet(join_queue) : e[2] \notin finished_queue

(* The assert of switchThreads fails only when nobody can run.             *)
NoReadyOnlyWhenAllWait ==
  proc = "no_ready" =>
    \A t \in threads : t \in blocked \cup Joining \cup finished_queue

(* Round robin: with equal priorities no ready thread starves.             *)
ReadyRuns ==
  \A t \in Tids : (t \in ReadyThreads) ~> (running = t \/ proc # "alive")

(* Once the awaited thread has finished, the join completes.               *)
JoinCompletes ==
  \A t \in Tids :
    (call[MAIN_THREAD] = [op |-> "join", tid |-> t] /\ t \in finished_queue)
      ~> (call[MAIN_THREAD] = NoCall \/ proc # "alive")

(* uthread.cpp:746, "Fail if the TID does not exist": a call that names a   *)
(* thread which is gone returns -1; it does not use what it looked up      *)
(* before interrupts were disabled.                                        *)
CallsFailCleanly == proc \notin {"null_tcb", "freed_tcb", "out_of_range"}
=============================================================================
