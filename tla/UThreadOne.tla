----------------------------- MODULE UThreadOne -----------------------------
(***************************************************************************)
(* project_1/uthread.cpp, the first thread library: one ready queue, and   *)
(* thread states that decide whether a thread that gives up the processor  *)
(* is queued again.  A part of a call between disableInterrupts and        *)
(* enableInterrupts is one action; the timer may fire between any two.     *)
(* The searches of the finished queue and of the thread table before a     *)
(* call's masked part, and getcontext at the start of switchThreads, are   *)
(* actions of their own.                                                   *)
(*                                                                         *)
(* The client: every thread may yield and suspend itself, and workers end; *)
(* Calls says which threads also create, join, suspend and resume.  The    *)
(* threads share out their work on one another: while one is in a call     *)
(* about a thread, no other enters a suspend or a resume of it, nor a join *)
(* unless SharedJoins.  Nobody joins itself or the main thread, which never*)
(* ends.  A thread in the join queue is resumed only if ResumeJoining.     *)
(*                                                                         *)
(* A TCB is never deleted; its id returns to the pool when it is joined.   *)
(* What the process does after undefined behaviour is not followed: proc   *)
(* names it.                                                               *)
(***************************************************************************)
EXTENDS Integers, FiniteSets, SequencesExt

CONSTANTS
  LastTid,       \* ids 1 .. LastTid for created threads (MAX_THREAD_NUM)
  Calls,         \* which calls a thread makes that are about other threads
  SharedJoins,   \* may two threads join the same one?
  ResumeJoining  \* may a thread that waits in the join queue be resumed?

MAIN_THREAD == 0
Tids == 0 .. LastTid

ASSUME UThreadOneAssumption == LastTid \in Nat \ {0}
ASSUME ClientAssumption ==
  /\ Calls \in [Tids -> SUBSET {"create", "join", "suspend", "resume"}]
  /\ SharedJoins \in BOOLEAN /\ ResumeJoining \in BOOLEAN

VARIABLES
  idToTcb,             \* ids in the table
  state,               \* TCB::_state
  ready_queue,
  running,
  finished_queue,
  join_queue,          \* <<thread, waiting_for_tid>> in order
  threadIdsAvailable,  \* the pool, in order
  call,                \* the call a thread is in
  context,             \* is the saved context of a thread still on its stack
  proc                 \* "alive" or what the process died of

queues == <<ready_queue, finished_queue, join_queue>>
vars == <<idToTcb, state, queues, running, threadIdsAvailable, call, context,
          proc>>

\* at says where the thread is in the call.
NoCall == [op |-> "none", tid |-> 0, at |-> "none"]

Init ==
  /\ idToTcb = {MAIN_THREAD}
  /\ state = [t \in Tids |-> IF t = MAIN_THREAD THEN "RUNNING" ELSE "READY"]
  /\ ready_queue = << >>
  /\ running = MAIN_THREAD
  /\ finished_queue = {}
  /\ join_queue = << >>
  /\ threadIdsAvailable = [i \in 1 .. LastTid |-> i]
  /\ call = [t \in Tids |-> NoCall]
  /\ context = [t \in Tids |-> "valid"]
  /\ proc = "alive"

Calling == proc = "alive" /\ call[running] = NoCall
CallsFor(op) == Calling /\ op \in Calls[running]

\* The other threads in a call about tid.
CallersOf(tid, ops) ==
  {t \in Tids \ {running, tid} : call[t].op \in ops /\ call[t].tid = tid}

In(op, at) ==
  proc = "alive" /\ call[running].op = op /\ call[running].at = at

Enter(op, tid, at) ==
  call' = [call EXCEPT ![running] = [op |-> op, tid |-> tid, at |-> at]]
Goto(at) == call' = [call EXCEPT ![running].at = at]
Return == call' = [call EXCEPT ![running] = NoCall]

Die(cause) ==
  /\ proc' = cause
  /\ UNCHANGED <<idToTcb, state, queues, running, threadIdsAvailable, call,
                 context>>
-----------------------------------------------------------------------------
(* The scheduler.                                                          *)

removeFromQueue(tid, queue) == RemoveFirst(queue, tid)

\* A thread that was not blocked meanwhile is queued again.
requeued ==
  IF state[running] = "RUNNING" THEN Append(ready_queue, running)
  ELSE ready_queue

\* The loop pops the finished threads at the head; the erase of each once more
\* finds nothing, as a thread is queued at most once (ReadyOnce).
\* Mutant: the first thread is taken as it is.
first_runnableAny(queue) == IF queue = << >> THEN 0 ELSE 1
\* The place of the first thread that is not finished, 0 if there is none.
first_runnable(queue) ==
  SelectInSeq(queue, LAMBDA t : t \notin finished_queue)

runnable(queue) ==
  IF first_runnable(queue) = 0 THEN << >>
  ELSE SubSeq(queue, first_runnable(queue), Len(queue))

\* switchThreads after its getcontext: c says whether the context saved for
\* the running thread is valid, at where the thread will be when it is back.
switchThreads(c, at) ==
  LET queue == runnable(requeued)
      next == Head(queue)
  IN /\ context' = [context EXCEPT ![running] = c]
     /\ IF queue = << >>
          THEN /\ proc' = "no_ready"
               /\ UNCHANGED <<state, ready_queue, running, call>>
          ELSE /\ ready_queue' = Tail(queue)
               /\ running' = next
               /\ state' = [state EXCEPT
                              ![running] = IF @ = "RUNNING" THEN "READY" ELSE @,
                              ![next] = "RUNNING"]
               /\ Goto(at)
               /\ proc' = IF context'[next] = "stale" THEN "stale_context"
                          ELSE "alive"
     /\ UNCHANGED <<idToTcb, finished_queue, join_queue, threadIdsAvailable>>

\* The signal handler yields.  Its getcontext replaces the context that an
\* interrupted switchThreads has saved but not left yet.
scheduler_function ==
  /\ proc = "alive"
  /\ switchThreads("valid",
                   IF call[running].at = "saved" THEN "overwritten"
                   ELSE call[running].at)

\* uthread_yield inside another call: getcontext, then the rest.
getcontext ==
  /\ proc = "alive" /\ call[running].at = "yield"
  /\ Goto("saved")
  /\ UNCHANGED <<idToTcb, state, queues, running, threadIdsAvailable, context,
                 proc>>

switched_out ==
  /\ proc = "alive" /\ call[running].at \in {"saved", "overwritten"}
  /\ switchThreads(IF call[running].at = "saved" THEN "valid" ELSE "stale",
                   "back")

uthread_yield ==
  /\ Calling
  /\ Enter("yield", 0, "saved")
  /\ UNCHANGED <<idToTcb, state, queues, running, threadIdsAvailable, context,
                 proc>>

\* uthread_yield and uthread_suspend have nothing left to do.
returned ==
  /\ In("yield", "back") \/ In("suspend", "back")
  /\ Return
  /\ UNCHANGED <<idToTcb, state, queues, running, threadIdsAvailable, context,
                 proc>>
-----------------------------------------------------------------------------
(* Create, join and exit.                                                  *)

\* The assert on the pool comes before disableInterrupts.
uthread_create_check ==
  /\ CallsFor("create")
  /\ IF threadIdsAvailable = << >> THEN Die("no_ids")
     ELSE /\ Enter("create", 0, "checked")
          /\ UNCHANGED <<idToTcb, state, queues, running, threadIdsAvailable,
                         context, proc>>

\* The pool may be empty by now: front() and pop_front() of an empty deque.
uthread_create ==
  /\ In("create", "checked")
  /\ IF threadIdsAvailable = << >> THEN Die("empty_pool")
     ELSE LET tid == Head(threadIdsAvailable) IN
       /\ threadIdsAvailable' = Tail(threadIdsAvailable)
       /\ idToTcb' = idToTcb \cup {tid}
       /\ state' = [state EXCEPT ![tid] = "READY"]
       /\ context' = [context EXCEPT ![tid] = "valid"]
       /\ ready_queue' = Append(ready_queue, tid)
       /\ call' = [call EXCEPT ![tid] = NoCall, ![running] = NoCall]
       /\ UNCHANGED <<finished_queue, join_queue, running, proc>>

\* The search of the finished queue, before interrupts are disabled.
uthread_join_check(tid) ==
  /\ CallsFor("join") /\ tid \in idToTcb \ {MAIN_THREAD, running}
  /\ CallersOf(tid, {"suspend", "resume"}) = {}
  /\ SharedJoins \/ CallersOf(tid, {"join"}) = {}
  /\ Enter("join", tid, IF tid \in finished_queue THEN "found" ELSE "block")
  /\ UNCHANGED <<idToTcb, state, queues, running, threadIdsAvailable, context,
                 proc>>

uthread_join_block ==
  /\ In("join", "block")
  /\ state' = [state EXCEPT ![running] = "BLOCK"]
  /\ join_queue' = Append(join_queue, <<running, call[running].tid>>)
  /\ Goto("yield")
  /\ UNCHANGED <<idToTcb, ready_queue, finished_queue, running,
                 threadIdsAvailable, context, proc>>

\* Mutant: a resumed thread stays in the ready queue when it is joined.
joined_readyKept(tid) == ready_queue
joined_ready(tid) == removeFromQueue(tid, ready_queue)

\* Mutant: the caller's id is freed in place of the joined thread's.
pooledCaller(tid) == Append(threadIdsAvailable, running)
pooled(tid) == Append(threadIdsAvailable, tid)

\* Back from its yield a join searches again, and follows a null entry if it
\* finds nothing and its caller asks for the result; JoinFindsThread says that
\* it finds the thread.  The id goes back to the pool.
uthread_join ==
  /\ In("join", "found") \/ In("join", "back")
  /\ \E retval \in BOOLEAN :
       LET tid == call[running].tid IN
       IF retval /\ In("join", "back") /\ tid \notin finished_queue
         THEN Die("null_result")
         ELSE /\ finished_queue' = finished_queue \ {tid}
              /\ ready_queue' = joined_ready(tid)
              /\ idToTcb' = idToTcb \ {tid}
              /\ threadIdsAvailable' = pooled(tid)
              /\ Return
              /\ UNCHANGED <<state, join_queue, running, context, proc>>

\* The place of the first thread that waits for tid, 0 if there is none.
getThreadWaitingOn(tid) ==
  SelectInSeq(join_queue, LAMBDA e : e[2] = tid)

\* The first entry of the waiting thread goes.
removeFromJoinQueue(tid) ==
  RemoveAt(join_queue, SelectInSeq(join_queue, LAMBDA e : e[1] = tid))

\* Mutant: the waiting thread is made ready while the ending one still runs.
finished_withLate == finished_queue
finished_with == finished_queue \cup {running}

\* Only the first thread that waits for the ending one is woken.
uthread_exit ==
  /\ Calling /\ running # MAIN_THREAD
  /\ finished_queue' = finished_with
  /\ LET k == getThreadWaitingOn(running) IN
       IF k = 0
         THEN /\ state' = [state EXCEPT ![running] = "BLOCK"]
              /\ UNCHANGED <<ready_queue, join_queue>>
         ELSE /\ state' = [state EXCEPT ![running] = "BLOCK",
                                        ![join_queue[k][1]] = "READY"]
              /\ ready_queue' = Append(ready_queue, join_queue[k][1])
              /\ join_queue' = removeFromJoinQueue(join_queue[k][1])
  /\ Enter("exit", 0, "yield")
  /\ UNCHANGED <<idToTcb, running, threadIdsAvailable, context, proc>>
-----------------------------------------------------------------------------
(* Suspend and resume.                                                     *)

uthread_suspend_check(tid) ==
  /\ Calling /\ tid \in idToTcb \ finished_queue
  /\ tid # running => /\ CallsFor("suspend")
                      /\ CallersOf(tid, {"join", "suspend", "resume"}) = {}
  /\ Enter("suspend", tid, "checked")
  /\ UNCHANGED <<idToTcb, state, queues, running, threadIdsAvailable, context,
                 proc>>

\* Mutant: a suspended thread stays in the ready queue.
suspended_readyKept(tid) == ready_queue
suspended_ready(tid) == removeFromQueue(tid, ready_queue)

uthread_suspend ==
  /\ In("suspend", "checked")
  /\ LET tid == call[running].tid IN
       /\ state' = [state EXCEPT ![tid] = "BLOCK"]
       /\ ready_queue' = suspended_ready(tid)
       /\ IF tid = running THEN Goto("yield") ELSE Return
  /\ UNCHANGED <<idToTcb, finished_queue, join_queue, running,
                 threadIdsAvailable, context, proc>>

\* The test of the state comes before disableInterrupts.
uthread_resume_check(tid) ==
  /\ CallsFor("resume") /\ tid \in idToTcb /\ state[tid] = "BLOCK"
  /\ CallersOf(tid, {"join", "suspend", "resume"}) = {}
  /\ ResumeJoining \/ \A e \in ToSet(join_queue) : e[1] # tid
  /\ Enter("resume", tid, "checked")
  /\ UNCHANGED <<idToTcb, state, queues, running, threadIdsAvailable, context,
                 proc>>

\* A thread that has finished is readied like one that was suspended.
uthread_resume ==
  /\ In("resume", "checked")
  /\ LET tid == call[running].tid IN
       /\ state' = [state EXCEPT ![tid] = "READY"]
       /\ ready_queue' = Append(ready_queue, tid)
  /\ Return
  /\ UNCHANGED <<idToTcb, finished_queue, join_queue, running,
                 threadIdsAvailable, context, proc>>
-----------------------------------------------------------------------------
Next ==
  \/ scheduler_function
  \/ getcontext \/ switched_out \/ uthread_yield \/ returned
  \/ uthread_create_check \/ uthread_create
  \/ \E tid \in Tids : uthread_join_check(tid)
  \/ uthread_join_block \/ uthread_join
  \/ uthread_exit
  \/ \E tid \in Tids : uthread_suspend_check(tid) \/ uthread_resume_check(tid)
  \/ uthread_suspend \/ uthread_resume

Spec == Init /\ [][Next]_vars
-----------------------------------------------------------------------------
(* Every variable keeps its type.                                          *)
TypeOK ==
  /\ idToTcb \subseteq Tids
  /\ state \in [Tids -> {"READY", "RUNNING", "BLOCK"}]
  /\ ready_queue \in Seq(Tids)
  /\ running \in Tids
  /\ finished_queue \subseteq Tids
  /\ join_queue \in Seq(Tids \X Tids)
  /\ threadIdsAvailable \in Seq(Tids \ {MAIN_THREAD})
  /\ call \in [Tids -> [op : {"none", "yield", "create", "join", "exit",
                              "suspend", "resume"},
                        tid : Tids,
                        at : {"none", "yield", "saved", "overwritten", "back",
                              "checked", "block", "found"}]]
  /\ context \in [Tids -> {"valid", "stale"}]
  /\ proc \in {"alive", "no_ready", "stale_context", "no_ids", "empty_pool",
               "null_result"}

(* The ready queue has a thread at most once, never the running one, and a *)
(* thread in it has state READY: blocking, resuming and waking a thread    *)
(* from inside its own yield never queue it twice.                         *)
ReadyOnce ==
  proc = "alive" =>
    /\ IsInjective(ready_queue)
    /\ \A t \in ToSet(ready_queue) : t # running /\ state[t] = "READY"

(* A thread that has ended never runs again, although uthread_resume puts  *)
(* it into the ready queue: switchThreads drops it, and its join takes it  *)
(* out before the id can be used again.                                    *)
FinishedNeverRuns ==
  proc = "alive" =>
    /\ running \in idToTcb
    /\ running \in finished_queue => call[running].op = "exit"
    /\ call[running].op = "exit" => call[running].at # "back"

(* uthread.cpp:289, "will reach here when tid is in finished queue".       *)
JoinFindsThread ==
  In("join", "found") \/ In("join", "back")
    => call[running].tid \in finished_queue

(* An id in the pool is there once, and nothing refers to it any more: no  *)
(* table or queue of the library, no join that waits, and no call that has *)
(* looked it up and is still to come to its masked part.  So uthread_create*)
(* hands out an id that no call about an earlier thread can reach.         *)
FreedIdUnused ==
  proc = "alive" =>
    /\ IsInjective(threadIdsAvailable)
    /\ \A tid \in ToSet(threadIdsAvailable) :
         /\ tid \notin idToTcb \cup finished_queue \cup ToSet(ready_queue)
         /\ tid # running
         /\ \A e \in ToSet(join_queue) : e[1] # tid /\ e[2] # tid
         /\ \A t \in Tids : call[t].op \in {"join", "suspend", "resume"} =>
              t # tid /\ call[t].tid # tid

(* uthread.cpp:316, "Move any threads joined on this thread back to the    *)
(* ready queue": when a thread ends, every join of it that is in the join  *)
(* queue leaves it and its thread is ready.                                *)
QueuedJoinIsWoken ==
  [][\A e \in ToSet(join_queue) :
       e[2] \in finished_queue' \ finished_queue
         => /\ e \notin ToSet(join_queue')
            /\ e[1] \in ToSet(ready_queue')]_vars
=============================================================================
