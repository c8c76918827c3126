-------------------------- MODULE UThreadOneProofs --------------------------
(***************************************************************************)
(* The safety properties of project 1's thread library, proved for every   *)
(* number of threads and whichever of them create, join, suspend and       *)
(* resume, if two do not join the same one and a thread that waits in the  *)
(* join queue is not resumed.                                              *)
(***************************************************************************)
EXTENDS UThreadOne, QueueLemmas

\* Two threads do not join the same one, as in the run UThreadOneTwoJoins, and
\* no thread is resumed out of its join.
Disciplined == ~SharedJoins /\ ~ResumeJoining

\* A thread inside its yield, from the call of switchThreads until it is back.
InYield == {"yield", "saved", "overwritten"}

\* A thread that is known has one id, an unused id is in the pool once.
TableInv ==
  /\ MAIN_THREAD \in idToTcb
  /\ IsInjective(threadIdsAvailable)
  /\ ToSet(threadIdsAvailable) \cap idToTcb = {}
  /\ finished_queue \subseteq idToTcb \ {MAIN_THREAD}

\* The running thread is on its way out of the processor if it is blocked,
\* and nothing in the ready queue but resumed threads has ended.
SchedulerInv ==
  /\ running \in idToTcb
  /\ ToSet(ready_queue) \subseteq idToTcb
  /\ IsInjective(ready_queue)
  /\ \A t \in ToSet(ready_queue) : t # running /\ state[t] = "READY"
  /\ state[running] # "READY"
  /\ state[running] = "BLOCK" => call[running].at \in InYield
  /\ call[running].op = "exit" => call[running].at # "back"

\* Is thread t in a call about tid?
ActsOn(t, tid) ==
  call[t].op \in {"join", "suspend", "resume"} /\ call[t].tid = tid

\* A thread in a call is known, and so is the thread the call is about; two
\* threads are not in calls about the same one unless it suspends itself.
CallInv ==
  /\ \A t \in Tids : call[t].op \notin {"none", "exit"} => t \in idToTcb
  /\ \A t, tid \in Tids : ActsOn(t, tid) => tid \in idToTcb
  /\ \A t, u, tid \in Tids :
       ActsOn(t, tid) /\ ActsOn(u, tid) => t = u \/ t = tid \/ u = tid
  /\ \A t \in Tids : call[t].op \in {"join", "resume"} => call[t].tid # t

\* An exit is never left, and only a thread in it has ended.
ExitInv == \A t \in idToTcb : call[t].op = "exit" <=> t \in finished_queue

\* A thread that is about to be resumed is still blocked, and not by a join.
ResumeInv ==
  \A t \in Tids : call[t].op = "resume" =>
    /\ state[call[t].tid] = "BLOCK"
    /\ call[t].tid # running
    /\ \A e \in ToSet(join_queue) : e[1] # call[t].tid

\* A thread is in the join queue once, blocked in its join; a join that is
\* past its block and out of the queue is about a thread that has ended.
JoinInv ==
  /\ IsInjective(join_queue)
  /\ \A e \in ToSet(join_queue) :
       /\ call[e[1]].op = "join" /\ call[e[1]].tid = e[2]
       /\ call[e[1]].at \in InYield \cup {"back"}
       /\ state[e[1]] = "BLOCK"
  /\ \A t \in Tids : call[t].op = "join" =>
       \/ call[t].at = "block"
       \/ call[t].tid \in finished_queue
       \/ <<t, call[t].tid>> \in ToSet(join_queue)

\* The inductive invariant.
ThreadInv ==
  /\ TypeOK
  /\ proc = "alive" => /\ TableInv /\ SchedulerInv /\ CallInv
                       /\ ExitInv /\ ResumeInv /\ JoinInv

-----------------------------------------------------------------------------
(* The scheduler.                                                          *)

(* What is left of the queue when the finished threads at its head are     *)
(* popped: nothing but members of it, and a head that has not ended.       *)
LEMMA RunnableQueue ==
  ASSUME NEW q \in Seq(Tids)
  PROVE  /\ runnable(q) \in Seq(Tids)
         /\ ToSet(runnable(q)) \subseteq ToSet(q)
         /\ IsInjective(q) => IsInjective(runnable(q))
         /\ runnable(q) # << >> => Head(runnable(q)) \notin finished_queue
<1> DEFINE I == {i \in 1 .. Len(q) : q[i] \notin finished_queue}
<1>1. first_runnable(q) = IF I # {} THEN Min(I) ELSE 0
  BY DEF first_runnable, SelectInSeq
<1>2. CASE I = {}
  <2>1. runnable(q) = << >>
    BY <1>1, <1>2 DEF runnable
  <2>2. << >> \in Seq(Tids) /\ ToSet(<< >>) = {} /\ IsInjective(<< >>)
    BY DEF ToSet, IsInjective
  <2> QED
    BY <2>1, <2>2
<1>3. CASE I # {}
  <2>1. Min(I) \in I
    <3>1. I \in SUBSET Nat
      OBVIOUS
    <3> HIDE DEF I
    <3> QED
      BY <1>3, <3>1, LeastNumber
  <2>2. PICK k \in 1 .. Len(q) : k = Min(I) /\ q[k] \notin finished_queue
    BY <2>1
  <2>3. runnable(q) = SubSeq(q, k, Len(q))
    <3>1. k # 0
      BY <2>2
    <3> HIDE DEF I
    <3> QED
      BY <1>1, <1>3, <2>2, <3>1 DEF runnable
  <2> QED
    BY <2>2, <2>3, SuffixMembers
<1> QED
  BY <1>2, <1>3

(* The queue a thread is chosen from.                                      *)
LEMMA RequeuedQueue ==
  ASSUME ThreadInv, proc = "alive"
  PROVE  /\ requeued \in Seq(Tids)
         /\ IsInjective(requeued)
         /\ \A t \in ToSet(requeued) :
              /\ t \in idToTcb
              /\ \/ t # running /\ state[t] = "READY"
                 \/ t = running /\ state[t] = "RUNNING"
<1>1. /\ ready_queue \in Seq(Tids) /\ running \in Tids
      /\ IsInjective(ready_queue) /\ ToSet(ready_queue) \subseteq idToTcb
      /\ running \in idToTcb
      /\ \A t \in ToSet(ready_queue) : t # running /\ state[t] = "READY"
  BY DEF ThreadInv, TypeOK, SchedulerInv
<1>2. CASE state[running] = "RUNNING"
  <2>1. requeued = Append(ready_queue, running)
    BY <1>2 DEF requeued
  <2>2. running \notin ToSet(ready_queue)
    BY <1>1
  <2>3. /\ requeued \in Seq(Tids) /\ IsInjective(requeued)
        /\ ToSet(requeued) = ToSet(ready_queue) \cup {running}
    BY <1>1, <2>1, <2>2, AppendMembers
  <2> QED
    BY <1>1, <1>2, <2>3
<1>3. CASE state[running] # "RUNNING"
  BY <1>1, <1>3 DEF requeued
<1> QED
  BY <1>2, <1>3

(* An entry of the join queue is a pair of threads.                        *)
LEMMA JoinEntries ==
  ASSUME TypeOK
  PROVE  \A e \in ToSet(join_queue) :
           e[1] \in Tids /\ e[2] \in Tids /\ e = <<e[1], e[2]>>
<1>1. join_queue \in Seq(Tids \X Tids)
  BY DEF TypeOK
<1>2. ToSet(join_queue) \subseteq Tids \X Tids
  BY <1>1, Members
<1> QED
  BY <1>2

(* A switch keeps the invariant, wherever in its yield the thread is left. *)
LEMMA SwitchStep ==
  ASSUME ThreadInv, proc = "alive",
         NEW c \in {"valid", "stale"}, NEW at,
         \/ at = call[running].at
         \/ call[running].at \in InYield /\ at \in InYield \cup {"back"},
         switchThreads(c, at)
  PROVE  ThreadInv'
<1> DEFINE queue == runnable(requeued)
           next == Head(queue)
<1>1. /\ queue \in Seq(Tids) /\ IsInjective(queue)
      /\ ToSet(queue) \subseteq ToSet(requeued)
      /\ queue # << >> => next \notin finished_queue
  BY RequeuedQueue, RunnableQueue
<1>2. \A t \in ToSet(requeued) :
        /\ t \in idToTcb
        /\ \/ t # running /\ state[t] = "READY"
           \/ t = running /\ state[t] = "RUNNING"
  BY RequeuedQueue
<1>3. TypeOK /\ TableInv /\ SchedulerInv /\ CallInv /\ ExitInv /\ ResumeInv /\ JoinInv
  BY DEF ThreadInv
<1>4. UNCHANGED <<idToTcb, finished_queue, join_queue, threadIdsAvailable>>
  BY DEF switchThreads
<1>5. context' \in [Tids -> {"valid", "stale"}]
  BY <1>3 DEF switchThreads, TypeOK
<1>6. CASE queue = << >>
  <2>1. /\ proc' = "no_ready"
        /\ UNCHANGED <<state, ready_queue, running, call>>
    BY <1>6 DEF switchThreads
  <2> QED
    BY <1>3, <1>4, <1>5, <2>1 DEF ThreadInv, TypeOK
<1>7. CASE queue # << >>
  <2>1. /\ ready_queue' = Tail(queue)
        /\ running' = next
        /\ state' = [state EXCEPT
                       ![running] = IF @ = "RUNNING" THEN "READY" ELSE @,
                       ![next] = "RUNNING"]
        /\ call' = [call EXCEPT ![running].at = at]
        /\ proc' \in {"alive", "stale_context"}
    BY <1>7 DEF switchThreads, Goto
  <2>2. /\ Tail(queue) \in Seq(Tids) /\ next \in Tids /\ next \in ToSet(queue)
        /\ IsInjective(Tail(queue)) /\ next \notin ToSet(Tail(queue))
        /\ ToSet(Tail(queue)) \subseteq ToSet(queue)
    BY <1>1, <1>7, TailMembers
  <2> HIDE DEF queue, next
  <2>3. /\ next \in idToTcb /\ next \notin finished_queue
        /\ state[next] # "BLOCK"
        /\ next # running => state[next] = "READY"
        /\ next = running => state[next] = "RUNNING"
        /\ \A t \in ToSet(ready_queue') :
             /\ t \in idToTcb /\ t # next
             /\ \/ t # running /\ state[t] = "READY"
                \/ t = running /\ state[t] = "RUNNING"
    BY <1>1, <1>2, <1>7, <2>1, <2>2
  <2>4. TypeOK'
    BY <1>3, <1>4, <1>5, <2>1, <2>2 DEF TypeOK, InYield
  <2>5. TableInv'
    BY <1>3, <1>4 DEF TableInv
  <2>6. /\ state' \in [Tids -> {"READY", "RUNNING", "BLOCK"}]
        /\ state'[next] = "RUNNING"
        /\ \A t \in Tids \ {next, running} : state'[t] = state[t]
        /\ running # next => state'[running] = IF state[running] = "RUNNING"
                                                 THEN "READY" ELSE state[running]
    BY <1>3, <2>1, <2>2 DEF TypeOK
  <2>7. /\ \A t \in Tids : /\ call'[t].op = call[t].op
                           /\ call'[t].tid = call[t].tid
                           /\ t # running => call'[t].at = call[t].at
        /\ call'[running].at = at
    BY <1>3, <2>1 DEF TypeOK
  <2>8. call[next].op # "exit" /\ idToTcb \subseteq Tids
    BY <1>3, <2>3 DEF ExitInv, TypeOK
  <2>9. SchedulerInv'
    <3>1. /\ running' \in idToTcb' /\ ToSet(ready_queue') \subseteq idToTcb'
          /\ IsInjective(ready_queue')
      BY <1>4, <2>1, <2>2, <2>3
    <3>2. ASSUME NEW t \in ToSet(ready_queue')
          PROVE  t # running' /\ state'[t] = "READY"
      BY <1>3, <2>1, <2>3, <2>6, <3>2 DEF TypeOK
    <3>3. state'[running'] = "RUNNING" /\ call'[running'].op # "exit"
      BY <1>4, <2>1, <2>2, <2>3, <2>6, <2>7, <2>8
    <3> QED
      BY <3>1, <3>2, <3>3 DEF SchedulerInv
  <2>10. \A t \in Tids : state[t] = "BLOCK" => state'[t] = "BLOCK"
    BY <2>3, <2>6
  <2>11. CallInv' /\ ExitInv'
    BY <1>3, <1>4, <2>7, <2>8 DEF CallInv, ActsOn, ExitInv
  <2>12. ResumeInv'
    <3>1. \A t \in Tids : call[t].tid \in Tids
      BY <1>3 DEF TypeOK
    <3>2. ASSUME NEW t \in Tids, call'[t].op = "resume"
          PROVE  /\ state'[call'[t].tid] = "BLOCK"
                 /\ call'[t].tid # next
                 /\ \A e \in ToSet(join_queue) : e[1] # call'[t].tid
      BY <1>3, <2>3, <2>7, <2>10, <3>1, <3>2 DEF ResumeInv
    <3> QED
      BY <1>4, <2>1, <3>2 DEF ResumeInv
  <2>13. JoinInv'
    <3>1. \A e \in ToSet(join_queue) : e[1] \in Tids
      BY <1>3, JoinEntries
    <3>2. \A t \in Tids : \/ call'[t].at = call[t].at
                          \/ /\ call[t].at \in InYield
                             /\ call'[t].at \in InYield \cup {"back"}
      BY <2>7
    <3>3. "block" \notin InYield
      BY DEF InYield
    <3>4. ASSUME NEW e \in ToSet(join_queue)
          PROVE  /\ call'[e[1]].op = "join" /\ call'[e[1]].tid = e[2]
                 /\ call'[e[1]].at \in InYield \cup {"back"}
                 /\ state'[e[1]] = "BLOCK"
      BY <1>3, <2>7, <2>10, <3>1, <3>2 DEF JoinInv
    <3>5. ASSUME NEW t \in Tids, call'[t].op = "join"
          PROVE  \/ call'[t].at = "block"
                 \/ call'[t].tid \in finished_queue
                 \/ <<t, call'[t].tid>> \in ToSet(join_queue)
      BY <1>3, <2>7, <3>2, <3>3, <3>5 DEF JoinInv
    <3> QED
      BY <1>3, <1>4, <3>4, <3>5 DEF JoinInv
  <2> QED
    BY <2>4, <2>5, <2>9, <2>11, <2>12, <2>13 DEF ThreadInv
<1> QED
  BY <1>6, <1>7

-----------------------------------------------------------------------------
(* One step.                                                               *)

(* In the initial state only the main thread exists.                       *)
LEMMA ThreadInit == Init => ThreadInv
<1> SUFFICES ASSUME Init PROVE ThreadInv
  OBVIOUS
<1> USE UThreadOneAssumption DEF Init, Tids, MAIN_THREAD
<1>1. threadIdsAvailable \in Seq(Tids \ {MAIN_THREAD})
  OBVIOUS
<1>2. TypeOK
  BY <1>1 DEF TypeOK, NoCall
<1>3. /\ Len(threadIdsAvailable) = LastTid
      /\ \A i \in 1 .. LastTid : threadIdsAvailable[i] = i
  OBVIOUS
<1>4. TableInv
  <2>1. 0 \notin ToSet(threadIdsAvailable)
    BY <1>1, Members
  <2>2. IsInjective(threadIdsAvailable)
    BY <1>1, <1>3, Injective
  <2> QED
    BY <2>1, <2>2 DEF TableInv
<1>5. SchedulerInv
  BY DEF SchedulerInv, ToSet, IsInjective, NoCall
<1>6. \A t \in Tids : call[t].op = "none"
  BY DEF NoCall
<1>7. ToSet(join_queue) = {} /\ IsInjective(join_queue)
  BY DEF ToSet, IsInjective
<1>8. CallInv /\ ExitInv /\ ResumeInv
  BY <1>6 DEF CallInv, ActsOn, ExitInv, ResumeInv
<1>9. JoinInv
  BY <1>6, <1>7 DEF JoinInv
<1> QED
  BY <1>2, <1>4, <1>5, <1>8, <1>9 DEF ThreadInv

(* A step that changes nothing but where the running thread is in a call,  *)
(* with what the invariant asks of the call it is then in.                 *)
LEMMA CallStep ==
  ASSUME ThreadInv, proc = "alive",
         NEW entry,
         entry \in [op : {"none", "yield", "create", "join", "exit",
                          "suspend", "resume"},
                    tid : Tids,
                    at : {"none", "yield", "saved", "overwritten", "back",
                          "checked", "block", "found"}],
         call' = [call EXCEPT ![running] = entry],
         UNCHANGED <<idToTcb, state, queues, running, threadIdsAvailable,
                     context, proc>>,
         state[running] = "BLOCK" => entry.at \in InYield,
         entry.op = "exit" <=> running \in finished_queue,
         entry.op = "exit" => entry.at # "back",
         entry.op \in {"join", "suspend", "resume"} =>
           /\ entry.tid \in idToTcb
           /\ \A u \in Tids \ {running, entry.tid} :
                entry.tid # running => ~ActsOn(u, entry.tid),
         entry.op \in {"join", "resume"} => entry.tid # running,
         entry.op = "resume" =>
           /\ state[entry.tid] = "BLOCK"
           /\ \A e \in ToSet(join_queue) : e[1] # entry.tid,
         \A e \in ToSet(join_queue) : e[1] = running =>
           /\ entry.op = "join" /\ entry.tid = e[2]
           /\ entry.at \in InYield \cup {"back"},
         entry.op = "join" =>
           \/ entry.at = "block"
           \/ entry.tid \in finished_queue
           \/ <<running, entry.tid>> \in ToSet(join_queue)
  PROVE  ThreadInv'
<1> USE DEF queues
<1>1. TypeOK /\ TableInv /\ SchedulerInv /\ CallInv /\ ExitInv /\ ResumeInv /\ JoinInv
  BY DEF ThreadInv
<1>2. TypeOK'
  BY <1>1 DEF TypeOK
<1>3. /\ running \in Tids /\ idToTcb \subseteq Tids
      /\ call'[running] = entry
      /\ \A t \in Tids \ {running} : call'[t] = call[t]
  BY <1>1 DEF TypeOK
<1>4. TableInv'
  BY <1>1 DEF TableInv
<1>5. SchedulerInv'
  BY <1>1, <1>3 DEF SchedulerInv
<1>6. ExitInv'
  BY <1>1, <1>3 DEF ExitInv
<1>7. CallInv'
  <2>1. \A t \in Tids : call'[t].op \notin {"none", "exit"} => t \in idToTcb'
    BY <1>1, <1>3 DEF CallInv, SchedulerInv
  <2>2. \A t, tid \in Tids : ActsOn(t, tid)' => tid \in idToTcb'
    BY <1>1, <1>3 DEF CallInv, ActsOn
  <2>3. ASSUME NEW t \in Tids, NEW u \in Tids, NEW tid \in Tids,
               ActsOn(t, tid)', ActsOn(u, tid)'
        PROVE  t = u \/ t = tid \/ u = tid
    <3>1. CASE t # running /\ u # running
      BY <1>1, <1>3, <2>3, <3>1 DEF CallInv, ActsOn
    <3>2. CASE t = running
      BY <1>3, <2>3, <3>2 DEF ActsOn
    <3>3. CASE u = running
      BY <1>3, <2>3, <3>3 DEF ActsOn
    <3> QED
      BY <3>1, <3>2, <3>3
  <2>4. \A t \in Tids : call'[t].op \in {"join", "resume"} => call'[t].tid # t
    BY <1>1, <1>3 DEF CallInv
  <2> QED
    BY <2>1, <2>2, <2>3, <2>4 DEF CallInv
<1>8. ResumeInv'
  BY <1>1, <1>3 DEF ResumeInv
<1>9. JoinInv'
  <2>1. \A e \in ToSet(join_queue) : e[1] \in Tids
    BY <1>1, JoinEntries
  <2>2. ASSUME NEW e \in ToSet(join_queue)
        PROVE  /\ call'[e[1]].op = "join" /\ call'[e[1]].tid = e[2]
               /\ call'[e[1]].at \in InYield \cup {"back"}
               /\ state[e[1]] = "BLOCK"
    BY <1>1, <1>3, <2>1 DEF JoinInv
  <2>3. ASSUME NEW t \in Tids, call'[t].op = "join"
        PROVE  \/ call'[t].at = "block"
               \/ call'[t].tid \in finished_queue
               \/ <<t, call'[t].tid>> \in ToSet(join_queue)
    BY <1>1, <1>3, <2>3 DEF JoinInv
  <2> QED
    BY <1>1, <2>2, <2>3 DEF JoinInv
<1> QED
  BY <1>2, <1>4, <1>5, <1>6, <1>7, <1>8, <1>9 DEF ThreadInv

(* The steps that only move the running thread within or between calls.    *)
LEMMA CallSteps ==
  ASSUME Disciplined, ThreadInv,
         \/ getcontext \/ uthread_yield \/ returned \/ uthread_create_check
         \/ \E tid \in Tids : \/ uthread_join_check(tid)
                              \/ uthread_suspend_check(tid)
                              \/ uthread_resume_check(tid)
  PROVE  ThreadInv'
<1>1. TypeOK /\ running \in Tids /\ call[running] \in
        [op : {"none", "yield", "create", "join", "exit", "suspend", "resume"},
         tid : Tids,
         at : {"none", "yield", "saved", "overwritten", "back",
               "checked", "block", "found"}]
  BY DEF ThreadInv, TypeOK
<1>2. proc = "alive" => /\ TableInv /\ SchedulerInv /\ CallInv
                        /\ ExitInv /\ ResumeInv /\ JoinInv
  BY DEF ThreadInv
<1>3. 0 \in Tids /\ NoCall.op = "none" /\ NoCall.at = "none"
  BY UThreadOneAssumption DEF Tids, NoCall
<1>4. CASE getcontext
  <2> DEFINE entry == [call[running] EXCEPT !.at = "saved"]
  <2>1. call' = [call EXCEPT ![running] = entry]
    BY <1>4, <1>1 DEF getcontext, Goto, TypeOK
  <2>2. entry.op = call[running].op /\ entry.tid = call[running].tid
        /\ entry.at = "saved"
    BY <1>1
  <2>3. proc = "alive" /\ call[running].at = "yield"
        /\ UNCHANGED <<idToTcb, state, queues, running, threadIdsAvailable,
                       context, proc>>
    BY <1>4 DEF getcontext
  <2>4. entry \in [op : {"none", "yield", "create", "join", "exit",
                         "suspend", "resume"},
                   tid : Tids,
                   at : {"none", "yield", "saved", "overwritten", "back",
                         "checked", "block", "found"}]
    BY <1>1
  <2> HIDE DEF entry
  <2>5. entry.op = "exit" <=> running \in finished_queue
    BY <1>2, <2>2, <2>3 DEF ExitInv, SchedulerInv
  <2>6. entry.op \in {"join", "suspend", "resume"} =>
           /\ entry.tid \in idToTcb
           /\ \A u \in Tids \ {running, entry.tid} :
                entry.tid # running => ~ActsOn(u, entry.tid)
    <3>1. entry.tid \in Tids
      BY <1>1, <2>2
    <3> QED
      BY <1>1, <1>2, <2>2, <2>3, <3>1 DEF CallInv, ActsOn
  <2>7. entry.op \in {"join", "resume"} => entry.tid # running
    BY <1>1, <1>2, <2>2, <2>3 DEF CallInv
  <2>8. entry.op = "resume" =>
           /\ state[entry.tid] = "BLOCK"
           /\ \A e \in ToSet(join_queue) : e[1] # entry.tid
    BY <1>1, <1>2, <2>2, <2>3 DEF ResumeInv
  <2>9. \A e \in ToSet(join_queue) : e[1] = running =>
           entry.op = "join" /\ entry.tid = e[2]
    BY <1>2, <2>2, <2>3 DEF JoinInv
  <2>10. entry.op = "join" =>
           \/ entry.tid \in finished_queue
           \/ <<running, entry.tid>> \in ToSet(join_queue)
    BY <1>1, <1>2, <2>2, <2>3 DEF JoinInv
  <2>11. "saved" \in InYield /\ "saved" # "back"
    BY DEF InYield
  <2> QED
    BY <2>1, <2>2, <2>3, <2>4, <2>5, <2>6, <2>7, <2>8, <2>9, <2>10, <2>11, CallStep
<1>5. ASSUME NEW op \in {"yield", "create", "join", "suspend", "resume"},
             NEW tid \in Tids,
             NEW at \in {"saved", "checked", "block", "found"},
             Calling, Enter(op, tid, at),
             UNCHANGED <<idToTcb, state, queues, running, threadIdsAvailable,
                         context, proc>>,
             op \in {"join", "suspend", "resume"} =>
               /\ tid \in idToTcb
               /\ tid # running =>
                    CallersOf(tid, {"join", "suspend", "resume"}) = {},
             op \in {"join", "resume"} => tid # running,
             op = "resume" => /\ state[tid] = "BLOCK"
                              /\ \A e \in ToSet(join_queue) : e[1] # tid,
             op = "join" => at = "block" \/ tid \in finished_queue
      PROVE  ThreadInv'
  <2> DEFINE entry == [op |-> op, tid |-> tid, at |-> at]
  <2>1. proc = "alive" /\ call[running] = NoCall
    BY <1>5 DEF Calling
  <2>2. /\ running \notin finished_queue /\ state[running] # "BLOCK"
        /\ \A e \in ToSet(join_queue) : e[1] # running
    BY <1>2, <1>3, <2>1 DEF SchedulerInv, ExitInv, JoinInv, InYield
  <2>3. entry \in [op : {"none", "yield", "create", "join", "exit",
                         "suspend", "resume"},
                   tid : Tids,
                   at : {"none", "yield", "saved", "overwritten", "back",
                         "checked", "block", "found"}]
    OBVIOUS
  <2>4. call' = [call EXCEPT ![running] = entry]
    BY <1>5 DEF Enter
  <2>5. entry.op = op /\ entry.tid = tid /\ entry.at = at
    OBVIOUS
  <2> HIDE DEF entry
  <2>6. op \in {"join", "suspend", "resume"} =>
          \A u \in Tids \ {running, tid} : tid # running => ~ActsOn(u, tid)
    BY <1>5 DEF CallersOf, ActsOn
  <2>7. op # "exit"
    BY <1>5
  <2> QED
    BY <1>5, <2>1, <2>2, <2>3, <2>4, <2>5, <2>6, <2>7, CallStep
<1>6. CASE uthread_yield
  BY <1>3, <1>5, <1>6 DEF uthread_yield
<1>7. CASE returned
  <2>1. /\ proc = "alive" /\ call[running].at = "back"
        /\ call[running].op \in {"yield", "suspend"}
        /\ call' = [call EXCEPT ![running] = NoCall]
        /\ UNCHANGED <<idToTcb, state, queues, running, threadIdsAvailable,
                       context, proc>>
    BY <1>7 DEF returned, In, Return
  <2>2. /\ running \notin finished_queue /\ state[running] # "BLOCK"
        /\ \A e \in ToSet(join_queue) : e[1] # running
    BY <1>2, <2>1 DEF SchedulerInv, ExitInv, JoinInv, InYield
  <2>3. NoCall \in [op : {"none", "yield", "create", "join", "exit",
                         "suspend", "resume"},
                   tid : Tids,
                   at : {"none", "yield", "saved", "overwritten", "back",
                         "checked", "block", "found"}]
    BY <1>3 DEF NoCall
  <2> QED
    BY <1>3, <2>1, <2>2, <2>3, CallStep
<1>8. CASE uthread_create_check
  <2>1. CASE threadIdsAvailable = << >>
    <3>1. /\ proc' = "no_ids"
          /\ UNCHANGED <<idToTcb, state, queues, running, threadIdsAvailable,
                         call, context>>
      BY <1>8, <2>1 DEF uthread_create_check, Die
    <3> QED
      BY <1>1, <3>1 DEF ThreadInv, TypeOK, queues
  <2>2. CASE threadIdsAvailable # << >>
    BY <1>3, <1>5, <1>8, <2>2 DEF uthread_create_check, CallsFor
  <2> QED
    BY <2>1, <2>2
<1>9. ASSUME NEW tid \in Tids, uthread_join_check(tid) PROVE ThreadInv'
  <2>1. CallersOf(tid, {"join", "suspend", "resume"}) = {}
    BY <1>9 DEF uthread_join_check, CallersOf, Disciplined
  <2> QED
    BY <1>5, <1>9, <2>1 DEF uthread_join_check, CallsFor
<1>10. ASSUME NEW tid \in Tids, uthread_suspend_check(tid) PROVE ThreadInv'
  BY <1>5, <1>10 DEF uthread_suspend_check
<1>11. ASSUME NEW tid \in Tids, uthread_resume_check(tid) PROVE ThreadInv'
  <2>1. /\ proc = "alive" /\ call[running] = NoCall /\ Calling
        /\ state[tid] = "BLOCK" /\ tid \in idToTcb
        /\ \A e \in ToSet(join_queue) : e[1] # tid
    BY <1>11 DEF uthread_resume_check, CallsFor, Calling, Disciplined
  <2>2. tid # running
    BY <1>2, <1>3, <2>1 DEF SchedulerInv, InYield
  <2> QED
    BY <1>5, <1>11, <2>1, <2>2 DEF uthread_resume_check
<1> QED
  BY <1>4, <1>6, <1>7, <1>8, <1>9, <1>10, <1>11

(* The process dies: nothing but its cause of death changes.               *)
LEMMA DieStep ==
  ASSUME ThreadInv, NEW cause \in {"empty_pool", "null_result"}, Die(cause)
  PROVE  ThreadInv'
  BY DEF ThreadInv, TypeOK, Die, queues

(* A created thread takes an id of the pool, which no other thread has.    *)
LEMMA CreateStep == ThreadInv /\ uthread_create => ThreadInv'
<1> SUFFICES ASSUME ThreadInv, uthread_create, threadIdsAvailable # << >>
             PROVE  ThreadInv'
  BY DieStep DEF uthread_create
<1> DEFINE tid == Head(threadIdsAvailable)
<1>1. /\ proc = "alive" /\ call[running].op = "create"
      /\ call[running].at = "checked" /\ threadIdsAvailable # << >>
      /\ threadIdsAvailable' = Tail(threadIdsAvailable)
      /\ idToTcb' = idToTcb \cup {tid}
      /\ state' = [state EXCEPT ![tid] = "READY"]
      /\ context' = [context EXCEPT ![tid] = "valid"]
      /\ ready_queue' = Append(ready_queue, tid)
      /\ call' = [call EXCEPT ![tid] = NoCall, ![running] = NoCall]
      /\ UNCHANGED <<finished_queue, join_queue, running, proc>>
  BY DEF uthread_create, In
<1>2. TypeOK /\ TableInv /\ SchedulerInv /\ CallInv /\ ExitInv /\ ResumeInv /\ JoinInv
  BY <1>1 DEF ThreadInv
<1>3. 0 \in Tids /\ NoCall.op = "none" /\ NoCall.at = "none"
  BY UThreadOneAssumption DEF Tids, NoCall
<1>4. /\ tid \in Tids \ {MAIN_THREAD} /\ tid \notin idToTcb
      /\ Tail(threadIdsAvailable) \in Seq(Tids \ {MAIN_THREAD})
      /\ IsInjective(Tail(threadIdsAvailable))
      /\ ToSet(Tail(threadIdsAvailable)) \subseteq ToSet(threadIdsAvailable) \ {tid}
      /\ tid \in ToSet(threadIdsAvailable)
  BY <1>1, <1>2, TailMembers DEF TypeOK, TableInv
<1> HIDE DEF tid
<1>5. /\ tid \notin ToSet(ready_queue) /\ tid # running
      /\ tid \notin finished_queue /\ running \notin finished_queue
      /\ state[running] # "BLOCK"
  BY <1>1, <1>2, <1>4 DEF SchedulerInv, TableInv, ExitInv, InYield
<1>6. /\ Append(ready_queue, tid) \in Seq(Tids)
      /\ ToSet(Append(ready_queue, tid)) = ToSet(ready_queue) \cup {tid}
      /\ IsInjective(Append(ready_queue, tid))
  BY <1>2, <1>4, <1>5, AppendMembers DEF TypeOK, SchedulerInv
<1>7. TypeOK'
  BY <1>1, <1>2, <1>3, <1>4, <1>6 DEF TypeOK, NoCall
<1>8. /\ idToTcb \subseteq Tids /\ running \in Tids
      /\ state'[tid] = "READY"
      /\ \A t \in Tids \ {tid} : state'[t] = state[t]
      /\ call'[tid] = NoCall /\ call'[running] = NoCall
      /\ \A t \in Tids \ {tid, running} : call'[t] = call[t]
  BY <1>1, <1>2, <1>4, <1>5 DEF TypeOK
<1>9. TableInv'
  BY <1>1, <1>2, <1>4 DEF TableInv
<1>10. SchedulerInv'
  BY <1>1, <1>2, <1>3, <1>4, <1>5, <1>6, <1>8 DEF SchedulerInv, InYield
<1>11. CallInv'
  <2>1. \A t \in Tids : call'[t] = call[t] \/ call'[t].op = "none"
    BY <1>3, <1>8
  <2>2. \A t, u \in Tids : ActsOn(t, u)' => ActsOn(t, u)
    BY <2>1 DEF ActsOn
  <2> QED
    BY <1>1, <1>2, <2>1, <2>2 DEF CallInv
<1>12. ExitInv'
  BY <1>1, <1>2, <1>3, <1>5, <1>8 DEF ExitInv
<1>13. ResumeInv'
  <2>1. ASSUME NEW t \in Tids, call'[t].op = "resume"
        PROVE  /\ state'[call'[t].tid] = "BLOCK"
               /\ call'[t].tid # running
               /\ \A e \in ToSet(join_queue) : e[1] # call'[t].tid
    <3>1. call'[t] = call[t] /\ call[t].op = "resume" /\ call[t].tid \in Tids
      BY <1>2, <1>3, <1>8, <2>1 DEF TypeOK
    <3>2. call[t].tid \in idToTcb
      BY <1>2, <3>1 DEF CallInv, ActsOn
    <3> QED
      BY <1>2, <1>4, <1>8, <3>1, <3>2 DEF ResumeInv
  <2> QED
    BY <1>1, <2>1 DEF ResumeInv
<1>14. JoinInv'
  <2>1. ASSUME NEW e \in ToSet(join_queue)
        PROVE  /\ call'[e[1]].op = "join" /\ call'[e[1]].tid = e[2]
               /\ call'[e[1]].at \in InYield \cup {"back"}
               /\ state'[e[1]] = "BLOCK"
    <3>1. e[1] \in Tids /\ call[e[1]].op = "join"
      BY <1>2, JoinEntries DEF JoinInv
    <3>2. e[1] # running /\ e[1] # tid
      BY <1>1, <1>2, <1>4, <3>1 DEF CallInv
    <3> QED
      BY <1>2, <1>8, <3>1, <3>2 DEF JoinInv
  <2>2. ASSUME NEW t \in Tids, call'[t].op = "join"
        PROVE  \/ call'[t].at = "block"
               \/ call'[t].tid \in finished_queue
               \/ <<t, call'[t].tid>> \in ToSet(join_queue)
    BY <1>2, <1>3, <1>8, <2>2 DEF JoinInv
  <2> QED
    BY <1>1, <1>2, <2>1, <2>2 DEF JoinInv
<1> QED
  BY <1>7, <1>9, <1>10, <1>11, <1>12, <1>13, <1>14 DEF ThreadInv

(* The joining thread enters the join queue, which it was not in.          *)
LEMMA JoinBlockStep == ThreadInv /\ uthread_join_block => ThreadInv'
<1> SUFFICES ASSUME ThreadInv, uthread_join_block PROVE ThreadInv'
  OBVIOUS
<1> DEFINE e0 == <<running, call[running].tid>>
<1>1. /\ proc = "alive" /\ call[running].op = "join"
      /\ call[running].at = "block"
      /\ state' = [state EXCEPT ![running] = "BLOCK"]
      /\ join_queue' = Append(join_queue, e0)
      /\ call' = [call EXCEPT ![running].at = "yield"]
      /\ UNCHANGED <<idToTcb, ready_queue, finished_queue, running,
                     threadIdsAvailable, context, proc>>
  BY DEF uthread_join_block, In, Goto
<1>2. TypeOK /\ TableInv /\ SchedulerInv /\ CallInv /\ ExitInv /\ ResumeInv /\ JoinInv
  BY <1>1 DEF ThreadInv
<1>3. \A e \in ToSet(join_queue) : e[1] # running
  BY <1>1, <1>2 DEF JoinInv, InYield
<1>4. /\ running \in Tids /\ idToTcb \subseteq Tids
      /\ state'[running] = "BLOCK"
      /\ \A t \in Tids \ {running} : state'[t] = state[t] /\ call'[t] = call[t]
      /\ call'[running].op = "join" /\ call'[running].at = "yield"
      /\ call'[running].tid = call[running].tid
      /\ call[running].tid \in Tids
  BY <1>1, <1>2 DEF TypeOK
<1>5. e0 \in Tids \X Tids /\ e0[1] = running /\ e0[2] = call[running].tid
  BY <1>4
<1>6. e0 \notin ToSet(join_queue)
  BY <1>3, <1>5
<1> HIDE DEF e0
<1>7. /\ join_queue' \in Seq(Tids \X Tids) /\ IsInjective(join_queue')
      /\ ToSet(join_queue') = ToSet(join_queue) \cup {e0}
  BY <1>1, <1>2, <1>5, <1>6, AppendMembers DEF TypeOK, JoinInv
<1>8. TypeOK'
  BY <1>1, <1>2, <1>7 DEF TypeOK
<1>9. TableInv'
  BY <1>1, <1>2 DEF TableInv
<1>10. SchedulerInv'
  BY <1>1, <1>2, <1>4 DEF SchedulerInv, InYield, TypeOK
<1>11. \A t \in Tids : call'[t].op = call[t].op /\ call'[t].tid = call[t].tid
  BY <1>1, <1>4
<1>12. CallInv' /\ ExitInv'
  BY <1>1, <1>2, <1>4, <1>11 DEF CallInv, ActsOn, ExitInv
<1>13. ResumeInv'
  BY <1>1, <1>2, <1>4, <1>5, <1>7, <1>11 DEF ResumeInv, TypeOK
<1>14. JoinInv'
  <2>1. ASSUME NEW e \in ToSet(join_queue')
        PROVE  /\ call'[e[1]].op = "join" /\ call'[e[1]].tid = e[2]
               /\ call'[e[1]].at \in InYield \cup {"back"}
               /\ state'[e[1]] = "BLOCK"
    <3>1. CASE e = e0
      BY <1>4, <1>5, <3>1 DEF InYield
    <3>2. CASE e \in ToSet(join_queue)
      BY <1>2, <1>3, <1>4, <3>2, JoinEntries DEF JoinInv
    <3> QED
      BY <1>7, <3>1, <3>2
  <2>2. ASSUME NEW t \in Tids, call'[t].op = "join"
        PROVE  \/ call'[t].at = "block"
               \/ call'[t].tid \in finished_queue'
               \/ <<t, call'[t].tid>> \in ToSet(join_queue')
    <3>1. CASE t = running
      BY <1>4, <1>7, <3>1 DEF e0
    <3>2. CASE t # running
      BY <1>1, <1>2, <1>4, <1>7, <2>2, <3>2 DEF JoinInv
    <3> QED
      BY <3>1, <3>2
  <2> QED
    BY <1>7, <2>1, <2>2 DEF JoinInv
<1> QED
  BY <1>8, <1>9, <1>10, <1>12, <1>13, <1>14 DEF ThreadInv

(* Past its block a join that runs is about a thread that has ended.       *)
LEMMA JoinedHasEnded ==
  ASSUME ThreadInv, In("join", "found") \/ In("join", "back")
  PROVE  call[running].tid \in finished_queue
<1>1. /\ proc = "alive" /\ call[running].op = "join"
      /\ call[running].at \in {"found", "back"}
  BY DEF In
<1>2. TypeOK /\ SchedulerInv /\ JoinInv
  BY <1>1 DEF ThreadInv
<1>3. state[running] # "BLOCK" /\ running \in Tids
  BY <1>1, <1>2 DEF SchedulerInv, InYield, TypeOK
<1>4. <<running, call[running].tid>> \notin ToSet(join_queue)
  BY <1>2, <1>3 DEF JoinInv
<1> QED
  BY <1>1, <1>2, <1>3, <1>4 DEF JoinInv

(* A join takes the ended thread out of every table before its id is free. *)
LEMMA JoinStep == ThreadInv /\ uthread_join => ThreadInv'
<1> SUFFICES ASSUME ThreadInv, uthread_join PROVE ThreadInv'
  OBVIOUS
<1> DEFINE tid == call[running].tid
<1>1. tid \in finished_queue
  BY JoinedHasEnded DEF uthread_join
<1>2. /\ proc = "alive" /\ call[running].op = "join"
      /\ call[running].at \in {"found", "back"}
      /\ finished_queue' = finished_queue \ {tid}
      /\ ready_queue' = RemoveFirst(ready_queue, tid)
      /\ idToTcb' = idToTcb \ {tid}
      /\ threadIdsAvailable' = Append(threadIdsAvailable, tid)
      /\ call' = [call EXCEPT ![running] = NoCall]
      /\ UNCHANGED <<state, join_queue, running, context, proc>>
  BY <1>1 DEF uthread_join, In, Return, joined_ready, pooled, removeFromQueue
<1>3. TypeOK /\ TableInv /\ SchedulerInv /\ CallInv /\ ExitInv /\ ResumeInv /\ JoinInv
  BY <1>2 DEF ThreadInv
<1>4. 0 \in Tids /\ NoCall.op = "none" /\ NoCall.at = "none"
  BY UThreadOneAssumption DEF Tids, NoCall
<1>5. /\ state[running] # "BLOCK" /\ state[running] # "READY"
      /\ \A e \in ToSet(join_queue) : e[1] # running
      /\ running \in Tids /\ running \in idToTcb /\ idToTcb \subseteq Tids
      /\ running \notin finished_queue
  BY <1>2, <1>3 DEF SchedulerInv, JoinInv, ExitInv, InYield, TypeOK
<1>6. /\ tid \in idToTcb \ {MAIN_THREAD} /\ tid \in Tids \ {MAIN_THREAD}
      /\ tid # running /\ call[tid].op = "exit"
  BY <1>1, <1>2, <1>3, <1>5 DEF TableInv, TypeOK, CallInv, ExitInv
<1>7. \A u \in Tids \ {running} : ~ActsOn(u, tid)
  BY <1>2, <1>3, <1>5, <1>6 DEF CallInv, ActsOn
<1> HIDE DEF tid
<1>8. /\ RemoveFirst(ready_queue, tid) \in Seq(Tids)
      /\ IsInjective(RemoveFirst(ready_queue, tid))
      /\ ToSet(RemoveFirst(ready_queue, tid)) = ToSet(ready_queue) \ {tid}
  BY <1>3, RemoveFirstMembers DEF TypeOK, SchedulerInv
<1>9. /\ Append(threadIdsAvailable, tid) \in Seq(Tids \ {MAIN_THREAD})
      /\ ToSet(Append(threadIdsAvailable, tid)) = ToSet(threadIdsAvailable) \cup {tid}
      /\ IsInjective(Append(threadIdsAvailable, tid))
  BY <1>3, <1>6, AppendMembers DEF TypeOK, TableInv
<1>10. TypeOK'
  BY <1>2, <1>3, <1>4, <1>8, <1>9 DEF TypeOK, NoCall
<1>11. /\ call'[running] = NoCall
       /\ \A t \in Tids \ {running} : call'[t] = call[t]
  BY <1>2, <1>3 DEF TypeOK
<1>12. TableInv'
  BY <1>2, <1>3, <1>6, <1>9 DEF TableInv
<1>13. SchedulerInv'
  BY <1>2, <1>3, <1>4, <1>5, <1>6, <1>8, <1>11 DEF SchedulerInv
<1>14. CallInv'
  <2>1. \A t \in Tids : call'[t].op \notin {"none", "exit"} => t \in idToTcb'
    BY <1>2, <1>3, <1>4, <1>6, <1>11 DEF CallInv
  <2>2. \A t, u \in Tids : ActsOn(t, u)' => ActsOn(t, u) /\ t # running
    BY <1>4, <1>11 DEF ActsOn
  <2>3. \A t, u \in Tids : ActsOn(t, u)' => u \in idToTcb'
    BY <1>2, <1>3, <1>7, <2>2 DEF CallInv
  <2>4. \A t \in Tids : call'[t].op \in {"join", "resume"} => call'[t].tid # t
    BY <1>3, <1>4, <1>11 DEF CallInv
  <2> QED
    BY <1>3, <2>1, <2>2, <2>3, <2>4 DEF CallInv
<1>15. ExitInv'
  BY <1>2, <1>3, <1>4, <1>5, <1>11 DEF ExitInv
<1>16. ResumeInv'
  BY <1>2, <1>3, <1>4, <1>11 DEF ResumeInv
<1>17. JoinInv'
  <2>1. ASSUME NEW e \in ToSet(join_queue)
        PROVE  /\ call'[e[1]].op = "join" /\ call'[e[1]].tid = e[2]
               /\ call'[e[1]].at \in InYield \cup {"back"}
               /\ state'[e[1]] = "BLOCK"
    BY <1>2, <1>3, <1>5, <1>11, JoinEntries DEF JoinInv
  <2>2. ASSUME NEW t \in Tids, call'[t].op = "join"
        PROVE  \/ call'[t].at = "block"
               \/ call'[t].tid \in finished_queue'
               \/ <<t, call'[t].tid>> \in ToSet(join_queue)
    <3>1. t # running /\ call'[t] = call[t]
      BY <1>4, <1>11, <2>2
    <3>2. call[t].tid # tid
      BY <1>7, <2>2, <3>1 DEF ActsOn
    <3> QED
      BY <1>2, <1>3, <2>2, <3>1, <3>2 DEF JoinInv
  <2> QED
    BY <1>2, <1>3, <2>1, <2>2 DEF JoinInv
<1> QED
  BY <1>10, <1>12, <1>13, <1>14, <1>15, <1>16, <1>17 DEF ThreadInv

(* SelectInSeq finds the place of an entry, or 0 if there is none.         *)
LEMMA EntryPlace ==
  ASSUME NEW s \in Seq(Tids \X Tids), NEW x \in {1, 2}, NEW t
  PROVE  LET k == SelectInSeq(s, LAMBDA e : e[x] = t) IN
         \/ k = 0 /\ \A i \in 1 .. Len(s) : s[i][x] # t
         \/ k \in 1 .. Len(s) /\ s[k][x] = t
<1> DEFINE I == {i \in 1 .. Len(s) : s[i][x] = t}
<1>1. SelectInSeq(s, LAMBDA e : e[x] = t) = IF I # {} THEN Min(I) ELSE 0
  BY DEF SelectInSeq
<1>2. CASE I = {}
  BY <1>1, <1>2
<1>3. CASE I # {}
  <2>1. I \in SUBSET Nat
    OBVIOUS
  <2>2. Min(I) \in I
    <3> HIDE DEF I
    <3> QED
      BY <1>3, <2>1, LeastNumber
  <2>3. SelectInSeq(s, LAMBDA e : e[x] = t) \in I
    BY <1>1, <1>3, <2>2
  <2> QED
    BY <2>3
<1> QED
  BY <1>2, <1>3

(* What an ending thread finds in the join queue: nothing, or an entry     *)
(* that waits for it, which is then the one that removeFromJoinQueue       *)
(* erases, as a thread is in the join queue once.                          *)
LEMMA WaitingOn ==
  ASSUME ThreadInv, proc = "alive", NEW t \in Tids
  PROVE  LET k == getThreadWaitingOn(t) IN
         \/ k = 0
         \/ /\ k \in 1 .. Len(join_queue)
            /\ join_queue[k] \in ToSet(join_queue)
            /\ join_queue[k][2] = t
            /\ removeFromJoinQueue(join_queue[k][1]) \in Seq(Tids \X Tids)
            /\ IsInjective(removeFromJoinQueue(join_queue[k][1]))
            /\ ToSet(removeFromJoinQueue(join_queue[k][1]))
                 = ToSet(join_queue) \ {join_queue[k]}
<1> DEFINE k == getThreadWaitingOn(t)
           w == join_queue[k][1]
           m == SelectInSeq(join_queue, LAMBDA e : e[1] = w)
<1>1. JoinInv /\ TypeOK /\ join_queue \in Seq(Tids \X Tids)
  BY DEF ThreadInv, TypeOK
<1>2. SUFFICES ASSUME k # 0
               PROVE  /\ k \in 1 .. Len(join_queue)
                      /\ join_queue[k] \in ToSet(join_queue)
                      /\ join_queue[k][2] = t
                      /\ removeFromJoinQueue(w) \in Seq(Tids \X Tids)
                      /\ IsInjective(removeFromJoinQueue(w))
                      /\ ToSet(removeFromJoinQueue(w))
                           = ToSet(join_queue) \ {join_queue[k]}
  OBVIOUS
<1>3. k \in 1 .. Len(join_queue) /\ join_queue[k][2] = t
  BY <1>1, <1>2, EntryPlace DEF getThreadWaitingOn
<1> HIDE DEF k
<1>4. \/ m = 0 /\ \A i \in 1 .. Len(join_queue) : join_queue[i][1] # w
      \/ m \in 1 .. Len(join_queue) /\ join_queue[m][1] = w
  <2> HIDE DEF w
  <2> QED
    BY <1>1, EntryPlace
<1> HIDE DEF m
<1>5. m \in 1 .. Len(join_queue) /\ join_queue[m][1] = w
  BY <1>3, <1>4
<1>6. join_queue[m] \in ToSet(join_queue) /\ join_queue[k] \in ToSet(join_queue)
  BY <1>1, <1>3, <1>5, Members
<1>7. join_queue[m] = join_queue[k]
  <2>1. \A e \in ToSet(join_queue) : e = <<e[1], call[e[1]].tid>>
    BY <1>1, JoinEntries DEF JoinInv
  <2> QED
    BY <1>5, <1>6, <2>1
<1>8. m = k
  BY <1>1, <1>3, <1>5, <1>7, Injective DEF JoinInv
<1>9. removeFromJoinQueue(w) = RemoveAt(join_queue, k)
  BY <1>8 DEF removeFromJoinQueue, m
<1> HIDE DEF w
<1>10. /\ RemoveAt(join_queue, k) \in Seq(Tids \X Tids)
       /\ ToSet(RemoveAt(join_queue, k))
            = {join_queue[i] : i \in (1 .. Len(join_queue)) \ {k}}
       /\ IsInjective(RemoveAt(join_queue, k))
  BY <1>1, <1>3, RemoveAtMembers DEF JoinInv
<1>11. {join_queue[i] : i \in (1 .. Len(join_queue)) \ {k}}
         = ToSet(join_queue) \ {join_queue[k]}
  <2>1. \A i, j \in 1 .. Len(join_queue) : join_queue[i] = join_queue[j] => i = j
    BY <1>1, Injective DEF JoinInv
  <2>2. ToSet(join_queue) = {join_queue[i] : i \in 1 .. Len(join_queue)}
    BY <1>1 DEF ToSet
  <2> QED
    BY <1>3, <2>1, <2>2
<1> QED
  BY <1>3, <1>6, <1>9, <1>10, <1>11

(* An ending thread readies the first thread that waits for it, if any.    *)
LEMMA ExitStep == ThreadInv /\ uthread_exit => ThreadInv'
<1> SUFFICES ASSUME ThreadInv, uthread_exit PROVE ThreadInv'
  OBVIOUS
<1> DEFINE k == getThreadWaitingOn(running)
<1>1. /\ proc = "alive" /\ call[running] = NoCall /\ running # MAIN_THREAD
      /\ finished_queue' = finished_queue \cup {running}
      /\ call' = [call EXCEPT ![running] =
                    [op |-> "exit", tid |-> 0, at |-> "yield"]]
      /\ UNCHANGED <<idToTcb, running, threadIdsAvailable, context, proc>>
  BY DEF uthread_exit, Calling, finished_with, Enter
<1>2. TypeOK /\ TableInv /\ SchedulerInv /\ CallInv /\ ExitInv /\ ResumeInv /\ JoinInv
  BY <1>1 DEF ThreadInv
<1>3. 0 \in Tids /\ NoCall.op = "none"
  BY UThreadOneAssumption DEF Tids, NoCall
<1>4. /\ running \in Tids /\ idToTcb \subseteq Tids
      /\ call'[running].op = "exit" /\ call'[running].at = "yield"
      /\ \A t \in Tids \ {running} : call'[t] = call[t]
  BY <1>1, <1>2 DEF TypeOK
<1>5. TableInv' /\ ExitInv'
  BY <1>1, <1>2, <1>4 DEF TableInv, ExitInv, SchedulerInv
<1>6. CallInv'
  BY <1>1, <1>2, <1>4 DEF CallInv, ActsOn
<1>7. \A e \in ToSet(join_queue) : e[1] # running /\ e[1] \in Tids
  BY <1>1, <1>2, <1>3, JoinEntries DEF JoinInv
<1>8. CASE k = 0
  <2>1. /\ state' = [state EXCEPT ![running] = "BLOCK"]
        /\ UNCHANGED <<ready_queue, join_queue>>
    BY <1>8 DEF uthread_exit
  <2>2. TypeOK'
    BY <1>1, <1>2, <1>3, <2>1 DEF TypeOK
  <2>3. /\ state'[running] = "BLOCK"
        /\ \A t \in Tids \ {running} : state'[t] = state[t]
    BY <1>2, <2>1 DEF TypeOK
  <2>4. SchedulerInv'
    BY <1>1, <1>2, <1>4, <2>1, <2>3 DEF SchedulerInv, InYield
  <2>5. ResumeInv'
    BY <1>1, <1>2, <1>4, <2>1, <2>3 DEF ResumeInv, TypeOK
  <2>6. JoinInv'
    BY <1>1, <1>2, <1>4, <1>7, <2>1, <2>3 DEF JoinInv
  <2> QED
    BY <1>5, <1>6, <2>2, <2>4, <2>5, <2>6 DEF ThreadInv
<1>9. CASE k # 0
  <2> DEFINE e0 == join_queue[k]
             w == e0[1]
  <2>1. /\ state' = [state EXCEPT ![running] = "BLOCK", ![w] = "READY"]
        /\ ready_queue' = Append(ready_queue, w)
        /\ join_queue' = removeFromJoinQueue(w)
    BY <1>9 DEF uthread_exit
  <2>2. /\ e0 \in ToSet(join_queue) /\ e0[2] = running
        /\ removeFromJoinQueue(w) \in Seq(Tids \X Tids)
        /\ IsInjective(removeFromJoinQueue(w))
        /\ ToSet(removeFromJoinQueue(w)) = ToSet(join_queue) \ {e0}
    BY <1>1, <1>4, <1>9, WaitingOn
  <2> HIDE DEF e0
  <2>3. /\ w \in Tids /\ w # running /\ state[w] = "BLOCK"
        /\ call[w].op = "join" /\ call[w].tid = running
        /\ w \in idToTcb /\ w \notin ToSet(ready_queue)
        /\ e0 = <<w, running>>
    BY <1>2, <1>7, <2>2, JoinEntries DEF JoinInv, CallInv, SchedulerInv
  <2> HIDE DEF w
  <2>4. /\ ready_queue' \in Seq(Tids) /\ IsInjective(ready_queue')
        /\ ToSet(ready_queue') = ToSet(ready_queue) \cup {w}
    BY <1>2, <2>1, <2>3, AppendMembers DEF TypeOK, SchedulerInv
  <2>5. TypeOK'
    BY <1>1, <1>2, <1>3, <2>1, <2>2, <2>4 DEF TypeOK
  <2>6. /\ state'[running] = "BLOCK" /\ state'[w] = "READY"
        /\ \A t \in Tids \ {running, w} : state'[t] = state[t]
    BY <1>2, <1>4, <2>1, <2>3 DEF TypeOK
  <2>7. SchedulerInv'
    BY <1>1, <1>2, <1>4, <2>3, <2>4, <2>6 DEF SchedulerInv, InYield
  <2>8. ResumeInv'
    <3>1. ASSUME NEW t \in Tids, call'[t].op = "resume"
          PROVE  /\ state'[call'[t].tid] = "BLOCK"
                 /\ call'[t].tid # running
                 /\ \A e \in ToSet(join_queue') : e[1] # call'[t].tid
      <4>1. call'[t] = call[t] /\ call[t].op = "resume" /\ call[t].tid \in Tids
        BY <1>2, <1>4, <3>1 DEF TypeOK
      <4>2. call[t].tid # w
        BY <1>2, <2>2, <4>1 DEF ResumeInv, w
      <4> QED
        BY <1>2, <2>1, <2>2, <2>6, <4>1, <4>2 DEF ResumeInv
    <3> QED
      BY <1>1, <3>1 DEF ResumeInv
  <2>9. JoinInv'
    <3>1. ASSUME NEW e \in ToSet(join_queue')
          PROVE  /\ call'[e[1]].op = "join" /\ call'[e[1]].tid = e[2]
                 /\ call'[e[1]].at \in InYield \cup {"back"}
                 /\ state'[e[1]] = "BLOCK"
      <4>1. e \in ToSet(join_queue) /\ e # e0
        BY <2>1, <2>2
      <4>2. e = <<e[1], call[e[1]].tid>>
        BY <1>2, <4>1, JoinEntries DEF JoinInv
      <4>3. e[1] # w
        BY <2>3, <4>1, <4>2
      <4> QED
        BY <1>2, <1>4, <1>7, <2>6, <4>1, <4>3 DEF JoinInv
    <3>2. ASSUME NEW t \in Tids, call'[t].op = "join"
          PROVE  \/ call'[t].at = "block"
                 \/ call'[t].tid \in finished_queue'
                 \/ <<t, call'[t].tid>> \in ToSet(join_queue')
      <4>1. t # running /\ call'[t] = call[t]
        BY <1>4, <3>2
      <4>2. CASE t = w
        BY <1>1, <2>3, <4>1, <4>2
      <4>3. CASE t # w
        <5>1. <<t, call[t].tid>> # e0
          BY <2>3, <4>3
        <5> QED
          BY <1>1, <1>2, <2>1, <2>2, <3>2, <4>1, <5>1 DEF JoinInv
      <4> QED
        BY <4>2, <4>3
    <3> QED
      BY <2>1, <2>2, <3>1, <3>2 DEF JoinInv
  <2> QED
    BY <1>5, <1>6, <2>5, <2>7, <2>8, <2>9 DEF ThreadInv
<1> QED
  BY <1>8, <1>9

(* A suspended thread leaves the ready queue; a thread that suspends       *)
(* itself is on its way out of the processor.                              *)
LEMMA SuspendStep == ThreadInv /\ uthread_suspend => ThreadInv'
<1> SUFFICES ASSUME ThreadInv, uthread_suspend PROVE ThreadInv'
  OBVIOUS
<1> DEFINE tid == call[running].tid
<1>1. /\ proc = "alive" /\ call[running].op = "suspend"
      /\ call[running].at = "checked"
      /\ state' = [state EXCEPT ![tid] = "BLOCK"]
      /\ ready_queue' = RemoveFirst(ready_queue, tid)
      /\ call' = IF tid = running THEN [call EXCEPT ![running].at = "yield"]
                 ELSE [call EXCEPT ![running] = NoCall]
      /\ UNCHANGED <<idToTcb, finished_queue, join_queue, running,
                     threadIdsAvailable, context, proc>>
  BY DEF uthread_suspend, In, Goto, Return, suspended_ready, removeFromQueue
<1>2. TypeOK /\ TableInv /\ SchedulerInv /\ CallInv /\ ExitInv /\ ResumeInv /\ JoinInv
  BY <1>1 DEF ThreadInv
<1>3. 0 \in Tids /\ NoCall.op = "none" /\ NoCall.at = "none"
  BY UThreadOneAssumption DEF Tids, NoCall
<1>4. running \in Tids /\ idToTcb \subseteq Tids /\ tid \in Tids
  BY <1>2 DEF TypeOK
<1> HIDE DEF tid
<1>5. /\ RemoveFirst(ready_queue, tid) \in Seq(Tids)
      /\ IsInjective(RemoveFirst(ready_queue, tid))
      /\ ToSet(RemoveFirst(ready_queue, tid)) = ToSet(ready_queue) \ {tid}
  BY <1>2, RemoveFirstMembers DEF TypeOK, SchedulerInv
<1>6. TypeOK'
  BY <1>1, <1>2, <1>3, <1>5 DEF TypeOK, NoCall
<1>7. /\ state'[tid] = "BLOCK"
      /\ \A t \in Tids \ {tid} : state'[t] = state[t]
      /\ \A t \in Tids \ {running} : call'[t] = call[t]
  BY <1>1, <1>2, <1>4 DEF TypeOK
<1>8. /\ tid = running => /\ call'[running].op = "suspend"
                          /\ call'[running].tid = call[running].tid
                          /\ call'[running].at = "yield"
      /\ tid # running => call'[running] = NoCall
  BY <1>1, <1>2, <1>4 DEF TypeOK
<1>9. TableInv'
  BY <1>1, <1>2 DEF TableInv
<1>10. SchedulerInv'
  <2>1. state'[running] # "READY"
    BY <1>2, <1>4, <1>7 DEF SchedulerInv
  <2>2. state'[running] = "BLOCK" => call'[running].at \in InYield
    BY <1>1, <1>2, <1>4, <1>7, <1>8 DEF SchedulerInv, InYield
  <2> QED
    BY <1>1, <1>2, <1>3, <1>4, <1>5, <1>7, <1>8, <2>1, <2>2 DEF SchedulerInv
<1>11. CallInv'
  <2>1. \A t \in Tids : \/ /\ call'[t].op = call[t].op
                           /\ call'[t].tid = call[t].tid
                        \/ call'[t].op = "none"
    BY <1>1, <1>3, <1>7, <1>8
  <2>2. \A t, u \in Tids : ActsOn(t, u)' => ActsOn(t, u)
    BY <2>1 DEF ActsOn
  <2> QED
    BY <1>1, <1>2, <2>1, <2>2 DEF CallInv
<1>12. ExitInv'
  BY <1>1, <1>2, <1>3, <1>4, <1>7, <1>8 DEF ExitInv
<1>13. ResumeInv'
  BY <1>1, <1>2, <1>3, <1>7, <1>8 DEF ResumeInv, TypeOK
<1>14. JoinInv'
  <2>1. \A e \in ToSet(join_queue) : e[1] # running /\ e[1] \in Tids
    BY <1>1, <1>2, JoinEntries DEF JoinInv
  <2> QED
    BY <1>1, <1>2, <1>3, <1>7, <1>8, <2>1 DEF JoinInv
<1> QED
  BY <1>6, <1>9, <1>10, <1>11, <1>12, <1>13, <1>14 DEF ThreadInv

(* A resumed thread is still blocked when its state is set, however long   *)
(* ago that was tested, and so is not queued a second time.                *)
LEMMA ResumeStep == ThreadInv /\ uthread_resume => ThreadInv'
<1> SUFFICES ASSUME ThreadInv, uthread_resume PROVE ThreadInv'
  OBVIOUS
<1> DEFINE tid == call[running].tid
<1>1. /\ proc = "alive" /\ call[running].op = "resume"
      /\ call[running].at = "checked"
      /\ state' = [state EXCEPT ![tid] = "READY"]
      /\ ready_queue' = Append(ready_queue, tid)
      /\ call' = [call EXCEPT ![running] = NoCall]
      /\ UNCHANGED <<idToTcb, finished_queue, join_queue, running,
                     threadIdsAvailable, context, proc>>
  BY DEF uthread_resume, In, Return
<1>2. TypeOK /\ TableInv /\ SchedulerInv /\ CallInv /\ ExitInv /\ ResumeInv /\ JoinInv
  BY <1>1 DEF ThreadInv
<1>3. 0 \in Tids /\ NoCall.op = "none" /\ NoCall.at = "none"
  BY UThreadOneAssumption DEF Tids, NoCall
<1>4. running \in Tids /\ idToTcb \subseteq Tids /\ tid \in Tids
  BY <1>2 DEF TypeOK
<1>5. /\ tid \in idToTcb /\ tid # running /\ state[tid] = "BLOCK"
      /\ \A e \in ToSet(join_queue) : e[1] # tid
  BY <1>1, <1>2, <1>4 DEF CallInv, ActsOn, ResumeInv
<1>6. \A u \in Tids \ {running} : call[u].op = "resume" => call[u].tid # tid
  BY <1>1, <1>2, <1>4, <1>5 DEF CallInv, ActsOn
<1> HIDE DEF tid
<1>7. tid \notin ToSet(ready_queue) /\ state[running] # "BLOCK"
  BY <1>1, <1>2, <1>5 DEF SchedulerInv, InYield
<1>8. /\ Append(ready_queue, tid) \in Seq(Tids)
      /\ IsInjective(Append(ready_queue, tid))
      /\ ToSet(Append(ready_queue, tid)) = ToSet(ready_queue) \cup {tid}
  BY <1>2, <1>4, <1>7, AppendMembers DEF TypeOK, SchedulerInv
<1>9. TypeOK'
  BY <1>1, <1>2, <1>3, <1>8 DEF TypeOK, NoCall
<1>10. /\ state'[tid] = "READY"
       /\ \A t \in Tids \ {tid} : state'[t] = state[t]
       /\ \A t \in Tids \ {running} : call'[t] = call[t]
       /\ call'[running] = NoCall
  BY <1>1, <1>2, <1>4 DEF TypeOK
<1>11. TableInv'
  BY <1>1, <1>2 DEF TableInv
<1>12. SchedulerInv'
  BY <1>1, <1>2, <1>3, <1>4, <1>5, <1>7, <1>8, <1>10 DEF SchedulerInv
<1>13. CallInv' /\ ExitInv'
  BY <1>1, <1>2, <1>3, <1>4, <1>10 DEF CallInv, ActsOn, ExitInv
<1>14. ResumeInv'
  BY <1>1, <1>2, <1>3, <1>6, <1>10 DEF ResumeInv, TypeOK
<1>15. JoinInv'
  <2>1. \A e \in ToSet(join_queue) :
          e[1] # running /\ e[1] # tid /\ e[1] \in Tids
    BY <1>1, <1>2, <1>5, JoinEntries DEF JoinInv
  <2> QED
    BY <1>1, <1>2, <1>3, <1>10, <2>1 DEF JoinInv
<1> QED
  BY <1>9, <1>11, <1>12, <1>13, <1>14, <1>15 DEF ThreadInv

(* Every step of the library keeps the invariant.                          *)
LEMMA ThreadStep ==
  ASSUME Disciplined
  PROVE  ThreadInv /\ [Next]_vars => ThreadInv'
<1> SUFFICES ASSUME ThreadInv, [Next]_vars PROVE ThreadInv'
  OBVIOUS
<1>1. CASE scheduler_function
  BY <1>1, SwitchStep DEF scheduler_function, InYield
<1>2. CASE switched_out
  BY <1>2, SwitchStep DEF switched_out, InYield
<1>3. CASE \/ getcontext \/ uthread_yield \/ returned \/ uthread_create_check
           \/ \E tid \in Tids : \/ uthread_join_check(tid)
                                \/ uthread_suspend_check(tid)
                                \/ uthread_resume_check(tid)
  BY <1>3, CallSteps
<1>4. CASE uthread_create
  BY <1>4, CreateStep
<1>5. CASE uthread_join_block
  BY <1>5, JoinBlockStep
<1>6. CASE uthread_join
  BY <1>6, JoinStep
<1>7. CASE uthread_exit
  BY <1>7, ExitStep
<1>8. CASE uthread_suspend
  BY <1>8, SuspendStep
<1>9. CASE uthread_resume
  BY <1>9, ResumeStep
<1>10. CASE UNCHANGED vars
  BY <1>10 DEF vars, queues, ThreadInv, TypeOK, TableInv, SchedulerInv, CallInv,
               ActsOn, ExitInv, ResumeInv, JoinInv
<1> QED
  BY <1>1, <1>2, <1>3, <1>4, <1>5, <1>6, <1>7, <1>8, <1>9, <1>10 DEF Next

(* The invariant holds in every reachable state.                           *)
LEMMA ThreadInvariant ==
  ASSUME Disciplined
  PROVE  Spec => []ThreadInv
<1>1. ThreadInv /\ [Next]_vars => ThreadInv'
  BY ThreadStep
<1> QED
  BY <1>1, ThreadInit, PTL DEF Spec
-----------------------------------------------------------------------------
(* Every variable of project 1's library keeps its type, for every number  *)
(* of threads.                                                             *)
THEOREM TypeCorrect ==
  ASSUME Disciplined
  PROVE  Spec => []TypeOK
<1>1. ThreadInv => TypeOK
  BY DEF ThreadInv
<1>2. Spec => []ThreadInv
  BY ThreadInvariant
<1> QED
  BY <1>1, <1>2, PTL

(* switchThreads, uthread_exit, uthread_resume and uthread_create never    *)
(* queue a thread that is queued already or runs, wherever in a call the   *)
(* timer has interrupted it.                                               *)
THEOREM QueuedOnce ==
  ASSUME Disciplined
  PROVE  Spec => []ReadyOnce
<1>1. ThreadInv => ReadyOnce
  BY DEF ThreadInv, SchedulerInv, ReadyOnce
<1>2. Spec => []ThreadInv
  BY ThreadInvariant
<1> QED
  BY <1>1, <1>2, PTL

(* No thread runs again after uthread_exit: the loop of switchThreads      *)
(* drops it, though uthread_resume may queue it, and uthread_join takes it *)
(* out of the queue before its id is used again.                           *)
THEOREM EndedThreadsStayEnded ==
  ASSUME Disciplined
  PROVE  Spec => []FinishedNeverRuns
<1>1. ThreadInv => FinishedNeverRuns
  BY DEF ThreadInv, SchedulerInv, ExitInv, FinishedNeverRuns
<1>2. Spec => []ThreadInv
  BY ThreadInvariant
<1> QED
  BY <1>1, <1>2, PTL

(* uthread_join, back from its yield, finds the thread in the finished     *)
(* queue, as the comment at uthread.cpp:289 says; it never reads the       *)
(* result of an entry that is not there.                                   *)
THEOREM JoinReturnsResult ==
  ASSUME Disciplined
  PROVE  Spec => []JoinFindsThread
<1>1. ThreadInv => JoinFindsThread
  BY JoinedHasEnded DEF JoinFindsThread
<1>2. Spec => []ThreadInv
  BY ThreadInvariant
<1> QED
  BY <1>1, <1>2, PTL

(* uthread_join gives an id back once, when no table, queue, waiting join  *)
(* or interrupted call refers to its thread any more, so that the next     *)
(* thread with the id is confused with no earlier one.                     *)
THEOREM IdsAreReusedSafely ==
  ASSUME Disciplined
  PROVE  Spec => []FreedIdUnused
<1>1. ASSUME ThreadInv PROVE FreedIdUnused
  <2>1. SUFFICES ASSUME proc = "alive"
                 PROVE  /\ IsInjective(threadIdsAvailable)
                        /\ \A tid \in ToSet(threadIdsAvailable) :
                             /\ tid \notin idToTcb \cup finished_queue
                                             \cup ToSet(ready_queue)
                             /\ tid # running
                             /\ \A e \in ToSet(join_queue) :
                                  e[1] # tid /\ e[2] # tid
                             /\ \A t \in Tids :
                                  call[t].op \in {"join", "suspend", "resume"}
                                    => t # tid /\ call[t].tid # tid
    BY DEF FreedIdUnused
  <2>2. TypeOK /\ TableInv /\ SchedulerInv /\ CallInv /\ JoinInv
    BY <1>1, <2>1 DEF ThreadInv
  <2>3. \A t \in Tids : call[t].op \in {"join", "suspend", "resume"} =>
          t \in idToTcb /\ call[t].tid \in idToTcb
    BY <2>2 DEF CallInv, ActsOn, TypeOK
  <2>4. \A e \in ToSet(join_queue) : e[1] \in idToTcb /\ e[2] \in idToTcb
    BY <2>2, <2>3, JoinEntries DEF JoinInv
  <2>5. \A tid \in ToSet(threadIdsAvailable) : tid \notin idToTcb
    BY <2>2 DEF TableInv
  <2> QED
    BY <2>2, <2>3, <2>4, <2>5 DEF TableInv, SchedulerInv
<1>2. Spec => []ThreadInv
  BY ThreadInvariant
<1> QED
  BY <1>1, <1>2, PTL
=============================================================================
