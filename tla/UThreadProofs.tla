--------------------------- MODULE UThreadProofs ---------------------------
(***************************************************************************)
(* The safety properties of project 2's thread library, proved for every   *)
(* number of threads, every start and every set of calls.                  *)
(***************************************************************************)
EXTENDS UThread, QueueLemmas, FiniteSetTheorems

\* The threads in the ready queues rdy.
QueuedIn(rdy) == UNION {ToSet(rdy[p]) : p \in Priorities}

\* Ready queues in which a thread is at most once, where prs says.
Sorted(rdy, prs) ==
  /\ rdy \in [Priorities -> Seq(Tids)]
  /\ \A p \in Priorities : IsInjective(rdy[p])
  /\ \A p \in Priorities : \A t \in ToSet(rdy[p]) : prs[t] = p

\* A thread waits in at most one join.
JoinsOnce(q) == \A i, j \in 1 .. Len(q) : q[i][1] = q[j][1] => i = j

\* The threads that wait in the join queue q.
Joiners(q) == {e[1] : e \in ToSet(q)}

\* Only a priority call holds a TCB across the point where it may be deleted.
FreedOnlyByPriorityCalls ==
  \A t \in Tids : call[t].tid = Freed =>
    call[t].op \in {"increase_priority", "decrease_priority"}

\* What every step keeps, whatever the threads do.
Base ==
  /\ TypeOK
  /\ Sorted(ready, priority)
  /\ JoinsOnce(join_queue)
  /\ FreedOnlyByPriorityCalls
  /\ NoLostJoin

\* A thread is in at most one of the queues; the running thread is in none,
\* except that it may still be ready or suspended from a wait() in which it
\* gave the lock back and was signalled before it blocked.
Parts ==
  /\ QueuedIn(ready) \cap (blocked \cup Joiners(join_queue) \cup finished_queue) = {}
  /\ blocked \cap (Joiners(join_queue) \cup finished_queue) = {}
  /\ Joiners(join_queue) \cap finished_queue = {}
  /\ QueuedIn(ready) \cup blocked \cup Joiners(join_queue) \cup finished_queue
       \subseteq threads
  /\ running \in threads
  /\ running \notin Joiners(join_queue) \cup finished_queue
  /\ running \in QueuedIn(ready) \cup blocked =>
       ~interrupts_enabled /\ context[running] = "wait_unlock"

\* Every thread is somewhere.
Everywhere ==
  threads = {running} \cup QueuedIn(ready) \cup blocked \cup Joiners(join_queue)
              \cup finished_queue

\* The inductive invariant.
UInv ==
  /\ Base
  /\ NoReadyOnlyWhenAllWait
  /\ proc = "alive" => /\ Parts
                       /\ Everywhere
                       /\ running \notin QueuedIn(ready) \cup blocked
-----------------------------------------------------------------------------
(* The ready queues.                                                       *)

(* A thread is found in the queue of its priority, or it is in none.       *)
LEMMA ReadyFind ==
  ASSUME NEW rdy, NEW prs \in [Tids -> Priorities], Sorted(rdy, prs),
         NEW t \in Tids
  PROVE  isReady(rdy, prs, t) <=> t \in QueuedIn(rdy)
<1>1. prs[t] \in Priorities /\ rdy[prs[t]] \in Seq(Tids)
  BY DEF Sorted
<1>2. isReady(rdy, prs, t) <=> t \in ToSet(rdy[prs[t]])
  BY <1>1, Members DEF isReady
<1>3. \A p \in Priorities : t \in ToSet(rdy[p]) => p = prs[t]
  BY DEF Sorted
<1> QED
  BY <1>1, <1>2, <1>3 DEF QueuedIn

(* addToReady queues a thread that is nowhere in the queues.               *)
LEMMA ReadyAdd ==
  ASSUME NEW rdy, NEW prs \in [Tids -> Priorities], Sorted(rdy, prs),
         NEW t \in Tids, t \notin QueuedIn(rdy)
  PROVE  /\ Sorted(addToReady(rdy, prs, t), prs)
         /\ QueuedIn(addToReady(rdy, prs, t)) = QueuedIn(rdy) \cup {t}
<1> DEFINE q == prs[t]
           new == addToReady(rdy, prs, t)
<1>1. /\ q \in Priorities /\ rdy \in [Priorities -> Seq(Tids)]
      /\ \A p \in Priorities : rdy[p] \in Seq(Tids) /\ IsInjective(rdy[p])
      /\ \A p \in Priorities : \A x \in ToSet(rdy[p]) : prs[x] = p
  BY DEF Sorted
<1>2. t \notin ToSet(rdy[q])
  BY <1>1 DEF QueuedIn
<1>3. /\ Append(rdy[q], t) \in Seq(Tids)
      /\ ToSet(Append(rdy[q], t)) = ToSet(rdy[q]) \cup {t}
      /\ IsInjective(Append(rdy[q], t))
  BY <1>1, <1>2, AppendMembers
<1>4. /\ new \in [Priorities -> Seq(Tids)]
      /\ new[q] = Append(rdy[q], t)
      /\ \A p \in Priorities \ {q} : new[p] = rdy[p]
  BY <1>1, <1>3 DEF addToReady
<1> HIDE DEF new
<1>5. \A p \in Priorities : ToSet(new[p]) = IF p = q THEN ToSet(rdy[p]) \cup {t}
                                            ELSE ToSet(rdy[p])
  BY <1>3, <1>4
<1>6. \A p \in Priorities : IsInjective(new[p])
  BY <1>1, <1>3, <1>4
<1>7. \A p \in Priorities : \A x \in ToSet(new[p]) : prs[x] = p
  BY <1>1, <1>5
<1>8. QueuedIn(new) = QueuedIn(rdy) \cup {t}
  <2> HIDE DEF q
  <2>1. /\ t \in ToSet(new[q])
        /\ \A p \in Priorities : ToSet(rdy[p]) \subseteq ToSet(new[p])
        /\ \A p \in Priorities : ToSet(new[p]) \subseteq ToSet(rdy[p]) \cup {t}
    BY <1>1, <1>5
  <2>2. t \in QueuedIn(new)
    BY <1>1, <2>1 DEF QueuedIn
  <2>3. QueuedIn(rdy) \subseteq QueuedIn(new)
    BY <2>1 DEF QueuedIn
  <2>4. QueuedIn(new) \subseteq QueuedIn(rdy) \cup {t}
    BY <2>1 DEF QueuedIn
  <2> QED
    BY <2>2, <2>3, <2>4
<1>9. Sorted(new, prs)
  BY <1>4, <1>6, <1>7 DEF Sorted
<1> QED
  BY <1>8, <1>9 DEF new

(* removeFromReady takes a thread out of the queues.                       *)
LEMMA ReadyRemove ==
  ASSUME NEW rdy, NEW prs \in [Tids -> Priorities], Sorted(rdy, prs),
         NEW t \in Tids
  PROVE  /\ Sorted(removeFromReady(rdy, prs, t), prs)
         /\ QueuedIn(removeFromReady(rdy, prs, t)) = QueuedIn(rdy) \ {t}
<1> DEFINE q == prs[t]
           new == removeFromReady(rdy, prs, t)
<1>1. /\ q \in Priorities /\ rdy \in [Priorities -> Seq(Tids)]
      /\ \A p \in Priorities : rdy[p] \in Seq(Tids) /\ IsInjective(rdy[p])
      /\ \A p \in Priorities : \A x \in ToSet(rdy[p]) : prs[x] = p
  BY DEF Sorted
<1>2. /\ RemoveFirst(rdy[q], t) \in Seq(Tids)
      /\ IsInjective(RemoveFirst(rdy[q], t))
      /\ ToSet(RemoveFirst(rdy[q], t)) = ToSet(rdy[q]) \ {t}
  BY <1>1, RemoveFirstMembers
<1>3. /\ new \in [Priorities -> Seq(Tids)]
      /\ new[q] = RemoveFirst(rdy[q], t)
      /\ \A p \in Priorities \ {q} : new[p] = rdy[p]
  BY <1>1, <1>2 DEF removeFromReady
<1> HIDE DEF new
<1>4. \A p \in Priorities : ToSet(new[p]) = ToSet(rdy[p]) \ {t}
  BY <1>1, <1>2, <1>3
<1>5. \A p \in Priorities : IsInjective(new[p])
  BY <1>1, <1>2, <1>3
<1>6. \A p \in Priorities : \A x \in ToSet(new[p]) : prs[x] = p
  BY <1>1, <1>4
<1>7. QueuedIn(new) = QueuedIn(rdy) \ {t}
  BY <1>4 DEF QueuedIn
<1>8. Sorted(new, prs)
  BY <1>3, <1>5, <1>6 DEF Sorted
<1> QED
  BY <1>7, <1>8 DEF new

(* A change of priority does not disturb queues the thread is not in.      *)
LEMMA ReadyElsewhere ==
  ASSUME NEW rdy, NEW prs \in [Tids -> Priorities], Sorted(rdy, prs),
         NEW t \in Tids, t \notin QueuedIn(rdy), NEW to \in Priorities
  PROVE  Sorted(rdy, [prs EXCEPT ![t] = to])
<1>1. \A p \in Priorities : \A x \in ToSet(rdy[p]) : x # t
  BY DEF QueuedIn
<1>2. \A p \in Priorities : \A x \in ToSet(rdy[p]) : x \in Tids
  <2>1. \A p \in Priorities : ToSet(rdy[p]) \subseteq Tids
    BY Members DEF Sorted
  <2> QED
    BY <2>1
<1> QED
  BY <1>1, <1>2 DEF Sorted

(* A ready thread whose priority changes moves to its new queue.           *)
LEMMA ReadyMove ==
  ASSUME NEW rdy, NEW prs \in [Tids -> Priorities], Sorted(rdy, prs),
         NEW t \in Tids, NEW to \in Priorities
  PROVE  LET new == [prs EXCEPT ![t] = to]
             moved == IF isReady(rdy, prs, t)
                        THEN addToReady(removeFromReady(rdy, prs, t), new, t)
                        ELSE rdy
         IN /\ new \in [Tids -> Priorities]
            /\ Sorted(moved, new)
            /\ QueuedIn(moved) = QueuedIn(rdy)
<1> DEFINE new == [prs EXCEPT ![t] = to]
           rest == removeFromReady(rdy, prs, t)
<1>1. new \in [Tids -> Priorities]
  OBVIOUS
<1>2. CASE t \notin QueuedIn(rdy)
  <2>1. ~isReady(rdy, prs, t)
    BY <1>2, ReadyFind
  <2>2. Sorted(rdy, new)
    BY <1>2, ReadyElsewhere
  <2> QED
    BY <1>1, <2>1, <2>2
<1>3. CASE t \in QueuedIn(rdy)
  <2>1. isReady(rdy, prs, t)
    BY <1>3, ReadyFind
  <2>2. Sorted(rest, prs) /\ QueuedIn(rest) = QueuedIn(rdy) \ {t}
    BY ReadyRemove
  <2> HIDE DEF rest
  <2>3. t \notin QueuedIn(rest)
    BY <2>2
  <2>4. Sorted(rest, new)
    BY <2>2, <2>3, ReadyElsewhere
  <2> HIDE DEF new
  <2>5. /\ Sorted(addToReady(rest, new, t), new)
        /\ QueuedIn(addToReady(rest, new, t)) = QueuedIn(rest) \cup {t}
    BY <1>1, <2>3, <2>4, ReadyAdd
  <2>6. QueuedIn(addToReady(rest, new, t)) = QueuedIn(rdy)
    BY <1>3, <2>2, <2>5
  <2> QED
    BY <1>1, <2>1, <2>5, <2>6 DEF new, rest
<1> QED
  BY <1>2, <1>3

(* switchThreads pops a ready thread, or finds that there is none.         *)
LEMMA Switch ==
  ASSUME NEW rdy, NEW prs \in [Tids -> Priorities], Sorted(rdy, prs),
         running \in Tids, context \in [Tids -> Contexts], proc = "alive",
         NEW c \in Contexts, switchThreads(rdy, c)
  PROVE  /\ Sorted(ready', prs)
         /\ running' \in Tids
         /\ context' \in [Tids -> Contexts]
         /\ \/ /\ proc' = "alive" /\ running' \in QueuedIn(rdy)
               /\ QueuedIn(ready') = QueuedIn(rdy) \ {running'}
               /\ context' = [context EXCEPT ![running] = c]
               /\ interrupts_enabled' = FALSE
            \/ /\ proc' = "no_ready" /\ QueuedIn(rdy) = {} /\ ready' = rdy
               /\ UNCHANGED <<running, context, interrupts_enabled>>
<1>1. /\ rdy \in [Priorities -> Seq(Tids)]
      /\ \A p \in Priorities : rdy[p] \in Seq(Tids) /\ IsInjective(rdy[p])
      /\ \A p \in Priorities : \A x \in ToSet(rdy[p]) : prs[x] = p
  BY DEF Sorted
<1>2. CASE NothingReady(rdy)
  <2>1. \A p \in Priorities : ToSet(rdy[p]) = {}
    BY <1>1, <1>2, Members DEF NothingReady
  <2>2. QueuedIn(rdy) = {}
    BY <2>1 DEF QueuedIn
  <2> QED
    BY <1>2, <2>2 DEF switchThreads
<1>3. CASE ~NothingReady(rdy)
  <2> DEFINE h == Highest(rdy)
             next == Head(rdy[h])
  <2>1. h \in Priorities /\ rdy[h] # << >>
    <3>1. \E p \in Priorities : rdy[p] # << >>
      BY <1>3 DEF NothingReady
    <3>2. \E p \in Priorities : /\ rdy[p] # << >>
                                /\ \A q \in Priorities : rdy[q] # << >> => p <= q
      BY <3>1 DEF Priorities, RED, ORANGE, GREEN
    <3> QED
      BY <3>2 DEF Highest
  <2>2. /\ ready' = [rdy EXCEPT ![h] = Tail(@)]
        /\ running' = next
        /\ context' = [context EXCEPT ![running] = c]
        /\ interrupts_enabled' = FALSE
        /\ proc' = "alive"
    BY <1>3 DEF switchThreads, switchToThread
  <2> HIDE DEF h
  <2>3. /\ Tail(rdy[h]) \in Seq(Tids) /\ next \in Tids
        /\ ToSet(rdy[h]) = ToSet(Tail(rdy[h])) \cup {next}
        /\ IsInjective(Tail(rdy[h])) /\ next \notin ToSet(Tail(rdy[h]))
    BY <1>1, <2>1, TailMembers
  <2> HIDE DEF next
  <2>4. /\ ready' \in [Priorities -> Seq(Tids)]
        /\ ready'[h] = Tail(rdy[h])
        /\ \A p \in Priorities \ {h} : ready'[p] = rdy[p]
    BY <1>1, <2>1, <2>2, <2>3
  <2>5. \A p \in Priorities : IsInjective(ready'[p])
    BY <1>1, <2>3, <2>4
  <2>6. \A p \in Priorities : next \in ToSet(rdy[p]) => p = h
    BY <1>1, <2>1, <2>3
  <2>7. \A p \in Priorities : ToSet(ready'[p]) = ToSet(rdy[p]) \ {next}
    BY <2>3, <2>4, <2>6
  <2>8. \A p \in Priorities : \A x \in ToSet(ready'[p]) : prs[x] = p
    BY <1>1, <2>7
  <2>9. Sorted(ready', prs)
    BY <2>4, <2>5, <2>8 DEF Sorted
  <2>10. next \in QueuedIn(rdy)
    BY <2>1, <2>3 DEF QueuedIn
  <2>11. QueuedIn(ready') = QueuedIn(rdy) \ {next}
    <3>1. \A x : x \in QueuedIn(ready') <=> x \in QueuedIn(rdy) /\ x # next
      BY <2>7, Zenon DEF QueuedIn
    <3> QED
      BY <3>1
  <2>12. context' \in [Tids -> Contexts]
    BY <2>2
  <2> QED
    BY <2>2, <2>3, <2>9, <2>10, <2>11, <2>12
<1> QED
  BY <1>2, <1>3

-----------------------------------------------------------------------------
(* The join queue.                                                         *)

(* A thread that joins for the first time is one more joiner.              *)
LEMMA JoinAppend ==
  ASSUME NEW q \in Seq(Tids \X Tids), NEW e \in Tids \X Tids
  PROVE  /\ Append(q, e) \in Seq(Tids \X Tids)
         /\ ToSet(Append(q, e)) = ToSet(q) \cup {e}
         /\ Joiners(Append(q, e)) = Joiners(q) \cup {e[1]}
         /\ JoinsOnce(q) /\ e[1] \notin Joiners(q) => JoinsOnce(Append(q, e))
<1>1. Append(q, e) \in Seq(Tids \X Tids) /\ ToSet(Append(q, e)) = ToSet(q) \cup {e}
  BY AppendMembers
<1>2. Joiners(Append(q, e)) = Joiners(q) \cup {e[1]}
  BY <1>1, Zenon DEF Joiners
<1>3. ASSUME JoinsOnce(q), e[1] \notin Joiners(q)
      PROVE  JoinsOnce(Append(q, e))
  <2> DEFINE r == Append(q, e)
  <2>1. /\ Len(q) \in Nat /\ Len(r) = Len(q) + 1
        /\ \A i \in 1 .. Len(q) : r[i] = q[i]
        /\ r[Len(q) + 1] = e
    BY AppendProperties
  <2>2. \A i \in 1 .. Len(q) : q[i][1] # e[1]
    <3>1. \A i \in 1 .. Len(q) : q[i] \in ToSet(q)
      BY Members
    <3> QED
      BY <1>3, <3>1 DEF Joiners
  <2> HIDE DEF r
  <2>3. \A i \in 1 .. Len(r) : i \in 1 .. Len(q) \/ i = Len(q) + 1
    BY <2>1
  <2>4. ASSUME NEW i \in 1 .. Len(r), NEW j \in 1 .. Len(r), r[i][1] = r[j][1]
        PROVE  i = j
    BY <1>3, <2>1, <2>2, <2>3, <2>4 DEF JoinsOnce
  <2>5. JoinsOnce(r)
    BY <2>4 DEF JoinsOnce
  <2> QED
    BY <2>5 DEF r
<1> QED
  BY <1>1, <1>2, <1>3

\* What the loop of moveFromJoinToReady has done after k rounds.
Moved(k, tid) ==
  {s \in [ready : [Priorities -> Seq(Tids)], kept : Seq(Tids \X Tids)] :
     /\ Sorted(s.ready, priority)
     /\ JoinsOnce(s.kept)
     /\ \A e \in ToSet(s.kept) : e[2] # tid /\ e \in ToSet(join_queue)
     /\ Joiners(s.kept) \cap QueuedIn(s.ready) = {}
     /\ Joiners(s.kept) \cup QueuedIn(s.ready)
          = QueuedIn(ready) \cup {join_queue[i][1] : i \in 1 .. k}}

(* One round of the loop, on an entry whose joiner it has not met.         *)
LEMMA MoveRound ==
  ASSUME priority \in [Tids -> Priorities], join_queue \in Seq(Tids \X Tids),
         JoinsOnce(join_queue), Joiners(join_queue) \cap QueuedIn(ready) = {},
         NEW tid, NEW k \in 1 .. Len(join_queue), NEW s \in Moved(k - 1, tid)
  PROVE  JoinRound(s, join_queue[k], tid) \in Moved(k, tid)
<1> DEFINE e == join_queue[k]
           R == QueuedIn(ready)
           Before == {join_queue[i][1] : i \in 1 .. k - 1}
<1>1. /\ s \in [ready : [Priorities -> Seq(Tids)], kept : Seq(Tids \X Tids)]
      /\ Sorted(s.ready, priority)
      /\ JoinsOnce(s.kept)
      /\ \A x \in ToSet(s.kept) : x[2] # tid /\ x \in ToSet(join_queue)
      /\ Joiners(s.kept) \cap QueuedIn(s.ready) = {}
      /\ Joiners(s.kept) \cup QueuedIn(s.ready) = R \cup Before
  BY DEF Moved
<1>2. e \in Tids \X Tids /\ e \in ToSet(join_queue)
  BY Members
<1>3. e[1] \in Tids /\ e[1] \notin R
  BY <1>2 DEF Joiners
<1>4. e[1] \notin Before
  <2>1. Len(join_queue) \in Nat
    OBVIOUS
  <2>2. \A i \in 1 .. k - 1 : i \in 1 .. Len(join_queue) /\ i # k
    BY <2>1
  <2>3. \A i \in 1 .. k - 1 : join_queue[i][1] # e[1]
    BY <2>2 DEF JoinsOnce
  <2> QED
    BY <2>3
<1>5. {join_queue[i][1] : i \in 1 .. k} = Before \cup {e[1]}
  <2>1. \A i \in 1 .. k : i \in 1 .. k - 1 \/ i = k
    OBVIOUS
  <2>2. \A i \in 1 .. k - 1 : i \in 1 .. k
    OBVIOUS
  <2> QED
    BY <2>1, <2>2
<1>6. e[1] \notin Joiners(s.kept) /\ e[1] \notin QueuedIn(s.ready)
  <2> HIDE DEF e, R, Before
  <2> QED
    BY <1>1, <1>3, <1>4
<1> HIDE DEF e, R, Before
<1>7. CASE JoinedBy(e, tid)
  <2> DEFINE rdy == addToReady(s.ready, priority, e[1])
             new == [s EXCEPT !.ready = rdy]
  <2>1. JoinRound(s, e, tid) = new
    BY <1>1, <1>7 DEF JoinRound
  <2>2. Sorted(rdy, priority)
    BY <1>1, <1>3, <1>6, ReadyAdd
  <2>3. QueuedIn(rdy) = QueuedIn(s.ready) \cup {e[1]}
    BY <1>1, <1>3, <1>6, ReadyAdd
  <2>4. rdy \in [Priorities -> Seq(Tids)]
    BY <2>2 DEF Sorted
  <2> HIDE DEF rdy
  <2>5. /\ new \in [ready : [Priorities -> Seq(Tids)], kept : Seq(Tids \X Tids)]
        /\ new.ready = rdy /\ new.kept = s.kept
    BY <1>1, <2>4
  <2> HIDE DEF new
  <2>6. /\ Joiners(new.kept) \cap QueuedIn(new.ready) = {}
        /\ Joiners(new.kept) \cup QueuedIn(new.ready) = R \cup Before \cup {e[1]}
    BY <1>1, <1>6, <2>3, <2>5
  <2>7. new \in Moved(k, tid)
    BY <1>1, <1>5, <2>2, <2>5, <2>6 DEF Moved, R
  <2> QED
    BY <2>1, <2>7 DEF e
<1>8. CASE ~JoinedBy(e, tid)
  <2> DEFINE q == Append(s.kept, e)
             new == [s EXCEPT !.kept = q]
  <2>1. JoinRound(s, e, tid) = new
    BY <1>1, <1>8 DEF JoinRound
  <2>2. s.kept \in Seq(Tids \X Tids) /\ s.ready \in [Priorities -> Seq(Tids)]
    BY <1>1
  <2>3. /\ q \in Seq(Tids \X Tids)
        /\ ToSet(q) = ToSet(s.kept) \cup {e}
        /\ Joiners(q) = Joiners(s.kept) \cup {e[1]}
    BY <1>2, <2>2, JoinAppend
  <2>4. JoinsOnce(q)
    BY <1>1, <1>2, <1>6, <2>2, JoinAppend
  <2> HIDE DEF q
  <2>5. /\ new \in [ready : [Priorities -> Seq(Tids)], kept : Seq(Tids \X Tids)]
        /\ new.ready = s.ready /\ new.kept = q
    BY <1>1, <2>2, <2>3
  <2> HIDE DEF new
  <2>6. /\ Joiners(new.kept) \cap QueuedIn(new.ready) = {}
        /\ Joiners(new.kept) \cup QueuedIn(new.ready) = R \cup Before \cup {e[1]}
    BY <1>1, <1>6, <2>3, <2>5
  <2>7. \A x \in ToSet(new.kept) : x[2] # tid /\ x \in ToSet(join_queue)
    BY <1>1, <1>2, <1>8, <2>3, <2>5 DEF JoinedBy
  <2>8. new \in Moved(k, tid)
    BY <1>1, <1>5, <2>4, <2>5, <2>6, <2>7 DEF Moved, R
  <2> QED
    BY <2>1, <2>8 DEF e
<1> QED
  BY <1>7, <1>8

(* The loop readies the joiners of a thread and keeps the others waiting.  *)
LEMMA MoveJoiners ==
  ASSUME priority \in [Tids -> Priorities], join_queue \in Seq(Tids \X Tids),
         Sorted(ready, priority), JoinsOnce(join_queue),
         Joiners(join_queue) \cap QueuedIn(ready) = {}, NEW tid \in Tids
  PROVE  moveFromJoinToReady(tid) \in Moved(Len(join_queue), tid)
<1> DEFINE n == Len(join_queue)
           S == [ready : [Priorities -> Seq(Tids)], kept : Seq(Tids \X Tids)]
           start == [ready |-> ready, kept |-> << >>]
           X == [k \in 0 .. n |-> Moved(k, tid)]
           step == [k \in 1 .. n |-> [s \in S |-> JoinRound(s, join_queue[k], tid)]]
           F == CHOOSE f : f = [k \in 0 .. n |->
                  IF k = 0 THEN [ready |-> ready, kept |-> << >>]
                           ELSE JoinRound(f[k - 1], join_queue[k], tid)]
<1>1. n \in Nat
  OBVIOUS
<1>2. start \in S
  BY DEF Sorted
<1>3. step \in [1 .. n -> [S -> S]]
  <2>1. ASSUME NEW k \in 1 .. n, NEW s \in S
        PROVE  JoinRound(s, join_queue[k], tid) \in S
    <3>1. /\ join_queue[k] \in Tids \X Tids
          /\ s.ready \in [Priorities -> Seq(Tids)] /\ s.kept \in Seq(Tids \X Tids)
      OBVIOUS
    <3>2. addToReady(s.ready, priority, join_queue[k][1]) \in [Priorities -> Seq(Tids)]
      BY <3>1 DEF addToReady
    <3>3. Append(s.kept, join_queue[k]) \in Seq(Tids \X Tids)
      BY <3>1
    <3> QED
      BY <3>1, <3>2, <3>3 DEF JoinRound
  <2> HIDE DEF S, n
  <2> QED
    BY <2>1
<1>4. PICK run \in [0 .. n -> S] :
         run[0] = start /\ \A k \in 1 .. n : run[k] = step[k][run[k - 1]]
  <2> HIDE DEF n, S, start, step
  <2>1. LoopRun(S, start, n, step) # {}
    BY <1>1, <1>2, <1>3, LoopRuns
  <2> QED
    BY <2>1 DEF LoopRun
<1>5. \A k \in 1 .. n : step[k][run[k - 1]] = JoinRound(run[k - 1], join_queue[k], tid)
  <2> HIDE DEF S
  <2>1. \A k \in 1 .. n : k - 1 \in 0 .. n
    BY <1>1
  <2> HIDE DEF n
  <2> QED
    BY <1>4, <2>1
<1>6. run = [k \in 0 .. n |-> IF k = 0 THEN start
                              ELSE JoinRound(run[k - 1], join_queue[k], tid)]
  <2> HIDE DEF step, start, S
  <2>1. \A k \in 0 .. n : k # 0 => k \in 1 .. n
    BY <1>1
  <2> HIDE DEF n
  <2>2. \A k \in 0 .. n : run[k] = IF k = 0 THEN start
                              ELSE JoinRound(run[k - 1], join_queue[k], tid)
    BY <1>4, <1>5, <2>1
  <2> QED
    BY <2>2
<1>7. F = [k \in 0 .. n |-> IF k = 0 THEN start
                            ELSE JoinRound(F[k - 1], join_queue[k], tid)]
  BY <1>6
<1>8. moveFromJoinToReady(tid) = F[n]
  BY DEF moveFromJoinToReady
<1> HIDE DEF F
<1>9. F[0] \in Moved(0, tid)
  <2>1. F[0] = start
    BY <1>1, <1>7
  <2>2. start.ready = ready /\ start.kept = << >> /\ ToSet(<< >>) = {}
    BY DEF ToSet
  <2>3. JoinsOnce(<< >>) /\ Joiners(<< >>) = {}
    BY <2>2 DEF JoinsOnce, Joiners
  <2>4. {join_queue[i][1] : i \in 1 .. 0} = {}
    OBVIOUS
  <2> HIDE DEF start
  <2>5. start \in Moved(0, tid)
    BY <1>2, <2>2, <2>3, <2>4 DEF Moved
  <2> QED
    BY <2>1, <2>5
<1>10. ASSUME NEW k \in 1 .. n, F[k - 1] \in Moved(k - 1, tid)
       PROVE  F[k] \in Moved(k, tid)
  <2>1. F[k] = JoinRound(F[k - 1], join_queue[k], tid)
    <3>1. k \in 0 .. n /\ k # 0
      BY <1>1
    <3> HIDE DEF n
    <3> QED
      BY <1>7, <3>1
  <2>2. JoinRound(F[k - 1], join_queue[k], tid) \in Moved(k, tid)
    BY <1>10, MoveRound
  <2> QED
    BY <2>1, <2>2
<1>11. F[0] \in X[0]
  BY <1>1, <1>9
<1>12. \A k \in 1 .. n : F[k - 1] \in X[k - 1] => F[k] \in X[k]
  <2>1. \A k \in 1 .. n : k \in 0 .. n /\ k - 1 \in 0 .. n
    BY <1>1
  <2> HIDE DEF n
  <2> QED
    BY <1>10, <2>1
<1>13. F[n] \in X[n]
  <2> HIDE DEF X, n
  <2>1. n \in 0 .. n
    BY <1>1
  <2> QED
    BY <1>1, <1>11, <1>12, <2>1, LoopInvariant
<1> QED
  BY <1>1, <1>8, <1>13

-----------------------------------------------------------------------------
(* Boosting.                                                               *)

BoostRecords ==
  [priority : [Tids -> Priorities], ready : [Priorities -> Seq(Tids)],
   numBoosts : [Tids -> Nat \cup {NoBoosts}],
   low : SUBSET (Tids \cup {Freed}), med : SUBSET (Tids \cup {Freed})]

\* What boosting may make of the scheduler: the same threads are ready, each
\* in the queue of its priority.
Boosts ==
  {b \in BoostRecords :
     /\ Sorted(b.ready, b.priority)
     /\ QueuedIn(b.ready) = QueuedIn(ready)}

(* The parts of a boosted scheduler state.                                 *)
LEMMA BoostParts ==
  ASSUME NEW b \in Boosts
  PROVE  /\ b \in BoostRecords
         /\ b.priority \in [Tids -> Priorities]
         /\ b.ready \in [Priorities -> Seq(Tids)]
         /\ b.numBoosts \in [Tids -> Nat \cup {NoBoosts}]
         /\ b.low \in SUBSET (Tids \cup {Freed})
         /\ b.med \in SUBSET (Tids \cup {Freed})
         /\ Sorted(b.ready, b.priority)
         /\ QueuedIn(b.ready) = QueuedIn(ready)
BY DEF Boosts, BoostRecords

(* Priorities stay in range.                                               *)
LEMMA PriorityRange ==
  ASSUME NEW p \in Priorities
  PROVE  increasePriority(p) \in Priorities /\ decreasePriority(p) \in Priorities
BY DEF increasePriority, decreasePriority, Priorities, RED, ORANGE, GREEN

(* A boosted thread moves to the queue of its new priority.                *)
LEMMA RaiseKeepsQueues ==
  ASSUME NEW b \in Boosts, NEW t \in Tids
  PROVE  /\ RaisePriority(b, t) \in Boosts
         /\ RaisePriority(b, t).low = b.low /\ RaisePriority(b, t).med = b.med
         /\ RaisePriority(b, t).numBoosts = b.numBoosts
<1> DEFINE to == increasePriority(b.priority[t])
           new == [b.priority EXCEPT ![t] = to]
           moved == IF isReady(b.ready, b.priority, t)
                      THEN addToReady(removeFromReady(b.ready, b.priority, t), new, t)
                      ELSE b.ready
           r == [b EXCEPT !.priority = new, !.ready = moved]
<1>1. RaisePriority(b, t) = r
  BY BoostParts DEF RaisePriority
<1>2. to \in Priorities
  BY BoostParts, PriorityRange
<1> HIDE DEF to
<1>3. /\ new \in [Tids -> Priorities]
      /\ Sorted(moved, new)
      /\ QueuedIn(moved) = QueuedIn(b.ready)
  BY <1>2, BoostParts, ReadyMove
<1>4. moved \in [Priorities -> Seq(Tids)]
  BY <1>3 DEF Sorted
<1> HIDE DEF new, moved
<1>5. /\ r \in BoostRecords /\ r.priority = new /\ r.ready = moved
      /\ r.low = b.low /\ r.med = b.med /\ r.numBoosts = b.numBoosts
  BY <1>3, <1>4, BoostParts DEF BoostRecords
<1> HIDE DEF r
<1>6. r \in Boosts
  BY <1>3, <1>5, BoostParts DEF Boosts
<1> QED
  BY <1>1, <1>5, <1>6

(* One round of boosting_logic.                                            *)
LEMMA BoostRound ==
  ASSUME NEW b \in Boosts, NEW t \in Tids, NEW which
  PROVE  BoostOne(b, t, which) \in Boosts
<1> DEFINE r == RaisePriority(b, t)
           boosts == [r.numBoosts EXCEPT ![t] = IF @ = NoBoosts THEN 1 ELSE @ + 1]
           set == IF r.priority[t] = ORANGE THEN r.med \cup {t} ELSE r.med
           low == IF which = "med" THEN r.low ELSE r.low \ {t}
           med == IF which = "med" THEN set \ {t} ELSE set
           s == [r EXCEPT !.numBoosts[t] = IF @ = NoBoosts THEN 1 ELSE @ + 1,
                          !.med = IF r.priority[t] = ORANGE THEN @ \cup {t} ELSE @]
<1>1. r \in Boosts
  BY RaiseKeepsQueues
<1>2. BoostOne(b, t, which) = IF which = "med" THEN [s EXCEPT !.med = @ \ {t}]
                                               ELSE [s EXCEPT !.low = @ \ {t}]
  BY DEF BoostOne
<1> HIDE DEF r
<1>3. boosts \in [Tids -> Nat \cup {NoBoosts}]
  <2>1. r.numBoosts[t] \in Nat \cup {NoBoosts} /\ NoBoosts \notin Nat
    BY <1>1, BoostParts DEF NoBoosts
  <2> QED
    BY <1>1, <2>1, BoostParts
<1>4. /\ low \in SUBSET (Tids \cup {Freed})
      /\ med \in SUBSET (Tids \cup {Freed})
      /\ set \in SUBSET (Tids \cup {Freed})
  BY <1>1, BoostParts
<1>5. /\ s \in BoostRecords /\ s.priority = r.priority /\ s.ready = r.ready
      /\ s.low = r.low /\ s.med = set /\ s.numBoosts = boosts
  <2>1. s = [r EXCEPT !.numBoosts = boosts, !.med = set]
    BY <1>1, BoostParts DEF BoostRecords
  <2> HIDE DEF boosts, set
  <2> QED
    BY <1>1, <1>3, <1>4, <2>1, BoostParts DEF BoostRecords
<1> HIDE DEF s, boosts, set
<1>6. /\ BoostOne(b, t, which) \in BoostRecords
      /\ BoostOne(b, t, which).priority = r.priority
      /\ BoostOne(b, t, which).ready = r.ready
  BY <1>2, <1>4, <1>5 DEF BoostRecords
<1> QED
  BY <1>1, <1>6, BoostParts DEF Boosts

\* The states a loop of boosting_logic goes through.
BoostRuns(b, which, order) ==
  {run \in [0 .. Len(order) -> Boosts] :
     /\ run[0] = b
     /\ \A k \in 1 .. Len(order) : run[k] = BoostOne(run[k - 1], order[k], which)
     /\ boosting_logic(b, which, order) = run[Len(order)]}

(* The loop has its rounds, for any order in which the set gives its       *)
(* threads.                                                                *)
LEMMA BoostRun ==
  ASSUME NEW b \in Boosts, NEW order \in Seq(Tids), NEW which
  PROVE  BoostRuns(b, which, order) # {}
<1> DEFINE n == Len(order)
           X == [k \in 0 .. n |-> Boosts]
           step == [k \in 1 .. n |-> [r \in Boosts |-> BoostOne(r, order[k], which)]]
           F == CHOOSE f : f = [k \in 0 .. n |->
                  IF k = 0 THEN b ELSE BoostOne(f[k - 1], order[k], which)]
<1>1. n \in Nat /\ \A k \in 1 .. n : order[k] \in Tids /\ k \in 0 .. n /\ k - 1 \in 0 .. n
  OBVIOUS
<1>2. boosting_logic(b, which, order) = F[n]
  BY DEF boosting_logic
<1>3. n \in 0 .. n /\ 0 \in 0 .. n /\ \A k \in 0 .. n : k # 0 => k \in 1 .. n
  BY <1>1
<1> HIDE DEF n
<1>4. step \in [1 .. n -> [Boosts -> Boosts]]
  BY <1>1, BoostRound
<1>5. PICK run \in [0 .. n -> Boosts] :
         run[0] = b /\ \A k \in 1 .. n : run[k] = step[k][run[k - 1]]
  <2> HIDE DEF step
  <2>1. LoopRun(Boosts, b, n, step) # {}
    BY <1>1, <1>4, LoopRuns
  <2> QED
    BY <2>1 DEF LoopRun
<1>6. \A k \in 1 .. n : run[k] = BoostOne(run[k - 1], order[k], which)
  BY <1>1, <1>5
<1>7. run = [k \in 0 .. n |-> IF k = 0 THEN b ELSE BoostOne(run[k - 1], order[k], which)]
  <2>1. \A k \in 0 .. n : run[k] = IF k = 0 THEN b
                                   ELSE BoostOne(run[k - 1], order[k], which)
    BY <1>3, <1>5, <1>6
  <2> QED
    BY <2>1
<1>8. F = [k \in 0 .. n |-> IF k = 0 THEN b ELSE BoostOne(F[k - 1], order[k], which)]
  BY <1>7
<1> HIDE DEF F
<1>9. F[0] = b /\ \A k \in 1 .. n : F[k] = BoostOne(F[k - 1], order[k], which)
  <2>1. \A k \in 1 .. n : k # 0
    BY <1>1
  <2> QED
    BY <1>1, <1>3, <1>8, <2>1
<1>10. F[0] \in X[0]
  BY <1>3, <1>9
<1>11. \A k \in 1 .. n : F[k - 1] \in X[k - 1] => F[k] \in X[k]
  BY <1>1, <1>9, BoostRound
<1>12. \A k \in 0 .. n : F[k] \in X[k]
  <2> HIDE DEF X
  <2> QED
    BY <1>1, <1>10, <1>11, LoopInvariant
<1>13. F \in [0 .. n -> Boosts]
  BY <1>8, <1>12
<1> QED
  BY <1>2, <1>9, <1>13 DEF n, BoostRuns

(* The whole loop keeps the ready queues in order.                         *)
LEMMA BoostLoop ==
  ASSUME NEW b \in Boosts, NEW order \in Seq(Tids), NEW which
  PROVE  boosting_logic(b, which, order) \in Boosts
<1>1. Len(order) \in 0 .. Len(order)
  OBVIOUS
<1> QED
  BY <1>1, BoostRun DEF BoostRuns

(* The threads of a boosting set come in the order of some sequence.       *)
LEMMA BoostOrder ==
  ASSUME NEW set \in SUBSET (Tids \cup {Freed}), NEW percent,
         NEW B \in boosting_choices(set, percent), NEW order \in SetToSeqs(B)
  PROVE  order \in Seq(Tids)
<1>1. B \in SUBSET Tids
  BY DEF boosting_choices
<1>2. IsFiniteSet(B)
  <2>1. LastTid \in Nat
    BY UThreadAssumption
  <2>2. IsFiniteSet(Tids)
    BY <2>1, FS_Interval DEF Tids
  <2> QED
    BY <1>1, <2>2, FS_Subset
<1>3. Cardinality(B) \in Nat
  BY <1>2, FS_CardinalityType
<1>4. order \in [1 .. Cardinality(B) -> B]
  BY DEF SetToSeqs
<1> QED
  BY <1>1, <1>3, <1>4

(* The scheduler before a yield is one boosting starts from.               *)
LEMMA BoostStart ==
  ASSUME TypeOK, Sorted(ready, priority)
  PROVE  Boost \in Boosts /\ Boost.ready = ready /\ Boost.priority = priority
BY DEF Boost, Boosts, BoostRecords, TypeOK

(* What a yield notes about the running thread.                            *)
LEMMA BoostCheck ==
  ASSUME TypeOK, Sorted(ready, priority), running \notin QueuedIn(ready)
  PROVE  check_and_update_boost_structures(Boost) \in Boosts
<1> DEFINE b == Boost
           n == b.numBoosts[running]
<1>1. b \in Boosts /\ running \in Tids
  BY BoostStart DEF TypeOK
<1> HIDE DEF b
<1>2. n \in Nat \cup {NoBoosts} /\ NoBoosts \notin Nat /\ 0 \in Nat
  BY <1>1, BoostParts DEF NoBoosts
<1> HIDE DEF n
<1>3. ASSUME NEW m \in Nat \cup {NoBoosts}
      PROVE  [b EXCEPT !.numBoosts[running] = m] \in Boosts
  BY <1>1, BoostParts DEF Boosts, BoostRecords
<1>4. ASSUME NEW c \in Boosts
      PROVE  Enroll(c) \in Boosts /\ Unenroll(c) \in Boosts
  BY <1>1, <1>4, BoostParts DEF Boosts, BoostRecords, Enroll, Unenroll
<1>5. GiveBack(b) \in Boosts
  <2> DEFINE pr == IF n # 0 THEN decreasePriority(b.priority[running])
                            ELSE b.priority[running]
             new == [b.priority EXCEPT ![running] = pr]
             boosts == [b.numBoosts EXCEPT ![running] =
                          IF n <= 1 THEN NoBoosts ELSE n - 1]
             r == [b EXCEPT !.priority = new, !.numBoosts = boosts]
  <2>1. CASE n = NoBoosts
    BY <1>1, <2>1 DEF GiveBack, n
  <2>2. CASE n # NoBoosts
    <3>1. pr \in Priorities
      BY <1>1, BoostParts, PriorityRange
    <3>2. (IF n <= 1 THEN NoBoosts ELSE n - 1) \in Nat \cup {NoBoosts}
      BY <1>2, <2>2
    <3>3. boosts \in [Tids -> Nat \cup {NoBoosts}]
      BY <1>1, <3>2, BoostParts
    <3>4. GiveBack(b) = r
      BY <1>1, <2>2, BoostParts DEF GiveBack, n, BoostRecords
    <3> HIDE DEF pr, boosts
    <3>5. new \in [Tids -> Priorities]
      BY <1>1, <3>1, BoostParts
    <3>6. Sorted(b.ready, new)
      BY <1>1, <3>1, BoostParts, ReadyElsewhere
    <3> HIDE DEF new
    <3>7. /\ r \in BoostRecords /\ r.priority = new /\ r.ready = b.ready
      BY <1>1, <3>3, <3>5, BoostParts DEF BoostRecords
    <3> HIDE DEF r
    <3>8. r \in Boosts
      BY <1>1, <3>6, <3>7, BoostParts DEF Boosts
    <3> QED
      BY <3>4, <3>8
  <2> QED
    BY <2>1, <2>2
<1>6. (IF n = NoBoosts THEN 0 ELSE n) \in Nat \cup {NoBoosts}
  BY <1>2
<1>7. Enroll([b EXCEPT !.numBoosts[running] = IF n = NoBoosts THEN 0 ELSE n]) \in Boosts
  BY <1>3, <1>4, <1>6
<1>8. Unenroll(GiveBack(b)) \in Boosts
  BY <1>4, <1>5
<1> QED
  BY <1>1, <1>7, <1>8 DEF check_and_update_boost_structures, b, n

(* Whatever boosting does, it keeps the ready queues in order.             *)
LEMMA BoostedStates ==
  ASSUME TypeOK, Sorted(ready, priority), running \notin QueuedIn(ready)
  PROVE  boosted_states \subseteq Boosts
<1> DEFINE b0 == check_and_update_boost_structures(Boost)
           Orders(set, percent) ==
             UNION {SetToSeqs(B) : B \in boosting_choices(set, percent)}
           afterMed == {boosting_logic(b0, "med", order) :
                          order \in Orders(b0.med, 20)}
<1>1. b0 \in Boosts
  BY BoostCheck
<1>2. boosted_states =
        UNION {{boosting_logic(b1, "low", order) : order \in Orders(b1.low, 10)}
               : b1 \in afterMed}
  BY DEF boosted_states
<1> HIDE DEF b0
<1>3. ASSUME NEW set \in SUBSET (Tids \cup {Freed}), NEW percent,
             NEW order \in Orders(set, percent)
      PROVE  order \in Seq(Tids)
  BY BoostOrder
<1> HIDE DEF Orders
<1>4. afterMed \subseteq Boosts
  BY <1>1, <1>3, BoostParts, BoostLoop
<1> HIDE DEF afterMed
<1>5. ASSUME NEW b1 \in afterMed, NEW order \in Orders(b1.low, 10)
      PROVE  boosting_logic(b1, "low", order) \in Boosts
  <2>1. b1 \in Boosts
    BY <1>4
  <2>2. order \in Seq(Tids)
    BY <1>3, <2>1, BoostParts
  <2> QED
    BY <2>1, <2>2, BoostLoop
<1> QED
  BY <1>2, <1>5

-----------------------------------------------------------------------------
(* What a step does to the places of the threads.                          *)

\* No thread moves; the running thread may leave the call it resumed.
Kept ==
  /\ UNCHANGED <<threads, running, context, proc, blocked, join_queue,
                 finished_queue>>
  /\ QueuedIn(ready') = QueuedIn(ready)
  /\ \/ interrupts_enabled' = interrupts_enabled
     \/ /\ ~interrupts_enabled /\ interrupts_enabled' = TRUE
        /\ context[running] \in {"stub", "yield", "suspend"}

\* A new thread is ready.
Created ==
  /\ interrupts_enabled
  /\ UNCHANGED <<running, proc, blocked, join_queue, finished_queue,
                 interrupts_enabled>>
  /\ \E tid \in Tids \ threads :
       /\ threads' = threads \cup {tid}
       /\ QueuedIn(ready') = QueuedIn(ready) \cup {tid}
       /\ context' = [context EXCEPT ![tid] = "stub"]

\* A finished thread is gone.
Reaped ==
  /\ interrupts_enabled \/ context[running] = "join"
  /\ interrupts_enabled' = TRUE
  /\ UNCHANGED <<running, context, proc, blocked, join_queue>>
  /\ QueuedIn(ready') = QueuedIn(ready)
  /\ \E tid \in finished_queue :
       /\ threads' = threads \ {tid}
       /\ finished_queue' = finished_queue \ {tid}

\* A ready thread is suspended or a suspended thread is made ready.
Shifted ==
  /\ interrupts_enabled
  /\ UNCHANGED <<threads, running, context, proc, join_queue, finished_queue,
                 interrupts_enabled>>
  /\ \E t \in Tids :
       \/ /\ t \in QueuedIn(ready) /\ QueuedIn(ready') = QueuedIn(ready) \ {t}
          /\ blocked' = blocked \cup {t}
       \/ /\ t \in blocked /\ blocked' = blocked \ {t}
          /\ QueuedIn(ready') = QueuedIn(ready) \cup {t}

\* The processor goes to one of the threads W, if there is one.
Dispatched(W, c) ==
  \/ /\ proc' = "alive" /\ running' \in W
     /\ QueuedIn(ready') = W \ {running'}
     /\ context' = [context EXCEPT ![running] = c]
     /\ interrupts_enabled' = FALSE
  \/ /\ proc' = "no_ready" /\ W = {} /\ QueuedIn(ready') = {}
     /\ UNCHANGED <<running, context, interrupts_enabled>>

\* The running thread gives up the processor in the call c.
Switched(W, c) ==
  /\ interrupts_enabled
  /\ UNCHANGED threads
  /\ Dispatched(W, c)
  /\ \/ /\ c = "yield" /\ W = QueuedIn(ready) \cup {running}
        /\ UNCHANGED <<blocked, join_queue, finished_queue>>
     \/ /\ c = "suspend" /\ W = QueuedIn(ready) /\ blocked' = blocked \cup {running}
        /\ UNCHANGED <<join_queue, finished_queue>>
     \/ /\ c = "join" /\ W = QueuedIn(ready)
        /\ Joiners(join_queue') = Joiners(join_queue) \cup {running}
        /\ UNCHANGED <<blocked, finished_queue>>
     \/ /\ c = "exit" /\ finished_queue' = finished_queue \cup {running}
        /\ QueuedIn(ready) \subseteq W /\ W \cap Joiners(join_queue') = {}
        /\ W \cup Joiners(join_queue') = QueuedIn(ready) \cup Joiners(join_queue)
        /\ UNCHANGED blocked

\* The process has died of something other than a lack of ready threads.
Died ==
  /\ proc' \notin {"alive", "no_ready"}
  /\ UNCHANGED <<threads, running, context, blocked, join_queue, finished_queue,
                 ready, interrupts_enabled>>

Scheduled ==
  \/ Kept \/ Created \/ Reaped \/ Shifted \/ Died
  \/ \E W \in SUBSET Tids, c \in {"yield", "suspend", "join", "exit"} : Switched(W, c)

(* The places stay disjoint.                                               *)
LEMMA PartsKept ==
  ASSUME Base, Parts, Scheduled, proc' = "alive"
  PROVE  Parts'
<1> DEFINE R == QueuedIn(ready)
           J == Joiners(join_queue)
           R2 == QueuedIn(ready')
           J2 == Joiners(join_queue')
<1>1. Parts' <=>
        /\ R2 \cap (blocked' \cup J2 \cup finished_queue') = {}
        /\ blocked' \cap (J2 \cup finished_queue') = {}
        /\ J2 \cap finished_queue' = {}
        /\ R2 \cup blocked' \cup J2 \cup finished_queue' \subseteq threads'
        /\ running' \in threads'
        /\ running' \notin J2 \cup finished_queue'
        /\ running' \in R2 \cup blocked' =>
             ~interrupts_enabled' /\ context'[running'] = "wait_unlock"
  BY DEF Parts, QueuedIn, Joiners
<1>2. /\ R \cap (blocked \cup J \cup finished_queue) = {}
      /\ blocked \cap (J \cup finished_queue) = {}
      /\ J \cap finished_queue = {}
      /\ R \cup blocked \cup J \cup finished_queue \subseteq threads
      /\ running \in threads
      /\ running \notin J \cup finished_queue
      /\ running \in R \cup blocked =>
           ~interrupts_enabled /\ context[running] = "wait_unlock"
  BY DEF Parts
<1>3. R \subseteq Tids /\ threads \subseteq Tids /\ running \in Tids /\ context \in [Tids -> Contexts]
  <2>1. threads \subseteq Tids /\ running \in Tids /\ context \in [Tids -> Contexts]
    BY DEF Base, TypeOK
  <2> QED
    BY <1>2, <2>1
<1>4. join_queue' = join_queue => J2 = J
  OBVIOUS
<1> HIDE DEF R, J, R2, J2
<1>5. CASE Kept
  BY <1>1, <1>2, <1>4, <1>5 DEF Kept, R, R2
<1>6. CASE Created
  <2>1. PICK tid \in Tids \ threads :
           /\ threads' = threads \cup {tid}
           /\ R2 = R \cup {tid}
           /\ context' = [context EXCEPT ![tid] = "stub"]
    BY <1>6 DEF Created, R, R2
  <2>2. /\ interrupts_enabled /\ J2 = J
        /\ UNCHANGED <<running, blocked, finished_queue, interrupts_enabled>>
    BY <1>4, <1>6 DEF Created
  <2> QED
    BY <1>1, <1>2, <2>1, <2>2
<1>7. CASE Reaped
  <2>1. PICK tid \in finished_queue :
           threads' = threads \ {tid} /\ finished_queue' = finished_queue \ {tid}
    BY <1>7 DEF Reaped
  <2>2. /\ interrupts_enabled \/ context[running] = "join"
        /\ J2 = J /\ R2 = R
        /\ UNCHANGED <<running, blocked, context>>
    BY <1>4, <1>7 DEF Reaped, R, R2
  <2> QED
    BY <1>1, <1>2, <2>1, <2>2
<1>8. CASE Shifted
  <2>1. PICK t \in Tids :
           \/ t \in R /\ R2 = R \ {t} /\ blocked' = blocked \cup {t}
           \/ t \in blocked /\ blocked' = blocked \ {t} /\ R2 = R \cup {t}
    BY <1>8 DEF Shifted, R, R2
  <2>2. /\ interrupts_enabled /\ J2 = J
        /\ UNCHANGED <<threads, running, finished_queue>>
    BY <1>4, <1>8 DEF Shifted
  <2> QED
    BY <1>1, <1>2, <2>1, <2>2
<1>9. ASSUME NEW W \in SUBSET Tids, NEW c \in {"yield", "suspend", "join", "exit"},
             Switched(W, c)
      PROVE  Parts'
  <2>1. /\ interrupts_enabled /\ threads' = threads
        /\ running' \in W /\ R2 = W \ {running'}
    BY <1>9 DEF Switched, Dispatched, R2
  <2>2. \/ /\ W = R \cup {running} /\ J2 = J
           /\ UNCHANGED <<blocked, finished_queue>>
        \/ /\ W = R /\ blocked' = blocked \cup {running} /\ J2 = J
           /\ UNCHANGED finished_queue
        \/ /\ W = R /\ J2 = J \cup {running}
           /\ UNCHANGED <<blocked, finished_queue>>
        \/ /\ finished_queue' = finished_queue \cup {running}
           /\ R \subseteq W /\ W \cap J2 = {} /\ W \cup J2 = R \cup J
           /\ UNCHANGED blocked
    BY <1>4, <1>9 DEF Switched, R, J, J2
  <2>3. running \notin R \cup blocked
    BY <1>2, <2>1
  <2>4. /\ R2 \cap (blocked' \cup J2 \cup finished_queue') = {}
        /\ blocked' \cap (J2 \cup finished_queue') = {}
        /\ J2 \cap finished_queue' = {}
    BY <1>2, <2>1, <2>2, <2>3
  <2>5. /\ R2 \cup blocked' \cup J2 \cup finished_queue' \subseteq threads'
        /\ running' \in threads'
        /\ running' \notin R2 \cup blocked' \cup J2 \cup finished_queue'
    BY <1>2, <2>1, <2>2, <2>3
  <2> QED
    BY <1>1, <2>4, <2>5
<1> QED
  BY <1>5, <1>6, <1>7, <1>8, <1>9 DEF Scheduled, Died

(* A switch, once the running thread has been put into a queue.            *)
LEMMA SwitchDispatches ==
  ASSUME TypeOK, proc = "alive", NEW rdy, NEW c \in Contexts,
         switchThreads(rdy, c), priority' \in [Tids -> Priorities],
         Sorted(rdy, priority')
  PROVE  /\ Sorted(ready', priority') /\ ready' \in [Priorities -> Seq(Tids)]
         /\ running' \in Tids
         /\ context' \in [Tids -> Contexts]
         /\ interrupts_enabled' \in BOOLEAN
         /\ proc' \in {"alive", "no_ready"}
         /\ Dispatched(QueuedIn(rdy), c)
         /\ QueuedIn(rdy) \in SUBSET Tids
<1>1. running \in Tids /\ context \in [Tids -> Contexts] /\ interrupts_enabled \in BOOLEAN
  BY DEF TypeOK
<1> DEFINE prs == priority'
<1>2. prs \in [Tids -> Priorities] /\ Sorted(rdy, prs)
  OBVIOUS
<1> HIDE DEF prs
<1>3. /\ Sorted(ready', prs)
      /\ running' \in Tids
      /\ context' \in [Tids -> Contexts]
  BY <1>1, <1>2, Switch
<1>4. \/ /\ proc' = "alive" /\ running' \in QueuedIn(rdy)
         /\ QueuedIn(ready') = QueuedIn(rdy) \ {running'}
         /\ context' = [context EXCEPT ![running] = c]
         /\ interrupts_enabled' = FALSE
      \/ /\ proc' = "no_ready" /\ QueuedIn(rdy) = {} /\ ready' = rdy
         /\ UNCHANGED <<running, context, interrupts_enabled>>
  BY <1>1, <1>2, Switch
<1>5. Dispatched(QueuedIn(rdy), c)
  BY <1>4 DEF Dispatched
<1>6. interrupts_enabled' \in BOOLEAN /\ proc' \in {"alive", "no_ready"}
  BY <1>1, <1>4
<1>7. QueuedIn(rdy) \in SUBSET Tids
  <2>1. \A p \in Priorities : ToSet(rdy[p]) \subseteq Tids
    BY Members DEF Sorted
  <2> QED
    BY <2>1 DEF QueuedIn
<1>8. ready' \in [Priorities -> Seq(Tids)]
  BY <1>3 DEF Sorted
<1> QED
  BY <1>3, <1>5, <1>6, <1>7, <1>8 DEF prs

-----------------------------------------------------------------------------
(* The calls, the scheduler and the timer.                                 *)

(* A call that ends the process leaves everything else as it is.           *)
LEMMA DieStep ==
  ASSUME Base, NEW cause \in (Faults \ {"no_ready"}) \cup {"exited"}, Die(cause)
  PROVE  Base' /\ Scheduled
<1>1. cause # "no_ready" /\ cause # "alive"
  BY DEF Faults
<1>2. UNCHANGED <<threads, null_tcbs, priority, lock_count, ready, running,
                  blocked, join_queue, finished_queue, numBoosts,
                  lowPriorityToBeBoosted, medPriorityToBeBoosted,
                  interrupts_enabled, call, context>>
  BY DEF Die, table, queues, boosting
<1>3. proc' = cause
  BY DEF Die
<1>4. TypeOK'
  BY <1>2, <1>3 DEF TypeOK, Base
<1>5. NoLostJoin' /\ FreedOnlyByPriorityCalls'
  BY <1>2 DEF NoLostJoin, FreedOnlyByPriorityCalls, Base
<1>6. Sorted(ready, priority)' /\ JoinsOnce(join_queue)'
  BY <1>2 DEF Base
<1>7. Died
  BY <1>1, <1>2, <1>3 DEF Died
<1> QED
  BY <1>4, <1>5, <1>6, <1>7 DEF Base, Scheduled

\* What a step leaves alone that changes the calls only.
SameScheduler ==
  UNCHANGED <<threads, priority, lock_count, ready, running,
              blocked, join_queue, finished_queue, numBoosts,
              lowPriorityToBeBoosted, medPriorityToBeBoosted, context, proc>>

CallRecords ==
  [op : OpNames \cup {"none", "resume_found"}, tid : Tids \cup {Freed}]

\* The calls have their type, and only priority calls hold a deleted TCB.
CallsOK ==
  /\ call \in [Tids -> CallRecords]
  /\ FreedOnlyByPriorityCalls

(* A step inside a call.                                                   *)
LEMMA CallStep ==
  ASSUME Base, SameScheduler, null_tcbs' \subseteq Tids \ threads,
         interrupts_enabled' \in BOOLEAN, CallsOK'
  PROVE  Base'
<1> USE DEF SameScheduler
<1>1. TypeOK'
  BY DEF TypeOK, Base, CallsOK, CallRecords
<1>2. NoLostJoin'
  BY DEF NoLostJoin, Base
<1>3. Sorted(ready, priority)' /\ JoinsOnce(join_queue)'
  BY DEF Base
<1> QED
  BY <1>1, <1>2, <1>3 DEF Base, CallsOK

(* Ids are never the mark of a deleted TCB.                                *)
LEMMA FreedIsNoId ==
  /\ Freed \notin Tids /\ Tids \subseteq Nat /\ MAIN_THREAD \in Tids
  /\ NoCall \in CallRecords /\ NoCall.tid # Freed
<1>1. LastTid \in Nat
  BY UThreadAssumption
<1>2. Freed \notin Tids /\ Tids \subseteq Nat /\ MAIN_THREAD \in Tids /\ 0 \in Tids
  BY <1>1 DEF Tids, Freed, MAIN_THREAD
<1> QED
  BY <1>2 DEF NoCall, CallRecords, OpNames, Freed

(* The running thread notes the call it is in, or leaves it.               *)
LEMMA CallNoted ==
  ASSUME Base, NEW r \in CallRecords, call' = [call EXCEPT ![running] = r],
         r.tid = Freed => r.op \in {"increase_priority", "decrease_priority"}
  PROVE  CallsOK'
<1>1. running \in Tids /\ call \in [Tids -> CallRecords]
  BY DEF Base, TypeOK, CallRecords
<1>2. call' \in [Tids -> CallRecords] /\ \A t \in Tids : call'[t] \in {call[t], r}
  BY <1>1
<1>3. FreedOnlyByPriorityCalls'
  BY <1>1, <1>2 DEF Base, FreedOnlyByPriorityCalls
<1> QED
  BY <1>2, <1>3 DEF CallsOK

(* A step that only notes a call.                                          *)
LEMMA CallChange ==
  ASSUME Base, SameScheduler, UNCHANGED <<null_tcbs, interrupts_enabled>>,
         NEW r \in CallRecords, call' = [call EXCEPT ![running] = r], r.tid # Freed
  PROVE  Base' /\ Scheduled
<1>1. CallsOK'
  BY CallNoted
<1>2. null_tcbs' \subseteq Tids \ threads /\ interrupts_enabled' \in BOOLEAN
  BY DEF Base, TypeOK
<1>3. Base'
  BY <1>1, <1>2, CallStep
<1>4. Kept
  BY DEF Kept, SameScheduler
<1> QED
  BY <1>3, <1>4 DEF Scheduled

(* A call has looked its thread up, outside disableInterrupts.             *)
LEMMA CheckStep ==
  ASSUME Base, NEW op \in OpNames, NEW tid \in Tids, Check(op, tid)
  PROVE  Base' /\ Scheduled
<1> DEFINE r == [op |-> op, tid |-> tid]
<1>1. r \in CallRecords /\ r.tid # Freed
  BY FreedIsNoId DEF CallRecords
<1>2. /\ SameScheduler /\ UNCHANGED <<null_tcbs, interrupts_enabled>>
      /\ call' = [call EXCEPT ![running] = r]
  BY DEF Check, SameScheduler, table, queues, boosting
<1> HIDE DEF r
<1> QED
  BY <1>1, <1>2, CallChange

(* uthread_create has checked the limit, outside disableInterrupts.        *)
LEMMA CreateCheckStep ==
  ASSUME Base, uthread_create_check
  PROVE  Base' /\ Scheduled
<1> DEFINE r == [op |-> "create", tid |-> 0]
<1>1. r \in CallRecords /\ r.tid # Freed
  BY FreedIsNoId DEF CallRecords, OpNames, MAIN_THREAD
<1>2. /\ SameScheduler /\ UNCHANGED <<null_tcbs, interrupts_enabled>>
      /\ call' = [call EXCEPT ![running] = r]
  BY DEF uthread_create_check, SameScheduler, table, queues, boosting
<1> HIDE DEF r
<1> QED
  BY <1>1, <1>2, CallChange

(* A thread that was only switched out goes on.                            *)
LEMMA ResumedStep ==
  ASSUME Base, resumed
  PROVE  Base' /\ Scheduled
<1>1. /\ SameScheduler /\ UNCHANGED null_tcbs /\ interrupts_enabled' = TRUE
      /\ ~interrupts_enabled /\ context[running] \in {"stub", "yield", "suspend"}
      /\ call' = [call EXCEPT ![running] = NoCall] \/ call' = call
  BY DEF resumed, SameScheduler, table, queues, boosting
<1>2. CallsOK'
  <2>1. CASE call' = [call EXCEPT ![running] = NoCall]
    BY <2>1, FreedIsNoId, CallNoted
  <2>2. CASE call' = call
    BY <2>2 DEF Base, TypeOK, FreedOnlyByPriorityCalls, CallRecords, CallsOK
  <2> QED
    BY <1>1, <2>1, <2>2
<1>3. null_tcbs' \subseteq Tids \ threads
  BY <1>1 DEF Base, TypeOK
<1>4. Base'
  BY <1>1, <1>2, <1>3, CallStep
<1>5. Kept
  BY <1>1 DEF Kept, SameScheduler
<1> QED
  BY <1>4, <1>5 DEF Scheduled

(* uthread_resume searches the blocked threads, and may add a null TCB.    *)
LEMMA ResumeFindStep ==
  ASSUME Base, uthread_resume_find
  PROVE  Base' /\ Scheduled
<1> DEFINE tid == call[running].tid
           r == IF tid \in blocked THEN [op |-> "resume_found", tid |-> tid] ELSE NoCall
<1>1. /\ running \in Tids /\ call \in [Tids -> CallRecords]
      /\ null_tcbs \subseteq Tids \ threads /\ interrupts_enabled \in BOOLEAN
      /\ threads \subseteq Tids /\ blocked \subseteq Tids
  BY DEF Base, TypeOK, CallRecords
<1>2. call[running] \in CallRecords /\ call[running].op = "resume"
  BY <1>1 DEF uthread_resume_find, Checked
<1>3. tid \in Tids
  BY <1>1, <1>2 DEF Base, FreedOnlyByPriorityCalls, CallRecords
<1>4. r \in CallRecords /\ r.tid # Freed
  BY <1>3, FreedIsNoId DEF CallRecords
<1>5. call' = [call EXCEPT ![running] = r]
  <2>1. CASE tid \in blocked
    <3>1. call' = [call EXCEPT ![running].op = "resume_found"]
      BY <2>1 DEF uthread_resume_find
    <3>2. [call[running] EXCEPT !.op = "resume_found"] = r
      BY <1>2, <2>1 DEF CallRecords
    <3> QED
      BY <1>1, <3>1, <3>2
  <2>2. CASE tid \notin blocked
    BY <2>2 DEF uthread_resume_find
  <2> QED
    BY <2>1, <2>2
<1>6. null_tcbs' \subseteq Tids \ threads
  BY <1>1, <1>3 DEF uthread_resume_find
<1> HIDE DEF r, tid
<1>7. SameScheduler /\ interrupts_enabled' = interrupts_enabled
  BY <1>1 DEF uthread_resume_find, SameScheduler, queues, boosting
<1>8. CallsOK'
  BY <1>4, <1>5, CallNoted
<1>9. Base'
  BY <1>1, <1>6, <1>7, <1>8, CallStep
<1>10. Kept
  BY <1>7 DEF Kept, SameScheduler
<1> QED
  BY <1>9, <1>10 DEF Scheduled

(* getNextId finds the least id that is not in the table.                  *)
LEMMA NextIdIsFree ==
  ASSUME TypeOK
  PROVE  getNextId \notin known
<1> DEFINE I == {i \in 0 .. LastTid + 1 : i \notin known}
<1>1. LastTid \in Nat /\ known \subseteq 0 .. LastTid
  BY UThreadAssumption DEF TypeOK, known, Tids
<1>2. I \in SUBSET Nat /\ I # {}
  <2>1. LastTid + 1 \in I
    BY <1>1
  <2> QED
    BY <1>1, <2>1
<1>3. Min(I) \in I /\ \A i \in I : Min(I) <= i
  <2> HIDE DEF I
  <2> QED
    BY <1>2, LeastNumber
<1>4. \A j \in 0 .. Min(I) - 1 : j \in known
  <2>1. SUFFICES ASSUME NEW j \in 0 .. Min(I) - 1, j \notin known PROVE FALSE
    OBVIOUS
  <2> DEFINE m == Min(I)
  <2>2. m \in I /\ \A i \in I : m <= i
    BY <1>3
  <2>3. j \in 0 .. m - 1
    OBVIOUS
  <2> HIDE DEF m
  <2>4. j \in I /\ j < m
    BY <1>1, <2>1, <2>2, <2>3
  <2> QED
    BY <1>1, <2>2, <2>4
<1>5. \E i \in 0 .. LastTid + 1 : i \notin known /\ \A j \in 0 .. i - 1 : j \in known
  BY <1>3, <1>4
<1> QED
  BY <1>5 DEF getNextId

(* uthread_create adds a ready thread under the least free id.             *)
LEMMA CreateStep ==
  ASSUME Base, Parts, uthread_create
  PROVE  Base' /\ Scheduled
<1> DEFINE tid == getNextId
<1>1. /\ tid \in Tids /\ tid \notin threads /\ tid \notin null_tcbs
  BY NextIdIsFree DEF uthread_create, Base, known
<1>2. /\ threads' = threads \cup {tid}
      /\ priority' = [priority EXCEPT ![tid] = ORANGE]
      /\ lock_count' = [lock_count EXCEPT ![tid] = 0]
      /\ context' = [context EXCEPT ![tid] = "stub"]
      /\ ready' = addToReady(ready, priority', tid)
      /\ call' = [call EXCEPT ![tid] = NoCall, ![running] = NoCall]
      /\ UNCHANGED <<null_tcbs, running, blocked, join_queue, finished_queue,
                     numBoosts, lowPriorityToBeBoosted, medPriorityToBeBoosted,
                     interrupts_enabled, proc>>
  BY DEF uthread_create, queues, boosting
<1>3. interrupts_enabled /\ TypeOK /\ Sorted(ready, priority)
  BY DEF uthread_create, Checked, InUserCode, Base
<1> HIDE DEF tid
<1>4. priority \in [Tids -> Priorities] /\ ORANGE \in Priorities
  BY <1>3 DEF TypeOK, Priorities
<1>5. tid \notin QueuedIn(ready)
  BY <1>1 DEF Parts
<1>6. priority' \in [Tids -> Priorities] /\ Sorted(ready, priority')
  BY <1>1, <1>2, <1>3, <1>4, <1>5, ReadyElsewhere
<1> DEFINE prs == priority'
<1>7. prs \in [Tids -> Priorities] /\ Sorted(ready, prs) /\ ready' = addToReady(ready, prs, tid)
  BY <1>2, <1>6
<1> HIDE DEF prs
<1>8. Sorted(ready', prs) /\ QueuedIn(ready') = QueuedIn(ready) \cup {tid}
  BY <1>1, <1>5, <1>7, ReadyAdd
<1>9. ready' \in [Priorities -> Seq(Tids)]
  BY <1>8 DEF Sorted
<1>10. call' \in [Tids -> CallRecords] /\ \A t \in Tids : call'[t] \in {call[t], NoCall}
  BY <1>1, <1>2, <1>3, FreedIsNoId DEF TypeOK, CallRecords
<1>11. context' \in [Tids -> Contexts] /\ lock_count' \in [Tids -> Nat]
  BY <1>1, <1>2, <1>3 DEF TypeOK, Contexts
<1>12. TypeOK'
  BY <1>1, <1>2, <1>3, <1>6, <1>9, <1>10, <1>11 DEF TypeOK, CallRecords
<1>13. FreedOnlyByPriorityCalls'
  BY <1>10, FreedIsNoId DEF Base, FreedOnlyByPriorityCalls
<1>14. NoLostJoin' /\ JoinsOnce(join_queue)'
  BY <1>2, <1>3 DEF NoLostJoin, Base
<1>15. Sorted(ready, priority)'
  BY <1>8 DEF prs
<1>16. Created
  BY <1>1, <1>2, <1>3, <1>8 DEF Created
<1> QED
  BY <1>12, <1>13, <1>14, <1>15, <1>16 DEF Base, Scheduled

(* A join that finds its thread finished takes it out of the table.        *)
LEMMA FinishedRemoved ==
  ASSUME Base, NEW tid \in finished_queue,
         removeFromFinished(tid), interrupts_enabled' = TRUE,
         interrupts_enabled \/ context[running] = "join",
         UNCHANGED <<null_tcbs, priority, lock_count, ready, running, blocked,
                     join_queue, context, proc>>
  PROVE  Base' /\ Scheduled
<1>1. TypeOK /\ tid \in Tids
  BY DEF Base, TypeOK
<1>2. /\ threads' = threads \ {tid}
      /\ finished_queue' = finished_queue \ {tid}
      /\ lowPriorityToBeBoosted' = Forget(lowPriorityToBeBoosted, tid)
      /\ medPriorityToBeBoosted' = Forget(medPriorityToBeBoosted, tid)
      /\ numBoosts' = numBoosts
  BY DEF removeFromFinished
<1>3. /\ call' \in [Tids -> CallRecords]
      /\ \A t \in Tids :
           \/ call'[t] \in {call[t], NoCall}
           \/ call[t].op \in {"increase_priority", "decrease_priority"}
              /\ call'[t].op = call[t].op
  <2>1. call \in [Tids -> CallRecords]
    BY <1>1 DEF TypeOK, CallRecords
  <2>2. \A t \in Tids : /\ [call[t] EXCEPT !.tid = Freed] \in CallRecords
                        /\ [call[t] EXCEPT !.tid = Freed].op = call[t].op
    BY <2>1 DEF CallRecords
  <2>3. call' = [t \in Tids |->
                   IF t = running THEN NoCall
                   ELSE IF call[t].tid = tid
                           /\ call[t].op \in {"increase_priority", "decrease_priority"}
                     THEN [call[t] EXCEPT !.tid = Freed]
                   ELSE call[t]]
    BY DEF removeFromFinished
  <2> QED
    BY <2>1, <2>2, <2>3, FreedIsNoId
<1>4. FreedOnlyByPriorityCalls'
  BY <1>3, FreedIsNoId DEF Base, FreedOnlyByPriorityCalls
<1>5. TypeOK'
  BY <1>1, <1>2, <1>3 DEF TypeOK, CallRecords, Forget
<1>6. NoLostJoin' /\ JoinsOnce(join_queue)'
  BY <1>2 DEF NoLostJoin, Base
<1>7. Sorted(ready, priority)'
  BY DEF Base
<1>8. Reaped
  BY <1>2 DEF Reaped
<1> QED
  BY <1>4, <1>5, <1>6, <1>7, <1>8 DEF Base, Scheduled

(* uthread_join reaps a finished thread, or queues the caller.             *)
LEMMA JoinStep ==
  ASSUME Base, Parts, NEW tid \in Tids, uthread_join(tid)
  PROVE  Base' /\ Scheduled
<1>1. /\ proc = "alive" /\ interrupts_enabled /\ TypeOK /\ Sorted(ready, priority)
      /\ running \in Tids
  BY DEF uthread_join, Calling, InUserCode, Base, TypeOK
<1>2. CASE tid \in finished_queue
  <2>1. removeFromFinished(tid) /\ interrupts_enabled' = TRUE
    BY <1>1, <1>2 DEF uthread_join, TypeOK
  <2>2. UNCHANGED <<null_tcbs, priority, lock_count, ready, running, blocked,
                    join_queue, context, proc>>
    BY <1>2 DEF uthread_join
  <2> QED
    BY <1>1, <1>2, <2>1, <2>2, FinishedRemoved
<1>3. CASE tid \notin finished_queue
  <2> DEFINE e == <<running, tid>>
             r == [op |-> "join", tid |-> tid]
  <2>1. /\ join_queue' = Append(join_queue, e)
        /\ call' = [call EXCEPT ![running] = r]
        /\ switchThreads(ready, "join")
        /\ UNCHANGED <<threads, finished_queue, numBoosts, lowPriorityToBeBoosted,
                       medPriorityToBeBoosted, null_tcbs, priority, lock_count, blocked>>
    BY <1>3 DEF uthread_join, boosting
  <2>2. r \in CallRecords /\ r.tid # Freed
    BY FreedIsNoId DEF CallRecords, OpNames
  <2>3. e \in Tids \X Tids /\ e[1] = running /\ e[2] = tid
    BY <1>1
  <2> HIDE DEF e, r
  <2>4. running \notin Joiners(join_queue)
    BY <1>1 DEF Parts
  <2>5. join_queue \in Seq(Tids \X Tids) /\ JoinsOnce(join_queue)
    BY <1>1 DEF Base, TypeOK
  <2>6. /\ join_queue' \in Seq(Tids \X Tids)
        /\ ToSet(join_queue') = ToSet(join_queue) \cup {e}
        /\ Joiners(join_queue') = Joiners(join_queue) \cup {running}
    BY <2>1, <2>3, <2>5, JoinAppend
  <2>7. JoinsOnce(join_queue')
    BY <2>1, <2>3, <2>4, <2>5, JoinAppend
  <2>8. priority' \in [Tids -> Priorities] /\ Sorted(ready, priority') /\ "join" \in Contexts
    BY <1>1, <2>1 DEF TypeOK, Contexts
  <2>9. /\ Sorted(ready', priority') /\ ready' \in [Priorities -> Seq(Tids)]
        /\ running' \in Tids
        /\ context' \in [Tids -> Contexts]
        /\ interrupts_enabled' \in BOOLEAN
        /\ proc' \in {"alive", "no_ready"}
        /\ Dispatched(QueuedIn(ready), "join")
        /\ QueuedIn(ready) \in SUBSET Tids
    BY <1>1, <2>1, <2>8, SwitchDispatches
  <2>10. CallsOK'
    BY <2>1, <2>2, CallNoted
  <2>11. TypeOK'
    BY <1>1, <2>1, <2>6, <2>9, <2>10 DEF TypeOK, CallsOK, CallRecords, Faults
  <2>12. NoLostJoin'
    BY <1>3, <2>1, <2>3, <2>6 DEF Base, NoLostJoin
  <2>13. Switched(QueuedIn(ready), "join")
    BY <1>1, <2>1, <2>6, <2>9 DEF Switched
  <2> QED
    BY <2>7, <2>9, <2>10, <2>11, <2>12, <2>13 DEF Base, CallsOK, Scheduled
<1> QED
  BY <1>2, <1>3

(* The rest of a uthread_join that had to wait reaps the thread.           *)
LEMMA JoinResumedStep ==
  ASSUME Base, uthread_join_resumed
  PROVE  Base' /\ Scheduled
<1>1. CASE call[running].tid \in finished_queue
  <2>1. /\ removeFromFinished(call[running].tid) /\ interrupts_enabled' = TRUE
        /\ context[running] = "join"
        /\ UNCHANGED <<null_tcbs, priority, lock_count, ready, running, blocked,
                       join_queue, context, proc>>
    BY <1>1 DEF uthread_join_resumed
  <2> QED
    BY <1>1, <2>1, FinishedRemoved
<1>2. CASE call[running].tid \notin finished_queue
  <2>1. Die("join_assert")
    BY <1>2 DEF uthread_join_resumed
  <2> QED
    BY <2>1, DieStep DEF Faults
<1> QED
  BY <1>1, <1>2

(* uthread_exit makes the joiners ready and switches away.                 *)
LEMMA ExitStep ==
  ASSUME Base, Parts, uthread_exit
  PROVE  Base' /\ Scheduled
<1>1. /\ proc = "alive" /\ interrupts_enabled /\ TypeOK /\ Sorted(ready, priority)
      /\ running \in Tids
  BY DEF uthread_exit, Calling, InUserCode, Base, TypeOK
<1>2. CASE running = MAIN_THREAD
  <2> DEFINE r == [op |-> "exit", tid |-> 0]
  <2>1. r \in CallRecords /\ r.tid # Freed
    BY FreedIsNoId DEF CallRecords, OpNames, MAIN_THREAD
  <2>2. /\ SameScheduler /\ UNCHANGED <<null_tcbs, interrupts_enabled>>
        /\ call' = [call EXCEPT ![running] = r]
    BY <1>2 DEF uthread_exit, SameScheduler, table, queues, boosting
  <2> HIDE DEF r
  <2> QED
    BY <2>1, <2>2, CallChange
<1>3. CASE running # MAIN_THREAD
  <2> DEFINE m == moveFromJoinToReady(running)
             n == Len(join_queue)
  <2>1. /\ join_queue' = m.kept
        /\ finished_queue' = finished_queue \cup {running}
        /\ switchThreads(m.ready, "exit")
        /\ UNCHANGED <<threads, null_tcbs, priority, lock_count, blocked, numBoosts,
                       lowPriorityToBeBoosted, medPriorityToBeBoosted, call>>
    BY <1>3 DEF uthread_exit, table, boosting
  <2>2. /\ priority \in [Tids -> Priorities] /\ join_queue \in Seq(Tids \X Tids)
        /\ JoinsOnce(join_queue) /\ Joiners(join_queue) \cap QueuedIn(ready) = {}
    BY <1>1 DEF Base, TypeOK, Parts
  <2>3. m \in Moved(n, running)
    BY <1>1, <2>2, MoveJoiners
  <2> HIDE DEF m
  <2>4. /\ m.kept \in Seq(Tids \X Tids)
        /\ Sorted(m.ready, priority)
        /\ JoinsOnce(m.kept)
        /\ \A e \in ToSet(m.kept) : e[2] # running /\ e \in ToSet(join_queue)
        /\ Joiners(m.kept) \cap QueuedIn(m.ready) = {}
        /\ Joiners(m.kept) \cup QueuedIn(m.ready)
             = QueuedIn(ready) \cup {join_queue[i][1] : i \in 1 .. n}
    BY <2>3 DEF Moved
  <2>5. {join_queue[i][1] : i \in 1 .. n} = Joiners(join_queue)
    <3>1. /\ \A i \in 1 .. n : join_queue[i] \in ToSet(join_queue)
          /\ \A x \in ToSet(join_queue) : \E i \in 1 .. n : x = join_queue[i]
      BY <2>2, Members
    <3> QED
      BY <3>1 DEF Joiners
  <2>6. QueuedIn(ready) \subseteq QueuedIn(m.ready)
    <3>1. Joiners(m.kept) \subseteq Joiners(join_queue)
      BY <2>4 DEF Joiners
    <3> QED
      BY <2>2, <2>4, <3>1
  <2>7. priority' \in [Tids -> Priorities] /\ Sorted(m.ready, priority') /\ "exit" \in Contexts
    BY <2>1, <2>2, <2>4 DEF Contexts
  <2>8. /\ Sorted(ready', priority') /\ ready' \in [Priorities -> Seq(Tids)]
        /\ running' \in Tids
        /\ context' \in [Tids -> Contexts]
        /\ interrupts_enabled' \in BOOLEAN
        /\ proc' \in {"alive", "no_ready"}
        /\ Dispatched(QueuedIn(m.ready), "exit")
        /\ QueuedIn(m.ready) \in SUBSET Tids
    BY <1>1, <2>1, <2>7, SwitchDispatches
  <2>9. FreedOnlyByPriorityCalls'
    BY <2>1 DEF Base, FreedOnlyByPriorityCalls
  <2>10. TypeOK'
    BY <1>1, <2>1, <2>4, <2>8 DEF TypeOK, Faults
  <2>11. NoLostJoin'
    BY <2>1, <2>4 DEF Base, NoLostJoin
  <2>12. JoinsOnce(join_queue')
    BY <2>1, <2>4
  <2>13. Switched(QueuedIn(m.ready), "exit")
    <3>1. QueuedIn(m.ready) \cap Joiners(join_queue') = {}
      BY <2>1, <2>4
    <3>2. QueuedIn(m.ready) \cup Joiners(join_queue') = QueuedIn(ready) \cup Joiners(join_queue)
      BY <2>1, <2>4, <2>5
    <3> QED
      BY <1>1, <2>1, <2>6, <2>8, <3>1, <3>2 DEF Switched
  <2> QED
    BY <2>8, <2>9, <2>10, <2>11, <2>12, <2>13 DEF Base, Scheduled
<1> QED
  BY <1>2, <1>3

(* A yield, or the timer: boosting, then a switch with the caller ready.   *)
LEMMA YieldStep ==
  ASSUME Base, Parts, InUserCode, yield_body
  PROVE  Base' /\ Scheduled
<1>1. /\ proc = "alive" /\ interrupts_enabled /\ TypeOK /\ Sorted(ready, priority)
      /\ running \in Tids /\ running \notin QueuedIn(ready)
  BY DEF InUserCode, Base, TypeOK, Parts
<1>2. CASE Die("freed_running")
  BY <1>2, DieStep DEF Faults
<1>3. CASE BoostingFault # "none" /\ Die(BoostingFault)
  <2>1. BoostingFault \in {"freed_boost", "bad_iterator"}
    BY <1>3 DEF BoostingFault
  <2> QED
    BY <1>3, <2>1, DieStep DEF Faults
<1>4. ASSUME NEW b \in boosted_states,
             /\ priority' = b.priority
             /\ numBoosts' = b.numBoosts
             /\ lowPriorityToBeBoosted' = b.low
             /\ medPriorityToBeBoosted' = b.med
             /\ switchThreads(addToReady(b.ready, b.priority, running), "yield")
             /\ UNCHANGED <<table, lock_count, queues, call>>
      PROVE  Base' /\ Scheduled
  <2> DEFINE rdy == addToReady(b.ready, b.priority, running)
  <2>1. b \in Boosts
    BY <1>1, <1>4, BoostedStates
  <2>2. QueuedIn(b.ready) = QueuedIn(ready) /\ running \notin QueuedIn(b.ready)
    BY <1>1, <2>1, BoostParts
  <2>3. b.priority \in [Tids -> Priorities] /\ Sorted(b.ready, b.priority)
    BY <2>1, BoostParts
  <2>4. Sorted(rdy, b.priority) /\ QueuedIn(rdy) = QueuedIn(b.ready) \cup {running}
    BY <1>1, <2>2, <2>3, ReadyAdd
  <2> HIDE DEF rdy
  <2>5. /\ switchThreads(rdy, "yield")
        /\ UNCHANGED <<threads, null_tcbs, lock_count, blocked, join_queue,
                       finished_queue, call>>
    BY <1>4 DEF rdy, table, queues
  <2>6. priority' \in [Tids -> Priorities] /\ Sorted(rdy, priority') /\ "yield" \in Contexts
    BY <1>4, <2>3, <2>4 DEF Contexts
  <2>7. /\ Sorted(ready', priority') /\ ready' \in [Priorities -> Seq(Tids)]
        /\ running' \in Tids
        /\ context' \in [Tids -> Contexts]
        /\ interrupts_enabled' \in BOOLEAN
        /\ proc' \in {"alive", "no_ready"}
        /\ Dispatched(QueuedIn(rdy), "yield")
        /\ QueuedIn(rdy) \in SUBSET Tids
    BY <1>1, <2>5, <2>6, SwitchDispatches
  <2>8. FreedOnlyByPriorityCalls' /\ NoLostJoin' /\ JoinsOnce(join_queue')
    BY <2>5 DEF Base, FreedOnlyByPriorityCalls, NoLostJoin
  <2>9. TypeOK'
    <3>1. /\ numBoosts' \in [Tids -> Nat \cup {NoBoosts}]
          /\ lowPriorityToBeBoosted' \subseteq Tids \cup {Freed}
          /\ medPriorityToBeBoosted' \subseteq Tids \cup {Freed}
      BY <1>4, <2>1, BoostParts
    <3> QED
      BY <1>1, <2>5, <2>6, <2>7, <3>1 DEF TypeOK, Faults
  <2>10. Switched(QueuedIn(rdy), "yield")
    BY <1>1, <2>2, <2>4, <2>5, <2>7 DEF Switched
  <2> QED
    BY <2>7, <2>8, <2>9, <2>10 DEF Base, Scheduled
<1> QED
  BY <1>2, <1>3, <1>4 DEF yield_body

(* uthread_suspend sets the caller or a ready thread aside.                *)
LEMMA SuspendStep ==
  ASSUME Base, uthread_suspend
  PROVE  Base' /\ Scheduled
<1> DEFINE tid == call[running].tid
<1>1. /\ proc = "alive" /\ interrupts_enabled /\ TypeOK /\ Sorted(ready, priority)
      /\ running \in Tids
  BY DEF uthread_suspend, Checked, InUserCode, Base, TypeOK
<1>2. priority \in [Tids -> Priorities] /\ threads \subseteq Tids
  BY <1>1 DEF TypeOK
<1>3. CASE tid \notin threads
  <2>1. Die("null_tcb")
    BY <1>3 DEF uthread_suspend
  <2> QED
    BY <2>1, DieStep DEF Faults
<1>4. CASE tid \in threads /\ tid = running
  <2>1. /\ blocked' = blocked \cup {running}
        /\ switchThreads(ready, "suspend")
        /\ UNCHANGED <<threads, null_tcbs, priority, lock_count, join_queue,
                       finished_queue, numBoosts, lowPriorityToBeBoosted,
                       medPriorityToBeBoosted, call>>
    BY <1>4 DEF uthread_suspend, table, boosting
  <2>2. priority' \in [Tids -> Priorities] /\ Sorted(ready, priority') /\ "suspend" \in Contexts
    BY <1>1, <1>2, <2>1 DEF Contexts
  <2>3. /\ Sorted(ready', priority') /\ ready' \in [Priorities -> Seq(Tids)]
        /\ running' \in Tids
        /\ context' \in [Tids -> Contexts]
        /\ interrupts_enabled' \in BOOLEAN
        /\ proc' \in {"alive", "no_ready"}
        /\ Dispatched(QueuedIn(ready), "suspend")
        /\ QueuedIn(ready) \in SUBSET Tids
    BY <1>1, <2>1, <2>2, SwitchDispatches
  <2>4. FreedOnlyByPriorityCalls' /\ NoLostJoin' /\ JoinsOnce(join_queue')
    BY <2>1 DEF Base, FreedOnlyByPriorityCalls, NoLostJoin
  <2>5. TypeOK'
    BY <1>1, <2>1, <2>3 DEF TypeOK, Faults
  <2>6. Switched(QueuedIn(ready), "suspend")
    BY <1>1, <2>1, <2>3 DEF Switched
  <2> QED
    BY <2>3, <2>4, <2>5, <2>6 DEF Base, Scheduled
<1>5. CASE tid \in threads /\ tid # running
  <2>1. /\ call' = [call EXCEPT ![running] = NoCall]
        /\ UNCHANGED <<threads, null_tcbs, priority, lock_count, running, join_queue,
                       finished_queue, numBoosts, lowPriorityToBeBoosted,
                       medPriorityToBeBoosted, interrupts_enabled, context, proc>>
    BY <1>5 DEF uthread_suspend, Return, table, boosting
  <2>2. CASE ~isReady(ready, priority, tid)
    <3>1. UNCHANGED <<ready, blocked>>
      BY <1>5, <2>2 DEF uthread_suspend
    <3>2. SameScheduler
      BY <1>1, <2>1, <3>1 DEF SameScheduler
    <3> QED
      BY <2>1, <3>2, FreedIsNoId, CallChange
  <2>3. CASE isReady(ready, priority, tid)
    <3>1. ready' = removeFromReady(ready, priority, tid) /\ blocked' = blocked \cup {tid}
      BY <1>5, <2>3 DEF uthread_suspend
    <3>2. tid \in Tids
      BY <1>2, <1>5
    <3> HIDE DEF tid
    <3>3. tid \in QueuedIn(ready)
      BY <1>1, <1>2, <2>3, <3>2, ReadyFind
    <3>4. Sorted(ready', priority) /\ QueuedIn(ready') = QueuedIn(ready) \ {tid}
      BY <1>1, <1>2, <3>1, <3>2, ReadyRemove
    <3>5. CallsOK'
      BY <2>1, FreedIsNoId, CallNoted
    <3>6. TypeOK'
      <4>1. ready' \in [Priorities -> Seq(Tids)]
        BY <3>4 DEF Sorted
      <4> QED
        BY <1>1, <2>1, <3>1, <3>2, <3>5, <4>1 DEF TypeOK, CallsOK, CallRecords
    <3>7. NoLostJoin' /\ JoinsOnce(join_queue')
      BY <2>1 DEF Base, NoLostJoin
    <3>8. Sorted(ready', priority')
      BY <2>1, <3>4
    <3>9. Shifted
      BY <1>1, <2>1, <3>1, <3>2, <3>3, <3>4 DEF Shifted
    <3> QED
      BY <3>5, <3>6, <3>7, <3>8, <3>9 DEF Base, CallsOK, Scheduled
  <2> QED
    BY <2>2, <2>3
<1> QED
  BY <1>3, <1>4, <1>5

(* uthread_resume makes a suspended thread ready.                          *)
LEMMA ResumeStep ==
  ASSUME Base, Parts, uthread_resume
  PROVE  Base' /\ Scheduled
<1> DEFINE tid == call[running].tid
<1>1. interrupts_enabled /\ TypeOK /\ Sorted(ready, priority) /\ running \in Tids
  BY DEF uthread_resume, Checked, InUserCode, Base, TypeOK
<1>2. priority \in [Tids -> Priorities] /\ threads \subseteq Tids
  BY <1>1 DEF TypeOK
<1>3. CASE tid \notin threads \/ tid \notin blocked
  <2>1. Die("out_of_range")
    BY <1>3 DEF uthread_resume
  <2> QED
    BY <2>1, DieStep DEF Faults
<1>4. CASE ~(tid \notin threads \/ tid \notin blocked)
  <2>1. /\ ready' = addToReady(ready, priority, tid)
        /\ blocked' = blocked \ {tid}
        /\ call' = [call EXCEPT ![running] = NoCall]
        /\ UNCHANGED <<threads, null_tcbs, priority, lock_count, running, join_queue,
                       finished_queue, numBoosts, lowPriorityToBeBoosted,
                       medPriorityToBeBoosted, interrupts_enabled, context, proc>>
    BY <1>4 DEF uthread_resume, Return, table, boosting
  <2>2. tid \in Tids /\ tid \in blocked
    BY <1>2, <1>4
  <2> HIDE DEF tid
  <2>3. tid \notin QueuedIn(ready)
    BY <2>2 DEF Parts
  <2>4. Sorted(ready', priority) /\ QueuedIn(ready') = QueuedIn(ready) \cup {tid}
    BY <1>1, <1>2, <2>1, <2>2, <2>3, ReadyAdd
  <2>5. CallsOK'
    BY <2>1, FreedIsNoId, CallNoted
  <2>6. TypeOK'
    <3>1. ready' \in [Priorities -> Seq(Tids)]
      BY <2>4 DEF Sorted
    <3> QED
      BY <1>1, <2>1, <2>5, <3>1 DEF TypeOK, CallsOK, CallRecords
  <2>7. NoLostJoin' /\ JoinsOnce(join_queue')
    BY <2>1 DEF Base, NoLostJoin
  <2>8. Sorted(ready', priority')
    BY <2>1, <2>4
  <2>9. Shifted
    BY <1>1, <2>1, <2>2, <2>4 DEF Shifted
  <2> QED
    BY <2>5, <2>6, <2>7, <2>8, <2>9 DEF Base, CallsOK, Scheduled
<1> QED
  BY <1>3, <1>4

(* A priority call moves a ready thread to its new queue.                  *)
LEMMA ChangePriorityStep ==
  ASSUME Base, uthread_change_priority
  PROVE  Base' /\ Scheduled
<1> DEFINE tid == call[running].tid
           to == IF call[running].op = "increase_priority"
                   THEN increasePriority(priority[tid])
                   ELSE decreasePriority(priority[tid])
<1>1. TypeOK /\ Sorted(ready, priority) /\ running \in Tids
  BY DEF Base, TypeOK
<1>2. priority \in [Tids -> Priorities] /\ call[running] \in CallRecords
  BY <1>1 DEF TypeOK, CallRecords
<1>3. CASE tid = Freed
  <2>1. Die("freed_tcb")
    BY <1>3 DEF uthread_change_priority
  <2> QED
    BY <2>1, DieStep DEF Faults
<1>4. CASE tid # Freed /\ tid \in null_tcbs
  <2>1. Die("null_tcb")
    BY <1>4 DEF uthread_change_priority
  <2> QED
    BY <2>1, DieStep DEF Faults
<1>5. CASE tid # Freed /\ tid \notin null_tcbs
  <2>1. tid \in Tids
    BY <1>2, <1>5 DEF CallRecords
  <2>2. to \in Priorities
    BY <1>2, <2>1, PriorityRange
  <2>3. /\ ChangePriority(tid, to)
        /\ call' = [call EXCEPT ![running] = NoCall]
        /\ UNCHANGED <<threads, null_tcbs, lock_count, running, blocked, join_queue,
                       finished_queue, numBoosts, lowPriorityToBeBoosted,
                       medPriorityToBeBoosted, interrupts_enabled, context, proc>>
    BY <1>5 DEF uthread_change_priority, Return, table, boosting, queues
  <2> HIDE DEF tid, to
  <2> DEFINE new == [priority EXCEPT ![tid] = to]
             moved == IF isReady(ready, priority, tid)
                        THEN addToReady(removeFromReady(ready, priority, tid), new, tid)
                        ELSE ready
  <2>4. priority' = new /\ ready' = moved
    BY <2>3 DEF ChangePriority
  <2>5. new \in [Tids -> Priorities]
    BY <1>2, <2>1, <2>2
  <2>6. Sorted(moved, new)
    BY <1>1, <1>2, <2>1, <2>2, ReadyMove
  <2>7. QueuedIn(moved) = QueuedIn(ready)
    BY <1>1, <1>2, <2>1, <2>2, ReadyMove
  <2> HIDE DEF new, moved
  <2>8. CallsOK'
    BY <2>3, FreedIsNoId, CallNoted
  <2>9. TypeOK'
    <3>1. ready' \in [Priorities -> Seq(Tids)]
      BY <2>4, <2>6 DEF Sorted
    <3> QED
      BY <1>1, <2>3, <2>4, <2>5, <2>8, <3>1 DEF TypeOK, CallsOK, CallRecords
  <2>10. NoLostJoin' /\ JoinsOnce(join_queue')
    BY <2>3 DEF Base, NoLostJoin
  <2>11. Sorted(ready', priority')
    BY <2>4, <2>6
  <2>12. Kept
    BY <2>3, <2>4, <2>7 DEF Kept
  <2> QED
    BY <2>8, <2>9, <2>10, <2>11, <2>12 DEF Base, CallsOK, Scheduled
<1> QED
  BY <1>3, <1>4, <1>5

(* Every call, switch and timer signal moves threads in one of these ways. *)
LEMMA ThreadStepScheduled ==
  ASSUME Base, Parts, [UThreadNext]_uthreadVars
  PROVE  Base' /\ Scheduled
<1>1. CASE uthread_create_check
  BY <1>1, CreateCheckStep
<1>2. CASE uthread_create
  BY <1>2, CreateStep
<1>3. ASSUME NEW tid \in Tids, uthread_join(tid) PROVE Base' /\ Scheduled
  BY <1>3, JoinStep
<1>4. CASE uthread_join_resumed
  BY <1>4, JoinResumedStep
<1>5. CASE uthread_exit
  BY <1>5, ExitStep
<1>6. CASE uthread_exit_main
  BY <1>6, DieStep DEF uthread_exit_main, Checked, InUserCode
<1>7. CASE uthread_yield
  BY <1>7, YieldStep DEF uthread_yield, Calling
<1>8. CASE timeHandler
  BY <1>8, YieldStep DEF timeHandler
<1>9. CASE resumed
  BY <1>9, ResumedStep
<1>10. ASSUME NEW tid \in Tids, uthread_suspend_check(tid) PROVE Base' /\ Scheduled
  BY <1>10, CheckStep DEF uthread_suspend_check, OpNames
<1>11. CASE uthread_suspend
  BY <1>11, SuspendStep
<1>12. ASSUME NEW tid \in Tids, uthread_resume_count(tid) PROVE Base' /\ Scheduled
  BY <1>12, CheckStep DEF uthread_resume_count, OpNames
<1>13. CASE uthread_resume_find
  BY <1>13, ResumeFindStep
<1>14. CASE uthread_resume
  BY <1>14, ResumeStep
<1>15. ASSUME NEW op \in OpNames, NEW tid \in Tids, uthread_priority_check(op, tid)
       PROVE  Base' /\ Scheduled
  BY <1>15, CheckStep DEF uthread_priority_check
<1>16. CASE uthread_change_priority
  BY <1>16, ChangePriorityStep
<1>17. CASE UNCHANGED uthreadVars
  <2>1. SameScheduler /\ UNCHANGED <<null_tcbs, interrupts_enabled, call>>
    BY <1>17 DEF uthreadVars, table, queues, boosting, SameScheduler
  <2>2. /\ null_tcbs' \subseteq Tids \ threads
        /\ interrupts_enabled' \in BOOLEAN
        /\ CallsOK'
    BY <2>1 DEF Base, TypeOK, FreedOnlyByPriorityCalls, CallRecords, CallsOK
  <2>3. Base'
    BY <2>1, <2>2, CallStep
  <2>4. Kept
    BY <2>1 DEF Kept, SameScheduler
  <2> QED
    BY <2>3, <2>4 DEF Scheduled
<1> QED
  BY <1>1, <1>2, <1>3, <1>4, <1>5, <1>6, <1>7, <1>8, <1>9, <1>10, <1>11,
     <1>12, <1>13, <1>14, <1>15, <1>16, <1>17 DEF UThreadNext

-----------------------------------------------------------------------------
(* The start.                                                              *)

\* The enumerations of the set A of ids in increasing order.
InOrder(A) ==
  {q \in [1 .. Cardinality(A) -> A] :
     \A i, j \in 1 .. Cardinality(A) : i < j => q[i] < q[j]}

(* Every set of ids can be put in order.                                   *)
LEMMA OrderExists ==
  ASSUME NEW W \in SUBSET Tids
  PROVE  InOrder(W) # {} /\ Cardinality(W) \in Nat /\ IsFiniteSet(W)
<1> DEFINE Below(m) == {t \in W : t < m}
           Bad == {m \in 0 .. LastTid + 1 : InOrder(Below(m)) = {}}
<1>1. LastTid \in Nat /\ \A t \in W : t \in 0 .. LastTid /\ t \in Nat
  BY UThreadAssumption DEF Tids
<1>2. \A A \in SUBSET W : IsFiniteSet(A) /\ Cardinality(A) \in Nat
  <2>1. IsFiniteSet(0 .. LastTid)
    BY <1>1, FS_Interval
  <2>2. \A A \in SUBSET W : A \in SUBSET (0 .. LastTid)
    BY <1>1
  <2> QED
    BY <2>1, <2>2, FS_Subset, FS_CardinalityType
<1>3. Bad = {}
  <2>1. SUFFICES ASSUME Bad # {} PROVE FALSE
    OBVIOUS
  <2> DEFINE m == Min(Bad)
  <2>2. m \in Bad /\ \A j \in Bad : m <= j
    <3>1. Bad \in SUBSET Nat
      BY <1>1
    <3> HIDE DEF Bad
    <3> QED
      BY <2>1, <3>1, LeastNumber
  <2> HIDE DEF m
  <2>3. m \in 0 .. LastTid + 1 /\ InOrder(Below(m)) = {}
    BY <2>2
  <2>4. m # 0
    <3>1. SUFFICES ASSUME m = 0 PROVE FALSE
      OBVIOUS
    <3>2. Below(m) = {}
      BY <1>1, <3>1
    <3>3. Cardinality(Below(m)) = 0
      BY <3>2, FS_EmptySet
    <3> DEFINE g == [i \in 1 .. 0 |-> 0]
    <3>4. g \in [1 .. 0 -> {}] /\ \A i \in 1 .. 0 : FALSE
      OBVIOUS
    <3> HIDE DEF g
    <3>5. g \in InOrder(Below(m))
      BY <3>2, <3>3, <3>4 DEF InOrder
    <3> QED
      BY <2>3, <3>5
  <2> DEFINE l == m - 1
             A == Below(l)
             B == Below(m)
             n == Cardinality(A)
  <2>5. l \in 0 .. LastTid + 1 /\ l \in Nat /\ m = l + 1 /\ ~(m <= l)
    BY <1>1, <2>3, <2>4
  <2>6. InOrder(A) # {}
    <3>1. l \notin Bad
      <4> HIDE DEF Bad, l
      <4> QED
        BY <2>2, <2>5
    <3> QED
      BY <2>5, <3>1
  <2> HIDE DEF l
  <2>7. B = IF l \in W THEN A \cup {l} ELSE A
    BY <1>1, <2>5
  <2>8. A \in SUBSET W /\ (\A t \in A : t < l /\ t \in Nat) /\ l \notin A
    BY <1>1, <2>5
  <2> HIDE DEF A, B
  <2>9. l \in W
    BY <2>3, <2>6, <2>7 DEF B
  <2>10. n \in Nat /\ IsFiniteSet(A)
    BY <1>2, <2>8
  <2>11. Cardinality(B) = n + 1
    BY <2>7, <2>8, <2>9, <2>10, FS_AddElement
  <2> HIDE DEF n
  <2>12. PICK q \in [1 .. n -> A] : \A i, j \in 1 .. n : i < j => q[i] < q[j]
    BY <2>6 DEF InOrder, n
  <2> DEFINE r == [i \in 1 .. n + 1 |-> IF i = n + 1 THEN l ELSE q[i]]
  <2>13. \A i \in 1 .. n + 1 : i = n + 1 \/ i \in 1 .. n
    BY <2>10
  <2>14. r \in [1 .. n + 1 -> B]
    BY <2>7, <2>9, <2>12, <2>13
  <2>15. ASSUME NEW i \in 1 .. n + 1, NEW j \in 1 .. n + 1, i < j
         PROVE  r[i] < r[j]
    <3>1. i \in 1 .. n /\ r[i] = q[i] /\ q[i] \in A
      BY <2>10, <2>12, <2>15
    <3>2. CASE j = n + 1
      BY <2>8, <3>1, <3>2
    <3>3. CASE j # n + 1
      <4>1. j \in 1 .. n /\ r[j] = q[j]
        BY <2>13, <3>3
      <4> QED
        BY <2>12, <2>15, <3>1, <4>1
    <3> QED
      BY <3>2, <3>3
  <2> HIDE DEF r
  <2>16. r \in InOrder(B)
    BY <2>11, <2>14, <2>15 DEF InOrder
  <2> QED
    BY <2>3, <2>16 DEF B
<1>4. Below(LastTid + 1) = W
  BY <1>1
<1>5. InOrder(Below(LastTid + 1)) # {}
  <2>1. LastTid + 1 \in 0 .. LastTid + 1
    BY <1>1
  <2> QED
    BY <1>3, <2>1
<1>6. InOrder(W) # {}
  BY <1>4, <1>5
<1> QED
  BY <1>2, <1>6

(* The workers of a priority are queued once each.                         *)
LEMMA StartQueueMembers ==
  ASSUME NEW p \in Priorities
  PROVE  /\ StartQueue(p) \in Seq(Tids)
         /\ IsInjective(StartQueue(p))
         /\ ToSet(StartQueue(p)) = Workers(p)
<1> DEFINE W == Workers(p)
           n == Cardinality(W)
           q == StartQueue(p)
<1>1. W \in SUBSET Tids
  BY UThreadAssumption DEF Workers
<1>2. InOrder(W) # {} /\ n \in Nat /\ IsFiniteSet(W)
  BY <1>1, OrderExists
<1>3. q \in [1 .. n -> W] /\ \A i, j \in 1 .. n : i < j => q[i] < q[j]
  <2>1. \E f \in [1 .. n -> W] : \A i, j \in DOMAIN f : i < j => f[i] < f[j]
    BY <1>2 DEF InOrder
  <2>2. q \in [1 .. n -> W] /\ \A i, j \in DOMAIN q : i < j => q[i] < q[j]
    BY <2>1 DEF StartQueue
  <2> QED
    BY <2>2
<1> HIDE DEF q, n, W
<1>4. q \in Seq(Tids) /\ Len(q) = n /\ DOMAIN q = 1 .. n
  BY <1>1, <1>2, <1>3
<1>5. \A i \in 1 .. n : q[i] \in Nat
  BY <1>1, <1>3, FreedIsNoId
<1>6. IsInjective(q)
  <2>1. ASSUME NEW i \in 1 .. n, NEW j \in 1 .. n, q[i] = q[j] PROVE i = j
    BY <1>2, <1>3, <1>5, <2>1
  <2> QED
    BY <1>4, <2>1, Injective
<1>7. q \in Injection(1 .. n, W)
  BY <1>3, <1>6 DEF Injection
<1>8. Cardinality(1 .. n) = n
  BY <1>2, FS_Interval
<1>9. q \in Surjection(1 .. n, W)
  BY <1>2, <1>7, <1>8, FS_Injection DEF n
<1>10. ToSet(q) = W
  BY <1>3, <1>4, <1>9 DEF ToSet, Surjection
<1> QED
  BY <1>4, <1>6, <1>10 DEF q, W

(* The start has the workers ready and the main thread running.            *)
LEMMA InitParts ==
  ASSUME Init
  PROVE  /\ Base /\ Parts /\ Everywhere
         /\ running \notin QueuedIn(ready) \cup blocked
         /\ Joiners(join_queue) = {}
<1>1. /\ StartThreads \subseteq Tids /\ MAIN_THREAD \in StartThreads
      /\ StartPriority \in [Tids -> Priorities]
  BY UThreadAssumption
<1>2. /\ threads = StartThreads /\ null_tcbs = {} /\ priority = StartPriority
      /\ lock_count = [t \in Tids |-> 0]
      /\ ready = [p \in Priorities |-> StartQueue(p)]
      /\ running = MAIN_THREAD /\ blocked = {} /\ join_queue = << >>
      /\ finished_queue = {} /\ numBoosts = [t \in Tids |-> NoBoosts]
      /\ lowPriorityToBeBoosted = {} /\ medPriorityToBeBoosted = {}
      /\ interrupts_enabled = TRUE /\ call = [t \in Tids |-> NoCall]
      /\ context = [t \in Tids |-> "stub"] /\ proc = "alive"
  BY DEF Init
<1>3. /\ ready \in [Priorities -> Seq(Tids)]
      /\ \A p \in Priorities : IsInjective(ready[p]) /\ ToSet(ready[p]) = Workers(p)
  BY <1>2, StartQueueMembers
<1>4. Sorted(ready, priority)
  BY <1>2, <1>3 DEF Sorted, Workers
<1>5. QueuedIn(ready) = StartThreads \ {MAIN_THREAD}
  <2>1. QueuedIn(ready) = UNION {Workers(p) : p \in Priorities}
    BY <1>3 DEF QueuedIn
  <2> QED
    BY <1>1, <2>1 DEF Workers
<1>6. ToSet(<< >>) = {} /\ Joiners(<< >>) = {} /\ JoinsOnce(<< >>)
  BY DEF ToSet, Joiners, JoinsOnce
<1>7. Parts /\ Everywhere /\ running \notin QueuedIn(ready) \cup blocked
  BY <1>1, <1>2, <1>5, <1>6 DEF Parts, Everywhere
<1>8. TypeOK
  <2>1. << >> \in Seq(Tids \X Tids) /\ "stub" \in Contexts /\ 0 \in Nat
    BY DEF Contexts
  <2>2. call \in [Tids -> CallRecords]
    BY <1>2, FreedIsNoId
  <2> QED
    BY <1>1, <1>2, <1>3, <2>1, <2>2, FreedIsNoId DEF TypeOK, CallRecords
<1>9. FreedOnlyByPriorityCalls /\ NoLostJoin
  BY <1>2, <1>6, FreedIsNoId DEF FreedOnlyByPriorityCalls, NoLostJoin
<1> QED
  BY <1>2, <1>4, <1>6, <1>7, <1>8, <1>9 DEF Base
-----------------------------------------------------------------------------
(* The theorems.                                                           *)

(* No step loses a thread: when the scheduler gives up, all of them wait.  *)
LEMMA UStep ==
  ASSUME UInv, [UThreadNext]_uthreadVars
  PROVE  UInv'
<1>1. CASE proc # "alive"
  <2>1. UNCHANGED uthreadVars
    <3>1. ~UThreadNext
      BY <1>1 DEF UThreadNext, uthread_create_check, uthread_create, uthread_join,
        uthread_join_resumed, uthread_exit, uthread_exit_main, uthread_yield,
        timeHandler, resumed, uthread_suspend_check, uthread_suspend,
        uthread_resume_count, uthread_resume_find, uthread_resume,
        uthread_priority_check, uthread_change_priority, Check, Calling, Checked,
        InUserCode
    <3> QED
      BY <3>1
  <2>2. /\ SameScheduler /\ UNCHANGED <<null_tcbs, interrupts_enabled, call>>
    BY <2>1 DEF uthreadVars, table, queues, boosting, SameScheduler
  <2>3. /\ null_tcbs' \subseteq Tids \ threads
        /\ interrupts_enabled' \in BOOLEAN
        /\ CallsOK'
    BY <2>2 DEF UInv, Base, TypeOK, FreedOnlyByPriorityCalls, CallRecords, CallsOK
  <2>4. Base'
    BY <2>2, <2>3, CallStep DEF UInv
  <2>5. NoReadyOnlyWhenAllWait' /\ proc' # "alive"
    BY <1>1, <2>2 DEF SameScheduler, UInv, NoReadyOnlyWhenAllWait, Joining
  <2> QED
    BY <2>4, <2>5 DEF UInv
<1>2. CASE proc = "alive"
  <2> DEFINE R == QueuedIn(ready)
             J == Joiners(join_queue)
             R2 == QueuedIn(ready')
             J2 == Joiners(join_queue')
  <2>1. /\ Base /\ Parts /\ Everywhere /\ running \notin R \cup blocked
    BY <1>2 DEF UInv
  <2>2. Base' /\ Scheduled
    BY <2>1, ThreadStepScheduled
  <2>3. proc' = "alive" => Parts'
    BY <2>1, <2>2, PartsKept
  <2>4. /\ Everywhere' <=>
             threads' = {running'} \cup R2 \cup blocked' \cup J2 \cup finished_queue'
        /\ Joining' = J2 /\ QueuedIn(ready)' = R2
    BY DEF Everywhere, QueuedIn, Joiners, Joining
  <2>5. /\ threads = {running} \cup R \cup blocked \cup J \cup finished_queue
        /\ finished_queue \cap ({running} \cup R \cup blocked \cup J) = {}
    BY <2>1 DEF Everywhere, Parts
  <2>6. join_queue' = join_queue => J2 = J
    OBVIOUS
  <2> HIDE DEF R, J, R2, J2
  <2>7. \/ /\ proc' = "alive"
           /\ threads' = {running'} \cup R2 \cup blocked' \cup J2 \cup finished_queue'
           /\ running' \notin R2 \cup blocked'
        \/ proc' = "no_ready" /\ threads' \subseteq blocked' \cup J2 \cup finished_queue'
        \/ proc' \notin {"alive", "no_ready"}
    <3>1. CASE Kept
      BY <1>2, <2>1, <2>5, <2>6, <3>1 DEF Kept, R, R2
    <3>2. CASE Created
      <4>1. PICK tid \in Tids \ threads : threads' = threads \cup {tid} /\ R2 = R \cup {tid}
        BY <3>2 DEF Created, R, R2
      <4>2. J2 = J /\ UNCHANGED <<running, proc, blocked, finished_queue>>
        BY <2>6, <3>2 DEF Created
      <4> QED
        BY <1>2, <2>1, <2>5, <4>1, <4>2
    <3>3. CASE Reaped
      <4>1. PICK tid \in finished_queue :
               threads' = threads \ {tid} /\ finished_queue' = finished_queue \ {tid}
        BY <3>3 DEF Reaped
      <4>2. J2 = J /\ R2 = R /\ UNCHANGED <<running, proc, blocked>>
        BY <2>6, <3>3 DEF Reaped, R, R2
      <4> QED
        BY <1>2, <2>1, <2>5, <4>1, <4>2
    <3>4. CASE Shifted
      <4>1. PICK t \in Tids :
               \/ t \in R /\ R2 = R \ {t} /\ blocked' = blocked \cup {t}
               \/ t \in blocked /\ blocked' = blocked \ {t} /\ R2 = R \cup {t}
        BY <3>4 DEF Shifted, R, R2
      <4>2. J2 = J /\ UNCHANGED <<threads, running, proc, finished_queue>>
        BY <2>6, <3>4 DEF Shifted
      <4> QED
        BY <1>2, <2>1, <2>5, <4>1, <4>2
    <3>5. ASSUME NEW W \in SUBSET Tids, NEW c \in {"yield", "suspend", "join", "exit"},
                 Switched(W, c)
          PROVE  \/ /\ proc' = "alive"
                    /\ threads' = {running'} \cup R2 \cup blocked' \cup J2 \cup finished_queue'
                    /\ running' \notin R2 \cup blocked'
                 \/ proc' = "no_ready" /\ threads' \subseteq blocked' \cup J2 \cup finished_queue'
      <4>1. threads' = threads
        BY <3>5 DEF Switched
      <4>2. \/ proc' = "alive" /\ running' \in W /\ R2 = W \ {running'}
            \/ proc' = "no_ready" /\ W = {}
        BY <3>5 DEF Switched, Dispatched, R2
      <4>3. W \cup blocked' \cup J2 \cup finished_queue' = threads
        BY <2>5, <2>6, <3>5 DEF Switched, R, J, J2
      <4>4. proc' = "alive" => running' \notin R2 \cup blocked'
        <5>1. R \cap blocked = {} /\ J \cap blocked = {}
          BY <2>1 DEF Parts, R, J
        <5>2. W \cap blocked' = {}
          BY <2>1, <3>5, <5>1 DEF Switched, R, J, J2
        <5> QED
          BY <4>2, <5>2
      <4> QED
        BY <4>1, <4>2, <4>3, <4>4
    <3> QED
      BY <2>2, <3>1, <3>2, <3>3, <3>4, <3>5 DEF Scheduled, Died
  <2>8. NoReadyOnlyWhenAllWait'
    BY <2>4, <2>7 DEF NoReadyOnlyWhenAllWait
  <2>9. proc' = "alive" => /\ Everywhere'
                           /\ running' \notin QueuedIn(ready)' \cup blocked'
    BY <2>4, <2>7
  <2> QED
    BY <2>2, <2>3, <2>8, <2>9 DEF UInv
<1> QED
  BY <1>1, <1>2

(* Disjoint places are one place.                                          *)
LEMMA OnePlace ==
  ASSUME UInv
  PROVE  EachThreadInOnePlace /\ ReadyMatchesPriority
<1>1. ReadyMatchesPriority
  BY DEF UInv, Base, Sorted, ReadyMatchesPriority
<1> DEFINE PlacesOf(t) ==
             {S \in {<<"running", {running}>>, <<"ready", ReadyThreads>>,
                     <<"blocked", blocked>>, <<"joining", Joining>>,
                     <<"finished", finished_queue>>} : t \in S[2]}
<1>2. SUFFICES ASSUME proc = "alive"
               PROVE  /\ \A t \in threads : Cardinality(PlacesOf(t)) = 1
                      /\ \A p \in Priorities : IsInjective(ready[p])
                      /\ {running} \cup ReadyThreads \cup blocked \cup Joining
                           \cup finished_queue \subseteq threads
  BY <1>1 DEF EachThreadInOnePlace
<1>3. /\ \A p \in Priorities : IsInjective(ready[p])
      /\ running \notin ReadyThreads \cup blocked \cup Joining \cup finished_queue
      /\ ReadyThreads \cap (blocked \cup Joining \cup finished_queue) = {}
      /\ blocked \cap (Joining \cup finished_queue) = {}
      /\ Joining \cap finished_queue = {}
      /\ threads = {running} \cup ReadyThreads \cup blocked \cup Joining
                     \cup finished_queue
  <2>1. ReadyThreads = QueuedIn(ready) /\ Joining = Joiners(join_queue)
    BY DEF ReadyThreads, QueuedIn, Joining, Joiners
  <2> QED
    BY <1>2, <2>1 DEF UInv, Base, Sorted, Parts, Everywhere
<1>4. ASSUME NEW t \in threads PROVE Cardinality(PlacesOf(t)) = 1
  <2> DEFINE a == <<"running", {running}>>
             b == <<"ready", ReadyThreads>>
             c == <<"blocked", blocked>>
             d == <<"joining", Joining>>
             e == <<"finished", finished_queue>>
             P == {S \in {a, b, c, d, e} : t \in S[2]}
  <2>1. /\ a[2] = {running} /\ b[2] = ReadyThreads /\ c[2] = blocked
        /\ d[2] = Joining /\ e[2] = finished_queue
    OBVIOUS
  <2> HIDE DEF a, b, c, d, e
  <2>2. \E S : P = {S}
    <3>1. CASE t = running
      <4>1. P = {a}
        BY <1>3, <2>1, <3>1
      <4> QED
        BY <4>1
    <3>2. CASE t \in ReadyThreads
      <4>1. P = {b}
        BY <1>3, <2>1, <3>2
      <4> QED
        BY <4>1
    <3>3. CASE t \in blocked
      <4>1. P = {c}
        BY <1>3, <2>1, <3>3
      <4> QED
        BY <4>1
    <3>4. CASE t \in Joining
      <4>1. P = {d}
        BY <1>3, <2>1, <3>4
      <4> QED
        BY <4>1
    <3>5. CASE t \in finished_queue
      <4>1. P = {e}
        BY <1>3, <2>1, <3>5
      <4> QED
        BY <4>1
    <3> QED
      BY <1>3, <3>1, <3>2, <3>3, <3>4, <3>5
  <2> HIDE DEF P
  <2>3. Cardinality(P) = 1
    BY <2>2, FS_Singleton
  <2> QED
    BY <2>3 DEF P, a, b, c, d, e
<1> HIDE DEF PlacesOf
<1> QED
  BY <1>3, <1>4

(* The inductive invariant of the thread library.                          *)
THEOREM ThreadLibrarySound == Spec => []UInv
<1>1. Init => UInv
  BY InitParts DEF UInv, Init, NoReadyOnlyWhenAllWait
<1>2. UInv /\ [UThreadNext]_uthreadVars => UInv'
  BY UStep
<1> QED
  BY <1>1, <1>2, PTL DEF Spec

(* Every variable keeps its type through all calls and switches.           *)
THEOREM ThreadTypes == Spec => []TypeOK
<1>1. UInv => TypeOK
  BY DEF UInv, Base
<1> QED
  BY <1>1, ThreadLibrarySound, PTL

(* No sequence of calls and timer switches loses a thread or queues it     *)
(* twice.                                                                  *)
THEOREM ThreadsInOnePlace == Spec => []EachThreadInOnePlace
<1>1. UInv => EachThreadInOnePlace
  BY OnePlace
<1> QED
  BY <1>1, ThreadLibrarySound, PTL

(* A ready thread is in the queue of its present priority, whoever boosted *)
(* or changed it and when.                                                 *)
THEOREM QueuesMatchPriorities == Spec => []ReadyMatchesPriority
<1>1. UInv => ReadyMatchesPriority
  BY OnePlace
<1> QED
  BY <1>1, ThreadLibrarySound, PTL

(* A thread never waits for one that has finished.                         *)
THEOREM JoinsAreNotLost == Spec => []NoLostJoin
<1>1. UInv => NoLostJoin
  BY DEF UInv, Base
<1> QED
  BY <1>1, ThreadLibrarySound, PTL

(* The assert of switchThreads fails only when every thread is suspended,  *)
(* joining or finished.                                                    *)
THEOREM SchedulerNeverGivesUp == Spec => []NoReadyOnlyWhenAllWait
<1>1. UInv => NoReadyOnlyWhenAllWait
  BY DEF UInv
<1> QED
  BY <1>1, ThreadLibrarySound, PTL

=============================================================================
