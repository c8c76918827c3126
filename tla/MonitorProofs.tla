--------------------------- MODULE MonitorProofs ---------------------------
(***************************************************************************)
(* The safety properties of project 2's lock and condition variables,      *)
(* proved for every number of threads and condition variables.             *)
(***************************************************************************)
EXTENDS Monitor, UThreadProofs

\* The threads that may be scheduled, now or when they are resumed.
Able == QueuedIn(ready) \cup blocked

\* Queues, one per condition variable, that hold a thread at most once.
Separate(q) ==
  /\ q \in [CondVars -> Seq(Tids)]
  /\ \A c \in CondVars : IsInjective(q[c])
  /\ \A c, d \in CondVars : c # d => ToSet(q[c]) \cap ToSet(q[d]) = {}

\* The threads that a condition variable, or the lock on behalf of one,
\* will switch to; cvq are the waiting queues, wo the wake-up orders and n
\* is the thread that gets the lock next.
Sleepers(cvq, wo, n) == SeqThreads(cvq) \cup SeqThreads(wo) \cup ({n} \ {Null})

AtMostOnce(cvq, wo, n) ==
  /\ Separate(cvq) /\ Separate(wo)
  /\ SeqThreads(cvq) \cap SeqThreads(wo) = {}
  /\ n \notin SeqThreads(cvq) \cup SeqThreads(wo)

\* They hold each of the threads T once.
Hold(cvq, wo, n, T) == AtMostOnce(cvq, wo, n) /\ Sleepers(cvq, wo, n) = T

Asleep == Sleepers(cond_var_waiting_queue, wake_up_order, nextThreadToWakeUp)

\* The threads that have the lock or have been passed it: A may be
\* scheduled, r runs with interrupts on, ctx are the contexts, I is inside.
Holders(A, r, on, ctx, I) ==
  I \cup {t \in A : ctx[t] \in {"lock", "wait"}}
    \cup {t \in {r} : /\ ~on
                      /\ \/ ctx[t] \in {"lock", "wait", "signal"}
                         \/ ctx[t] = "wait_unlock" /\ t \in A}

\* Where the threads in the lock's queue Q and the condition variables' S are.
Places(A, r, on, ctx, I, Q, S) ==
  /\ Q \cap S = {} /\ I \cap (Q \cup S) = {}
  /\ Q \cap (A \cup {r}) = {}
  /\ \A t \in Q : ctx[t] = "lock"
  /\ \A t \in S : /\ ctx[t] \in {"wait", "wait_unlock", "signal"}
                  /\ t \in A \cup {r} <=> ctx[t] = "wait_unlock"
  /\ r \in S => ~on /\ r \notin A
  /\ r \in A => ~on /\ ctx[r] = "wait_unlock"
  /\ \A t \in I : /\ t \in A \cup {r}
                  /\ t \in A \/ ~on => ctx[t] \in {"yield", "suspend"}
  /\ \A t \in A : ctx[t] # "signal"

\* The lock is free and nobody has it, or one thread does.
Token(H, v) == \/ v = 0 /\ H = {}
               \/ v = 1 /\ \E h \in H : H = {h}

\* A thread that has the lock, or will get it back, has counted it.
Counted(A, r, on, ctx, I, S, lc) ==
  /\ \A t \in I \cup S : lc[t] # 0
  /\ \A t \in A : ctx[t] \in {"wait", "wait_unlock"} => lc[t] # 0
  /\ ~on /\ ctx[r] \in {"wait", "wait_unlock", "signal"} => lc[r] # 0

Lawful(A, r, on, ctx, I, Q, S, v, lc) ==
  /\ Places(A, r, on, ctx, I, Q, S)
  /\ Token(Holders(A, r, on, ctx, I), v)
  /\ Counted(A, r, on, ctx, I, S, lc)

\* A thread in wait() has noted its condition variable.
WaitsKnown(ctx, on) ==
  \A t \in Tids : ctx[t] \in {"wait", "wait_unlock"} => on[t] \in CondVars

\* The monitor's part of the inductive invariant while the process lives.
MonitorParts ==
  /\ AtMostOnce(cond_var_waiting_queue, wake_up_order, nextThreadToWakeUp)
  /\ IsInjective(waiting_queue)
  /\ inside \cup ToSet(waiting_queue) \cup Asleep
       \subseteq threads \ (Joiners(join_queue) \cup finished_queue)
  /\ \A t \in Joiners(join_queue) : context[t] = "join"
  /\ WaitsKnown(context, waits_on)
  /\ Lawful(Able, running, interrupts_enabled, context, inside,
            ToSet(waiting_queue), Asleep, value, lock_count)

\* The inductive invariant of the lock.
LockInv ==
  /\ Base /\ MonitorTypeOK
  /\ \A s, t \in inside : s = t
  /\ proc = "alive" => Parts /\ MonitorParts

\* The state a step starts from.
LockState == proc = "alive" /\ Base /\ MonitorTypeOK /\ Parts /\ MonitorParts

-----------------------------------------------------------------------------
(* What the steps do to the lock, over the sets of threads they move.      *)

(* A running thread inside is the only holder.                             *)
LEMMA InsideAlone ==
  ASSUME NEW A \in SUBSET Tids, NEW r \in Tids, NEW on \in BOOLEAN,
         NEW ctx \in [Tids -> Contexts], NEW I \in SUBSET Tids,
         NEW Q \in SUBSET Tids, NEW S \in SUBSET Tids, NEW v,
         NEW lc \in [Tids -> Nat],
         Lawful(A, r, on, ctx, I, Q, S, v, lc),
         on, r \in I
  PROVE  /\ v = 1 /\ I = {r}
         /\ r \notin A /\ r \notin Q /\ r \notin S
         /\ \A t \in A : ctx[t] \notin {"lock", "wait"}
<1>1. r \in Holders(A, r, on, ctx, I)
  BY DEF Holders
<1>2. v = 1 /\ \E h : Holders(A, r, on, ctx, I) = {h}
  BY <1>1 DEF Lawful, Token
<1>3. \A t \in Holders(A, r, on, ctx, I) : t = r
  BY <1>1, <1>2
<1>4. \A t \in I : t = r
  BY <1>3 DEF Holders
<1>5. r \notin A /\ r \notin Q /\ r \notin S
  BY DEF Lawful, Places
<1>6. \A t \in A : ctx[t] \notin {"lock", "wait"}
  BY <1>3, <1>5 DEF Holders
<1> QED
  BY <1>2, <1>4, <1>5, <1>6

(* A thread switched back into a call that passed it the lock is the only  *)
(* holder.                                                                 *)
LEMMA BackAlone ==
  ASSUME NEW A \in SUBSET Tids, NEW r \in Tids, NEW on \in BOOLEAN,
         NEW ctx \in [Tids -> Contexts], NEW I \in SUBSET Tids,
         NEW Q \in SUBSET Tids, NEW S \in SUBSET Tids, NEW v,
         NEW lc \in [Tids -> Nat],
         Lawful(A, r, on, ctx, I, Q, S, v, lc),
         ~on, ctx[r] \in {"lock", "wait", "signal"}
  PROVE  /\ v = 1 /\ I = {}
         /\ r \notin A /\ r \notin Q /\ r \notin S
         /\ \A t \in A : ctx[t] \notin {"lock", "wait"}
<1>1. r \in Holders(A, r, on, ctx, I)
  BY DEF Holders
<1>2. v = 1 /\ \E h : Holders(A, r, on, ctx, I) = {h}
  BY <1>1 DEF Lawful, Token
<1>3. \A t \in Holders(A, r, on, ctx, I) : t = r
  BY <1>1, <1>2
<1>4. r \notin I
  BY DEF Lawful, Places
<1>5. \A t \in I : t = r
  BY <1>3 DEF Holders
<1>6. r \notin A /\ r \notin Q /\ r \notin S
  BY DEF Lawful, Places
<1>7. \A t \in A : ctx[t] \notin {"lock", "wait"}
  BY <1>3, <1>6 DEF Holders
<1> QED
  BY <1>2, <1>4, <1>5, <1>6, <1>7

(* A call that was only switched out returns.                              *)
LEMMA LawfulReturn ==
  ASSUME NEW A \in SUBSET Tids, NEW r \in Tids, NEW on \in BOOLEAN,
         NEW ctx \in [Tids -> Contexts], NEW I \in SUBSET Tids,
         NEW Q \in SUBSET Tids, NEW S \in SUBSET Tids, NEW v,
         NEW lc \in [Tids -> Nat],
         Lawful(A, r, on, ctx, I, Q, S, v, lc),
         ~on, ctx[r] \in {"stub", "yield", "suspend", "join", "unlock"}
  PROVE  Lawful(A, r, TRUE, ctx, I, Q, S, v, lc)
<1>1. r \notin A /\ r \notin S
  BY DEF Lawful, Places
<1>2. Places(A, r, TRUE, ctx, I, Q, S)
  BY <1>1 DEF Lawful, Places
<1>3. Holders(A, r, TRUE, ctx, I) = Holders(A, r, on, ctx, I)
  BY <1>1 DEF Holders
<1>4. Counted(A, r, TRUE, ctx, I, S, lc)
  BY DEF Lawful, Counted
<1> QED
  BY <1>2, <1>3, <1>4 DEF Lawful

(* A new thread has nothing to do with the lock.                           *)
LEMMA LawfulCreate ==
  ASSUME NEW A \in SUBSET Tids, NEW r \in Tids, NEW on \in BOOLEAN,
         NEW ctx \in [Tids -> Contexts], NEW I \in SUBSET Tids,
         NEW Q \in SUBSET Tids, NEW S \in SUBSET Tids, NEW v,
         NEW lc \in [Tids -> Nat],
         Lawful(A, r, on, ctx, I, Q, S, v, lc),
         NEW tid \in Tids, tid \notin A, tid \notin I, tid \notin Q, tid \notin S, tid # r,
         NEW ctx2, ctx2[tid] = "stub", \A t \in Tids : t # tid => ctx2[t] = ctx[t]
  PROVE  Lawful(A \cup {tid}, r, on, ctx2, I, Q, S, v, lc)
<1> DEFINE A2 == A \cup {tid}
<1>1. ctx2[tid] = "stub" /\ \A t \in Tids \ {tid} : ctx2[t] = ctx[t]
  OBVIOUS
<1>2. Places(A2, r, on, ctx2, I, Q, S)
  BY <1>1 DEF Lawful, Places
<1>3. Holders(A2, r, on, ctx2, I) = Holders(A, r, on, ctx, I)
  BY <1>1 DEF Holders
<1>4. Counted(A2, r, on, ctx2, I, S, lc)
  BY <1>1 DEF Lawful, Counted
<1> QED
  BY <1>2, <1>3, <1>4 DEF Lawful

(* A call of the thread library gives up the processor.  A thread inside   *)
(* stays schedulable; the threads X that are made ready hold no lock.      *)
LEMMA LawfulSwitch ==
  ASSUME NEW A \in SUBSET Tids, NEW r \in Tids, NEW on \in BOOLEAN,
         NEW ctx \in [Tids -> Contexts], NEW I \in SUBSET Tids,
         NEW Q \in SUBSET Tids, NEW S \in SUBSET Tids, NEW v,
         NEW lc \in [Tids -> Nat],
         Lawful(A, r, on, ctx, I, Q, S, v, lc),
         on, NEW X \in SUBSET Tids, X \cap (Q \cup S) = {}, I \cap X \subseteq {r},
         NEW c \in {"yield", "suspend", "join", "exit"},
         r \in I => r \in X /\ c \in {"yield", "suspend"},
         \A t \in X : (t = r /\ c \in {"yield", "suspend"}) \/ (t # r /\ ctx[t] = "join"),
         NEW r2 \in A \cup X
  PROVE  Lawful((A \cup X) \ {r2}, r2, FALSE, [ctx EXCEPT ![r] = c], I, Q, S, v, lc)
<1> DEFINE A2 == (A \cup X) \ {r2}
           ctx2 == [ctx EXCEPT ![r] = c]
<1>1. ctx2[r] = c /\ \A t \in Tids \ {r} : ctx2[t] = ctx[t]
  OBVIOUS
<1> HIDE DEF ctx2
<1>2. r \notin A /\ r \notin S /\ r \notin Q
  BY DEF Lawful, Places
<1>3. Places(A2, r2, FALSE, ctx2, I, Q, S)
  BY <1>1, <1>2 DEF Lawful, Places
<1>4. Holders(A2, r2, FALSE, ctx2, I) = Holders(A, r, on, ctx, I)
  BY <1>1, <1>2 DEF Holders, Lawful, Places
<1>5. Counted(A2, r2, FALSE, ctx2, I, S, lc)
  BY <1>1, <1>2 DEF Lawful, Counted, Places
<1> QED
  BY <1>3, <1>4, <1>5 DEF Lawful, ctx2

(* lock() of a free lock.                                                  *)
LEMMA LawfulAcquire ==
  ASSUME NEW A \in SUBSET Tids, NEW r \in Tids, NEW on \in BOOLEAN,
         NEW ctx \in [Tids -> Contexts], NEW I \in SUBSET Tids,
         NEW Q \in SUBSET Tids, NEW S \in SUBSET Tids, NEW v,
         NEW lc \in [Tids -> Nat],
         Lawful(A, r, on, ctx, I, Q, S, v, lc),
         on, r \notin I, v # 1,
         NEW lc2 \in [Tids -> Nat], lc2[r] # 0, \A t \in Tids \ {r} : lc2[t] = lc[t]
  PROVE  Lawful(A, r, TRUE, ctx, I \cup {r}, Q, S, 1, lc2)
<1>1. v = 0 /\ Holders(A, r, on, ctx, I) = {}
  BY DEF Lawful, Token
<1>2. I = {} /\ \A t \in A : ctx[t] \notin {"lock", "wait"}
  BY <1>1 DEF Holders
<1>3. r \notin A /\ r \notin S /\ r \notin Q
  BY DEF Lawful, Places
<1>4. Places(A, r, TRUE, ctx, I \cup {r}, Q, S)
  BY <1>2, <1>3 DEF Lawful, Places
<1>5. Holders(A, r, TRUE, ctx, I \cup {r}) = {r}
  BY <1>2 DEF Holders
<1>6. Token({r}, 1)
  BY DEF Token
<1>7. Counted(A, r, TRUE, ctx, I \cup {r}, S, lc2)
  BY <1>2, <1>3 DEF Lawful, Counted
<1> QED
  BY <1>2, <1>4, <1>5, <1>6, <1>7 DEF Lawful

(* lock() of a lock that is taken: the thread waits in the lock's queue.   *)
LEMMA LawfulQueue ==
  ASSUME NEW A \in SUBSET Tids, NEW r \in Tids, NEW on \in BOOLEAN,
         NEW ctx \in [Tids -> Contexts], NEW I \in SUBSET Tids,
         NEW Q \in SUBSET Tids, NEW S \in SUBSET Tids, NEW v,
         NEW lc \in [Tids -> Nat],
         Lawful(A, r, on, ctx, I, Q, S, v, lc),
         on, r \notin I, NEW r2 \in A
  PROVE  Lawful(A \ {r2}, r2, FALSE, [ctx EXCEPT ![r] = "lock"], I, Q \cup {r}, S, v, lc)
<1> DEFINE A2 == A \ {r2}
           ctx2 == [ctx EXCEPT ![r] = "lock"]
<1>1. ctx2[r] = "lock" /\ \A t \in Tids \ {r} : ctx2[t] = ctx[t]
  BY DEF Contexts
<1> HIDE DEF ctx2
<1>2. r \notin A /\ r \notin S /\ r \notin Q /\ r # r2
  BY DEF Lawful, Places
<1>3. Places(A2, r2, FALSE, ctx2, I, Q \cup {r}, S)
  BY <1>1, <1>2 DEF Lawful, Places
<1>4. Holders(A2, r2, FALSE, ctx2, I) = Holders(A, r, on, ctx, I)
  BY <1>1, <1>2 DEF Holders, Lawful, Places
<1>5. Counted(A2, r2, FALSE, ctx2, I, S, lc)
  BY <1>1, <1>2 DEF Lawful, Counted, Places
<1> QED
  BY <1>3, <1>4, <1>5 DEF Lawful, ctx2

(* Nothing is asked of threads that the condition variables have dropped.  *)
LEMMA LawfulShrink ==
  ASSUME NEW A, NEW r, NEW on, NEW ctx, NEW I, NEW Q, NEW S, NEW v, NEW lc,
         Lawful(A, r, on, ctx, I, Q, S, v, lc), NEW S2, S2 \subseteq S
  PROVE  Lawful(A, r, on, ctx, I, Q, S2, v, lc)
  BY DEF Lawful, Places, Counted

(* A thread that has been passed the lock returns from its call with it.   *)
LEMMA LawfulEnter ==
  ASSUME NEW A \in SUBSET Tids, NEW r \in Tids, NEW on \in BOOLEAN,
         NEW ctx \in [Tids -> Contexts], NEW I \in SUBSET Tids,
         NEW Q \in SUBSET Tids, NEW S \in SUBSET Tids, NEW v,
         NEW lc \in [Tids -> Nat],
         Lawful(A, r, on, ctx, I, Q, S, v, lc),
         ~on, ctx[r] \in {"lock", "wait", "signal"},
         NEW lc2 \in [Tids -> Nat], \A t \in Tids \ {r} : lc2[t] = lc[t],
         lc2[r] # 0
  PROVE  Lawful(A, r, TRUE, ctx, I \cup {r}, Q, S, v, lc2)
<1>1. /\ v = 1 /\ I = {}
      /\ r \notin A /\ r \notin Q /\ r \notin S
      /\ \A t \in A : ctx[t] \notin {"lock", "wait"}
  BY BackAlone
<1>2. Places(A, r, TRUE, ctx, I \cup {r}, Q, S)
  BY <1>1 DEF Lawful, Places
<1>3. Holders(A, r, TRUE, ctx, I \cup {r}) = {r}
  BY <1>1 DEF Holders
<1>4. Token({r}, v)
  BY <1>1 DEF Token
<1>5. Counted(A, r, TRUE, ctx, I \cup {r}, S, lc2)
  BY <1>1 DEF Lawful, Counted
<1> QED
  BY <1>1, <1>2, <1>3, <1>4, <1>5 DEF Lawful

(* unlock() frees the lock.                                                *)
LEMMA LawfulFree ==
  ASSUME NEW A \in SUBSET Tids, NEW r \in Tids, NEW on \in BOOLEAN,
         NEW ctx \in [Tids -> Contexts], NEW I \in SUBSET Tids,
         NEW Q \in SUBSET Tids, NEW S \in SUBSET Tids, NEW v,
         NEW lc \in [Tids -> Nat],
         Lawful(A, r, on, ctx, I, Q, S, v, lc),
         on, r \in I, NEW lc2 \in [Tids -> Nat], \A t \in Tids \ {r} : lc2[t] = lc[t]
  PROVE  Lawful(A, r, TRUE, ctx, I \ {r}, Q, S, 0, lc2)
<1>1. /\ v = 1 /\ I = {r}
      /\ r \notin A /\ r \notin Q /\ r \notin S
      /\ \A t \in A : ctx[t] \notin {"lock", "wait"}
  BY InsideAlone
<1>2. Places(A, r, TRUE, ctx, I \ {r}, Q, S)
  BY <1>1 DEF Lawful, Places
<1>3. Holders(A, r, TRUE, ctx, I \ {r}) = {}
  BY <1>1 DEF Holders
<1>4. Token({}, 0)
  BY DEF Token
<1>5. Counted(A, r, TRUE, ctx, I \ {r}, S, lc2)
  BY <1>1 DEF Lawful, Counted
<1> QED
  BY <1>2, <1>3, <1>4, <1>5 DEF Lawful

(* unlock() passes the lock to a thread of the lock's queue.               *)
LEMMA LawfulPass ==
  ASSUME NEW A \in SUBSET Tids, NEW r \in Tids, NEW on \in BOOLEAN,
         NEW ctx \in [Tids -> Contexts], NEW I \in SUBSET Tids,
         NEW Q \in SUBSET Tids, NEW S \in SUBSET Tids, NEW v,
         NEW lc \in [Tids -> Nat],
         Lawful(A, r, on, ctx, I, Q, S, v, lc),
         on, r \in I, NEW h \in Q,
         NEW lc2 \in [Tids -> Nat], \A t \in Tids \ {r} : lc2[t] = lc[t]
  PROVE  Lawful(A \cup {h}, r, TRUE, ctx, I \ {r}, Q \ {h}, S, v, lc2)
<1>1. /\ v = 1 /\ I = {r}
      /\ r \notin A /\ r \notin Q /\ r \notin S
      /\ \A t \in A : ctx[t] \notin {"lock", "wait"}
  BY InsideAlone
<1>2. h \notin A /\ h \notin S /\ h # r /\ ctx[h] = "lock"
  BY <1>1 DEF Lawful, Places
<1>3. Places(A \cup {h}, r, TRUE, ctx, I \ {r}, Q \ {h}, S)
  BY <1>1, <1>2 DEF Lawful, Places
<1>4. Holders(A \cup {h}, r, TRUE, ctx, I \ {r}) = {h}
  BY <1>1, <1>2 DEF Holders
<1>5. Token({h}, v)
  BY <1>1 DEF Token
<1>6. Counted(A \cup {h}, r, TRUE, ctx, I \ {r}, S, lc2)
  BY <1>1, <1>2 DEF Lawful, Counted
<1> QED
  BY <1>3, <1>4, <1>5, <1>6 DEF Lawful

(* unlock() and wait() give the lock back to the thread n that is owed it. *)
LEMMA LawfulHandBack ==
  ASSUME NEW A \in SUBSET Tids, NEW r \in Tids, NEW on \in BOOLEAN,
         NEW ctx \in [Tids -> Contexts], NEW I \in SUBSET Tids,
         NEW Q \in SUBSET Tids, NEW S \in SUBSET Tids, NEW v,
         NEW lc \in [Tids -> Nat],
         Lawful(A, r, on, ctx, I, Q, S, v, lc),
         on, r \in I, NEW n \in S, NEW c \in {"unlock", "wait_unlock"},
         NEW S2, S2 = (S \ {n}) \cup (IF c = "wait_unlock" THEN {r} ELSE {}),
         NEW lc2 \in [Tids -> Nat], \A t \in Tids \ {r} : lc2[t] = lc[t],
         c = "wait_unlock" => lc2[r] # 0
  PROVE  Lawful(A \cup {r}, n, FALSE, [ctx EXCEPT ![r] = c], I \ {r}, Q, S2, v, lc2)
<1> DEFINE A2 == A \cup {r}
           ctx2 == [ctx EXCEPT ![r] = c]
<1>1. ctx2[r] = c /\ \A t \in Tids \ {r} : ctx2[t] = ctx[t]
  OBVIOUS
<1> HIDE DEF ctx2
<1>2. /\ v = 1 /\ I = {r}
      /\ r \notin A /\ r \notin Q /\ r \notin S
      /\ \A t \in A : ctx[t] \notin {"lock", "wait"}
  BY InsideAlone
<1>3. /\ n # r /\ n \in Tids /\ n \notin Q /\ ctx2[n] = ctx[n]
      /\ ctx[n] \in {"wait", "wait_unlock", "signal"}
      /\ n \in A <=> ctx[n] = "wait_unlock"
  BY <1>1, <1>2 DEF Lawful, Places
<1>4. Places(A2, n, FALSE, ctx2, I \ {r}, Q, S2)
  BY <1>1, <1>2, <1>3 DEF Lawful, Places
<1>5. Holders(A2, n, FALSE, ctx2, I \ {r}) = {n}
  BY <1>1, <1>2, <1>3 DEF Holders
<1>6. Token({n}, v)
  BY <1>2 DEF Token
<1>7. Counted(A2, n, FALSE, ctx2, I \ {r}, S2, lc2)
  BY <1>1, <1>2, <1>3 DEF Lawful, Counted
<1> QED
  BY <1>4, <1>5, <1>6, <1>7 DEF Lawful, ctx2

(* wait() frees the lock, or passes it to a thread of the lock's queue,    *)
(* and gives up the processor.                                             *)
LEMMA LawfulWait ==
  ASSUME NEW A \in SUBSET Tids, NEW r \in Tids, NEW on \in BOOLEAN,
         NEW ctx \in [Tids -> Contexts], NEW I \in SUBSET Tids,
         NEW Q \in SUBSET Tids, NEW S \in SUBSET Tids, NEW v,
         NEW lc \in [Tids -> Nat],
         Lawful(A, r, on, ctx, I, Q, S, v, lc),
         on, r \in I, NEW P \in SUBSET Q, NEW v2,
         (P = {} /\ v2 = 0) \/ (v2 = v /\ \E h \in Q : P = {h}),
         NEW r2 \in A \cup P
  PROVE  Lawful((A \cup P) \ {r2}, r2, FALSE, [ctx EXCEPT ![r] = "wait"],
                I \ {r}, Q \ P, S \cup {r}, v2, lc)
<1> DEFINE A2 == (A \cup P) \ {r2}
           ctx2 == [ctx EXCEPT ![r] = "wait"]
<1>1. ctx2[r] = "wait" /\ \A t \in Tids \ {r} : ctx2[t] = ctx[t]
  BY DEF Contexts
<1> HIDE DEF ctx2
<1>2. /\ v = 1 /\ I = {r}
      /\ r \notin A /\ r \notin Q /\ r \notin S
      /\ \A t \in A : ctx[t] \notin {"lock", "wait"}
  BY InsideAlone
<1>3. \A h \in P : h \notin A /\ h \notin S /\ h # r /\ ctx[h] = "lock"
  BY <1>2 DEF Lawful, Places
<1>4. Places(A2, r2, FALSE, ctx2, I \ {r}, Q \ P, S \cup {r})
  BY <1>1, <1>2, <1>3 DEF Lawful, Places
<1>5. Holders(A2, r2, FALSE, ctx2, I \ {r}) = P
  <2>1. \A t \in A : ctx2[t] \notin {"lock", "wait", "signal"}
    BY <1>1, <1>2 DEF Lawful, Places
  <2>2. \A t \in P : ctx2[t] = "lock"
    BY <1>1, <1>3
  <2>3. \A t \in Holders(A2, r2, FALSE, ctx2, I \ {r}) : t \in P
    BY <1>2, <2>1, <2>2 DEF Holders
  <2>4. \A t \in P : t \in Holders(A2, r2, FALSE, ctx2, I \ {r})
    BY <2>2 DEF Holders
  <2> QED
    BY <2>3, <2>4
<1>6. Token(P, v2)
  BY <1>2 DEF Token
<1>7. Counted(A2, r2, FALSE, ctx2, I \ {r}, S \cup {r}, lc)
  <2>1. \A t \in A : ctx2[t] = ctx[t] /\ ctx[t] # "signal"
    BY <1>1, <1>2 DEF Lawful, Places
  <2>2. \A t \in P : ctx2[t] = "lock"
    BY <1>1, <1>3
  <2> QED
    BY <1>2, <2>1, <2>2 DEF Lawful, Counted
<1> QED
  BY <1>4, <1>5, <1>6, <1>7 DEF Lawful, ctx2

(* A thread that gave the lock back in wait() blocks.  If it has been      *)
(* signalled meanwhile it is still schedulable, and keeps the lock.        *)
LEMMA LawfulBlock ==
  ASSUME NEW A \in SUBSET Tids, NEW r \in Tids, NEW on \in BOOLEAN,
         NEW ctx \in [Tids -> Contexts], NEW I \in SUBSET Tids,
         NEW Q \in SUBSET Tids, NEW S \in SUBSET Tids, NEW v,
         NEW lc \in [Tids -> Nat],
         Lawful(A, r, on, ctx, I, Q, S, v, lc),
         ~on, ctx[r] = "wait_unlock", NEW r2 \in A
  PROVE  Lawful(A \ {r2}, r2, FALSE, [ctx EXCEPT ![r] = "wait"], I, Q, S, v, lc)
<1> DEFINE A2 == A \ {r2}
           ctx2 == [ctx EXCEPT ![r] = "wait"]
<1>1. ctx2[r] = "wait" /\ \A t \in Tids \ {r} : ctx2[t] = ctx[t]
  BY DEF Contexts
<1> HIDE DEF ctx2
<1>2. r \notin Q /\ r \notin I /\ (r \in S => r \notin A)
  BY DEF Lawful, Places
<1>3. Places(A2, r2, FALSE, ctx2, I, Q, S)
  BY <1>1, <1>2 DEF Lawful, Places
<1>4. Holders(A2, r2, FALSE, ctx2, I) = Holders(A, r, on, ctx, I)
  BY <1>1, <1>2 DEF Holders, Lawful, Places
<1>5. Counted(A2, r2, FALSE, ctx2, I, S, lc)
  BY <1>1, <1>2 DEF Lawful, Counted, Places
<1> QED
  BY <1>3, <1>4, <1>5 DEF Lawful, ctx2

(* signal() and broadcast() hand processor and lock to a waiting thread.   *)
LEMMA LawfulNotify ==
  ASSUME NEW A \in SUBSET Tids, NEW r \in Tids, NEW on \in BOOLEAN,
         NEW ctx \in [Tids -> Contexts], NEW I \in SUBSET Tids,
         NEW Q \in SUBSET Tids, NEW S \in SUBSET Tids, NEW v,
         NEW lc \in [Tids -> Nat],
         Lawful(A, r, on, ctx, I, Q, S, v, lc),
         on, r \in I, NEW h \in S
  PROVE  Lawful(A, h, FALSE, [ctx EXCEPT ![r] = "signal"], I \ {r}, Q,
                (S \ {h}) \cup {r}, v, lc)
<1> DEFINE ctx2 == [ctx EXCEPT ![r] = "signal"]
<1>1. ctx2[r] = "signal" /\ \A t \in Tids \ {r} : ctx2[t] = ctx[t]
  BY DEF Contexts
<1> HIDE DEF ctx2
<1>2. /\ v = 1 /\ I = {r}
      /\ r \notin A /\ r \notin Q /\ r \notin S
      /\ \A t \in A : ctx[t] \notin {"lock", "wait"}
  BY InsideAlone
<1>3. /\ h # r /\ h \in Tids /\ h \notin Q /\ ctx2[h] = ctx[h]
      /\ ctx[h] \in {"wait", "wait_unlock", "signal"}
      /\ h \in A <=> ctx[h] = "wait_unlock"
  BY <1>1, <1>2 DEF Lawful, Places
<1>4. Places(A, h, FALSE, ctx2, I \ {r}, Q, (S \ {h}) \cup {r})
  BY <1>1, <1>2, <1>3 DEF Lawful, Places
<1>5. Holders(A, h, FALSE, ctx2, I \ {r}) = {h}
  BY <1>1, <1>2, <1>3 DEF Holders
<1>6. Token({h}, v)
  BY <1>2 DEF Token
<1>7. Counted(A, h, FALSE, ctx2, I \ {r}, (S \ {h}) \cup {r}, lc)
  BY <1>1, <1>2, <1>3 DEF Lawful, Counted
<1> QED
  BY <1>4, <1>5, <1>6, <1>7 DEF Lawful, ctx2

-----------------------------------------------------------------------------
(* The queues of the condition variables.                                  *)

(* Replacing one condition variable's queue.                               *)
LEMMA QueueReplaced ==
  ASSUME NEW q, Separate(q), NEW c \in CondVars, NEW new \in Seq(Tids),
         IsInjective(new), ToSet(new) \cap (SeqThreads(q) \ ToSet(q[c])) = {}
  PROVE  /\ Separate([q EXCEPT ![c] = new])
         /\ SeqThreads([q EXCEPT ![c] = new])
              = (SeqThreads(q) \ ToSet(q[c])) \cup ToSet(new)
<1> DEFINE q2 == [q EXCEPT ![c] = new]
<1>1. /\ q2 \in [CondVars -> Seq(Tids)] /\ q2[c] = new
      /\ \A d \in CondVars \ {c} : q2[d] = q[d]
  BY DEF Separate
<1> HIDE DEF q2
<1>2. \A d \in CondVars : ToSet(q[d]) \subseteq SeqThreads(q)
  BY DEF SeqThreads
<1>3. \A d \in CondVars \ {c} : ToSet(q[d]) \cap ToSet(q[c]) = {}
  BY DEF Separate
<1>4. \A d \in CondVars \ {c} : ToSet(new) \cap ToSet(q[d]) = {}
  BY <1>2, <1>3
<1>5. \A d \in CondVars : IsInjective(q2[d])
  BY <1>1 DEF Separate
<1>6. ASSUME NEW d \in CondVars, NEW e \in CondVars, d # e
      PROVE  ToSet(q2[d]) \cap ToSet(q2[e]) = {}
  <2>1. CASE d = c
    BY <1>1, <1>4, <1>6, <2>1
  <2>2. CASE e = c
    BY <1>1, <1>4, <1>6, <2>2
  <2>3. CASE d # c /\ e # c
    BY <1>1, <1>6, <2>3 DEF Separate
  <2> QED
    BY <2>1, <2>2, <2>3
<1>7. SeqThreads(q2) = (SeqThreads(q) \ ToSet(q[c])) \cup ToSet(new)
  <2>1. ASSUME NEW x \in SeqThreads(q2)
        PROVE  x \in (SeqThreads(q) \ ToSet(q[c])) \cup ToSet(new)
    <3>1. PICK d \in CondVars : x \in ToSet(q2[d])
      BY DEF SeqThreads
    <3> QED
      BY <1>1, <1>2, <1>3, <3>1
  <2>2. ASSUME NEW x \in SeqThreads(q) \ ToSet(q[c]) PROVE x \in SeqThreads(q2)
    <3>1. PICK d \in CondVars : x \in ToSet(q[d])
      BY DEF SeqThreads
    <3>2. x \in ToSet(q2[d])
      BY <1>1, <2>2, <3>1
    <3> QED
      BY <3>2 DEF SeqThreads
  <2>3. ToSet(new) \subseteq SeqThreads(q2)
    BY <1>1 DEF SeqThreads
  <2> QED
    BY <2>1, <2>2, <2>3
<1> QED
  BY <1>1, <1>5, <1>6, <1>7 DEF Separate, q2

(* Only threads sleep.                                                     *)
LEMMA SleepersAreThreads ==
  ASSUME NEW q, Separate(q)
  PROVE  /\ SeqThreads(q) \subseteq Tids /\ Null \notin SeqThreads(q)
         /\ \A c \in CondVars : ToSet(q[c]) \subseteq SeqThreads(q)
<1>1. \A c \in CondVars : ToSet(q[c]) \subseteq Tids
  BY Members DEF Separate
<1>2. SeqThreads(q) \subseteq Tids
  BY <1>1 DEF SeqThreads
<1>3. \A c \in CondVars : ToSet(q[c]) \subseteq SeqThreads(q)
  BY DEF SeqThreads
<1> QED
  BY <1>2, <1>3, MonitorAssumption

(* The first thread of a queue.                                            *)
LEMMA FirstSleeps ==
  ASSUME NEW q, Separate(q), NEW c \in CondVars, q[c] # << >>
  PROVE  Head(q[c]) \in SeqThreads(q)
<1>1. q[c] \in Seq(Tids)
  BY DEF Separate
<1>2. Head(q[c]) \in ToSet(q[c])
  BY <1>1, TailMembers
<1> QED
  BY <1>2, SleepersAreThreads

(* wait() puts the thread at the end of its condition variable's queue.    *)
LEMMA SleepWait ==
  ASSUME NEW cvq, NEW wo, NEW n, AtMostOnce(cvq, wo, n), NEW c \in CondVars,
         NEW r \in Tids, r \notin Sleepers(cvq, wo, n)
  PROVE  Hold([cvq EXCEPT ![c] = Append(@, r)], wo, n, Sleepers(cvq, wo, n) \cup {r})
<1> DEFINE new == Append(cvq[c], r)
           cvq2 == [cvq EXCEPT ![c] = new]
<1>1. Separate(cvq) /\ cvq[c] \in Seq(Tids) /\ IsInjective(cvq[c])
  BY DEF AtMostOnce, Separate
<1>2. ToSet(cvq[c]) \subseteq SeqThreads(cvq)
  BY <1>1, SleepersAreThreads
<1>3. r \notin SeqThreads(cvq) /\ r \notin SeqThreads(wo) /\ r # n
  BY MonitorAssumption DEF Sleepers
<1>4. new \in Seq(Tids) /\ ToSet(new) = ToSet(cvq[c]) \cup {r} /\ IsInjective(new)
  BY <1>1, <1>2, <1>3, AppendMembers
<1> HIDE DEF new
<1>5. Separate(cvq2)
  BY <1>1, <1>2, <1>3, <1>4, QueueReplaced
<1>6. SeqThreads(cvq2) = SeqThreads(cvq) \cup {r}
  <2>1. SeqThreads(cvq2) = (SeqThreads(cvq) \ ToSet(cvq[c])) \cup ToSet(new)
    BY <1>1, <1>2, <1>3, <1>4, QueueReplaced
  <2> QED
    BY <1>2, <1>4, <2>1
<1> HIDE DEF cvq2
<1>7. AtMostOnce(cvq2, wo, n)
  BY <1>3, <1>5, <1>6 DEF AtMostOnce
<1>8. Sleepers(cvq2, wo, n) = Sleepers(cvq, wo, n) \cup {r}
  BY <1>6 DEF Sleepers
<1> QED
  BY <1>7, <1>8 DEF cvq2, new, Hold

(* The lock has been given back to the thread that was owed it.            *)
LEMMA SleepHandBack ==
  ASSUME NEW cvq, NEW wo, NEW n, AtMostOnce(cvq, wo, n)
  PROVE  /\ AtMostOnce(cvq, wo, Null)
         /\ Sleepers(cvq, wo, Null) = Sleepers(cvq, wo, n) \ {n}
<1>1. Null \notin SeqThreads(cvq) /\ Null \notin SeqThreads(wo)
  BY SleepersAreThreads DEF AtMostOnce
<1> QED
  BY <1>1 DEF AtMostOnce, Sleepers

(* A woken thread takes the next thread to wake from the wake-up order.    *)
LEMMA SleepNext ==
  ASSUME NEW cvq, NEW wo, NEW n, AtMostOnce(cvq, wo, n), NEW c \in CondVars,
         wo[c] # << >>
  PROVE  LET wo2 == [wo EXCEPT ![c] = Tail(wo[c])]
             h == Head(wo[c]) IN
           /\ h \in Tids /\ h \in SeqThreads(wo)
           /\ AtMostOnce(cvq, wo2, h)
           /\ SeqThreads(wo2) = SeqThreads(wo) \ {h}
           /\ Sleepers(cvq, wo2, h) = SeqThreads(cvq) \cup SeqThreads(wo)
<1> DEFINE new == Tail(wo[c])
           h == Head(wo[c])
           wo2 == [wo EXCEPT ![c] = new]
<1>1. Separate(wo) /\ Separate(cvq) /\ wo[c] \in Seq(Tids) /\ IsInjective(wo[c])
  BY DEF AtMostOnce, Separate
<1>2. /\ new \in Seq(Tids) /\ IsInjective(new) /\ h \in Tids
      /\ ToSet(wo[c]) = ToSet(new) \cup {h} /\ h \notin ToSet(new)
  BY <1>1, TailMembers
<1> HIDE DEF new, h
<1>3. ToSet(wo[c]) \subseteq SeqThreads(wo) /\ Null \notin SeqThreads(wo)
  BY <1>1, SleepersAreThreads
<1>4. Separate(wo2)
  BY <1>1, <1>2, <1>3, QueueReplaced
<1>5. SeqThreads(wo2) = SeqThreads(wo) \ {h}
  <2>1. SeqThreads(wo2) = (SeqThreads(wo) \ ToSet(wo[c])) \cup ToSet(new)
    BY <1>1, <1>2, <1>3, QueueReplaced
  <2> QED
    BY <1>2, <1>3, <2>1
<1>6. h \in SeqThreads(wo) /\ h # Null
  BY <1>2, <1>3
<1> HIDE DEF wo2
<1>7. AtMostOnce(cvq, wo2, h)
  BY <1>1, <1>4, <1>5, <1>6 DEF AtMostOnce
<1>8. Sleepers(cvq, wo2, h) = SeqThreads(cvq) \cup SeqThreads(wo)
  BY <1>5, <1>6 DEF Sleepers
<1> QED
  BY <1>2, <1>5, <1>6, <1>7, <1>8 DEF wo2, new, h

(* signal() and broadcast() take the first waiting thread out and put the  *)
(* woken ones, and the caller, into the wake-up order.                     *)
LEMMA SleepNotify ==
  ASSUME NEW cvq, NEW wo, NEW n, AtMostOnce(cvq, wo, n), NEW c \in CondVars,
         cvq[c] # << >>, NEW r \in Tids, r \notin Sleepers(cvq, wo, n),
         NEW woken, NEW remaining,
         \/ woken = <<r>> /\ remaining = Tail(cvq[c])
         \/ woken = Append(Tail(cvq[c]), r) /\ remaining = << >>
  PROVE  Hold([cvq EXCEPT ![c] = remaining], [wo EXCEPT ![c] = @ \o woken], n,
              (Sleepers(cvq, wo, n) \ {Head(cvq[c])}) \cup {r})
<1> DEFINE h == Head(cvq[c])
           rest == Tail(cvq[c])
           order == wo[c] \o woken
           cvq2 == [cvq EXCEPT ![c] = remaining]
           wo2 == [wo EXCEPT ![c] = order]
<1>1. /\ Separate(cvq) /\ cvq[c] \in Seq(Tids) /\ IsInjective(cvq[c])
      /\ Separate(wo) /\ wo[c] \in Seq(Tids) /\ IsInjective(wo[c])
  BY DEF AtMostOnce, Separate
<1>2. /\ rest \in Seq(Tids) /\ IsInjective(rest) /\ h \in Tids
      /\ ToSet(cvq[c]) = ToSet(rest) \cup {h} /\ h \notin ToSet(rest)
  BY <1>1, TailMembers
<1> HIDE DEF rest, h
<1>3. ToSet(cvq[c]) \subseteq SeqThreads(cvq) /\ ToSet(wo[c]) \subseteq SeqThreads(wo)
  BY <1>1, SleepersAreThreads
<1>4. /\ r \notin SeqThreads(cvq) /\ r \notin SeqThreads(wo) /\ r # n
      /\ n \notin SeqThreads(cvq) /\ n \notin SeqThreads(wo)
      /\ SeqThreads(cvq) \cap SeqThreads(wo) = {}
  BY MonitorAssumption DEF Sleepers, AtMostOnce
<1>5. /\ woken \in Seq(Tids) /\ remaining \in Seq(Tids)
      /\ IsInjective(woken) /\ IsInjective(remaining)
      /\ ToSet(woken) \cap ToSet(remaining) = {}
      /\ ToSet(woken) \cup ToSet(remaining) = ToSet(rest) \cup {r}
      /\ r \in ToSet(woken)
  <2>1. << >> \in Seq(Tids) /\ ToSet(<< >>) = {} /\ IsInjective(<< >>)
    BY DEF ToSet, IsInjective
  <2>2. <<r>> \in Seq(Tids) /\ ToSet(<<r>>) = {r} /\ IsInjective(<<r>>)
    BY DEF ToSet, IsInjective
  <2>3. r \notin ToSet(rest)
    BY <1>2, <1>3, <1>4
  <2>4. /\ Append(rest, r) \in Seq(Tids) /\ ToSet(Append(rest, r)) = ToSet(rest) \cup {r}
        /\ IsInjective(Append(rest, r))
    BY <1>2, <2>3, AppendMembers
  <2>5. CASE woken = <<r>> /\ remaining = rest
    BY <1>2, <2>2, <2>3, <2>5
  <2>6. CASE woken = Append(rest, r) /\ remaining = << >>
    BY <2>1, <2>4, <2>6
  <2> QED
    BY <2>5, <2>6 DEF rest
<1>6. ToSet(wo[c]) \cap ToSet(woken) = {}
  BY <1>2, <1>3, <1>4, <1>5
<1>7. /\ order \in Seq(Tids) /\ IsInjective(order)
      /\ ToSet(order) = ToSet(wo[c]) \cup ToSet(woken)
  BY <1>1, <1>5, <1>6, ConcatMembers
<1> HIDE DEF order
<1>8. ToSet(remaining) \cap (SeqThreads(cvq) \ ToSet(cvq[c])) = {}
  BY <1>2, <1>4, <1>5
<1>9. Separate(cvq2)
  BY <1>1, <1>5, <1>8, QueueReplaced
<1>10. SeqThreads(cvq2) = (SeqThreads(cvq) \ ToSet(cvq[c])) \cup ToSet(remaining)
  BY <1>1, <1>5, <1>8, QueueReplaced
<1>11. ToSet(order) \cap (SeqThreads(wo) \ ToSet(wo[c])) = {}
  BY <1>2, <1>3, <1>4, <1>5, <1>7
<1>12. Separate(wo2)
  BY <1>1, <1>7, <1>11, QueueReplaced
<1>13. SeqThreads(wo2) = SeqThreads(wo) \cup ToSet(woken)
  <2>1. SeqThreads(wo2) = (SeqThreads(wo) \ ToSet(wo[c])) \cup ToSet(order)
    BY <1>1, <1>7, <1>11, QueueReplaced
  <2> QED
    BY <1>3, <1>7, <2>1
<1>14. h \in SeqThreads(cvq) /\ h # r
  BY <1>2, <1>3, <1>4
<1> HIDE DEF cvq2, wo2
<1>15. AtMostOnce(cvq2, wo2, n)
  <2>1. SeqThreads(cvq2) \cap SeqThreads(wo2) = {}
    BY <1>2, <1>3, <1>4, <1>5, <1>10, <1>13
  <2>2. n \notin SeqThreads(cvq2) \cup SeqThreads(wo2)
    BY <1>2, <1>3, <1>4, <1>5, <1>10, <1>13
  <2> QED
    BY <1>9, <1>12, <2>1, <2>2 DEF AtMostOnce
<1>16. SeqThreads(cvq2) \cup SeqThreads(wo2)
         = ((SeqThreads(cvq) \cup SeqThreads(wo)) \ {h}) \cup {r}
  BY <1>2, <1>3, <1>4, <1>5, <1>10, <1>13, <1>14
<1>17. Sleepers(cvq2, wo2, n) = (Sleepers(cvq, wo, n) \ {h}) \cup {r}
  BY <1>4, <1>14, <1>16 DEF Sleepers
<1> QED
  BY <1>15, <1>17 DEF cvq2, wo2, h, order, Hold

-----------------------------------------------------------------------------
(* The steps of the thread library.                                        *)

(* What the invariant says of the sets of threads.                         *)
LEMMA LockFacts ==
  ASSUME LockState
  PROVE  /\ Able \in SUBSET Tids /\ running \in Tids /\ interrupts_enabled \in BOOLEAN
         /\ context \in [Tids -> Contexts] /\ inside \in SUBSET Tids
         /\ ToSet(waiting_queue) \in SUBSET Tids /\ Asleep \in SUBSET Tids
         /\ lock_count \in [Tids -> Nat] /\ value \in {0, 1}
         /\ Lawful(Able, running, interrupts_enabled, context, inside,
                   ToSet(waiting_queue), Asleep, value, lock_count)
         /\ Able = QueuedIn(ready) \cup blocked
         /\ QueuedIn(ready) \cap (blocked \cup Joiners(join_queue) \cup finished_queue) = {}
         /\ blocked \cap (Joiners(join_queue) \cup finished_queue) = {}
         /\ running \in threads /\ running \notin Joiners(join_queue) \cup finished_queue
         /\ Able \cup Joiners(join_queue) \cup finished_queue \subseteq threads
         /\ inside \cup ToSet(waiting_queue) \cup Asleep
              \subseteq threads \ (Joiners(join_queue) \cup finished_queue)
         /\ threads \subseteq Tids
         /\ \A t \in Joiners(join_queue) : context[t] = "join"
         /\ interrupts_enabled => /\ running \notin Able
                                  /\ running \notin ToSet(waiting_queue)
                                  /\ running \notin Asleep
<1>1. /\ running \in Tids /\ interrupts_enabled \in BOOLEAN
      /\ context \in [Tids -> Contexts] /\ lock_count \in [Tids -> Nat]
      /\ threads \subseteq Tids
  BY DEF LockState, Base, TypeOK
<1>2. inside \in SUBSET Tids /\ value \in {0, 1}
  BY DEF LockState, MonitorTypeOK
<1>3. /\ Able = QueuedIn(ready) \cup blocked
      /\ QueuedIn(ready) \cap (blocked \cup Joiners(join_queue) \cup finished_queue) = {}
      /\ blocked \cap (Joiners(join_queue) \cup finished_queue) = {}
      /\ running \in threads /\ running \notin Joiners(join_queue) \cup finished_queue
      /\ Able \cup Joiners(join_queue) \cup finished_queue \subseteq threads
  BY DEF LockState, Parts, Able
<1>4. /\ inside \cup ToSet(waiting_queue) \cup Asleep
           \subseteq threads \ (Joiners(join_queue) \cup finished_queue)
      /\ \A t \in Joiners(join_queue) : context[t] = "join"
      /\ Lawful(Able, running, interrupts_enabled, context, inside,
                ToSet(waiting_queue), Asleep, value, lock_count)
  BY DEF LockState, MonitorParts
<1>5. interrupts_enabled => /\ running \notin Able
                            /\ running \notin ToSet(waiting_queue)
                            /\ running \notin Asleep
  BY <1>4 DEF Lawful, Places
<1> QED
  BY <1>1, <1>2, <1>3, <1>4, <1>5

(* The counts of threads that sleep or may be scheduled.                   *)
LEMMA LawfulCounts ==
  ASSUME NEW A, NEW r, NEW on, NEW ctx, NEW I, NEW Q, NEW S, NEW v, NEW lc, NEW lc2,
         Lawful(A, r, on, ctx, I, Q, S, v, lc),
         \A t \in A \cup I \cup S \cup {r} : lc2[t] = lc[t]
  PROVE  Lawful(A, r, on, ctx, I, Q, S, v, lc2)
  BY DEF Lawful, Counted

(* The thread library changes the count of a new thread only.              *)
LEMMA CountsKept ==
  ASSUME Base, UThreadNext
  PROVE  \A t \in threads : lock_count'[t] = lock_count[t]
<1>1. CASE uthread_create
  <2> DEFINE tid == getNextId
  <2>1. tid \in Tids /\ tid \notin threads
    BY <1>1, NextIdIsFree DEF uthread_create, Base, known
  <2>2. lock_count' = [lock_count EXCEPT ![tid] = 0]
    BY <1>1 DEF uthread_create
  <2>3. lock_count \in [Tids -> Nat] /\ threads \subseteq Tids
    BY DEF Base, TypeOK
  <2> HIDE DEF tid
  <2> QED
    BY <2>1, <2>2, <2>3
<1>2. CASE ~uthread_create
  <2>1. lock_count' = lock_count
    <3> USE DEF Die
    <3>1. CASE uthread_create_check
      BY <3>1 DEF uthread_create_check
    <3>2. ASSUME NEW tid \in Tids, uthread_join(tid) PROVE lock_count' = lock_count
      BY <3>2 DEF uthread_join
    <3>3. CASE uthread_join_resumed
      BY <3>3 DEF uthread_join_resumed
    <3>4. CASE uthread_exit
      BY <3>4 DEF uthread_exit
    <3>5. CASE uthread_exit_main
      BY <3>5 DEF uthread_exit_main
    <3>6. CASE yield_body
      BY <3>6 DEF yield_body
    <3>7. CASE resumed
      BY <3>7 DEF resumed
    <3>8. ASSUME NEW op, NEW tid, Check(op, tid) PROVE lock_count' = lock_count
      BY <3>8 DEF Check
    <3>9. CASE uthread_suspend
      BY <3>9 DEF uthread_suspend
    <3>10. CASE uthread_resume_find
      BY <3>10 DEF uthread_resume_find
    <3>11. CASE uthread_resume
      BY <3>11 DEF uthread_resume
    <3>12. CASE uthread_change_priority
      BY <3>12 DEF uthread_change_priority
    <3> QED
      BY <1>2, <3>1, <3>2, <3>3, <3>4, <3>5, <3>6, <3>7, <3>8, <3>9, <3>10, <3>11,
         <3>12 DEF UThreadNext, uthread_yield, timeHandler, uthread_suspend_check,
         uthread_resume_count, uthread_priority_check
  <2> QED
    BY <2>1
<1> QED
  BY <1>1, <1>2

(* A step of the thread library keeps the lock where it is.                *)
LEMMA ThreadStepKeepsLock ==
  ASSUME LockState, Scheduled, proc' = "alive",
         running \in inside => /\ finished_queue' \subseteq finished_queue
                               /\ join_queue' = join_queue,
         NEW S, S = Asleep, NEW Q, Q = ToSet(waiting_queue),
         NEW lc \in [Tids -> Nat], \A t \in threads : lc[t] = lock_count[t]
  PROVE  /\ Lawful(Able', running', interrupts_enabled', context', inside, Q, S, value, lc)
         /\ inside \cup Q \cup S
              \subseteq threads' \ (Joiners(join_queue') \cup finished_queue')
         /\ \A t \in Joiners(join_queue') : context'[t] = "join"
<1> DEFINE R == QueuedIn(ready)
           J == Joiners(join_queue)
           R2 == QueuedIn(ready')
           J2 == Joiners(join_queue')
           A == Able
           A2 == Able'
           r == running
           on == interrupts_enabled
           ctx == context
           I == inside
<1>1. /\ A \in SUBSET Tids /\ r \in Tids /\ on \in BOOLEAN
      /\ ctx \in [Tids -> Contexts] /\ I \in SUBSET Tids
      /\ Q \in SUBSET Tids /\ S \in SUBSET Tids
      /\ Lawful(A, r, on, ctx, I, Q, S, value, lock_count)
  BY LockFacts
<1>2. /\ A = R \cup blocked
      /\ R \cap (blocked \cup J \cup finished_queue) = {}
      /\ blocked \cap (J \cup finished_queue) = {}
      /\ r \in threads /\ r \notin J \cup finished_queue
      /\ A \cup J \cup finished_queue \subseteq threads
      /\ I \cup Q \cup S \subseteq threads \ (J \cup finished_queue)
      /\ threads \subseteq Tids
      /\ \A t \in J : ctx[t] = "join"
      /\ on => r \notin A /\ r \notin Q /\ r \notin S
  BY LockFacts
<1>3. A2 = R2 \cup blocked'
  BY DEF Able, QueuedIn
<1>4. join_queue' = join_queue => J2 = J
  OBVIOUS
<1>5. Lawful(A, r, on, ctx, I, Q, S, value, lc)
  BY <1>1, <1>2, LawfulCounts
<1> HIDE DEF R, J, R2, J2, A, A2
<1>6. CASE Kept
  <2>1. /\ running' = r /\ context' = ctx /\ A2 = A /\ J2 = J
        /\ UNCHANGED <<threads, finished_queue>>
    BY <1>2, <1>3, <1>4, <1>6 DEF Kept, R, R2
  <2>2. \/ interrupts_enabled' = on
        \/ ~on /\ interrupts_enabled' = TRUE /\ ctx[r] \in {"stub", "yield", "suspend"}
    BY <1>6 DEF Kept
  <2>3. Lawful(A2, running', interrupts_enabled', context', I, Q, S, value, lc)
    <3>1. CASE interrupts_enabled' = on
      BY <1>5, <2>1, <3>1
    <3>2. CASE ~on /\ interrupts_enabled' = TRUE /\ ctx[r] \in {"stub", "yield", "suspend"}
      <4>1. Lawful(A, r, TRUE, ctx, I, Q, S, value, lc)
        BY <1>1, <1>5, <3>2, LawfulReturn
      <4> QED
        BY <2>1, <3>2, <4>1
    <3> QED
      BY <2>2, <3>1, <3>2
  <2> QED
    BY <1>2, <2>1, <2>3 DEF A2, J2
<1>7. CASE Created
  <2>1. PICK tid \in Tids \ threads :
           /\ threads' = threads \cup {tid}
           /\ R2 = R \cup {tid}
           /\ context' = [ctx EXCEPT ![tid] = "stub"]
    BY <1>7 DEF Created, R, R2
  <2>2. /\ running' = r /\ interrupts_enabled' = on /\ J2 = J
        /\ UNCHANGED <<blocked, finished_queue>>
    BY <1>4, <1>7 DEF Created
  <2>3. A2 = A \cup {tid} /\ tid \in Tids /\ tid \notin A \cup I \cup Q \cup S \cup {r}
    BY <1>2, <1>3, <2>1, <2>2
  <2> DEFINE ctx2 == [ctx EXCEPT ![tid] = "stub"]
  <2>4. Lawful(A \cup {tid}, r, on, ctx2, I, Q, S, value, lc)
    <3>1. ctx2[tid] = "stub" /\ \A t \in Tids : t # tid => ctx2[t] = ctx[t]
      BY <1>1, <2>3
    <3>2. tid \notin A /\ tid \notin I /\ tid \notin Q /\ tid \notin S /\ tid # r
      BY <2>3
    <3> HIDE DEF ctx2
    <3> QED
      BY <1>1, <1>5, <2>3, <3>1, <3>2, LawfulCreate
  <2>5. Lawful(A2, running', interrupts_enabled', context', I, Q, S, value, lc)
    BY <2>1, <2>2, <2>3, <2>4
  <2>6. \A t \in J2 : context'[t] = "join"
    BY <1>1, <1>2, <2>1, <2>2
  <2>7. I \cup Q \cup S \subseteq threads' \ (J2 \cup finished_queue')
    BY <1>2, <2>1, <2>2
  <2> QED
    BY <2>5, <2>6, <2>7 DEF A2, J2
<1>8. CASE Reaped
  <2>1. PICK tid \in finished_queue :
           threads' = threads \ {tid} /\ finished_queue' = finished_queue \ {tid}
    BY <1>8 DEF Reaped
  <2>2. /\ running' = r /\ context' = ctx /\ interrupts_enabled' = TRUE
        /\ J2 = J /\ A2 = A
        /\ on \/ ctx[r] = "join"
    BY <1>2, <1>3, <1>4, <1>8 DEF Reaped, R, R2
  <2>3. Lawful(A, r, TRUE, ctx, I, Q, S, value, lc)
    <3>1. CASE on
      <4>1. on = TRUE
        BY <1>1, <3>1
      <4> QED
        BY <1>5, <4>1
    <3>2. CASE ~on
      BY <1>1, <1>5, <2>2, <3>2, LawfulReturn
    <3> QED
      BY <3>1, <3>2
  <2>4. I \cup Q \cup S \subseteq threads' \ (J2 \cup finished_queue')
    BY <1>2, <2>1, <2>2
  <2>5. \A t \in J2 : context'[t] = "join"
    BY <1>2, <2>2
  <2>6. Lawful(A2, running', interrupts_enabled', context', I, Q, S, value, lc)
    BY <2>2, <2>3
  <2> QED
    BY <2>4, <2>5, <2>6 DEF A2, J2
<1>9. CASE Shifted
  <2>1. PICK t \in Tids :
           \/ t \in R /\ R2 = R \ {t} /\ blocked' = blocked \cup {t}
           \/ t \in blocked /\ blocked' = blocked \ {t} /\ R2 = R \cup {t}
    BY <1>9 DEF Shifted, R, R2
  <2>2. /\ running' = r /\ context' = ctx /\ interrupts_enabled' = on /\ J2 = J
        /\ UNCHANGED <<threads, finished_queue>>
    BY <1>4, <1>9 DEF Shifted
  <2>3. A2 = A
    BY <1>2, <1>3, <2>1
  <2> QED
    BY <1>2, <1>5, <2>2, <2>3 DEF A2, J2
<1>10. ASSUME NEW W \in SUBSET Tids, NEW c \in {"yield", "suspend", "join", "exit"},
              Switched(W, c)
       PROVE  /\ Lawful(A2, running', interrupts_enabled', context', I, Q, S, value, lc)
              /\ I \cup Q \cup S \subseteq threads' \ (J2 \cup finished_queue')
              /\ \A t \in J2 : context'[t] = "join"
  <2>1. /\ on /\ threads' = threads
        /\ running' \in W /\ R2 = W \ {running'}
        /\ context' = [ctx EXCEPT ![r] = c] /\ interrupts_enabled' = FALSE
    BY <1>10 DEF Switched, Dispatched, R2
  <2>2. \/ /\ c = "yield" /\ W = R \cup {r} /\ J2 = J
           /\ UNCHANGED <<blocked, finished_queue>>
        \/ /\ c = "suspend" /\ W = R /\ blocked' = blocked \cup {r} /\ J2 = J
           /\ UNCHANGED finished_queue
        \/ /\ c = "join" /\ W = R /\ J2 = J \cup {r} /\ r \notin I
           /\ UNCHANGED <<blocked, finished_queue>>
        \/ /\ c = "exit" /\ finished_queue' = finished_queue \cup {r} /\ r \notin I
           /\ R \subseteq W /\ W \cap J2 = {} /\ W \cup J2 = R \cup J
           /\ UNCHANGED blocked
    BY <1>2, <1>4, <1>10 DEF Switched, R, J, J2
  <2>3. r \notin A /\ r \notin Q /\ r \notin S
    BY <1>2, <2>1
  <2>4. context'[r] = c /\ \A t \in Tids \ {r} : context'[t] = ctx[t]
    <3>1. c \in Contexts
      BY DEF Contexts
    <3> QED
      BY <1>1, <2>1, <3>1
  <2>5. I \cup Q \cup S \subseteq threads' \ (J2 \cup finished_queue')
    BY <1>2, <2>1, <2>2, <2>3
  <2>6. \A t \in J2 : context'[t] = "join"
    BY <1>2, <2>2, <2>4
  <2> DEFINE X == IF c \in {"yield", "suspend"} THEN {r} ELSE W \ R
  <2>7. /\ X \in SUBSET Tids /\ X \cap (Q \cup S) = {} /\ I \cap X \subseteq {r}
        /\ r \in I => r \in X /\ c \in {"yield", "suspend"}
    BY <1>1, <1>2, <2>1, <2>2, <2>3
  <2>8. \A t \in X : (t = r /\ c \in {"yield", "suspend"}) \/ (t # r /\ ctx[t] = "join")
    BY <1>2, <2>2
  <2>9. running' \in A \cup X /\ A2 = (A \cup X) \ {running'}
    BY <1>2, <1>3, <2>1, <2>2, <2>3
  <2> HIDE DEF X
  <2>10. Lawful((A \cup X) \ {running'}, running', FALSE, [ctx EXCEPT ![r] = c],
                I, Q, S, value, lc)
    BY <1>1, <1>5, <2>1, <2>7, <2>8, <2>9, LawfulSwitch
  <2> QED
    BY <2>1, <2>5, <2>6, <2>9, <2>10
<1> QED
  BY <1>6, <1>7, <1>8, <1>9, <1>10 DEF Scheduled, Died, A2, J2

(* No call of the thread library puts a thread into wait().                *)
LEMMA ThreadStepContexts ==
  ASSUME LockState, Scheduled
  PROVE  \A t \in Tids : context'[t] \in {"wait", "wait_unlock"} => context'[t] = context[t]
<1>1. context \in [Tids -> Contexts] /\ running \in Tids
  BY LockFacts
<1>2. CASE Kept \/ Reaped \/ Shifted \/ Died
  BY <1>2 DEF Kept, Reaped, Shifted, Died
<1>3. CASE Created
  BY <1>1, <1>3 DEF Created
<1>4. ASSUME NEW W \in SUBSET Tids, NEW c \in {"yield", "suspend", "join", "exit"},
             Switched(W, c), NEW t \in Tids, context'[t] \in {"wait", "wait_unlock"}
      PROVE  context'[t] = context[t]
  <2>1. context' = context \/ context' = [context EXCEPT ![running] = c]
    BY <1>4 DEF Switched, Dispatched
  <2> QED
    BY <1>1, <1>4, <2>1
<1> QED
  BY <1>2, <1>3, <1>4 DEF Scheduled

(* A step of the thread library, the timer's included, keeps the           *)
(* invariant.                                                              *)
LEMMA ThreadStepLock ==
  ASSUME LockInv, ThreadStep \/ UNCHANGED vars
  PROVE  LockInv'
<1> SUFFICES ASSUME proc = "alive" PROVE LockInv'
  <2>1. CASE proc # "alive"
    <3>1. ~ThreadStep
      BY <2>1 DEF ThreadStep, UThreadNext, uthread_create_check, uthread_create,
        uthread_join, uthread_join_resumed, uthread_exit, uthread_exit_main,
        uthread_yield, timeHandler, resumed, uthread_suspend_check, uthread_suspend,
        uthread_resume_count, uthread_resume_find, uthread_resume,
        uthread_priority_check, uthread_change_priority, Check, Calling, Checked,
        InUserCode
    <3>2. UNCHANGED vars
      BY <3>1
    <3>3. LockInv' <=> LockInv
      BY <3>2 DEF vars, uthreadVars, monitorVars, lockVars, condVars, table, queues,
        boosting, LockInv, Base, TypeOK, Sorted, JoinsOnce, FreedOnlyByPriorityCalls,
        NoLostJoin, MonitorTypeOK
    <3> QED
      BY <3>3
  <2> QED
    BY <2>1
<1>1. LockState /\ \A s, t \in inside : s = t
  BY DEF LockInv, LockState
<1>2. Base' /\ Scheduled
  <2>1. [UThreadNext]_uthreadVars
    BY DEF ThreadStep, vars
  <2> QED
    BY <1>1, <2>1, ThreadStepScheduled DEF LockState
<1>3. UNCHANGED monitorVars
  BY DEF ThreadStep, vars
<1>4. /\ UNCHANGED <<value, waiting_queue, nextThreadToWakeUp, cond_var_waiting_queue,
                     wake_up_order, waits_on, inside>>
      /\ Asleep' = Asleep
  BY <1>3 DEF monitorVars, lockVars, condVars, Asleep, Sleepers
<1>5. MonitorTypeOK' /\ \A s, t \in inside' : s = t
  BY <1>1, <1>4 DEF LockState, MonitorTypeOK
<1>6. SUFFICES ASSUME proc' = "alive" PROVE Parts' /\ MonitorParts'
  BY <1>2, <1>5 DEF LockInv
<1>7. Parts'
  BY <1>1, <1>2, <1>6, PartsKept DEF LockState
<1>8. lock_count' \in [Tids -> Nat] /\ \A t \in threads : lock_count'[t] = lock_count[t]
  <2>1. lock_count' \in [Tids -> Nat]
    BY <1>2 DEF Base, TypeOK
  <2>2. \A t \in threads : lock_count'[t] = lock_count[t]
    <3>1. CASE UThreadNext
      BY <1>1, <3>1, CountsKept DEF LockState
    <3>2. CASE UNCHANGED vars
      BY <3>2 DEF vars, uthreadVars
    <3> QED
      BY <3>1, <3>2 DEF ThreadStep
  <2> QED
    BY <2>1, <2>2
<1>9. running \in inside => /\ finished_queue' \subseteq finished_queue
                            /\ join_queue' = join_queue
  BY DEF ThreadStep, vars, uthreadVars, queues
<1> DEFINE lc == lock_count'
           S == Asleep
           Q == ToSet(waiting_queue)
<1>10. lc \in [Tids -> Nat] /\ \A t \in threads : lc[t] = lock_count[t]
  BY <1>8
<1> HIDE DEF lc
<1>11. /\ Lawful(Able', running', interrupts_enabled', context', inside, Q, S, value, lc)
       /\ inside \cup Q \cup S
            \subseteq threads' \ (Joiners(join_queue') \cup finished_queue')
       /\ \A t \in Joiners(join_queue') : context'[t] = "join"
  BY <1>1, <1>2, <1>6, <1>9, <1>10, ThreadStepKeepsLock
<1>12. MonitorParts' <=>
         /\ AtMostOnce(cond_var_waiting_queue', wake_up_order', nextThreadToWakeUp')
         /\ IsInjective(waiting_queue')
         /\ inside' \cup ToSet(waiting_queue') \cup Asleep'
              \subseteq threads' \ (Joiners(join_queue') \cup finished_queue')
         /\ \A t \in Joiners(join_queue') : context'[t] = "join"
         /\ WaitsKnown(context', waits_on')
         /\ Lawful(Able', running', interrupts_enabled', context', inside',
                   ToSet(waiting_queue'), Asleep', value', lock_count')
  BY DEF MonitorParts, AtMostOnce, Separate, SeqThreads, Joiners, WaitsKnown, Lawful,
         Places, Holders, Token, Counted
<1>13. WaitsKnown(context', waits_on')
  BY <1>1, <1>2, <1>4, ThreadStepContexts DEF LockState, MonitorParts, WaitsKnown
<1> QED
  BY <1>1, <1>4, <1>7, <1>11, <1>12, <1>13 DEF LockState, MonitorParts, lc

-----------------------------------------------------------------------------
(* The steps of the lock and the condition variables.                      *)

(* They leave the thread table, the priorities and the other queues alone. *)
LEMMA BaseKept ==
  ASSUME Base, UNCHANGED <<table, priority, queues, boosting, call>>,
         lock_count' \in [Tids -> Nat], Sorted(ready', priority'), running' \in Tids,
         interrupts_enabled' \in BOOLEAN, context' \in [Tids -> Contexts],
         proc' \in {"alive", "no_ready"}
  PROVE  Base'
<1>1. UNCHANGED <<threads, null_tcbs, priority, blocked, join_queue, finished_queue,
                  numBoosts, lowPriorityToBeBoosted, medPriorityToBeBoosted, call>>
  BY DEF table, queues, boosting
<1>2. ready' \in [Priorities -> Seq(Tids)]
  BY DEF Sorted
<1>3. TypeOK'
  BY <1>1, <1>2 DEF Base, TypeOK, Faults
<1>4. NoLostJoin' /\ JoinsOnce(join_queue)' /\ FreedOnlyByPriorityCalls'
  BY <1>1 DEF Base, NoLostJoin, JoinsOnce, FreedOnlyByPriorityCalls
<1> QED
  BY <1>3, <1>4 DEF Base

(* What is left to show of such a step.                                    *)
LEMMA LockKept ==
  ASSUME LockState, Base', MonitorTypeOK',
         UNCHANGED <<threads, blocked, join_queue, finished_queue>>,
         proc' = "alive",
         QueuedIn(ready') \cap (blocked \cup Joiners(join_queue) \cup finished_queue) = {},
         QueuedIn(ready') \subseteq threads,
         running' \in threads, running' \notin Joiners(join_queue) \cup finished_queue,
         \A t \in Tids \ {running} : context'[t] = context[t],
         WaitsKnown(context', waits_on'),
         AtMostOnce(cond_var_waiting_queue', wake_up_order', nextThreadToWakeUp'),
         IsInjective(waiting_queue'),
         inside' \cup ToSet(waiting_queue') \cup Asleep'
           \subseteq threads \ (Joiners(join_queue) \cup finished_queue),
         Lawful(QueuedIn(ready') \cup blocked, running', interrupts_enabled', context',
                inside', ToSet(waiting_queue'), Asleep', value', lock_count')
  PROVE  LockInv'
<1> DEFINE R2 == QueuedIn(ready')
           J == Joiners(join_queue)
<1>1. Able' = R2 \cup blocked /\ Joiners(join_queue') = J
  BY DEF Able, QueuedIn
<1>2. MonitorParts' <=>
         /\ AtMostOnce(cond_var_waiting_queue', wake_up_order', nextThreadToWakeUp')
         /\ IsInjective(waiting_queue')
         /\ inside' \cup ToSet(waiting_queue') \cup Asleep'
              \subseteq threads' \ (Joiners(join_queue') \cup finished_queue')
         /\ \A t \in Joiners(join_queue') : context'[t] = "join"
         /\ WaitsKnown(context', waits_on')
         /\ Lawful(Able', running', interrupts_enabled', context', inside',
                   ToSet(waiting_queue'), Asleep', value', lock_count')
  BY DEF MonitorParts, AtMostOnce, Separate, SeqThreads, Joiners, WaitsKnown, Lawful,
         Places, Holders, Token, Counted
<1>3. /\ blocked \cap (J \cup finished_queue) = {} /\ J \cap finished_queue = {}
      /\ blocked \cup J \cup finished_queue \subseteq threads
      /\ threads \subseteq Tids
      /\ running \notin J
      /\ \A t \in J : context[t] = "join"
  BY DEF LockState, Parts, MonitorParts, Base, TypeOK
<1> HIDE DEF R2, J
<1>4. \A t \in J : context'[t] = "join"
  BY <1>3 DEF J
<1>5. MonitorParts'
  BY <1>1, <1>2, <1>4 DEF R2, J
<1>6. running' \in R2 \cup blocked => ~interrupts_enabled' /\ context'[running'] = "wait_unlock"
  BY DEF R2, Lawful, Places
<1>7. Parts' <=>
        /\ R2 \cap (blocked' \cup J \cup finished_queue') = {}
        /\ blocked' \cap (J \cup finished_queue') = {}
        /\ J \cap finished_queue' = {}
        /\ R2 \cup blocked' \cup J \cup finished_queue' \subseteq threads'
        /\ running' \in threads'
        /\ running' \notin J \cup finished_queue'
        /\ running' \in R2 \cup blocked' =>
             ~interrupts_enabled' /\ context'[running'] = "wait_unlock"
  BY <1>1 DEF Parts, QueuedIn, Joiners, R2, J
<1>8. Parts'
  BY <1>3, <1>6, <1>7 DEF R2, J
<1>9. \A x, y \in inside' : x = y
  <2> DEFINE H == Holders(R2 \cup blocked, running', interrupts_enabled', context', inside')
  <2>1. Token(H, value')
    BY DEF Lawful, R2
  <2>2. inside' \subseteq H
    BY DEF Holders
  <2> HIDE DEF H
  <2> QED
    BY <2>1, <2>2 DEF Token
<1> QED
  BY <1>5, <1>8, <1>9 DEF LockInv

(* A step after which the process is dead.                                 *)
LEMMA LockDead ==
  ASSUME LockState, Base', MonitorTypeOK', proc' # "alive",
         \A s, t \in inside : s = t, inside' \subseteq inside
  PROVE  LockInv'
  BY DEF LockInv

(* lock() keeps the invariant, whether it takes the lock or queues the     *)
(* caller.                                                                 *)
LEMMA LockStep ==
  ASSUME LockState, \A s, t \in inside : s = t, lock
  PROVE  LockInv'
<1> DEFINE R == QueuedIn(ready)
           A == Able
           r == running
           on == interrupts_enabled
           ctx == context
           I == inside
           Q == ToSet(waiting_queue)
           S == Asleep
           J == Joiners(join_queue)
<1>1. /\ A \in SUBSET Tids /\ r \in Tids /\ on \in BOOLEAN
      /\ ctx \in [Tids -> Contexts] /\ I \in SUBSET Tids
      /\ Q \in SUBSET Tids /\ S \in SUBSET Tids
      /\ lock_count \in [Tids -> Nat]
      /\ Lawful(A, r, on, ctx, I, Q, S, value, lock_count)
  BY LockFacts
<1>2. /\ A = R \cup blocked
      /\ R \cap (blocked \cup J \cup finished_queue) = {}
      /\ r \in threads /\ r \notin J \cup finished_queue
      /\ R \subseteq threads
      /\ I \cup Q \cup S \subseteq threads \ (J \cup finished_queue)
      /\ on => r \notin A /\ r \notin Q /\ r \notin S
  BY LockFacts
<1>3. /\ on /\ r \notin I /\ proc = "alive"
      /\ UNCHANGED <<table, priority, queues, boosting, call, nextThreadToWakeUp,
                     cond_var_waiting_queue, wake_up_order, waits_on>>
  BY DEF lock, Outside, Calling, InUserCode, condVars
<1>4. Asleep' = S /\ UNCHANGED <<threads, blocked, join_queue, finished_queue>>
  BY <1>3 DEF Asleep, Sleepers, table, queues
<1>5. /\ AtMostOnce(cond_var_waiting_queue', wake_up_order', nextThreadToWakeUp')
      /\ IsInjective(waiting_queue)
  BY <1>3 DEF LockState, MonitorParts
<1>6. Sorted(ready, priority') /\ priority' \in [Tids -> Priorities] /\ TypeOK
  BY <1>3 DEF LockState, Base, TypeOK
<1>7. MonitorTypeOK
  BY DEF LockState
<1>8. CASE taken
  <2>1. /\ waiting_queue' = Append(waiting_queue, r)
        /\ switchThreads(ready, "lock")
        /\ UNCHANGED <<value, lock_count, inside>>
    BY <1>8 DEF lock
  <2>2. "lock" \in Contexts
    BY DEF Contexts
  <2>3. /\ Sorted(ready', priority') /\ running' \in Tids
        /\ context' \in [Tids -> Contexts] /\ interrupts_enabled' \in BOOLEAN
        /\ proc' \in {"alive", "no_ready"} /\ Dispatched(R, "lock")
    BY <1>3, <1>6, <2>1, <2>2, SwitchDispatches
  <2>4. Base'
    BY <1>1, <1>3, <2>1, <2>3, BaseKept DEF LockState
  <2>5. /\ waiting_queue' \in Seq(Tids) /\ ToSet(waiting_queue') = Q \cup {r}
        /\ IsInjective(waiting_queue')
    BY <1>1, <1>2, <1>3, <1>5, <1>7, <2>1, AppendMembers DEF MonitorTypeOK
  <2>6. MonitorTypeOK'
    BY <1>3, <1>7, <2>1, <2>5 DEF MonitorTypeOK
  <2>7. CASE proc' = "alive"
    <3>1. /\ running' \in R /\ QueuedIn(ready') = R \ {running'}
          /\ context' = [ctx EXCEPT ![r] = "lock"] /\ interrupts_enabled' = FALSE
      BY <2>7, <2>3 DEF Dispatched
    <3>2. /\ running' \in A /\ A \ {running'} = QueuedIn(ready') \cup blocked
      BY <1>2, <3>1
    <3>3. Lawful(A \ {running'}, running', FALSE, [ctx EXCEPT ![r] = "lock"], I, Q \cup {r},
                 S, value, lock_count)
      BY <1>1, <1>3, <3>2, LawfulQueue
    <3>4. Lawful(QueuedIn(ready') \cup blocked, running', interrupts_enabled', context',
                 inside', ToSet(waiting_queue'), Asleep', value', lock_count')
      BY <1>4, <2>1, <2>5, <3>1, <3>2, <3>3
    <3>5. /\ \A t \in Tids \ {r} : context'[t] = ctx[t]
          /\ WaitsKnown(context', waits_on')
      BY <1>1, <1>3, <3>1 DEF LockState, MonitorParts, WaitsKnown
    <3>6. /\ QueuedIn(ready') \cap (blocked \cup J \cup finished_queue) = {}
          /\ QueuedIn(ready') \subseteq threads
          /\ running' \in threads /\ running' \notin J \cup finished_queue
          /\ inside' \cup ToSet(waiting_queue') \cup Asleep'
               \subseteq threads \ (J \cup finished_queue)
      BY <1>2, <1>4, <2>1, <2>5, <3>1
    <3> QED
      BY <1>4, <1>5, <2>4, <2>5, <2>6, <2>7, <3>4, <3>5, <3>6, LockKept
  <2>8. CASE proc' # "alive"
    BY <2>1, <2>4, <2>6, <2>8, LockDead
  <2> QED
    BY <2>7, <2>8
<1>9. CASE ~taken
  <2>1. /\ value' = 1 /\ lock_count' = [lock_count EXCEPT ![r] = @ + 1]
        /\ inside' = I \cup {r}
        /\ UNCHANGED <<waiting_queue, ready, running, context, interrupts_enabled, proc>>
    BY <1>9 DEF lock, Enter
  <2> DEFINE lc == lock_count'
  <2>2. lc \in [Tids -> Nat] /\ lc[r] # 0 /\ \A t \in Tids \ {r} : lc[t] = lock_count[t]
    BY <1>1, <2>1
  <2>3. value # 1
    BY <1>9 DEF taken
  <2> HIDE DEF lc
  <2>4. Lawful(A, r, TRUE, ctx, I \cup {r}, Q, S, 1, lc)
    BY <1>1, <1>3, <2>2, <2>3, LawfulAcquire
  <2>5. Base'
    BY <1>1, <1>3, <1>6, <2>1, <2>2, BaseKept DEF LockState, lc
  <2>6. MonitorTypeOK'
    BY <1>1, <1>3, <1>7, <2>1 DEF MonitorTypeOK
  <2>7. interrupts_enabled' = TRUE
    BY <1>1, <1>3, <2>1
  <2>8. QueuedIn(ready') = R /\ A = QueuedIn(ready') \cup blocked
    BY <1>2, <2>1
  <2>9. Lawful(QueuedIn(ready') \cup blocked, running', interrupts_enabled', context',
               inside', ToSet(waiting_queue'), Asleep', value', lock_count')
    BY <1>4, <2>1, <2>4, <2>7, <2>8 DEF lc
  <2>10. /\ QueuedIn(ready') \cap (blocked \cup J \cup finished_queue) = {}
         /\ QueuedIn(ready') \subseteq threads
         /\ running' \in threads /\ running' \notin J \cup finished_queue
         /\ inside' \cup ToSet(waiting_queue') \cup Asleep'
              \subseteq threads \ (J \cup finished_queue)
    BY <1>2, <1>4, <2>1, <2>8
  <2>11. /\ proc' = "alive" /\ IsInjective(waiting_queue')
         /\ \A t \in Tids \ {r} : context'[t] = ctx[t]
         /\ WaitsKnown(context', waits_on')
    BY <1>3, <1>5, <2>1 DEF LockState, MonitorParts
  <2> QED
    BY <1>4, <1>5, <2>5, <2>6, <2>9, <2>10, <2>11, LockKept
<1> QED
  BY <1>8, <1>9

(* A thread that has been passed the lock returns from lock(), wait() or   *)
(* signal() with it.                                                       *)
LEMMA EnterStep ==
  ASSUME LockState, ~interrupts_enabled, context[running] \in {"lock", "wait", "signal"},
         interrupts_enabled' = TRUE, inside' = inside \cup {running},
         UNCHANGED <<table, priority, ready, running, queues, boosting, call, context,
                     proc, value, waiting_queue, waits_on>>,
         lock_count' \in [Tids -> Nat], lock_count'[running] # 0,
         \A t \in Tids \ {running} : lock_count'[t] = lock_count[t],
         MonitorTypeOK', Asleep' \subseteq Asleep,
         AtMostOnce(cond_var_waiting_queue', wake_up_order', nextThreadToWakeUp')
  PROVE  LockInv'
<1> DEFINE R == QueuedIn(ready)
           A == Able
           r == running
           on == interrupts_enabled
           ctx == context
           I == inside
           Q == ToSet(waiting_queue)
           S == Asleep
           J == Joiners(join_queue)
<1>1. /\ A \in SUBSET Tids /\ r \in Tids /\ on \in BOOLEAN
      /\ ctx \in [Tids -> Contexts] /\ I \in SUBSET Tids
      /\ Q \in SUBSET Tids /\ S \in SUBSET Tids
      /\ lock_count \in [Tids -> Nat]
      /\ Lawful(A, r, on, ctx, I, Q, S, value, lock_count)
  BY LockFacts
<1>2. /\ A = R \cup blocked
      /\ R \cap (blocked \cup J \cup finished_queue) = {}
      /\ r \in threads /\ r \notin J \cup finished_queue
      /\ R \subseteq threads
      /\ I \cup Q \cup S \subseteq threads \ (J \cup finished_queue)
      /\ on => r \notin A /\ r \notin Q /\ r \notin S
  BY LockFacts
<1>3. /\ proc' = "alive" /\ Sorted(ready', priority') /\ IsInjective(waiting_queue')
      /\ \A t \in Tids \ {r} : context'[t] = ctx[t]
      /\ WaitsKnown(context', waits_on')
  BY DEF LockState, Base, MonitorParts
<1>4. Base'
  BY <1>1, <1>3, BaseKept DEF LockState
<1>5. UNCHANGED <<threads, blocked, join_queue, finished_queue>>
  BY DEF table, queues
<1> DEFINE lc == lock_count'
           S2 == Asleep'
<1>6. /\ lc \in [Tids -> Nat] /\ lc[r] # 0 /\ \A t \in Tids \ {r} : lc[t] = lock_count[t]
      /\ S2 \in SUBSET S
  OBVIOUS
<1> HIDE DEF lc, S2
<1>7. Lawful(A, r, TRUE, ctx, I \cup {r}, Q, S2, value, lc)
  <2>1. Lawful(A, r, TRUE, ctx, I \cup {r}, Q, S, value, lc)
    BY <1>1, <1>6, LawfulEnter
  <2> QED
    BY <1>6, <2>1, LawfulShrink
<1>8. A = QueuedIn(ready') \cup blocked /\ QueuedIn(ready') = R
  BY <1>2
<1>9. Lawful(QueuedIn(ready') \cup blocked, running', interrupts_enabled', context',
             inside', ToSet(waiting_queue'), Asleep', value', lock_count')
  BY <1>7, <1>8 DEF lc, S2
<1>10. /\ QueuedIn(ready') \cap (blocked \cup J \cup finished_queue) = {}
       /\ QueuedIn(ready') \subseteq threads
       /\ running' \in threads /\ running' \notin J \cup finished_queue
       /\ inside' \cup ToSet(waiting_queue') \cup Asleep'
            \subseteq threads \ (J \cup finished_queue)
  BY <1>2, <1>6, <1>8 DEF S2
<1> QED
  BY <1>3, <1>4, <1>5, <1>9, <1>10, LockKept

(* The rest of a lock() that had to wait keeps the invariant.              *)
LEMMA LockResumedStep ==
  ASSUME LockState, lock_resumed
  PROVE  LockInv'
<1>1. /\ running \in Tids /\ lock_count \in [Tids -> Nat] /\ inside \in SUBSET Tids
  BY LockFacts
<1>2. /\ ~interrupts_enabled /\ context[running] = "lock"
      /\ lock_count' = [lock_count EXCEPT ![running] = @ + 1]
      /\ interrupts_enabled' = TRUE /\ inside' = inside \cup {running}
      /\ UNCHANGED <<table, priority, ready, running, queues, boosting, call, context,
                     proc, value, waiting_queue, nextThreadToWakeUp,
                     cond_var_waiting_queue, wake_up_order, waits_on>>
  BY DEF lock_resumed, Back, Enter, lockVars, condVars
<1>3. /\ lock_count' \in [Tids -> Nat] /\ lock_count'[running] # 0
      /\ \A t \in Tids \ {running} : lock_count'[t] = lock_count[t]
  BY <1>1, <1>2
<1>4. MonitorTypeOK'
  BY <1>1, <1>2 DEF LockState, MonitorTypeOK
<1>5. /\ Asleep' \subseteq Asleep
      /\ AtMostOnce(cond_var_waiting_queue', wake_up_order', nextThreadToWakeUp')
  BY <1>2 DEF LockState, MonitorParts, Asleep, Sleepers
<1> QED
  BY <1>2, <1>3, <1>4, <1>5, EnterStep

(* The rest of a signal() or broadcast() keeps the invariant.              *)
LEMMA SignalResumedStep ==
  ASSUME LockState, signal_resumed
  PROVE  LockInv'
<1>1. /\ running \in Tids /\ lock_count \in [Tids -> Nat] /\ inside \in SUBSET Tids
      /\ Lawful(Able, running, interrupts_enabled, context, inside,
                ToSet(waiting_queue), Asleep, value, lock_count)
  BY LockFacts
<1>2. /\ ~interrupts_enabled /\ context[running] = "signal"
      /\ interrupts_enabled' = TRUE /\ inside' = inside \cup {running}
      /\ UNCHANGED <<table, priority, ready, running, queues, boosting, call, context,
                     proc, value, waiting_queue, nextThreadToWakeUp, lock_count,
                     cond_var_waiting_queue, wake_up_order, waits_on>>
  BY DEF signal_resumed, Back, Enter, lockVars, condVars
<1>3. lock_count[running] # 0
  BY <1>1, <1>2 DEF Lawful, Counted
<1>4. MonitorTypeOK'
  BY <1>1, <1>2 DEF LockState, MonitorTypeOK
<1>5. /\ Asleep' \subseteq Asleep
      /\ AtMostOnce(cond_var_waiting_queue', wake_up_order', nextThreadToWakeUp')
  BY <1>2 DEF LockState, MonitorParts, Asleep, Sleepers
<1> QED
  BY <1>1, <1>2, <1>3, <1>4, <1>5, EnterStep

(* The rest of a wait() that was woken keeps the invariant.                *)
LEMMA WaitResumedStep ==
  ASSUME LockState, \A s, t \in inside : s = t, wait_resumed
  PROVE  LockInv'
<1>1. /\ running \in Tids /\ lock_count \in [Tids -> Nat] /\ inside \in SUBSET Tids
      /\ Lawful(Able, running, interrupts_enabled, context, inside,
                ToSet(waiting_queue), Asleep, value, lock_count)
  BY LockFacts
<1> DEFINE c == waits_on[running]
           order == wake_up_order[c]
<1>2. CASE order = << >>
  <2>1. Die("empty_wake_up_order") /\ UNCHANGED monitorVars
    BY <1>2 DEF wait_resumed
  <2>2. Base'
    BY <2>1, DieStep DEF LockState, Faults
  <2>3. MonitorTypeOK' /\ inside' = inside
    BY <2>1 DEF LockState, MonitorTypeOK, monitorVars, lockVars, condVars
  <2>4. proc' # "alive"
    BY <2>1 DEF Die
  <2> QED
    BY <2>2, <2>3, <2>4, LockDead
<1>3. CASE order # << >>
  <2>1. /\ ~interrupts_enabled /\ context[running] = "wait"
        /\ nextThreadToWakeUp' = Head(order)
        /\ wake_up_order' = [wake_up_order EXCEPT ![c] = Tail(order)]
        /\ interrupts_enabled' = TRUE /\ inside' = inside \cup {running}
        /\ UNCHANGED <<table, priority, lock_count, ready, running, queues, boosting,
                       call, context, proc, value, waiting_queue,
                       cond_var_waiting_queue, waits_on>>
    BY <1>3 DEF wait_resumed, Back, Enter, next_to_wake
  <2>2. lock_count[running] # 0
    BY <1>1, <2>1 DEF Lawful, Counted
  <2>3. MonitorTypeOK /\ AtMostOnce(cond_var_waiting_queue, wake_up_order, nextThreadToWakeUp)
    BY DEF LockState, MonitorParts
  <2>4. c \in CondVars
    BY <1>1, <2>1 DEF LockState, MonitorParts, WaitsKnown
  <2>5. MonitorTypeOK' /\ Asleep' \subseteq Asleep
        /\ AtMostOnce(cond_var_waiting_queue', wake_up_order', nextThreadToWakeUp')
    <3>1. /\ Head(order) \in Tids
          /\ AtMostOnce(cond_var_waiting_queue, wake_up_order', Head(order))
          /\ Sleepers(cond_var_waiting_queue, wake_up_order', Head(order))
               = SeqThreads(cond_var_waiting_queue) \cup SeqThreads(wake_up_order)
      BY <1>3, <2>1, <2>3, <2>4, SleepNext
    <3>2. /\ AtMostOnce(cond_var_waiting_queue', wake_up_order', nextThreadToWakeUp')
          /\ Asleep' \subseteq Asleep
      BY <2>1, <3>1 DEF Asleep, Sleepers
    <3>3. MonitorTypeOK'
      <4>1. Separate(wake_up_order')
        BY <3>1 DEF AtMostOnce
      <4>2. wake_up_order' \in [CondVars -> Seq(Tids)]
        BY <4>1 DEF Separate
      <4> QED
        BY <1>1, <2>1, <2>3, <3>1, <4>2 DEF MonitorTypeOK
    <3> QED
      BY <3>2, <3>3
  <2> QED
    BY <1>1, <2>1, <2>2, <2>5, EnterStep
<1> QED
  BY <1>2, <1>3

(* The rest of an unlock() that handed the lock back keeps the invariant.  *)
LEMMA UnlockResumedStep ==
  ASSUME LockState, unlock_resumed
  PROVE  LockInv'
<1> DEFINE R == QueuedIn(ready)
           A == Able
           r == running
           on == interrupts_enabled
           ctx == context
           I == inside
           Q == ToSet(waiting_queue)
           S == Asleep
           J == Joiners(join_queue)
<1>1. /\ A \in SUBSET Tids /\ r \in Tids /\ on \in BOOLEAN
      /\ ctx \in [Tids -> Contexts] /\ I \in SUBSET Tids
      /\ Q \in SUBSET Tids /\ S \in SUBSET Tids
      /\ lock_count \in [Tids -> Nat]
      /\ Lawful(A, r, on, ctx, I, Q, S, value, lock_count)
  BY LockFacts
<1>2. /\ A = R \cup blocked
      /\ R \cap (blocked \cup J \cup finished_queue) = {}
      /\ r \in threads /\ r \notin J \cup finished_queue
      /\ R \subseteq threads
      /\ I \cup Q \cup S \subseteq threads \ (J \cup finished_queue)
      /\ on => r \notin A /\ r \notin Q /\ r \notin S
  BY LockFacts
<1>3. /\ ~on /\ ctx[r] = "unlock" /\ interrupts_enabled' = TRUE
      /\ UNCHANGED <<table, priority, lock_count, ready, running, queues, boosting, call,
                     context, proc, value, waiting_queue, nextThreadToWakeUp,
                     cond_var_waiting_queue, wake_up_order, waits_on, inside>>
  BY DEF unlock_resumed, Back, monitorVars, lockVars, condVars
<1>4. /\ proc' = "alive" /\ Sorted(ready', priority') /\ IsInjective(waiting_queue')
      /\ \A t \in Tids \ {r} : context'[t] = ctx[t]
      /\ WaitsKnown(context', waits_on') /\ MonitorTypeOK'
      /\ AtMostOnce(cond_var_waiting_queue', wake_up_order', nextThreadToWakeUp')
  BY <1>3 DEF LockState, Base, MonitorParts, MonitorTypeOK
<1>5. Base'
  BY <1>1, <1>3, <1>4, BaseKept DEF LockState
<1>6. UNCHANGED <<threads, blocked, join_queue, finished_queue>> /\ Asleep' = S
  BY <1>3 DEF table, queues, Asleep, Sleepers
<1>7. Lawful(A, r, TRUE, ctx, I, Q, S, value, lock_count)
  BY <1>1, <1>3, LawfulReturn
<1>8. A = QueuedIn(ready') \cup blocked /\ QueuedIn(ready') = R
  BY <1>2, <1>3
<1>9. Lawful(QueuedIn(ready') \cup blocked, running', interrupts_enabled', context',
             inside', ToSet(waiting_queue'), Asleep', value', lock_count')
  BY <1>3, <1>6, <1>7, <1>8
<1>10. /\ QueuedIn(ready') \cap (blocked \cup J \cup finished_queue) = {}
       /\ QueuedIn(ready') \subseteq threads
       /\ running' \in threads /\ running' \notin J \cup finished_queue
       /\ inside' \cup ToSet(waiting_queue') \cup Asleep'
            \subseteq threads \ (J \cup finished_queue)
  BY <1>2, <1>3, <1>6, <1>8
<1> QED
  BY <1>4, <1>5, <1>6, <1>9, <1>10, LockKept

(* The thread that is owed the lock gets it, and the processor.            *)
LEMMA HandBackStep ==
  ASSUME LockState, interrupts_enabled, running \in inside,
         NEW c \in {"unlock", "wait_unlock"}, HandBack(c),
         UNCHANGED <<table, priority, queues, boosting, call, wake_up_order>>,
         inside' = inside \ {running},
         lock_count' \in [Tids -> Nat],
         \A t \in Tids \ {running} : lock_count'[t] = lock_count[t],
         c = "wait_unlock" => lock_count'[running] # 0,
         MonitorTypeOK', WaitsKnown(context', waits_on'),
         AtMostOnce(cond_var_waiting_queue', wake_up_order', Null),
         Asleep' = (Asleep \ {nextThreadToWakeUp})
                     \cup (IF c = "wait_unlock" THEN {running} ELSE {})
  PROVE  LockInv'
<1> DEFINE R == QueuedIn(ready)
           A == Able
           r == running
           on == interrupts_enabled
           ctx == context
           I == inside
           Q == ToSet(waiting_queue)
           S == Asleep
           J == Joiners(join_queue)
<1>1. /\ A \in SUBSET Tids /\ r \in Tids /\ on \in BOOLEAN
      /\ ctx \in [Tids -> Contexts] /\ I \in SUBSET Tids
      /\ Q \in SUBSET Tids /\ S \in SUBSET Tids
      /\ lock_count \in [Tids -> Nat]
      /\ Lawful(A, r, on, ctx, I, Q, S, value, lock_count)
  BY LockFacts
<1>2. /\ A = R \cup blocked
      /\ R \cap (blocked \cup J \cup finished_queue) = {}
      /\ r \in threads /\ r \notin J \cup finished_queue
      /\ R \subseteq threads
      /\ I \cup Q \cup S \subseteq threads \ (J \cup finished_queue)
      /\ on => r \notin A /\ r \notin Q /\ r \notin S
  BY LockFacts
<1> DEFINE n == nextThreadToWakeUp
           lc == lock_count'
           S2 == Asleep'
<1>3. /\ n # Null /\ nextThreadToWakeUp' = Null
      /\ ready' = addToReady(ready, priority, r)
      /\ running' = n /\ context' = [ctx EXCEPT ![r] = c] /\ interrupts_enabled' = FALSE
      /\ UNCHANGED <<value, waiting_queue, proc>>
  BY DEF HandBack, switchToThread
<1>4. n \in S
  BY <1>3 DEF Asleep, Sleepers
<1>5. priority \in [Tids -> Priorities] /\ Sorted(ready, priority) /\ priority' = priority
      /\ r \notin R
  BY <1>2 DEF LockState, Base, TypeOK
<1>6. Sorted(ready', priority') /\ QueuedIn(ready') = R \cup {r}
  BY <1>1, <1>3, <1>5, ReadyAdd
<1>7. /\ proc' = "alive" /\ IsInjective(waiting_queue')
  BY <1>3 DEF LockState, MonitorParts
<1>8. c \in Contexts
  BY DEF Contexts
<1>9. /\ context' \in [Tids -> Contexts] /\ \A t \in Tids \ {r} : context'[t] = ctx[t]
  BY <1>1, <1>3, <1>8
<1>10. Base'
  BY <1>1, <1>3, <1>4, <1>6, <1>7, <1>9, BaseKept DEF LockState
<1>11. UNCHANGED <<threads, blocked, join_queue, finished_queue>>
  BY DEF table, queues
<1>12. /\ lc \in [Tids -> Nat] /\ \A t \in Tids \ {r} : lc[t] = lock_count[t]
       /\ c = "wait_unlock" => lc[r] # 0
       /\ S2 = (S \ {n}) \cup (IF c = "wait_unlock" THEN {r} ELSE {})
  OBVIOUS
<1> HIDE DEF lc, S2, n
<1>13. Lawful(A \cup {r}, n, FALSE, [ctx EXCEPT ![r] = c], I \ {r}, Q, S2, value, lc)
  BY <1>1, <1>4, <1>12, LawfulHandBack
<1>14. A \cup {r} = QueuedIn(ready') \cup blocked
  BY <1>2, <1>6
<1>15. Lawful(QueuedIn(ready') \cup blocked, running', interrupts_enabled', context',
              inside', ToSet(waiting_queue'), Asleep', value', lock_count')
  BY <1>3, <1>13, <1>14 DEF lc, S2, n
<1>16. /\ QueuedIn(ready') \cap (blocked \cup J \cup finished_queue) = {}
       /\ QueuedIn(ready') \subseteq threads
       /\ running' \in threads /\ running' \notin J \cup finished_queue
       /\ inside' \cup ToSet(waiting_queue') \cup S2
            \subseteq threads \ (J \cup finished_queue)
  BY <1>2, <1>3, <1>4, <1>6, <1>12 DEF n
<1>17. AtMostOnce(cond_var_waiting_queue', wake_up_order', nextThreadToWakeUp')
  BY <1>3
<1> QED
  BY <1>7, <1>9, <1>10, <1>11, <1>15, <1>16, <1>17, LockKept DEF S2

(* The lock is freed, or passed to the first thread P of its queue.        *)
LEMMA ReleaseFacts ==
  ASSUME LockState, interrupts_enabled, running \in inside, Release
  PROVE  \E P \in SUBSET ToSet(waiting_queue) :
           /\ \/ (P = {} /\ waiting_queue = << >> /\ value' = 0)
              \/ (value' = value /\ \E h \in ToSet(waiting_queue) : P = {h})
           /\ Sorted(released_ready, priority)
           /\ QueuedIn(released_ready) = QueuedIn(ready) \cup P
           /\ waiting_queue' \in Seq(Tids) /\ IsInjective(waiting_queue')
           /\ ToSet(waiting_queue') = ToSet(waiting_queue) \ P
<1> DEFINE Q == ToSet(waiting_queue)
<1>1. /\ waiting_queue \in Seq(Tids) /\ IsInjective(waiting_queue)
      /\ priority \in [Tids -> Priorities] /\ Sorted(ready, priority)
  BY DEF LockState, MonitorTypeOK, MonitorParts, Base, TypeOK
<1>2. Q \cap QueuedIn(ready) = {}
  BY DEF LockState, MonitorParts, Lawful, Places, Able
<1>3. CASE waiting_queue = << >>
  <2>1. /\ value' = 0 /\ waiting_queue' = << >> /\ released_ready = ready
    BY <1>3 DEF Release, released_value, released_ready
  <2>2. Q = {} /\ {} \in SUBSET Q
    BY <1>1, <1>3, Members
  <2>3. /\ ({} = {} /\ waiting_queue = << >> /\ value' = 0)
        /\ Sorted(released_ready, priority)
        /\ QueuedIn(released_ready) = QueuedIn(ready) \cup {}
        /\ waiting_queue' \in Seq(Tids) /\ IsInjective(waiting_queue')
        /\ ToSet(waiting_queue') = Q \ {}
    BY <1>1, <1>3, <2>1, <2>2
  <2> QED
    BY <2>2, <2>3
<1>4. CASE waiting_queue # << >>
  <2> DEFINE h == Head(waiting_queue)
             rest == Tail(waiting_queue)
  <2>1. /\ value' = value /\ waiting_queue' = rest
        /\ released_ready = addToReady(ready, priority, h)
    BY <1>4 DEF Release, released_value, released_ready
  <2>2. /\ rest \in Seq(Tids) /\ IsInjective(rest) /\ h \in Tids
        /\ Q = ToSet(rest) \cup {h} /\ h \notin ToSet(rest)
    BY <1>1, <1>4, TailMembers
  <2> HIDE DEF h, rest
  <2>3. h \in Q /\ ToSet(rest) = Q \ {h} /\ {h} \in SUBSET Q
    BY <2>2
  <2>4. h \notin QueuedIn(ready)
    BY <1>2, <2>3
  <2>5. Sorted(released_ready, priority)
    BY <1>1, <2>1, <2>2, <2>4, ReadyAdd
  <2>6. QueuedIn(released_ready) = QueuedIn(ready) \cup {h}
    BY <1>1, <2>1, <2>2, <2>4, ReadyAdd
  <2> QED
    BY <2>1, <2>2, <2>3, <2>5, <2>6
<1> QED
  BY <1>3, <1>4

(* unlock() keeps the invariant: it hands the lock back, on, or frees it.  *)
LEMMA UnlockStep ==
  ASSUME LockState, unlock
  PROVE  LockInv'
<1> DEFINE R == QueuedIn(ready)
           A == Able
           r == running
           on == interrupts_enabled
           ctx == context
           I == inside
           Q == ToSet(waiting_queue)
           S == Asleep
           J == Joiners(join_queue)
<1>1. /\ A \in SUBSET Tids /\ r \in Tids /\ on \in BOOLEAN
      /\ ctx \in [Tids -> Contexts] /\ I \in SUBSET Tids
      /\ Q \in SUBSET Tids /\ S \in SUBSET Tids
      /\ lock_count \in [Tids -> Nat]
      /\ Lawful(A, r, on, ctx, I, Q, S, value, lock_count)
  BY LockFacts
<1>2. /\ A = R \cup blocked
      /\ R \cap (blocked \cup J \cup finished_queue) = {}
      /\ r \in threads /\ r \notin J \cup finished_queue
      /\ R \subseteq threads
      /\ I \cup Q \cup S \subseteq threads \ (J \cup finished_queue)
      /\ on => r \notin A /\ r \notin Q /\ r \notin S
  BY LockFacts
<1>3. /\ on /\ r \in I /\ proc = "alive"
      /\ lock_count' = [lock_count EXCEPT ![r] = @ - 1]
      /\ inside' = I \ {r}
      /\ UNCHANGED <<table, priority, queues, boosting, call,
                     cond_var_waiting_queue, wake_up_order, waits_on>>
  BY DEF unlock, Inside, Calling, InUserCode, Leave, condVars
<1>4. lock_count[r] # 0
  BY <1>1, <1>3 DEF Lawful, Counted
<1> DEFINE lc == lock_count'
<1>5. lc \in [Tids -> Nat] /\ \A t \in Tids \ {r} : lc[t] = lock_count[t]
  BY <1>1, <1>3, <1>4
<1>6. AtMostOnce(cond_var_waiting_queue, wake_up_order, nextThreadToWakeUp) /\ MonitorTypeOK
      /\ WaitsKnown(context, waits_on)
  BY DEF LockState, MonitorParts
<1>7. CASE HandBack("unlock")
  <2>1. /\ nextThreadToWakeUp' = Null
        /\ context' = [ctx EXCEPT ![r] = "unlock"]
        /\ UNCHANGED <<value, waiting_queue>>
    BY <1>7 DEF HandBack, switchToThread
  <2>2. MonitorTypeOK'
    BY <1>1, <1>3, <1>6, <2>1 DEF MonitorTypeOK
  <2>3. WaitsKnown(context', waits_on')
    BY <1>1, <1>3, <1>6, <2>1 DEF WaitsKnown
  <2>4. /\ AtMostOnce(cond_var_waiting_queue', wake_up_order', Null)
        /\ Asleep' = Asleep \ {nextThreadToWakeUp}
    BY <1>3, <1>6, <2>1, SleepHandBack DEF Asleep
  <2> DEFINE c == "unlock"
  <2>5. /\ c \in {"unlock", "wait_unlock"} /\ c # "wait_unlock"
        /\ Asleep' = (Asleep \ {nextThreadToWakeUp})
                       \cup (IF c = "wait_unlock" THEN {running} ELSE {})
    BY <2>4
  <2>6. HandBack(c)
    BY <1>7
  <2> HIDE DEF c
  <2> QED
    BY <1>3, <1>5, <2>2, <2>3, <2>4, <2>5, <2>6, HandBackStep
<1>8. CASE /\ Release
           /\ ready' = released_ready
           /\ UNCHANGED <<running, context, interrupts_enabled, proc>>
  <2>1. PICK P \in SUBSET Q :
           /\ \/ (P = {} /\ waiting_queue = << >> /\ value' = 0)
              \/ (value' = value /\ \E h \in Q : P = {h})
           /\ Sorted(released_ready, priority)
           /\ QueuedIn(released_ready) = R \cup P
           /\ waiting_queue' \in Seq(Tids) /\ IsInjective(waiting_queue')
           /\ ToSet(waiting_queue') = Q \ P
    BY <1>3, <1>8, ReleaseFacts
  <2>2. UNCHANGED nextThreadToWakeUp /\ Asleep' = S
        /\ UNCHANGED <<threads, blocked, join_queue, finished_queue>>
    BY <1>3, <1>8 DEF Release, Asleep, Sleepers, table, queues
  <2>3. Sorted(ready', priority') /\ QueuedIn(ready') = R \cup P
    BY <1>3, <1>8, <2>1
  <2>4. Base'
    BY <1>1, <1>3, <1>5, <1>8, <2>3, BaseKept DEF LockState
  <2>5. MonitorTypeOK'
    BY <1>1, <1>3, <1>6, <2>1, <2>2 DEF MonitorTypeOK
  <2>6. on = TRUE
    BY <1>1, <1>3
  <2> HIDE DEF lc
  <2>7. Lawful(A \cup P, r, TRUE, ctx, I \ {r}, Q \ P, S, value', lc)
    <3>1. CASE P = {} /\ value' = 0
      <4>1. Lawful(A, r, TRUE, ctx, I \ {r}, Q, S, 0, lc)
        BY <1>1, <1>3, <1>5, LawfulFree
      <4>2. A \cup P = A /\ Q \ P = Q
        BY <3>1
      <4> QED
        BY <3>1, <4>1, <4>2
    <3>2. ASSUME value' = value, NEW h \in Q, P = {h}
          PROVE  Lawful(A \cup P, r, TRUE, ctx, I \ {r}, Q \ P, S, value', lc)
      <4>1. Lawful(A \cup {h}, r, TRUE, ctx, I \ {r}, Q \ {h}, S, value, lc)
        BY <1>1, <1>3, <1>5, <3>2, LawfulPass
      <4> QED
        BY <3>2, <4>1
    <3> QED
      BY <2>1, <3>1, <3>2
  <2>8. A \cup P = QueuedIn(ready') \cup blocked
    BY <1>2, <2>3
  <2>9. Lawful(QueuedIn(ready') \cup blocked, running', interrupts_enabled', context',
               inside', ToSet(waiting_queue'), Asleep', value', lock_count')
    BY <1>3, <1>8, <2>1, <2>2, <2>6, <2>7, <2>8 DEF lc
  <2>10. Q \cap blocked = {}
    BY <1>1, <1>2 DEF Lawful, Places
  <2>11. /\ QueuedIn(ready') \cap (blocked \cup J \cup finished_queue) = {}
         /\ QueuedIn(ready') \subseteq threads
         /\ running' \in threads /\ running' \notin J \cup finished_queue
         /\ inside' \cup ToSet(waiting_queue') \cup Asleep'
              \subseteq threads \ (J \cup finished_queue)
    BY <1>2, <1>3, <1>8, <2>1, <2>2, <2>3, <2>10
  <2>12. /\ proc' = "alive" /\ WaitsKnown(context', waits_on')
         /\ \A t \in Tids \ {r} : context'[t] = ctx[t]
         /\ AtMostOnce(cond_var_waiting_queue', wake_up_order', nextThreadToWakeUp')
    BY <1>3, <1>6, <1>8, <2>2
  <2> QED
    BY <2>1, <2>2, <2>4, <2>5, <2>9, <2>11, <2>12, LockKept
<1> QED
  BY <1>7, <1>8 DEF unlock

(* wait() keeps the invariant: it releases the lock as unlock() does, and  *)
(* blocks.                                                                 *)
LEMMA WaitStep ==
  ASSUME LockState, \A s, t \in inside : s = t, NEW c \in CondVars, wait(c)
  PROVE  LockInv'
<1> DEFINE R == QueuedIn(ready)
           A == Able
           r == running
           on == interrupts_enabled
           ctx == context
           I == inside
           Q == ToSet(waiting_queue)
           S == Asleep
           J == Joiners(join_queue)
<1>1. /\ A \in SUBSET Tids /\ r \in Tids /\ on \in BOOLEAN
      /\ ctx \in [Tids -> Contexts] /\ I \in SUBSET Tids
      /\ Q \in SUBSET Tids /\ S \in SUBSET Tids
      /\ lock_count \in [Tids -> Nat]
      /\ Lawful(A, r, on, ctx, I, Q, S, value, lock_count)
  BY LockFacts
<1>2. /\ A = R \cup blocked
      /\ R \cap (blocked \cup J \cup finished_queue) = {}
      /\ r \in threads /\ r \notin J \cup finished_queue
      /\ R \subseteq threads
      /\ I \cup Q \cup S \subseteq threads \ (J \cup finished_queue)
      /\ on => r \notin A /\ r \notin Q /\ r \notin S
  BY LockFacts
<1> DEFINE n == nextThreadToWakeUp
           cvq == cond_var_waiting_queue
           cvq2 == [cvq EXCEPT ![c] = Append(@, r)]
<1>3. /\ on /\ r \in I /\ proc = "alive"
      /\ cond_var_waiting_queue' = cvq2
      /\ waits_on' = [waits_on EXCEPT ![r] = c]
      /\ inside' = I \ {r}
      /\ UNCHANGED <<table, priority, lock_count, queues, boosting, call, wake_up_order>>
  BY DEF wait, Inside, Calling, InUserCode, Leave
<1>4. r \notin A /\ r \notin Q /\ r \notin S
  BY <1>2, <1>3
<1>5. /\ AtMostOnce(cvq, wake_up_order, n) /\ MonitorTypeOK /\ WaitsKnown(context, waits_on)
  BY DEF LockState, MonitorParts
<1>6. /\ AtMostOnce(cvq2, wake_up_order, n)
      /\ Sleepers(cvq2, wake_up_order, n) = S \cup {r}
  <2>1. r \notin Sleepers(cvq, wake_up_order, n)
    BY <1>4 DEF Asleep
  <2>2. Hold(cvq2, wake_up_order, n, Sleepers(cvq, wake_up_order, n) \cup {r})
    BY <1>1, <1>5, <2>1, SleepWait
  <2> QED
    BY <2>2 DEF Asleep, Hold
<1>7. lock_count[r] # 0
  BY <1>1, <1>3 DEF Lawful, Counted
<1>8. cvq2 \in [CondVars -> Seq(Tids)]
  BY <1>6 DEF AtMostOnce, Separate
<1>9. waits_on' \in [Tids -> CondVars \cup {Null}] /\ inside' \subseteq Tids
      /\ waits_on'[r] = c /\ \A t \in Tids \ {r} : waits_on'[t] = waits_on[t]
  BY <1>1, <1>3, <1>5 DEF MonitorTypeOK
<1> HIDE DEF cvq2
<1>10. CASE HandBack("wait_unlock")
  <2>1. /\ nextThreadToWakeUp' = Null /\ n # Null
        /\ context' = [ctx EXCEPT ![r] = "wait_unlock"]
        /\ UNCHANGED <<value, waiting_queue>>
    BY <1>10 DEF HandBack, switchToThread
  <2>2. MonitorTypeOK'
    BY <1>3, <1>5, <1>8, <1>9, <2>1 DEF MonitorTypeOK
  <2>3. WaitsKnown(context', waits_on')
    BY <1>1, <1>5, <1>9, <2>1 DEF WaitsKnown
  <2>4. n \in S
    BY <2>1 DEF Asleep, Sleepers
  <2>5. AtMostOnce(cond_var_waiting_queue', wake_up_order', Null)
    BY <1>3, <1>6, SleepHandBack
  <2>6. Asleep' = (S \ {n}) \cup {r}
    <3>1. Sleepers(cvq2, wake_up_order, Null) = (S \cup {r}) \ {n}
      BY <1>6, SleepHandBack
    <3>2. Asleep' = Sleepers(cvq2, wake_up_order, Null)
      BY <1>3, <2>1 DEF Asleep, Sleepers
    <3> QED
      BY <1>4, <2>4, <3>1, <3>2
  <2> DEFINE w == "wait_unlock"
  <2>7. /\ w \in {"unlock", "wait_unlock"} /\ HandBack(w)
        /\ Asleep' = (Asleep \ {nextThreadToWakeUp})
                       \cup (IF w = "wait_unlock" THEN {running} ELSE {})
    BY <1>10, <2>6
  <2>8. /\ lock_count' \in [Tids -> Nat]
        /\ w = "wait_unlock" => lock_count'[running] # 0
        /\ \A t \in Tids \ {running} : lock_count'[t] = lock_count[t]
    BY <1>1, <1>3, <1>7
  <2> HIDE DEF w
  <2> QED
    BY <1>3, <2>2, <2>3, <2>5, <2>7, <2>8, HandBackStep
<1>11. CASE Release /\ switchThreads(released_ready, "wait")
  <2>1. PICK P \in SUBSET Q :
           /\ \/ (P = {} /\ waiting_queue = << >> /\ value' = 0)
              \/ (value' = value /\ \E h \in Q : P = {h})
           /\ Sorted(released_ready, priority)
           /\ QueuedIn(released_ready) = R \cup P
           /\ waiting_queue' \in Seq(Tids) /\ IsInjective(waiting_queue')
           /\ ToSet(waiting_queue') = Q \ P
    BY <1>3, <1>11, ReleaseFacts
  <2>2. /\ UNCHANGED nextThreadToWakeUp
        /\ UNCHANGED <<threads, blocked, join_queue, finished_queue>>
    BY <1>3, <1>11 DEF Release, table, queues
  <2>3. Asleep' = S \cup {r}
    BY <1>3, <1>6, <2>2 DEF Asleep, Sleepers
  <2>4. /\ TypeOK /\ "wait" \in Contexts /\ priority' = priority
        /\ priority' \in [Tids -> Priorities]
    BY <1>3 DEF LockState, Base, TypeOK, Contexts
  <2>5. /\ Sorted(ready', priority') /\ running' \in Tids
        /\ context' \in [Tids -> Contexts] /\ interrupts_enabled' \in BOOLEAN
        /\ proc' \in {"alive", "no_ready"} /\ Dispatched(QueuedIn(released_ready), "wait")
    BY <1>3, <1>11, <2>1, <2>4, SwitchDispatches
  <2>6. Base'
    BY <1>1, <1>3, <2>5, BaseKept DEF LockState
  <2>7. MonitorTypeOK'
    BY <1>3, <1>5, <1>8, <1>9, <2>1, <2>2 DEF MonitorTypeOK
  <2>8. CASE proc' = "alive"
    <3>1. /\ running' \in R \cup P /\ QueuedIn(ready') = (R \cup P) \ {running'}
          /\ context' = [ctx EXCEPT ![r] = "wait"] /\ interrupts_enabled' = FALSE
      BY <2>1, <2>5, <2>8 DEF Dispatched
    <3>2. Q \cap A = {}
      BY <1>1 DEF Lawful, Places
    <3>3. running' \in A \cup P /\ (A \cup P) \ {running'} = QueuedIn(ready') \cup blocked
      BY <1>2, <3>1, <3>2
    <3> DEFINE v2 == value'
    <3>4. (P = {} /\ v2 = 0) \/ (v2 = value /\ \E h \in Q : P = {h})
      BY <2>1
    <3> HIDE DEF v2
    <3>5. Lawful((A \cup P) \ {running'}, running', FALSE, [ctx EXCEPT ![r] = "wait"],
                 I \ {r}, Q \ P, S \cup {r}, v2, lock_count)
      BY <1>1, <1>3, <3>3, <3>4, LawfulWait
    <3>6. Lawful(QueuedIn(ready') \cup blocked, running', interrupts_enabled', context',
                 inside', ToSet(waiting_queue'), Asleep', value', lock_count')
      BY <1>3, <2>1, <2>3, <3>1, <3>3, <3>5 DEF v2
    <3>7. /\ \A t \in Tids \ {r} : context'[t] = ctx[t]
          /\ WaitsKnown(context', waits_on')
      BY <1>1, <1>5, <1>9, <3>1 DEF WaitsKnown
    <3>8. /\ QueuedIn(ready') \cap (blocked \cup J \cup finished_queue) = {}
          /\ QueuedIn(ready') \subseteq threads
          /\ running' \in threads /\ running' \notin J \cup finished_queue
          /\ inside' \cup ToSet(waiting_queue') \cup Asleep'
               \subseteq threads \ (J \cup finished_queue)
      BY <1>2, <1>3, <2>1, <2>3, <3>1, <3>2
    <3>9. AtMostOnce(cond_var_waiting_queue', wake_up_order', nextThreadToWakeUp')
      BY <1>3, <1>6, <2>2
    <3> QED
      BY <2>1, <2>2, <2>6, <2>7, <2>8, <3>6, <3>7, <3>8, <3>9, LockKept
  <2>9. CASE proc' # "alive"
    BY <1>3, <2>6, <2>7, <2>9, LockDead
  <2> QED
    BY <2>8, <2>9
<1> QED
  BY <1>10, <1>11 DEF wait

(* A wait() that handed the lock back and was scheduled again blocks now.  *)
LEMMA WaitUnlockedStep ==
  ASSUME LockState, \A s, t \in inside : s = t, wait_unlocked
  PROVE  LockInv'
<1> DEFINE R == QueuedIn(ready)
           A == Able
           r == running
           on == interrupts_enabled
           ctx == context
           I == inside
           Q == ToSet(waiting_queue)
           S == Asleep
           J == Joiners(join_queue)
<1>1. /\ A \in SUBSET Tids /\ r \in Tids /\ on \in BOOLEAN
      /\ ctx \in [Tids -> Contexts] /\ I \in SUBSET Tids
      /\ Q \in SUBSET Tids /\ S \in SUBSET Tids
      /\ lock_count \in [Tids -> Nat]
      /\ Lawful(A, r, on, ctx, I, Q, S, value, lock_count)
  BY LockFacts
<1>2. /\ A = R \cup blocked
      /\ R \cap (blocked \cup J \cup finished_queue) = {}
      /\ r \in threads /\ r \notin J \cup finished_queue
      /\ R \subseteq threads
      /\ I \cup Q \cup S \subseteq threads \ (J \cup finished_queue)
      /\ on => r \notin A /\ r \notin Q /\ r \notin S
  BY LockFacts
<1>3. /\ ~on /\ ctx[r] = "wait_unlock" /\ proc = "alive" /\ switchThreads(ready, "wait")
      /\ UNCHANGED <<table, priority, lock_count, queues, boosting, call, value,
                     waiting_queue, nextThreadToWakeUp, cond_var_waiting_queue,
                     wake_up_order, waits_on, inside>>
  BY DEF wait_unlocked, Back, monitorVars, lockVars, condVars
<1>4. /\ TypeOK /\ "wait" \in Contexts /\ Sorted(ready, priority')
      /\ priority' \in [Tids -> Priorities]
  BY <1>3 DEF LockState, Base, TypeOK, Contexts
<1>5. /\ Sorted(ready', priority') /\ running' \in Tids
      /\ context' \in [Tids -> Contexts] /\ interrupts_enabled' \in BOOLEAN
      /\ proc' \in {"alive", "no_ready"} /\ Dispatched(R, "wait")
  BY <1>3, <1>4, SwitchDispatches
<1>6. Base'
  BY <1>1, <1>3, <1>5, BaseKept DEF LockState
<1>7. MonitorTypeOK' /\ UNCHANGED <<threads, blocked, join_queue, finished_queue>>
      /\ Asleep' = S
  BY <1>3 DEF LockState, MonitorTypeOK, table, queues, Asleep, Sleepers
<1>8. CASE proc' = "alive"
  <2>1. /\ running' \in R /\ QueuedIn(ready') = R \ {running'}
        /\ context' = [ctx EXCEPT ![r] = "wait"] /\ interrupts_enabled' = FALSE
    BY <1>5, <1>8 DEF Dispatched
  <2>2. running' \in A /\ A \ {running'} = QueuedIn(ready') \cup blocked
    BY <1>2, <2>1
  <2>3. Lawful(A \ {running'}, running', FALSE, [ctx EXCEPT ![r] = "wait"], I, Q, S,
               value, lock_count)
    BY <1>1, <1>3, <2>2, LawfulBlock
  <2>4. Lawful(QueuedIn(ready') \cup blocked, running', interrupts_enabled', context',
               inside', ToSet(waiting_queue'), Asleep', value', lock_count')
    BY <1>3, <1>7, <2>1, <2>2, <2>3
  <2>5. WaitsKnown(context, waits_on)
    BY DEF LockState, MonitorParts
  <2>6. /\ \A t \in Tids \ {r} : context'[t] = ctx[t]
        /\ WaitsKnown(context', waits_on')
    BY <1>1, <1>3, <2>1, <2>5 DEF WaitsKnown
  <2>7. /\ QueuedIn(ready') \cap (blocked \cup J \cup finished_queue) = {}
        /\ QueuedIn(ready') \subseteq threads
        /\ running' \in threads /\ running' \notin J \cup finished_queue
        /\ inside' \cup ToSet(waiting_queue') \cup Asleep'
             \subseteq threads \ (J \cup finished_queue)
    BY <1>2, <1>3, <1>7, <2>1
  <2>8. /\ AtMostOnce(cond_var_waiting_queue', wake_up_order', nextThreadToWakeUp')
        /\ IsInjective(waiting_queue')
    BY <1>3 DEF LockState, MonitorParts
  <2> QED
    BY <1>6, <1>7, <1>8, <2>4, <2>6, <2>7, <2>8, LockKept
<1>9. CASE proc' # "alive"
  BY <1>3, <1>6, <1>7, <1>9, LockDead
<1> QED
  BY <1>8, <1>9

(* signal() and broadcast() keep the invariant: the lock goes to the first *)
(* waiter.                                                                 *)
LEMMA NotifyStep ==
  ASSUME LockState, interrupts_enabled, running \in inside, NEW c \in CondVars,
         NEW woken, NEW remaining, Notify(c, woken, remaining),
         \/ woken = <<running>> /\ remaining = Tail(cond_var_waiting_queue[c])
         \/ woken = Append(Tail(cond_var_waiting_queue[c]), running) /\ remaining = << >>
  PROVE  LockInv'
<1> DEFINE R == QueuedIn(ready)
           A == Able
           r == running
           on == interrupts_enabled
           ctx == context
           I == inside
           Q == ToSet(waiting_queue)
           S == Asleep
           J == Joiners(join_queue)
<1>1. /\ A \in SUBSET Tids /\ r \in Tids /\ on \in BOOLEAN
      /\ ctx \in [Tids -> Contexts] /\ I \in SUBSET Tids
      /\ Q \in SUBSET Tids /\ S \in SUBSET Tids
      /\ lock_count \in [Tids -> Nat]
      /\ Lawful(A, r, on, ctx, I, Q, S, value, lock_count)
  BY LockFacts
<1>2. /\ A = R \cup blocked
      /\ R \cap (blocked \cup J \cup finished_queue) = {}
      /\ r \in threads /\ r \notin J \cup finished_queue
      /\ R \subseteq threads
      /\ I \cup Q \cup S \subseteq threads \ (J \cup finished_queue)
      /\ on => r \notin A /\ r \notin Q /\ r \notin S
  BY LockFacts
<1> DEFINE n == nextThreadToWakeUp
           cvq == cond_var_waiting_queue
           wo == wake_up_order
           h == Head(cvq[c])
           cvq2 == [cvq EXCEPT ![c] = remaining]
           wo2 == [wo EXCEPT ![c] = @ \o woken]
<1>3. /\ cvq[c] # << >> /\ cond_var_waiting_queue' = cvq2 /\ wake_up_order' = wo2
      /\ running' = h /\ context' = [ctx EXCEPT ![r] = "signal"]
      /\ interrupts_enabled' = FALSE /\ inside' = I \ {r}
      /\ UNCHANGED <<table, priority, lock_count, ready, queues, boosting, call, proc,
                     value, waiting_queue, nextThreadToWakeUp, waits_on>>
  BY DEF Notify, switchToThread, Leave, lockVars
<1>4. r \notin A /\ r \notin Q /\ r \notin S
  BY <1>2
<1>5. /\ AtMostOnce(cvq, wo, n) /\ MonitorTypeOK /\ WaitsKnown(context, waits_on)
      /\ IsInjective(waiting_queue) /\ proc = "alive"
  BY DEF LockState, MonitorParts
<1>6. /\ h \in SeqThreads(cvq) /\ h # r
      /\ AtMostOnce(cvq2, wo2, n)
      /\ Sleepers(cvq2, wo2, n) = (Sleepers(cvq, wo, n) \ {h}) \cup {r}
  <2>1. r \notin Sleepers(cvq, wo, n)
    BY <1>4 DEF Asleep
  <2>2. h \in SeqThreads(cvq) /\ h # r
    <3>1. Separate(cvq)
      BY <1>5 DEF AtMostOnce
    <3>2. h \in SeqThreads(cvq)
      BY <1>3, <3>1, FirstSleeps
    <3> QED
      BY <2>1, <3>2 DEF Sleepers
  <2>3. Hold(cvq2, wo2, n, (Sleepers(cvq, wo, n) \ {h}) \cup {r})
    BY <1>1, <1>3, <1>5, <2>1, SleepNotify
  <2> QED
    BY <2>2, <2>3 DEF Hold
<1> HIDE DEF h, cvq2, wo2
<1>7. h \in S /\ Asleep' = (S \ {h}) \cup {r}
  BY <1>3, <1>6 DEF Asleep, Sleepers
<1>8. cvq2 \in [CondVars -> Seq(Tids)] /\ wo2 \in [CondVars -> Seq(Tids)]
  BY <1>6 DEF AtMostOnce, Separate
<1>9. MonitorTypeOK' /\ UNCHANGED <<threads, blocked, join_queue, finished_queue>>
  BY <1>1, <1>3, <1>5, <1>8 DEF MonitorTypeOK, table, queues
<1>10. /\ context' \in [Tids -> Contexts] /\ \A t \in Tids \ {r} : context'[t] = ctx[t]
       /\ WaitsKnown(context', waits_on')
  <2>1. "signal" \in Contexts
    BY DEF Contexts
  <2> QED
    BY <1>1, <1>3, <1>5, <2>1 DEF WaitsKnown
<1>11. Sorted(ready', priority') /\ proc' = "alive" /\ running' \in Tids
  BY <1>1, <1>3, <1>5, <1>7 DEF LockState, Base
<1>12. Base'
  BY <1>1, <1>3, <1>10, <1>11, BaseKept DEF LockState
<1>13. Lawful(A, h, FALSE, [ctx EXCEPT ![r] = "signal"], I \ {r}, Q,
              (S \ {h}) \cup {r}, value, lock_count)
  BY <1>1, <1>7, LawfulNotify
<1>14. A = QueuedIn(ready') \cup blocked /\ QueuedIn(ready') = R
  BY <1>2, <1>3
<1>15. Lawful(QueuedIn(ready') \cup blocked, running', interrupts_enabled', context',
              inside', ToSet(waiting_queue'), Asleep', value', lock_count')
  BY <1>3, <1>7, <1>13, <1>14
<1>16. /\ QueuedIn(ready') \cap (blocked \cup J \cup finished_queue) = {}
       /\ QueuedIn(ready') \subseteq threads
       /\ running' \in threads /\ running' \notin J \cup finished_queue
       /\ inside' \cup ToSet(waiting_queue') \cup Asleep'
            \subseteq threads \ (J \cup finished_queue)
  BY <1>2, <1>3, <1>7, <1>14
<1>17. /\ AtMostOnce(cond_var_waiting_queue', wake_up_order', nextThreadToWakeUp')
       /\ IsInjective(waiting_queue')
  BY <1>3, <1>5, <1>6
<1> QED
  BY <1>9, <1>10, <1>11, <1>12, <1>15, <1>16, <1>17, LockKept

(* Every step keeps the lock with one thread.                              *)
LEMMA LockInvStep ==
  ASSUME LockInv, [Next]_vars
  PROVE  LockInv'
<1>1. CASE ThreadStep \/ UNCHANGED vars
  BY <1>1, ThreadStepLock
<1>2. proc # "alive" => ~(Next /\ ~ThreadStep)
  BY DEF Next, lock, lock_resumed, unlock, unlock_resumed, wait, signal, broadcast,
     wait_unlocked, wait_resumed, signal_resumed, Outside, Inside, Calling, InUserCode, Back
<1>3. CASE Next /\ ~ThreadStep
  <2>1. LockState /\ \A s, t \in inside : s = t
    BY <1>2, <1>3 DEF LockInv, LockState
  <2>2. CASE lock
    BY <2>1, <2>2, LockStep
  <2>3. CASE lock_resumed
    BY <2>1, <2>3, LockResumedStep
  <2>4. CASE unlock
    BY <2>1, <2>4, UnlockStep
  <2>5. CASE unlock_resumed
    BY <2>1, <2>5, UnlockResumedStep
  <2>6. ASSUME NEW c \in CondVars, wait(c) PROVE LockInv'
    BY <2>1, <2>6, WaitStep
  <2>7. ASSUME NEW c \in CondVars, signal(c) PROVE LockInv'
    <3>1. /\ interrupts_enabled /\ running \in inside
          /\ Notify(c, <<running>>, Tail(cond_var_waiting_queue[c]))
      BY <2>7 DEF signal, Inside, Calling, InUserCode
    <3> QED
      BY <2>1, <3>1, NotifyStep
  <2>8. ASSUME NEW c \in CondVars, broadcast(c) PROVE LockInv'
    <3>1. /\ interrupts_enabled /\ running \in inside
          /\ Notify(c, Append(Tail(cond_var_waiting_queue[c]), running), << >>)
      BY <2>8 DEF broadcast, broadcast_order, Inside, Calling, InUserCode
    <3> QED
      BY <2>1, <3>1, NotifyStep
  <2>9. CASE wait_unlocked
    BY <2>1, <2>9, WaitUnlockedStep
  <2>10. CASE wait_resumed
    BY <2>1, <2>10, WaitResumedStep
  <2>11. CASE signal_resumed
    BY <2>1, <2>11, SignalResumedStep
  <2> QED
    BY <1>3, <2>2, <2>3, <2>4, <2>5, <2>6, <2>7, <2>8, <2>9, <2>10, <2>11 DEF Next
<1> QED
  BY <1>1, <1>3

(* At the start the lock is free and nobody waits.                         *)
LEMMA LockInvInit ==
  ASSUME MonitorInit
  PROVE  LockInv
<1>1. /\ Base /\ Parts /\ running \notin QueuedIn(ready) \cup blocked
      /\ Joiners(join_queue) = {}
  BY InitParts DEF MonitorInit
<1>2. /\ value = 0 /\ waiting_queue = << >> /\ nextThreadToWakeUp = Null
      /\ cond_var_waiting_queue = [c \in CondVars |-> << >>]
      /\ wake_up_order = [c \in CondVars |-> << >>]
      /\ waits_on = [t \in Tids |-> Null] /\ inside = {}
      /\ interrupts_enabled = TRUE /\ context = [t \in Tids |-> "stub"]
  BY DEF MonitorInit, Init
<1>3. /\ << >> \in Seq(Tids) /\ ToSet(<< >>) = {} /\ IsInjective(<< >>)
  BY DEF ToSet, IsInjective
<1>4. MonitorTypeOK
  BY <1>2, <1>3 DEF MonitorTypeOK
<1>5. /\ Separate(cond_var_waiting_queue) /\ Separate(wake_up_order)
      /\ SeqThreads(cond_var_waiting_queue) = {} /\ SeqThreads(wake_up_order) = {}
  BY <1>2, <1>3 DEF Separate, SeqThreads
<1>6. /\ AtMostOnce(cond_var_waiting_queue, wake_up_order, nextThreadToWakeUp)
      /\ Asleep = {}
  BY <1>2, <1>5 DEF AtMostOnce, Asleep, Sleepers
<1>7. Able \subseteq Tids
  BY <1>1 DEF Able, Parts, Base, TypeOK
<1>8. \A t \in Tids : context[t] = "stub"
  BY <1>2
<1>9. Holders(Able, running, interrupts_enabled, context, {}) = {}
  BY <1>2, <1>7, <1>8 DEF Holders
<1>10. Lawful(Able, running, interrupts_enabled, context, inside,
              ToSet(waiting_queue), Asleep, value, lock_count)
  <2>1. Token({}, 0)
    BY DEF Token
  <2>2. Places(Able, running, interrupts_enabled, context, {}, {}, {})
    BY <1>1, <1>7, <1>8 DEF Places, Able
  <2>3. Counted(Able, running, interrupts_enabled, context, {}, {}, lock_count)
    BY <1>2, <1>7, <1>8 DEF Counted
  <2> QED
    BY <1>2, <1>3, <1>6, <1>9, <2>1, <2>2, <2>3 DEF Lawful
<1>11. WaitsKnown(context, waits_on)
  BY <1>8 DEF WaitsKnown
<1>12. MonitorParts
  BY <1>1, <1>2, <1>3, <1>6, <1>10, <1>11 DEF MonitorParts
<1> QED
  BY <1>1, <1>2, <1>4, <1>12 DEF LockInv

(* The inductive invariant of the lock.                                    *)
THEOREM LockSound == MonitorSpec => []LockInv
<1>1. MonitorInit => LockInv
  BY LockInvInit
<1>2. LockInv /\ [Next]_vars => LockInv'
  BY LockInvStep
<1> QED
  BY <1>1, <1>2, PTL DEF MonitorSpec

(* Every variable of the lock and the condition variables has its type.    *)
THEOREM MonitorTypes == MonitorSpec => [](TypeOK /\ MonitorTypeOK)
<1>1. LockInv => TypeOK /\ MonitorTypeOK
  BY DEF LockInv, Base
<1> QED
  BY <1>1, LockSound, PTL

(* At most one thread is between acquiring and releasing the lock, with    *)
(* any number of threads and condition variables, whatever they call, and  *)
(* even when woken threads signal.                                         *)
THEOREM LockExcludes == MonitorSpec => []MutualExclusion
<1>1. LockInv => MutualExclusion
  <2>1. SUFFICES ASSUME LockInv PROVE Cardinality(inside) <= 1
    BY DEF MutualExclusion
  <2>2. CASE inside = {}
    BY <2>2, FS_EmptySet
  <2>3. CASE inside # {}
    <3>1. PICK h : h \in inside
      BY <2>3
    <3>2. inside = {h}
      BY <2>1, <3>1 DEF LockInv
    <3>3. Cardinality(inside) = 1
      BY <3>2, FS_Singleton
    <3> QED
      BY <3>3
  <2> QED
    BY <2>2, <2>3
<1> QED
  BY <1>1, LockSound, PTL

-----------------------------------------------------------------------------
(* Priority boosting.                                                      *)

\* The client leaves priorities alone, and creates no thread that would find
\* the boosts of an earlier thread under its id.
PrioritiesLeftAlone ==
  \A t \in Tids :
    Calls[t] \cap {"create", "increase_priority", "decrease_priority"} = {}

Amount(n) == IF n = NoBoosts THEN 0 ELSE n

\* The boosts recorded in nb account for the priorities pr.
Accounted(pr, nb) == \A t \in Tids : pr[t] + Amount(nb[t]) = StartPriority[t]

\* A thread enrolled in med can be raised.
Raisable(pr, med) == \A t \in Tids : t \in med => pr[t] # RED

\* What boosting starts from, and leaves.
Balanced(b) == Accounted(b.priority, b.numBoosts) /\ Raisable(b.priority, b.med)

\* The inductive invariant of boosting: every yield empties the low set.
BoostInv ==
  /\ LockInv
  /\ lowPriorityToBeBoosted = {}
  /\ Accounted(priority, numBoosts)
  /\ Raisable(priority, medPriorityToBeBoosted)
  /\ \A t \in Tids :
       call[t].op \notin {"create", "increase_priority", "decrease_priority"}

\* One round of boosting_logic for t turns the scheduler b into c.
Books(b, t, which, c) ==
  /\ c.priority[t] = increasePriority(b.priority[t])
  /\ c.numBoosts[t] = Amount(b.numBoosts[t]) + 1
  /\ \A u \in Tids \ {t} : c.priority[u] = b.priority[u] /\ c.numBoosts[u] = b.numBoosts[u]
  /\ c.low = IF which = "med" THEN b.low ELSE b.low \ {t}
  /\ c.med = IF which = "med" THEN b.med \ {t}
             ELSE IF c.priority[t] = ORANGE THEN b.med \cup {t} ELSE b.med

(* What one round of boosting_logic does to the books.                     *)
LEMMA BoostOneBooks ==
  ASSUME NEW b \in Boosts, NEW t \in Tids, NEW which
  PROVE  Books(b, t, which, BoostOne(b, t, which))
<1> DEFINE r == RaisePriority(b, t)
           boosts == [r.numBoosts EXCEPT ![t] = IF @ = NoBoosts THEN 1 ELSE @ + 1]
           set == IF r.priority[t] = ORANGE THEN r.med \cup {t} ELSE r.med
           s == [r EXCEPT !.numBoosts[t] = IF @ = NoBoosts THEN 1 ELSE @ + 1,
                          !.med = IF r.priority[t] = ORANGE THEN @ \cup {t} ELSE @]
           c == BoostOne(b, t, which)
<1>1. /\ r \in Boosts /\ r.low = b.low /\ r.med = b.med /\ r.numBoosts = b.numBoosts
  BY RaiseKeepsQueues
<1>2. /\ r.priority[t] = increasePriority(b.priority[t])
      /\ \A u \in Tids \ {t} : r.priority[u] = b.priority[u]
  BY BoostParts DEF RaisePriority, BoostRecords
<1>3. c = IF which = "med" THEN [s EXCEPT !.med = @ \ {t}] ELSE [s EXCEPT !.low = @ \ {t}]
  BY DEF BoostOne
<1> HIDE DEF r, c
<1>4. /\ s.priority = r.priority /\ s.low = r.low /\ s.med = set /\ s.numBoosts = boosts
      /\ DOMAIN s = DOMAIN r
  BY <1>1, BoostParts DEF BoostRecords
<1>5. DOMAIN r = {"priority", "ready", "numBoosts", "low", "med"}
  BY <1>1, BoostParts DEF BoostRecords
<1> HIDE DEF s
<1>6. /\ c.priority = r.priority /\ c.numBoosts = boosts
      /\ c.low = IF which = "med" THEN r.low ELSE r.low \ {t}
      /\ c.med = IF which = "med" THEN set \ {t} ELSE set
  BY <1>3, <1>4, <1>5
<1>7. boosts[t] = Amount(b.numBoosts[t]) + 1 /\ \A u \in Tids \ {t} : boosts[u] = b.numBoosts[u]
  BY <1>1, BoostParts DEF Amount
<1> HIDE DEF boosts
<1> QED
  BY <1>1, <1>2, <1>6, <1>7 DEF c, Books

(* A boost raises the priority by what it records.                         *)
LEMMA BoostBalances ==
  ASSUME NEW b \in Boosts, Balanced(b), NEW t \in Tids, t \in b.med
  PROVE  LET c == BoostOne(b, t, "med") IN
           /\ Balanced(c) /\ c.low = b.low /\ c.med = b.med \ {t}
           /\ c.priority[t] = increasePriority(b.priority[t])
           /\ \A u \in Tids \ {t} : c.priority[u] = b.priority[u]
<1> DEFINE c == BoostOne(b, t, "med")
<1>1. /\ c.priority[t] = increasePriority(b.priority[t])
      /\ c.numBoosts[t] = Amount(b.numBoosts[t]) + 1
      /\ \A u \in Tids \ {t} : /\ c.priority[u] = b.priority[u]
                               /\ c.numBoosts[u] = b.numBoosts[u]
      /\ c.low = b.low /\ c.med = b.med \ {t}
  BY BoostOneBooks DEF Books
<1> HIDE DEF c
<1>2. /\ b.priority[t] \in Priorities /\ b.priority[t] # RED
      /\ b.numBoosts[t] \in Nat \cup {NoBoosts}
  BY BoostParts DEF Balanced, Raisable
<1>3. c.priority[t] + Amount(c.numBoosts[t]) = b.priority[t] + Amount(b.numBoosts[t])
  BY <1>1, <1>2 DEF increasePriority, Amount, Priorities, RED, ORANGE, GREEN, NoBoosts
<1>4. Accounted(c.priority, c.numBoosts)
  BY <1>1, <1>3 DEF Balanced, Accounted
<1>5. Raisable(c.priority, c.med)
  BY <1>1 DEF Balanced, Raisable
<1> QED
  BY <1>1, <1>4, <1>5 DEF Balanced, c

\* x has been raised at most once, and then it is not in med.
Once(b, x) == b.priority[x] # RED /\ (x \in b.med => b.priority[x] = GREEN)

(* The loop over the med set raises each of its threads once.              *)
LEMMA MedLoopBalances ==
  ASSUME NEW b \in Boosts, Balanced(b), NEW order \in Seq(Tids),
         \A i \in 1 .. Len(order) : order[i] \in b.med,
         \A i, j \in 1 .. Len(order) : i # j => order[i] # order[j],
         NEW x \in Tids
  PROVE  /\ Balanced(boosting_logic(b, "med", order))
         /\ boosting_logic(b, "med", order).low = b.low
         /\ b.priority[x] = GREEN => Once(boosting_logic(b, "med", order), x)
<1> DEFINE n == Len(order)
           Good(k) == {c \in Boosts :
                         /\ Balanced(c) /\ c.low = b.low
                         /\ \A i \in k + 1 .. n : order[i] \in c.med
                         /\ b.priority[x] = GREEN => Once(c, x)}
           X == [k \in 0 .. n |-> Good(k)]
<1>1. PICK run \in [0 .. n -> Boosts] :
           /\ run[0] = b
           /\ \A k \in 1 .. n : run[k] = BoostOne(run[k - 1], order[k], "med")
           /\ boosting_logic(b, "med", order) = run[n]
  <2>1. BoostRuns(b, "med", order) # {}
    BY BoostRun
  <2> QED
    BY <2>1 DEF BoostRuns
<1>2. n \in Nat /\ n \in 0 .. n /\ 0 \in 0 .. n
  OBVIOUS
<1>3. ASSUME NEW k \in 1 .. n, run[k - 1] \in Good(k - 1)
      PROVE  run[k] \in Good(k)
  <2> DEFINE c == run[k - 1]
             d == run[k]
             t == order[k]
  <2>1. /\ k \in 0 .. n /\ k - 1 \in 0 .. n /\ t \in Tids /\ k \in (k - 1) + 1 .. n
        /\ \A i \in k + 1 .. n : i \in (k - 1) + 1 .. n /\ i \in 1 .. n /\ i # k
    BY <1>2
  <2>2. c \in Boosts /\ d \in Boosts /\ d = BoostOne(c, t, "med")
    BY <1>1, <2>1
  <2>3. /\ Balanced(c) /\ c.low = b.low /\ t \in c.med
        /\ \A i \in (k - 1) + 1 .. n : order[i] \in c.med
        /\ b.priority[x] = GREEN => Once(c, x)
    BY <1>3, <2>1
  <2> HIDE DEF c, d, t, n
  <2>4. Balanced(d) /\ d.low = b.low
    BY <2>1, <2>2, <2>3, BoostBalances
  <2>5. /\ d.priority[t] = increasePriority(c.priority[t])
        /\ \A u \in Tids \ {t} : d.priority[u] = c.priority[u]
        /\ d.med = c.med \ {t}
    BY <2>1, <2>2, <2>3, BoostBalances
  <2>6. \A i \in k + 1 .. n : order[i] \in d.med
    BY <1>2, <2>1, <2>3, <2>5 DEF t, n
  <2>7. Once(c, x) => Once(d, x)
    BY <2>1, <2>3, <2>5 DEF Once, increasePriority, RED, GREEN
  <2>8. d \in Good(k)
    BY <2>2, <2>3, <2>4, <2>6, <2>7
  <2> QED
    BY <2>8 DEF d
<1>4. run[0] \in Good(0)
  <2>1. \A i \in 0 + 1 .. n : i \in 1 .. n
    OBVIOUS
  <2>2. b.priority[x] = GREEN => Once(b, x)
    BY DEF Once, RED, GREEN
  <2> QED
    BY <1>1, <2>1, <2>2
<1> HIDE DEF Good
<1>5. \A k \in 0 .. n : run[k] \in X[k]
  <2>1. run[0] \in X[0]
    BY <1>2, <1>4
  <2>2. \A k \in 1 .. n : k \in 0 .. n /\ k - 1 \in 0 .. n
    BY <1>2
  <2>3. \A k \in 1 .. n : run[k - 1] \in X[k - 1] => run[k] \in X[k]
    BY <1>3, <2>2
  <2> HIDE DEF X, n
  <2> QED
    BY <1>2, <2>1, <2>3, LoopInvariant
<1>6. run[n] \in Good(n)
  BY <1>2, <1>5
<1> QED
  BY <1>1, <1>6 DEF Good

(* A yield notes the running thread: it gives a boost back, or is enrolled *)
(* in low when it is GREEN and holds the lock.                             *)
LEMMA CheckBalances ==
  ASSUME TypeOK, Sorted(ready, priority), lowPriorityToBeBoosted = {},
         Accounted(priority, numBoosts), Raisable(priority, medPriorityToBeBoosted)
  PROVE  LET b == check_and_update_boost_structures(Boost) IN
           /\ Balanced(b)
           /\ \/ b.low = {}
              \/ b.low = {running} /\ b.priority[running] = GREEN /\ lock_count[running] # 0
<1> DEFINE b == Boost
           r == running
           n == numBoosts[r]
           p == priority[r]
<1>1. /\ b.priority = priority /\ b.numBoosts = numBoosts /\ b.low = {}
      /\ b.med = medPriorityToBeBoosted
      /\ DOMAIN b = {"priority", "ready", "numBoosts", "low", "med"}
  BY DEF Boost
<1>2. /\ r \in Tids /\ n \in Nat \cup {NoBoosts} /\ NoBoosts \notin Nat /\ p \in {0, 1, 2}
      /\ priority \in [Tids -> Priorities] /\ numBoosts \in [Tids -> Nat \cup {NoBoosts}]
      /\ lock_count[r] \in Nat
  BY DEF TypeOK, NoBoosts, Priorities, RED, ORANGE, GREEN
<1>3. p + Amount(n) = StartPriority[r] /\ StartPriority[r] \in {0, 1, 2}
  BY <1>2, UThreadAssumption DEF Accounted, Priorities, RED, ORANGE, GREEN
<1>4. Balanced(b)
  BY <1>1 DEF Balanced
<1> HIDE DEF b
<1>5. CASE p = RED /\ n = NoBoosts
  <2>1. check_and_update_boost_structures(Boost) = b
    BY <1>1, <1>5 DEF check_and_update_boost_structures, b
  <2> QED
    BY <1>1, <1>4, <2>1
<1>6. CASE ~(p = RED /\ n = NoBoosts) /\ lock_count[r] > 0 /\ isHigherPriorityThreadPresent
  <2> DEFINE m == IF n = NoBoosts THEN 0 ELSE n
             c == [b EXCEPT !.numBoosts[r] = m]
             d == Enroll(c)
  <2>1. check_and_update_boost_structures(Boost) = d
    BY <1>1, <1>6 DEF check_and_update_boost_structures, b
  <2>2. p # RED
    BY <1>2, <1>6 DEF isHigherPriorityThreadPresent, Priorities, RED, ORANGE, GREEN
  <2>3. /\ c.priority = priority /\ c.low = {} /\ c.med = medPriorityToBeBoosted
        /\ c.numBoosts = [numBoosts EXCEPT ![r] = m]
        /\ DOMAIN c = {"priority", "ready", "numBoosts", "low", "med"}
    BY <1>1
  <2>4. Accounted(priority, [numBoosts EXCEPT ![r] = m])
    BY <1>2, <1>3 DEF Accounted, Amount, NoBoosts
  <2> HIDE DEF c
  <2>5. /\ d.priority = priority /\ d.numBoosts = [numBoosts EXCEPT ![r] = m]
        /\ p = GREEN => d.low = {r} /\ d.med = medPriorityToBeBoosted
        /\ p # GREEN => d.low = {} /\ d.med = medPriorityToBeBoosted \cup {r}
    BY <2>3 DEF Enroll
  <2> HIDE DEF d, m
  <2>6. Raisable(d.priority, d.med)
    BY <2>2, <2>5 DEF Raisable
  <2> QED
    BY <1>2, <1>6, <2>1, <2>4, <2>5, <2>6 DEF Balanced
<1>7. CASE /\ ~(p = RED /\ n = NoBoosts)
           /\ ~(lock_count[r] > 0 /\ isHigherPriorityThreadPresent)
  <2> DEFINE c == GiveBack(b)
             d == Unenroll(c)
  <2>1. check_and_update_boost_structures(Boost) = d
    BY <1>1, <1>7 DEF check_and_update_boost_structures, b
  <2>2. /\ Accounted(c.priority, c.numBoosts) /\ c.low = {}
        /\ c.med = medPriorityToBeBoosted /\ Raisable(c.priority, c.med)
        /\ DOMAIN c = {"priority", "ready", "numBoosts", "low", "med"}
    <3>1. CASE n = NoBoosts
      BY <1>1, <1>4, <3>1 DEF GiveBack, Balanced
    <3>2. CASE n # NoBoosts
      <4> DEFINE q == IF n # 0 THEN decreasePriority(p) ELSE p
                 m == IF n <= 1 THEN NoBoosts ELSE n - 1
                 pr == [priority EXCEPT ![r] = q]
                 nb == [numBoosts EXCEPT ![r] = m]
      <4>1. /\ c.priority = pr /\ c.numBoosts = nb /\ c.low = {}
            /\ c.med = medPriorityToBeBoosted
            /\ DOMAIN c = {"priority", "ready", "numBoosts", "low", "med"}
        BY <1>1, <3>2 DEF GiveBack
      <4>2. q + Amount(m) = p + Amount(n) /\ (q = RED => p = RED)
        BY <1>2, <1>3, <3>2 DEF decreasePriority, Amount, NoBoosts, RED, GREEN
      <4>3. /\ pr[r] = q /\ nb[r] = m
            /\ \A t \in Tids \ {r} : pr[t] = priority[t] /\ nb[t] = numBoosts[t]
        BY <1>2
      <4> HIDE DEF q, m, pr, nb, c
      <4>4. Accounted(pr, nb)
        BY <4>2, <4>3 DEF Accounted
      <4>5. Raisable(pr, medPriorityToBeBoosted)
        BY <4>2, <4>3 DEF Raisable
      <4> QED
        BY <4>1, <4>4, <4>5
    <3> QED
      BY <3>1, <3>2
  <2> HIDE DEF c
  <2>3. d.priority = c.priority /\ d.numBoosts = c.numBoosts /\ d.low = {}
        /\ d.med \subseteq c.med
    BY <2>2 DEF Unenroll
  <2> HIDE DEF d
  <2> QED
    BY <2>1, <2>2, <2>3 DEF Balanced, Raisable
<1> QED
  BY <1>5, <1>6, <1>7

(* A loop over no thread does nothing.                                     *)
LEMMA NoRounds ==
  ASSUME NEW b \in Boosts, NEW which
  PROVE  boosting_logic(b, which, << >>) = b
<1>1. << >> \in Seq(Tids) /\ Len(<< >>) = 0
  OBVIOUS
<1> DEFINE none == << >>
<1> HIDE DEF none
<1>2. none \in Seq(Tids) /\ Len(none) = 0
  BY <1>1 DEF none
<1>3. BoostRuns(b, which, none) # {}
  BY <1>2, BoostRun
<1>4. boosting_logic(b, which, none) = b
  BY <1>2, <1>3 DEF BoostRuns
<1> QED
  BY <1>4 DEF none

(* The loop over low raises the running thread, if it is enrolled there.   *)
LEMMA LowLoopBalances ==
  ASSUME NEW b \in Boosts, Balanced(b), running \in Tids,
         \/ b.low = {}
         \/ b.low = {running} /\ Once(b, running) /\ lock_count[running] # 0,
         NEW B \in boosting_choices(b.low, 10), NEW order \in SetToSeqs(B)
  PROVE  Balanced(boosting_logic(b, "low", order)) /\ boosting_logic(b, "low", order).low = {}
<1>1. CASE b.low = {}
  <2>1. B = {}
    BY <1>1 DEF boosting_choices
  <2>2. order = << >>
    BY <2>1, FS_EmptySet DEF SetToSeqs
  <2> QED
    BY <1>1, <2>2, NoRounds
<1>2. CASE b.low = {running} /\ Once(b, running) /\ lock_count[running] # 0
  <2> DEFINE r == running
             c == BoostOne(b, r, "low")
  <2>1. B = {r}
    <3>1. Cardinality({r}) = 1
      BY FS_Singleton
    <3>2. {t \in {r} \ {Freed} : lock_count[t] # 0} = {r}
      BY <1>2 DEF Freed, Tids
    <3> QED
      BY <1>2, <3>1, <3>2 DEF boosting_choices
  <2>2. order \in [1 .. 1 -> {r}]
    BY <2>1, FS_Singleton DEF SetToSeqs
  <2>3. order \in Seq(Tids) /\ Len(order) = 1 /\ order[1] = r
    <3>1. order \in Seq(Tids)
      BY BoostParts, BoostOrder
    <3>2. DOMAIN order = 1 .. 1 /\ order[1] = r
      BY <2>2
    <3> QED
      BY <3>1, <3>2
  <2>4. boosting_logic(b, "low", order) = c
    <3>1. BoostRuns(b, "low", order) # {}
      BY <2>3, BoostRun
    <3>2. PICK run \in BoostRuns(b, "low", order) : TRUE
      BY <3>1
    <3>3. /\ run[0] = b /\ \A k \in 1 .. 1 : run[k] = BoostOne(run[k - 1], order[k], "low")
          /\ boosting_logic(b, "low", order) = run[1]
      BY <2>3, <3>2 DEF BoostRuns
    <3>4. 1 \in 1 .. 1 /\ 1 - 1 = 0
      OBVIOUS
    <3> QED
      BY <2>3, <3>3, <3>4
  <2>5. Books(b, r, "low", c)
    BY BoostOneBooks
  <2> HIDE DEF c
  <2>6. /\ c.priority[r] = increasePriority(b.priority[r])
        /\ c.numBoosts[r] = Amount(b.numBoosts[r]) + 1
        /\ \A u \in Tids \ {r} : /\ c.priority[u] = b.priority[u]
                                 /\ c.numBoosts[u] = b.numBoosts[u]
        /\ c.low = b.low \ {r}
        /\ c.med = IF increasePriority(b.priority[r]) = ORANGE THEN b.med \cup {r} ELSE b.med
    BY <2>5 DEF Books
  <2>7. b.priority[r] \in Priorities /\ b.numBoosts[r] \in Nat \cup {NoBoosts}
    BY BoostParts
  <2>8. c.priority[r] + Amount(c.numBoosts[r]) = b.priority[r] + Amount(b.numBoosts[r])
    BY <1>2, <2>6, <2>7 DEF Once, increasePriority, Amount, Priorities, RED, ORANGE, GREEN,
       NoBoosts
  <2>9. Accounted(c.priority, c.numBoosts)
    BY <2>6, <2>8 DEF Balanced, Accounted
  <2>10. r \in c.med => c.priority[r] # RED
    BY <1>2, <2>6, <2>7 DEF Once, increasePriority, Priorities, RED, ORANGE, GREEN
  <2>11. Raisable(c.priority, c.med)
    BY <2>6, <2>10 DEF Balanced, Raisable
  <2> QED
    BY <1>2, <2>4, <2>6, <2>9, <2>11 DEF Balanced
<1> QED
  BY <1>1, <1>2

(* Whatever boosting does in a yield, the books balance.                   *)
LEMMA YieldBalances ==
  ASSUME TypeOK, Sorted(ready, priority), running \notin QueuedIn(ready),
         lowPriorityToBeBoosted = {},
         Accounted(priority, numBoosts), Raisable(priority, medPriorityToBeBoosted),
         NEW b \in boosted_states
  PROVE  Balanced(b) /\ b.low = {}
<1> DEFINE b0 == check_and_update_boost_structures(Boost)
<1>1. PICK B1 \in boosting_choices(b0.med, 20) : \E o1 \in SetToSeqs(B1) :
        \E B2 \in boosting_choices(boosting_logic(b0, "med", o1).low, 10) :
          \E o2 \in SetToSeqs(B2) :
            b = boosting_logic(boosting_logic(b0, "med", o1), "low", o2)
  BY DEF boosted_states
<1>2. b0 \in Boosts
  BY BoostCheck
<1>3. /\ Balanced(b0)
      /\ \/ b0.low = {}
         \/ b0.low = {running} /\ b0.priority[running] = GREEN /\ lock_count[running] # 0
  BY CheckBalances
<1>4. running \in Tids
  BY DEF TypeOK
<1> HIDE DEF b0
<1>5. PICK o1 \in SetToSeqs(B1) :
        \E B2 \in boosting_choices(boosting_logic(b0, "med", o1).low, 10) :
          \E o2 \in SetToSeqs(B2) :
            b = boosting_logic(boosting_logic(b0, "med", o1), "low", o2)
  BY <1>1
<1> DEFINE b1 == boosting_logic(b0, "med", o1)
<1>6. o1 \in Seq(Tids)
  BY <1>2, BoostParts, BoostOrder
<1>7. /\ \A i \in 1 .. Len(o1) : o1[i] \in b0.med
      /\ \A i, j \in 1 .. Len(o1) : i # j => o1[i] # o1[j]
  <2>1. B1 \subseteq b0.med
    BY DEF boosting_choices
  <2>2. /\ o1 \in [1 .. Cardinality(B1) -> B1]
        /\ \A i, j \in 1 .. Cardinality(B1) : i # j => o1[i] # o1[j]
    BY DEF SetToSeqs
  <2>3. DOMAIN o1 = 1 .. Cardinality(B1) /\ DOMAIN o1 = 1 .. Len(o1)
    BY <1>6, <2>2
  <2> QED
    BY <2>1, <2>2, <2>3
<1>8. /\ Balanced(b1) /\ b1.low = b0.low
      /\ b0.priority[running] = GREEN => Once(b1, running)
  BY <1>2, <1>3, <1>4, <1>6, <1>7, MedLoopBalances
<1>9. b1 \in Boosts
  BY <1>2, <1>6, BoostLoop
<1>10. PICK B2 \in boosting_choices(b1.low, 10) : \E o2 \in SetToSeqs(B2) :
        b = boosting_logic(b1, "low", o2)
  BY <1>5
<1> HIDE DEF b1
<1> QED
  BY <1>3, <1>4, <1>8, <1>9, <1>10, LowLoopBalances

\* What a step that is not a yield leaves of the books.
BooksKept ==
  /\ UNCHANGED <<priority, numBoosts>>
  /\ lowPriorityToBeBoosted' \subseteq lowPriorityToBeBoosted \cup {Freed}
  /\ medPriorityToBeBoosted' \subseteq medPriorityToBeBoosted \cup {Freed}
  /\ Freed \in lowPriorityToBeBoosted' => lowPriorityToBeBoosted # {}

(* The boosting sets keep a deleted thread as a dangling pointer.          *)
LEMMA ReapedBooks ==
  ASSUME NEW tid \in Tids, removeFromFinished(tid), UNCHANGED priority
  PROVE  BooksKept
BY DEF removeFromFinished, Forget, BooksKept

(* The steps of the library that are not yields.                           *)
LEMMA OtherStepsKeepBooks ==
  ASSUME PrioritiesLeftAlone, BoostInv, UThreadNext, ~uthread_yield, ~timeHandler
  PROVE  BooksKept
<1>1. running \in Tids /\ call \in [Tids -> CallRecords] /\ finished_queue \subseteq Tids
  BY DEF BoostInv, LockInv, Base, TypeOK, CallRecords
<1>2. Calls[running] \cap {"create", "increase_priority", "decrease_priority"} = {}
  BY <1>1 DEF PrioritiesLeftAlone
<1>3. call[running].op \notin {"create", "increase_priority", "decrease_priority"}
  BY <1>1 DEF BoostInv
<1>4. ~uthread_create_check /\ ~uthread_create /\ ~uthread_change_priority
  BY <1>2, <1>3 DEF uthread_create_check, uthread_create, uthread_change_priority, Calling,
     Checked
<1>5. \A op \in OpNames, tid \in Tids : ~uthread_priority_check(op, tid)
  BY <1>2 DEF uthread_priority_check, Check, Calling
<1>6. CASE UNCHANGED <<priority, boosting>>
  BY <1>6 DEF BooksKept, boosting, BoostInv
<1>7. ASSUME NEW tid \in Tids, uthread_join(tid) PROVE BooksKept
  BY <1>6, <1>7, ReapedBooks DEF uthread_join
<1>8. CASE uthread_join_resumed
  <2>1. CASE call[running].tid \in finished_queue
    BY <1>1, <1>8, <2>1, ReapedBooks DEF uthread_join_resumed
  <2>2. CASE call[running].tid \notin finished_queue
    BY <1>6, <1>8, <2>2 DEF uthread_join_resumed, Die
  <2> QED
    BY <2>1, <2>2
<1>9. CASE uthread_exit \/ uthread_exit_main \/ resumed
  BY <1>6, <1>9 DEF uthread_exit, uthread_exit_main, resumed, Die
<1>10. ASSUME NEW tid \in Tids, uthread_suspend_check(tid) \/ uthread_resume_count(tid)
       PROVE  BooksKept
  BY <1>6, <1>10 DEF uthread_suspend_check, uthread_resume_count, Check
<1>11. CASE uthread_suspend
  BY <1>6, <1>11 DEF uthread_suspend, Die
<1>12. CASE uthread_resume_find \/ uthread_resume
  BY <1>6, <1>12 DEF uthread_resume_find, uthread_resume, Die
<1> QED
  BY <1>4, <1>5, <1>7, <1>8, <1>9, <1>10, <1>11, <1>12 DEF UThreadNext

(* No call of such a client is about to change a priority.                 *)
LEMMA CallsLeavePriorities ==
  ASSUME PrioritiesLeftAlone, BoostInv, UThreadNext
  PROVE  \A t \in Tids :
           call'[t].op \notin {"create", "increase_priority", "decrease_priority"}
<1> DEFINE Ops == {"create", "increase_priority", "decrease_priority"}
           OK == \A t \in Tids : call'[t].op \notin Ops
<1> SUFFICES OK
  OBVIOUS
<1>1. running \in Tids /\ call \in [Tids -> CallRecords]
  BY DEF BoostInv, LockInv, Base, TypeOK, CallRecords
<1>2. Calls[running] \cap Ops = {}
  BY <1>1 DEF PrioritiesLeftAlone
<1>3. \A t \in Tids : call[t].op \notin Ops
  BY DEF BoostInv
<1>4. ~uthread_create_check /\ ~uthread_create /\ ~uthread_change_priority
  BY <1>1, <1>2, <1>3 DEF uthread_create_check, uthread_create, uthread_change_priority,
     Calling, Checked
<1>5. \A op \in OpNames, tid \in Tids : ~uthread_priority_check(op, tid)
  BY <1>2 DEF uthread_priority_check, Check, Calling
<1>6. CASE UNCHANGED call
  BY <1>3, <1>6
<1>7. ASSUME NEW op \in {"join", "exit", "suspend", "resume"}, NEW tid,
             call' = [call EXCEPT ![running] = [op |-> op, tid |-> tid]]
      PROVE  OK
  BY <1>1, <1>3, <1>7
<1>8. ASSUME call' = [call EXCEPT ![running] = NoCall] PROVE OK
  BY <1>1, <1>3, <1>8 DEF NoCall
<1>9. ASSUME NEW tid, removeFromFinished(tid) PROVE OK
  <2>1. \A t \in Tids : call'[t].op = IF t = running THEN "none" ELSE call[t].op
    BY <1>1, <1>9 DEF removeFromFinished, NoCall, CallRecords
  <2> QED
    BY <1>3, <2>1
<1> HIDE DEF OK
<1>10. ASSUME NEW tid \in Tids, uthread_join(tid) PROVE OK
  BY <1>7, <1>9, <1>10 DEF uthread_join
<1>11. CASE uthread_join_resumed
  BY <1>6, <1>9, <1>11 DEF uthread_join_resumed, Die
<1>12. CASE uthread_exit
  BY <1>6, <1>7, <1>12 DEF uthread_exit
<1>13. CASE uthread_exit_main \/ uthread_yield \/ timeHandler
  BY <1>6, <1>13 DEF uthread_exit_main, uthread_yield, timeHandler, yield_body, Die
<1>14. CASE resumed
  BY <1>6, <1>8, <1>14 DEF resumed
<1>15. ASSUME NEW tid \in Tids, uthread_suspend_check(tid) \/ uthread_resume_count(tid)
       PROVE  OK
  BY <1>7, <1>15 DEF uthread_suspend_check, uthread_resume_count, Check
<1>16. CASE uthread_suspend
  BY <1>6, <1>8, <1>16 DEF uthread_suspend, Die, Return
<1>17. CASE uthread_resume_find
  <2>1. \/ call' = [call EXCEPT ![running] = NoCall]
        \/ call' = [call EXCEPT ![running].op = "resume_found"]
    BY <1>17 DEF uthread_resume_find
  <2>2. CASE call' = [call EXCEPT ![running].op = "resume_found"]
    BY <1>1, <1>3, <2>2 DEF OK, CallRecords
  <2> QED
    BY <1>8, <2>1, <2>2
<1>18. CASE uthread_resume
  BY <1>6, <1>8, <1>18 DEF uthread_resume, Die, Return
<1> QED
  BY <1>4, <1>5, <1>10, <1>11, <1>12, <1>13, <1>14, <1>15, <1>16, <1>17, <1>18
     DEF UThreadNext

(* Every step keeps the books.                                             *)
LEMMA BoostInvStep ==
  ASSUME PrioritiesLeftAlone, BoostInv, [Next]_vars
  PROVE  BoostInv'
<1>1. LockInv'
  BY LockInvStep DEF BoostInv
<1>2. ASSUME UNCHANGED <<priority, boosting, call>> PROVE BoostInv'
  BY <1>1, <1>2 DEF BoostInv, boosting
<1>3. CASE UNCHANGED vars
  BY <1>2, <1>3 DEF vars, uthreadVars
<1>4. CASE Next /\ ~ThreadStep
  BY <1>2, <1>4 DEF Next, lock, lock_resumed, unlock, unlock_resumed, wait, signal,
     broadcast, Notify, wait_unlocked, wait_resumed, signal_resumed, Die
<1>5. CASE UThreadNext
  <2>1. \A t \in Tids :
          call'[t].op \notin {"create", "increase_priority", "decrease_priority"}
    BY <1>5, CallsLeavePriorities
  <2>2. CASE BooksKept
    <3>1. lowPriorityToBeBoosted' = {}
      BY <2>2 DEF BooksKept, BoostInv
    <3>2. Freed \notin Tids
      BY DEF Freed, Tids
    <3>3. Raisable(priority', medPriorityToBeBoosted')
      BY <2>2, <3>2 DEF BooksKept, BoostInv, Raisable
    <3> QED
      BY <1>1, <2>1, <2>2, <3>1, <3>3 DEF BooksKept, BoostInv
  <2>3. CASE uthread_yield \/ timeHandler
    <3>1. InUserCode /\ yield_body
      BY <2>3 DEF uthread_yield, timeHandler, Calling
    <3>2. /\ TypeOK /\ Sorted(ready, priority) /\ running \notin QueuedIn(ready)
      BY <3>1 DEF InUserCode, BoostInv, LockInv, Base, Parts
    <3>3. ASSUME NEW b \in boosted_states,
                 /\ priority' = b.priority
                 /\ numBoosts' = b.numBoosts
                 /\ lowPriorityToBeBoosted' = b.low
                 /\ medPriorityToBeBoosted' = b.med
          PROVE  BoostInv'
      <4>1. Balanced(b) /\ b.low = {}
        BY <3>2, YieldBalances DEF BoostInv
      <4> QED
        BY <1>1, <2>1, <3>3, <4>1 DEF Balanced, BoostInv
    <3> QED
      BY <1>2, <3>1, <3>3 DEF yield_body, Die
  <2> QED
    BY <1>5, <2>2, <2>3, OtherStepsKeepBooks
<1> QED
  BY <1>3, <1>4, <1>5 DEF ThreadStep

(* Boosting is undone exactly: a thread's priority is above its own by the *)
(* boosts recorded for it, in clients that leave priorities alone and do   *)
(* not reuse ids.                                                          *)
THEOREM BoostsAreUndone ==
  ASSUME PrioritiesLeftAlone PROVE MonitorSpec => []BoostsAccountedFor
<1>1. MonitorInit => BoostInv
  <2>1. SUFFICES ASSUME MonitorInit PROVE BoostInv
    OBVIOUS
  <2>2. /\ LockInv /\ priority = StartPriority /\ call = [t \in Tids |-> NoCall]
        /\ numBoosts = [t \in Tids |-> NoBoosts]
        /\ lowPriorityToBeBoosted = {} /\ medPriorityToBeBoosted = {}
    BY <2>1, LockInvInit DEF MonitorInit, Init
  <2>3. \A t \in Tids : StartPriority[t] \in Nat
    BY UThreadAssumption DEF Priorities, RED, ORANGE, GREEN
  <2>4. Accounted(priority, numBoosts)
    BY <2>2, <2>3 DEF Accounted, Amount
  <2> QED
    BY <2>2, <2>4 DEF BoostInv, Raisable, NoCall
<1>2. BoostInv /\ [Next]_vars => BoostInv'
  BY BoostInvStep
<1>3. BoostInv => BoostsAccountedFor
  BY DEF BoostInv, LockInv, Base, TypeOK, Accounted, Amount, BoostsAccountedFor
<1> QED
  BY <1>1, <1>2, <1>3, PTL DEF MonitorSpec

=============================================================================
