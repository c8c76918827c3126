----------------------------- MODULE MCMonitor -----------------------------
(* Instances of Monitor for TLC.                                           *)
EXTENDS Monitor

AllOrange == [t \in Tids |-> ORANGE]

MonitorCalls == {"lock", "unlock", "wait", "signal", "broadcast"}

\* Every thread uses the monitor; the timer interleaves them.
Clients == [t \in Tids |-> MonitorCalls]

\* Workers that use the monitor and end, and a main thread that joins them.
JoinedClients ==
  [t \in Tids |-> MonitorCalls
                    \cup IF t = MAIN_THREAD THEN {"create", "join"} ELSE {"exit"}]

\* Threads of every priority; the two RED ones share the processor.
MixedPriorities ==
  [t \in Tids |-> CASE t = 0 -> ORANGE [] t = 3 -> GREEN [] OTHER -> RED]

\* A GREEN lock holder, a RED thread that wants the lock, an ORANGE thread
\* that computes; the main thread wakes the others.
InversionPriorities ==
  [t \in Tids |-> CASE t = 2 -> RED [] t = 3 -> ORANGE [] OTHER -> GREEN]

Inversion ==
  [t \in Tids |-> CASE t = 0 -> {"resume"}
                    [] t = 1 -> {"lock", "unlock"}
                    [] t = 2 -> {"suspend", "lock", "unlock"}
                    [] OTHER -> {"suspend"}]
=============================================================================
