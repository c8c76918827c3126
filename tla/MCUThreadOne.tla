---------------------------- MODULE MCUThreadOne ----------------------------
(* Instances of UThreadOne for TLC.                                        *)
EXTENDS UThreadOne

\* The calls of the main thread and of the first worker; the others make none.
MCCallsOf(main, worker) ==
  [t \in Tids |-> IF t = MAIN_THREAD THEN main
                  ELSE IF t = 1 THEN worker ELSE {}]

AllCalls == {"create", "join", "suspend", "resume"}

\* Two threads that manage the others.
MCTwoManagers == MCCallsOf(AllCalls, AllCalls)
\* Two threads that join.
MCTwoJoiners == MCCallsOf({"create", "join"}, {"join"})
=============================================================================
