----------------------------- MODULE MCUThread -----------------------------
(* Instances of UThread for TLC: which thread makes which calls.           *)
EXTENDS UThread

AllOrange == [t \in Tids |-> ORANGE]

\* The main thread creates and joins; workers run, suspend, reprioritise.
ParentAndWorkers ==
  [t \in Tids |->
     IF t = MAIN_THREAD
       THEN {"create", "join", "resume", "exit", "increase_priority"}
       ELSE {"yield", "exit", "suspend", "resume", "decrease_priority"}]

\* A worker's call names a thread that the main thread joins meanwhile.
LateCalls ==
  [t \in Tids |-> CASE t = 0 -> {"join"}
                    [] t = 1 -> {"suspend", "resume", "increase_priority",
                                 "decrease_priority"}
                    [] OTHER -> {"exit"}]
=============================================================================
