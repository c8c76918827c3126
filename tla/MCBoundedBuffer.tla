-------------------------- MODULE MCBoundedBuffer --------------------------
(* Instances of BoundedBuffer for TLC.                                     *)
EXTENDS BoundedBuffer

AllOrange == [t \in Tids |-> ORANGE]

BufferCalls ==
  [t \in Tids |-> IF t = MAIN_THREAD THEN {"join"}
                  ELSE {"lock", "unlock", "wait", "signal", "yield"}]
=============================================================================
