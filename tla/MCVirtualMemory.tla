-------------------------- MODULE MCVirtualMemory --------------------------
(* Instances of VirtualMemory for TLC.                                     *)
EXTENDS VirtualMemory

CONSTANTS v0, v1

TwoValues == {v0, v1}
OneValue == {v0}
AllPolicies == {"rand", "fifo", "custom"}
=============================================================================
