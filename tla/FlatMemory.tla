----------------------------- MODULE FlatMemory -----------------------------
(***************************************************************************)
(* What the virtual memory of project_3 promises to the program it runs:   *)
(* npages pages that behave as plain memory.  There is no frame, no disk,  *)
(* no page fault and no clock here; a read returns the value last written  *)
(* to its page, or what the page held when the program started.            *)
(***************************************************************************)
CONSTANTS MemPages, MemValues, NoAccess

VARIABLES mem,      \* the contents of each page
          access,   \* the load or store the program is executing, or NoAccess
          result    \* the value the last load returned

memVars == <<mem, access, result>>

Accesses == [op : {"read", "write"}, page : MemPages, val : MemValues]

MemInit ==
  /\ mem \in [MemPages -> MemValues]
  /\ access = NoAccess
  /\ result \in MemValues

Start(a) ==
  /\ access = NoAccess
  /\ access' = a
  /\ UNCHANGED <<mem, result>>

Read ==
  /\ access # NoAccess
  /\ access.op = "read"
  /\ result' = mem[access.page]
  /\ access' = NoAccess
  /\ UNCHANGED mem

Write ==
  /\ access # NoAccess
  /\ access.op = "write"
  /\ mem' = [mem EXCEPT ![access.page] = access.val]
  /\ access' = NoAccess
  /\ UNCHANGED result

MemNext == (\E a \in Accesses : Start(a)) \/ Read \/ Write

MemSpec == MemInit /\ [][MemNext]_memVars
=============================================================================
