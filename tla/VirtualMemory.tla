--------------------------- MODULE VirtualMemory ---------------------------
(***************************************************************************)
(* project_3: demand paging in a signal handler.  The page table keeps for *)
(* every page a frame and protection bits (page_table.cpp); the core map   *)
(* keeps for every frame its page, load time, use and dirty flags          *)
(* (coremap.cpp); the SIGSEGV handler loads, evicts and upgrades pages     *)
(* under one of three replacement policies and, for the custom policy, a   *)
(* SIGVTALRM clock handler takes the permissions of recently used pages    *)
(* away (main.cpp).  Both handlers run with the other signal blocked, so   *)
(* each of them is one action; the program's loads and stores interleave   *)
(* with them.  A page's contents are one abstract value.                   *)
(***************************************************************************)
EXTENDS Integers, Sequences

CONSTANTS npages, nframes,
          Values,      \* what a page can contain
          Zero,        \* the contents of a new page of the backing file
          Policies,    \* the replacement policies the command line may name
          NoAccess,    \* the program is between two memory accesses
          MaxReads,    \* bound: no access is started after so many disk reads
          MaxNotUsed   \* bound: not_used stops counting here

ASSUME VMAssumption ==
  /\ npages \in Nat \ {0}
  /\ nframes \in Nat \ {0}
  /\ Zero \in Values
  /\ Policies \subseteq {"rand", "fifo", "custom"}
  /\ MaxReads \in Nat
  /\ MaxNotUsed \in Nat \ {0}

Pages  == 0 .. npages - 1
Frames == 0 .. nframes - 1

Accesses == [op : {"read", "write"}, page : Pages, val : Values]

ASSUME NoAccessAssumption == NoAccess \notin Accesses

PROT_NONE == 0
PROT_READ == 1
PROT_READ_WRITE == 3

Empty == -1      \* page number of a frame that holds no page
NoFrame == -1    \* page_mapping entry never assigned

VARIABLES
  page_mapping, page_bits,             \* page table
  page_number, ts, used, dirty, num,   \* core map
  not_used, pages_in_mem,              \* custom policy
  frame_queue,                         \* fifo policy
  disk_reads,                          \* also the number of frames handed out
  physmem, disk,                       \* contents of frames and disk blocks
  page_fault_handler,                  \* policy chosen on the command line
  access, result,                      \* the program's current load or store
  status                               \* "running", "exited" or "aborted"

table   == <<page_mapping, page_bits>>
coreMap == <<page_number, ts, used, dirty, num>>
policy  == <<not_used, pages_in_mem, frame_queue>>
memory  == <<physmem, disk>>
program == <<access, result>>
vars    == <<table, coreMap, policy, disk_reads, memory, page_fault_handler,
             program, status>>

Init ==
  /\ page_mapping = [p \in Pages |-> NoFrame]
  /\ page_bits = [p \in Pages |-> PROT_NONE]
  /\ page_number = [f \in Frames |-> Empty]
  /\ ts = [f \in Frames |-> f]
  /\ used = [f \in Frames |-> TRUE]
  /\ dirty = [f \in Frames |-> FALSE]
  /\ num = nframes
  /\ not_used = [f \in Frames |-> 0]
  /\ pages_in_mem = {}
  /\ frame_queue = << >>
  /\ disk_reads = 0
  /\ physmem = [f \in Frames |-> Zero]
  /\ disk \in [Pages -> Values]
  /\ page_fault_handler \in Policies
  /\ access = NoAccess
  /\ result = Zero
  /\ status = "running"
-----------------------------------------------------------------------------
(* The program: any sequence of loads and stores.  The hardware performs   *)
(* an access whose page has the permission and raises SIGSEGV for one      *)
(* whose page has not; a faulting access is retried after the handler.     *)

Start(a) ==
  /\ status = "running"
  /\ access = NoAccess
  /\ disk_reads < MaxReads
  /\ access' = a
  /\ UNCHANGED <<table, coreMap, policy, disk_reads, memory,
                 page_fault_handler, result, status>>

Permitted(a) == \/ page_bits[a.page] = PROT_READ_WRITE
                \/ page_bits[a.page] = PROT_READ /\ a.op = "read"

Perform ==
  /\ status = "running"
  /\ access # NoAccess
  /\ Permitted(access)
  /\ LET frame == page_mapping[access.page] IN
       IF access.op = "read"
         THEN result' = physmem[frame] /\ UNCHANGED physmem
         ELSE physmem' = [physmem EXCEPT ![frame] = access.val]
              /\ UNCHANGED result
  /\ access' = NoAccess
  /\ UNCHANGED <<table, coreMap, policy, disk_reads, disk,
                 page_fault_handler, status>>

\* The program returns to main, which stops the timer and deletes the table.
Exit ==
  /\ status = "running"
  /\ access = NoAccess
  /\ status' = "exited"
  /\ UNCHANGED <<table, coreMap, policy, disk_reads, memory,
                 page_fault_handler, program>>
-----------------------------------------------------------------------------
(* Core map entries and the replacement policies.                          *)

\* Mutant: a clean page comes back from the clock writable.
getPermsAlwaysWritable(frame) == PROT_READ_WRITE
getPerms(frame) == IF dirty[frame] THEN PROT_READ_WRITE ELSE PROT_READ

isTooOld(frame) == num - ts[frame] >= 4 * nframes

not_recently_used(k) ==
  LET idle == {f \in Frames : not_used[f] >= k} IN
    IF idle = {} THEN Frames ELSE idle

filter_dirty(frames) ==
  LET candidates == {f \in frames : ~dirty[f] \/ isTooOld(f)} IN
    IF candidates = {} THEN frames ELSE candidates

get_fifo(frames) == {f \in frames : \A g \in frames : ts[f] <= ts[g]}

\* The frames the policy may name: any for rand(), the front of the queue,
\* the oldest candidate.
get_frame_to_be_evicted ==
  CASE page_fault_handler = "rand" -> Frames
    [] page_fault_handler = "fifo" -> {Head(frame_queue)}
    [] page_fault_handler = "custom" ->
         get_fifo(filter_dirty(not_recently_used(1)))
-----------------------------------------------------------------------------
(* The SIGSEGV handler.                                                    *)

is_page_in_memory(page) ==
  page \in pages_in_mem \/ page_bits[page] = PROT_READ

Abort ==
  /\ status' = "aborted"
  /\ UNCHANGED <<table, coreMap, policy, disk_reads, memory,
                 page_fault_handler, program>>

\* Mutant: a store to a clean page leaves its permissions as they were.
bits_to_setKept(page, frame) ==
  IF page_bits[page] = PROT_NONE THEN getPerms(frame) ELSE page_bits[page]
bits_to_set(page, frame) ==
  IF page_bits[page] = PROT_NONE THEN getPerms(frame) ELSE PROT_READ_WRITE

\* The page is resident: the clock took its permissions away, or this is
\* the first store to a clean page.
set_perms(page, frame) ==
  /\ used' = [used EXCEPT ![frame] = TRUE]
  /\ IF page_bits[page] = PROT_NONE
       THEN not_used' = [not_used EXCEPT ![frame] = 0] /\ UNCHANGED dirty
       ELSE dirty' = [dirty EXCEPT ![frame] = TRUE] /\ UNCHANGED not_used
  /\ page_bits' = [page_bits EXCEPT ![page] = bits_to_set(page, frame)]
  /\ page_mapping' = [page_mapping EXCEPT ![page] = frame]
  /\ UNCHANGED <<page_number, ts, num, pages_in_mem, frame_queue, disk_reads,
                 memory, page_fault_handler, program, status>>

Resident(page) ==
  /\ is_page_in_memory(page)
  /\ LET frame == page_mapping[page] IN
       IF frame \in Frames /\ page_number[frame] = page
         THEN set_perms(page, frame)
         ELSE Abort

full == disk_reads >= nframes

\* evict_frame_from_memory writes a dirty victim back and unmaps its page.
\* Mutant: the victim is dropped without being written back.
evicted_diskDropped(frame) == disk
evicted_disk(frame) ==
  IF full /\ dirty[frame]
    THEN [disk EXCEPT ![page_number[frame]] = physmem[frame]] ELSE disk

\* Mutant: the victim's page keeps its page table entry.
evicted_entryKept(entries, frame, value) == entries
evicted_entry(entries, frame, value) ==
  IF full THEN [entries EXCEPT ![page_number[frame]] = value] ELSE entries

\* Mutant: the fifo policy peeks at the queue without popping it.
pushed_queueNoPop(frame) == Append(frame_queue, frame)
\* Mutant: the number of loads is queued, not the frame.
pushed_queueCount(frame) ==
  Append(IF full THEN Tail(frame_queue) ELSE frame_queue, disk_reads)
pushed_queue(frame) ==
  Append(IF full THEN Tail(frame_queue) ELSE frame_queue, frame)

\* Mutant: the victim's page stays listed as resident.
listed_pagesKept(page, frame) == pages_in_mem \cup {page}
listed_pages(page, frame) ==
  (pages_in_mem \ {page_number[frame]}) \cup {page}

\* read_from_disk_and_set_pt_entry, then assignNewPage and the policy's books.
Load(page, frame) ==
  /\ disk' = evicted_disk(frame)
  /\ physmem' = [physmem EXCEPT ![frame] = disk'[page]]
  /\ page_mapping' = [evicted_entry(page_mapping, frame, 0)
                        EXCEPT ![page] = frame]
  /\ page_bits' = [evicted_entry(page_bits, frame, PROT_NONE)
                        EXCEPT ![page] = PROT_READ]
  /\ disk_reads' = disk_reads + 1
  /\ page_number' = [page_number EXCEPT ![frame] = page]
  /\ ts' = [ts EXCEPT ![frame] = num]
  /\ num' = num + 1
  /\ dirty' = [dirty EXCEPT ![frame] = FALSE]
  /\ used' = [used EXCEPT ![frame] = TRUE]
  /\ frame_queue' =
       IF page_fault_handler = "fifo" THEN pushed_queue(frame) ELSE frame_queue
  /\ IF page_fault_handler = "custom"
       THEN /\ pages_in_mem' = listed_pages(page, frame)
            /\ not_used' = [not_used EXCEPT ![frame] = 0]
       ELSE UNCHANGED <<pages_in_mem, not_used>>
  /\ UNCHANGED <<page_fault_handler, program, status>>

\* The asserts of get_frame_to_be_evicted_fifo_policy and
\* evict_frame_from_memory.
EvictionAssert(frame) ==
  frame \in Frames /\ page_number[frame] # Empty

NotResident(page) ==
  /\ ~is_page_in_memory(page)
  /\ IF full /\ page_fault_handler = "fifo" /\ frame_queue = << >>
       THEN Abort
       ELSE \E frame \in IF full THEN get_frame_to_be_evicted ELSE {disk_reads} :
              IF full => EvictionAssert(frame) THEN Load(page, frame) ELSE Abort

Fault ==
  /\ status = "running"
  /\ access # NoAccess
  /\ ~Permitted(access)
  /\ Resident(access.page) \/ NotResident(access.page)
-----------------------------------------------------------------------------
(* The SIGVTALRM handler, installed for the custom policy only.            *)

\* Mutant: the clock resets only the frames that are still clean.
TouchedClean(page) ==
  {f \in Frames : page_number[f] = page /\ used[f] /\ ~dirty[f]}
Touched(page) == {f \in Frames : page_number[f] = page /\ used[f]}

Ticked(f) == page_number[f] # Empty

LastOf(frames) == CHOOSE f \in frames : \A g \in frames : g <= f

timer_handler ==
  /\ status = "running"
  /\ page_fault_handler = "custom"
  /\ not_used' = [f \in Frames |->
                    IF ~Ticked(f) THEN not_used[f]
                    ELSE IF used[f] THEN 0
                    ELSE IF not_used[f] < MaxNotUsed THEN not_used[f] + 1
                    ELSE not_used[f]]
  /\ used' = [f \in Frames |-> used[f] /\ ~Ticked(f)]
  /\ page_bits' = [p \in Pages |->
                     IF Touched(p) # {} THEN PROT_NONE ELSE page_bits[p]]
  /\ page_mapping' = [p \in Pages |->
                        IF Touched(p) # {} THEN LastOf(Touched(p))
                        ELSE page_mapping[p]]
  /\ UNCHANGED <<page_number, ts, dirty, num, pages_in_mem, frame_queue,
                 disk_reads, memory, page_fault_handler, program, status>>
-----------------------------------------------------------------------------
Next == \/ \E a \in Accesses : Start(a)
        \/ Perform
        \/ Fault
        \/ timer_handler
        \/ Exit

Spec == Init /\ [][Next]_vars

(* The kernel restarts a faulting access and delivers its signal, so an    *)
(* access is never abandoned.  The clock may take the permissions away     *)
(* again between the handler and the retried access, but a tick needs at   *)
(* least a timer period of processor time: it does not come between them   *)
(* for ever (strong fairness).                                             *)
Upgrade == Fault /\ page_bits[access.page] = PROT_READ

Fairness == WF_vars(Fault) /\ SF_vars(Upgrade) /\ SF_vars(Perform)

FairSpec == Spec /\ Fairness
-----------------------------------------------------------------------------
(* Every variable keeps its type, before and after any signal handler.     *)
TypeOK ==
  /\ page_mapping \in [Pages -> Frames \cup {NoFrame}]
  /\ page_bits \in [Pages -> {PROT_NONE, PROT_READ, PROT_READ_WRITE}]
  /\ page_number \in [Frames -> Pages \cup {Empty}]
  /\ ts \in [Frames -> Nat]
  /\ used \in [Frames -> BOOLEAN]
  /\ dirty \in [Frames -> BOOLEAN]
  /\ num \in Nat
  /\ not_used \in [Frames -> 0 .. MaxNotUsed]
  /\ pages_in_mem \subseteq Pages
  /\ frame_queue \in Seq(Frames)
  /\ disk_reads \in Nat
  /\ physmem \in [Frames -> Values]
  /\ disk \in [Pages -> Values]
  /\ page_fault_handler \in Policies
  /\ access \in Accesses \cup {NoAccess}
  /\ result \in Values
  /\ status \in {"running", "exited", "aborted"}

(* No assert of the handlers fails: a resident page's frame is its own     *)
(* (main.cpp 113, 136, 161), a victim frame holds a page (469) and the     *)
(* fifo queue has a victim when memory is full (501).                      *)
NoAbort == status # "aborted"

Holds(frame, page) == page_number[frame] = page

(* The page table, the core map and pages_in_mem describe the same         *)
(* residency: a page the handler treats as resident is held by the one     *)
(* frame it is mapped to, and a held page is one the handler finds.        *)
ResidencyAgrees ==
  \A p \in Pages :
    /\ \A f \in Frames :
         Holds(f, p) => /\ page_mapping[p] = f
                        /\ \A g \in Frames : Holds(g, p) => g = f
    /\ (\E f \in Frames : Holds(f, p))
         <=> (p \in pages_in_mem \/ page_bits[p] # PROT_NONE)
    /\ page_fault_handler = "custom"
         => (p \in pages_in_mem <=> \E f \in Frames : Holds(f, p))

(* A write is never lost at an eviction: a frame the core map calls clean  *)
(* still equals its disk block, because the first store to it is trapped.  *)
CleanFrameMatchesDisk ==
  \A f \in Frames :
    page_number[f] # Empty /\ ~dirty[f]
      => /\ physmem[f] = disk[page_number[f]]
         /\ page_bits[page_number[f]] # PROT_READ_WRITE

(* The clock sees every use: a frame it believes unused since the last     *)
(* tick is inaccessible, so the next access to it faults and marks it.     *)
UnusedFramesTrapped ==
  \A f \in Frames :
    page_number[f] # Empty /\ ~used[f]
      => page_bits[page_number[f]] = PROT_NONE

(* The fifo queue lists exactly the frames in use, each once, from the     *)
(* page loaded first to the page loaded last.                              *)
FifoOrder ==
  page_fault_handler = "fifo" =>
    /\ \A i, j \in 1 .. Len(frame_queue) :
         i < j => ts[frame_queue[i]] < ts[frame_queue[j]]
    /\ \A f \in Frames :
         page_number[f] # Empty
           <=> \E i \in 1 .. Len(frame_queue) : frame_queue[i] = f

(* Why the properties above are kept: the parts of the inductive invariant *)
(* of the proofs.  Frames are handed out in order and never given back;    *)
(* the page table maps a held page to its holder and a resident page is    *)
(* held; the handler can tell that a held page is resident; protection     *)
(* bits and the dirty flag agree; load times are below the clock.          *)
FramesHandedOut ==
  \A f \in Frames : page_number[f] # Empty <=> f < disk_reads

HolderIsMapped ==
  \A f \in Frames : page_number[f] # Empty => page_mapping[page_number[f]] = f

ResidentIsHeld ==
  \A p \in Pages :
    p \in pages_in_mem \/ page_bits[p] # PROT_NONE
      => page_mapping[p] \in Frames /\ Holds(page_mapping[p], p)

HeldIsResident ==
  \A f \in Frames :
    page_number[f] # Empty
      => IF page_fault_handler = "custom"
           THEN page_number[f] \in pages_in_mem
           ELSE page_bits[page_number[f]] # PROT_NONE

ListIsCustom == page_fault_handler # "custom" => pages_in_mem = {}

BitsMatchDirty ==
  \A f \in Frames :
    page_number[f] # Empty
      => /\ page_bits[page_number[f]] = PROT_READ => ~dirty[f]
         /\ page_bits[page_number[f]] = PROT_READ_WRITE => dirty[f]

LoadTimesPast == \A f \in Frames : ts[f] < num

PagingInv ==
  /\ TypeOK
  /\ NoAbort
  /\ FramesHandedOut
  /\ HolderIsMapped
  /\ ResidentIsHeld
  /\ HeldIsResident
  /\ ListIsCustom
  /\ BitsMatchDirty
  /\ CleanFrameMatchesDisk
  /\ UnusedFramesTrapped
  /\ LoadTimesPast
  /\ FifoOrder

(* The contents a page has for the program: its frame's while a frame      *)
(* holds it, its disk block's otherwise.                                   *)
FrameOf(page) == CHOOSE f \in Frames : Holds(f, page)

Contents == [p \in Pages |->
               IF \E f \in Frames : Holds(f, p)
                 THEN physmem[FrameOf(p)] ELSE disk[p]]

Flat == INSTANCE FlatMemory
          WITH MemPages <- Pages, MemValues <- Values, mem <- Contents

(* Paging is transparent: faults, evictions, write-backs and clock ticks   *)
(* change nothing the program can observe; a load returns the last value   *)
(* stored to its page under every replacement policy.                      *)
ImplementsFlatMemory == Flat!MemSpec

(* Every load or store is eventually performed: the handlers do not leave  *)
(* it faulting for ever.                                                   *)
AccessCompletes == (access # NoAccess) ~> (access = NoAccess)
=============================================================================
