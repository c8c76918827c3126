------------------------ MODULE VirtualMemoryProofs ------------------------
(***************************************************************************)
(* The paging invariants of VirtualMemory and its refinement of FlatMemory, *)
(* proved for every number of pages and frames, every set of page contents *)
(* and every replacement policy.                                           *)
(***************************************************************************)
EXTENDS VirtualMemory, TLAPS

(* Before the first access nothing is resident, so the invariant holds.    *)
LEMMA PagingInit == Init => PagingInv
<1> SUFFICES ASSUME Init PROVE PagingInv
  OBVIOUS
<1> USE VMAssumption, NoAccessAssumption
<1>1. TypeOK
  BY DEF Init, TypeOK, Pages, Frames, NoFrame, Empty, PROT_NONE, PROT_READ,
         PROT_READ_WRITE
<1>2. FramesHandedOut /\ HolderIsMapped /\ ResidentIsHeld /\ HeldIsResident
      /\ ListIsCustom /\ BitsMatchDirty /\ CleanFrameMatchesDisk
      /\ UnusedFramesTrapped /\ NoAbort
  BY DEF Init, FramesHandedOut, HolderIsMapped, ResidentIsHeld, HeldIsResident,
         ListIsCustom, BitsMatchDirty, CleanFrameMatchesDisk,
         UnusedFramesTrapped, NoAbort, Frames, Empty, Holds
<1>3. LoadTimesPast /\ FifoOrder
  BY DEF Init, LoadTimesPast, FifoOrder, Frames, Empty
<1> QED
  BY <1>1, <1>2, <1>3 DEF PagingInv

(* What the handler knows when it takes a page for missing: it has no      *)
(* permissions and no frame holds it.                                      *)
LEMMA MissingPage ==
  ASSUME PagingInv, access \in Accesses, ~Permitted(access),
         ~is_page_in_memory(access.page)
  PROVE  /\ access.page \in Pages
         /\ page_bits[access.page] = PROT_NONE
         /\ access.page \notin pages_in_mem
         /\ \A f \in Frames : page_number[f] # access.page
<1>1. /\ access.page \in Pages
      /\ page_bits[access.page] = PROT_NONE
      /\ access.page \notin pages_in_mem
  BY DEF PagingInv, TypeOK, Accesses, Permitted, is_page_in_memory
<1>2. ASSUME NEW f \in Frames, page_number[f] = access.page PROVE FALSE
  <2>1. page_number[f] # Empty
    BY <1>1, <1>2 DEF Pages, Empty
  <2> QED
    BY <1>1, <1>2, <2>1 DEF PagingInv, HeldIsResident
<1> QED
  BY <1>1, <1>2

(* The frame a missing page is loaded into: the next free one, or a        *)
(* victim that holds another page.                                         *)
Loadable(page, frame) ==
  /\ page \in Pages
  /\ page_bits[page] = PROT_NONE
  /\ page \notin pages_in_mem
  /\ \A f \in Frames : page_number[f] # page
  /\ frame \in Frames
  /\ full => page_number[frame] # Empty
  /\ ~full => frame = disk_reads
  /\ full /\ page_fault_handler = "fifo"
       => frame_queue # << >> /\ frame = Head(frame_queue)

(* Load keeps every variable's type.                                       *)
LEMMA LoadType ==
  ASSUME PagingInv, NEW page, NEW frame, Loadable(page, frame),
         Load(page, frame)
  PROVE  TypeOK'
<1> USE DEF Loadable
<1>0. TypeOK
  BY DEF PagingInv
<1>1. disk' \in [Pages -> Values]
  BY <1>0 DEF TypeOK, Load, evicted_disk
<1>2. physmem' \in [Frames -> Values]
  BY <1>0, <1>1 DEF TypeOK, Load
<1>3. page_mapping' \in [Pages -> Frames \cup {NoFrame}]
  <2>1. 0 \in Frames
    BY VMAssumption DEF Frames
  <2> QED
    BY <1>0, <2>1 DEF TypeOK, Load, evicted_entry
<1>4. page_bits' \in [Pages -> {PROT_NONE, PROT_READ, PROT_READ_WRITE}]
  BY <1>0 DEF TypeOK, Load, evicted_entry
<1>5. /\ page_number' \in [Frames -> Pages \cup {Empty}]
      /\ ts' \in [Frames -> Nat]
      /\ used' \in [Frames -> BOOLEAN]
      /\ dirty' \in [Frames -> BOOLEAN]
      /\ num' \in Nat
      /\ disk_reads' \in Nat
  BY <1>0 DEF TypeOK, Load
<1>6. not_used' \in [Frames -> 0 .. MaxNotUsed] /\ pages_in_mem' \subseteq Pages
  BY <1>0, VMAssumption DEF TypeOK, Load, listed_pages
<1>7. frame_queue' \in Seq(Frames)
  BY <1>0 DEF TypeOK, Load, pushed_queue
<1> QED
  BY <1>0, <1>1, <1>2, <1>3, <1>4, <1>5, <1>6, <1>7 DEF TypeOK, Load, program

(* The page table and the core map after Load, entry by entry.             *)
Loaded(page, frame) ==
  /\ page \in Pages /\ frame \in Frames /\ page # Empty
  /\ page_number[frame] # page
  /\ page_number[frame] # Empty <=> full
  /\ page_number[frame] # Empty => page_number[frame] \in Pages
  /\ page_number'[frame] = page
  /\ \A f \in Frames \ {frame} :
       /\ page_number'[f] = page_number[f]
       /\ page_number[f] # page
       /\ page_number[f] # Empty => /\ page_number[f] \in Pages
                                    /\ page_number[f] # page_number[frame]
  /\ page_mapping'[page] = frame
  /\ page_bits'[page] = PROT_READ
  /\ \A p \in Pages \ {page} :
       /\ p # page_number[frame] => /\ page_mapping'[p] = page_mapping[p]
                                    /\ page_bits'[p] = page_bits[p]
       /\ p = page_number[frame] => page_bits'[p] = PROT_NONE

(* Load changes exactly the entries of the page, the frame and the victim. *)
LEMMA LoadEntries ==
  ASSUME PagingInv, NEW page, NEW frame, Loadable(page, frame),
         Load(page, frame)
  PROVE  Loaded(page, frame)
<1> USE DEF Loadable
<1>0. TypeOK
  BY DEF PagingInv
<1>1. page_number[frame] # page /\ page # Empty
  BY DEF Pages, Empty
<1>2. page_number[frame] # Empty <=> full
  BY <1>0, VMAssumption DEF PagingInv, FramesHandedOut, full, Frames, TypeOK
<1>3. page_number[frame] # Empty => page_number[frame] \in Pages
  BY <1>0 DEF TypeOK
<1>4. /\ page_number'[frame] = page
      /\ \A f \in Frames \ {frame} :
           page_number'[f] = page_number[f] /\ page_number[f] # page
  BY <1>0 DEF Load, TypeOK
<1>a. \A f \in Frames \ {frame} :
        page_number[f] # Empty => /\ page_number[f] \in Pages
                                  /\ page_number[f] # page_number[frame]
  BY <1>0 DEF PagingInv, HolderIsMapped, TypeOK
<1>5. page_mapping'[page] = frame /\ page_bits'[page] = PROT_READ
  BY <1>0 DEF Load, TypeOK, evicted_entry
<1>6. ASSUME NEW p \in Pages, p # page
      PROVE  /\ p # page_number[frame] => /\ page_mapping'[p] = page_mapping[p]
                                          /\ page_bits'[p] = page_bits[p]
             /\ p = page_number[frame] => page_bits'[p] = PROT_NONE
  <2>1. CASE full
    BY <1>0, <1>6, <2>1 DEF Load, TypeOK, evicted_entry
  <2>2. CASE ~full
    <3>1. p # page_number[frame]
      BY <1>2, <2>2 DEF Pages, Empty
    <3> QED
      BY <1>0, <1>6, <2>2, <3>1 DEF Load, TypeOK, evicted_entry
  <2> QED
    BY <2>1, <2>2
<1> QED
  BY <1>1, <1>2, <1>3, <1>4, <1>a, <1>5, <1>6 DEF Loaded

(* Load keeps the page table, the core map and the page list in agreement. *)
LEMMA LoadResidency ==
  ASSUME PagingInv, NEW page, NEW frame, Loadable(page, frame),
         Load(page, frame)
  PROVE  /\ FramesHandedOut' /\ HolderIsMapped' /\ ResidentIsHeld'
         /\ HeldIsResident' /\ ListIsCustom'
<1>0. TypeOK
  BY DEF PagingInv
<1>e. Loaded(page, frame)
  BY LoadEntries
<1> USE DEF Loaded, Holds
<1>1. FramesHandedOut'
  <2>1. disk_reads' = disk_reads + 1 /\ disk_reads \in Nat
    BY <1>0 DEF Load, TypeOK
  <2>2. ~full => frame = disk_reads
    BY DEF Loadable
  <2>3. \A f \in Frames : f \in Nat /\ f < nframes
    BY VMAssumption DEF Frames
  <2> QED
    BY <1>e, <2>1, <2>2, <2>3, VMAssumption DEF PagingInv, FramesHandedOut, full
<1>2. HolderIsMapped'
  BY <1>e DEF PagingInv, HolderIsMapped
<1>3. pages_in_mem' \subseteq (pages_in_mem \ {page_number[frame]}) \cup {page}
  BY DEF PagingInv, ListIsCustom, Load, listed_pages
<1>4. ResidentIsHeld'
  <2> SUFFICES ASSUME NEW p \in Pages,
                      p \in pages_in_mem' \/ page_bits'[p] # PROT_NONE
               PROVE  page_mapping'[p] \in Frames
                      /\ page_number'[page_mapping'[p]] = p
    BY DEF ResidentIsHeld
  <2>1. CASE p = page
    BY <1>e, <2>1
  <2>2. CASE p # page
    <3>1. p # page_number[frame]
      BY <1>e, <1>3, <2>2
    <3>2. page_mapping[p] \in Frames /\ page_number[page_mapping[p]] = p
      BY <1>e, <1>3, <2>2, <3>1 DEF PagingInv, ResidentIsHeld
    <3> QED
      BY <1>e, <2>2, <3>1, <3>2
  <2> QED
    BY <2>1, <2>2
<1>5. ListIsCustom'
  BY DEF PagingInv, ListIsCustom, Load
<1>6. HeldIsResident'
  <2>1. CASE page_fault_handler = "custom"
    <3>1. /\ pages_in_mem' = (pages_in_mem \ {page_number[frame]}) \cup {page}
          /\ page_fault_handler' = "custom"
      BY <2>1 DEF Load, listed_pages
    <3> QED
      BY <1>e, <2>1, <3>1 DEF PagingInv, HeldIsResident
  <2>2. CASE page_fault_handler # "custom"
    <3>1. page_fault_handler' = page_fault_handler
      BY DEF Load
    <3> QED
      BY <1>e, <2>2, <3>1
         DEF PagingInv, HeldIsResident, PROT_NONE, PROT_READ
  <2> QED
    BY <2>1, <2>2
<1> QED
  BY <1>1, <1>2, <1>4, <1>5, <1>6

(* Load keeps the dirty flags, the disk and the clock in agreement.        *)
LEMMA LoadContents ==
  ASSUME PagingInv, NEW page, NEW frame, Loadable(page, frame),
         Load(page, frame)
  PROVE  BitsMatchDirty' /\ CleanFrameMatchesDisk' /\ UnusedFramesTrapped'
<1>0. TypeOK
  BY DEF PagingInv
<1>e. Loaded(page, frame)
  BY LoadEntries
<1>1. /\ dirty'[frame] = FALSE /\ used'[frame] = TRUE
      /\ \A f \in Frames \ {frame} : dirty'[f] = dirty[f] /\ used'[f] = used[f]
  BY <1>0, <1>e DEF TypeOK, Load, Loaded
<1>2. BitsMatchDirty'
  BY <1>e, <1>1
     DEF PagingInv, BitsMatchDirty, Loaded, PROT_READ, PROT_READ_WRITE, PROT_NONE
<1>3. UnusedFramesTrapped'
  BY <1>e, <1>1 DEF PagingInv, UnusedFramesTrapped, Loaded
<1>4. \A p \in Pages : p # page_number[frame] => disk'[p] = disk[p]
  BY <1>0 DEF TypeOK, Load, evicted_disk
<1>5. /\ physmem'[frame] = disk'[page]
      /\ \A f \in Frames \ {frame} : physmem'[f] = physmem[f]
  BY <1>0, <1>e DEF TypeOK, Load, Loaded
<1>6. CleanFrameMatchesDisk'
  <2> SUFFICES ASSUME NEW f \in Frames, page_number'[f] # Empty, ~dirty'[f]
               PROVE  /\ physmem'[f] = disk'[page_number'[f]]
                      /\ page_bits'[page_number'[f]] # PROT_READ_WRITE
    BY DEF CleanFrameMatchesDisk
  <2>1. CASE f = frame
    BY <1>e, <1>5, <2>1 DEF Loaded, PROT_READ, PROT_READ_WRITE
  <2>2. CASE f # frame
    BY <1>e, <1>1, <1>4, <1>5, <2>2
       DEF PagingInv, CleanFrameMatchesDisk, Loaded
  <2> QED
    BY <2>1, <2>2
<1> QED
  BY <1>2, <1>3, <1>6

(* Load keeps the fifo queue complete and in order of load time.           *)
LEMMA LoadFifo ==
  ASSUME PagingInv, NEW page, NEW frame, Loadable(page, frame),
         Load(page, frame)
  PROVE  LoadTimesPast' /\ FifoOrder'
<1>0. TypeOK
  BY DEF PagingInv
<1>e. Loaded(page, frame)
  BY LoadEntries
<1>1. /\ ts'[frame] = num /\ num' = num + 1 /\ num \in Nat
      /\ \A f \in Frames : ts[f] \in Nat /\ ts[f] < num
      /\ \A f \in Frames \ {frame} : ts'[f] = ts[f]
  BY <1>0, <1>e DEF TypeOK, Load, Loaded, PagingInv, LoadTimesPast
<1>2. LoadTimesPast'
  <2> SUFFICES ASSUME NEW f \in Frames PROVE ts'[f] < num'
    BY DEF LoadTimesPast
  <2>1. CASE f = frame
    BY <1>1, <2>1
  <2>2. CASE f # frame
    BY <1>1, <2>2
  <2> QED
    BY <2>1, <2>2
<1>3. ASSUME page_fault_handler = "fifo" PROVE FifoOrder'
  <2> DEFINE q == frame_queue
             new == frame_queue'
             rest == IF full THEN Tail(q) ELSE q
  <2>1. q \in Seq(Frames) /\ frame \in Frames
    BY <1>0, <1>e DEF TypeOK, Loaded
  <2>2. /\ \A i, j \in 1 .. Len(q) : i < j => ts[q[i]] < ts[q[j]]
        /\ \A f \in Frames : page_number[f] # Empty
                               <=> \E i \in 1 .. Len(q) : q[i] = f
    BY <1>3 DEF PagingInv, FifoOrder
  <2>3. /\ rest \in Seq(Frames)
        /\ \A i \in 1 .. Len(rest) : rest[i] \in Frames \ {frame}
        /\ \A i, j \in 1 .. Len(rest) : i < j => ts[rest[i]] < ts[rest[j]]
        /\ \A f \in Frames \ {frame} :
             page_number[f] # Empty <=> \E i \in 1 .. Len(rest) : rest[i] = f
    <3>1. CASE full
      <4>1. q # << >> /\ frame = q[1]
        BY <1>3, <3>1, <2>1 DEF Loadable
      <4>2. /\ Len(rest) = Len(q) - 1 /\ Len(q) \in Nat \ {0}
            /\ \A i \in 1 .. Len(rest) : rest[i] = q[i + 1]
            /\ rest \in Seq(Frames)
        BY <2>1, <3>1, <4>1
      <4>3. \A i \in 2 .. Len(q) : q[i] \in Frames /\ q[i] # frame
        <5> SUFFICES ASSUME NEW i \in 2 .. Len(q)
                     PROVE  q[i] \in Frames /\ q[i] # q[1]
          BY <4>1
        <5>1. q[i] \in Frames /\ q[1] \in Frames
          BY <2>1, <4>2
        <5>2. ts[q[1]] < ts[q[i]] /\ ts[q[1]] \in Nat
          BY <1>1, <2>2, <4>2, <5>1
        <5> QED
          BY <5>1, <5>2
      <4>4. ASSUME NEW f \in Frames \ {frame}
            PROVE  page_number[f] # Empty <=> \E i \in 1 .. Len(rest) : rest[i] = f
        <5>1. (\E i \in 1 .. Len(q) : q[i] = f)
                => \E i \in 1 .. Len(rest) : rest[i] = f
          <6> SUFFICES ASSUME NEW i \in 1 .. Len(q), q[i] = f
                       PROVE  \E k \in 1 .. Len(rest) : rest[k] = f
            OBVIOUS
          <6>1. i # 1
            BY <4>1
          <6>2. i - 1 \in 1 .. Len(rest) /\ rest[i - 1] = q[i]
            BY <4>2, <6>1
          <6> QED
            BY <6>2
        <5>2. (\E i \in 1 .. Len(rest) : rest[i] = f)
                => \E i \in 1 .. Len(q) : q[i] = f
          <6> SUFFICES ASSUME NEW i \in 1 .. Len(rest), rest[i] = f
                       PROVE  \E k \in 1 .. Len(q) : q[k] = f
            OBVIOUS
          <6>1. i + 1 \in 1 .. Len(q) /\ q[i + 1] = f
            BY <4>2
          <6> QED
            BY <6>1
        <5> QED
          BY <2>2, <5>1, <5>2
      <4>5. \A i \in 1 .. Len(rest) : rest[i] \in Frames \ {frame}
        BY <4>2, <4>3
      <4>6. ASSUME NEW i \in 1 .. Len(rest), NEW j \in 1 .. Len(rest), i < j
            PROVE  ts[rest[i]] < ts[rest[j]]
        <5>1. /\ i + 1 \in 1 .. Len(q) /\ j + 1 \in 1 .. Len(q) /\ i + 1 < j + 1
              /\ rest[i] = q[i + 1] /\ rest[j] = q[j + 1]
          BY <4>2, <4>6
        <5> QED
          BY <2>2, <5>1
      <4> QED
        BY <4>2, <4>4, <4>5, <4>6
    <3>2. CASE ~full
      <4>1. rest = q
        BY <3>2
      <4>2. \A i \in 1 .. Len(q) : q[i] \in Frames /\ q[i] # frame
        BY <1>e, <2>1, <2>2, <3>2 DEF Loaded
      <4> QED
        BY <2>1, <2>2, <4>1, <4>2
    <3> QED
      BY <3>1, <3>2
  <2>4. new = Append(rest, frame) /\ page_fault_handler' = "fifo"
    BY <1>3 DEF Load, pushed_queue
  <2>5. /\ Len(new) = Len(rest) + 1 /\ Len(rest) \in Nat
        /\ new[Len(new)] = frame
        /\ \A i \in 1 .. Len(rest) : new[i] = rest[i]
    BY <2>1, <2>3, <2>4
  <2> HIDE DEF rest, new, q
  <2>6. ASSUME NEW i \in 1 .. Len(new), NEW j \in 1 .. Len(new), i < j
        PROVE  ts'[new[i]] < ts'[new[j]]
    <3>1. i \in 1 .. Len(rest) /\ new[i] = rest[i] /\ rest[i] \in Frames \ {frame}
      BY <2>3, <2>5, <2>6
    <3>2. ts'[new[i]] = ts[rest[i]] /\ ts[rest[i]] < num
      BY <1>1, <3>1
    <3>3. CASE j = Len(new)
      BY <1>1, <2>5, <3>2, <3>3
    <3>4. CASE j # Len(new)
      <4>1. j \in 1 .. Len(rest) /\ new[j] = rest[j] /\ rest[j] \in Frames \ {frame}
        BY <2>3, <2>5, <3>4
      <4> QED
        BY <1>1, <2>3, <2>6, <3>1, <3>2, <4>1
    <3> QED
      BY <3>3, <3>4
  <2>7. ASSUME NEW f \in Frames
        PROVE  page_number'[f] # Empty <=> \E i \in 1 .. Len(new) : new[i] = f
    <3>1. CASE f = frame
      <4>1. Len(new) \in 1 .. Len(new)
        BY <2>5
      <4> QED
        BY <1>e, <2>5, <3>1, <4>1 DEF Loaded
    <3>2. CASE f # frame
      <4>1. page_number'[f] = page_number[f]
        BY <1>e, <3>2 DEF Loaded
      <4>2. (\E i \in 1 .. Len(new) : new[i] = f)
              <=> \E i \in 1 .. Len(rest) : rest[i] = f
        BY <2>5, <3>2
      <4> QED
        BY <2>3, <3>2, <4>1, <4>2
    <3> QED
      BY <3>1, <3>2
  <2> QED
    BY <2>6, <2>7 DEF FifoOrder, new
<1>4. ASSUME page_fault_handler # "fifo" PROVE FifoOrder'
  BY <1>4 DEF FifoOrder, Load
<1> QED
  BY <1>2, <1>3, <1>4

(* The handler of a missing page finds a frame: no assert fails, and the   *)
(* page is loaded into a frame that Loadable describes.                    *)
LEMMA EvictionSucceeds ==
  ASSUME PagingInv, access \in Accesses, ~Permitted(access),
         NotResident(access.page)
  PROVE  \E frame \in Frames : Loadable(access.page, frame)
                               /\ Load(access.page, frame)
<1>0. TypeOK /\ FramesHandedOut /\ FifoOrder
  BY DEF PagingInv
<1>1. /\ access.page \in Pages
      /\ page_bits[access.page] = PROT_NONE
      /\ access.page \notin pages_in_mem
      /\ \A f \in Frames : page_number[f] # access.page
  BY MissingPage DEF NotResident
<1>2. disk_reads \in Nat /\ nframes \in Nat \ {0}
  BY <1>0, VMAssumption DEF TypeOK
<1>3. full => \A f \in Frames : page_number[f] # Empty
  BY <1>0, <1>2 DEF full, FramesHandedOut, Frames
<1>4. full /\ page_fault_handler = "fifo"
        => frame_queue # << >> /\ Head(frame_queue) \in Frames
  <2> SUFFICES ASSUME full, page_fault_handler = "fifo"
               PROVE  frame_queue # << >> /\ Head(frame_queue) \in Frames
    OBVIOUS
  <2>1. 0 \in Frames /\ page_number[0] # Empty
    BY <1>2, <1>3 DEF Frames
  <2>2. \E i \in 1 .. Len(frame_queue) : frame_queue[i] = 0
    BY <1>0, <2>1 DEF FifoOrder
  <2>3. frame_queue \in Seq(Frames)
    BY <1>0 DEF TypeOK
  <2> QED
    BY <2>2, <2>3
<1>5. ~full => disk_reads \in Frames
  BY <1>2 DEF full, Frames
<1>6. PICK frame \in IF full THEN get_frame_to_be_evicted ELSE {disk_reads} :
        IF full => EvictionAssert(frame) THEN Load(access.page, frame) ELSE Abort
  BY <1>4 DEF NotResident
<1>7. CASE full
  <2>1. page_fault_handler \in {"rand", "fifo", "custom"}
    BY <1>0, VMAssumption DEF TypeOK
  <2>2. frame \in Frames
        /\ (page_fault_handler = "fifo" => frame = Head(frame_queue))
    <3>1. CASE page_fault_handler = "rand"
      BY <1>6, <1>7, <3>1 DEF get_frame_to_be_evicted
    <3>2. CASE page_fault_handler = "fifo"
      BY <1>4, <1>6, <1>7, <3>2 DEF get_frame_to_be_evicted
    <3>3. CASE page_fault_handler = "custom"
      BY <1>6, <1>7, <3>3 DEF get_frame_to_be_evicted, get_fifo, filter_dirty,
                              not_recently_used
    <3> QED
      BY <2>1, <3>1, <3>2, <3>3
  <2>3. EvictionAssert(frame)
    BY <1>3, <1>7, <2>2 DEF EvictionAssert
  <2> QED
    BY <1>1, <1>3, <1>4, <1>6, <1>7, <2>2, <2>3 DEF Loadable
<1>8. CASE ~full
  <2>1. frame = disk_reads
    BY <1>6, <1>8
  <2>2. Load(access.page, frame)
    BY <1>6, <1>8
  <2> QED
    BY <1>1, <1>5, <1>8, <2>1, <2>2 DEF Loadable
<1> QED
  BY <1>7, <1>8

(* A fault on a resident page passes the assert and restores or upgrades   *)
(* its permissions.                                                        *)
LEMMA ResidentSucceeds ==
  ASSUME PagingInv, access \in Accesses, Resident(access.page)
  PROVE  /\ access.page \in Pages
         /\ page_mapping[access.page] \in Frames
         /\ page_number[page_mapping[access.page]] = access.page
         /\ set_perms(access.page, page_mapping[access.page])
<1>1. access.page \in Pages
  BY DEF Accesses
<1>2. access.page \in pages_in_mem \/ page_bits[access.page] # PROT_NONE
  BY DEF Resident, is_page_in_memory, PROT_READ, PROT_NONE
<1>3. /\ page_mapping[access.page] \in Frames
      /\ page_number[page_mapping[access.page]] = access.page
  BY <1>1, <1>2 DEF PagingInv, ResidentIsHeld, Holds
<1> QED
  BY <1>1, <1>3 DEF Resident

(* Restoring or upgrading permissions keeps the paging invariant.          *)
LEMMA SetPermsInv ==
  ASSUME PagingInv, NEW page \in Pages, NEW frame \in Frames,
         page_number[frame] = page, page_mapping[page] = frame,
         set_perms(page, frame)
  PROVE  PagingInv'
<1>0. TypeOK
  BY DEF PagingInv
<1>a. page # Empty
  BY DEF Pages, Empty
<1>1. /\ page_mapping' = page_mapping
      /\ \A p \in Pages \ {page} : page_bits'[p] = page_bits[p]
      /\ page_bits'[page] = IF page_bits[page] = PROT_NONE
                              THEN getPerms(frame) ELSE PROT_READ_WRITE
  BY <1>0 DEF set_perms, TypeOK, bits_to_set
<1>2. /\ used'[frame] = TRUE
      /\ \A f \in Frames \ {frame} : used'[f] = used[f] /\ dirty'[f] = dirty[f]
      /\ dirty'[frame] = IF page_bits[page] = PROT_NONE THEN dirty[frame] ELSE TRUE
  BY <1>0 DEF set_perms, TypeOK
<1>3. UNCHANGED <<page_number, ts, num, pages_in_mem, frame_queue, disk_reads,
                  physmem, disk, page_fault_handler, access, result, status>>
  BY DEF set_perms, memory, program
<1>4. TypeOK'
  <2>1. page_bits' \in [Pages -> {PROT_NONE, PROT_READ, PROT_READ_WRITE}]
    BY <1>0 DEF set_perms, TypeOK, bits_to_set, getPerms
  <2>2. used' \in [Frames -> BOOLEAN] /\ dirty' \in [Frames -> BOOLEAN]
    BY <1>0 DEF set_perms, TypeOK
  <2>3. not_used' \in [Frames -> 0 .. MaxNotUsed]
    <3>1. 0 \in 0 .. MaxNotUsed
      BY VMAssumption
    <3> QED
      BY <1>0, <3>1 DEF set_perms, TypeOK
  <2> QED
    BY <1>0, <1>1, <1>3, <2>1, <2>2, <2>3 DEF TypeOK
<1>5. page_bits'[page] # PROT_NONE
  BY <1>1 DEF getPerms, PROT_NONE, PROT_READ, PROT_READ_WRITE
<1>6. \A f \in Frames \ {frame} :
        page_number[f] # Empty => page_number[f] \in Pages \ {page}
  BY <1>0, <1>a DEF PagingInv, HolderIsMapped, TypeOK
<1>7. FramesHandedOut' /\ HolderIsMapped' /\ ListIsCustom' /\ LoadTimesPast'
      /\ FifoOrder' /\ NoAbort'
  BY <1>1, <1>3 DEF PagingInv, FramesHandedOut, HolderIsMapped, ListIsCustom,
                    LoadTimesPast, FifoOrder, NoAbort
<1>8. ResidentIsHeld'
  BY <1>1, <1>3 DEF PagingInv, ResidentIsHeld, Holds
<1>9. HeldIsResident'
  BY <1>1, <1>3, <1>5, <1>6 DEF PagingInv, HeldIsResident
<1>10. BitsMatchDirty'
  <2>1. /\ page_bits'[page] = PROT_READ => ~dirty'[frame]
        /\ page_bits'[page] = PROT_READ_WRITE => dirty'[frame]
    BY <1>0, <1>1, <1>2
       DEF TypeOK, getPerms, PROT_NONE, PROT_READ, PROT_READ_WRITE
  <2> QED
    BY <1>1, <1>2, <1>3, <1>6, <2>1 DEF PagingInv, BitsMatchDirty
<1>11. CleanFrameMatchesDisk'
  <2>1. ~dirty'[frame] => page_bits'[page] # PROT_READ_WRITE /\ ~dirty[frame]
    BY <1>0, <1>1, <1>2 DEF TypeOK, getPerms, PROT_READ, PROT_READ_WRITE
  <2> QED
    BY <1>1, <1>2, <1>3, <1>6, <2>1 DEF PagingInv, CleanFrameMatchesDisk
<1>12. UnusedFramesTrapped'
  BY <1>1, <1>2, <1>3, <1>6 DEF PagingInv, UnusedFramesTrapped
<1> QED
  BY <1>4, <1>7, <1>8, <1>9, <1>10, <1>11, <1>12 DEF PagingInv

(* A clock tick only takes permissions away and keeps every mapping.       *)
LEMMA TickInv ==
  ASSUME PagingInv, timer_handler
  PROVE  PagingInv'
<1>0. TypeOK
  BY DEF PagingInv
<1>1. UNCHANGED <<page_number, ts, dirty, num, pages_in_mem, frame_queue,
                  disk_reads, physmem, disk, page_fault_handler, access,
                  result, status>>
      /\ page_fault_handler = "custom"
  BY DEF timer_handler, memory, program
<1>2. page_mapping' = page_mapping
  <2>1. ASSUME NEW p \in Pages, Touched(p) # {}
        PROVE  LastOf(Touched(p)) = page_mapping[p]
    <3>1. PICK f \in Frames : f \in Touched(p)
      BY <2>1 DEF Touched
    <3>2. page_number[f] = p /\ p # Empty
      BY <3>1 DEF Touched, Pages, Empty
    <3>3. \A g \in Touched(p) : g = f
      BY <3>1, <3>2 DEF Touched, PagingInv, HolderIsMapped
    <3>4. \A g \in Touched(p) : g <= f
      BY <3>3 DEF Frames
    <3>5. LastOf(Touched(p)) \in Touched(p)
      BY <3>1, <3>4 DEF LastOf
    <3> QED
      BY <3>2, <3>3, <3>5 DEF PagingInv, HolderIsMapped
  <2> QED
    BY <1>0, <2>1 DEF timer_handler, TypeOK
<1>3. \A p \in Pages :
        page_bits'[p] = IF Touched(p) # {} THEN PROT_NONE ELSE page_bits[p]
  BY DEF timer_handler
<1>4. \A f \in Frames : used'[f] = (used[f] /\ page_number[f] = Empty)
  BY <1>0 DEF timer_handler, Ticked, TypeOK
<1>5. TypeOK'
  <2>1. page_bits' \in [Pages -> {PROT_NONE, PROT_READ, PROT_READ_WRITE}]
    BY <1>0 DEF timer_handler, TypeOK
  <2>2. used' \in [Frames -> BOOLEAN]
    <3>1. \A f \in Frames : (used[f] /\ ~Ticked(f)) \in BOOLEAN
      OBVIOUS
    <3> QED
      BY <3>1, Zenon DEF timer_handler
  <2>3. not_used' \in [Frames -> 0 .. MaxNotUsed]
    BY <1>0, VMAssumption DEF timer_handler, TypeOK
  <2> QED
    BY <1>0, <1>1, <1>2, <2>1, <2>2, <2>3 DEF TypeOK
<1>6. FramesHandedOut' /\ HolderIsMapped' /\ ListIsCustom' /\ LoadTimesPast'
      /\ FifoOrder' /\ NoAbort'
  BY <1>1, <1>2 DEF PagingInv, FramesHandedOut, HolderIsMapped, ListIsCustom,
                    LoadTimesPast, FifoOrder, NoAbort
<1>7. ResidentIsHeld'
  BY <1>1, <1>2, <1>3 DEF PagingInv, ResidentIsHeld, Holds
<1>8. HeldIsResident'
  BY <1>1 DEF PagingInv, HeldIsResident
<1>9. BitsMatchDirty' /\ CleanFrameMatchesDisk'
  <2>1. \A f \in Frames : page_number[f] # Empty => page_number[f] \in Pages
    BY <1>0 DEF TypeOK
  <2> QED
    BY <1>1, <1>3, <2>1 DEF PagingInv, BitsMatchDirty, CleanFrameMatchesDisk,
                          PROT_NONE, PROT_READ, PROT_READ_WRITE
<1>10. UnusedFramesTrapped'
  <2> SUFFICES ASSUME NEW f \in Frames, page_number[f] # Empty
               PROVE  page_bits'[page_number[f]] = PROT_NONE
    BY <1>1 DEF UnusedFramesTrapped
  <2>1. page_number[f] \in Pages
    BY <1>0 DEF TypeOK
  <2>2. CASE used[f]
    BY <1>3, <2>1, <2>2 DEF Touched
  <2>3. CASE ~used[f]
    BY <1>3, <2>1, <2>3 DEF PagingInv, UnusedFramesTrapped
  <2> QED
    BY <2>2, <2>3
<1> QED
  BY <1>5, <1>6, <1>7, <1>8, <1>9, <1>10 DEF PagingInv

(* A permitted load or store goes to the one frame that holds its page.    *)
LEMMA PermittedIsHeld ==
  ASSUME PagingInv, access \in Accesses, Permitted(access)
  PROVE  /\ access.page \in Pages
         /\ page_mapping[access.page] \in Frames
         /\ page_number[page_mapping[access.page]] = access.page
<1>1. access.page \in Pages
  BY DEF Accesses
<1>2. page_bits[access.page] # PROT_NONE
  BY DEF Permitted, PROT_NONE, PROT_READ, PROT_READ_WRITE
<1> QED
  BY <1>1, <1>2 DEF PagingInv, ResidentIsHeld, Holds

(* A permitted access keeps the paging invariant: only a store changes a   *)
(* frame, and its frame is dirty already.                                  *)
LEMMA PerformInv ==
  ASSUME PagingInv, Perform
  PROVE  PagingInv'
<1>0. TypeOK /\ access \in Accesses /\ Permitted(access)
  BY DEF PagingInv, Perform, TypeOK
<1> DEFINE frame == page_mapping[access.page]
<1>1. /\ access.page \in Pages /\ frame \in Frames
      /\ page_number[frame] = access.page /\ access.page # Empty
  BY <1>0, PermittedIsHeld DEF Pages, Empty
<1>2. UNCHANGED <<page_mapping, page_bits, page_number, ts, used, dirty, num,
                  not_used, pages_in_mem, frame_queue, disk_reads, disk,
                  page_fault_handler, status>>
  BY DEF Perform, table, coreMap, policy
<1>3. access.val \in Values /\ access.op \in {"read", "write"}
  BY <1>0 DEF Accesses
<1>4. TypeOK'
  <2>1. access' = NoAccess
    BY DEF Perform
  <2>2. physmem' \in [Frames -> Values] /\ result' \in Values
    <3>1. CASE access.op = "read"
      BY <1>0, <1>1, <3>1 DEF Perform, TypeOK
    <3>2. CASE access.op # "read"
      BY <1>0, <1>1, <1>3, <3>2 DEF Perform, TypeOK
    <3> QED
      BY <3>1, <3>2
  <2> QED
    BY <1>0, <1>2, <2>1, <2>2 DEF TypeOK
<1>5. CleanFrameMatchesDisk'
  <2>1. CASE access.op = "read"
    BY <1>2, <2>1 DEF Perform, PagingInv, CleanFrameMatchesDisk
  <2>2. CASE access.op # "read"
    <3>1. page_bits[access.page] = PROT_READ_WRITE
      BY <1>0, <2>2 DEF Permitted
    <3>2. dirty[frame]
      BY <1>1, <3>1 DEF PagingInv, BitsMatchDirty
    <3>3. \A f \in Frames : f # frame => physmem'[f] = physmem[f]
      BY <1>0, <2>2 DEF Perform, TypeOK
    <3> QED
      BY <1>2, <3>2, <3>3 DEF PagingInv, CleanFrameMatchesDisk
  <2> QED
    BY <2>1, <2>2
<1> QED
  BY <1>2, <1>4, <1>5
     DEF PagingInv, NoAbort, FramesHandedOut, HolderIsMapped, ResidentIsHeld,
         HeldIsResident, ListIsCustom, BitsMatchDirty, UnusedFramesTrapped,
         LoadTimesPast, FifoOrder, Holds

(* Every step of the program, the handlers and the clock keeps the paging  *)
(* invariant.                                                              *)
LEMMA PagingStep == PagingInv /\ [Next]_vars => PagingInv'
<1> SUFFICES ASSUME PagingInv, [Next]_vars PROVE PagingInv'
  OBVIOUS
<1> USE DEF table, coreMap, policy, memory, program
<1>0. TypeOK
  BY DEF PagingInv
<1>1. ASSUME UNCHANGED <<table, coreMap, policy, disk_reads, memory,
                         page_fault_handler, result>>,
             access' \in Accesses \cup {NoAccess},
             status' \in {"running", "exited"}
      PROVE  PagingInv'
  <2>1. TypeOK'
    BY <1>0, <1>1 DEF TypeOK
  <2> QED
    BY <1>1, <2>1
       DEF PagingInv, NoAbort, FramesHandedOut, HolderIsMapped, ResidentIsHeld,
           HeldIsResident, ListIsCustom, BitsMatchDirty, CleanFrameMatchesDisk,
           UnusedFramesTrapped, LoadTimesPast, FifoOrder, Holds
<1>2. ASSUME NEW a \in Accesses, Start(a) PROVE PagingInv'
  BY <1>1, <1>2 DEF Start
<1>3. CASE Perform
  BY <1>3, PerformInv
<1>4. CASE Fault
  <2>1. access \in Accesses /\ ~Permitted(access)
    BY <1>0, <1>4 DEF Fault, TypeOK
  <2>2. CASE Resident(access.page)
    BY <2>1, <2>2, ResidentSucceeds, SetPermsInv
  <2>3. CASE NotResident(access.page)
    <3>1. PICK frame \in Frames : Loadable(access.page, frame)
                                  /\ Load(access.page, frame)
      BY <2>1, <2>3, EvictionSucceeds
    <3>2. NoAbort'
      BY <3>1 DEF Load, PagingInv, NoAbort
    <3> QED
      BY <3>1, <3>2, LoadType, LoadResidency, LoadContents, LoadFifo
         DEF PagingInv
  <2> QED
    BY <1>4, <2>2, <2>3 DEF Fault
<1>5. CASE timer_handler
  BY <1>5, TickInv
<1>6. CASE Exit
  BY <1>0, <1>1, <1>6 DEF Exit, TypeOK
<1>7. CASE UNCHANGED vars
  BY <1>0, <1>1, <1>7 DEF vars, TypeOK, PagingInv, NoAbort
<1> QED
  BY <1>2, <1>3, <1>4, <1>5, <1>6, <1>7 DEF Next

(* The variables of the pager keep their types in every behaviour, for     *)
(* every number of pages and frames and every policy.                      *)
THEOREM TypeCorrect == Spec => []TypeOK
<1>1. Init => PagingInv
  BY PagingInit
<1>2. PagingInv /\ [Next]_vars => PagingInv'
  BY PagingStep
<1>3. PagingInv => TypeOK
  BY DEF PagingInv
<1> QED
  BY <1>1, <1>2, <1>3, PTL DEF Spec

(* No assert of the fault handlers fails, in any behaviour.                *)
THEOREM HandlersNeverAbort == Spec => []NoAbort
<1>1. Init => PagingInv
  BY PagingInit
<1>2. PagingInv /\ [Next]_vars => PagingInv'
  BY PagingStep
<1>3. PagingInv => NoAbort
  BY DEF PagingInv
<1> QED
  BY <1>1, <1>2, <1>3, PTL DEF Spec

(* No write is lost at an eviction: a frame that would be dropped without  *)
(* a write-back equals its disk block.                                     *)
THEOREM NoLostWrites == Spec => []CleanFrameMatchesDisk
<1>1. Init => PagingInv
  BY PagingInit
<1>2. PagingInv /\ [Next]_vars => PagingInv'
  BY PagingStep
<1>3. PagingInv => CleanFrameMatchesDisk
  BY DEF PagingInv
<1> QED
  BY <1>1, <1>2, <1>3, PTL DEF Spec

(* The page table, the core map and the page list never disagree about     *)
(* which frame holds which page.                                           *)
THEOREM ResidencyIsConsistent == Spec => []ResidencyAgrees
<1>1. Init => PagingInv
  BY PagingInit
<1>2. PagingInv /\ [Next]_vars => PagingInv'
  BY PagingStep
<1>3. PagingInv => ResidencyAgrees
  <2> SUFFICES ASSUME PagingInv, NEW p \in Pages
               PROVE  /\ \A f \in Frames :
                           Holds(f, p) => /\ page_mapping[p] = f
                                          /\ \A g \in Frames : Holds(g, p) => g = f
                      /\ (\E f \in Frames : Holds(f, p))
                           <=> (p \in pages_in_mem \/ page_bits[p] # PROT_NONE)
                      /\ page_fault_handler = "custom"
                           => (p \in pages_in_mem <=> \E f \in Frames : Holds(f, p))
    BY DEF ResidencyAgrees
  <2>1. p # Empty
    BY DEF Pages, Empty
  <2>2. \A f \in Frames : Holds(f, p) => page_mapping[p] = f
    BY <2>1 DEF PagingInv, HolderIsMapped, Holds
  <2>3. (p \in pages_in_mem \/ page_bits[p] # PROT_NONE)
          => \E f \in Frames : Holds(f, p)
    BY DEF PagingInv, ResidentIsHeld
  <2>4. ASSUME NEW f \in Frames, Holds(f, p)
        PROVE  IF page_fault_handler = "custom" THEN p \in pages_in_mem
               ELSE page_bits[p] # PROT_NONE
    BY <2>1, <2>4 DEF PagingInv, HeldIsResident, Holds
  <2> QED
    BY <2>2, <2>3, <2>4
<1> QED
  BY <1>1, <1>2, <1>3, PTL DEF Spec

(* The clock never overlooks a use: an unused frame is inaccessible.       *)
THEOREM ClockSeesEveryUse == Spec => []UnusedFramesTrapped
<1>1. Init => PagingInv
  BY PagingInit
<1>2. PagingInv /\ [Next]_vars => PagingInv'
  BY PagingStep
<1>3. PagingInv => UnusedFramesTrapped
  BY DEF PagingInv
<1> QED
  BY <1>1, <1>2, <1>3, PTL DEF Spec

(* The fifo policy evicts in load order: its queue is complete and sorted. *)
THEOREM FifoIsFifo == Spec => []FifoOrder
<1>1. Init => PagingInv
  BY PagingInit
<1>2. PagingInv /\ [Next]_vars => PagingInv'
  BY PagingStep
<1>3. PagingInv => FifoOrder
  BY DEF PagingInv
<1> QED
  BY <1>1, <1>2, <1>3, PTL DEF Spec
-----------------------------------------------------------------------------
(* Refinement: what the program observes is FlatMemory.                    *)

(* The contents of a held page are those of its one frame, of any other    *)
(* page those of its disk block.                                           *)
LEMMA ContentsOfPages ==
  PagingInv =>
    /\ \A f \in Frames : page_number[f] # Empty
         => Contents[page_number[f]] = physmem[f]
    /\ \A p \in Pages : (\A f \in Frames : page_number[f] # p)
         => Contents[p] = disk[p]
<1> SUFFICES ASSUME PagingInv
             PROVE  /\ \A f \in Frames : page_number[f] # Empty
                         => Contents[page_number[f]] = physmem[f]
                    /\ \A p \in Pages : (\A f \in Frames : page_number[f] # p)
                         => Contents[p] = disk[p]
  OBVIOUS
<1>1. ASSUME NEW f \in Frames, page_number[f] # Empty
      PROVE  Contents[page_number[f]] = physmem[f]
  <2>1. page_number[f] \in Pages
    BY <1>1 DEF PagingInv, TypeOK
  <2>2. \A g \in Frames : Holds(g, page_number[f]) <=> g = f
    BY <1>1 DEF PagingInv, HolderIsMapped, Holds
  <2>3. FrameOf(page_number[f]) = f
    BY <2>2 DEF FrameOf
  <2> QED
    BY <2>1, <2>2, <2>3 DEF Contents
<1>2. ASSUME NEW p \in Pages, \A f \in Frames : page_number[f] # p
      PROVE  Contents[p] = disk[p]
  BY <1>2 DEF Contents, Holds
<1> QED
  BY <1>1, <1>2

(* Loading a page moves contents between disk and frame and changes none.  *)
LEMMA LoadKeepsContents ==
  ASSUME PagingInv, PagingInv', NEW page, NEW frame, Loadable(page, frame),
         Load(page, frame)
  PROVE  Contents' = Contents
<1>0. TypeOK
  BY DEF PagingInv
<1>e. Loaded(page, frame)
  BY LoadEntries
<1>1. /\ \A f \in Frames : page_number[f] # Empty
           => Contents[page_number[f]] = physmem[f]
      /\ \A p \in Pages : (\A f \in Frames : page_number[f] # p)
           => Contents[p] = disk[p]
  BY ContentsOfPages
<1>2. /\ \A f \in Frames : page_number'[f] # Empty
           => Contents'[page_number'[f]] = physmem'[f]
      /\ \A p \in Pages : (\A f \in Frames : page_number'[f] # p)
           => Contents'[p] = disk'[p]
  <2>1. (PagingInv =>
          /\ \A f \in Frames : page_number[f] # Empty
               => Contents[page_number[f]] = physmem[f]
          /\ \A p \in Pages : (\A f \in Frames : page_number[f] # p)
               => Contents[p] = disk[p])'
    BY ContentsOfPages, PTL
  <2> QED
    BY <2>1
<1>3. /\ \A p \in Pages : p # page_number[frame] => disk'[p] = disk[p]
      /\ page_number[frame] # Empty
           => disk'[page_number[frame]] = physmem[frame]
  <2>1. \A p \in Pages : p # page_number[frame] => disk'[p] = disk[p]
    BY <1>0 DEF TypeOK, Load, evicted_disk
  <2>2. ASSUME page_number[frame] # Empty
        PROVE  disk'[page_number[frame]] = physmem[frame]
    <3>1. full /\ page_number[frame] \in Pages /\ frame \in Frames
      BY <1>e, <2>2 DEF Loaded
    <3>2. CASE dirty[frame]
      BY <1>0, <3>1, <3>2 DEF TypeOK, Load, evicted_disk
    <3>3. CASE ~dirty[frame]
      <4>1. disk' = disk
        BY <3>3 DEF Load, evicted_disk
      <4> QED
        BY <2>2, <3>1, <3>3, <4>1 DEF PagingInv, CleanFrameMatchesDisk
    <3> QED
      BY <3>2, <3>3
  <2> QED
    BY <2>1, <2>2
<1>4. /\ physmem'[frame] = disk'[page]
      /\ \A f \in Frames \ {frame} : physmem'[f] = physmem[f]
  BY <1>0, <1>e DEF TypeOK, Load, Loaded
<1>5. ASSUME NEW p \in Pages PROVE Contents'[p] = Contents[p]
  <2>0. p # Empty
    BY DEF Pages, Empty
  <2>1. CASE p = page
    <3>1. Contents'[p] = disk'[p]
      BY <1>e, <1>2, <1>4, <2>1 DEF Loaded
    <3>2. Contents[p] = disk[p]
      BY <1>1, <2>1 DEF Loadable
    <3> QED
      BY <1>3, <1>e, <2>1, <3>1, <3>2 DEF Loaded
  <2>2. CASE p # page /\ p = page_number[frame]
    <3>1. \A f \in Frames : page_number'[f] # p
      BY <1>e, <2>0, <2>2 DEF Loaded
    <3>2. Contents'[p] = disk'[p]
      BY <1>2, <3>1
    <3> QED
      BY <1>1, <1>3, <1>e, <2>0, <2>2, <3>2 DEF Loaded
  <2>3. CASE p # page /\ p # page_number[frame]
    <3>1. CASE \E f \in Frames : page_number[f] = p
      <4>1. PICK f \in Frames : page_number[f] = p
        BY <3>1
      <4>2. f # frame /\ page_number'[f] = p /\ physmem'[f] = physmem[f]
        BY <1>e, <1>4, <2>3, <4>1 DEF Loaded
      <4> QED
        BY <1>1, <1>2, <2>0, <4>1, <4>2
    <3>2. CASE \A f \in Frames : page_number[f] # p
      <4>1. \A f \in Frames : page_number'[f] # p
        BY <1>e, <2>3, <3>2 DEF Loaded
      <4> QED
        BY <1>1, <1>2, <1>3, <2>3, <3>2, <4>1
    <3> QED
      BY <3>1, <3>2
  <2> QED
    BY <2>1, <2>2, <2>3
<1> QED
  BY <1>5 DEF Contents

(* A permitted load reads, and a permitted store writes, the abstract page.*)
LEMMA PerformIsMemoryStep ==
  ASSUME PagingInv, PagingInv', Perform
  PROVE  Flat!Read \/ Flat!Write
<1>0. TypeOK /\ access \in Accesses /\ Permitted(access) /\ access # NoAccess
  BY DEF PagingInv, Perform, TypeOK
<1> DEFINE frame == page_mapping[access.page]
<1>1. /\ access.page \in Pages /\ frame \in Frames
      /\ page_number[frame] = access.page /\ access.page # Empty
  BY <1>0, PermittedIsHeld DEF Pages, Empty
<1>2. page_number' = page_number /\ disk' = disk /\ access' = NoAccess
  BY DEF Perform, coreMap
<1>3. access.op \in {"read", "write"}
  BY <1>0 DEF Accesses
<1>4. Contents[access.page] = physmem[frame]
  BY <1>1, ContentsOfPages
<1>5. CASE access.op = "read"
  <2>1. physmem' = physmem /\ result' = physmem[frame]
    BY <1>5 DEF Perform
  <2>2. Contents' = Contents
    BY <1>2, <2>1 DEF Contents, FrameOf, Holds
  <2> QED
    BY <1>0, <1>2, <1>4, <1>5, <2>1, <2>2 DEF Flat!Read
<1>6. CASE access.op = "write"
  <2>1. physmem' = [physmem EXCEPT ![frame] = access.val] /\ result' = result
    BY <1>6 DEF Perform
  <2>2. \A f \in Frames : page_number[f] = access.page <=> f = frame
    BY <1>1 DEF PagingInv, HolderIsMapped
  <2>3. ASSUME NEW p \in Pages
        PROVE  Contents'[p] = [Contents EXCEPT ![access.page] = access.val][p]
    <3>0. p \in DOMAIN Contents
      BY DEF Contents
    <3>1. CASE p = access.page
      <4>1. FrameOf(p)' = frame /\ \E f \in Frames : Holds(f, p)'
        BY <1>1, <1>2, <2>2, <3>1 DEF FrameOf, Holds
      <4>2. Contents'[p] = physmem'[FrameOf(p)']
        BY <4>1 DEF Contents
      <4>3. physmem'[frame] = access.val
        BY <1>0, <1>1, <2>1 DEF TypeOK
      <4> QED
        BY <3>0, <3>1, <4>1, <4>2, <4>3
    <3>2. CASE p # access.page
      <4>1. FrameOf(p)' = FrameOf(p)
            /\ ((\E f \in Frames : Holds(f, p)') <=> \E f \in Frames : Holds(f, p))
        BY <1>2 DEF FrameOf, Holds
      <4>2. (\E f \in Frames : Holds(f, p)) => Holds(FrameOf(p), p)
                                              /\ FrameOf(p) \in Frames
        BY DEF FrameOf
      <4>3. (\E f \in Frames : Holds(f, p)) => FrameOf(p) # frame
        BY <1>1, <3>2, <4>2 DEF Holds
      <4>4. (\E f \in Frames : Holds(f, p))
              => physmem'[FrameOf(p)] = physmem[FrameOf(p)]
        BY <1>0, <2>1, <4>2, <4>3 DEF TypeOK
      <4>5. Contents'[p] = Contents[p]
        BY <1>2, <4>1, <4>4 DEF Contents
      <4> QED
        BY <3>0, <3>2, <4>5
    <3> QED
      BY <3>1, <3>2
  <2>4. Contents' = [Contents EXCEPT ![access.page] = access.val]
    BY <2>3 DEF Contents
  <2> QED
    BY <1>0, <1>2, <1>6, <2>1, <2>4 DEF Flat!Write
<1> QED
  BY <1>3, <1>5, <1>6

(* The pager implements flat memory: under every policy and for every      *)
(* number of pages and frames, each load returns what was last stored.     *)
THEOREM PagingIsTransparent == Spec => ImplementsFlatMemory
<1>1. Init => Flat!MemInit
  <2> SUFFICES ASSUME Init PROVE Flat!MemInit
    OBVIOUS
  <2>1. \A p \in Pages : \A f \in Frames : page_number[f] # p
    BY DEF Init, Pages, Empty
  <2>2. Contents = [p \in Pages |-> disk[p]]
    BY <2>1 DEF Contents, Holds
  <2> QED
    BY <2>2, VMAssumption DEF Init, Flat!MemInit
<1>2. PagingInv /\ PagingInv' /\ [Next]_vars => [Flat!MemNext]_(Flat!memVars)
  <2> SUFFICES ASSUME PagingInv, PagingInv', [Next]_vars
               PROVE  Flat!MemNext \/ UNCHANGED <<Contents, access, result>>
    BY DEF Flat!memVars
  <2> USE DEF table, coreMap, policy, memory, program
  <2>0. UNCHANGED <<page_number, physmem, disk>> => Contents' = Contents
    BY DEF Contents, FrameOf, Holds
  <2>1. ASSUME NEW a \in Accesses, Start(a) PROVE Flat!MemNext
    BY <2>0, <2>1 DEF Start, Flat!MemNext, Flat!Start, Flat!Accesses, Accesses
  <2>2. CASE Perform
    BY <2>2, PerformIsMemoryStep DEF Flat!MemNext
  <2>3. CASE Fault
    <3>1. access \in Accesses /\ ~Permitted(access)
      BY <2>3 DEF Fault, PagingInv, TypeOK
    <3>2. CASE Resident(access.page)
      <4>1. set_perms(access.page, page_mapping[access.page])
        BY <3>1, <3>2, ResidentSucceeds
      <4> QED
        BY <2>0, <4>1 DEF set_perms
    <3>3. CASE NotResident(access.page)
      <4>1. PICK frame \in Frames : Loadable(access.page, frame)
                                    /\ Load(access.page, frame)
        BY <3>1, <3>3, EvictionSucceeds
      <4>2. Contents' = Contents
        BY <4>1, LoadKeepsContents
      <4> QED
        BY <4>1, <4>2 DEF Load
    <3> QED
      BY <2>3, <3>2, <3>3 DEF Fault
  <2>4. CASE timer_handler
    BY <2>0, <2>4 DEF timer_handler
  <2>5. CASE Exit
    BY <2>0, <2>5 DEF Exit
  <2>6. CASE UNCHANGED vars
    BY <2>0, <2>6 DEF vars
  <2> QED
    BY <2>1, <2>2, <2>3, <2>4, <2>5, <2>6 DEF Next
<1>3. Init => PagingInv
  BY PagingInit
<1>4. PagingInv /\ [Next]_vars => PagingInv'
  BY PagingStep
<1> QED
  BY <1>1, <1>2, <1>3, <1>4, PTL DEF Spec, ImplementsFlatMemory, Flat!MemSpec
=============================================================================
