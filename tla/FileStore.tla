----------------------------- MODULE FileStore -----------------------------
(***************************************************************************)
(* What project_4 promises: a map from inode numbers to the words of the   *)
(* files.  A file keeps its contents through everything but a write to it, *)
(* its deletion and a format.  When the process ends with the disk mounted *)
(* (or mounts the mounted disk again), a file may lose the words that were *)
(* added since its inode was last saved: a prefix of it remains.           *)
(***************************************************************************)
EXTENDS Integers, SequencesExt

CONSTANTS Names, Words, NoFile

VARIABLES files, mounted, running,
          mounts   \* flips at every mount

Splice(content, from, to, w) ==
  [k \in 1 .. IF to > Len(content) THEN to ELSE Len(content) |->
     IF from < k /\ k <= to THEN w ELSE content[k]]

CutShort(before, after) ==
  \A i \in Names :
    IF before[i] = NoFile THEN after[i] = NoFile
    ELSE after[i] # NoFile /\ IsPrefix(after[i], before[i])

StoreInit ==
  /\ files = [i \in Names |-> NoFile]
  /\ mounted = FALSE
  /\ running \in BOOLEAN
  /\ mounts = 0

Create(i) ==
  /\ files[i] = NoFile
  /\ files' = [files EXCEPT ![i] = << >>]
  /\ UNCHANGED <<mounted, running, mounts>>

Delete(i) ==
  /\ files[i] # NoFile
  /\ files' = [files EXCEPT ![i] = NoFile]
  /\ UNCHANGED <<mounted, running, mounts>>

Write(i) ==
  /\ files[i] # NoFile /\ files'[i] # NoFile
  /\ \E w \in Words, from \in 0 .. Len(files[i]) : \E to \in from .. Len(files'[i]) :
       files' = [files EXCEPT ![i] = Splice(@, from, to, w)]
  /\ UNCHANGED <<mounted, running, mounts>>

Format ==
  /\ ~mounted
  /\ files' = [i \in Names |-> NoFile]
  /\ UNCHANGED <<mounted, running, mounts>>

Mount ==
  /\ IF mounted THEN CutShort(files, files') ELSE UNCHANGED files
  /\ mounted' = TRUE
  /\ mounts' = 1 - mounts
  /\ UNCHANGED running

Unmount ==
  /\ mounted /\ mounted' = FALSE
  /\ UNCHANGED <<files, running, mounts>>

End ==
  /\ running /\ running' = FALSE
  /\ IF mounted THEN CutShort(files, files') ELSE UNCHANGED files
  /\ mounted' = FALSE
  /\ UNCHANGED mounts

\* The process dies of a fault of its own; nothing is said of what follows.
Die ==
  /\ running /\ running' = FALSE
  /\ UNCHANGED <<files, mounted, mounts>>

Run ==
  /\ ~running /\ running' = TRUE
  /\ UNCHANGED <<files, mounted, mounts>>

StoreNext ==
  \/ running /\ mounted /\ \E i \in Names : Create(i) \/ Delete(i) \/ Write(i)
  \/ running /\ (Format \/ Mount \/ Unmount)
  \/ End \/ Die \/ Run

StoreSpec == StoreInit /\ [][StoreNext]_<<files, mounted, running, mounts>>
=============================================================================
