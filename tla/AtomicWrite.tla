---------------------------- MODULE AtomicWrite ----------------------------
(***************************************************************************)
(* fileutils.AtomicWriteFile: a file object that writes to a temporary     *)
(* file next to its target and renames it over the target when closed.     *)
(*                                                                         *)
(* Each writer is one AtomicWriteFile on the same target, all of them in   *)
(* one process, which may crash and be started again; what it wrote is a   *)
(* number of chunks, all marked with the writer.  The name of the          *)
(* temporary file depends on the target only.  Files are inodes, since an  *)
(* open file stays the same file when its name is renamed or unlinked.     *)
(***************************************************************************)
EXTENDS Naturals

CONSTANTS
  Writers,
  Inodes,
  NoFile,      \* a name that is for no file
  Chunks,      \* what a writer writes, in the order 1..Chunks
  TakeTurns,   \* writers of the same target do not overlap
  RetryFlush,  \* close() is called again also after it failed to empty the buffer
  MaxCrashes,  \* bound: crashes of the process
  MaxRetries   \* bound: calls of close() after one that raised

ASSUME ChunksAssumption == Chunks \in Nat \ {0}
ASSUME UsageAssumption == TakeTurns \in BOOLEAN /\ RetryFlush \in BOOLEAN
ASSUME BoundsAssumption == MaxCrashes \in Nat /\ MaxRetries \in Nat
ASSUME WritersAssumption == Writers \cap {"old", "nothing"} = {}
ASSUME NoFileAssumption == NoFile \notin Inodes

VARIABLES
  target,     \* the inode that the target's name is for, or NoFile
  temp,       \* the same for the name of the temporary file
  content,    \* per inode, who wrote each chunk of the file
  umask,      \* the umask of the process: "usual", or "narrow" as set by __init__
  pc,         \* per writer, where it is
  perms,      \* per writer, permissions were given
  saved,      \* per writer, old_umask
  file,       \* per writer, the inode that `raw` writes to
  flushed,    \* per writer, the chunks that have left its buffer
  finalized,  \* per writer, _is_finalized
  last,       \* history: the last writer whose close() has returned
  crashes,
  retries

files == <<target, temp, content>>
vars == <<target, temp, content, umask, pc, perms, saved, file, flushed, finalized, last,
          crashes, retries>>

Whole(c) == [k \in 1..Chunks |-> c]
Nothing == Whole("nothing")

\* Constructing, in use, or on its way out.
InInit == {"umask", "open", "restore", "restore_failed", "perms"}
Live == InInit \cup {"doomed", "writing", "closing", "rename", "raised", "discarding", "unlink"}
Places == Live \cup {"new", "closed", "discarded", "failed", "dead"}

Init ==
  /\ target \in Inodes \cup {NoFile}
  /\ temp = NoFile
  /\ content = [i \in Inodes |-> IF i = target THEN Whole("old") ELSE Nothing]
  /\ umask = "usual"
  /\ pc = [w \in Writers |-> "new"]
  /\ perms \in [Writers -> BOOLEAN]
  /\ saved = [w \in Writers |-> "usual"]
  /\ file = [w \in Writers |-> NoFile]
  /\ flushed = [w \in Writers |-> 0]
  /\ finalized = [w \in Writers |-> TRUE]
  /\ last = "old"
  /\ crashes = 0
  /\ retries = 0

---------------------------------------------------------------------------

Goto(w, place) == pc' = [pc EXCEPT ![w] = place]

\* AtomicWriteFile(fp, ...)
Begin(w) ==
  /\ pc[w] = "new"
  /\ TakeTurns => \A v \in Writers : pc[v] \notin Live
  /\ Goto(w, IF perms[w] THEN "umask" ELSE "open")
  /\ UNCHANGED <<files, umask, perms, saved, file, flushed, finalized, last, crashes, retries>>

\* old_umask = os.umask(0o0200)
SetUmask(w) ==
  /\ pc[w] = "umask"
  /\ saved' = [saved EXCEPT ![w] = umask]
  /\ umask' = "narrow"
  /\ Goto(w, "open")
  /\ UNCHANGED <<files, perms, file, flushed, finalized, last, crashes, retries>>

Unused(i) == i # target /\ i # temp /\ \A w \in Writers : pc[w] \in Live => file[w] # i

\* open(self._temp_fp, "w"): the file is made, or the one that is there emptied.
OpenTemp(w) ==
  /\ pc[w] = "open"
  /\ \E i \in Inodes :
       /\ IF temp # NoFile THEN i = temp ELSE Unused(i)
       /\ temp' = i
       /\ file' = [file EXCEPT ![w] = i]
       /\ content' = [content EXCEPT ![i] = Nothing]
  /\ Goto(w, "restore")
  /\ UNCHANGED <<target, umask, perms, saved, flushed, finalized, last, crashes, retries>>

OpenFails(w) ==
  /\ pc[w] = "open"
  /\ Goto(w, "restore_failed")
  /\ UNCHANGED <<files, umask, perms, saved, file, flushed, finalized, last, crashes, retries>>

\* Faulty variant: without `finally`.
RestoreOnSuccess(w) ==
  /\ pc[w] \in {"restore", "restore_failed"}
  /\ umask' = IF perms[w] /\ pc[w] = "restore" THEN saved[w] ELSE umask
  /\ finalized' = [finalized EXCEPT ![w] = pc[w] = "restore_failed"]
  /\ Goto(w, IF pc[w] = "restore" THEN "perms" ELSE "failed")
  /\ UNCHANGED <<files, perms, saved, file, flushed, last, crashes, retries>>

\* Faulty variant: `self._is_finalized = False` is left out.
RestoreFinalized(w) ==
  /\ pc[w] \in {"restore", "restore_failed"}
  /\ umask' = IF perms[w] THEN saved[w] ELSE umask
  /\ Goto(w, IF pc[w] = "restore" THEN "perms" ELSE "failed")
  /\ UNCHANGED <<files, perms, saved, file, flushed, finalized, last, crashes, retries>>

\* finally: os.umask(old_umask); then there is something to finalize, unless the
\* file could not be opened.
Restore(w) ==
  /\ pc[w] \in {"restore", "restore_failed"}
  /\ umask' = IF perms[w] THEN saved[w] ELSE umask
  /\ finalized' = [finalized EXCEPT ![w] = pc[w] = "restore_failed"]
  /\ Goto(w, IF pc[w] = "restore" THEN "perms" ELSE "failed")
  /\ UNCHANGED <<files, perms, saved, file, flushed, last, crashes, retries>>

\* os.chmod if permissions were given and os.chown if an owner was.  If one fails,
\* or the name is gone, __init__ raises and what there is of the object is deleted.
SetPerms(w) ==
  /\ pc[w] = "perms"
  /\ \/ (~perms[w] \/ temp # NoFile) /\ Goto(w, "writing")
     \/ Goto(w, "doomed")
  /\ UNCHANGED <<files, umask, perms, saved, file, flushed, finalized, last, crashes, retries>>

\* Faulty variant: one chunk too many.
FlushPastEnd(w) ==
  /\ pc[w] \in {"writing", "closing", "discarding"}
  /\ flushed[w] <= Chunks
  /\ flushed' = [flushed EXCEPT ![w] = @ + 1]
  /\ content' = [content EXCEPT ![file[w]][flushed[w] + 1] = w]
  /\ UNCHANGED <<target, temp, umask, pc, perms, saved, file, finalized, last, crashes, retries>>

\* The next chunk of `raw` leaves the buffer, at a write, a flush or a close.
Flush(w) ==
  /\ pc[w] \in {"writing", "closing", "discarding"}
  /\ flushed[w] < Chunks
  /\ flushed' = [flushed EXCEPT ![w] = @ + 1]
  /\ content' = [content EXCEPT ![file[w]][flushed[w] + 1] = w]
  /\ UNCHANGED <<target, temp, umask, pc, perms, saved, file, finalized, last, crashes, retries>>

\* close(), by the caller or by __exit__, after all has been written.
Close(w) ==
  /\ pc[w] = "writing" /\ ~finalized[w]
  /\ Goto(w, "closing")
  /\ UNCHANGED <<files, umask, perms, saved, file, flushed, finalized, last, crashes, retries>>

\* close() again after it has raised: `raw` is closed by then, whatever it had left.
CloseAgain(w) ==
  /\ pc[w] = "raised" /\ ~finalized[w]
  /\ RetryFlush \/ flushed[w] = Chunks
  /\ retries < MaxRetries
  /\ retries' = retries + 1
  /\ Goto(w, "rename")
  /\ UNCHANGED <<files, umask, perms, saved, file, flushed, finalized, last, crashes>>

\* Faulty variant: the rename does not wait for `raw` to be closed.
RealCloseLater(w) ==
  /\ pc[w] = "closing"
  /\ Goto(w, "rename")
  /\ UNCHANGED <<files, umask, perms, saved, file, flushed, finalized, last, crashes, retries>>

\* _real_close(): all of the buffer is in the file.
RealClose(w) ==
  /\ pc[w] = "closing" /\ flushed[w] = Chunks
  /\ Goto(w, "rename")
  /\ UNCHANGED <<files, umask, perms, saved, file, flushed, finalized, last, crashes, retries>>

\* _real_close() raises: what is left in the buffer is dropped with it.
RealCloseFails(w) ==
  /\ pc[w] \in {"closing", "discarding"} /\ flushed[w] < Chunks
  /\ Goto(w, "raised")
  /\ UNCHANGED <<files, umask, perms, saved, file, flushed, finalized, last, crashes, retries>>

\* os.rename(self._temp_fp, self._original_fp); self._is_finalized = True
Rename(w) ==
  /\ pc[w] = "rename"
  /\ IF temp # NoFile
       THEN /\ target' = temp /\ temp' = NoFile
            /\ finalized' = [finalized EXCEPT ![w] = TRUE]
            /\ last' = w
            /\ Goto(w, "closed")
       ELSE /\ Goto(w, "raised")
            /\ UNCHANGED <<target, temp, finalized, last>>
  /\ UNCHANGED <<content, umask, perms, saved, file, flushed, crashes, retries>>

RenameFails(w) ==
  /\ pc[w] = "rename"
  /\ Goto(w, "raised")
  /\ UNCHANGED <<files, umask, perms, saved, file, flushed, finalized, last, crashes, retries>>

\* discard(), by the caller, by __exit__ on an exception, or by __del__.
Discard(w) ==
  /\ pc[w] \in {"doomed", "writing", "raised"} /\ ~finalized[w]
  /\ Goto(w, IF pc[w] = "writing" THEN "discarding" ELSE "unlink")
  /\ UNCHANGED <<files, umask, perms, saved, file, flushed, finalized, last, crashes, retries>>

\* _real_close() in discard(): as much as was written is in the file.
DiscardClose(w) ==
  /\ pc[w] = "discarding"
  /\ Goto(w, "unlink")
  /\ UNCHANGED <<files, umask, perms, saved, file, flushed, finalized, last, crashes, retries>>

\* Faulty variant: the temporary file stays.
UnlinkForgotten(w) ==
  /\ pc[w] = "unlink"
  /\ finalized' = [finalized EXCEPT ![w] = TRUE]
  /\ Goto(w, "discarded")
  /\ UNCHANGED <<files, umask, perms, saved, file, flushed, last, crashes, retries>>

\* os.unlink(self._temp_fp), which raises if there is no such name any more.
Unlink(w) ==
  /\ pc[w] = "unlink"
  /\ temp' = NoFile
  /\ finalized' = [finalized EXCEPT ![w] = temp # NoFile]
  /\ Goto(w, "discarded")
  /\ UNCHANGED <<target, content, umask, perms, saved, file, flushed, last, crashes, retries>>

\* The process dies: buffers and umask are gone, the files as they are.  The other
\* writers are of the process that is started next.
Crash ==
  /\ crashes < MaxCrashes
  /\ crashes' = crashes + 1
  /\ pc' = [w \in Writers |-> IF pc[w] \in Live THEN "dead" ELSE pc[w]]
  /\ umask' = "usual"
  /\ UNCHANGED <<files, perms, saved, file, flushed, finalized, last, retries>>

InObject(w) ==
  \/ SetUmask(w) \/ OpenTemp(w) \/ OpenFails(w) \/ Restore(w) \/ SetPerms(w)
  \/ RealClose(w) \/ RealCloseFails(w) \/ Rename(w) \/ RenameFails(w)
  \/ DiscardClose(w) \/ Unlink(w)

Next ==
  \/ \E w \in Writers :
       \/ Begin(w) \/ InObject(w) \/ Flush(w) \/ Close(w) \/ CloseAgain(w) \/ Discard(w)
  \/ Crash

\* The object goes on with what it was called for, and its user ends with close()
\* or with discard(), which __exit__ and __del__ see to.
Fairness ==
  \A w \in Writers :
    /\ WF_vars(InObject(w) \/ (pc[w] = "closing" /\ Flush(w)))
    /\ WF_vars(Close(w) \/ Discard(w))

Spec == Init /\ [][Next]_vars
FairSpec == Spec /\ Fairness

---------------------------------------------------------------------------

TypeOK ==
  /\ target \in Inodes \cup {NoFile}
  /\ temp \in Inodes \cup {NoFile}
  /\ content \in [Inodes -> [1..Chunks -> Writers \cup {"old", "nothing"}]]
  /\ umask \in {"usual", "narrow"}
  /\ pc \in [Writers -> Places]
  /\ perms \in [Writers -> BOOLEAN]
  /\ saved \in [Writers -> {"usual", "narrow"}]
  /\ file \in [Writers -> Inodes \cup {NoFile}]
  /\ flushed \in [Writers -> 0..Chunks]
  /\ finalized \in [Writers -> BOOLEAN]
  /\ last \in Writers \cup {"old"}
  /\ crashes \in Nat /\ retries \in Nat

\* Whoever opens the target, at any moment and after any crash, finds all of what
\* the last successful close() published and nothing of anything else: neither
\* discarded nor failed writers leave a trace in it.
TargetIsLastClosed ==
  /\ target # NoFile => content[target] = Whole(last)
  /\ last # "old" => target # NoFile

\* A temporary file is there only for a writer that still is, or after a crash.
NoTempLeft ==
  temp # NoFile => crashes > 0 \/ \E w \in Writers : pc[w] \in Live /\ file[w] = temp

\* The umask of the process is as it was whenever no constructor is running.
UmaskRestored == (\A w \in Writers : pc[w] \notin InInit) => umask = "usual"

\* A writer that has come to exist is closed or discarded and its temporary file
\* renamed or removed, whichever of the steps to that fail.
TempGoes == temp # NoFile ~> temp = NoFile \/ crashes > 0
=============================================================================
