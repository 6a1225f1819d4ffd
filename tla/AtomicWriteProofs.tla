------------------------- MODULE AtomicWriteProofs -------------------------
(***************************************************************************)
(* What AtomicWriteFile promises for any number of writers, chunks, crashes *)
(* and retries, as long as writers of one target take turns and nobody     *)
(* calls close() again after it failed to write the file out.              *)
(***************************************************************************)
EXTENDS AtomicWrite, TLAPS

\* Where a writer has its temporary file.
HasTemp == Live \ {"umask", "open", "restore_failed"}

Alone == \A v, w \in Writers : v # w /\ pc[v] \in Live => pc[w] \notin Live

\* What is known of one writer.
WriterOK(w) ==
  /\ pc[w] \in HasTemp => file[w] = temp /\ temp # NoFile
  /\ pc[w] \in HasTemp => \A k \in 1..flushed[w] : content[file[w]][k] = w
  /\ pc[w] \in {"new", "umask", "open"} => flushed[w] = 0
  /\ pc[w] \in {"new", "umask", "open", "restore_failed"} => file[w] = NoFile
  /\ pc[w] = "rename" => flushed[w] = Chunks
  /\ pc[w] = "umask" => perms[w]

\* Nobody but the constructor at work has changed the umask.
Narrowing(w) == perms[w] /\ pc[w] \in {"open", "restore", "restore_failed"}
UmaskOK ==
  /\ \A w \in Writers : Narrowing(w) => saved[w] = "usual"
  /\ umask # "usual" => \E w \in Writers : Narrowing(w)

IInv ==
  /\ TypeOK
  /\ Alone
  /\ \A w \in Writers : WriterOK(w)
  /\ temp # NoFile => temp # target
  /\ TargetIsLastClosed
  /\ NoTempLeft
  /\ UmaskOK

Usage == TakeTurns /\ ~RetryFlush

---------------------------------------------------------------------------

\* Only one writer is at work: the others are not disturbed by what it does.
LEMMA Local ==
  ASSUME IInv, NEW w \in Writers, pc[w] \in Live, WriterOK(w)',
         UNCHANGED perms,
         \A v \in Writers : v # w =>
           pc'[v] = pc[v] /\ flushed'[v] = flushed[v] /\ file'[v] = file[v]
  PROVE  Alone' /\ \A v \in Writers : WriterOK(v)'
<1>1. \A v \in Writers : v # w => pc[v] \notin Live
  BY DEF IInv, Alone
<1>2. Alone'
  BY <1>1 DEF Alone
<1>3. ASSUME NEW v \in Writers, v # w PROVE WriterOK(v)'
  <2>1. /\ pc'[v] = pc[v] /\ flushed'[v] = flushed[v] /\ pc[v] \notin Live
        /\ file'[v] = file[v]
    BY <1>1, <1>3
  <2>2. pc[v] \notin HasTemp /\ pc[v] # "rename"
    BY <2>1 DEF HasTemp, Live
  <2>3. QED
    BY <2>1, <2>2 DEF IInv, WriterOK
<1>4. QED
  BY <1>2, <1>3

\* The parts of IInv, put together again.
LEMMA Parts ==
  ASSUME TypeOK', Alone', \A w \in Writers : WriterOK(w)',
         (temp # NoFile => temp # target)', TargetIsLastClosed', NoTempLeft', UmaskOK'
  PROVE  IInv'
  BY DEF IInv

\* The initial states.
LEMMA InitInv == Init => IInv
<1> SUFFICES ASSUME Init PROVE IInv
  OBVIOUS
<1> USE NoFileAssumption, ChunksAssumption, BoundsAssumption
<1>1. TypeOK
  BY DEF Init, TypeOK, Whole, Nothing, Places
<1>2. Alone /\ \A w \in Writers : WriterOK(w)
  BY DEF Init, Alone, WriterOK, HasTemp, Live, InInit
<1>3. /\ temp # NoFile => temp # target
      /\ NoTempLeft /\ UmaskOK
  BY DEF Init, NoTempLeft, UmaskOK
<1>4. TargetIsLastClosed
  BY DEF Init, TargetIsLastClosed
<1>5. QED
  BY <1>1, <1>2, <1>3, <1>4 DEF IInv

\* A writer begins when there is no other.
LEMMA BeginInv ==
  ASSUME IInv, Usage, NEW w \in Writers, Begin(w)
  PROVE  IInv'
<1> USE NoFileAssumption, ChunksAssumption DEF Goto
<1>1. TypeOK'
  BY DEF Begin, IInv, TypeOK, files, Places, Live, InInit
<1>2. \A v \in Writers : v # w =>
        pc'[v] = pc[v] /\ flushed'[v] = flushed[v] /\ file'[v] = file[v]
  BY DEF Begin, IInv, TypeOK
<1>3. WriterOK(w)'
  BY DEF Begin, IInv, TypeOK, WriterOK, HasTemp, Live, InInit, files
<1>4. Alone' /\ \A v \in Writers : WriterOK(v)'
  <2>1. \A v \in Writers : pc[v] \notin Live
    BY DEF Begin, Usage
  <2>2. Alone'
    BY <1>2, <2>1 DEF Alone
  <2>3. ASSUME NEW v \in Writers, v # w PROVE WriterOK(v)'
    <3>1. /\ pc'[v] = pc[v] /\ flushed'[v] = flushed[v] /\ pc[v] \notin Live
          /\ file'[v] = file[v] /\ perms' = perms
      BY <1>2, <2>1, <2>3 DEF Begin
    <3>2. pc[v] \notin HasTemp /\ pc[v] # "rename"
      BY <3>1 DEF HasTemp, Live
    <3>3. QED
      BY <3>1, <3>2 DEF IInv, WriterOK
  <2>4. QED
    BY <1>3, <2>2, <2>3
<1>5. (temp # NoFile => temp # target)' /\ TargetIsLastClosed'
  BY DEF Begin, IInv, TargetIsLastClosed, files
<1>6. NoTempLeft'
  <2>1. temp' = temp /\ file' = file /\ crashes' = crashes
    BY DEF Begin, files
  <2>2. \A v \in Writers : v # w => pc'[v] = pc[v]
    BY <1>2
  <2>3. pc[w] \in Live => pc'[w] \in Live
    BY DEF Begin, IInv, TypeOK, Live, InInit
  <2>4. QED
    BY <2>1, <2>2, <2>3 DEF IInv, NoTempLeft
<1>7. UmaskOK'
  <2>1. \A v \in Writers : pc[v] \notin Live
    BY DEF Begin, Usage
  <2>2. umask = "usual"
    BY <2>1 DEF IInv, UmaskOK, Narrowing, Live, InInit
  <2>3. umask' = umask /\ \A v \in Writers : Narrowing(v)' => v = w
    BY <1>2, <2>1 DEF Begin, Narrowing, Live, InInit
  <2>4. ~Narrowing(w)'
    BY DEF Begin, Narrowing, IInv, TypeOK
  <2>5. QED
    BY <2>2, <2>3, <2>4 DEF UmaskOK
<1>8. QED
  BY <1>1, <1>4, <1>5, <1>6, <1>7, Parts

\* The umask that is saved is the usual one.
LEMMA SetUmaskInv ==
  ASSUME IInv, NEW w \in Writers, SetUmask(w)
  PROVE  IInv'
<1> USE NoFileAssumption, ChunksAssumption DEF Goto
<1>1. TypeOK'
  BY DEF SetUmask, IInv, TypeOK, files, Places, Live, InInit
<1>2. \A v \in Writers : v # w =>
        pc'[v] = pc[v] /\ flushed'[v] = flushed[v] /\ file'[v] = file[v]
  BY DEF SetUmask, IInv, TypeOK
<1>3. WriterOK(w)'
  BY DEF SetUmask, IInv, TypeOK, WriterOK, HasTemp, Live, InInit, files
<1>4. Alone' /\ \A v \in Writers : WriterOK(v)'
  <2>1. pc[w] \in Live /\ UNCHANGED perms
    BY DEF SetUmask, Live, InInit
  <2>2. QED
    BY <1>2, <1>3, <2>1, Local
<1>5. (temp # NoFile => temp # target)' /\ TargetIsLastClosed'
  BY DEF SetUmask, IInv, TargetIsLastClosed, files
<1>6. NoTempLeft'
  <2>1. temp' = temp /\ file' = file /\ crashes' = crashes
    BY DEF SetUmask, files
  <2>2. \A v \in Writers : v # w => pc'[v] = pc[v]
    BY <1>2
  <2>3. pc[w] \in Live => pc'[w] \in Live
    BY DEF SetUmask, IInv, TypeOK, Live, InInit
  <2>4. QED
    BY <2>1, <2>2, <2>3 DEF IInv, NoTempLeft
<1>7. UmaskOK'
  <2>1. pc[w] = "umask" /\ \A v \in Writers : ~Narrowing(v)
    BY DEF SetUmask, IInv, Alone, Narrowing, Live, InInit
  <2>2. umask = "usual" /\ saved'[w] = "usual"
    BY <2>1 DEF SetUmask, IInv, TypeOK, UmaskOK
  <2>3. \A v \in Writers : v # w => ~Narrowing(v)'
    BY <1>2, <2>1 DEF SetUmask, Narrowing
  <2>4. perms'[w] /\ pc'[w] \in {"open", "restore", "restore_failed"}
    BY <2>1 DEF SetUmask, IInv, TypeOK, WriterOK
  <2>5. \A v \in Writers : Narrowing(v)' => saved'[v] = "usual"
    BY <2>2, <2>3
  <2>6. \E v \in Writers : Narrowing(v)'
    BY <2>4, Zenon DEF Narrowing
  <2>7. QED
    BY <2>5, <2>6 DEF UmaskOK
<1>8. QED
  BY <1>1, <1>4, <1>5, <1>6, <1>7, Parts

\* The temporary file is empty now, and it is not the target.
LEMMA OpenTempInv ==
  ASSUME IInv, NEW w \in Writers, OpenTemp(w)
  PROVE  IInv'
<1> USE NoFileAssumption, ChunksAssumption DEF Goto
<1>1. TypeOK'
  BY DEF OpenTemp, IInv, TypeOK, files, Places, Live, InInit, Whole, Nothing
<1>2. \A v \in Writers : v # w =>
        pc'[v] = pc[v] /\ flushed'[v] = flushed[v] /\ file'[v] = file[v]
  BY DEF OpenTemp, IInv, TypeOK
<1>3. WriterOK(w)'
  <2>1. flushed'[w] = 0 /\ pc'[w] = "restore"
    BY DEF OpenTemp, IInv, TypeOK, WriterOK
  <2>2. file'[w] = temp' /\ temp' # NoFile
    BY DEF OpenTemp, IInv, TypeOK
  <2>3. QED
    BY <2>1, <2>2 DEF WriterOK
<1>4. Alone' /\ \A v \in Writers : WriterOK(v)'
  <2>1. pc[w] \in Live /\ UNCHANGED perms
    BY DEF OpenTemp, Live, InInit
  <2>2. QED
    BY <1>2, <1>3, <2>1, Local
<1>5. (temp # NoFile => temp # target)' /\ TargetIsLastClosed'
  <2>1. PICK i \in Inodes :
          /\ i # target /\ temp' = i
          /\ content' = [content EXCEPT ![i] = Nothing]
    BY DEF OpenTemp, Unused, IInv
  <2>2. target' = target /\ last' = last
    BY DEF OpenTemp
  <2>3. target # NoFile => content'[target] = content[target]
    BY <2>1 DEF IInv, TypeOK
  <2>4. QED
    BY <2>1, <2>2, <2>3 DEF IInv, TargetIsLastClosed
<1>6. NoTempLeft'
  BY DEF OpenTemp, NoTempLeft, IInv, TypeOK, Live, InInit
<1>7. UmaskOK'
  <2>1. umask' = umask /\ saved' = saved /\ perms' = perms
    BY DEF OpenTemp
  <2>2. \A v \in Writers : Narrowing(v)' <=> Narrowing(v)
    BY <1>2, <2>1 DEF OpenTemp, Narrowing, IInv, TypeOK
  <2>3. QED
    BY <2>1, <2>2 DEF IInv, UmaskOK
<1>8. QED
  BY <1>1, <1>4, <1>5, <1>6, <1>7, Parts

\* A constructor that cannot open its file has none.
LEMMA OpenFailsInv ==
  ASSUME IInv, NEW w \in Writers, OpenFails(w)
  PROVE  IInv'
<1> USE NoFileAssumption, ChunksAssumption DEF Goto
<1>1. TypeOK'
  BY DEF OpenFails, IInv, TypeOK, files, Places, Live, InInit
<1>2. \A v \in Writers : v # w =>
        pc'[v] = pc[v] /\ flushed'[v] = flushed[v] /\ file'[v] = file[v]
  BY DEF OpenFails, IInv, TypeOK
<1>3. WriterOK(w)'
  BY DEF OpenFails, IInv, TypeOK, WriterOK, HasTemp, Live, InInit, files
<1>4. Alone' /\ \A v \in Writers : WriterOK(v)'
  <2>1. pc[w] \in Live /\ UNCHANGED perms
    BY DEF OpenFails, Live, InInit
  <2>2. QED
    BY <1>2, <1>3, <2>1, Local
<1>5. (temp # NoFile => temp # target)' /\ TargetIsLastClosed'
  BY DEF OpenFails, IInv, TargetIsLastClosed, files
<1>6. NoTempLeft'
  <2>1. temp' = temp /\ file' = file /\ crashes' = crashes
    BY DEF OpenFails, files
  <2>2. \A v \in Writers : v # w => pc'[v] = pc[v]
    BY <1>2
  <2>3. pc[w] \in Live => pc'[w] \in Live
    BY DEF OpenFails, IInv, TypeOK, Live, InInit
  <2>4. QED
    BY <2>1, <2>2, <2>3 DEF IInv, NoTempLeft
<1>7. UmaskOK'
  <2>1. umask' = umask /\ saved' = saved /\ perms' = perms
    BY DEF OpenFails
  <2>2. \A v \in Writers : Narrowing(v)' <=> Narrowing(v)
    BY <1>2, <2>1 DEF OpenFails, Narrowing, IInv, TypeOK
  <2>3. QED
    BY <2>1, <2>2 DEF IInv, UmaskOK
<1>8. QED
  BY <1>1, <1>4, <1>5, <1>6, <1>7, Parts

\* The umask is the usual one again, also after a failure.
LEMMA RestoreInv ==
  ASSUME IInv, NEW w \in Writers, Restore(w)
  PROVE  IInv'
<1> USE NoFileAssumption, ChunksAssumption DEF Goto
<1>1. TypeOK'
  BY DEF Restore, IInv, TypeOK, files, Places, Live, InInit
<1>2. \A v \in Writers : v # w =>
        pc'[v] = pc[v] /\ flushed'[v] = flushed[v] /\ file'[v] = file[v]
  BY DEF Restore, IInv, TypeOK
<1>3. WriterOK(w)'
  BY DEF Restore, IInv, TypeOK, WriterOK, HasTemp, Live, InInit, files
<1>4. Alone' /\ \A v \in Writers : WriterOK(v)'
  <2>1. pc[w] \in Live /\ UNCHANGED perms
    BY DEF Restore, Live, InInit
  <2>2. QED
    BY <1>2, <1>3, <2>1, Local
<1>5. (temp # NoFile => temp # target)' /\ TargetIsLastClosed'
  BY DEF Restore, IInv, TargetIsLastClosed, files
<1>6. NoTempLeft'
  <2>1. /\ temp' = temp /\ file' = file /\ crashes' = crashes
        /\ pc[w] = "restore" => pc'[w] \in Live
    BY DEF Restore, files, IInv, TypeOK, Live, InInit
  <2>2. CASE pc[w] = "restore"
    BY <1>2, <2>1, <2>2 DEF IInv, NoTempLeft
  <2>3. CASE pc[w] = "restore_failed"
    <3>1. file[w] = NoFile
      BY <2>3 DEF IInv, WriterOK
    <3>2. QED
      BY <1>2, <2>1, <3>1 DEF IInv, NoTempLeft
  <2>4. QED
    BY <2>2, <2>3 DEF Restore
<1>7. UmaskOK'
  <2>1. \A v \in Writers : Narrowing(v) => v = w
    BY DEF Restore, IInv, Alone, Narrowing, Live, InInit
  <2>2. \A v \in Writers : ~Narrowing(v)'
    BY <1>2, <2>1 DEF Restore, Narrowing, IInv, TypeOK
  <2>3. umask' = "usual"
    BY <2>1 DEF Restore, Narrowing, IInv, UmaskOK
  <2>4. QED
    BY <2>2, <2>3 DEF UmaskOK
<1>8. QED
  BY <1>1, <1>4, <1>5, <1>6, <1>7, Parts

\* Permissions are set on the temporary file of this writer.
LEMMA SetPermsInv ==
  ASSUME IInv, NEW w \in Writers, SetPerms(w)
  PROVE  IInv'
<1> USE NoFileAssumption, ChunksAssumption DEF Goto
<1>1. TypeOK'
  BY DEF SetPerms, IInv, TypeOK, files, Places, Live, InInit
<1>2. \A v \in Writers : v # w =>
        pc'[v] = pc[v] /\ flushed'[v] = flushed[v] /\ file'[v] = file[v]
  BY DEF SetPerms, IInv, TypeOK
<1>3. WriterOK(w)'
  BY DEF SetPerms, IInv, TypeOK, WriterOK, HasTemp, Live, InInit, files
<1>4. Alone' /\ \A v \in Writers : WriterOK(v)'
  <2>1. pc[w] \in Live /\ UNCHANGED perms
    BY DEF SetPerms, Live, InInit
  <2>2. QED
    BY <1>2, <1>3, <2>1, Local
<1>5. (temp # NoFile => temp # target)' /\ TargetIsLastClosed'
  BY DEF SetPerms, IInv, TargetIsLastClosed, files
<1>6. NoTempLeft'
  <2>1. temp' = temp /\ file' = file /\ crashes' = crashes
    BY DEF SetPerms, files
  <2>2. \A v \in Writers : v # w => pc'[v] = pc[v]
    BY <1>2
  <2>3. pc[w] \in Live => pc'[w] \in Live
    BY DEF SetPerms, IInv, TypeOK, Live, InInit
  <2>4. QED
    BY <2>1, <2>2, <2>3 DEF IInv, NoTempLeft
<1>7. UmaskOK'
  <2>1. umask' = umask /\ saved' = saved /\ perms' = perms
    BY DEF SetPerms
  <2>2. \A v \in Writers : Narrowing(v)' <=> Narrowing(v)
    BY <1>2, <2>1 DEF SetPerms, Narrowing, IInv, TypeOK
  <2>3. QED
    BY <2>1, <2>2 DEF IInv, UmaskOK
<1>8. QED
  BY <1>1, <1>4, <1>5, <1>6, <1>7, Parts

\* A chunk goes to the temporary file, not to the target.
LEMMA FlushInv ==
  ASSUME IInv, NEW w \in Writers, Flush(w)
  PROVE  IInv'
<1> USE NoFileAssumption, ChunksAssumption DEF Goto
<1>1. TypeOK'
  <2>1. /\ flushed[w] \in 0..Chunks /\ flushed[w] < Chunks
        /\ flushed' = [flushed EXCEPT ![w] = @ + 1]
    BY DEF Flush, IInv, TypeOK
  <2>2. flushed' \in [Writers -> 0..Chunks]
    BY <2>1 DEF IInv, TypeOK
  <2>3. content' \in [Inodes -> [1..Chunks -> Writers \cup {"old", "nothing"}]]
    BY DEF Flush, IInv, TypeOK
  <2>4. QED
    BY <2>2, <2>3 DEF Flush, IInv, TypeOK
<1>2. \A v \in Writers : v # w =>
        pc'[v] = pc[v] /\ flushed'[v] = flushed[v] /\ file'[v] = file[v]
  BY DEF Flush, IInv, TypeOK
<1>3. WriterOK(w)'
  <2>1. /\ pc[w] \in HasTemp /\ pc' = pc /\ file' = file /\ temp' = temp
        /\ pc[w] \notin {"new", "umask", "open", "restore_failed", "rename"}
    BY DEF Flush, HasTemp, Live, InInit, files
  <2>2. /\ file[w] = temp /\ temp \in Inodes /\ flushed[w] \in 0..Chunks
        /\ flushed[w] < Chunks /\ flushed'[w] = flushed[w] + 1
        /\ \A k \in 1..flushed[w] : content[temp][k] = w
    BY <2>1 DEF Flush, IInv, TypeOK, WriterOK
  <2>3. /\ content[temp] \in [1..Chunks -> Writers \cup {"old", "nothing"}]
        /\ content'[temp] = [content[temp] EXCEPT ![flushed[w] + 1] = w]
    BY <2>2 DEF Flush, IInv, TypeOK
  <2>4. \A k \in 1..flushed'[w] : content'[temp][k] = w
    BY <2>2, <2>3
  <2>5. QED
    BY <2>1, <2>2, <2>4 DEF WriterOK
<1>4. Alone' /\ \A v \in Writers : WriterOK(v)'
  <2>1. pc[w] \in Live /\ UNCHANGED perms
    BY DEF Flush, Live, InInit
  <2>2. QED
    BY <1>2, <1>3, <2>1, Local
<1>5. (temp # NoFile => temp # target)' /\ TargetIsLastClosed'
  <2>1. pc[w] \in HasTemp
    BY DEF Flush, HasTemp, Live, InInit
  <2>2. file[w] # target
    BY <2>1 DEF IInv, WriterOK
  <2>3. target # NoFile => content'[target] = content[target]
    BY <2>2 DEF Flush, IInv, TypeOK
  <2>4. QED
    BY <2>3 DEF Flush, IInv, TargetIsLastClosed
<1>6. NoTempLeft'
  BY DEF Flush, IInv, NoTempLeft
<1>7. UmaskOK'
  <2>1. umask' = umask /\ saved' = saved /\ perms' = perms
    BY DEF Flush
  <2>2. \A v \in Writers : Narrowing(v)' <=> Narrowing(v)
    BY <1>2, <2>1 DEF Flush, Narrowing, IInv, TypeOK
  <2>3. QED
    BY <2>1, <2>2 DEF IInv, UmaskOK
<1>8. QED
  BY <1>1, <1>4, <1>5, <1>6, <1>7, Parts

\* close() begins.
LEMMA CloseInv ==
  ASSUME IInv, NEW w \in Writers, Close(w)
  PROVE  IInv'
<1> USE NoFileAssumption, ChunksAssumption DEF Goto
<1>1. TypeOK'
  BY DEF Close, IInv, TypeOK, files, Places, Live, InInit
<1>2. \A v \in Writers : v # w =>
        pc'[v] = pc[v] /\ flushed'[v] = flushed[v] /\ file'[v] = file[v]
  BY DEF Close, IInv, TypeOK
<1>3. WriterOK(w)'
  BY DEF Close, IInv, TypeOK, WriterOK, HasTemp, Live, InInit, files
<1>4. Alone' /\ \A v \in Writers : WriterOK(v)'
  <2>1. pc[w] \in Live /\ UNCHANGED perms
    BY DEF Close, Live, InInit
  <2>2. QED
    BY <1>2, <1>3, <2>1, Local
<1>5. (temp # NoFile => temp # target)' /\ TargetIsLastClosed'
  BY DEF Close, IInv, TargetIsLastClosed, files
<1>6. NoTempLeft'
  <2>1. temp' = temp /\ file' = file /\ crashes' = crashes
    BY DEF Close, files
  <2>2. \A v \in Writers : v # w => pc'[v] = pc[v]
    BY <1>2
  <2>3. pc[w] \in Live => pc'[w] \in Live
    BY DEF Close, IInv, TypeOK, Live, InInit
  <2>4. QED
    BY <2>1, <2>2, <2>3 DEF IInv, NoTempLeft
<1>7. UmaskOK'
  <2>1. umask' = umask /\ saved' = saved /\ perms' = perms
    BY DEF Close
  <2>2. \A v \in Writers : Narrowing(v)' <=> Narrowing(v)
    BY <1>2, <2>1 DEF Close, Narrowing, IInv, TypeOK
  <2>3. QED
    BY <2>1, <2>2 DEF IInv, UmaskOK
<1>8. QED
  BY <1>1, <1>4, <1>5, <1>6, <1>7, Parts

\* close() is only called again when all is written.
LEMMA CloseAgainInv ==
  ASSUME IInv, Usage, NEW w \in Writers, CloseAgain(w)
  PROVE  IInv'
<1> USE NoFileAssumption, ChunksAssumption DEF Goto
<1>1. TypeOK'
  BY DEF CloseAgain, IInv, TypeOK, files, Places, Live, InInit
<1>2. \A v \in Writers : v # w =>
        pc'[v] = pc[v] /\ flushed'[v] = flushed[v] /\ file'[v] = file[v]
  BY DEF CloseAgain, IInv, TypeOK
<1>3. WriterOK(w)'
  BY DEF CloseAgain, Usage, IInv, TypeOK, WriterOK, HasTemp, Live, InInit, files
<1>4. Alone' /\ \A v \in Writers : WriterOK(v)'
  <2>1. pc[w] \in Live /\ UNCHANGED perms
    BY DEF CloseAgain, Live, InInit
  <2>2. QED
    BY <1>2, <1>3, <2>1, Local
<1>5. (temp # NoFile => temp # target)' /\ TargetIsLastClosed'
  BY DEF CloseAgain, IInv, TargetIsLastClosed, files
<1>6. NoTempLeft'
  <2>1. temp' = temp /\ file' = file /\ crashes' = crashes
    BY DEF CloseAgain, files
  <2>2. \A v \in Writers : v # w => pc'[v] = pc[v]
    BY <1>2
  <2>3. pc[w] \in Live => pc'[w] \in Live
    BY DEF CloseAgain, IInv, TypeOK, Live, InInit
  <2>4. QED
    BY <2>1, <2>2, <2>3 DEF IInv, NoTempLeft
<1>7. UmaskOK'
  <2>1. umask' = umask /\ saved' = saved /\ perms' = perms
    BY DEF CloseAgain
  <2>2. \A v \in Writers : Narrowing(v)' <=> Narrowing(v)
    BY <1>2, <2>1 DEF CloseAgain, Narrowing, IInv, TypeOK
  <2>3. QED
    BY <2>1, <2>2 DEF IInv, UmaskOK
<1>8. QED
  BY <1>1, <1>4, <1>5, <1>6, <1>7, Parts

\* All is written before the rename.
LEMMA RealCloseInv ==
  ASSUME IInv, NEW w \in Writers, RealClose(w)
  PROVE  IInv'
<1> USE NoFileAssumption, ChunksAssumption DEF Goto
<1>1. TypeOK'
  BY DEF RealClose, IInv, TypeOK, files, Places, Live, InInit
<1>2. \A v \in Writers : v # w =>
        pc'[v] = pc[v] /\ flushed'[v] = flushed[v] /\ file'[v] = file[v]
  BY DEF RealClose, IInv, TypeOK
<1>3. WriterOK(w)'
  BY DEF RealClose, IInv, TypeOK, WriterOK, HasTemp, Live, InInit, files
<1>4. Alone' /\ \A v \in Writers : WriterOK(v)'
  <2>1. pc[w] \in Live /\ UNCHANGED perms
    BY DEF RealClose, Live, InInit
  <2>2. QED
    BY <1>2, <1>3, <2>1, Local
<1>5. (temp # NoFile => temp # target)' /\ TargetIsLastClosed'
  BY DEF RealClose, IInv, TargetIsLastClosed, files
<1>6. NoTempLeft'
  <2>1. temp' = temp /\ file' = file /\ crashes' = crashes
    BY DEF RealClose, files
  <2>2. \A v \in Writers : v # w => pc'[v] = pc[v]
    BY <1>2
  <2>3. pc[w] \in Live => pc'[w] \in Live
    BY DEF RealClose, IInv, TypeOK, Live, InInit
  <2>4. QED
    BY <2>1, <2>2, <2>3 DEF IInv, NoTempLeft
<1>7. UmaskOK'
  <2>1. umask' = umask /\ saved' = saved /\ perms' = perms
    BY DEF RealClose
  <2>2. \A v \in Writers : Narrowing(v)' <=> Narrowing(v)
    BY <1>2, <2>1 DEF RealClose, Narrowing, IInv, TypeOK
  <2>3. QED
    BY <2>1, <2>2 DEF IInv, UmaskOK
<1>8. QED
  BY <1>1, <1>4, <1>5, <1>6, <1>7, Parts

\* What could not be written is not renamed.
LEMMA RealCloseFailsInv ==
  ASSUME IInv, NEW w \in Writers, RealCloseFails(w)
  PROVE  IInv'
<1> USE NoFileAssumption, ChunksAssumption DEF Goto
<1>1. TypeOK'
  BY DEF RealCloseFails, IInv, TypeOK, files, Places, Live, InInit
<1>2. \A v \in Writers : v # w =>
        pc'[v] = pc[v] /\ flushed'[v] = flushed[v] /\ file'[v] = file[v]
  BY DEF RealCloseFails, IInv, TypeOK
<1>3. WriterOK(w)'
  BY DEF RealCloseFails, IInv, TypeOK, WriterOK, HasTemp, Live, InInit, files
<1>4. Alone' /\ \A v \in Writers : WriterOK(v)'
  <2>1. pc[w] \in Live /\ UNCHANGED perms
    BY DEF RealCloseFails, Live, InInit
  <2>2. QED
    BY <1>2, <1>3, <2>1, Local
<1>5. (temp # NoFile => temp # target)' /\ TargetIsLastClosed'
  BY DEF RealCloseFails, IInv, TargetIsLastClosed, files
<1>6. NoTempLeft'
  <2>1. temp' = temp /\ file' = file /\ crashes' = crashes
    BY DEF RealCloseFails, files
  <2>2. \A v \in Writers : v # w => pc'[v] = pc[v]
    BY <1>2
  <2>3. pc[w] \in Live => pc'[w] \in Live
    BY DEF RealCloseFails, IInv, TypeOK, Live, InInit
  <2>4. QED
    BY <2>1, <2>2, <2>3 DEF IInv, NoTempLeft
<1>7. UmaskOK'
  <2>1. umask' = umask /\ saved' = saved /\ perms' = perms
    BY DEF RealCloseFails
  <2>2. \A v \in Writers : Narrowing(v)' <=> Narrowing(v)
    BY <1>2, <2>1 DEF RealCloseFails, Narrowing, IInv, TypeOK
  <2>3. QED
    BY <2>1, <2>2 DEF IInv, UmaskOK
<1>8. QED
  BY <1>1, <1>4, <1>5, <1>6, <1>7, Parts

\* What becomes the target is the whole of what the writer wrote.
LEMMA RenameInv ==
  ASSUME IInv, NEW w \in Writers, Rename(w)
  PROVE  IInv'
<1> USE NoFileAssumption, ChunksAssumption DEF Goto
<1>1. TypeOK'
  BY DEF Rename, IInv, TypeOK, files, Places, Live, InInit
<1>2. \A v \in Writers : v # w =>
        pc'[v] = pc[v] /\ flushed'[v] = flushed[v] /\ file'[v] = file[v]
  BY DEF Rename, IInv, TypeOK
<1>3. WriterOK(w)'
  <2>1. pc[w] \in HasTemp
    BY DEF Rename, HasTemp, Live, InInit
  <2>2. pc'[w] = "closed"
    BY <2>1 DEF Rename, IInv, TypeOK, WriterOK
  <2>3. QED
    BY <2>2 DEF WriterOK, HasTemp, Live, InInit
<1>4. Alone' /\ \A v \in Writers : WriterOK(v)'
  <2>1. pc[w] \in Live /\ UNCHANGED perms
    BY DEF Rename, Live, InInit
  <2>2. QED
    BY <1>2, <1>3, <2>1, Local
<1>5. (temp # NoFile => temp # target)' /\ TargetIsLastClosed'
  <2>1. /\ pc[w] = "rename" /\ pc[w] \in HasTemp
    BY DEF Rename, HasTemp, Live, InInit
  <2>2. /\ temp \in Inodes /\ flushed[w] = Chunks
        /\ \A k \in 1..Chunks : content[temp][k] = w
    BY <2>1 DEF IInv, TypeOK, WriterOK
  <2>3. content[temp] = Whole(w)
    BY <2>2 DEF IInv, TypeOK, Whole
  <2>4. target' = temp /\ temp' = NoFile /\ last' = w /\ content' = content
    BY <2>2 DEF Rename
  <2>5. QED
    BY <2>2, <2>3, <2>4 DEF TargetIsLastClosed
<1>6. NoTempLeft'
  <2>1. pc[w] \in HasTemp
    BY DEF Rename, HasTemp, Live, InInit
  <2>2. temp' = NoFile
    BY <2>1 DEF Rename, IInv, WriterOK
  <2>3. QED
    BY <2>2 DEF NoTempLeft
<1>7. UmaskOK'
  <2>1. umask' = umask /\ saved' = saved /\ perms' = perms
    BY DEF Rename
  <2>2. \A v \in Writers : Narrowing(v)' <=> Narrowing(v)
    BY <1>2, <2>1 DEF Rename, Narrowing, IInv, TypeOK
  <2>3. QED
    BY <2>1, <2>2 DEF IInv, UmaskOK
<1>8. QED
  BY <1>1, <1>4, <1>5, <1>6, <1>7, Parts

\* The temporary file is still there after a rename that failed.
LEMMA RenameFailsInv ==
  ASSUME IInv, NEW w \in Writers, RenameFails(w)
  PROVE  IInv'
<1> USE NoFileAssumption, ChunksAssumption DEF Goto
<1>1. TypeOK'
  BY DEF RenameFails, IInv, TypeOK, files, Places, Live, InInit
<1>2. \A v \in Writers : v # w =>
        pc'[v] = pc[v] /\ flushed'[v] = flushed[v] /\ file'[v] = file[v]
  BY DEF RenameFails, IInv, TypeOK
<1>3. WriterOK(w)'
  BY DEF RenameFails, IInv, TypeOK, WriterOK, HasTemp, Live, InInit, files
<1>4. Alone' /\ \A v \in Writers : WriterOK(v)'
  <2>1. pc[w] \in Live /\ UNCHANGED perms
    BY DEF RenameFails, Live, InInit
  <2>2. QED
    BY <1>2, <1>3, <2>1, Local
<1>5. (temp # NoFile => temp # target)' /\ TargetIsLastClosed'
  BY DEF RenameFails, IInv, TargetIsLastClosed, files
<1>6. NoTempLeft'
  <2>1. temp' = temp /\ file' = file /\ crashes' = crashes
    BY DEF RenameFails, files
  <2>2. \A v \in Writers : v # w => pc'[v] = pc[v]
    BY <1>2
  <2>3. pc[w] \in Live => pc'[w] \in Live
    BY DEF RenameFails, IInv, TypeOK, Live, InInit
  <2>4. QED
    BY <2>1, <2>2, <2>3 DEF IInv, NoTempLeft
<1>7. UmaskOK'
  <2>1. umask' = umask /\ saved' = saved /\ perms' = perms
    BY DEF RenameFails
  <2>2. \A v \in Writers : Narrowing(v)' <=> Narrowing(v)
    BY <1>2, <2>1 DEF RenameFails, Narrowing, IInv, TypeOK
  <2>3. QED
    BY <2>1, <2>2 DEF IInv, UmaskOK
<1>8. QED
  BY <1>1, <1>4, <1>5, <1>6, <1>7, Parts

\* discard() begins.
LEMMA DiscardInv ==
  ASSUME IInv, NEW w \in Writers, Discard(w)
  PROVE  IInv'
<1> USE NoFileAssumption, ChunksAssumption DEF Goto
<1>1. TypeOK'
  BY DEF Discard, IInv, TypeOK, files, Places, Live, InInit
<1>2. \A v \in Writers : v # w =>
        pc'[v] = pc[v] /\ flushed'[v] = flushed[v] /\ file'[v] = file[v]
  BY DEF Discard, IInv, TypeOK
<1>3. WriterOK(w)'
  BY DEF Discard, IInv, TypeOK, WriterOK, HasTemp, Live, InInit, files
<1>4. Alone' /\ \A v \in Writers : WriterOK(v)'
  <2>1. pc[w] \in Live /\ UNCHANGED perms
    BY DEF Discard, Live, InInit
  <2>2. QED
    BY <1>2, <1>3, <2>1, Local
<1>5. (temp # NoFile => temp # target)' /\ TargetIsLastClosed'
  BY DEF Discard, IInv, TargetIsLastClosed, files
<1>6. NoTempLeft'
  <2>1. temp' = temp /\ file' = file /\ crashes' = crashes
    BY DEF Discard, files
  <2>2. \A v \in Writers : v # w => pc'[v] = pc[v]
    BY <1>2
  <2>3. pc[w] \in Live => pc'[w] \in Live
    BY DEF Discard, IInv, TypeOK, Live, InInit
  <2>4. QED
    BY <2>1, <2>2, <2>3 DEF IInv, NoTempLeft
<1>7. UmaskOK'
  <2>1. umask' = umask /\ saved' = saved /\ perms' = perms
    BY DEF Discard
  <2>2. \A v \in Writers : Narrowing(v)' <=> Narrowing(v)
    BY <1>2, <2>1 DEF Discard, Narrowing, IInv, TypeOK
  <2>3. QED
    BY <2>1, <2>2 DEF IInv, UmaskOK
<1>8. QED
  BY <1>1, <1>4, <1>5, <1>6, <1>7, Parts

\* The file is closed before it is unlinked.
LEMMA DiscardCloseInv ==
  ASSUME IInv, NEW w \in Writers, DiscardClose(w)
  PROVE  IInv'
<1> USE NoFileAssumption, ChunksAssumption DEF Goto
<1>1. TypeOK'
  BY DEF DiscardClose, IInv, TypeOK, files, Places, Live, InInit
<1>2. \A v \in Writers : v # w =>
        pc'[v] = pc[v] /\ flushed'[v] = flushed[v] /\ file'[v] = file[v]
  BY DEF DiscardClose, IInv, TypeOK
<1>3. WriterOK(w)'
  BY DEF DiscardClose, IInv, TypeOK, WriterOK, HasTemp, Live, InInit, files
<1>4. Alone' /\ \A v \in Writers : WriterOK(v)'
  <2>1. pc[w] \in Live /\ UNCHANGED perms
    BY DEF DiscardClose, Live, InInit
  <2>2. QED
    BY <1>2, <1>3, <2>1, Local
<1>5. (temp # NoFile => temp # target)' /\ TargetIsLastClosed'
  BY DEF DiscardClose, IInv, TargetIsLastClosed, files
<1>6. NoTempLeft'
  <2>1. temp' = temp /\ file' = file /\ crashes' = crashes
    BY DEF DiscardClose, files
  <2>2. \A v \in Writers : v # w => pc'[v] = pc[v]
    BY <1>2
  <2>3. pc[w] \in Live => pc'[w] \in Live
    BY DEF DiscardClose, IInv, TypeOK, Live, InInit
  <2>4. QED
    BY <2>1, <2>2, <2>3 DEF IInv, NoTempLeft
<1>7. UmaskOK'
  <2>1. umask' = umask /\ saved' = saved /\ perms' = perms
    BY DEF DiscardClose
  <2>2. \A v \in Writers : Narrowing(v)' <=> Narrowing(v)
    BY <1>2, <2>1 DEF DiscardClose, Narrowing, IInv, TypeOK
  <2>3. QED
    BY <2>1, <2>2 DEF IInv, UmaskOK
<1>8. QED
  BY <1>1, <1>4, <1>5, <1>6, <1>7, Parts

\* The temporary file is gone.
LEMMA UnlinkInv ==
  ASSUME IInv, NEW w \in Writers, Unlink(w)
  PROVE  IInv'
<1> USE NoFileAssumption, ChunksAssumption DEF Goto
<1>1. TypeOK'
  BY DEF Unlink, IInv, TypeOK, files, Places, Live, InInit
<1>2. \A v \in Writers : v # w =>
        pc'[v] = pc[v] /\ flushed'[v] = flushed[v] /\ file'[v] = file[v]
  BY DEF Unlink, IInv, TypeOK
<1>3. WriterOK(w)'
  BY DEF Unlink, IInv, TypeOK, WriterOK, HasTemp, Live, InInit
<1>4. Alone' /\ \A v \in Writers : WriterOK(v)'
  <2>1. pc[w] \in Live /\ UNCHANGED perms
    BY DEF Unlink, Live, InInit
  <2>2. QED
    BY <1>2, <1>3, <2>1, Local
<1>5. (temp # NoFile => temp # target)' /\ TargetIsLastClosed'
  BY DEF Unlink, IInv, TargetIsLastClosed, files
<1>6. NoTempLeft'
  BY DEF Unlink, NoTempLeft
<1>7. UmaskOK'
  <2>1. umask' = umask /\ saved' = saved /\ perms' = perms
    BY DEF Unlink
  <2>2. \A v \in Writers : Narrowing(v)' <=> Narrowing(v)
    BY <1>2, <2>1 DEF Unlink, Narrowing, IInv, TypeOK
  <2>3. QED
    BY <2>1, <2>2 DEF IInv, UmaskOK
<1>8. QED
  BY <1>1, <1>4, <1>5, <1>6, <1>7, Parts

\* A crash leaves no writer, and the files as they are.
LEMMA CrashInv ==
  ASSUME IInv, Crash
  PROVE  IInv'
<1>1. TypeOK'
  BY DEF Crash, IInv, TypeOK, files, Places
<1>2. \A w \in Writers : pc'[w] \notin Live /\ (pc'[w] = pc[w] \/ pc'[w] = "dead")
  BY DEF Crash, Live, InInit
<1>3. Alone' /\ UmaskOK'
  BY <1>2 DEF Crash, Alone, UmaskOK, Narrowing, Live, InInit
<1>4. ASSUME NEW w \in Writers PROVE WriterOK(w)'
  <2>1. /\ flushed' = flushed /\ file' = file /\ perms' = perms
        /\ pc'[w] \notin HasTemp
        /\ pc'[w] \in {"new", "umask", "open", "restore_failed", "rename"} => pc'[w] = pc[w]
        /\ pc'[w] # "rename"
    BY <1>2 DEF Crash, HasTemp, Live, InInit
  <2>2. QED
    BY <1>2, <2>1 DEF IInv, WriterOK
<1>5. /\ (temp # NoFile => temp # target)'
      /\ TargetIsLastClosed' /\ NoTempLeft'
  BY DEF Crash, IInv, TypeOK, files, TargetIsLastClosed, NoTempLeft
<1>6. QED
  BY <1>1, <1>3, <1>4, <1>5, Parts

\* Nothing happens.
LEMMA StutterInv ==
  ASSUME IInv, UNCHANGED vars
  PROVE  IInv'
  BY DEF vars, files, IInv, TypeOK, Alone, WriterOK, TargetIsLastClosed, NoTempLeft,
         UmaskOK, Narrowing

\* Every step preserves IInv, as long as the writers are used as they should be.
LEMMA NextInv == Usage /\ IInv /\ [Next]_vars => IInv'
<1> SUFFICES ASSUME Usage, IInv, [Next]_vars PROVE IInv'
  OBVIOUS
<1>1. CASE Crash
  BY <1>1, CrashInv
<1>2. CASE UNCHANGED vars
  BY <1>2, StutterInv
<1>3. ASSUME NEW w \in Writers, InObject(w) PROVE IInv'
  BY <1>3, SetUmaskInv, OpenTempInv, OpenFailsInv, RestoreInv, SetPermsInv, RealCloseInv,
     RealCloseFailsInv, RenameInv, RenameFailsInv, DiscardCloseInv, UnlinkInv DEF InObject
<1>4. ASSUME NEW w \in Writers,
             Begin(w) \/ Flush(w) \/ Close(w) \/ CloseAgain(w) \/ Discard(w)
      PROVE  IInv'
  BY <1>4, BeginInv, FlushInv, CloseInv, CloseAgainInv, DiscardInv
<1>5. QED
  BY <1>1, <1>2, <1>3, <1>4 DEF Next

\* The inductive invariant: there is one writer at a time, the temporary file is
\* its own and not the target, and holds what the writer has flushed.
THEOREM Inductive == Usage /\ Spec => []IInv
<1> SUFFICES ASSUME Usage PROVE Spec => []IInv
  OBVIOUS
<1>1. IInv /\ [Next]_vars => IInv'
  BY NextInv
<1>2. QED
  BY InitInv, <1>1, PTL DEF Spec

\* Type correctness of AtomicWriteFile, with writers that take turns.
THEOREM TypeCorrect == Usage /\ Spec => []TypeOK
<1>1. IInv => TypeOK
  BY DEF IInv
<1>2. QED
  BY <1>1, Inductive, PTL

\* The target always is all of what the last close() that returned published, with
\* any number of writers, failures and crashes.
THEOREM Atomic == Usage /\ Spec => []TargetIsLastClosed
<1>1. IInv => TargetIsLastClosed
  BY DEF IInv
<1>2. QED
  BY <1>1, Inductive, PTL

\* Only a crash leaves a temporary file that belongs to no writer.
THEOREM CleansUp == Usage /\ Spec => []NoTempLeft
<1>1. IInv => NoTempLeft
  BY DEF IInv
<1>2. QED
  BY <1>1, Inductive, PTL

\* No constructor, whatever it raises, leaves the umask of the process changed.
THEOREM KeepsUmask == Usage /\ Spec => []UmaskRestored
<1>1. IInv => UmaskRestored
  BY DEF IInv, UmaskOK, Narrowing, UmaskRestored, InInit
<1>2. QED
  BY <1>1, Inductive, PTL
=============================================================================
