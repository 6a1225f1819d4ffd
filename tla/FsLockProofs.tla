---------------------------- MODULE FsLockProofs ----------------------------
(* The safety of FsLock for any number of handles, calls and writes. *)
EXTENDS FsLock, TLAPS

Exclusive ==
  \A g, h \in Handles : g # h /\ flock[g] = "write" => flock[h] = "none"

\* What is known of one handle.
HandleOK(h) ==
  /\ ~fd[h] => told[h] = "none" /\ flock[h] = "none"
  /\ fd[h] => exists /\ pc[h] \notin {"new", "gone"}
  /\ pc[h] \in {"flock", "wait"} => fd[h]
  /\ pc[h] \in {"new", "open", "flock", "wait"} => ~since[h]
  /\ pc[h] = "idle" /\ told[h] # "none" => flock[h] = told[h]
  /\ pc[h] = "idle" /\ told[h] # "none" /\ since[h] => seen[h] = datum

IInv == TypeOK /\ Exclusive /\ \A h \in Handles : HandleOK(h)

---------------------------------------------------------------------------

\* A step of one handle that leaves the datum and what the others hold alone.
LEMMA Local ==
  ASSUME IInv, NEW h \in Handles, HandleOK(h)', UNCHANGED datum,
         exists => exists',
         \A g \in Handles : g # h =>
           /\ pc'[g] = pc[g] /\ fd'[g] = fd[g] /\ flock'[g] = flock[g]
           /\ told'[g] = told[g] /\ seen'[g] = seen[g] /\ since'[g] = since[g]
  PROVE  \A g \in Handles : HandleOK(g)'
<1> SUFFICES ASSUME NEW g \in Handles PROVE HandleOK(g)'
  OBVIOUS
<1>1. CASE g = h
  BY <1>1
<1>2. CASE g # h
  BY <1>2 DEF IInv, HandleOK
<1>3. QED
  BY <1>1, <1>2

\* Nothing is held or believed in the initial states.
LEMMA InitInv == Init => IInv
<1> SUFFICES ASSUME Init PROVE IInv
  OBVIOUS
<1>1. TypeOK
  BY DEF Init, TypeOK, Locks, Answers
<1>2. Exclusive /\ \A h \in Handles : HandleOK(h)
  BY DEF Init, Exclusive, HandleOK
<1>3. QED
  BY <1>1, <1>2 DEF IInv

\* Construction of a handle opens nothing.
LEMMA NewInv ==
  ASSUME IInv, NEW h \in Handles, New(h)
  PROVE  IInv'
<1>1. TypeOK'
  BY DEF New, IInv, TypeOK, client, Answers
<1>2. Exclusive'
  BY DEF New, IInv, Exclusive
<1>3. HandleOK(h)'
  BY DEF New, IInv, TypeOK, HandleOK, client
<1>4. \A g \in Handles : HandleOK(g)'
  BY <1>3, Local DEF New, IInv, TypeOK, client
<1>5. QED
  BY <1>1, <1>2, <1>4 DEF IInv

\* While a call is in progress its client relies on nothing it has read.
LEMMA CallInv ==
  ASSUME IInv, NEW h \in Handles, NEW lock \in Locks, NEW b \in BOOLEAN, Call(h, lock, b)
  PROVE  IInv'
<1>1. TypeOK'
  BY DEF Call, IInv, TypeOK
<1>2. Exclusive'
  BY DEF Call, IInv, Exclusive
<1>3. HandleOK(h)'
  BY DEF Call, IInv, TypeOK, HandleOK
<1>4. \A g \in Handles : HandleOK(g)'
  BY <1>3, Local DEF Call, IInv, TypeOK
<1>5. QED
  BY <1>1, <1>2, <1>4 DEF IInv

\* Opening the file gives no lock.
LEMMA OpenInv ==
  ASSUME IInv, NEW h \in Handles, Open(h)
  PROVE  IInv'
<1>1. TypeOK'
  BY DEF Open, Answer, IInv, TypeOK, client, Answers
<1>2. Exclusive'
  BY DEF Open, IInv, Exclusive
<1>3. HandleOK(h)'
  BY DEF Open, Answer, IInv, TypeOK, HandleOK, client
<1>4. \A g \in Handles : HandleOK(g)'
  BY <1>3, Local DEF Open, Answer, IInv, TypeOK, client
<1>5. QED
  BY <1>1, <1>2, <1>4 DEF IInv

\* Dropping a lock disturbs nobody.
LEMMA FlockInv ==
  ASSUME IInv, NEW h \in Handles, Flock(h)
  PROVE  IInv'
<1>1. TypeOK'
  BY DEF Flock, IInv, TypeOK, client, Locks
<1>2. Exclusive'
  BY DEF Flock, IInv, TypeOK, Exclusive
<1>3. HandleOK(h)'
  BY DEF Flock, IInv, TypeOK, HandleOK, client
<1>4. \A g \in Handles : HandleOK(g)'
  BY <1>3, Local DEF Flock, IInv, TypeOK, client
<1>5. QED
  BY <1>1, <1>2, <1>4 DEF IInv

\* What is granted conflicts with nothing that is held.
LEMMA GrantInv ==
  ASSUME IInv, NEW h \in Handles, Grant(h)
  PROVE  IInv'
<1>1. TypeOK'
  BY DEF Grant, Answer, IInv, TypeOK, Answers
<1>2. Exclusive'
  BY DEF Grant, Compatible, IInv, TypeOK, Exclusive, Locks
<1>3. HandleOK(h)'
  BY DEF Grant, Answer, IInv, TypeOK, HandleOK
<1>4. \A g \in Handles : HandleOK(g)'
  BY <1>3, Local DEF Grant, Answer, IInv, TypeOK
<1>5. QED
  BY <1>1, <1>2, <1>4 DEF IInv

\* Who is denied a lock is not told that it has one.
LEMMA DenyInv ==
  ASSUME IInv, NEW h \in Handles, Deny(h)
  PROVE  IInv'
<1>1. TypeOK'
  BY DEF Deny, Answer, IInv, TypeOK, client, Answers, Locks
<1>2. Exclusive'
  BY DEF Deny, IInv, Exclusive
<1>3. HandleOK(h)'
  BY DEF Deny, Answer, IInv, TypeOK, HandleOK, client
<1>4. \A g \in Handles : HandleOK(g)'
  BY <1>3, Local DEF Deny, Answer, IInv, TypeOK, client
<1>5. QED
  BY <1>1, <1>2, <1>4 DEF IInv

\* A handle that goes takes its lock with it.
LEMMA ClosedInv ==
  ASSUME IInv, NEW h \in Handles, Closed(h)
  PROVE  IInv'
<1>1. TypeOK'
  BY DEF Closed, IInv, TypeOK, client, Locks
<1>2. Exclusive'
  BY DEF Closed, IInv, TypeOK, Exclusive
<1>3. HandleOK(h)'
  BY DEF Closed, IInv, TypeOK, HandleOK, client
<1>4. \A g \in Handles : HandleOK(g)'
  BY <1>3, Local DEF Closed, IInv, TypeOK, client
<1>5. QED
  BY <1>1, <1>2, <1>4 DEF IInv

\* Reading brings the client up to date.
LEMMA ReadInv ==
  ASSUME IInv, NEW h \in Handles, Read(h)
  PROVE  IInv'
<1>1. TypeOK'
  BY DEF Read, IInv, TypeOK
<1>2. Exclusive'
  BY DEF Read, IInv, Exclusive
<1>3. HandleOK(h)'
  BY DEF Read, IInv, TypeOK, HandleOK
<1>4. \A g \in Handles : HandleOK(g)'
  BY <1>3, Local DEF Read, IInv, TypeOK
<1>5. QED
  BY <1>1, <1>2, <1>4 DEF IInv

\* Nobody else relies on the datum when it is written.
LEMMA WriteInv ==
  ASSUME IInv, NEW h \in Handles, Write(h)
  PROVE  IInv'
<1>1. TypeOK'
  BY DEF Write, IInv, TypeOK
<1>2. Exclusive'
  BY DEF Write, IInv, Exclusive
<1>3. \A g \in Handles : g # h => ~(pc[g] = "idle" /\ told[g] # "none")
  <2>1. flock[h] = "write"
    BY DEF Write, IInv, HandleOK
  <2>2. \A g \in Handles : g # h => flock[g] = "none"
    BY <2>1 DEF IInv, Exclusive
  <2>3. QED
    BY <2>2 DEF IInv, HandleOK
<1>4. ASSUME NEW g \in Handles PROVE HandleOK(g)'
  <2>1. CASE g = h
    BY <2>1 DEF Write, IInv, TypeOK, HandleOK
  <2>2. CASE g # h
    BY <1>3, <2>2 DEF Write, IInv, TypeOK, HandleOK
  <2>3. QED
    BY <2>1, <2>2
<1>5. QED
  BY <1>1, <1>2, <1>4 DEF IInv

\* Every step preserves IInv.
LEMMA NextInv == IInv /\ [Next]_vars => IInv'
<1> SUFFICES ASSUME IInv, [Next]_vars PROVE IInv'
  OBVIOUS
<1>1. CASE Remove
  BY <1>1 DEF Remove, client, IInv, TypeOK, Exclusive, HandleOK
<1>2. CASE UNCHANGED vars
  BY <1>2 DEF vars, IInv, TypeOK, Exclusive, HandleOK
<1>3. ASSUME NEW h \in Handles,
             \/ New(h) \/ Acquire(h) \/ Release(h) \/ Enact(h) \/ Delete(h) \/ Die(h)
             \/ Read(h) \/ Write(h)
      PROVE  IInv'
  <2>1. CASE Acquire(h) \/ Release(h)
    BY <2>1, CallInv DEF Acquire, Release, Locks
  <2>2. CASE Enact(h)
    BY <2>2, OpenInv, FlockInv, GrantInv, DenyInv DEF Enact
  <2>3. CASE New(h)
    BY <2>3, NewInv
  <2>4. CASE Delete(h) \/ Die(h)
    BY <2>4, ClosedInv DEF Delete, Die
  <2>5. CASE Read(h) \/ Write(h)
    BY <2>5, ReadInv, WriteInv
  <2>6. QED
    BY <1>3, <2>1, <2>2, <2>3, <2>4, <2>5
<1>4. QED
  BY <1>1, <1>2, <1>3 DEF Next

\* The inductive invariant: what a client believes it holds is what its open file
\* holds, and no two open files hold conflicting locks.
THEOREM Inductive == Spec => []IInv
  BY InitInv, NextInv, PTL DEF Spec

\* Type correctness of FsLock.
THEOREM TypeCorrect == Spec => []TypeOK
<1>1. IInv => TypeOK
  BY DEF IInv
<1>2. QED
  BY <1>1, Inductive, PTL

\* For any number of processes, what a client reads after it has been told that it
\* has a lock stays true until its next call.
THEOREM Trustworthy == Spec => []TrueWhileHeld
<1>1. IInv => TrueWhileHeld
  BY DEF IInv, HandleOK, TrueWhileHeld
<1>2. QED
  BY <1>1, Inductive, PTL

\* Neither deletion nor the death of a process leaves a lock or an open file.
THEOREM LeavesNoLock == Spec => []NoLockLeftBehind
<1>1. IInv => NoLockLeftBehind
  BY DEF IInv, HandleOK, NoLockLeftBehind
<1>2. QED
  BY <1>1, Inductive, PTL
=============================================================================
