------------------------------- MODULE FsLock -------------------------------
(***************************************************************************)
(* osutils.FsLock: reader-writer locks between processes on one file.      *)
(*                                                                         *)
(* Each handle is one FsLock object, used by one process.  The file system *)
(* lock itself is flock(2), external: a request of another type than what  *)
(* the open file holds first drops that, and then is granted once nothing  *)
(* conflicts, or fails at once with LOCK_NB.  A call goes through the steps *)
(* "open" (_acquire_fd), "flock" and "wait" of _enact_change.              *)
(*                                                                         *)
(* What the lock is for is modelled with it: a datum that a client reads   *)
(* under either lock and writes under the write lock.                      *)
(***************************************************************************)
EXTENDS Naturals

CONSTANTS
  Handles,
  MaxCalls,   \* bound: calls made on each handle
  MaxWrites   \* bound: writes of the datum

ASSUME BoundsAssumption == MaxCalls \in Nat /\ MaxWrites \in Nat

VARIABLES
  exists,   \* the file to be locked is there
  create,   \* per handle, self.create
  pc,       \* per handle: "new", "idle", "open", "flock", "wait" or "gone"
  fd,       \* per handle, self.fd is not None
  asked,    \* per handle, the lock asked for by the call in progress
  block,    \* per handle, whether that call may block
  flock,    \* per handle, what its open file holds
  told,     \* per handle, the lock its client was last told it has
  answer,   \* per handle, how _enact_change or __init__ last ended
  calls,    \* per handle, the calls made
  datum,    \* how often the datum has been written
  seen,     \* per handle, the datum as its client last read or wrote it
  since     \* per handle, the client has done so since its last call returned

client == <<datum, seen, since>>
vars == <<exists, create, pc, fd, asked, block, flock, told, answer, calls, datum, seen,
          since>>

Locks == {"none", "read", "write"}
Answers == {"", "True", "False", "NameError", "GenericFailed", "NonExistent"}

Init ==
  /\ exists \in BOOLEAN
  /\ create \in [Handles -> BOOLEAN]
  /\ pc = [h \in Handles |-> "new"]
  /\ fd = [h \in Handles |-> FALSE]
  /\ asked = [h \in Handles |-> "none"]
  /\ block = [h \in Handles |-> FALSE]
  /\ flock = [h \in Handles |-> "none"]
  /\ told = [h \in Handles |-> "none"]
  /\ answer = [h \in Handles |-> ""]
  /\ calls = [h \in Handles |-> 0]
  /\ datum = 0
  /\ seen = [h \in Handles |-> 0]
  /\ since = [h \in Handles |-> FALSE]

---------------------------------------------------------------------------

\* __init__: a file that is not to be created must be there.
New(h) ==
  /\ pc[h] = "new"
  /\ pc' = [pc EXCEPT ![h] = IF create[h] \/ exists THEN "idle" ELSE "gone"]
  /\ answer' = [answer EXCEPT ![h] = IF create[h] \/ exists THEN @ ELSE "NonExistent"]
  /\ UNCHANGED <<exists, create, fd, asked, block, flock, told, calls, client>>

\* acquire_read_lock, acquire_write_lock and both release methods: whatever has to
\* be done is for _enact_change, also for a release of a lock that was never taken.
Call(h, lock, may_block) ==
  /\ pc[h] = "idle"
  /\ calls[h] < MaxCalls
  /\ calls' = [calls EXCEPT ![h] = @ + 1]
  /\ pc' = [pc EXCEPT ![h] = IF fd[h] THEN "flock" ELSE "open"]
  /\ asked' = [asked EXCEPT ![h] = lock]
  /\ block' = [block EXCEPT ![h] = may_block]
  /\ since' = [since EXCEPT ![h] = FALSE]
  /\ UNCHANGED <<exists, create, fd, flock, told, answer, datum, seen>>

Acquire(h) == \E lock \in {"read", "write"}, may_block \in BOOLEAN : Call(h, lock, may_block)

Release(h) == Call(h, "none", FALSE)

\* The call ends: `reply` is what the client learns of it.
Answer(h, reply) ==
  /\ pc' = [pc EXCEPT ![h] = "idle"]
  /\ answer' = [answer EXCEPT ![h] = reply]
  /\ told' = [told EXCEPT ![h] = IF reply = "True" THEN asked[h]
                                 ELSE IF reply = "GenericFailed" THEN @ ELSE "none"]

\* _acquire_fd: os.open, with O_CREAT as asked for.
Open(h) ==
  /\ pc[h] = "open"
  /\ IF create[h] \/ exists
       THEN /\ fd' = [fd EXCEPT ![h] = TRUE]
            /\ exists' = TRUE
            /\ pc' = [pc EXCEPT ![h] = "flock"]
            /\ UNCHANGED <<told, answer>>
       ELSE /\ Answer(h, "GenericFailed")
            /\ UNCHANGED <<fd, exists>>
  /\ UNCHANGED <<create, asked, block, flock, calls, client>>

Compatible(h, lock) ==
  \A g \in Handles \ {h} :
    /\ lock = "write" => flock[g] = "none"
    /\ lock = "read" => flock[g] # "write"

\* Faulty variant: what is held is kept until what is asked for can be had.
FlockKeeping(h) ==
  /\ pc[h] = "flock"
  /\ pc' = [pc EXCEPT ![h] = "wait"]
  /\ UNCHANGED <<exists, create, fd, asked, block, flock, told, answer, calls, client>>

\* fcntl.flock drops a lock of another type than the one it is asked for.
Flock(h) ==
  /\ pc[h] = "flock"
  /\ flock' = [flock EXCEPT ![h] = IF @ = asked[h] THEN @ ELSE "none"]
  /\ pc' = [pc EXCEPT ![h] = "wait"]
  /\ UNCHANGED <<exists, create, fd, asked, block, told, answer, calls, client>>

\* fcntl.flock grants what it was asked for.  What the client has seen counts as
\* seen under this lock if it already had one.
Grant(h) ==
  /\ pc[h] = "wait"
  /\ Compatible(h, asked[h])
  /\ flock' = [flock EXCEPT ![h] = asked[h]]
  /\ seen' = IF told[h] = "none" THEN [seen EXCEPT ![h] = 0] ELSE seen
  /\ Answer(h, "True")
  /\ UNCHANGED <<exists, create, fd, asked, block, calls, datum, since>>

\* Faulty variant: a lock that was not to be had is reported as taken.
DenyAsTrue(h) ==
  /\ pc[h] = "wait"
  /\ ~block[h] /\ ~Compatible(h, asked[h])
  /\ Answer(h, "True")
  /\ UNCHANGED <<exists, create, fd, asked, block, flock, calls, client>>

\* Faulty variant: the error number is returned.
DenyErrno(h) ==
  /\ pc[h] = "wait"
  /\ ~block[h] /\ ~Compatible(h, asked[h])
  /\ Answer(h, "EAGAIN")
  /\ UNCHANGED <<exists, create, fd, asked, block, flock, calls, client>>

\* LOCK_NB fails with EAGAIN: the handler looks at `ie`, which is not bound.
Deny(h) ==
  /\ pc[h] = "wait"
  /\ ~block[h] /\ ~Compatible(h, asked[h])
  /\ Answer(h, "NameError")
  /\ UNCHANGED <<exists, create, fd, asked, block, flock, calls, client>>

\* Faulty variant: the object goes without closing what it opened.
DeleteOpen(h) ==
  /\ pc[h] = "idle"
  /\ pc' = [pc EXCEPT ![h] = "gone"]
  /\ told' = [told EXCEPT ![h] = "none"]
  /\ UNCHANGED <<exists, create, fd, asked, block, flock, answer, calls, client>>

Closed(h) ==
  /\ pc' = [pc EXCEPT ![h] = "gone"]
  /\ fd' = [fd EXCEPT ![h] = FALSE]
  /\ flock' = [flock EXCEPT ![h] = "none"]
  /\ told' = [told EXCEPT ![h] = "none"]
  /\ UNCHANGED <<exists, create, asked, block, answer, calls, client>>

\* __del__: release the lock and close the file, if it was ever opened.
Delete(h) == pc[h] = "idle" /\ Closed(h)

\* The process ends in the middle of a call: the system closes the file.
Die(h) == pc[h] \in {"open", "flock", "wait"} /\ Closed(h)

---------------------------------------------------------------------------

\* The clients and the rest of the system.
Read(h) ==
  /\ pc[h] = "idle" /\ told[h] # "none"
  /\ seen' = [seen EXCEPT ![h] = datum]
  /\ since' = [since EXCEPT ![h] = TRUE]
  /\ UNCHANGED <<exists, create, pc, fd, asked, block, flock, told, answer, calls, datum>>

Write(h) ==
  /\ pc[h] = "idle" /\ told[h] = "write"
  /\ datum < MaxWrites
  /\ datum' = datum + 1
  /\ seen' = [seen EXCEPT ![h] = datum']
  /\ since' = [since EXCEPT ![h] = TRUE]
  /\ UNCHANGED <<exists, create, pc, fd, asked, block, flock, told, answer, calls>>

\* The file is removed; nobody removes it from under an open handle.
Remove ==
  /\ exists /\ \A h \in Handles : ~fd[h]
  /\ exists' = FALSE
  /\ UNCHANGED <<create, pc, fd, asked, block, flock, told, answer, calls, client>>

Enact(h) == Open(h) \/ Flock(h) \/ Grant(h) \/ Deny(h)

Next ==
  \/ \E h \in Handles :
       \/ New(h) \/ Acquire(h) \/ Release(h) \/ Enact(h) \/ Delete(h) \/ Die(h)
       \/ Read(h) \/ Write(h)
  \/ Remove

\* A call goes on, and who has a lock lets go of it some time.
Fairness ==
  \A h \in Handles :
    /\ WF_vars(Enact(h))
    /\ WF_vars(told[h] # "none" /\ (Release(h) \/ Delete(h)))

Spec == Init /\ [][Next]_vars
FairSpec == Spec /\ Fairness

---------------------------------------------------------------------------

TypeOK ==
  /\ exists \in BOOLEAN
  /\ create \in [Handles -> BOOLEAN]
  /\ pc \in [Handles -> {"new", "idle", "open", "flock", "wait", "gone"}]
  /\ fd \in [Handles -> BOOLEAN]
  /\ asked \in [Handles -> Locks]
  /\ block \in [Handles -> BOOLEAN]
  /\ flock \in [Handles -> Locks]
  /\ told \in [Handles -> Locks]
  /\ answer \in [Handles -> Answers]
  /\ calls \in [Handles -> Nat]
  /\ datum \in Nat
  /\ seen \in [Handles -> Nat]
  /\ since \in [Handles -> BOOLEAN]

\* What a client has read since a call told it that it has a lock stays true until
\* its next call: acquired blocking or not, after refused attempts, conversions and
\* releases of all the others, and deaths of other processes.
TrueWhileHeld ==
  \A h \in Handles : pc[h] = "idle" /\ told[h] # "none" /\ since[h] => seen[h] = datum

\* Nothing is held but through an open file, and nothing is open that nobody has:
\* objects that are deleted and processes that die leave no lock behind.
NoLockLeftBehind ==
  \A h \in Handles :
    /\ flock[h] # "none" => fd[h]
    /\ fd[h] => exists /\ pc[h] \notin {"new", "gone"}

\* A blocking call ends, even when all the readers ask for the write lock at once.
BlockedCallEnds ==
  \A h \in Handles : pc[h] = "wait" ~> pc[h] # "wait"

\* "Note if you have a read lock, it implicitly upgrades atomically": what a client
\* has read under the read lock it can still rely on when it gets the write lock.
UpgradeIsAtomic ==
  \A h \in Handles :
    pc[h] = "idle" /\ told[h] = "write" /\ seen[h] # 0 => seen[h] = datum
=============================================================================
