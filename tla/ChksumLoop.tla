---------------------------- MODULE ChksumLoop ----------------------------
(***************************************************************************)
(* chksum_loop_over_file and loop_over_file of chksum/defaults.py: one     *)
(* thread reads the file and hands every block to every checksum handler,  *)
(* either by calling its update() itself or, when there are several        *)
(* handlers and CPUs, through one bounded queue.Queue and one consumer     *)
(* thread (chf_thread) per handler.                                        *)
(*                                                                         *)
(* A queue is kept as the history `sent` of what was put on it and the     *)
(* number `got` of items its consumer took: its content is what lies       *)
(* between.  Block number k of the file is the number k.                   *)
(***************************************************************************)
EXTENDS Naturals, Sequences

CONSTANTS
  N,          \* number of handlers (len(chfs))
  QueueSize,  \* queue.Queue(8): 8 in the code
  NBlocks,    \* blocks of `blocksize` bytes that f.read yields before b''
  None        \* the sentinel that ends a consumer

ASSUME NAssumption == N \in Nat \ {0}
ASSUME QueueSizeAssumption == QueueSize \in Nat \ {0}
ASSUME NBlocksAssumption == NBlocks \in Nat
ASSUME NoneAssumption == None \notin Nat

Handlers == 1..N

VARIABLES
  source,    \* what was opened: an mmap, an object with getvalue, a stream
  owned,     \* close_f: whether this call must close what it reads from
  parallelize,  \* the argument, and cpu_count() > 1
  pc,        \* where the reading thread is
  handle,    \* the file or mmap: "none", "open", "closed"
  block,     \* number of the last block read
  next,      \* the callback, queue or thread the current for loop is at
  exc,       \* an exception is pending in the reading thread
  sent,      \* per handler, everything put on its queue so far
  got,       \* per handler, how many items its consumer has taken
  worker,    \* per handler, the state of its consumer thread
  digest     \* per handler, the blocks update() has absorbed

args == <<source, owned, parallelize>>
queues == <<sent, got>>
vars == <<source, owned, parallelize, pc, handle, block, next, exc,
          sent, got, worker, digest>>

Sources == {"mmap", "getvalue", "stream"}
MainStates == {"open", "start", "read", "feed", "stop", "join", "close",
               "returned", "raised"}
WorkerStates == {"new", "get", "call", "done", "crashed"}

\* An mmap and a getvalue() are handed over whole, as one block.
Total == IF source = "stream" THEN NBlocks ELSE 1

\* parallelize and len(callbacks) > 1 and cpu_count() > 1
Parallel == parallelize /\ N > 1

Queued(c) == Len(sent[c]) - got[c]

\* Faulty variant: the finally block forgets the consumers.
FinallyWithoutConsumers == "close"

\* Where an exception or the end of the try block leads.
Finally == IF Parallel THEN "stop" ELSE "close"

\* Faulty variant: the index of a finished loop is kept for the next one.
TurnWithoutReset(after) ==
  /\ next' = next + 1
  /\ pc' = IF next = N THEN after ELSE pc

\* One turn of a `for` loop over the callbacks; `after` follows the last.
Turn(after) ==
  /\ next' = IF next = N THEN 1 ELSE next + 1
  /\ pc' = IF next = N THEN after ELSE pc

Init ==
  /\ source \in Sources
  /\ owned \in BOOLEAN
  /\ source = "mmap" => owned
  /\ parallelize \in BOOLEAN
  /\ pc = "open"
  /\ handle = "none"
  /\ block = 0
  /\ next = 1
  /\ exc = FALSE
  /\ sent = [c \in Handlers |-> <<>>]
  /\ got = [c \in Handlers |-> 0]
  /\ worker = [c \in Handlers |-> "new"]
  /\ digest = [c \in Handlers |-> <<>>]

---------------------------------------------------------------------------
(* The reading thread.                                                     *)

Open ==
  /\ pc = "open"
  /\ handle' = "open"
  /\ pc' = IF Parallel THEN "start" ELSE "read"
  /\ UNCHANGED <<args, block, next, exc, queues, worker, digest>>

\* Opening happens before the try: nothing is held yet.
OpenFails ==
  /\ pc = "open"
  /\ pc' = "raised"
  /\ exc' = TRUE
  /\ UNCHANGED <<args, handle, block, next, queues, worker, digest>>

StartThread ==
  /\ pc = "start"
  /\ worker' = [worker EXCEPT ![next] = "get"]
  /\ Turn("read")
  /\ UNCHANGED <<args, handle, block, exc, queues, digest>>

\* thread.start() raises: `callbacks` still holds the update methods, so the
\* finally block calls update(None), whose TypeError leaves the function with
\* nothing joined and nothing closed.
StartFails ==
  /\ pc = "start"
  /\ pc' = "raised"
  /\ exc' = TRUE
  /\ UNCHANGED <<args, handle, block, next, queues, worker, digest>>

\* f.read(blocksize), or the first and only look at m or at f.getvalue().
Read ==
  /\ pc = "read"
  /\ IF block < Total
       THEN block' = block + 1 /\ pc' = "feed"
       ELSE pc' = Finally /\ UNCHANGED block
  /\ UNCHANGED <<args, handle, next, exc, queues, worker, digest>>

\* Only f.read and f.getvalue().encode can raise: an mmap is passed on as it is.
ReadFails ==
  /\ pc = "read"
  /\ source = "stream" \/ (source = "getvalue" /\ block = 0)
  /\ pc' = Finally
  /\ exc' = TRUE
  /\ UNCHANGED <<args, handle, block, next, queues, worker, digest>>

\* callback(data), where callback is chf.update.
Update ==
  /\ pc = "feed"
  /\ ~Parallel
  /\ digest' = [digest EXCEPT ![next] = Append(@, block)]
  /\ Turn("read")
  /\ UNCHANGED <<args, handle, block, exc, queues, worker>>

UpdateRaises ==
  /\ pc = "feed"
  /\ ~Parallel
  /\ exc' = TRUE
  /\ pc' = Finally
  /\ next' = 1
  /\ UNCHANGED <<args, handle, block, queues, worker, digest>>

\* queue.put blocks while the queue is full.
PutOn(item) ==
  /\ Queued(next) < QueueSize
  /\ sent' = [sent EXCEPT ![next] = Append(@, item)]

\* Faulty variant: put_nowait, with queue.Full ignored.
PutDroppingWhenFull ==
  /\ pc = "feed"
  /\ Parallel
  /\ IF Queued(next) < QueueSize THEN PutOn(block) ELSE UNCHANGED sent
  /\ Turn("read")
  /\ UNCHANGED <<args, handle, block, exc, got, worker, digest>>

\* callback(data), where callback is queue.put.
Put ==
  /\ pc = "feed"
  /\ Parallel
  /\ PutOn(block)
  /\ Turn("read")
  /\ UNCHANGED <<args, handle, block, exc, got, worker, digest>>

\* Faulty variant: no sentinel for the queue of the last handler.
PutSentinelExceptLast ==
  /\ pc = "stop"
  /\ IF next < N THEN PutOn(None) ELSE UNCHANGED sent
  /\ Turn("join")
  /\ UNCHANGED <<args, handle, block, exc, got, worker, digest>>

PutSentinel ==
  /\ pc = "stop"
  /\ PutOn(None)
  /\ Turn("join")
  /\ UNCHANGED <<args, handle, block, exc, got, worker, digest>>

\* Faulty variant: only the first consumer is waited for.
JoinFirstOnly ==
  /\ pc = "join"
  /\ worker[next] \in {"done", "crashed"}
  /\ pc' = "close"
  /\ UNCHANGED <<args, handle, block, next, exc, queues, worker, digest>>

Join ==
  /\ pc = "join"
  /\ worker[next] \in {"done", "crashed"}
  /\ Turn("close")
  /\ UNCHANGED <<args, handle, block, exc, queues, worker, digest>>

\* Faulty variant: a return in the finally block swallows the exception.
CloseSwallowing ==
  /\ pc = "close"
  /\ handle' = IF owned THEN "closed" ELSE handle
  /\ pc' = "returned"
  /\ UNCHANGED <<args, block, next, exc, queues, worker, digest>>

Close ==
  /\ pc = "close"
  /\ handle' = IF owned THEN "closed" ELSE handle
  /\ pc' = IF exc THEN "raised" ELSE "returned"
  /\ UNCHANGED <<args, block, next, exc, queues, worker, digest>>

Main ==
  \/ Open \/ OpenFails \/ StartThread \/ StartFails \/ Read \/ ReadFails
  \/ Update \/ UpdateRaises \/ Put \/ PutSentinel \/ Join \/ Close

---------------------------------------------------------------------------
(* chf_thread, one per handler.                                            *)

Held(c) == sent[c][got[c]]

Get(c) ==
  /\ worker[c] = "get"
  /\ got[c] < Len(sent[c])
  /\ got' = [got EXCEPT ![c] = @ + 1]
  /\ worker' = [worker EXCEPT ![c] =
                  IF sent[c][got[c] + 1] = None THEN "done" ELSE "call"]
  /\ UNCHANGED <<args, pc, handle, block, next, exc, sent, digest>>

Callback(c) ==
  /\ worker[c] = "call"
  /\ digest' = [digest EXCEPT ![c] = Append(@, Held(c))]
  /\ worker' = [worker EXCEPT ![c] = "get"]
  /\ UNCHANGED <<args, pc, handle, block, next, exc, queues>>

\* An exception of update() ends the thread and reaches nobody else.
CallbackRaises(c) ==
  /\ worker[c] = "call"
  /\ worker' = [worker EXCEPT ![c] = "crashed"]
  /\ UNCHANGED <<args, pc, handle, block, next, exc, queues, digest>>

Worker(c) == Get(c) \/ Callback(c) \/ CallbackRaises(c)

Next == Main \/ \E c \in Handlers : Worker(c)

\* Threads are scheduled fairly, and each thread that can take a step that
\* succeeds eventually takes a step.
Fairness == WF_vars(Main) /\ \A c \in Handlers : WF_vars(Worker(c))

Spec == Init /\ [][Next]_vars
FairSpec == Spec /\ Fairness

---------------------------------------------------------------------------
(* Correctness.                                                            *)

Terminal == pc \in {"returned", "raised"}
Running(c) == worker[c] \in {"get", "call"}
Crashed == {c \in Handlers : worker[c] = "crashed"}

\* thread.start() raised, and the exception of the finally block left the call.
StartFailed ==
  pc = "raised" /\ Parallel /\ handle = "open" /\ \E c \in Handlers : worker[c] = "new"

TypeOK ==
  /\ source \in Sources
  /\ owned \in BOOLEAN
  /\ parallelize \in BOOLEAN
  /\ pc \in MainStates
  /\ handle \in {"none", "open", "closed"}
  /\ block \in Nat
  /\ next \in Handlers
  /\ exc \in BOOLEAN
  /\ sent \in [Handlers -> Seq(Nat \cup {None})]
  /\ got \in [Handlers -> Nat]
  /\ worker \in [Handlers -> WorkerStates]
  /\ digest \in [Handlers -> Seq(Nat)]

\* The finally block of loop_over_file closes the mmap or file only when no
\* consumer can still be given, or still be reading, a block of it.
ClosedAfterLastUse ==
  handle = "closed" => \A c \in Handlers : ~Running(c)

\* loop_over_file leaves no consumer thread and no open file behind, however
\* it ends, unless a thread could not be started.
NothingLeftRunning ==
  Terminal /\ ~StartFailed =>
    /\ \A c \in Handlers : ~Running(c)
    /\ owned => handle # "open"

\* When the call returns, every handler whose update() did not raise in its
\* thread has absorbed the whole file, block after block: the hexdigest that
\* chksum_loop_over_file then reads is that of the file.
CompleteOnReturn ==
  pc = "returned" =>
    \A c \in Handlers \ Crashed : digest[c] = [k \in 1..Total |-> k]

\* The producer, the bounded queues and the consumers come to an end on every
\* schedule: only an update() that raises in its thread can stop the producer.
Termination == <>(Terminal \/ Crashed # {})

Outcome == IF Terminal THEN pc ELSE "running"

Promise == INSTANCE ChksumPromise
             WITH total <- Total, broken <- Crashed, outcome <- Outcome

\* The loop over threads and queues implements ChksumPromise: blocks reach every
\* digest in file order and once, and no digest changes after the call is over.
PromiseSpec == Promise!Spec
=============================================================================
