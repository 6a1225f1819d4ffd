------------------------- MODULE ChksumLoopProofs -------------------------
(***************************************************************************)
(* The safety of ChksumLoop for every number of handlers, every queue size *)
(* and every file length.                                                  *)
(***************************************************************************)
EXTENDS ChksumLoop, TLAPS

\* How many blocks have been handed to handler c.
Handed(c) == IF pc = "feed" /\ c >= next THEN block - 1 ELSE block

\* The sentinel of handler c is on its queue, or was.
Stopped(c) ==
  \/ pc \in {"join", "close"}
  \/ pc = "stop" /\ c < next
  \/ Terminal /\ Len(sent[c]) > 0

\* What the reading thread knows wherever it is.
MainInv ==
  /\ block <= Total
  /\ pc \in {"open", "start", "read", "feed"} => ~exc
  /\ pc \in {"open", "start"} => block = 0
  /\ pc = "feed" => block > 0
  /\ pc \in {"open", "read", "close"} => next = 1
  /\ pc \in {"start", "stop", "join"} => Parallel
  /\ pc \in {"stop", "join", "close", "returned"} => exc \/ block = Total
  /\ pc = "returned" => ~exc

\* What has been put on a queue are the blocks in order, then the sentinel.
QueueOK(c) ==
  /\ got[c] <= Len(sent[c])
  /\ Parallel => Len(sent[c]) = Handed(c) + (IF Stopped(c) THEN 1 ELSE 0)
  /\ \A k \in 1..Len(sent[c]) :
       sent[c][k] = IF Stopped(c) /\ k = Len(sent[c]) THEN None ELSE k
  /\ ~Parallel => Len(sent[c]) = 0

\* A consumer has absorbed what it took, but for the item it is holding.
WorkerOK(c) ==
  /\ worker[c] = "new" => got[c] = 0 /\ (~Parallel \/ Len(digest[c]) = 0)
  /\ worker[c] = "get" =>
       /\ Len(digest[c]) = got[c]
       /\ \A k \in 1..got[c] : sent[c][k] # None
  /\ worker[c] \in {"call", "crashed"} =>
       /\ got[c] > 0
       /\ Len(digest[c]) = got[c] - 1
       /\ \A k \in 1..got[c] : sent[c][k] # None
  /\ worker[c] = "done" =>
       /\ Stopped(c)
       /\ got[c] = Len(sent[c])
       /\ Len(digest[c]) = got[c] - 1

\* Which threads exist while the reading thread is where it is.
LifeOK(c) ==
  /\ ~Parallel \/ pc = "open" => worker[c] = "new"
  /\ pc = "start" => (worker[c] = "new" <=> c >= next)
  /\ Parallel /\ pc \in {"read", "feed", "stop", "join", "close", "returned"} =>
       worker[c] # "new"
  /\ pc = "join" /\ c < next => ~Running(c)
  /\ pc \in {"close", "returned"} => ~Running(c)

\* Digests hold the blocks in order; without threads the reading thread feeds
\* them itself.
DigestOK(c) ==
  /\ \A k \in 1..Len(digest[c]) : digest[c][k] = k
  /\ ~Parallel /\ ~exc => Len(digest[c]) = Handed(c)
  /\ Len(digest[c]) <= block

HandlerOK(c) == QueueOK(c) /\ WorkerOK(c) /\ LifeOK(c) /\ DigestOK(c)

\* The file is open while it is used, and a call that ended closed it, never
\* opened it, or could not start a thread.
HandleInv ==
  /\ pc = "open" => handle = "none"
  /\ pc \in MainStates \ {"open", "returned", "raised"} => handle = "open"
  /\ pc = "returned" => handle = IF owned THEN "closed" ELSE "open"
  /\ pc = "raised" =>
       \/ /\ handle = "none"
          /\ \A c \in Handlers : worker[c] = "new"
       \/ /\ StartFailed
          /\ \A c \in Handlers : Len(sent[c]) = 0
       \/ /\ handle = IF owned THEN "closed" ELSE "open"
          /\ \A c \in Handlers : ~Running(c)

IInv ==
  TypeOK /\ MainInv /\ HandleInv /\ \A c \in Handlers : HandlerOK(c)
---------------------------------------------------------------------------

\* What Append does to a sequence, in the form the steps below use.
LEMMA AppendFacts ==
  ASSUME NEW S, NEW s \in Seq(S), NEW e \in S
  PROVE  /\ Append(s, e) \in Seq(S)
         /\ Len(s) \in Nat
         /\ Len(Append(s, e)) = Len(s) + 1
         /\ \A k \in 1..Len(s) : Append(s, e)[k] = s[k]
         /\ Append(s, e)[Len(s) + 1] = e
  OBVIOUS

\* A handler whose queue is left alone keeps what is known of it, provided the
\* reading thread moves in step with it.
LEMMA QueueKept ==
  ASSUME NEW c \in Handlers, QueueOK(c),
         sent'[c] = sent[c], got'[c] = got[c], Parallel' <=> Parallel,
         Parallel => Handed(c)' = Handed(c) /\ (Stopped(c)' <=> Stopped(c))
  PROVE  QueueOK(c)'
<1>1. CASE Parallel
  BY <1>1 DEF QueueOK
<1>2. CASE ~Parallel
  BY <1>2 DEF QueueOK
<1>3. QED
  BY <1>1, <1>2

\* Putting the next block, or the sentinel after the last, keeps a queue in order.
LEMMA QueueGrows ==
  ASSUME NEW c \in Handlers, TypeOK, QueueOK(c), Parallel, Parallel',
         got'[c] = got[c], ~Stopped(c),
         sent'[c] = Append(sent[c], IF Stopped(c)' THEN None ELSE Len(sent[c]) + 1),
         Handed(c)' + (IF Stopped(c)' THEN 1 ELSE 0) = Handed(c) + 1
  PROVE  QueueOK(c)'
<1> DEFINE item == IF Stopped(c)' THEN None ELSE Len(sent[c]) + 1
<1>1. sent[c] \in Seq(Nat \cup {None}) /\ got[c] \in Nat /\ Len(sent[c]) \in Nat
  BY DEF TypeOK
<1>2. item \in Nat \cup {None}
  BY <1>1
<1>3. /\ Len(sent'[c]) = Len(sent[c]) + 1
      /\ \A k \in 1..Len(sent[c]) : sent'[c][k] = sent[c][k]
      /\ sent'[c][Len(sent[c]) + 1] = item
  BY <1>1, <1>2, AppendFacts
<1>4. \A k \in 1..Len(sent[c]) : sent[c][k] = k
  BY DEF QueueOK
<1>5. \A k \in 1..Len(sent'[c]) :
        sent'[c][k] = IF Stopped(c)' /\ k = Len(sent'[c]) THEN None ELSE k
  BY <1>1, <1>3, <1>4
<1>6. Len(sent[c]) = Handed(c) /\ got[c] <= Len(sent[c])
  BY <1>1 DEF QueueOK, Handed, TypeOK
<1>7. QED
  BY <1>1, <1>3, <1>5, <1>6 DEF QueueOK

\* A digest that is left alone stays in order.
LEMMA DigestKept ==
  ASSUME NEW c \in Handlers, TypeOK, DigestOK(c), digest'[c] = digest[c],
         block' \in Nat, block <= block',
         ~Parallel' /\ ~exc' => ~Parallel /\ ~exc /\ Handed(c)' = Handed(c)
  PROVE  DigestOK(c)'
<1>1. Len(digest[c]) \in Nat /\ block \in Nat
  BY DEF TypeOK
<1>2. QED
  BY <1>1 DEF DigestOK

\* A digest that absorbs the next block stays in order.
LEMMA DigestGrows ==
  ASSUME NEW c \in Handlers, TypeOK, DigestOK(c),
         digest'[c] = Append(digest[c], Len(digest[c]) + 1),
         block' = block, Len(digest[c]) < block,
         ~Parallel' /\ ~exc' => Handed(c)' = Len(digest[c]) + 1
  PROVE  DigestOK(c)'
<1>1. digest[c] \in Seq(Nat) /\ Len(digest[c]) \in Nat /\ block \in Nat
  BY DEF TypeOK
<1>2. /\ Len(digest'[c]) = Len(digest[c]) + 1
      /\ \A k \in 1..Len(digest[c]) : digest'[c][k] = digest[c][k]
      /\ digest'[c][Len(digest[c]) + 1] = Len(digest[c]) + 1
  BY <1>1, AppendFacts
<1>3. \A k \in 1..Len(digest'[c]) : digest'[c][k] = k
  BY <1>1, <1>2 DEF DigestOK
<1>4. QED
  BY <1>1, <1>2, <1>3 DEF DigestOK

\* The initial states satisfy IInv.
LEMMA InitInv == Init => IInv
<1> USE NAssumption, NBlocksAssumption DEF Handlers
<1> SUFFICES ASSUME Init PROVE IInv
  OBVIOUS
<1>1. TypeOK
  <2>1. <<>> \in Seq(Nat) /\ <<>> \in Seq(Nat \cup {None})
    OBVIOUS
  <2>2. /\ sent \in [Handlers -> Seq(Nat \cup {None})]
        /\ digest \in [Handlers -> Seq(Nat)]
    BY <2>1 DEF Init
  <2>3. got \in [Handlers -> Nat] /\ worker \in [Handlers -> WorkerStates]
    BY DEF Init, WorkerStates
  <2>4. exc \in BOOLEAN
    BY Zenon DEF Init
  <2>5. next \in Handlers /\ block \in Nat /\ pc \in MainStates
    BY DEF Init, MainStates
  <2>6. QED
    BY <2>2, <2>3, <2>4, <2>5 DEF Init, TypeOK
<1>2. MainInv /\ HandleInv
  BY DEF Init, MainInv, HandleInv, MainStates, Total
<1>3. ASSUME NEW c \in Handlers PROVE HandlerOK(c)
  BY DEF Init, HandlerOK, QueueOK, WorkerOK, LifeOK, DigestOK, Stopped, Handed,
         Terminal, Running
<1>4. QED
  BY <1>1, <1>2, <1>3 DEF IInv

\* Opening keeps IInv: nothing has been read and no thread started.
LEMMA OpenStep == IInv /\ Open => IInv'
<1> USE NAssumption, NBlocksAssumption, NoneAssumption
<1> SUFFICES ASSUME IInv, Open PROVE IInv'
  OBVIOUS
<1> USE DEF IInv, Open, Turn, PutOn, Finally, Parallel, Total, Handlers, args, queues
<1>1. TypeOK'
  BY DEF TypeOK, MainInv, Sources, MainStates, WorkerStates
<1>2. MainInv'
  BY DEF TypeOK, MainInv
<1>3. HandleInv'
  BY DEF TypeOK, MainInv, HandleInv, HandlerOK, LifeOK, Running, StartFailed, MainStates
<1>4. ASSUME NEW c \in Handlers PROVE HandlerOK(c)'
  <2> USE DEF HandlerOK
  <2>1. QueueOK(c)'
    BY DEF TypeOK, MainInv, QueueOK, Handed, Stopped, Terminal
  <2>2. WorkerOK(c)'
    BY DEF TypeOK, MainInv, QueueOK, WorkerOK, Stopped, Terminal
  <2>3. LifeOK(c)'
    BY DEF TypeOK, MainInv, LifeOK, Running
  <2>4. DigestOK(c)'
    BY DEF TypeOK, MainInv, DigestOK, Handed
  <2>5. QED
    BY <2>1, <2>2, <2>3, <2>4
<1>5. QED
  BY <1>1, <1>2, <1>3, <1>4

\* A failed open keeps IInv: nothing is held and no thread exists.
LEMMA OpenFailsStep == IInv /\ OpenFails => IInv'
<1> USE NAssumption, NBlocksAssumption, NoneAssumption
<1> SUFFICES ASSUME IInv, OpenFails PROVE IInv'
  OBVIOUS
<1> USE DEF IInv, OpenFails, Turn, PutOn, Finally, Parallel, Total, Handlers, args, queues
<1>1. TypeOK'
  BY DEF TypeOK, MainInv, Sources, MainStates, WorkerStates
<1>2. MainInv'
  BY DEF TypeOK, MainInv
<1>3. HandleInv'
  BY DEF TypeOK, MainInv, HandleInv, HandlerOK, LifeOK, Running, StartFailed, MainStates
<1>4. ASSUME NEW c \in Handlers PROVE HandlerOK(c)'
  <2> USE DEF HandlerOK
  <2>1. QueueOK(c)'
    <3>1. Len(sent[c]) = 0 /\ block = 0
      BY DEF TypeOK, MainInv, QueueOK, Handed, Stopped, Terminal
    <3>2. QED
      BY <3>1 DEF TypeOK, QueueOK, Handed, Stopped, Terminal
  <2>2. WorkerOK(c)'
    BY DEF TypeOK, MainInv, QueueOK, WorkerOK, Stopped, Terminal
  <2>3. LifeOK(c)'
    BY DEF TypeOK, MainInv, LifeOK, Running
  <2>4. DigestOK(c)'
    BY DEF TypeOK, MainInv, DigestOK, Handed
  <2>5. QED
    BY <2>1, <2>2, <2>3, <2>4
<1>5. QED
  BY <1>1, <1>2, <1>3, <1>4

\* Starting a thread keeps IInv: its queue is still empty.
LEMMA StartThreadStep == IInv /\ StartThread => IInv'
<1> USE NAssumption, NBlocksAssumption, NoneAssumption
<1> SUFFICES ASSUME IInv, StartThread PROVE IInv'
  OBVIOUS
<1> USE DEF IInv, StartThread, Turn, PutOn, Finally, Parallel, Total, Handlers, args, queues
<1>1. TypeOK'
  BY DEF TypeOK, MainInv, Sources, MainStates, WorkerStates
<1>2. MainInv'
  BY DEF TypeOK, MainInv
<1>3. HandleInv'
  BY DEF TypeOK, MainInv, HandleInv, HandlerOK, LifeOK, Running, StartFailed, MainStates
<1>4. ASSUME NEW c \in Handlers PROVE HandlerOK(c)'
  <2> USE DEF HandlerOK
  <2>1. QueueOK(c)'
    BY DEF TypeOK, MainInv, QueueOK, Handed, Stopped, Terminal
  <2>2. WorkerOK(c)'
    <3>1. ~Stopped(c) /\ worker[c] # "done"
      BY DEF TypeOK, WorkerOK, Stopped, Terminal
    <3>2. CASE c = next
      <4>1. worker[c] = "new" /\ worker'[c] = "get"
        BY <3>2 DEF TypeOK, LifeOK
      <4>2. got[c] = 0 /\ Len(digest[c]) = 0
        BY <4>1 DEF WorkerOK, MainInv
      <4>3. QED
        BY <4>1, <4>2 DEF WorkerOK
    <3>3. CASE c # next
      BY <3>1, <3>3 DEF TypeOK, WorkerOK
    <3>4. QED
      BY <3>2, <3>3
  <2>3. LifeOK(c)'
    BY DEF TypeOK, MainInv, LifeOK, Running
  <2>4. DigestOK(c)'
    BY DEF TypeOK, MainInv, DigestOK, Handed
  <2>5. QED
    BY <2>1, <2>2, <2>3, <2>4
<1>5. QED
  BY <1>1, <1>2, <1>3, <1>4

\* A thread that cannot be started keeps IInv: the started ones stay on empty
\* queues for good.
LEMMA StartFailsStep == IInv /\ StartFails => IInv'
<1> USE NAssumption, NBlocksAssumption, NoneAssumption
<1> SUFFICES ASSUME IInv, StartFails PROVE IInv'
  OBVIOUS
<1> USE DEF IInv, StartFails, Turn, PutOn, Finally, Parallel, Total, Handlers, args, queues
<1>1. TypeOK'
  BY DEF TypeOK, MainInv, Sources, MainStates, WorkerStates
<1>2. MainInv'
  BY DEF TypeOK, MainInv
<1>3. HandleInv'
  <2>1. ASSUME NEW c \in Handlers PROVE Len(sent[c]) = 0
    BY DEF TypeOK, MainInv, HandlerOK, QueueOK, Handed, Stopped, Terminal
  <2>2. worker[next] = "new" /\ handle = "open"
    BY DEF TypeOK, HandlerOK, LifeOK, HandleInv, MainStates
  <2>3. StartFailed'
    BY <2>2 DEF StartFailed, TypeOK, MainInv
  <2>4. QED
    BY <2>1, <2>3 DEF HandleInv
<1>4. ASSUME NEW c \in Handlers PROVE HandlerOK(c)'
  <2> USE DEF HandlerOK
  <2>1. QueueOK(c)'
    <3>1. Len(sent[c]) = 0 /\ block = 0
      BY DEF TypeOK, MainInv, QueueOK, Handed, Stopped, Terminal
    <3>2. QED
      BY <3>1 DEF TypeOK, QueueOK, Handed, Stopped, Terminal
  <2>2. WorkerOK(c)'
    BY DEF TypeOK, MainInv, QueueOK, WorkerOK, Stopped, Terminal
  <2>3. LifeOK(c)'
    BY DEF TypeOK, MainInv, LifeOK, Running
  <2>4. DigestOK(c)'
    BY DEF TypeOK, MainInv, DigestOK, Handed
  <2>5. QED
    BY <2>1, <2>2, <2>3, <2>4
<1>5. QED
  BY <1>1, <1>2, <1>3, <1>4

\* Reading a block keeps IInv: nobody has been handed it yet.
LEMMA ReadStep == IInv /\ Read => IInv'
<1> USE NAssumption, NBlocksAssumption, NoneAssumption
<1> SUFFICES ASSUME IInv, Read PROVE IInv'
  OBVIOUS
<1> USE DEF IInv, Read, Turn, PutOn, Finally, Parallel, Total, Handlers, args, queues
<1>1. TypeOK'
  BY SMTT(30) DEF TypeOK, MainInv, Sources, MainStates, WorkerStates
<1>2. MainInv'
  BY SMTT(30) DEF TypeOK, MainInv
<1>3. HandleInv'
  BY DEF TypeOK, MainInv, HandleInv, HandlerOK, LifeOK, Running, StartFailed, MainStates
<1>4. ASSUME NEW c \in Handlers PROVE HandlerOK(c)'
  <2> USE DEF HandlerOK
  <2>1. QueueOK(c)'
    BY DEF TypeOK, MainInv, QueueOK, Handed, Stopped, Terminal
  <2>2. WorkerOK(c)'
    BY DEF TypeOK, MainInv, QueueOK, WorkerOK, Stopped, Terminal
  <2>3. LifeOK(c)'
    BY DEF TypeOK, MainInv, LifeOK, Running
  <2>4. DigestOK(c)'
    <3>1. Handed(c) = block /\ Handed(c)' = block
      BY DEF TypeOK, MainInv, Handed
    <3>2. block \in Nat /\ block' \in Nat /\ block <= block'
      BY DEF TypeOK
    <3>3. QED
      BY <3>1, <3>2, DigestKept
  <2>5. QED
    BY <2>1, <2>2, <2>3, <2>4
<1>5. QED
  BY <1>1, <1>2, <1>3, <1>4

\* A failed read keeps IInv: the finally block finds all queues level.
LEMMA ReadFailsStep == IInv /\ ReadFails => IInv'
<1> USE NAssumption, NBlocksAssumption, NoneAssumption
<1> SUFFICES ASSUME IInv, ReadFails PROVE IInv'
  OBVIOUS
<1> USE DEF IInv, ReadFails, Turn, PutOn, Finally, Parallel, Total, Handlers, args, queues
<1>1. TypeOK'
  BY DEF TypeOK, MainInv, Sources, MainStates, WorkerStates
<1>2. MainInv'
  BY DEF TypeOK, MainInv
<1>3. HandleInv'
  BY DEF TypeOK, MainInv, HandleInv, HandlerOK, LifeOK, Running, StartFailed, MainStates
<1>4. ASSUME NEW c \in Handlers PROVE HandlerOK(c)'
  <2> USE DEF HandlerOK
  <2>1. QueueOK(c)'
    <3>1. Handed(c)' = Handed(c)
      BY DEF Handed, MainInv
    <3>2. Parallel => ~Stopped(c) /\ ~Stopped(c)'
      BY DEF TypeOK, MainInv, Stopped, Terminal
    <3>3. QED
      BY <3>1, <3>2, QueueKept
  <2>2. WorkerOK(c)'
    BY DEF TypeOK, MainInv, QueueOK, WorkerOK, Stopped, Terminal
  <2>3. LifeOK(c)'
    BY DEF TypeOK, MainInv, LifeOK, Running
  <2>4. DigestOK(c)'
    BY DEF TypeOK, MainInv, DigestOK, Handed
  <2>5. QED
    BY <2>1, <2>2, <2>3, <2>4
<1>5. QED
  BY <1>1, <1>2, <1>3, <1>4

\* Feeding a handler from the reading thread keeps IInv.
LEMMA UpdateStep == IInv /\ Update => IInv'
<1> USE NAssumption, NBlocksAssumption, NoneAssumption
<1> SUFFICES ASSUME IInv, Update PROVE IInv'
  OBVIOUS
<1> USE DEF IInv, Update, Turn, PutOn, Finally, Parallel, Total, Handlers, args, queues
<1>1. TypeOK'
  BY SMTT(30) DEF TypeOK, MainInv, Sources, MainStates, WorkerStates
<1>2. MainInv'
  BY DEF TypeOK, MainInv
<1>3. HandleInv'
  BY DEF TypeOK, MainInv, HandleInv, HandlerOK, LifeOK, Running, StartFailed, MainStates
<1>4. ASSUME NEW c \in Handlers PROVE HandlerOK(c)'
  <2> USE DEF HandlerOK
  <2>1. QueueOK(c)'
    BY DEF TypeOK, MainInv, QueueOK, Handed, Stopped, Terminal
  <2>2. WorkerOK(c)'
    <3>1. worker[c] = "new"
      BY DEF LifeOK
    <3>2. QED
      BY <3>1 DEF WorkerOK
  <2>3. LifeOK(c)'
    BY DEF TypeOK, MainInv, LifeOK, Running
  <2>4. DigestOK(c)'
    <3>1. /\ Len(digest[c]) = Handed(c) /\ block > 0 /\ block \in Nat
          /\ next \in 1..N
      BY DEF TypeOK, MainInv, DigestOK
    <3>2. CASE c = next
      <4>1. /\ Len(digest[c]) = block - 1 /\ Handed(c)' = block
            /\ digest'[c] = Append(digest[c], block)
        BY <3>1, <3>2 DEF TypeOK, Handed
      <4>2. QED
        BY <3>1, <4>1, DigestGrows
    <3>3. CASE c # next
      <4>1. digest'[c] = digest[c] /\ Handed(c)' = Handed(c)
        BY <3>1, <3>3 DEF TypeOK, Handed
      <4>2. QED
        BY <3>1, <4>1, DigestKept DEF MainInv
    <3>4. QED
      BY <3>2, <3>3
  <2>5. QED
    BY <2>1, <2>2, <2>3, <2>4
<1>5. QED
  BY <1>1, <1>2, <1>3, <1>4

\* An update() that raises in the reading thread keeps IInv.
LEMMA UpdateRaisesStep == IInv /\ UpdateRaises => IInv'
<1> USE NAssumption, NBlocksAssumption, NoneAssumption
<1> SUFFICES ASSUME IInv, UpdateRaises PROVE IInv'
  OBVIOUS
<1> USE DEF IInv, UpdateRaises, Turn, PutOn, Finally, Parallel, Total, Handlers, args, queues
<1>1. TypeOK'
  BY DEF TypeOK, MainInv, Sources, MainStates, WorkerStates
<1>2. MainInv'
  BY DEF TypeOK, MainInv
<1>3. HandleInv'
  BY DEF TypeOK, MainInv, HandleInv, HandlerOK, LifeOK, Running, StartFailed, MainStates
<1>4. ASSUME NEW c \in Handlers PROVE HandlerOK(c)'
  <2> USE DEF HandlerOK
  <2>1. QueueOK(c)'
    BY QueueKept
  <2>2. WorkerOK(c)'
    BY DEF TypeOK, MainInv, QueueOK, WorkerOK, Stopped, Terminal
  <2>3. LifeOK(c)'
    BY DEF TypeOK, MainInv, LifeOK, Running
  <2>4. DigestOK(c)'
    BY DEF TypeOK, MainInv, DigestOK, Handed
  <2>5. QED
    BY <2>1, <2>2, <2>3, <2>4
<1>5. QED
  BY <1>1, <1>2, <1>3, <1>4

\* Putting a block on a queue keeps IInv: it is the next one in order.
LEMMA PutStep == IInv /\ Put => IInv'
<1> USE NAssumption, NBlocksAssumption, NoneAssumption
<1> SUFFICES ASSUME IInv, Put PROVE IInv'
  OBVIOUS
<1> USE DEF IInv, Put, Turn, PutOn, Finally, Parallel, Total, Handlers, args, queues
<1>1. TypeOK'
  <2>1. sent' \in [Handlers -> Seq(Nat \cup {None})]
    BY AppendFacts DEF TypeOK
  <2>2. QED
    BY <2>1 DEF TypeOK, MainStates
<1>2. MainInv'
  BY DEF TypeOK, MainInv
<1>3. HandleInv'
  BY DEF TypeOK, MainInv, HandleInv, HandlerOK, LifeOK, Running, StartFailed, MainStates
<1>4. ASSUME NEW c \in Handlers PROVE HandlerOK(c)'
  <2> USE DEF HandlerOK
  <2>1. QueueOK(c)'
    BY SMTT(30) DEF TypeOK, MainInv, QueueOK, Handed, Stopped, Terminal
  <2>2. WorkerOK(c)'
    <3>1. /\ Len(sent[c]) \in Nat /\ Len(sent'[c]) \in Nat /\ got[c] \in Nat
          /\ \A k \in 1..Len(sent[c]) : sent'[c][k] = sent[c][k]
      BY AppendFacts, SMTT(30) DEF TypeOK
    <3>2. worker[c] # "done"
      BY DEF WorkerOK, Stopped, Terminal
    <3>3. QED
      BY <3>1, <3>2 DEF WorkerOK, QueueOK
  <2>3. LifeOK(c)'
    BY DEF TypeOK, MainInv, LifeOK, Running
  <2>4. DigestOK(c)'
    BY DEF TypeOK, MainInv, DigestOK, Handed
  <2>5. QED
    BY <2>1, <2>2, <2>3, <2>4
<1>5. QED
  BY <1>1, <1>2, <1>3, <1>4

\* Putting the sentinel keeps IInv: it follows the last block.
LEMMA PutSentinelStep == IInv /\ PutSentinel => IInv'
<1> USE NAssumption, NBlocksAssumption, NoneAssumption
<1> SUFFICES ASSUME IInv, PutSentinel PROVE IInv'
  OBVIOUS
<1> USE DEF IInv, PutSentinel, Turn, PutOn, Finally, Parallel, Total, Handlers, args, queues
<1>1. TypeOK'
  BY SMTT(30) DEF TypeOK, MainInv, Sources, MainStates, WorkerStates
<1>2. MainInv'
  BY DEF TypeOK, MainInv
<1>3. HandleInv'
  BY DEF TypeOK, MainInv, HandleInv, HandlerOK, LifeOK, Running, StartFailed, MainStates
<1>4. ASSUME NEW c \in Handlers PROVE HandlerOK(c)'
  <2> USE DEF HandlerOK
  <2>1. QueueOK(c)'
    <3>1. next \in 1..N /\ block \in Nat /\ Handed(c) = block /\ Handed(c)' = block
      BY DEF TypeOK, Handed
    <3>2. CASE c = next
      <4>1. ~Stopped(c) /\ Stopped(c)'
        BY <3>1, <3>2 DEF Stopped, Terminal
      <4>2. sent'[c] = Append(sent[c], None) /\ got'[c] = got[c]
        BY <3>2 DEF TypeOK
      <4>3. QED
        BY <3>1, <4>1, <4>2, QueueGrows DEF MainInv
    <3>3. CASE c # next
      <4>1. sent'[c] = sent[c] /\ got'[c] = got[c]
        BY <3>3 DEF TypeOK
      <4>2. Stopped(c) <=> Stopped(c)'
        BY <3>1, <3>3 DEF Stopped, Terminal
      <4>3. QED
        BY <3>1, <4>1, <4>2, QueueKept
    <3>4. QED
      BY <3>2, <3>3
  <2>2. WorkerOK(c)'
    <3>1. /\ next \in 1..N /\ Len(sent[c]) \in Nat /\ got[c] \in Nat
          /\ got[c] <= Len(sent[c])
      BY DEF TypeOK, QueueOK
    <3>2. \A k \in 1..got[c] : sent'[c][k] = sent[c][k]
      BY <3>1, AppendFacts DEF TypeOK
    <3>3. worker[c] = "done" => sent'[c] = sent[c] /\ Stopped(c)'
      <4>1. worker[c] = "done" => c < next
        BY DEF WorkerOK, Stopped, Terminal
      <4>2. QED
        BY <3>1, <4>1 DEF TypeOK, Stopped, Terminal
    <3>4. worker' = worker /\ got' = got /\ digest' = digest
      OBVIOUS
    <3>5. QED
      BY <3>2, <3>3, <3>4 DEF WorkerOK
  <2>3. LifeOK(c)'
    BY DEF TypeOK, MainInv, LifeOK, Running
  <2>4. DigestOK(c)'
    BY DEF TypeOK, MainInv, DigestOK, Handed
  <2>5. QED
    BY <2>1, <2>2, <2>3, <2>4
<1>5. QED
  BY <1>1, <1>2, <1>3, <1>4

\* Waiting for a consumer keeps IInv.
LEMMA JoinStep == IInv /\ Join => IInv'
<1> USE NAssumption, NBlocksAssumption, NoneAssumption
<1> SUFFICES ASSUME IInv, Join PROVE IInv'
  OBVIOUS
<1> USE DEF IInv, Join, Turn, PutOn, Finally, Parallel, Total, Handlers, args, queues
<1>1. TypeOK'
  BY DEF TypeOK, MainInv, Sources, MainStates, WorkerStates
<1>2. MainInv'
  BY DEF TypeOK, MainInv
<1>3. HandleInv'
  BY DEF TypeOK, MainInv, HandleInv, HandlerOK, LifeOK, Running, StartFailed, MainStates
<1>4. ASSUME NEW c \in Handlers PROVE HandlerOK(c)'
  <2> USE DEF HandlerOK
  <2>1. QueueOK(c)'
    BY DEF TypeOK, MainInv, QueueOK, Handed, Stopped, Terminal
  <2>2. WorkerOK(c)'
    BY DEF TypeOK, MainInv, QueueOK, WorkerOK, Stopped, Terminal
  <2>3. LifeOK(c)'
    BY DEF TypeOK, MainInv, LifeOK, Running
  <2>4. DigestOK(c)'
    BY DEF TypeOK, MainInv, DigestOK, Handed
  <2>5. QED
    BY <2>1, <2>2, <2>3, <2>4
<1>5. QED
  BY <1>1, <1>2, <1>3, <1>4

\* Closing keeps IInv: all consumers are over by then.
LEMMA CloseStep == IInv /\ Close => IInv'
<1> USE NAssumption, NBlocksAssumption, NoneAssumption
<1> SUFFICES ASSUME IInv, Close PROVE IInv'
  OBVIOUS
<1> USE DEF IInv, Close, Turn, PutOn, Finally, Parallel, Total, Handlers, args, queues
<1>1. TypeOK'
  BY DEF TypeOK, MainInv, Sources, MainStates, WorkerStates
<1>2. MainInv'
  BY DEF TypeOK, MainInv
<1>3. HandleInv'
  BY DEF TypeOK, MainInv, HandleInv, HandlerOK, LifeOK, Running, StartFailed, MainStates
<1>4. ASSUME NEW c \in Handlers PROVE HandlerOK(c)'
  <2> USE DEF HandlerOK
  <2>1. QueueOK(c)'
    BY DEF TypeOK, MainInv, QueueOK, Handed, Stopped, Terminal
  <2>2. WorkerOK(c)'
    BY DEF TypeOK, MainInv, QueueOK, WorkerOK, Stopped, Terminal
  <2>3. LifeOK(c)'
    BY DEF TypeOK, MainInv, LifeOK, Running
  <2>4. DigestOK(c)'
    BY DEF TypeOK, MainInv, DigestOK, Handed
  <2>5. QED
    BY <2>1, <2>2, <2>3, <2>4
<1>5. QED
  BY <1>1, <1>2, <1>3, <1>4

\* Taking an item keeps IInv: the sentinel is the last item there is.
LEMMA GetStep == ASSUME NEW c \in Handlers, IInv, Get(c) PROVE IInv'
<1> USE NAssumption, NoneAssumption
<1> USE DEF IInv, Get, Parallel, Total, args, queues
<1>1. TypeOK'
  BY DEF TypeOK, WorkerStates
<1>2. MainInv'
  BY DEF TypeOK, MainInv
<1>3. HandleInv'
  BY DEF TypeOK, HandleInv, HandlerOK, LifeOK, QueueOK, Running, StartFailed, MainStates
<1>4. ASSUME NEW d \in Handlers PROVE HandlerOK(d)'
  <2> USE DEF HandlerOK
  <2>1. QueueOK(d)'
    BY DEF TypeOK, QueueOK, Handed, Stopped, Terminal
  <2>2. WorkerOK(d)'
    <3>1. CASE d = c
      <4>1. worker[c] = "get" /\ got[c] < Len(sent[c]) /\ got'[c] = got[c] + 1
        BY DEF TypeOK
      <4>2. CASE sent[c][got[c] + 1] = None
        <5>1. Stopped(c) /\ got[c] + 1 = Len(sent[c])
          <6>1. got[c] + 1 \in 1..Len(sent[c]) /\ got[c] + 1 # None
            BY <4>1 DEF TypeOK
          <6>2. QED
            BY <4>2, <6>1 DEF QueueOK
        <5>2. worker'[c] = "done" /\ Stopped(c)'
          BY <4>2, <5>1 DEF TypeOK, Stopped, Terminal
        <5>3. QED
          BY <3>1, <4>1, <5>1, <5>2 DEF TypeOK, WorkerOK
      <4>3. CASE sent[c][got[c] + 1] # None
        <5>1. worker'[c] = "call"
          BY <4>3 DEF TypeOK
        <5>2. QED
          BY <3>1, <4>1, <4>3, <5>1 DEF TypeOK, WorkerOK
      <4>4. QED
        BY <4>2, <4>3
    <3>2. CASE d # c
      BY <3>2 DEF TypeOK, WorkerOK, Stopped, Terminal
    <3>3. QED
      BY <3>1, <3>2
  <2>3. LifeOK(d)'
    BY DEF TypeOK, LifeOK, Running
  <2>4. DigestOK(d)'
    BY DEF TypeOK, DigestOK, Handed
  <2>5. QED
    BY <2>1, <2>2, <2>3, <2>4
<1>5. QED
  BY <1>1, <1>2, <1>3, <1>4

\* Absorbing a block keeps IInv: what is held is the next block, not the sentinel.
LEMMA CallbackStep == ASSUME NEW c \in Handlers, IInv, Callback(c) PROVE IInv'
<1> USE NAssumption, NoneAssumption
<1> USE DEF IInv, Callback, Parallel, Total, args, queues
<1>0. /\ got[c] \in 1..Len(sent[c]) /\ Held(c) = got[c]
      /\ Len(digest[c]) = got[c] - 1 /\ got[c] <= block
      /\ Parallel
  <2>1. /\ got[c] \in Nat /\ Len(sent[c]) \in Nat /\ block \in Nat
        /\ worker[c] = "call"
    BY DEF TypeOK
  <2>2. /\ got[c] \in 1..Len(sent[c]) /\ Len(digest[c]) = got[c] - 1
        /\ sent[c][got[c]] # None
    BY <2>1 DEF HandlerOK, QueueOK, WorkerOK
  <2>3. Parallel
    BY <2>1 DEF HandlerOK, LifeOK
  <2>4. sent[c][got[c]] = got[c] /\ got[c] <= Handed(c)
    BY <2>1, <2>2, <2>3 DEF HandlerOK, QueueOK, Handed
  <2>5. QED
    BY <2>1, <2>2, <2>3, <2>4 DEF Held, Handed
<1>1. TypeOK'
  <2>1. Held(c) \in Nat
    BY <1>0 DEF TypeOK
  <2>2. digest' \in [Handlers -> Seq(Nat)]
    BY <2>1, AppendFacts DEF TypeOK
  <2>3. QED
    BY <2>2 DEF TypeOK, WorkerStates
<1>2. MainInv'
  BY DEF TypeOK, MainInv
<1>3. HandleInv'
  BY DEF TypeOK, HandleInv, HandlerOK, LifeOK, QueueOK, Running, StartFailed, MainStates
<1>4. ASSUME NEW d \in Handlers PROVE HandlerOK(d)'
  <2> USE DEF HandlerOK
  <2>1. QueueOK(d)'
    BY DEF TypeOK, QueueOK, Handed, Stopped, Terminal
  <2>2. WorkerOK(d)'
    <3>1. CASE d = c
      <4>1. digest'[c] = Append(digest[c], got[c]) /\ digest[c] \in Seq(Nat)
        BY <1>0 DEF TypeOK
      <4>2. QED
        BY <1>0, <3>1, <4>1, AppendFacts DEF TypeOK, WorkerOK
    <3>2. CASE d # c
      BY <3>2 DEF TypeOK, WorkerOK, Stopped, Terminal
    <3>3. QED
      BY <3>1, <3>2
  <2>3. LifeOK(d)'
    BY DEF TypeOK, LifeOK, Running
  <2>4. DigestOK(d)'
    <3>1. CASE d = c
      <4>1. digest'[c] = Append(digest[c], got[c]) /\ digest[c] \in Seq(Nat)
        BY <1>0 DEF TypeOK
      <4>2. QED
        BY <1>0, <3>1, <4>1, AppendFacts DEF TypeOK, DigestOK
    <3>2. CASE d # c
      BY <3>2 DEF TypeOK, DigestOK, Handed
    <3>3. QED
      BY <3>1, <3>2
  <2>5. QED
    BY <2>1, <2>2, <2>3, <2>4
<1>5. QED
  BY <1>1, <1>2, <1>3, <1>4

\* A consumer that crashes keeps IInv: it never takes an item again.
LEMMA CallbackRaisesStep == ASSUME NEW c \in Handlers, IInv, CallbackRaises(c) PROVE IInv'
<1> USE NAssumption, NoneAssumption
<1> USE DEF IInv, CallbackRaises, Parallel, Total, args, queues
<1>1. TypeOK'
  BY DEF TypeOK, WorkerStates
<1>2. MainInv'
  BY DEF TypeOK, MainInv
<1>3. HandleInv'
  BY DEF TypeOK, HandleInv, HandlerOK, LifeOK, QueueOK, Running, StartFailed, MainStates
<1>4. ASSUME NEW d \in Handlers PROVE HandlerOK(d)'
  <2> USE DEF HandlerOK
  <2>1. QueueOK(d)'
    BY DEF TypeOK, QueueOK, Handed, Stopped, Terminal
  <2>2. WorkerOK(d)'
    BY DEF TypeOK, QueueOK, WorkerOK, Stopped, Terminal
  <2>3. LifeOK(d)'
    BY DEF TypeOK, LifeOK, Running
  <2>4. DigestOK(d)'
    BY DEF TypeOK, DigestOK, Handed
  <2>5. QED
    BY <2>1, <2>2, <2>3, <2>4
<1>5. QED
  BY <1>1, <1>2, <1>3, <1>4

\* IInv holds in every reachable state: it is true at first and every step of
\* either kind of thread keeps it.
THEOREM Inductive == Spec => []IInv
<1>1. IInv /\ [Next]_vars => IInv'
  <2> SUFFICES ASSUME IInv, [Next]_vars PROVE IInv'
    OBVIOUS
  <2>1. CASE Main
    BY <2>1, OpenStep, OpenFailsStep, StartThreadStep, StartFailsStep, ReadStep,
       ReadFailsStep, UpdateStep, UpdateRaisesStep, PutStep, PutSentinelStep,
       JoinStep, CloseStep DEF Main
  <2>2. ASSUME NEW c \in Handlers, Worker(c) PROVE IInv'
    BY <2>2, GetStep, CallbackStep, CallbackRaisesStep DEF Worker
  <2>3. CASE UNCHANGED vars
    <3> USE <2>3 DEF vars, IInv
    <3>1. TypeOK' /\ MainInv'
      BY DEF TypeOK, MainInv, Total, Parallel
    <3>2. HandleInv'
      BY DEF HandleInv, StartFailed, Parallel, Running
    <3>3. ASSUME NEW c \in Handlers PROVE HandlerOK(c)'
      <4>1. QueueOK(c)' /\ WorkerOK(c)'
        BY DEF HandlerOK, QueueOK, WorkerOK, Parallel, Handed, Stopped, Terminal
      <4>2. LifeOK(c)' /\ DigestOK(c)'
        BY DEF HandlerOK, LifeOK, DigestOK, Parallel, Handed, Running
      <4>3. QED
        BY <4>1, <4>2 DEF HandlerOK
    <3>4. QED
      BY <3>1, <3>2, <3>3
  <2>4. QED
    BY <2>1, <2>2, <2>3 DEF Next
<1>2. QED
  BY InitInv, <1>1, PTL DEF Spec

\* Every variable keeps its type: in particular no digest ever absorbs a sentinel.
THEOREM TypeCorrect == Spec => []TypeOK
<1>1. IInv => TypeOK
  BY DEF IInv
<1>2. QED
  BY <1>1, Inductive, PTL

\* loop_over_file closes the file or mmap only once no consumer can use it.
THEOREM ClosesLast == Spec => []ClosedAfterLastUse
<1>1. IInv => ClosedAfterLastUse
  <2> SUFFICES ASSUME IInv, handle = "closed", NEW c \in Handlers PROVE ~Running(c)
    BY DEF ClosedAfterLastUse
  <2>1. pc \in {"returned", "raised"}
    BY DEF IInv, TypeOK, HandleInv, MainStates
  <2>2. CASE pc = "returned"
    BY <2>2 DEF IInv, HandlerOK, LifeOK
  <2>3. CASE pc = "raised"
    BY <2>3 DEF IInv, HandleInv, StartFailed
  <2>4. QED
    BY <2>1, <2>2, <2>3
<1>2. QED
  BY <1>1, Inductive, PTL

\* loop_over_file leaves no consumer and no file open behind, however it ends.
THEOREM LeavesNothing == Spec => []NothingLeftRunning
<1>1. IInv => NothingLeftRunning
  <2> SUFFICES ASSUME IInv, Terminal, ~StartFailed
               PROVE  (\A c \in Handlers : ~Running(c)) /\ (owned => handle # "open")
    BY DEF NothingLeftRunning
  <2>1. CASE pc = "returned"
    BY <2>1 DEF IInv, HandlerOK, LifeOK, HandleInv
  <2>2. CASE pc = "raised"
    BY <2>2 DEF IInv, HandleInv, Running
  <2>3. QED
    BY <2>1, <2>2 DEF Terminal
<1>2. QED
  BY <1>1, Inductive, PTL

\* At the end of a run without a pending exception each handler has had it all.
LEMMA AllAbsorbed ==
  ASSUME IInv, pc \in {"close", "returned"}, ~exc,
         NEW c \in Handlers, worker[c] # "crashed"
  PROVE  /\ Len(digest[c]) = Total
         /\ digest[c] \in Seq(Nat)
         /\ \A k \in 1..Total : digest[c][k] = k
<1>1. block = Total /\ block \in Nat /\ digest[c] \in Seq(Nat)
  BY DEF IInv, MainInv, TypeOK
<1>2. Len(digest[c]) = block
  <2>1. CASE Parallel
    <3>1. worker[c] = "done"
      BY <2>1 DEF IInv, TypeOK, WorkerStates, HandlerOK, LifeOK, Running
    <3>2. /\ Stopped(c) /\ got[c] = Len(sent[c]) /\ got[c] \in Nat
          /\ Len(digest[c]) = got[c] - 1
      BY <3>1 DEF IInv, TypeOK, HandlerOK, WorkerOK
    <3>3. got[c] = block + 1
      BY <2>1, <3>2 DEF IInv, HandlerOK, QueueOK, Handed
    <3>4. QED
      BY <1>1, <3>2, <3>3
  <2>2. CASE ~Parallel
    BY <2>2 DEF IInv, HandlerOK, DigestOK, Handed
  <2>3. QED
    BY <2>1, <2>2
<1>3. QED
  BY <1>1, <1>2 DEF IInv, HandlerOK, DigestOK

\* The digests that chksum_loop_over_file reads after a normal return are those
\* of the whole file, for every handler whose update() did not raise.
THEOREM Completes == Spec => []CompleteOnReturn
<1>1. IInv => CompleteOnReturn
  <2> SUFFICES ASSUME IInv, pc = "returned", NEW c \in Handlers \ Crashed
               PROVE  digest[c] = [k \in 1..Total |-> k]
    BY DEF CompleteOnReturn
  <2>1. c \in Handlers /\ worker[c] # "crashed" /\ ~exc
    BY DEF Crashed, IInv, MainInv
  <2>2. /\ Len(digest[c]) = Total /\ digest[c] \in Seq(Nat)
        /\ \A k \in 1..Total : digest[c][k] = k
    BY <2>1, AllAbsorbed
  <2>3. QED
    BY <2>2, SMTT(30)
<1>2. QED
  BY <1>1, Inductive, PTL

\* The number of blocks is a number.
LEMMA TotalNat == IInv => Total \in Nat
  BY NBlocksAssumption DEF Total

\* Initial states are initial states of the promise.
LEMMA PromiseInit == Init => Promise!Init
<1> SUFFICES ASSUME Init PROVE Promise!Init
  OBVIOUS
<1>1. Total \in Nat
  BY NBlocksAssumption DEF Total
<1>2. Crashed = {} /\ Outcome = "running"
  BY DEF Init, Crashed, Outcome, Terminal
<1>3. QED
  BY <1>1, <1>2 DEF Init, Promise!Init

\* A step that changes neither a digest, nor which threads crashed, nor whether
\* the call is over, is a stutter of the promise.
LEMMA Stutters ==
  ASSUME UNCHANGED <<args, digest>>, Crashed' = Crashed, Outcome' = Outcome
  PROVE  UNCHANGED Promise!vars
<1>1. Total' = Total
  BY DEF args, Total
<1>2. QED
  BY <1>1 DEF Promise!vars

\* A step of the reading thread is a step of the promise, or a stutter.
LEMMA PromiseMain == IInv /\ Main => [Promise!Next]_(Promise!vars)
<1> SUFFICES ASSUME IInv, Main PROVE [Promise!Next]_(Promise!vars)
  OBVIOUS
<1>1. UNCHANGED args /\ Total' = Total
  BY DEF Main, Open, OpenFails, StartThread, StartFails, Read, ReadFails, Update,
         UpdateRaises, Put, PutSentinel, Join, Close, args, Total
<1>2. CASE OpenFails \/ StartFails
  <2>1. Outcome = "running" /\ Outcome' = "raised" /\ Crashed' = Crashed
    BY <1>2 DEF OpenFails, StartFails, Outcome, Terminal, Crashed
  <2>2. Promise!Raise
    BY <1>1, <1>2, <2>1 DEF OpenFails, StartFails, Promise!Raise
  <2>3. QED
    BY <2>2 DEF Promise!Next
<1>3. CASE Update
  <2>1. /\ Outcome = "running" /\ Outcome' = Outcome /\ Crashed' = Crashed
        /\ next \in Handlers /\ block \in Nat
    BY <1>3 DEF Update, Turn, Outcome, Terminal, Crashed, IInv, TypeOK
  <2>2. worker[next] = "new"
    BY <1>3, <2>1 DEF Update, IInv, HandlerOK, LifeOK
  <2>3. next \notin Crashed
    BY <2>2 DEF Crashed
  <2>4. Len(digest[next]) = block - 1 /\ block <= Total
    <3>1. ~exc /\ block <= Total
      BY <1>3 DEF Update, IInv, MainInv
    <3>2. Len(digest[next]) = Handed(next) /\ next >= next
      BY <1>3, <2>1, <3>1 DEF Update, IInv, HandlerOK, DigestOK, Handlers
    <3>3. QED
      BY <1>3, <3>1, <3>2 DEF Update, Handed
  <2>5. digest' = [digest EXCEPT ![next] = Append(@, Len(@) + 1)]
    BY <1>3, <2>1, <2>4 DEF Update, IInv, TypeOK
  <2>6. Promise!Absorb(next)
    BY <1>1, <2>1, <2>3, <2>4, <2>5, TotalNat DEF Promise!Absorb
  <2>7. QED
    BY <2>1, <2>6 DEF Promise!Next
<1>4. CASE Close
  <2>1. Outcome = "running" /\ Crashed' = Crashed /\ digest' = digest
    BY <1>4 DEF Close, Outcome, Terminal, Crashed
  <2>2. CASE exc
    <3>1. Outcome' = "raised"
      BY <1>4, <2>2 DEF Close, Outcome, Terminal
    <3>2. QED
      BY <1>1, <2>1, <3>1 DEF Promise!Raise, Promise!Next
  <2>3. CASE ~exc
    <3>1. Outcome' = "returned"
      BY <1>4, <2>3 DEF Close, Outcome, Terminal
    <3>2. ASSUME NEW c \in Handlers \ Crashed PROVE Len(digest[c]) = Total
      <4>1. pc = "close" /\ worker[c] # "crashed"
        BY <1>4 DEF Close, Crashed
      <4>2. QED
        BY <2>3, <4>1, AllAbsorbed
    <3>3. QED
      BY <1>1, <2>1, <3>1, <3>2 DEF Promise!Return, Promise!Next
  <2>4. QED
    BY <2>2, <2>3
<1>5. CASE StartThread
  <2>1. Outcome' = Outcome
    BY <1>5 DEF StartThread, Turn, Outcome, Terminal
  <2>2. Crashed' = Crashed
    BY <1>5 DEF StartThread, Crashed, IInv, TypeOK, HandlerOK, LifeOK, Handlers
  <2>3. QED
    BY <1>5, <2>1, <2>2, Stutters DEF StartThread
<1>6. CASE Open \/ Read \/ ReadFails \/ UpdateRaises
  <2>1. Outcome' = Outcome /\ Crashed' = Crashed /\ digest' = digest
    BY <1>6 DEF Open, Read, ReadFails, UpdateRaises, Finally, Outcome, Terminal, Crashed
  <2>2. QED
    BY <1>1, <2>1, Stutters
<1>7. CASE Put \/ PutSentinel \/ Join
  <2>1. Outcome' = Outcome /\ Crashed' = Crashed /\ digest' = digest
    BY <1>7 DEF Put, PutSentinel, Join, Turn, Outcome, Terminal, Crashed
  <2>2. QED
    BY <1>1, <2>1, Stutters
<1>8. QED
  BY <1>2, <1>3, <1>4, <1>5, <1>6, <1>7 DEF Main

\* A step of a consumer is a step of the promise, or a stutter.
LEMMA PromiseWorker ==
  ASSUME IInv, NEW c \in Handlers, Worker(c)
  PROVE  [Promise!Next]_(Promise!vars)
<1>1. UNCHANGED args /\ Total' = Total /\ Outcome' = Outcome
  BY DEF Worker, Get, Callback, CallbackRaises, args, Total, Outcome, Terminal
<1>2. CASE Get(c)
  <2>1. Crashed' = Crashed /\ digest' = digest
    BY <1>2 DEF Get, Crashed, IInv, TypeOK
  <2>2. QED
    BY <1>1, <2>1, Stutters
<1>3. ASSUME worker[c] = "call"
      PROVE  /\ Outcome = "running"
             /\ Len(digest[c]) + 1 = got[c] /\ Held(c) = got[c] /\ got[c] <= Total
  <2>1. /\ got[c] \in Nat /\ got[c] > 0 /\ Len(sent[c]) \in Nat /\ block \in Nat
        /\ got[c] <= Len(sent[c]) /\ Len(digest[c]) = got[c] - 1
        /\ sent[c][got[c]] # None /\ Running(c) /\ Parallel
    BY <1>3 DEF IInv, TypeOK, HandlerOK, WorkerOK, QueueOK, LifeOK, Running
  <2>2. pc # "returned"
    BY <2>1 DEF IInv, HandlerOK, LifeOK
  <2>3. pc # "raised"
    BY <1>3, <2>1 DEF IInv, HandleInv
  <2>4. sent[c][got[c]] = got[c]
    BY <2>1 DEF IInv, HandlerOK, QueueOK
  <2>5. got[c] <= block
    BY <2>1, <2>4 DEF IInv, HandlerOK, QueueOK, Handed
  <2>6. block <= Total /\ Total \in Nat
    BY TotalNat DEF IInv, MainInv
  <2>7. QED
    BY <2>1, <2>2, <2>3, <2>4, <2>5, <2>6 DEF Held, Outcome, Terminal
<1>4. CASE Callback(c)
  <2>1. Crashed' = Crashed /\ c \notin Crashed
    BY <1>4 DEF Callback, Crashed, IInv, TypeOK
  <2>2. /\ Outcome = "running" /\ Len(digest[c]) < Total
        /\ Held(c) = Len(digest[c]) + 1
    BY <1>3, <1>4, TotalNat DEF Callback, IInv, TypeOK
  <2>3. digest' = [digest EXCEPT ![c] = Append(@, Len(@) + 1)]
    BY <1>4, <2>2 DEF Callback
  <2>4. Promise!Absorb(c)
    BY <1>1, <2>1, <2>2, <2>3 DEF Promise!Absorb
  <2>5. QED
    BY <2>4 DEF Promise!Next
<1>5. CASE CallbackRaises(c)
  <2>1. Outcome = "running" /\ digest' = digest
    BY <1>3, <1>5 DEF CallbackRaises
  <2>2. Crashed' = Crashed \cup {c}
    BY <1>5 DEF CallbackRaises, Crashed, IInv, TypeOK
  <2>3. Promise!Break(c)
    BY <1>1, <2>1, <2>2 DEF Promise!Break
  <2>4. QED
    BY <2>3 DEF Promise!Next
<1>6. QED
  BY <1>2, <1>4, <1>5 DEF Worker

\* The loop over threads and queues implements ChksumPromise, for every number
\* of handlers, queue size and file length.
THEOREM Implements == Spec => PromiseSpec
<1>1. IInv /\ [Next]_vars => [Promise!Next]_(Promise!vars)
  <2> SUFFICES ASSUME IInv, [Next]_vars PROVE [Promise!Next]_(Promise!vars)
    OBVIOUS
  <2>1. CASE UNCHANGED vars
    <3>1. Crashed' = Crashed /\ Outcome' = Outcome /\ UNCHANGED <<args, digest>>
      BY <2>1 DEF vars, args, Crashed, Outcome, Terminal
    <3>2. QED
      BY <3>1, Stutters
  <2>2. QED
    BY <2>1, PromiseMain, PromiseWorker DEF Next
<1>2. QED
  BY PromiseInit, Inductive, <1>1, PTL DEF Spec, PromiseSpec, Promise!Spec
=============================================================================
