--------------------------------- MODULE Spawn ---------------------------------
(***************************************************************************)
(* process.spawn: spawn(), spawn_get_output() and cleanup_pids(), called   *)
(* by threads or signal handlers of one program, over a process table that *)
(* hands pids out again.  Each action is what a thread does up to its next *)
(* system call or its next look at the shared list.                        *)
(***************************************************************************)
EXTENDS Naturals, Sequences

Seqs == INSTANCE SequencesExt

CONSTANTS
  Threads,
  Pids,
  MaxList     \* bound: length of spawned_pids

VARIABLES
  status,        \* per pid: what its process does, "free" if there is none
  parent,        \* per pid: the thread whose call forked it, or whose it is now
  spawned_pids,  \* the list, newest last
  pc,            \* per thread: what it does next, "idle" outside of the module
  mode,          \* per thread: the call it is in
  pid,           \* per thread: the pid in hand
  pids,          \* per thread: the private list of cleanup_pids(list)
  forgotten,     \* history: pids that an exception made the module forget
  reused         \* history: a number in use was given to another process

svars == <<status, parent, spawned_pids, pc, mode, pid, pids, forgotten, reused>>

Nobody == "nobody"    \* no pid; no parent
Caller == "caller"    \* spawn() returned the pid, its caller waits for it
Foreign == "foreign"  \* the process was not started by this module
Left == "left"        \* the call that started it has ended with an exception

Init ==
  /\ status = [p \in Pids |-> "free"]
  /\ parent = [p \in Pids |-> Nobody]
  /\ spawned_pids = <<>>
  /\ pc = [t \in Threads |-> "idle"]
  /\ mode = [t \in Threads |-> "none"]
  /\ pid = [t \in Threads |-> Nobody]
  /\ pids = [t \in Threads |-> <<>>]
  /\ forgotten = {}
  /\ reused = FALSE

---------------------------------------------------------------------------
(* The process table.                                                      *)

Child(p) == status[p] # "free"

InUse(p) ==
  \/ \E i \in DOMAIN spawned_pids : spawned_pids[i] = p
  \/ \E t \in Threads : pid[t] = p \/ \E i \in DOMAIN pids[t] : pids[t][i] = p

Start(p, whose) ==
  /\ ~Child(p)
  /\ status' = [status EXCEPT ![p] = "running"]
  /\ parent' = [parent EXCEPT ![p] = whose]
  /\ reused' = (reused \/ InUse(p))
  /\ forgotten' = forgotten \ {p}

\* waitpid() returns: the number is free again.
Reap(p) ==
  /\ status' = [status EXCEPT ![p] = "free"]
  /\ parent' = [parent EXCEPT ![p] = Nobody]
  /\ forgotten' = forgotten \ {p}

ForeignStart(p) ==
  /\ Start(p, Foreign)
  /\ UNCHANGED <<spawned_pids, pc, mode, pid, pids>>

Exit(p) ==
  /\ status[p] = "running"
  /\ status' = [status EXCEPT ![p] = "zombie"]
  /\ UNCHANGED <<parent, spawned_pids, pc, mode, pid, pids, forgotten, reused>>

\* Whoever started a foreign process, or got a pid from spawn(), waits for it himself.
OwnerReaps(p) ==
  /\ parent[p] \in {Foreign, Caller}
  /\ status[p] = "zombie"
  /\ Reap(p)
  /\ UNCHANGED <<spawned_pids, pc, mode, pid, pids, reused>>

---------------------------------------------------------------------------

Goto(t, step) == pc' = [pc EXCEPT ![t] = step]

\* The call ends: it returns or raises, and what it knew is gone.
End(t) ==
  /\ Goto(t, "idle")
  /\ mode' = [mode EXCEPT ![t] = "none"]
  /\ pid' = [pid EXCEPT ![t] = Nobody]
  /\ pids' = [pids EXCEPT ![t] = <<>>]

\* fork() in spawn(), which waits, or in spawn_get_output() or another caller, who
\* asks for the pid.
Fork(t, p, call) ==
  /\ pc[t] = "idle"
  /\ Start(p, t)
  /\ Goto(t, "register")
  /\ mode' = [mode EXCEPT ![t] = call]
  /\ pid' = [pid EXCEPT ![t] = p]
  /\ UNCHANGED <<spawned_pids, pids>>

Register(t) ==
  /\ pc[t] = "register"
  /\ Len(spawned_pids) < MaxList
  /\ spawned_pids' = Append(spawned_pids, pid[t])
  /\ UNCHANGED <<status, forgotten, reused>>
  /\ \/ /\ mode[t] = "returnpid"
        /\ parent' = [q \in Pids |->
             IF q = pid[t] /\ parent[q] = t THEN Caller ELSE parent[q]]
        /\ End(t)
     \/ /\ mode[t] # "returnpid"
        /\ Goto(t, "wait")
        /\ UNCHANGED <<parent, mode, pid, pids>>

\* waitpid() of spawn(), or of spawn_get_output() once it has read to the end; it
\* raises if there is no such child (any more).
Wait(t) ==
  /\ pc[t] = "wait"
  /\ UNCHANGED <<spawned_pids, reused>>
  /\ \/ /\ status[pid[t]] = "zombie"
        /\ Reap(pid[t])
        /\ Goto(t, IF mode[t] = "spawn" THEN "remove" ELSE "cleanup")
        /\ pids' = [pids EXCEPT ![t] = IF mode[t] = "spawn" THEN <<>> ELSE <<pid[t]>>]
        /\ UNCHANGED <<mode, pid>>
     \/ /\ ~Child(pid[t])
        /\ End(t)
        /\ UNCHANGED <<status, parent, forgotten>>

\* The list without the pid's first occurrence.
Without(p) == Seqs!RemoveFirst(spawned_pids, p)

\* spawned_pids.remove() in spawn(), which raises if the pid is not there.
Remove(t) ==
  /\ pc[t] = "remove"
  /\ spawned_pids' = Without(pid[t])
  /\ End(t)
  /\ UNCHANGED <<status, parent, forgotten, reused>>

\* An exception, such as KeyboardInterrupt, in the middle of a call.  The finally
\* clause of spawn() has an empty list to clean up once the pid was popped.
Interrupt(t) ==
  /\ pc[t] # "idle"
  /\ End(t)
  /\ forgotten' = IF /\ pc[t] \in {"register", "probe", "kill", "reap"}
                     /\ ~\E i \in DOMAIN spawned_pids : spawned_pids[i] = pid[t]
                     /\ Child(pid[t])
                  THEN forgotten \cup {pid[t]}
                  ELSE forgotten
  /\ parent' = [q \in Pids |-> IF parent[q] = t THEN Left ELSE parent[q]]
  /\ UNCHANGED <<status, spawned_pids, reused>>

---------------------------------------------------------------------------
(* cleanup_pids(), of all pids or of a list of the caller's.               *)

CleanupAll(t) ==
  /\ pc[t] = "idle"
  /\ Goto(t, "cleanup")
  /\ mode' = [mode EXCEPT ![t] = "all"]
  /\ UNCHANGED <<status, parent, spawned_pids, pid, pids, forgotten, reused>>

CleanupReturned(t, p) ==
  /\ pc[t] = "idle"
  /\ parent[p] = Caller
  /\ Goto(t, "cleanup")
  /\ mode' = [mode EXCEPT ![t] = "list"]
  /\ pids' = [pids EXCEPT ![t] = <<p>>]
  /\ UNCHANGED <<status, parent, spawned_pids, pid, forgotten, reused>>

\* while pids
Loop(t) ==
  /\ pc[t] = "cleanup"
  /\ IF (IF mode[t] = "all" THEN spawned_pids ELSE pids[t]) = <<>>
     THEN End(t)
     ELSE Goto(t, "pop") /\ UNCHANGED <<mode, pid, pids>>
  /\ UNCHANGED <<status, parent, spawned_pids, forgotten, reused>>

\* pids.pop(); another thread may have emptied the list since it was tested.
Pop(t) ==
  /\ pc[t] = "pop"
  /\ UNCHANGED <<status, parent, forgotten, reused>>
  /\ \/ /\ mode[t] = "all" /\ spawned_pids = <<>>
        /\ End(t)
        /\ UNCHANGED spawned_pids
     \/ /\ mode[t] = "all" /\ spawned_pids # <<>>
        /\ pid' = [pid EXCEPT ![t] = Seqs!Last(spawned_pids)]
        /\ spawned_pids' = Seqs!Front(spawned_pids)
        /\ Goto(t, "probe")
        /\ UNCHANGED <<mode, pids>>
     \/ /\ mode[t] # "all"
        /\ pid' = [pid EXCEPT ![t] = Seqs!Last(pids[t])]
        /\ pids' = [pids EXCEPT ![t] = Seqs!Front(pids[t])]
        /\ Goto(t, "probe")
        /\ UNCHANGED <<mode, spawned_pids>>

\* Faulty variant: the pid is dropped from the list once it was looked at.
ProbeForgets(t) ==
  /\ pc[t] = "probe"
  /\ Goto(t, "forget")
  /\ pid' = [pid EXCEPT ![t] = Nobody]
  /\ UNCHANGED <<mode, pids, spawned_pids, reused, status, parent, forgotten>>

\* What follows the pop of one pid: the list of the caller's has a copy in spawned_pids.
Next1(t) == IF mode[t] = "all" THEN "cleanup" ELSE "forget"

\* waitpid(pid, WNOHANG): a running child is to be killed, a zombie is reaped.
Probe(t) ==
  /\ pc[t] = "probe"
  /\ UNCHANGED <<mode, pids, spawned_pids, reused>>
  /\ \/ /\ status[pid[t]] = "running"
        /\ Goto(t, "kill")
        /\ UNCHANGED <<status, parent, pid, forgotten>>
     \/ /\ status[pid[t]] = "zombie"
        /\ Reap(pid[t])
        /\ Goto(t, Next1(t))
        /\ UNCHANGED pid
     \/ /\ ~Child(pid[t])
        /\ Goto(t, Next1(t))
        /\ UNCHANGED <<status, parent, pid, forgotten>>

\* SIGTERM: the child may ignore it, and end or not end of its own accord.
Kill(t) ==
  /\ pc[t] = "kill"
  /\ Goto(t, IF Child(pid[t]) THEN "reap" ELSE Next1(t))
  /\ UNCHANGED <<status, parent, mode, pid, pids, spawned_pids, forgotten, reused>>

ReapKilled(t) ==
  /\ pc[t] = "reap"
  /\ UNCHANGED <<mode, pid, pids, spawned_pids, reused>>
  /\ \/ /\ status[pid[t]] = "zombie"
        /\ Reap(pid[t])
        /\ Goto(t, Next1(t))
     \/ /\ ~Child(pid[t])
        /\ Goto(t, Next1(t))
        /\ UNCHANGED <<status, parent, forgotten>>

\* spawned_pids.remove(), which may find nothing.
Forget(t) ==
  /\ pc[t] = "forget"
  /\ spawned_pids' = Without(pid[t])
  /\ Goto(t, "cleanup")
  /\ UNCHANGED <<status, parent, mode, pid, pids, forgotten, reused>>

Call(t) ==
  \/ \E p \in Pids, call \in {"spawn", "returnpid", "output"} : Fork(t, p, call)
  \/ \E p \in Pids : CleanupReturned(t, p)
  \/ CleanupAll(t)
  \/ Register(t) \/ Wait(t) \/ Remove(t) \/ Interrupt(t)
  \/ Loop(t) \/ Pop(t) \/ Probe(t) \/ Kill(t) \/ ReapKilled(t) \/ Forget(t)

Next ==
  \/ \E t \in Threads : Call(t)
  \/ \E p \in Pids : ForeignStart(p) \/ Exit(p) \/ OwnerReaps(p)

Spec == Init /\ [][Next]_svars

---------------------------------------------------------------------------

Listed(p) == \E i \in DOMAIN spawned_pids : spawned_pids[i] = p

InHand(p) == \E t \in Threads :
  \/ pid[t] = p /\ pc[t] \in {"register", "wait", "probe", "kill", "reap"}
  \/ \E i \in DOMAIN pids[t] : pids[t][i] = p

\* cleanup_pids() can find every child of spawn()'s that runs or waits to be reaped:
\* it is in spawned_pids, some call has it in hand, or an exception made a call drop it
\* between the fork and the list or after the list.
NothingForgotten == \A p \in Pids :
  Child(p) /\ parent[p] # Foreign => Listed(p) \/ InHand(p) \/ p \in forgotten

\* A status that spawn() takes for its own is that of the process it started, and only
\* processes that spawn() started are reaped or killed by cleanup_pids(), unless a
\* number was given out again while the list or a call still held it.
OnlyItsOwn == [][\A t \in Threads : ~reused =>
  /\ pc[t] = "wait" /\ pc'[t] \in {"remove", "cleanup"} => parent[pid[t]] = t
  /\ pc[t] = "kill" /\ pc'[t] = "reap" => parent[pid[t]] # Foreign
  /\ pc[t] \in {"probe", "reap"} /\ pc'[t] \in {"cleanup", "forget"} /\ Child(pid[t])
       => parent[pid[t]] # Foreign]_svars
================================================================================
