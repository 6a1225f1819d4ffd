---------------------------- MODULE Placeholder ----------------------------
(***************************************************************************)
(* demandload.Placeholder under threads: an object bound in a scope that   *)
(* replaces itself by what load_func returns when it is first used.        *)
(*                                                                         *)
(* A thread uses a name by reading it from the scope, or by way of another *)
(* reference to the placeholder (an alias, which the docs call misuse).    *)
(* While it runs, load_func may use other placeholders (Deps), so a thread *)
(* has a stack of uses; each use of p by t is at step at[t][p] of          *)
(* _get_target or _target_already_loaded.  The lock is not reentrant: a    *)
(* thread whose load_func comes back to a placeholder it is loading blocks *)
(* on itself for good, which here is having no step.                       *)
(***************************************************************************)
EXTENDS Naturals, Sequences

CONSTANTS
  Threads, Names,
  Deps,          \* Deps[p]: the names that the load_func of p uses
  NoThread,      \* a lock that nobody holds
  MaxUses,       \* bound: uses per thread from the outside
  MaxFailures    \* bound: calls of load_func that raise

ASSUME DepsAssumption == Deps \in [Names -> SUBSET Names]
ASSUME NoThreadAssumption == NoThread \notin Threads
ASSUME BoundsAssumption == MaxUses \in Nat /\ MaxFailures \in Nat

VARIABLES
  protection,  \* what SNAKEOIL_DEMANDLOAD_PROTECTION and _WARN ask for
  scope,       \* what the name is bound to: 0 the placeholder, k the k-th object loaded
  loader,      \* _load_func is not None
  fast,        \* _get_target has been replaced by _target_already_loaded
  lock,        \* the holder of _loading_lock
  tids,        \* _replacing_tids
  loads,       \* how many times load_func has returned an object
  stack,       \* per thread, the names being used, innermost last
  at,          \* per thread and name, the step of that use
  todo,        \* per thread and name, what load_func has yet to use
  result,      \* per thread and name, the local `result`
  raising,     \* per thread, an exception is propagating
  uses,        \* per thread, uses from the outside so far
  failures,    \* calls of load_func that raised
  obtained,    \* history: per thread, the pairs <<name, object>> it was given
  warned       \* history: per thread, the names it was told off for

shared == <<scope, loader, fast, lock, tids, loads>>
history == <<obtained, warned>>
vars == <<protection, scope, loader, fast, lock, tids, loads, stack, at, todo,
          result, raising, uses, failures, obtained, warned>>

Steps == {"idle", "enter", "lock", "load", "scope", "fast", "clear", "tid",
          "unlock", "known"}

\* The steps a thread takes between acquiring and releasing _loading_lock.
Inside == {"load", "scope", "fast", "clear", "tid", "unlock"}

Init ==
  /\ protection \in {"silent", "warn", "raise"}
  /\ scope = [p \in Names |-> 0]
  /\ loader = [p \in Names |-> TRUE]
  /\ fast = [p \in Names |-> FALSE]
  /\ lock = [p \in Names |-> NoThread]
  /\ tids = [p \in Names |-> {}]
  /\ loads = [p \in Names |-> 0]
  /\ stack = [t \in Threads |-> <<>>]
  /\ at = [t \in Threads |-> [p \in Names |-> "idle"]]
  /\ todo = [t \in Threads |-> [p \in Names |-> {}]]
  /\ result = [t \in Threads |-> [p \in Names |-> 0]]
  /\ raising = [t \in Threads |-> FALSE]
  /\ uses = [t \in Threads |-> 0]
  /\ failures = 0
  /\ obtained = [t \in Threads |-> {}]
  /\ warned = [t \in Threads |-> {}]

---------------------------------------------------------------------------

Top(t) == stack[t][Len(stack[t])]

\* The innermost use of thread t is that of p, and it is at step s.
On(t, p, s) ==
  /\ ~raising[t]
  /\ stack[t] # <<>>
  /\ Top(t) = p
  /\ at[t][p] = s

Goto(t, p, s) ==
  /\ at' = [at EXCEPT ![t][p] = s]
  /\ UNCHANGED <<stack, todo>>

Push(t, p) ==
  /\ at[t][p] = "idle"
  /\ stack' = [stack EXCEPT ![t] = Append(@, p)]
  /\ at' = [at EXCEPT ![t][p] = "enter"]
  /\ todo' = [todo EXCEPT ![t][p] = Deps[p]]

\* Thread t has its object: it goes back to the code that used p.
Return(t, p, object) ==
  LET rest == SubSeq(stack[t], 1, Len(stack[t]) - 1) IN
  /\ stack' = [stack EXCEPT ![t] = rest]
  /\ at' = [at EXCEPT ![t][p] = "idle"]
  /\ todo' = IF rest = <<>> THEN todo
             ELSE [todo EXCEPT ![t][rest[Len(rest)]] = @ \ {p}]
  /\ obtained' = [obtained EXCEPT ![t] = @ \cup {<<p, object>>}]

\* An exception leaves the innermost use of thread t.
Leave(t, p) ==
  /\ stack' = [stack EXCEPT ![t] = SubSeq(@, 1, Len(@) - 1)]
  /\ at' = [at EXCEPT ![t][p] = "idle"]
  /\ raising' = [raising EXCEPT ![t] = Len(stack[t]) > 1]
  /\ UNCHANGED todo

\* The code that may use a name: the program itself, or a running load_func.
FromOutside(t) ==
  /\ ~raising[t]
  /\ stack[t] = <<>>
  /\ uses[t] < MaxUses
  /\ uses' = [uses EXCEPT ![t] = @ + 1]

FromLoader(t, p) ==
  /\ ~raising[t]
  /\ stack[t] # <<>>
  /\ at[t][Top(t)] = "load"
  /\ p \in todo[t][Top(t)]
  /\ UNCHANGED uses

\* The name is read from the scope and the placeholder found there.
UsePlaceholder(t, p) ==
  /\ FromOutside(t) \/ FromLoader(t, p)
  /\ scope[p] = 0
  /\ Push(t, p)
  /\ UNCHANGED <<protection, shared, result, raising, failures, history>>

\* The name is read from the scope and the loaded object found there.
UseObject(t, p) ==
  /\ FromOutside(t) \/ FromLoader(t, p)
  /\ scope[p] # 0
  /\ todo' = IF stack[t] = <<>> THEN todo
             ELSE [todo EXCEPT ![t][Top(t)] = @ \ {p}]
  /\ obtained' = [obtained EXCEPT ![t] = @ \cup {<<p, scope[p]>>}]
  /\ UNCHANGED <<protection, shared, stack, at, result, raising, failures, warned>>

\* The program still has a reference to the placeholder.
UseAlias(t, p) ==
  /\ FromOutside(t)
  /\ Push(t, p)
  /\ UNCHANGED <<protection, shared, result, raising, failures, history>>

\* Faulty variant: a load in progress is taken for one that is done.
EnterDuringLoad(t, p) ==
  /\ On(t, p, "enter")
  /\ Goto(t, p, IF lock[p] # NoThread THEN "known" ELSE "lock")
  /\ UNCHANGED <<protection, shared, result, raising, uses, failures, history>>

\* Faulty variant: the thread is recorded before it is known to replace anything.
EnterRecording(t, p) ==
  /\ On(t, p, "enter")
  /\ tids' = [tids EXCEPT ![p] = @ \cup {t}]
  /\ Goto(t, p, IF fast[p] THEN "known" ELSE "lock")
  /\ UNCHANGED <<protection, scope, loader, fast, lock, loads, result, raising, uses,
                 failures, history>>

\* object.__getattribute__(self, '_get_target')
Enter(t, p) ==
  /\ On(t, p, "enter")
  /\ Goto(t, p, IF fast[p] THEN "known" ELSE "lock")
  /\ UNCHANGED <<protection, shared, result, raising, uses, failures, history>>

\* Faulty variant: _load_func is not looked at again under the lock.
AcquireLoading(t, p) ==
  /\ On(t, p, "lock")
  /\ lock[p] = NoThread
  /\ lock' = [lock EXCEPT ![p] = t]
  /\ Goto(t, p, "load")
  /\ UNCHANGED <<protection, scope, loader, fast, tids, loads, result, raising, uses,
                 failures, history>>

\* with _loading_lock: load_func = _load_func; if load_func is None, the result
\* is read from the scope without complaint and the thread recorded.
Acquire(t, p) ==
  /\ On(t, p, "lock")
  /\ lock[p] = NoThread
  /\ lock' = [lock EXCEPT ![p] = t]
  /\ IF loader[p]
       THEN Goto(t, p, "load") /\ UNCHANGED result
       ELSE Goto(t, p, "tid") /\ result' = [result EXCEPT ![t][p] = scope[p]]
  /\ UNCHANGED <<protection, scope, loader, fast, tids, loads, raising, uses,
                 failures, history>>

\* Faulty variant: what load_func returns is not kept.
LoadLosingResult(t, p) ==
  /\ On(t, p, "load")
  /\ todo[t][p] = {}
  /\ loads' = [loads EXCEPT ![p] = @ + 1]
  /\ result' = [result EXCEPT ![t][p] = NoThread]
  /\ Goto(t, p, "scope")
  /\ UNCHANGED <<protection, scope, loader, fast, lock, tids, raising, uses,
                 failures, history>>

\* load_func() has used all it needs and returns a new object.
Load(t, p) ==
  /\ On(t, p, "load")
  /\ todo[t][p] = {}
  /\ loads' = [loads EXCEPT ![p] = @ + 1]
  /\ result' = [result EXCEPT ![t][p] = loads[p] + 1]
  /\ Goto(t, p, "scope")
  /\ UNCHANGED <<protection, scope, loader, fast, lock, tids, raising, uses,
                 failures, history>>

\* Faulty variant: acquire() and release() without try and finally.
LoadRaisesLocked(t, p) ==
  /\ On(t, p, "load")
  /\ failures < MaxFailures
  /\ failures' = failures + 1
  /\ Leave(t, p)
  /\ UNCHANGED <<protection, shared, result, uses, history>>

\* load_func() raises: the with statement releases the lock, nothing else is done.
LoadRaises(t, p) ==
  /\ On(t, p, "load")
  /\ failures < MaxFailures
  /\ failures' = failures + 1
  /\ lock' = [lock EXCEPT ![p] = NoThread]
  /\ Leave(t, p)
  /\ UNCHANGED <<protection, scope, loader, fast, tids, loads, result, uses, history>>

\* The same exception passes through the load_func that used the name.
Unwind(t, p) ==
  /\ raising[t]
  /\ Top(t) = p
  /\ lock' = [lock EXCEPT ![p] = NoThread]
  /\ Leave(t, p)
  /\ UNCHANGED <<protection, scope, loader, fast, tids, loads, result, uses,
                 failures, history>>

\* scope[name] = result
SetScope(t, p) ==
  /\ On(t, p, "scope")
  /\ scope' = [scope EXCEPT ![p] = result[t][p]]
  /\ Goto(t, p, "fast")
  /\ UNCHANGED <<protection, loader, fast, lock, tids, loads, result, raising, uses,
                 failures, history>>

\* object.__setattr__(self, '_get_target', preloaded_func)
SetFast(t, p) ==
  /\ On(t, p, "fast")
  /\ fast' = [fast EXCEPT ![p] = TRUE]
  /\ Goto(t, p, "clear")
  /\ UNCHANGED <<protection, scope, loader, lock, tids, loads, result, raising, uses,
                 failures, history>>

\* object.__setattr__(self, '_load_func', None)
ClearLoader(t, p) ==
  /\ On(t, p, "clear")
  /\ loader' = [loader EXCEPT ![p] = FALSE]
  /\ Goto(t, p, "tid")
  /\ UNCHANGED <<protection, scope, fast, lock, tids, loads, result, raising, uses,
                 failures, history>>

\* tids.append(threading.current_thread().ident)
AppendTid(t, p) ==
  /\ On(t, p, "tid")
  /\ tids' = [tids EXCEPT ![p] = @ \cup {t}]
  /\ Goto(t, p, "unlock")
  /\ UNCHANGED <<protection, scope, loader, fast, lock, loads, result, raising, uses,
                 failures, history>>

\* Faulty variant: the lock is not released after a successful load.
UnlockForgotten(t, p) ==
  /\ On(t, p, "unlock")
  /\ Return(t, p, result[t][p])
  /\ UNCHANGED <<protection, shared, result, raising, uses, failures, warned>>

\* The with statement ends: release the lock and return the result.
Unlock(t, p) ==
  /\ On(t, p, "unlock")
  /\ lock' = [lock EXCEPT ![p] = NoThread]
  /\ Return(t, p, result[t][p])
  /\ UNCHANGED <<protection, scope, loader, fast, tids, loads, result, raising, uses,
                 failures, warned>>

Repeated(t, p) == t \in tids[p] /\ protection # "silent"

\* _target_already_loaded(): the complaint is an exception...
Refuse(t, p) ==
  /\ On(t, p, "known")
  /\ Repeated(t, p) /\ protection = "raise"
  /\ warned' = [warned EXCEPT ![t] = @ \cup {p}]
  /\ Leave(t, p)
  /\ UNCHANGED <<protection, shared, result, uses, failures, obtained>>

\* ... or a warning, or there is none, and the object is read from the scope.
ReadKnown(t, p) ==
  /\ On(t, p, "known")
  /\ ~(Repeated(t, p) /\ protection = "raise")
  /\ warned' = IF Repeated(t, p) THEN [warned EXCEPT ![t] = @ \cup {p}] ELSE warned
  /\ Return(t, p, scope[p])
  /\ UNCHANGED <<protection, shared, result, raising, uses, failures>>

Step(t, p) ==
  \/ Enter(t, p) \/ Acquire(t, p) \/ Load(t, p) \/ LoadRaises(t, p) \/ Unwind(t, p)
  \/ SetScope(t, p) \/ SetFast(t, p) \/ ClearLoader(t, p) \/ AppendTid(t, p)
  \/ Unlock(t, p) \/ Refuse(t, p) \/ ReadKnown(t, p)

Use(t, p) == UsePlaceholder(t, p) \/ UseObject(t, p) \/ UseAlias(t, p)

Next == \E t \in Threads, p \in Names : Use(t, p) \/ Step(t, p)

\* A thread that is inside a use goes on with it; no thread has to start one.
Continue(t) ==
  stack[t] # <<>> /\ \E p \in Names : UsePlaceholder(t, p) \/ UseObject(t, p) \/ Step(t, p)

Spec == Init /\ [][Next]_vars
FairSpec == Spec /\ \A t \in Threads : WF_vars(Continue(t))

---------------------------------------------------------------------------

TypeOK ==
  /\ protection \in {"silent", "warn", "raise"}
  /\ scope \in [Names -> Nat]
  /\ loader \in [Names -> BOOLEAN]
  /\ fast \in [Names -> BOOLEAN]
  /\ lock \in [Names -> Threads \cup {NoThread}]
  /\ tids \in [Names -> SUBSET Threads]
  /\ loads \in [Names -> Nat]
  /\ stack \in [Threads -> Seq(Names)]
  /\ at \in [Threads -> [Names -> Steps]]
  /\ todo \in [Threads -> [Names -> SUBSET Names]]
  /\ result \in [Threads -> [Names -> Nat]]
  /\ raising \in [Threads -> BOOLEAN]
  /\ uses \in [Threads -> Nat]
  /\ failures \in Nat
  /\ obtained \in [Threads -> SUBSET (Names \X Nat)]
  /\ warned \in [Threads -> SUBSET Names]

\* load_func succeeds at most once, however many threads use the placeholder at
\* once and however often it failed before.
LoadedOnce == \A p \in Names : loads[p] <= 1

\* Whoever uses the name, by whatever path, is given the object that the scope
\* holds: two threads never end up with two copies of what was loaded, and nobody
\* is given the placeholder itself back.
EveryoneGetsTheObject ==
  \A t \in Threads : \A pair \in obtained[t] :
    pair[2] # 0 /\ pair[2] = scope[pair[1]]

\* _loading_lock is held by t exactly while t is between the entry and the exit of
\* the with statement: no exception leaves it held.
LockHeldInside ==
  \A t \in Threads, p \in Names : lock[p] = t <=> at[t][p] \in Inside

\* A thread is told off for using a placeholder twice only if it had already been
\* given the object: losing the race for the first use is not held against it.
ComplaintDeserved ==
  \A t \in Threads : \A p \in warned[t] : \E pair \in obtained[t] : pair[1] = p

\* A use that has begun ends, with the object or with an exception, as long as the
\* load functions do not use each other in a circle.
UseEnds == \A t \in Threads : stack[t] # <<>> ~> stack[t] = <<>>
=============================================================================
