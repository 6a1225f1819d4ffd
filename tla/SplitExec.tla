----------------------------- MODULE SplitExec -----------------------------
(***************************************************************************)
(* contexts.SplitExec: the body of a with statement runs in a child.       *)
(*                                                                         *)
(* A parent enters one with statement after the other, with a new object   *)
(* each time or with the last one again.  __enter__ forks; a trace         *)
(* function throws the parent out of the body and into __exit__, where it  *)
(* receives the child's exception, waits for the child and cleans up.  The *)
(* child ends in _child_exit, unless something goes wrong there: then it   *)
(* unwinds through the frames it shares with its parent and is "abroad".   *)
(* Signals reach either of them at any time.                               *)
(***************************************************************************)
EXTENDS Integers

CONSTANTS
  Codes,      \* integers that sys.exit is called with
  MaxBlocks   \* bound: with statements entered

ASSUME CodesAssumption == Codes \subseteq Nat
ASSUME BlocksAssumption == MaxBlocks \in Nat

VARIABLES
  blocks,       \* with statements entered so far
  object,       \* "new", or used before and now in the "same" or in "another" frame
  parent,       \* where the parent is, see Places
  handler,      \* the block whose _parent_handler is installed, or 0
  got,          \* what recv() gave the parent: "none", "SystemExit" or "error"
  exit_status,  \* self.exit_status
  cleaned,      \* per block, how often _cleanup ran
  child,        \* where the child is, see Stages
  report,       \* how the child's part ended
  wait_status,  \* what waitpid returns for it
  pipe,         \* "empty", "part" of a message or "sent"
  holders       \* who has the child's end of the pipe open

parents == <<handler, got, exit_status, cleaned>>
childs == <<report, wait_status>>
block == <<blocks, object>>
vars == <<block, parent, parents, child, childs, pipe, holders>>

\* "body" is where only a parent that is not thrown out comes.
Places == {"outside", "forked", "entered", "body", "receiving", "reaping", "cleaning",
           "left", "raised", "failed", "dead"}
Stages == {"none", "setup", "body", "exiting", "ending", "ended", "abroad", "lost"}
Ended == {"ended", "lost"}
Strayed == {"abroad", "lost"}   \* out of the with statement, running or no more
Over == {"left", "raised"}

\* sys.exit was called with something that is no integer.
Text == -1

\* `code` is what _child_exit passes to os._exit.  An exception goes through the
\* pipe with the locals that changed: it may be that they cannot be pickled, or that
\* they cannot be unpickled.
Reports == {r \in [kind : {"normal", "exit", "error"}, code : Codes \cup {Text, 0},
                   travels : {"whole", "unloadable", "unsendable"}] :
              r.kind = "exit" \/ r.code = 0}
NoReport == [kind |-> "none", code |-> 0, travels |-> "whole"]

Killed == 9               \* the wait status of a process that SIGKILL ended
Exited(code) == (code % 256) * 256
ExitPart(status) == status \div 256

Init ==
  /\ blocks = 0
  /\ object = "new"
  /\ parent = "outside"
  /\ handler = 0
  /\ got = "none"
  /\ exit_status = -1
  /\ cleaned = [b \in 1..MaxBlocks |-> 0]
  /\ child = "none"
  /\ report = NoReport
  /\ wait_status = 0
  /\ pipe = "empty"
  /\ holders = {}

---------------------------------------------------------------------------
(* The parent *)

Another ==
  /\ parent \in {"outside"} \cup Over
  /\ blocks < MaxBlocks
  /\ blocks' = blocks + 1
  /\ object' \in IF blocks = 0 THEN {"new"} ELSE {"new", "same", "another"}
  /\ exit_status' = IF object' = "new" THEN -1 ELSE exit_status
  /\ got' = "none"
  /\ report' = NoReport
  /\ wait_status' = 0
  /\ pipe' = "empty"
  /\ UNCHANGED <<handler, cleaned>>

Fork ==
  /\ Another
  /\ parent' = "forked"
  /\ child' = "setup"
  /\ holders' = {"parent", "child"}

ForkFails ==
  /\ Another
  /\ parent' = "failed"
  /\ child' = "none"
  /\ holders' = {}

\* Faulty variant: the parent keeps the child's end of the pipe.
EnterKeepingEnd ==
  /\ parent = "forked"
  /\ parent' = "entered"
  /\ handler' \in {handler, blocks}
  /\ UNCHANGED <<block, got, exit_status, cleaned, child, childs, pipe, holders>>

\* Nothing but a local variable of __enter__ had the child's end of the pipe.  The
\* handlers cannot be set outside of the main thread.
Enter ==
  /\ parent = "forked"
  /\ parent' = "entered"
  /\ handler' \in {handler, blocks}
  /\ holders' = holders \ {"parent"}
  /\ UNCHANGED <<block, got, exit_status, cleaned, child, childs, pipe>>

\* The trace function raises ParentException on the first line of the body.  An
\* object that is used again injects it into the frame where it was used first.
Trace ==
  /\ parent = "entered"
  /\ parent' = IF object = "another" THEN "body" ELSE "receiving"
  /\ UNCHANGED <<block, parents, child, childs, pipe, holders>>

\* Another exception, such as the program's own signal handlers raise at any time:
\* __exit__ passes on what it gets that is not ParentException, or raises None.
Foreign ==
  /\ parent \in {"forked", "entered", "body", "receiving", "reaping", "cleaning"}
  /\ parent' = "failed"
  /\ UNCHANGED <<block, parents, child, childs, pipe, holders>>

\* Faulty variant: an exception of the child is raised without waiting for it.
ReceiveAndRaise ==
  /\ parent = "receiving"
  /\ pipe = "sent" /\ report.travels = "whole"
  /\ got' = IF report.kind = "error" THEN "error" ELSE "SystemExit"
  /\ parent' = IF report.kind = "error" THEN "cleaning" ELSE "reaping"
  /\ UNCHANGED <<block, handler, exit_status, cleaned, child, childs, pipe, holders>>

Receive ==
  /\ parent = "receiving"
  /\ pipe = "sent" /\ report.travels = "whole"
  /\ got' = IF report.kind = "error" THEN "error" ELSE "SystemExit"
  /\ parent' = "reaping"
  /\ UNCHANGED <<block, handler, exit_status, cleaned, child, childs, pipe, holders>>

ReceiveEOF ==
  /\ parent = "receiving"
  /\ pipe = "empty" /\ holders = {}
  /\ got' = "SystemExit"
  /\ parent' = "reaping"
  /\ UNCHANGED <<block, handler, exit_status, cleaned, child, childs, pipe, holders>>

\* What recv() raises otherwise nobody catches.
ReceiveFails ==
  /\ parent = "receiving"
  /\ \/ pipe = "sent" /\ report.travels = "unloadable"
     \/ pipe = "part" /\ holders = {}
  /\ parent' = "failed"
  /\ UNCHANGED <<block, parents, child, childs, pipe, holders>>

\* Faulty variant: the wait status is taken for the exit status.
ReapUnshifted ==
  /\ parent = "reaping"
  /\ child \in Ended
  /\ parent' = "cleaning"
  /\ exit_status' = IF got = "SystemExit" THEN wait_status ELSE exit_status
  /\ UNCHANGED <<block, handler, got, cleaned, child, childs, pipe, holders>>

Reap ==
  /\ parent = "reaping"
  /\ child \in Ended
  /\ parent' = "cleaning"
  /\ exit_status' = IF got = "SystemExit" THEN ExitPart(wait_status) ELSE exit_status
  /\ UNCHANGED <<block, handler, got, cleaned, child, childs, pipe, holders>>

\* _cleanup, or _exception_cleanup and what it calls
Clean ==
  /\ parent = "cleaning"
  /\ parent' = IF got = "error" THEN "raised" ELSE "left"
  /\ cleaned' = [cleaned EXCEPT ![blocks] = @ + 1]
  /\ UNCHANGED <<block, handler, got, exit_status, child, childs, pipe, holders>>

\* SIGINT or SIGTERM: _parent_handler cleans up, whatever has been done before, and
\* has the signal kill the process.  The handlers are never put back.
Interrupt ==
  /\ parent # "dead"
  /\ parent' = "dead"
  /\ cleaned' = [b \in 1..MaxBlocks |-> IF b = handler THEN cleaned[b] + 1 ELSE cleaned[b]]
  /\ holders' = holders \ {"parent"}
  /\ UNCHANGED <<block, handler, got, exit_status, child, childs, pipe>>

---------------------------------------------------------------------------
(* The child *)

\* _child_setup, whose exceptions _child_exit reports ...
Setup ==
  /\ child = "setup"
  /\ \/ child' = "body" /\ UNCHANGED report
     \/ child' = "exiting" /\ report' \in {r \in Reports : r.kind = "error"}
  /\ UNCHANGED <<block, parent, parents, wait_status, pipe, holders>>

\* ... but not if they are SystemExit or KeyboardInterrupt.
SetupExits ==
  /\ child = "setup"
  /\ child' = "abroad"
  /\ UNCHANGED <<block, parent, parents, report, wait_status, pipe, holders>>

\* __exit__ in the child.  The child of an object that is used again has a childpid
\* too, takes itself for the parent and raises what it got.
BodyEnds ==
  /\ child = "body"
  /\ IF object = "new"
       THEN child' = "exiting" /\ report' \in Reports
       ELSE child' = "abroad" /\ UNCHANGED report
  /\ UNCHANGED <<block, parent, parents, wait_status, pipe, holders>>

\* Faulty variant: a broken pipe is an error as any other.
SendToNobody ==
  /\ child = "exiting"
  /\ IF report.travels = "unsendable" \/ parent = "dead"
       THEN child' = "abroad" /\ UNCHANGED pipe
       ELSE child' = "ending" /\ pipe' = "sent"
  /\ UNCHANGED <<block, parent, parents, report, wait_status, holders>>

\* Faulty variant: what cannot be sent is dropped.
SendWhatTravels ==
  /\ child = "exiting"
  /\ pipe' = IF report.travels = "unsendable" \/ parent = "dead" THEN pipe ELSE "sent"
  /\ child' = "ending"
  /\ UNCHANGED <<block, parent, parents, childs, holders>>

\* _child_exit, first half: nobody reads what is sent to a parent that died or failed.
Send ==
  /\ child = "exiting"
  /\ IF report.travels = "unsendable"
       THEN child' = "abroad" /\ UNCHANGED pipe
       ELSE /\ child' = "ending"
            /\ pipe' = IF parent = "dead" THEN pipe ELSE "sent"
  /\ UNCHANGED <<block, parent, parents, report, wait_status, holders>>

\* _child_exit, second half: os._exit refuses a code that is no integer.
Exit ==
  /\ child = "ending"
  /\ IF report.code = Text
       THEN child' = "abroad" /\ UNCHANGED <<wait_status, holders>>
       ELSE /\ child' = "ended"
            /\ wait_status' = Exited(report.code)
            /\ holders' = holders \ {"child"}
  /\ UNCHANGED <<block, parent, parents, report, pipe>>

\* What a child does abroad is whatever the program does after the exception.
DropPipe ==
  /\ child = "abroad"
  /\ holders' = holders \ {"child"}
  /\ UNCHANGED <<block, parent, parents, child, childs, pipe>>

EndAbroad ==
  /\ child = "abroad"
  /\ child' = "lost"
  /\ wait_status' \in {Exited(code) : code \in Codes}
  /\ holders' = holders \ {"child"}
  /\ UNCHANGED <<block, parent, parents, report, pipe>>

Kill ==
  /\ child \notin {"none"} \cup Ended
  /\ child' = IF child = "abroad" THEN "lost" ELSE "ended"
  /\ wait_status' = Killed
  /\ pipe' \in IF child = "exiting" THEN {pipe, "part"} ELSE {pipe}
  /\ holders' = holders \ {"child"}
  /\ UNCHANGED <<block, parent, parents, report>>

---------------------------------------------------------------------------

Parent == Enter \/ Trace \/ Receive \/ ReceiveEOF \/ ReceiveFails \/ Reap \/ Clean

Next ==
  \/ Fork \/ ForkFails \/ Parent \/ Foreign \/ Interrupt
  \/ Setup \/ SetupExits \/ BodyEnds \/ Send \/ Exit
  \/ DropPipe \/ EndAbroad \/ Kill

Spec == Init /\ [][Next]_vars /\ WF_vars(Parent)

---------------------------------------------------------------------------

TypeOK ==
  /\ blocks \in 0..MaxBlocks
  /\ object \in {"new", "same", "another"}
  /\ parent \in Places
  /\ handler \in 0..blocks
  /\ got \in {"none", "SystemExit", "error"}
  /\ exit_status \in -1..255
  /\ cleaned \in [1..MaxBlocks -> 0..2]
  /\ child \in Stages
  /\ report \in Reports \cup {NoReport}
  /\ wait_status \in Nat /\ wait_status < 65536
  /\ pipe \in {"empty", "part", "sent"}
  /\ holders \subseteq {"parent", "child"}

\* Only the parent leaves the with statement (contexts.py:46-47): a child does only
\* after one of the mishaps known from the code, never because its parent died.
OnlyTheParentGoesOn ==
  child \in Strayed =>
    \/ object # "new"
    \/ report.kind = "none"   \* SetupExits
    \/ report.travels = "unsendable"
    \/ report.code = Text

\* The parent learns what happened (contexts.py:47-48, __exit__): it raises only what
\* the child reported, and a block it leaves as if nothing had happened ended well,
\* with the exit status that it shows, or else was killed or lost its way.
OutcomeTold ==
  /\ parent = "raised" => report.kind = "error"
  /\ parent = "left" =>
       \/ report.kind \in {"normal", "exit"} /\ exit_status = report.code % 256
       \/ wait_status = Killed \/ child \in Strayed

\* _cleanup is for when the child has terminated (contexts.py:82-83): at the end of a
\* block the child is gone and _cleanup ran once, whichever way it ended.  A parent
\* that dies of a signal may have done it twice.
CleanedOnce ==
  /\ parent \in Over => child \in Ended
  /\ parent # "dead" =>
       \A b \in 1..blocks :
         cleaned[b] = IF b < blocks \/ parent \in Over THEN 1 ELSE 0

\* A parent whose child has ended, even killed before it could send a word, goes on.
ParentGoesOn == child \in Ended ~> parent \in Over \cup {"body", "failed", "dead"}

\* "Exceptions are pickled and passed back to the parent." (contexts.py:47-48): no
\* block that failed in a living child looks to the parent as if it had ended well.
ExceptionsPassedBack ==
  parent = "left" /\ report.kind = "error" => wait_status = Killed
=============================================================================
