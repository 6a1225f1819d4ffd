--------------------------- MODULE SplitExecProofs ---------------------------
(* The safety of SplitExec for any exit codes and any number of blocks. *)
EXTENDS SplitExec, TLAPS

\* Nothing that the child could have told its parent is to be had any more.
Lost == child \in Strayed \/ (child = "ended" /\ wait_status = Killed)

\* What the place of the parent says about the block.
ParentOK ==
  /\ parent = "outside" => blocks = 0
  /\ parent \notin {"outside", "dead"} => blocks > 0
  /\ parent \in Over \cup {"cleaning"} => child \in Ended
  /\ parent \in {"reaping", "cleaning"} => got # "none"
  /\ parent = "raised" => got = "error"
  /\ parent = "left" => got = "SystemExit"
  /\ parent \in {"cleaning", "left"} /\ got = "SystemExit" =>
       exit_status = ExitPart(wait_status)

\* What the stage of the child says about the pipe and its report.
ChildOK ==
  /\ child = "none" => parent \in {"outside", "failed", "dead"}
  /\ child \in {"setup", "body"} => report = NoReport
  /\ child \in {"setup", "body", "exiting", "ending"} => "child" \in holders
  /\ pipe = "sent" => child \in {"ending"} \cup Ended \cup Strayed
  /\ child \in {"exiting", "ending"} \/ pipe = "sent" => report \in Reports
  /\ child = "ending" => pipe = "sent" \/ parent = "dead"
  /\ child = "ended" =>
       \/ Lost
       \/ /\ report.code # Text
          /\ wait_status = Exited(report.code)
          /\ pipe = "sent" \/ parent = "dead"

\* What the parent takes for the end of the child is it, or there was no message.
GotOK ==
  /\ got = "error" => pipe = "sent" /\ report.kind = "error"
  /\ got = "SystemExit" => Lost \/ (pipe = "sent" /\ report.kind \in {"normal", "exit"})

\* CleanedOnce, also for the blocks to come.
CleanedOK ==
  parent # "dead" =>
    \A b \in 1..MaxBlocks :
      cleaned[b] = IF b < blocks \/ (b = blocks /\ parent \in Over) THEN 1 ELSE 0

IInv == TypeOK /\ ParentOK /\ ChildOK /\ GotOK /\ OnlyTheParentGoesOn /\ CleanedOK

---------------------------------------------------------------------------

\* An exit status fits in the upper byte of a wait status and is found there.
LEMMA Encoding ==
  ASSUME NEW code \in Nat
  PROVE  Exited(code) \in Nat /\ Exited(code) < 65536 /\ ExitPart(Exited(code)) = code % 256
<1>1. code % 256 \in 0..255
  OBVIOUS
<1>2. \A r \in 0..255 : r * 256 \in Nat /\ r * 256 < 65536 /\ (r * 256) \div 256 = r
  OBVIOUS
<1>3. QED
  BY <1>1, <1>2 DEF Exited, ExitPart

\* The code of a report that is a number.
LEMMA ReportCode ==
  ASSUME NEW r \in Reports \cup {NoReport}, r.code # Text
  PROVE  r.code \in Nat
<1>1. CASE r = NoReport
  BY <1>1 DEF NoReport
<1>2. CASE r \in Reports
  <2>1. r.code \in Codes \cup {Text, 0}
    BY <1>2 DEF Reports
  <2>2. r.code \in Codes \cup {0}
    BY <2>1
  <2>3. Codes \cup {0} \subseteq Nat
    BY CodesAssumption
  <2>4. QED
    BY <2>2, <2>3, Zenon
<1>3. QED
  BY <1>1, <1>2

\* Whoever ends in _child_exit reports one of these.
LEMMA ReportKind ==
  ASSUME NEW r \in Reports
  PROVE  r.kind \in {"normal", "exit", "error"}
  BY DEF Reports

\* The exit part of a wait status is one byte.
LEMMA ExitPartRange ==
  ASSUME NEW status \in Nat, status < 65536
  PROVE  ExitPart(status) \in 0..255
  BY DEF ExitPart

\* Nothing is known in the initial states.
LEMMA InitInv == Init => IInv
<1> SUFFICES ASSUME Init PROVE IInv
  OBVIOUS
<1>1. TypeOK
  BY BlocksAssumption DEF Init, TypeOK, Places, Stages
<1>2. ParentOK /\ ChildOK /\ GotOK /\ OnlyTheParentGoesOn
  BY DEF Init, ParentOK, ChildOK, GotOK, OnlyTheParentGoesOn, Over, Lost, NoReport,
     Ended, Strayed
<1>3. CleanedOK
  BY DEF Init, CleanedOK
<1>4. QED
  BY <1>1, <1>2, <1>3 DEF IInv

\* A new child has nothing to report.
LEMMA ForkInv ==
  ASSUME IInv, Fork
  PROVE  IInv'
<1>0. TypeOK /\ ParentOK /\ ChildOK /\ GotOK /\ OnlyTheParentGoesOn /\ CleanedOK
  BY DEF IInv
<1>1. TypeOK'
  BY <1>0, BlocksAssumption DEF Fork, Another, TypeOK, Places, Stages
<1>2. ParentOK'
  BY <1>0 DEF Fork, Another, TypeOK, ParentOK, Over
<1>3. ChildOK'
  BY <1>0 DEF Fork, Another, ChildOK
<1>4. GotOK'
  BY <1>0 DEF Fork, Another, GotOK
<1>5. OnlyTheParentGoesOn'
  BY <1>0 DEF Fork, Another, OnlyTheParentGoesOn, NoReport
<1>6. CleanedOK'
  BY <1>0 DEF Fork, Another, TypeOK, ParentOK, CleanedOK, Over
<1>7. QED
  BY <1>1, <1>2, <1>3, <1>4, <1>5, <1>6 DEF IInv

\* Without a child the parent is not told anything.
LEMMA ForkFailsInv ==
  ASSUME IInv, ForkFails
  PROVE  IInv'
<1>0. TypeOK /\ ParentOK /\ ChildOK /\ GotOK /\ OnlyTheParentGoesOn /\ CleanedOK
  BY DEF IInv
<1>1. TypeOK'
  BY <1>0, BlocksAssumption DEF ForkFails, Another, TypeOK, Places, Stages
<1>2. ParentOK'
  BY <1>0 DEF ForkFails, Another, TypeOK, ParentOK, Over
<1>3. ChildOK'
  BY <1>0 DEF ForkFails, Another, ChildOK
<1>4. GotOK'
  BY <1>0 DEF ForkFails, Another, GotOK
<1>5. OnlyTheParentGoesOn'
  BY <1>0 DEF ForkFails, Another, OnlyTheParentGoesOn, NoReport
<1>6. CleanedOK'
  BY <1>0 DEF ForkFails, Another, TypeOK, ParentOK, CleanedOK, Over
<1>7. QED
  BY <1>1, <1>2, <1>3, <1>4, <1>5, <1>6 DEF IInv

\* __enter__ leaves the child alone.
LEMMA EnterInv ==
  ASSUME IInv, Enter
  PROVE  IInv'
<1>0. TypeOK /\ ParentOK /\ ChildOK /\ GotOK /\ OnlyTheParentGoesOn /\ CleanedOK
  BY DEF IInv
<1>1. TypeOK'
  BY <1>0 DEF Enter, TypeOK, Places, block, childs
<1>2. ParentOK'
  BY <1>0 DEF Enter, ParentOK, Over, block
<1>3. ChildOK'
  BY <1>0 DEF Enter, ChildOK, Lost, childs
<1>4. GotOK'
  BY <1>0 DEF Enter, GotOK, Lost, childs
<1>5. OnlyTheParentGoesOn'
  BY <1>0 DEF Enter, OnlyTheParentGoesOn, block, childs
<1>6. CleanedOK'
  BY <1>0 DEF Enter, CleanedOK, Over, block
<1>7. QED
  BY <1>1, <1>2, <1>3, <1>4, <1>5, <1>6 DEF IInv

\* The parent waits for what it will be told.
LEMMA TraceInv ==
  ASSUME IInv, Trace
  PROVE  IInv'
<1>0. TypeOK /\ ParentOK /\ ChildOK /\ GotOK /\ OnlyTheParentGoesOn /\ CleanedOK
  BY DEF IInv
<1>1. TypeOK'
  BY <1>0 DEF Trace, TypeOK, Places, block, parents, childs
<1>2. ParentOK'
  BY <1>0 DEF Trace, ParentOK, Over, block
<1>3. ChildOK'
  BY <1>0 DEF Trace, ChildOK, Lost, childs
<1>4. GotOK'
  BY <1>0 DEF Trace, GotOK, Lost, parents, childs
<1>5. OnlyTheParentGoesOn'
  BY <1>0 DEF Trace, OnlyTheParentGoesOn, block, childs
<1>6. CleanedOK'
  BY <1>0 DEF Trace, CleanedOK, Over, block, parents
<1>7. QED
  BY <1>1, <1>2, <1>3, <1>4, <1>5, <1>6 DEF IInv

\* A parent that gives up promises nothing.
LEMMA ForeignInv ==
  ASSUME IInv, Foreign
  PROVE  IInv'
<1>0. TypeOK /\ ParentOK /\ ChildOK /\ GotOK /\ OnlyTheParentGoesOn /\ CleanedOK
  BY DEF IInv
<1>1. TypeOK'
  BY <1>0 DEF Foreign, TypeOK, Places, block, parents, childs
<1>2. ParentOK'
  BY <1>0 DEF Foreign, ParentOK, Over, block
<1>3. ChildOK'
  BY <1>0 DEF Foreign, ChildOK, Lost, childs
<1>4. GotOK'
  BY <1>0 DEF Foreign, GotOK, Lost, parents, childs
<1>5. OnlyTheParentGoesOn'
  BY <1>0 DEF Foreign, OnlyTheParentGoesOn, block, childs
<1>6. CleanedOK'
  BY <1>0 DEF Foreign, CleanedOK, Over, block, parents
<1>7. QED
  BY <1>1, <1>2, <1>3, <1>4, <1>5, <1>6 DEF IInv

\* What arrives is the report of this child.
LEMMA ReceiveInv ==
  ASSUME IInv, Receive
  PROVE  IInv'
<1>0. TypeOK /\ ParentOK /\ ChildOK /\ GotOK /\ OnlyTheParentGoesOn /\ CleanedOK
  BY DEF IInv
<1>1. TypeOK'
  BY <1>0 DEF Receive, TypeOK, Places, block, childs
<1>2. ParentOK'
  BY <1>0 DEF Receive, ParentOK, Over, block
<1>3. ChildOK'
  BY <1>0 DEF Receive, ChildOK, Lost, childs
<1>4. GotOK'
  BY <1>0, ReportKind DEF Receive, ChildOK, GotOK, childs
<1>5. OnlyTheParentGoesOn'
  BY <1>0 DEF Receive, OnlyTheParentGoesOn, block, childs
<1>6. CleanedOK'
  BY <1>0 DEF Receive, CleanedOK, Over, block
<1>7. QED
  BY <1>1, <1>2, <1>3, <1>4, <1>5, <1>6 DEF IInv

\* When nobody holds the child's end and nothing came, the child was lost.
LEMMA ReceiveEOFInv ==
  ASSUME IInv, ReceiveEOF
  PROVE  IInv'
<1>0. TypeOK /\ ParentOK /\ ChildOK /\ GotOK /\ OnlyTheParentGoesOn /\ CleanedOK
  BY DEF IInv
<1>1. TypeOK'
  BY <1>0 DEF ReceiveEOF, TypeOK, Places, block, childs
<1>2. ParentOK'
  BY <1>0 DEF ReceiveEOF, ParentOK, Over, block
<1>3. ChildOK'
  BY <1>0 DEF ReceiveEOF, ChildOK, Lost, childs
<1>4. GotOK'
  BY <1>0 DEF ReceiveEOF, Stages, TypeOK, ChildOK, GotOK, Lost, Strayed, childs
<1>5. OnlyTheParentGoesOn'
  BY <1>0 DEF ReceiveEOF, OnlyTheParentGoesOn, block, childs
<1>6. CleanedOK'
  BY <1>0 DEF ReceiveEOF, CleanedOK, Over, block
<1>7. QED
  BY <1>1, <1>2, <1>3, <1>4, <1>5, <1>6 DEF IInv

\* What cannot be received is not taken for anything.
LEMMA ReceiveFailsInv ==
  ASSUME IInv, ReceiveFails
  PROVE  IInv'
<1>0. TypeOK /\ ParentOK /\ ChildOK /\ GotOK /\ OnlyTheParentGoesOn /\ CleanedOK
  BY DEF IInv
<1>1. TypeOK'
  BY <1>0 DEF ReceiveFails, TypeOK, Places, block, parents, childs
<1>2. ParentOK'
  BY <1>0 DEF ReceiveFails, ParentOK, Over, block
<1>3. ChildOK'
  BY <1>0 DEF ReceiveFails, ChildOK, Lost, childs
<1>4. GotOK'
  BY <1>0 DEF ReceiveFails, GotOK, Lost, parents, childs
<1>5. OnlyTheParentGoesOn'
  BY <1>0 DEF ReceiveFails, OnlyTheParentGoesOn, block, childs
<1>6. CleanedOK'
  BY <1>0 DEF ReceiveFails, CleanedOK, Over, block, parents
<1>7. QED
  BY <1>1, <1>2, <1>3, <1>4, <1>5, <1>6 DEF IInv

\* The parent waits for its child before it cleans up.
LEMMA ReapInv ==
  ASSUME IInv, Reap
  PROVE  IInv'
<1>0. TypeOK /\ ParentOK /\ ChildOK /\ GotOK /\ OnlyTheParentGoesOn /\ CleanedOK
  BY DEF IInv
<1>1. TypeOK'
  BY <1>0, ExitPartRange DEF Reap, TypeOK, Places, block, childs
<1>2. ParentOK'
  BY <1>0 DEF Reap, ParentOK, block, childs
<1>3. ChildOK'
  BY <1>0 DEF Reap, ChildOK, Lost, childs
<1>4. GotOK'
  BY <1>0 DEF Reap, GotOK, Lost, childs
<1>5. OnlyTheParentGoesOn'
  BY <1>0 DEF Reap, OnlyTheParentGoesOn, block, childs
<1>6. CleanedOK'
  BY <1>0 DEF Reap, CleanedOK, Over, block
<1>7. QED
  BY <1>1, <1>2, <1>3, <1>4, <1>5, <1>6 DEF IInv

\* The block is over once it is cleaned up.
LEMMA CleanInv ==
  ASSUME IInv, Clean
  PROVE  IInv'
<1>0. TypeOK /\ ParentOK /\ ChildOK /\ GotOK /\ OnlyTheParentGoesOn /\ CleanedOK
  BY DEF IInv
<1>1. TypeOK'
  BY <1>0 DEF Clean, CleanedOK, ParentOK, TypeOK, Places, block, childs
<1>2. ParentOK'
  BY <1>0 DEF Clean, TypeOK, ParentOK, block, childs
<1>3. ChildOK'
  BY <1>0 DEF Clean, ChildOK, Lost, childs
<1>4. GotOK'
  BY <1>0 DEF Clean, GotOK, Lost, childs
<1>5. OnlyTheParentGoesOn'
  BY <1>0 DEF Clean, OnlyTheParentGoesOn, block, childs
<1>6. CleanedOK'
  BY <1>0 DEF Clean, TypeOK, CleanedOK, Over, block
<1>7. QED
  BY <1>1, <1>2, <1>3, <1>4, <1>5, <1>6 DEF IInv

\* A parent that dies leaves its child to itself.
LEMMA InterruptInv ==
  ASSUME IInv, Interrupt
  PROVE  IInv'
<1>0. TypeOK /\ ParentOK /\ ChildOK /\ GotOK /\ OnlyTheParentGoesOn /\ CleanedOK
  BY DEF IInv
<1>1. TypeOK'
  BY <1>0 DEF Interrupt, CleanedOK, TypeOK, Places, block, childs
<1>2. ParentOK'
  BY <1>0 DEF Interrupt, ParentOK, Over
<1>3. ChildOK'
  BY <1>0 DEF Interrupt, ChildOK, Lost, childs
<1>4. GotOK'
  BY <1>0 DEF Interrupt, GotOK, Lost, childs
<1>5. OnlyTheParentGoesOn'
  BY <1>0 DEF Interrupt, OnlyTheParentGoesOn, block, childs
<1>6. CleanedOK'
  BY <1>0 DEF Interrupt, CleanedOK
<1>7. QED
  BY <1>1, <1>2, <1>3, <1>4, <1>5, <1>6 DEF IInv

\* A failing _child_setup is reported like a failing body.
LEMMA SetupInv ==
  ASSUME IInv, Setup
  PROVE  IInv'
<1>0. TypeOK /\ ParentOK /\ ChildOK /\ GotOK /\ OnlyTheParentGoesOn /\ CleanedOK
  BY DEF IInv
<1>1. TypeOK'
  BY <1>0 DEF Setup, TypeOK, Stages, block, parents
<1>2. ParentOK'
  BY <1>0 DEF Setup, ParentOK, Ended, block, parents
<1>3. ChildOK'
  BY <1>0 DEF Setup, ChildOK, Ended, Strayed
<1>4. GotOK'
  BY <1>0 DEF Setup, ChildOK, GotOK, Lost, Ended, Strayed, parents
<1>5. OnlyTheParentGoesOn'
  BY <1>0 DEF Setup, OnlyTheParentGoesOn, Strayed
<1>6. CleanedOK'
  BY <1>0 DEF Setup, CleanedOK, block, parents
<1>7. QED
  BY <1>1, <1>2, <1>3, <1>4, <1>5, <1>6 DEF IInv

\* A child that leaves __enter__ has reported nothing.
LEMMA SetupExitsInv ==
  ASSUME IInv, SetupExits
  PROVE  IInv'
<1>0. TypeOK /\ ParentOK /\ ChildOK /\ GotOK /\ OnlyTheParentGoesOn /\ CleanedOK
  BY DEF IInv
<1>1. TypeOK'
  BY <1>0 DEF SetupExits, TypeOK, Stages, block, parents
<1>2. ParentOK'
  BY <1>0 DEF SetupExits, ParentOK, Ended, block, parents
<1>3. ChildOK'
  BY <1>0 DEF SetupExits, ChildOK, Strayed
<1>4. GotOK'
  BY <1>0 DEF SetupExits, GotOK, Lost, Strayed, parents
<1>5. OnlyTheParentGoesOn'
  BY <1>0 DEF SetupExits, ChildOK, OnlyTheParentGoesOn, NoReport
<1>6. CleanedOK'
  BY <1>0 DEF SetupExits, CleanedOK, block, parents
<1>7. QED
  BY <1>1, <1>2, <1>3, <1>4, <1>5, <1>6 DEF IInv

\* Only the child of an object that is used again misses _child_exit.
LEMMA BodyEndsInv ==
  ASSUME IInv, BodyEnds
  PROVE  IInv'
<1>0. TypeOK /\ ParentOK /\ ChildOK /\ GotOK /\ OnlyTheParentGoesOn /\ CleanedOK
  BY DEF IInv
<1>1. TypeOK'
  BY <1>0 DEF BodyEnds, TypeOK, Stages, block, parents
<1>2. ParentOK'
  BY <1>0 DEF BodyEnds, ParentOK, Ended, block, parents
<1>3. ChildOK'
  BY <1>0 DEF BodyEnds, ChildOK, Ended, Strayed
<1>4. GotOK'
  BY <1>0 DEF BodyEnds, ChildOK, GotOK, Lost, Ended, Strayed, parents
<1>5. OnlyTheParentGoesOn'
  BY <1>0 DEF BodyEnds, ChildOK, OnlyTheParentGoesOn, NoReport, Strayed
<1>6. CleanedOK'
  BY <1>0 DEF BodyEnds, CleanedOK, block, parents
<1>7. QED
  BY <1>1, <1>2, <1>3, <1>4, <1>5, <1>6 DEF IInv

\* A child that cannot send strays, but not for want of a parent.
LEMMA SendInv ==
  ASSUME IInv, Send
  PROVE  IInv'
<1>0. TypeOK /\ ParentOK /\ ChildOK /\ GotOK /\ OnlyTheParentGoesOn /\ CleanedOK
  BY DEF IInv
<1>1. TypeOK'
  BY <1>0 DEF Send, TypeOK, Stages, block, parents
<1>2. ParentOK'
  BY <1>0 DEF Send, ParentOK, Ended, block, parents
<1>3. ChildOK'
  BY <1>0 DEF Send, ChildOK, Strayed
<1>4. GotOK'
  BY <1>0 DEF Send, GotOK, Lost, Strayed, parents
<1>5. OnlyTheParentGoesOn'
  BY <1>0 DEF Send, OnlyTheParentGoesOn, Strayed
<1>6. CleanedOK'
  BY <1>0 DEF Send, CleanedOK, block, parents
<1>7. QED
  BY <1>1, <1>2, <1>3, <1>4, <1>5, <1>6 DEF IInv

\* A child that exits does so with the code of its report.
LEMMA ExitInv ==
  ASSUME IInv, Exit
  PROVE  IInv'
<1>0. TypeOK /\ ParentOK /\ ChildOK /\ GotOK /\ OnlyTheParentGoesOn /\ CleanedOK
  BY DEF IInv
<1>1. TypeOK'
  <2>1. CASE report.code = Text
    <3>1. child' = "abroad" /\ UNCHANGED <<block, parent, parents, childs, pipe, holders>>
      BY <2>1, Zenon DEF Exit, childs
    <3>2. QED
      BY <1>0, <3>1 DEF TypeOK, Stages, block, parents, childs
  <2>2. CASE report.code # Text
    <3>1. report.code \in Nat
      BY <1>0, <2>2, ReportCode DEF TypeOK
    <3>2. /\ child' = "ended" /\ wait_status' = Exited(report.code)
          /\ holders' = holders \ {"child"}
          /\ UNCHANGED <<block, parent, parents, report, pipe>>
      BY <2>2, Zenon DEF Exit
    <3>3. wait_status' \in Nat /\ wait_status' < 65536
      BY <3>1, <3>2, Encoding
    <3>4. QED
      BY <1>0, <3>2, <3>3 DEF TypeOK, Stages, block, parents
  <2>3. QED
    BY <2>1, <2>2
<1>2. ParentOK'
  BY <1>0 DEF Exit, ParentOK, Over, Ended, block, parents
<1>3. ChildOK'
  BY <1>0 DEF Exit, ChildOK, Ended, Strayed
<1>4. GotOK'
  BY <1>0 DEF Exit, GotOK, Lost, Strayed, parents
<1>5. OnlyTheParentGoesOn'
  BY <1>0 DEF Exit, OnlyTheParentGoesOn, Strayed
<1>6. CleanedOK'
  BY <1>0 DEF Exit, CleanedOK, block, parents
<1>7. QED
  BY <1>1, <1>2, <1>3, <1>4, <1>5, <1>6 DEF IInv

\* Only a stray child closes its end early.
LEMMA DropPipeInv ==
  ASSUME IInv, DropPipe
  PROVE  IInv'
<1>0. TypeOK /\ ParentOK /\ ChildOK /\ GotOK /\ OnlyTheParentGoesOn /\ CleanedOK
  BY DEF IInv
<1>1. TypeOK'
  BY <1>0 DEF DropPipe, TypeOK, block, parents, childs
<1>2. ParentOK'
  BY <1>0 DEF DropPipe, ParentOK, Over, Ended, block, parents
<1>3. ChildOK'
  BY <1>0 DEF DropPipe, ChildOK, childs
<1>4. GotOK'
  BY <1>0 DEF DropPipe, GotOK, Lost, parents, childs
<1>5. OnlyTheParentGoesOn'
  BY <1>0 DEF DropPipe, OnlyTheParentGoesOn, block, childs
<1>6. CleanedOK'
  BY <1>0 DEF DropPipe, CleanedOK, block, parents
<1>7. QED
  BY <1>1, <1>2, <1>3, <1>4, <1>5, <1>6 DEF IInv

\* The stray child ends some time.
LEMMA EndAbroadInv ==
  ASSUME IInv, EndAbroad
  PROVE  IInv'
<1>0. TypeOK /\ ParentOK /\ ChildOK /\ GotOK /\ OnlyTheParentGoesOn /\ CleanedOK
  BY DEF IInv
<1>1. TypeOK'
  <2>1. PICK code \in Codes : wait_status' = Exited(code)
    BY DEF EndAbroad
  <2>2. wait_status' \in Nat /\ wait_status' < 65536
    BY <2>1, CodesAssumption, Encoding
  <2>3. QED
    BY <1>0, <2>2 DEF EndAbroad, TypeOK, Stages, block, parents
<1>2. ParentOK'
  BY <1>0 DEF EndAbroad, ParentOK, Over, Ended, block, parents
<1>3. ChildOK'
  BY <1>0 DEF EndAbroad, ChildOK, Ended
<1>4. GotOK'
  BY <1>0 DEF EndAbroad, GotOK, Lost, Strayed, parents
<1>5. OnlyTheParentGoesOn'
  BY <1>0 DEF EndAbroad, OnlyTheParentGoesOn, Strayed, block
<1>6. CleanedOK'
  BY <1>0 DEF EndAbroad, CleanedOK, block, parents
<1>7. QED
  BY <1>1, <1>2, <1>3, <1>4, <1>5, <1>6 DEF IInv

\* A child that is killed is lost, unless it has sent its report.
LEMMA KillInv ==
  ASSUME IInv, Kill
  PROVE  IInv'
<1>0. TypeOK /\ ParentOK /\ ChildOK /\ GotOK /\ OnlyTheParentGoesOn /\ CleanedOK
  BY DEF IInv
<1>1. TypeOK'
  BY <1>0 DEF Kill, Killed, TypeOK, Places, Stages, Ended, Strayed, block, parents, childs
<1>2. ParentOK'
  BY <1>0 DEF Kill, TypeOK, ParentOK, Over, Ended, Strayed, block, parents, childs
<1>3. ChildOK'
  BY <1>0 DEF Kill, TypeOK, ParentOK, ChildOK, Lost, Over, Ended, Strayed, block, parents, childs
<1>4. GotOK'
  BY <1>0 DEF Kill, TypeOK, ParentOK, ChildOK, GotOK, Lost, Ended, Strayed, block, parents, childs
<1>5. OnlyTheParentGoesOn'
  BY <1>0 DEF Kill, TypeOK, ChildOK, OnlyTheParentGoesOn, NoReport, Ended, Strayed, block, parents, childs
<1>6. CleanedOK'
  BY <1>0 DEF Kill, TypeOK, ParentOK, CleanedOK, Over, block, parents, childs
<1>7. QED
  BY <1>1, <1>2, <1>3, <1>4, <1>5, <1>6 DEF IInv

---------------------------------------------------------------------------

\* Every step preserves the invariant.
LEMMA NextInv == IInv /\ [Next]_vars => IInv'
<1> SUFFICES ASSUME IInv, [Next]_vars PROVE IInv'
  OBVIOUS
<1>1. CASE Fork \/ ForkFails \/ Foreign \/ Interrupt
  BY <1>1, ForkInv, ForkFailsInv, ForeignInv, InterruptInv
<1>2. CASE Parent
  BY <1>2, EnterInv, TraceInv, ReceiveInv, ReceiveEOFInv, ReceiveFailsInv, ReapInv,
     CleanInv DEF Parent
<1>3. CASE Setup \/ SetupExits \/ BodyEnds \/ Send \/ Exit
  BY <1>3, SetupInv, SetupExitsInv, BodyEndsInv, SendInv, ExitInv
<1>4. CASE DropPipe \/ EndAbroad \/ Kill
  BY <1>4, DropPipeInv, EndAbroadInv, KillInv
<1>5. CASE UNCHANGED vars
  BY <1>5 DEF vars, block, parents, childs, IInv, TypeOK, ParentOK, ChildOK, GotOK,
     OnlyTheParentGoesOn, CleanedOK, Lost
<1>6. QED
  BY <1>1, <1>2, <1>3, <1>4, <1>5 DEF Next

\* The inductive invariant: where the two processes are fixes what is in the pipe and
\* what each may know of the other.
THEOREM Inductive == Spec => []IInv
  BY InitInv, NextInv, PTL DEF Spec

\* Type correctness of SplitExec.
THEOREM TypeCorrect == Spec => []TypeOK
<1>1. IInv => TypeOK
  BY DEF IInv
<1>2. QED
  BY <1>1, Inductive, PTL

\* For any codes and any number of blocks, a child leaves the with statement only after
\* one of the known mishaps; the death of its parent is none.
THEOREM ChildStays == Spec => []OnlyTheParentGoesOn
<1>1. IInv => OnlyTheParentGoesOn
  BY DEF IInv
<1>2. QED
  BY <1>1, Inductive, PTL

\* The parent raises only what the child reported, and takes a block to have ended well
\* only if it did or if the child was killed or strayed.
THEOREM ParentIsTold == Spec => []OutcomeTold
<1>1. ASSUME IInv, parent = "raised" PROVE report.kind = "error"
  BY <1>1 DEF IInv, ParentOK, GotOK
<1>2. ASSUME IInv, parent = "left", wait_status # Killed, child \notin Strayed
      PROVE  report.kind \in {"normal", "exit"} /\ exit_status = report.code % 256
  <2>1. report.kind \in {"normal", "exit"}
    BY <1>2 DEF IInv, ParentOK, GotOK, Lost
  <2>2. wait_status = Exited(report.code) /\ report.code # Text
    BY <1>2 DEF IInv, ParentOK, ChildOK, Over, Lost, Ended, Strayed
  <2>3. ExitPart(Exited(report.code)) = report.code % 256
    <3>1. report \in Reports \cup {NoReport}
      BY <1>2 DEF IInv, TypeOK
    <3>2. report.code \in Nat
      BY <2>2, <3>1, ReportCode
    <3>3. QED
      BY <3>2, Encoding
  <2>4. QED
    BY <1>2, <2>1, <2>2, <2>3 DEF IInv, ParentOK
<1>3. IInv => OutcomeTold
  BY <1>1, <1>2 DEF OutcomeTold
<1>4. QED
  BY <1>3, Inductive, PTL

\* At the end of a block the child is gone and _cleanup has run once.
THEOREM CleansOnce == Spec => []CleanedOnce
<1>1. IInv => CleanedOnce
  BY BlocksAssumption DEF IInv, TypeOK, ParentOK, CleanedOK, CleanedOnce
<1>2. QED
  BY <1>1, Inductive, PTL
=============================================================================
