---- MODULE MCSplitExec ----
(* Instances of SplitExec: an exit code that the system cuts off to 0 is among the
   others. *)
EXTENDS SplitExec

MCCodes == {0, 7, 256}
====
