------------------------------ MODULE MCFsLock ------------------------------
(* Two handles, which may both read, and wait for each other. *)
EXTENDS FsLock

CONSTANTS h1, h2

MCHandles == {h1, h2}
=============================================================================
