-------------------------- MODULE MCPlaceholder --------------------------
(* Two threads and two names, where loading `a` uses `b`: the threads meet *)
(* on both locks, one of them holding the other lock already.              *)
EXTENDS Placeholder

CONSTANTS t1, t2, a, b

MCThreads == {t1, t2}
MCNames == {a, b}
MCDeps == [p \in MCNames |-> IF p = a THEN {b} ELSE {}]
=============================================================================
