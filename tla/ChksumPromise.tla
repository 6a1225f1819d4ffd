--------------------------- MODULE ChksumPromise ---------------------------
(***************************************************************************)
(* What chksum_loop_over_file promises its caller, whatever threads and    *)
(* queues it uses: every handler is fed the blocks of the file once each,  *)
(* in file order; the call returns only when every handler whose callback  *)
(* did not raise has had them all; after that no digest changes.           *)
(***************************************************************************)
EXTENDS Naturals, Sequences

CONSTANT Handlers   \* the chfs the caller passed

VARIABLES
  total,     \* how many blocks the file yields
  digest,    \* per handler, the blocks its update() has absorbed
  broken,    \* the handlers whose update() raised
  outcome    \* "running", "returned" or "raised"

vars == <<total, digest, broken, outcome>>

Init ==
  /\ total \in Nat
  /\ digest = [h \in Handlers |-> <<>>]
  /\ broken = {}
  /\ outcome = "running"

Absorb(h) ==
  /\ outcome = "running"
  /\ h \notin broken
  /\ Len(digest[h]) < total
  /\ digest' = [digest EXCEPT ![h] = Append(@, Len(@) + 1)]
  /\ UNCHANGED <<total, broken, outcome>>

Break(h) ==
  /\ outcome = "running"
  /\ broken' = broken \cup {h}
  /\ UNCHANGED <<total, digest, outcome>>

Return ==
  /\ outcome = "running"
  /\ \A h \in Handlers \ broken : Len(digest[h]) = total
  /\ outcome' = "returned"
  /\ UNCHANGED <<total, digest, broken>>

Raise ==
  /\ outcome = "running"
  /\ outcome' = "raised"
  /\ UNCHANGED <<total, digest, broken>>

Next ==
  \/ \E h \in Handlers : Absorb(h) \/ Break(h)
  \/ Return
  \/ Raise

Spec == Init /\ [][Next]_vars
=============================================================================
