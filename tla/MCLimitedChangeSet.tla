------------------------- MODULE MCLimitedChangeSet -------------------------
(* Three keys, of which any may be there and any may be unchangable. *)
EXTENDS LimitedChangeSet

CONSTANTS k1, k2, k3

MCKeys == {k1, k2, k3}
=============================================================================
