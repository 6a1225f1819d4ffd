--------------------------- MODULE MCAtomicWrite ---------------------------
(* Two or three writers of one target, two chunks each. *)
EXTENDS AtomicWrite

CONSTANTS w1, w2, w3, i1, i2, i3

MCThree == {w1, w2, w3}
MCTwo == {w1, w2}
MCFiles == {i1, i2}
MCThreeFiles == {i1, i2, i3}
=============================================================================
