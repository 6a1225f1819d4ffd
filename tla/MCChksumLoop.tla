--------------------------- MODULE MCChksumLoop ---------------------------
(* Three handlers whose queues hold two items each, and a file of       *)
(* four blocks: the producer meets full queues while handing out blocks and     *)
(* while handing out sentinels.                                            *)
EXTENDS ChksumLoop

MCN == 3
MCQueueSize == 2
MCNBlocks == 4
=============================================================================
