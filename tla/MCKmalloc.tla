------------------------------ MODULE MCKmalloc ------------------------------
(* 24 blocks put m_last_block at the seventh: nodes are cut in front of it  *)
(* and the tail behind it is never cut.  Sizes: one block exactly full, one *)
(* byte more, and three blocks.                                             *)
EXTENDS Kmalloc

MCBlockCount == 24
MCRequests == {16, 17, 80}
=============================================================================
