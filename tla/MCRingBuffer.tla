---------------------------- MODULE MCRingBuffer ----------------------------
(* A buffer of three slots, writes of up to four bytes of two values: every *)
(* start, size and wrap, and writes that do not fit.                        *)
EXTENDS RingBuffer

MCByte == {0, 1}
MCN == 3
MCMaxChunk == 4
MCZero == 0
=============================================================================
