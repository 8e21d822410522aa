----------------------------- MODULE MCRingBuffer -----------------------------
(* Instance of RingBuffer: chunks of every length up to two more than the  *)
(* capacity, with the empty one, so that every write wraps, fills,         *)
(* overflows and is trimmed from every pair of offsets.                    *)
EXTENDS RingBuffer

MCChunks == UNION {[1 .. n -> Elements] : n \in 0 .. Cap + 2}
==============================================================================
