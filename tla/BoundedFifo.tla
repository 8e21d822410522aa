------------------------------ MODULE BoundedFifo ------------------------------
(***************************************************************************)
(* What RingBuffer.h promises its user: a first-in first-out queue of at   *)
(* most Cap elements.  A write that does not fit and a read of more than   *)
(* there is abort the program; writeOver() drops the oldest elements to    *)
(* make room, and of data longer than the capacity only the end is kept.   *)
(***************************************************************************)
EXTENDS Integers, Sequences

CONSTANTS
  Cap,       \* the capacity, a template parameter
  Elements,  \* the values stored
  Chunks,    \* the sequences of elements users write at once
  MaxRead    \* bound: the most elements a user asks for at once

VARIABLES
  queue,    \* the elements in the buffer, oldest first
  out,      \* what the last read() returned
  aborted   \* the program called abort()

fifo == <<queue, out, aborted>>

(* The last n elements of a sequence.                                      *)
Newest(s, n) == SubSeq(s, Len(s) - n + 1, Len(s))

Init ==
  /\ queue = <<>>
  /\ out = <<>>
  /\ aborted = FALSE

Abort ==
  /\ aborted' = TRUE
  /\ UNCHANGED <<queue, out>>

Write(data) ==
  /\ ~aborted
  /\ \/ /\ Len(queue) + Len(data) <= Cap
        /\ queue' = queue \o data
        /\ UNCHANGED <<out, aborted>>
     \/ /\ Len(queue) + Len(data) > Cap
        /\ Abort

WriteOver(data) ==
  /\ ~aborted
  /\ LET all == queue \o data IN
       queue' = IF Len(all) <= Cap THEN all ELSE Newest(all, Cap)
  /\ UNCHANGED <<out, aborted>>

Read(n) ==
  /\ ~aborted
  /\ \/ /\ n <= Len(queue)
        /\ out' = SubSeq(queue, 1, n)
        /\ queue' = SubSeq(queue, n + 1, Len(queue))
        /\ UNCHANGED aborted
     \/ /\ n > Len(queue)
        /\ Abort

Next ==
  \/ \E data \in Chunks : Write(data) \/ WriteOver(data)
  \/ \E n \in 0 .. MaxRead : Read(n)

Spec == Init /\ [][Next]_fifo
==============================================================================
