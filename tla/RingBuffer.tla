------------------------------ MODULE RingBuffer ------------------------------
(***************************************************************************)
(* RingBuffer.h: an array of Cap elements with a read and a write offset.  *)
(* Equal offsets mean an empty or a full buffer, which a flag tells apart. *)
(* Every method copies up to two segments, one to the end of the array     *)
(* and one from its start.                                                 *)
(***************************************************************************)
EXTENDS Integers, Sequences

CONSTANTS
  Cap,       \* the capacity, a template parameter
  Elements,  \* the values stored
  Chunks,    \* the sequences of elements users write at once
  MaxRead    \* bound: the most elements a user asks for at once

ASSUME BufferAssumption ==
  /\ Cap \in Nat \ {0}
  /\ Chunks \subseteq Seq(Elements)
  /\ MaxRead \in Nat

VARIABLES
  roff, woff, full,  \* _roff, _woff, _full
  buf,               \* _buf
  out,               \* what the last read() returned
  aborted            \* abort() was called

offsets == <<roff, woff, full>>
vars    == <<roff, woff, full, buf, out, aborted>>

Slots == 0 .. Cap - 1

Least(m, n) == IF m <= n THEN m ELSE n

(* len() and space().                                                      *)
\* Mutant: equal offsets always mean an empty buffer.
LenNeverFull ==
  CASE woff > roff -> woff - roff
    [] woff < roff -> Cap - roff + woff
    [] OTHER       -> 0

BufLen ==
  CASE woff > roff          -> woff - roff
    [] woff < roff          -> Cap - roff + woff
    [] woff = roff /\ full  -> Cap
    [] woff = roff /\ ~full -> 0

Space == Cap - BufLen

(* An offset that has reached the end of the array goes back to its start. *)
Wrap(off) == IF off = Cap THEN 0 ELSE off

(* The offset behind n elements from off on, when the second segment holds *)
(* at most limit elements.                                                 *)
Behind(off, n, limit) ==
  LET first == Least(n, Cap - off) IN
  IF n = first
    THEN Wrap(off + first)
    ELSE Wrap(Wrap(off + first) + Least(n - first, limit))

Abort ==
  /\ aborted' = TRUE
  /\ UNCHANGED <<offsets, buf, out>>

(* Both segments are copied; the second one begins where the first ended.  *)
CopyOut(n) ==
  LET first  == Least(n, Cap - roff)
      second == Least(n - first, woff)
  IN  [i \in 1 .. first + second |-> IF i <= first THEN buf[roff + i - 1] ELSE buf[i - first - 1]]

CopyIn(data, readOff) ==
  LET first  == Least(Len(data), Cap - woff)
      second == Least(Len(data) - first, readOff)
  IN  [i \in Slots |->
         IF i \in woff .. woff + first - 1 THEN data[i - woff + 1]
         ELSE IF i < second                THEN data[first + i + 1]
         ELSE buf[i]]

(* read(data, n), and read() with n = 1.                                   *)
Read(n) ==
  /\ ~aborted
  /\ \/ /\ n <= BufLen
        /\ out' = CopyOut(n)
        /\ roff' = Behind(roff, n, woff)
        /\ full' = (full /\ n = 0)
        /\ UNCHANGED <<woff, buf, aborted>>
     \/ /\ n > BufLen
        /\ Abort

(* The part of write<> after the read offset has been moved to readOff.    *)
Store(data, readOff) ==
  /\ buf' = CopyIn(data, readOff)
  /\ woff' = Behind(woff, Len(data), readOff)
  /\ roff' = readOff
  /\ full' = (full \/ (Len(data) > 0 /\ woff' = readOff))
  /\ UNCHANGED <<out, aborted>>

(* write<false>: write(data, len) and write(t).                            *)
Write(data) ==
  /\ ~aborted
  /\ \/ /\ Len(data) <= Space
        /\ Store(data, roff)
     \/ /\ Len(data) > Space
        /\ Abort

(* write<true>: writeOver(data, len) and writeOver(t).                     *)
Trimmed(data) ==
  IF Len(data) > Cap THEN SubSeq(data, Len(data) - Cap + 1, Len(data)) ELSE data

\* Mutant: an offset that reaches the end is left there.
AdvancedPastEnd(len) ==
  LET overflow == len - Space IN
  CASE len <= Space          -> roff
    [] overflow <= Cap - roff -> roff + overflow
    [] OTHER                 -> overflow - (Cap - roff)

Advanced(len) ==
  LET overflow == len - Space IN
  CASE len <= Space                             -> roff
    [] len > Space /\ overflow < Cap - roff     -> roff + overflow
    [] len > Space /\ ~(overflow < Cap - roff)  -> overflow - (Cap - roff)

WriteOver(data) ==
  /\ ~aborted
  /\ LET kept == Trimmed(data) IN Store(kept, Advanced(Len(kept)))
------------------------------------------------------------------------------
(* The array holds whatever was in its memory.                             *)
Init ==
  /\ roff = 0 /\ woff = 0 /\ full = FALSE
  /\ buf \in [Slots -> Elements]
  /\ out = <<>>
  /\ aborted = FALSE

Next ==
  \/ \E data \in Chunks : Write(data) \/ WriteOver(data)
  \/ \E n \in 0 .. MaxRead : Read(n)

Spec == Init /\ [][Next]_vars
------------------------------------------------------------------------------
(***************************************************************************)
(* Properties.                                                             *)
(***************************************************************************)
(* Neither offset ever points behind the array, and the flag is set only   *)
(* when the offsets meet, however reads, writes and overwrites of any      *)
(* lengths alternate: each method indexes _buf with them unchecked.        *)
BufferOK ==
  /\ roff \in Slots /\ woff \in Slots
  /\ full \in BOOLEAN
  /\ full => roff = woff
  /\ buf \in [Slots -> Elements]
  /\ out \in Seq(Elements)
  /\ aborted \in BOOLEAN

(* The buffer is a bounded queue: what is read is what was written, in     *)
(* order, minus the oldest elements that writeOver() displaced, and the    *)
(* program aborts exactly when a read or a write does not fit.             *)
Contents ==
  [i \in 1 .. BufLen |->
     buf[IF roff + i - 1 < Cap THEN roff + i - 1 ELSE roff + i - 1 - Cap]]

Fifo == INSTANCE BoundedFifo WITH queue <- Contents

ImplementsFifo == Fifo!Spec
==============================================================================
