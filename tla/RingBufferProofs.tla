--------------------------- MODULE RingBufferProofs ---------------------------
(***************************************************************************)
(* Proofs about RingBuffer, for every capacity and all data: the offsets   *)
(* stay in the array, and the buffer implements the bounded queue.         *)
(***************************************************************************)
EXTENDS RingBuffer, SequenceTheorems, TLAPS

(* The slot n places behind offset off, for n up to Cap.                   *)
Slot(off, n) == IF off + n < Cap THEN off + n ELSE off + n - Cap

LEMMA CapFacts == Cap \in Nat \ {0}
BY BufferAssumption

LEMMA SlotType ==
  ASSUME NEW off \in Slots, NEW n \in 0 .. Cap
  PROVE  Slot(off, n) \in Slots
BY CapFacts DEF Slot, Slots

(* len() is the distance from the read to the write offset, and the flag   *)
(* tells the distance Cap from the distance 0.                             *)
LEMMA LenSpec ==
  ASSUME BufferOK
  PROVE  /\ BufLen \in 0 .. Cap
         /\ woff = Slot(roff, BufLen)
         /\ full <=> BufLen = Cap
<1>1. /\ roff \in Int /\ woff \in Int /\ Cap \in Int
      /\ 0 <= roff /\ roff < Cap /\ 0 <= woff /\ woff < Cap
      /\ full \in BOOLEAN /\ (full => roff = woff)
  BY CapFacts DEF BufferOK, Slots
<1>2. CASE woff > roff
  BY <1>1, <1>2 DEF BufLen, Slot
<1>3. CASE woff < roff
  BY <1>1, <1>3 DEF BufLen, Slot
<1>4. CASE woff = roff /\ full
  BY <1>1, <1>4 DEF BufLen, Slot
<1>5. CASE woff = roff /\ ~full
  BY <1>1, <1>5 DEF BufLen, Slot
<1> QED
  BY <1>1, <1>2, <1>3, <1>4, <1>5

(* The converse, for the state after a step.                               *)
LenOf(r, w, f) ==
  CASE w > r      -> w - r
    [] w < r      -> Cap - r + w
    [] w = r /\ f  -> Cap
    [] w = r /\ ~f -> 0

LEMMA LenOfSlot ==
  ASSUME NEW n \in 0 .. Cap, NEW r \in Slots, NEW w, w = Slot(r, n),
         NEW f \in BOOLEAN, f <=> n = Cap
  PROVE  LenOf(r, w, f) = n /\ w \in Slots /\ (f => r = w)
<1>1. Cap \in Nat \ {0} /\ r \in Nat /\ r < Cap /\ n \in Nat /\ n <= Cap
  BY CapFacts DEF Slots
<1>2. w \in Slots
  BY SlotType
<1>3. CASE n = Cap
  <2>1. f /\ w = r
    BY <1>1, <1>3 DEF Slot
  <2> QED
    BY <1>1, <1>2, <1>3, <2>1 DEF LenOf
<1>4. CASE n < Cap /\ r + n < Cap
  <2>1. ~f /\ w = r + n
    BY <1>1, <1>4 DEF Slot
  <2> QED
    BY <1>1, <1>2, <1>4, <2>1 DEF LenOf
<1>5. CASE n < Cap /\ ~(r + n < Cap)
  <2>1. ~f /\ w = r + n - Cap /\ w < r
    BY <1>1, <1>5 DEF Slot
  <2> QED
    BY <1>1, <1>2, <1>5, <2>1 DEF LenOf
<1> QED
  BY <1>1, <1>3, <1>4, <1>5

LEMMA LenNext ==
  ASSUME NEW n \in 0 .. Cap,
         roff' \in Slots, woff' = Slot(roff', n), full' \in BOOLEAN, full' <=> n = Cap
  PROVE  BufLen' = n /\ woff' \in Slots /\ (full' => roff' = woff')
<1>1. BufLen' = LenOf(roff', woff', full')
  BY DEF BufLen, LenOf
<1> QED
  BY <1>1, LenOfSlot

(* An offset moves n slots forward if the second segment is long enough.   *)
LEMMA BehindIsSlot ==
  ASSUME NEW off \in Slots, NEW n \in 0 .. Cap, NEW limit \in Slots,
         off + n >= Cap => off + n - Cap <= limit
  PROVE  Behind(off, n, limit) = Slot(off, n)
<1>1. Cap \in Nat \ {0} /\ off \in Nat /\ off < Cap /\ limit \in Nat /\ limit < Cap
  BY CapFacts DEF Slots
<1>2. CASE off + n < Cap
  BY <1>1, <1>2 DEF Behind, Slot, Least, Wrap
<1>3. CASE off + n = Cap
  BY <1>1, <1>3 DEF Behind, Slot, Least, Wrap
<1>4. CASE off + n > Cap
  BY <1>1, <1>4 DEF Behind, Slot, Least, Wrap
<1> QED
  BY <1>1, <1>2, <1>3, <1>4

(* The n elements from offset r on in an array b.                          *)
SeqOf(r, n, b) ==
  [i \in 1 .. n |-> b[IF r + i - 1 < Cap THEN r + i - 1 ELSE r + i - 1 - Cap]]

LEMMA SeqOfType ==
  ASSUME NEW r \in Slots, NEW n \in 0 .. Cap, NEW b \in [Slots -> Elements]
  PROVE  /\ SeqOf(r, n, b) \in Seq(Elements)
         /\ Len(SeqOf(r, n, b)) = n
         /\ \A i \in 1 .. n : SeqOf(r, n, b)[i] = b[Slot(r, i - 1)]
<1>1. n \in Nat
  BY CapFacts
<1>2. \A i \in 1 .. n : i - 1 \in 0 .. Cap
  BY CapFacts
<1>3. \A i \in 1 .. n :
        (IF r + i - 1 < Cap THEN r + i - 1 ELSE r + i - 1 - Cap) = Slot(r, i - 1)
  BY CapFacts DEF Slot, Slots
<1>4. SeqOf(r, n, b) = [i \in 1 .. n |-> b[Slot(r, i - 1)]]
  BY <1>3 DEF SeqOf
<1>5. \A i \in 1 .. n : b[Slot(r, i - 1)] \in Elements
  BY <1>2, SlotType
<1> QED
  BY <1>1, <1>4, <1>5

LEMMA ContentsType ==
  ASSUME BufferOK
  PROVE  /\ Contents \in Seq(Elements)
         /\ Len(Contents) = BufLen
         /\ \A i \in 1 .. BufLen : Contents[i] = buf[Slot(roff, i - 1)]
<1>1. Contents = SeqOf(roff, BufLen, buf)
  BY DEF Contents, SeqOf
<1>2. BufLen \in 0 .. Cap /\ roff \in Slots /\ buf \in [Slots -> Elements]
  BY LenSpec DEF BufferOK
<1> QED
  BY <1>1, <1>2, SeqOfType

LEMMA ContentsNext ==
  ASSUME BufferOK', BufLen' \in 0 .. Cap
  PROVE  /\ Contents' \in Seq(Elements)
         /\ Len(Contents') = BufLen'
         /\ \A i \in 1 .. BufLen' : Contents'[i] = buf'[Slot(roff', i - 1)]
<1>1. Contents' = SeqOf(roff', BufLen', buf')
  BY DEF Contents, SeqOf
<1>2. roff' \in Slots /\ buf' \in [Slots -> Elements]
  BY DEF BufferOK
<1> QED
  BY <1>1, <1>2, SeqOfType

(***************************************************************************)
(* A write behind a read offset that leaves room for it: rem elements are  *)
(* kept, from readOff on.                                                  *)
(***************************************************************************)
LEMMA StoreSpec ==
  ASSUME BufferOK, NEW data \in Seq(Elements), NEW readOff \in Slots, NEW rem \in 0 .. Cap,
         woff = Slot(readOff, rem), rem + Len(data) <= Cap,
         full => rem + Len(data) = Cap, rem = Cap => full,
         Store(data, readOff)
  PROVE  /\ BufferOK'
         /\ BufLen' = rem + Len(data)
         /\ \A i \in 1 .. rem : buf'[Slot(readOff, i - 1)] = buf[Slot(readOff, i - 1)]
         /\ \A i \in 1 .. Len(data) : buf'[Slot(readOff, rem + i - 1)] = data[i]
<1> DEFINE len == Len(data)
           first == Least(len, Cap - woff)
           second == Least(len - first, readOff)
<1>1. /\ Cap \in Nat \ {0} /\ len \in Nat /\ rem \in Nat
      /\ woff \in Nat /\ woff < Cap /\ readOff \in Nat /\ readOff < Cap
      /\ buf \in [Slots -> Elements] /\ full \in BOOLEAN
  BY CapFacts DEF BufferOK, Slots
<1>2. woff + len >= Cap => woff + len - Cap <= readOff
  BY <1>1 DEF Slot
<1>3. /\ first \in Nat /\ second \in Nat /\ first + second = len /\ first <= Cap - woff
      /\ second > 0 => first = Cap - woff
      /\ second <= readOff
  BY <1>1, <1>2 DEF Least
<1>4. woff' = Slot(woff, len) /\ roff' = readOff
  <2>1. woff \in Slots /\ len \in 0 .. Cap
    BY <1>1 DEF Slots
  <2> QED
    BY <1>2, <2>1, BehindIsSlot DEF Store
<1>5. woff' = Slot(readOff, rem + len)
  BY <1>1, <1>4 DEF Slot
<1>6. full' \in BOOLEAN /\ (full' <=> rem + len = Cap)
  <2>1. full' = (full \/ (len > 0 /\ woff' = readOff))
    BY DEF Store
  <2>2. (len > 0 /\ woff' = readOff) => rem + len = Cap
    BY <1>1, <1>5 DEF Slot
  <2>3. rem + len = Cap => full \/ (len > 0 /\ woff' = readOff)
    <3>1. CASE len > 0
      BY <1>1, <1>5, <3>1 DEF Slot
    <3>2. CASE len = 0
      BY <1>1, <3>2
    <3> QED
      BY <1>1, <3>1, <3>2
  <2> QED
    BY <2>1, <2>2, <2>3
<1>7. buf' = [i \in Slots |->
                IF i \in woff .. woff + first - 1 THEN data[i - woff + 1]
                ELSE IF i < second                THEN data[first + i + 1]
                ELSE buf[i]]
  BY DEF Store, CopyIn
<1>12. woff = Slot(readOff, rem) /\ rem + len <= Cap
  OBVIOUS
<1>13. data \in [1 .. len -> Elements]
  OBVIOUS
<1> HIDE DEF len, first, second
<1>8. \A i \in 1 .. rem : buf'[Slot(readOff, i - 1)] = buf[Slot(readOff, i - 1)]
  <2> SUFFICES ASSUME NEW i \in 1 .. rem
               PROVE  buf'[Slot(readOff, i - 1)] = buf[Slot(readOff, i - 1)]
    OBVIOUS
  <2> DEFINE p == Slot(readOff, i - 1)
  <2>1. p \in Slots /\ i \in Nat
    BY <1>1, SlotType
  <2>2. ~(p \in woff .. woff + first - 1) /\ ~(p < second)
    BY <1>1, <1>3, <1>12 DEF Slot
  <2> QED
    BY <1>7, <2>1, <2>2
<1>9. \A i \in 1 .. len : buf'[Slot(readOff, rem + i - 1)] = data[i]
  <2> SUFFICES ASSUME NEW i \in 1 .. len
               PROVE  buf'[Slot(readOff, rem + i - 1)] = data[i]
    OBVIOUS
  <2> DEFINE p == Slot(readOff, rem + i - 1)
  <2>1. p \in Slots /\ p \in Nat
    <3>1. rem + i - 1 \in 0 .. Cap
      BY <1>1, <1>12
    <3>2. p \in Slots
      BY <3>1, SlotType
    <3> QED
      BY <3>2, <1>1 DEF Slots
  <2>2. CASE i <= first
    <3>1. p \in woff .. woff + first - 1 /\ p - woff + 1 = i
      BY <1>1, <1>3, <1>12, <2>2 DEF Slot
    <3> QED
      BY <1>7, <2>1, <3>1
  <2>3. CASE i > first
    <3>1. p < second /\ first + p + 1 = i
      BY <1>1, <1>3, <1>12, <2>3 DEF Slot
    <3>2. ~(p \in woff .. woff + first - 1)
      BY <1>1, <1>3, <1>12, <2>3, <3>1 DEF Slot
    <3> QED
      BY <1>7, <2>1, <2>3, <3>1, <3>2
  <2> QED
    BY <1>1, <1>3, <2>2, <2>3
<1>10. buf' \in [Slots -> Elements]
  <2> SUFFICES ASSUME NEW i \in Slots
               PROVE  /\ i \in woff .. woff + first - 1 => data[i - woff + 1] \in Elements
                      /\ i < second => data[first + i + 1] \in Elements
    BY <1>1, <1>7
  <2>1. i \in Nat
    BY DEF Slots
  <2>2. i \in woff .. woff + first - 1 => i - woff + 1 \in 1 .. len
    BY <1>1, <1>3, <2>1, SMTT(30)
  <2>3. i < second => first + i + 1 \in 1 .. len
    BY <1>1, <1>3, <2>1
  <2> QED
    BY <1>13, <2>2, <2>3
<1>11. BufLen' = rem + len /\ BufferOK'
  <2>1. rem + len \in 0 .. Cap
    BY <1>1, <1>12
  <2>2. BufLen' = rem + len /\ woff' \in Slots /\ (full' => roff' = woff')
    BY <1>4, <1>5, <1>6, <2>1, LenNext
  <2> QED
    BY <1>4, <1>6, <1>10, <2>2 DEF BufferOK, Store
<1> QED
  BY <1>8, <1>9, <1>11 DEF len

(***************************************************************************)
(* The three methods.                                                      *)
(***************************************************************************)
LEMMA WriteSpec ==
  ASSUME BufferOK, NEW data \in Seq(Elements), Len(data) <= Space, Store(data, roff)
  PROVE  BufferOK' /\ Contents' = Contents \o data
<1>1. /\ BufLen \in 0 .. Cap /\ woff = Slot(roff, BufLen) /\ (full <=> BufLen = Cap)
      /\ roff \in Slots
  BY LenSpec DEF BufferOK
<1>2. Len(data) \in Nat /\ BufLen + Len(data) <= Cap
  BY <1>1, CapFacts DEF Space
<1>3. full => BufLen + Len(data) = Cap
  BY <1>1, <1>2, CapFacts
<1>4. /\ BufferOK'
      /\ BufLen' = BufLen + Len(data)
      /\ \A i \in 1 .. BufLen : buf'[Slot(roff, i - 1)] = buf[Slot(roff, i - 1)]
      /\ \A i \in 1 .. Len(data) : buf'[Slot(roff, BufLen + i - 1)] = data[i]
  BY <1>1, <1>2, <1>3, StoreSpec
<1>5. /\ Contents' \in Seq(Elements) /\ Len(Contents') = BufLen + Len(data)
      /\ \A i \in 1 .. BufLen + Len(data) : Contents'[i] = buf'[Slot(roff, i - 1)]
  <2>1. roff' = roff
    BY DEF Store
  <2>2. BufLen' \in 0 .. Cap
    BY <1>1, <1>2, <1>4, CapFacts
  <2> QED
    BY <1>4, <2>1, <2>2, ContentsNext
<1>6. /\ Contents \in Seq(Elements) /\ Len(Contents) = BufLen
      /\ \A i \in 1 .. BufLen : Contents[i] = buf[Slot(roff, i - 1)]
  BY ContentsType
<1>7. /\ Contents \o data \in Seq(Elements)
      /\ Len(Contents \o data) = BufLen + Len(data)
      /\ \A i \in 1 .. BufLen + Len(data) :
           (Contents \o data)[i] = IF i <= BufLen THEN Contents[i] ELSE data[i - BufLen]
  BY <1>6, ConcatProperties
<1>8. ASSUME NEW i \in 1 .. BufLen + Len(data)
      PROVE  Contents'[i] = (Contents \o data)[i]
  <2>1. CASE i <= BufLen
    <3>1. i \in 1 .. BufLen
      BY <1>1, <2>1, CapFacts
    <3> QED
      BY <1>4, <1>5, <1>6, <1>7, <2>1, <3>1
  <2>2. CASE ~(i <= BufLen)
    <3>1. i - BufLen \in 1 .. Len(data) /\ BufLen + (i - BufLen) - 1 = i - 1
      BY <1>1, <1>2, <2>2, CapFacts
    <3>2. buf'[Slot(roff, BufLen + (i - BufLen) - 1)] = data[i - BufLen]
      BY <1>4, <3>1
    <3> QED
      BY <1>5, <1>7, <2>2, <3>1, <3>2
  <2> QED
    BY <2>1, <2>2
<1> QED
  BY <1>4, <1>5, <1>7, <1>8, SeqEqual

(* The end of the data that writeOver() keeps.                             *)
LEMMA TrimmedSpec ==
  ASSUME NEW data \in Seq(Elements)
  PROVE  /\ Trimmed(data) \in Seq(Elements)
         /\ Len(Trimmed(data)) = Least(Len(data), Cap)
         /\ \A i \in 1 .. Len(Trimmed(data)) :
              Trimmed(data)[i] = data[Len(data) - Len(Trimmed(data)) + i]
<1>1. Len(data) \in Nat /\ Cap \in Nat \ {0}
  BY CapFacts
<1>2. CASE Len(data) > Cap
  <2> DEFINE m == Len(data) - Cap + 1
  <2>1. m \in Int /\ Trimmed(data) = SubSeq(data, m, Len(data)) /\ m >= 1 /\ m <= Len(data)
    BY <1>1, <1>2 DEF Trimmed
  <2>2. \A i \in m .. Len(data) : data[i] \in Elements
    BY <1>1, <2>1, ElementOfSeq
  <2> HIDE DEF m
  <2>3. /\ Trimmed(data) \in Seq(Elements)
        /\ Len(Trimmed(data)) = Len(data) - m + 1
        /\ \A i \in 1 .. Len(data) - m + 1 : Trimmed(data)[i] = data[m + i - 1]
    BY <1>1, <2>1, <2>2, SubSeqProperties
  <2>4. m = Len(data) - Cap + 1
    BY DEF m
  <2>5. Len(Trimmed(data)) = Cap /\ Least(Len(data), Cap) = Cap
    BY <1>1, <1>2, <2>3, <2>4 DEF Least
  <2>6. \A i \in 1 .. Cap : m + i - 1 = Len(data) - Cap + i /\ i \in 1 .. Len(data) - m + 1
    BY <1>1, <2>4
  <2> QED
    BY <2>3, <2>5, <2>6
<1>3. CASE ~(Len(data) > Cap)
  <2>1. Trimmed(data) = data /\ Least(Len(data), Cap) = Len(data)
    BY <1>1, <1>3 DEF Trimmed, Least
  <2>2. \A i \in 1 .. Len(data) : Len(data) - Len(data) + i = i
    BY <1>1
  <2> QED
    BY <2>1, <2>2
<1> QED
  BY <1>2, <1>3

(* The read offset moves on by the number of elements displaced.           *)
LEMMA AdvancedSpec ==
  ASSUME BufferOK, NEW len \in 0 .. Cap
  PROVE  LET drop == IF len <= Space THEN 0 ELSE len - Space IN
           /\ drop \in 0 .. BufLen
           /\ Advanced(len) = Slot(roff, drop)
           /\ Advanced(len) \in Slots
<1>1. /\ BufLen \in 0 .. Cap /\ Cap \in Nat \ {0}
      /\ roff \in Slots /\ roff \in Nat /\ roff < Cap
  BY LenSpec, CapFacts DEF BufferOK, Slots
<1> DEFINE drop == IF len <= Space THEN 0 ELSE len - Space
<1>2. drop \in 0 .. BufLen /\ Space \in 0 .. Cap
  BY <1>1 DEF Space
<1>3. Advanced(len) = Slot(roff, drop)
  <2>1. CASE len <= Space
    BY <1>1, <1>2, <2>1 DEF Advanced, Slot
  <2>2. CASE ~(len <= Space)
    BY <1>1, <1>2, <2>2 DEF Advanced, Slot
  <2> QED
    BY <2>1, <2>2
<1>4. drop \in 0 .. Cap
  BY <1>1, <1>2
<1> QED
  BY <1>1, <1>2, <1>3, <1>4, SlotType

LEMMA WriteOverSpec ==
  ASSUME BufferOK, NEW data \in Seq(Elements),
         Store(Trimmed(data), Advanced(Len(Trimmed(data))))
  PROVE  /\ BufferOK'
         /\ Contents' = LET all == Contents \o data
                        IN  IF Len(all) <= Cap THEN all ELSE Fifo!Newest(all, Cap)
<1> DEFINE all == Contents \o data
           kept == Trimmed(data)
           L == Len(kept)
           D == Len(data)
           drop == IF L <= Space THEN 0 ELSE L - Space
           rem == BufLen - drop
           r == Advanced(L)
<1>1. /\ BufLen \in 0 .. Cap /\ Cap \in Nat \ {0} /\ BufLen \in Nat
      /\ woff = Slot(roff, BufLen) /\ (full <=> BufLen = Cap)
      /\ roff \in Slots /\ roff \in Nat /\ roff < Cap
      /\ Space = Cap - BufLen
  BY LenSpec, CapFacts DEF BufferOK, Slots, Space
<1>2. /\ kept \in Seq(Elements) /\ D \in Nat /\ L = Least(D, Cap)
      /\ \A i \in 1 .. L : kept[i] = data[D - L + i]
  BY TrimmedSpec
<1>3. L \in 0 .. Cap /\ L \in Nat /\ (D <= Cap => L = D) /\ (D > Cap => L = Cap)
  BY <1>1, <1>2 DEF Least
<1>4. drop \in 0 .. BufLen /\ r = Slot(roff, drop) /\ r \in Slots
  BY <1>3, AdvancedSpec
<1>5. drop = IF L <= Space THEN 0 ELSE L - Space
  OBVIOUS
<1>6. Store(kept, r)
  OBVIOUS
<1>7. rem = BufLen - drop
  OBVIOUS
<1>8. L = Len(kept) /\ D = Len(data)
  OBVIOUS
<1> HIDE DEF kept, L, D, drop, rem, r
<1>9. /\ rem \in 0 .. Cap /\ rem \in Nat /\ drop \in Nat
      /\ rem + L <= Cap /\ (full => rem + L = Cap) /\ (rem = Cap => full)
      /\ woff = Slot(r, rem)
  <2>1. rem \in 0 .. Cap /\ rem \in Nat /\ drop \in Nat /\ r \in Nat
    BY <1>1, <1>4, <1>7 DEF Slots
  <2>2. rem + L <= Cap /\ (full => rem + L = Cap) /\ (rem = Cap => full)
    BY <1>1, <1>3, <1>4, <1>5, <1>7
  <2>3. woff = Slot(r, rem)
    BY <1>1, <1>4, <1>7, <2>1 DEF Slot
  <2> QED
    BY <2>1, <2>2, <2>3
<1>10. /\ BufferOK'
       /\ BufLen' = rem + L
       /\ \A i \in 1 .. rem : buf'[Slot(r, i - 1)] = buf[Slot(r, i - 1)]
       /\ \A i \in 1 .. L : buf'[Slot(r, rem + i - 1)] = kept[i]
  BY <1>2, <1>4, <1>6, <1>8, <1>9, StoreSpec
<1>11. /\ Contents' \in Seq(Elements) /\ Len(Contents') = rem + L
       /\ \A i \in 1 .. rem + L : Contents'[i] = buf'[Slot(r, i - 1)]
  <2>1. roff' = r
    BY <1>6 DEF Store
  <2>2. BufLen' \in 0 .. Cap
    BY <1>1, <1>3, <1>9, <1>10
  <2> QED
    BY <1>10, <2>1, <2>2, ContentsNext
<1>12. /\ Contents \in Seq(Elements) /\ Len(Contents) = BufLen
       /\ \A i \in 1 .. BufLen : Contents[i] = buf[Slot(roff, i - 1)]
  BY ContentsType
<1>13. /\ all \in Seq(Elements)
       /\ Len(all) = BufLen + D
       /\ \A i \in 1 .. BufLen + D :
            all[i] = IF i <= BufLen THEN Contents[i] ELSE data[i - BufLen]
  BY <1>8, <1>12, ConcatProperties
<1> HIDE DEF all
<1>20. /\ BufLen \in Nat /\ Cap \in Nat /\ D \in Nat /\ L \in Nat /\ drop \in Nat /\ rem \in Nat
       /\ BufLen <= Cap /\ rem + L <= Cap /\ drop <= BufLen /\ rem = BufLen - drop /\ L <= D
       /\ D <= Cap => L = D
       /\ D > Cap => L = Cap
       /\ L <= Cap - BufLen => drop = 0
       /\ L > Cap - BufLen => drop = L - (Cap - BufLen)
  <2>1. BufLen \in Nat /\ Cap \in Nat /\ D \in Nat /\ L \in Nat /\ drop \in Nat /\ rem \in Nat
    BY <1>1, <1>2, <1>3, <1>9
  <2>2. BufLen <= Cap /\ rem + L <= Cap /\ drop <= BufLen /\ rem = BufLen - drop
    BY <1>1, <1>4, <1>7, <1>9, <2>1
  <2>3. L <= D /\ (D <= Cap => L = D) /\ (D > Cap => L = Cap)
    BY <1>3, <2>1
  <2>4. Space = Cap - BufLen
    BY <1>1
  <2>5. (L <= Cap - BufLen => drop = 0) /\ (L > Cap - BufLen => drop = L - (Cap - BufLen))
    BY <1>5, <2>1, <2>4
  <2> QED
    BY <2>1, <2>2, <2>3, <2>5
<1>21. rem > 0 => D = L
  BY <1>20
(* What is in the buffer are the last elements of all.                     *)
<1>14. ASSUME NEW i \in 1 .. rem + L
       PROVE  /\ BufLen + D - (rem + L) + i \in 1 .. BufLen + D
              /\ Contents'[i] = all[BufLen + D - (rem + L) + i]
  <2>1. i \in Nat /\ i >= 1 /\ i <= rem + L
    BY <1>20
  <2>2. D - L \in Nat /\ (rem > 0 => D = L)
    BY <1>20, <1>21
  <2>3. BufLen + D - (rem + L) + i = drop + (D - L) + i
    BY <1>20, <2>1
  <2>4. drop + (D - L) + i \in 1 .. BufLen + D
    BY <1>20, <2>1
  <2>5. CASE i <= rem
    <3>1. D = L /\ i \in 1 .. rem /\ drop + i \in 1 .. BufLen /\ drop + i <= BufLen
      BY <1>20, <2>1, <2>2, <2>5
    <3>2. Slot(r, i - 1) = Slot(roff, (drop + i) - 1)
      BY <1>1, <1>4, <1>7, <1>9, <2>1, <3>1 DEF Slot
    <3>3. Contents'[i] = Contents[drop + i]
      BY <1>10, <1>11, <1>12, <3>1, <3>2
    <3>4. drop + (D - L) + i = drop + i
      BY <1>3, <1>9, <2>1, <3>1
    <3>5. all[drop + i] = Contents[drop + i]
      BY <1>13, <2>4, <3>1, <3>4
    <3> QED
      BY <2>3, <2>4, <3>3, <3>4, <3>5
  <2>6. CASE ~(i <= rem)
    <3>1. i - rem \in 1 .. L /\ rem + (i - rem) - 1 = i - 1
      BY <1>3, <1>9, <2>1, <2>6
    <3>2. buf'[Slot(r, rem + (i - rem) - 1)] = kept[i - rem]
      BY <1>10, <3>1
    <3>3. Contents'[i] = data[D - L + (i - rem)]
      BY <1>2, <1>11, <3>1, <3>2
    <3>4. /\ ~(drop + (D - L) + i <= BufLen)
          /\ drop + (D - L) + i - BufLen = D - L + (i - rem)
      BY <1>20, <2>1, <2>2, <2>6
    <3>5. \A k \in 1 .. BufLen + D : ~(k <= BufLen) => all[k] = data[k - BufLen]
      BY <1>13
    <3>6. all[drop + (D - L) + i] = data[drop + (D - L) + i - BufLen]
      BY <1>20, <2>1, <2>4, <3>4, <3>5
    <3>7. Contents'[i] = all[drop + (D - L) + i]
      BY <3>3, <3>4, <3>6
    <3> QED
      BY <2>3, <2>4, <3>7
  <2> QED
    BY <2>5, <2>6
<1>15. CASE BufLen + D <= Cap
  <2>1. rem + L = BufLen + D
    BY <1>15, <1>20
  <2>4. \A i \in 1 .. rem + L : BufLen + D - (rem + L) + i = i
    BY <1>20, <2>1
  <2>2. \A i \in 1 .. rem + L : Contents'[i] = all[i]
    BY <1>14, <2>4
  <2>3. Contents' = all
    BY <1>11, <1>13, <2>1, <2>2, SeqEqual
  <2> QED
    BY <1>10, <1>13, <1>15, <2>3 DEF all
<1>16. CASE ~(BufLen + D <= Cap)
  <2>1. rem + L = Cap
    BY <1>16, <1>20
  <2> DEFINE m == BufLen + D - Cap + 1
  <2>2. m \in Int /\ m >= 1 /\ BufLen + D - m + 1 = Cap /\ m <= BufLen + D /\ BufLen + D \in Int
    BY <1>1, <1>2, <1>16
  <2> DEFINE n == BufLen + D
  <2>3. Fifo!Newest(all, Cap) = SubSeq(all, m, n)
    <3>1. Len(all) - Cap + 1 = m /\ Len(all) = n
      BY <1>13, <1>20
    <3>2. Fifo!Newest(all, Cap) = SubSeq(all, Len(all) - Cap + 1, Len(all))
      BY DEF Fifo!Newest
    <3> HIDE DEF m, n
    <3> QED
      BY <3>1, <3>2
  <2>4. \A i \in m .. n : all[i] \in Elements
    BY <1>1, <1>2, <1>13, <2>2, ElementOfSeq
  <2>5. \A i \in 1 .. Cap : m + i - 1 = BufLen + D - (rem + L) + i
    BY <1>1, <1>2, <2>1
  <2>9. n \in Int /\ m <= n /\ m \in Int /\ n - m + 1 = Cap
    BY <1>16, <1>20, CapFacts
  <2> HIDE DEF m, n
  <2>10. /\ SubSeq(all, m, n) \in Seq(Elements)
         /\ Len(SubSeq(all, m, n)) = IF m <= n THEN n - m + 1 ELSE 0
         /\ \A i \in 1 .. n - m + 1 : SubSeq(all, m, n)[i] = all[m + i - 1]
    BY <2>4, <2>9, SubSeqProperties
  <2>6. /\ SubSeq(all, m, n) \in Seq(Elements)
        /\ Len(SubSeq(all, m, n)) = Cap
        /\ \A i \in 1 .. Cap : SubSeq(all, m, n)[i] = all[m + i - 1]
    BY <2>9, <2>10
  <2>11. \A i \in 1 .. Cap : Contents'[i] = all[BufLen + D - (rem + L) + i]
    <3>1. \A i \in 1 .. rem + L : Contents'[i] = all[BufLen + D - (rem + L) + i]
      BY <1>14
    <3> QED
      BY <2>1, <3>1
  <2>7. \A i \in 1 .. Cap : Contents'[i] = SubSeq(all, m, n)[i]
    BY <2>5, <2>6, <2>11
  <2>8. Contents' = SubSeq(all, m, n)
    BY <1>11, <2>1, <2>6, <2>7, SeqEqual
  <2> QED
    BY <1>10, <1>13, <1>16, <2>3, <2>8 DEF all
<1> QED
  BY <1>1, <1>2, <1>15, <1>16

LEMMA ReadSpec ==
  ASSUME BufferOK, NEW n \in Nat, n <= BufLen,
         out' = CopyOut(n), roff' = Behind(roff, n, woff), full' = (full /\ n = 0),
         UNCHANGED <<woff, buf, aborted>>
  PROVE  /\ BufferOK'
         /\ out' = SubSeq(Contents, 1, n)
         /\ Contents' = SubSeq(Contents, n + 1, Len(Contents))
<1> DEFINE first == Least(n, Cap - roff)
           second == Least(n - first, woff)
           rest == BufLen - n
<1>1. /\ BufLen \in 0 .. Cap /\ Cap \in Nat \ {0} /\ BufLen \in Nat
      /\ woff = Slot(roff, BufLen) /\ (full <=> BufLen = Cap) /\ full \in BOOLEAN
      /\ roff \in Slots /\ roff \in Nat /\ roff < Cap
      /\ woff \in Slots /\ woff \in Nat /\ woff < Cap
  BY LenSpec, CapFacts DEF BufferOK, Slots
<1>2. roff + n >= Cap => roff + n - Cap <= woff
  BY <1>1 DEF Slot
<1>3. /\ first \in Nat /\ second \in Nat /\ first + second = n /\ first <= Cap - roff
      /\ second > 0 => first = Cap - roff
      /\ second <= woff
  BY <1>1, <1>2 DEF Least
<1>4. n \in 0 .. Cap
  BY <1>1
<1>5. roff' = Slot(roff, n) /\ roff' \in Slots
  BY <1>1, <1>2, <1>4, BehindIsSlot, SlotType
<1>6. rest \in Nat /\ rest \in 0 .. Cap /\ rest = BufLen - n
  BY <1>1
<1>7. /\ Contents \in Seq(Elements) /\ Len(Contents) = BufLen
      /\ \A i \in 1 .. BufLen : Contents[i] = buf[Slot(roff, i - 1)]
  BY ContentsType
<1>8. out' = [i \in 1 .. first + second |->
                IF i <= first THEN buf[roff + i - 1] ELSE buf[i - first - 1]]
  BY DEF CopyOut
<1> HIDE DEF first, second, rest
<1>9. /\ BufLen' = rest /\ woff' \in Slots /\ (full' => roff' = woff')
      /\ full' \in BOOLEAN
  <2>1. woff' = Slot(roff', rest)
    BY <1>1, <1>5, <1>6 DEF Slot
  <2>2. full' \in BOOLEAN /\ (full' <=> rest = Cap)
    <3>1. full' <=> (full /\ n = 0)
      OBVIOUS
    <3>2. full' \in BOOLEAN
      <4>1. full' = (full /\ n = 0)
        OBVIOUS
      <4> QED
        BY <4>1
    <3>3. (n = 0 /\ BufLen = Cap) <=> rest = Cap
      BY <1>1, <1>6
    <3> QED
      BY <1>1, <3>1, <3>2, <3>3
  <2> QED
    BY <1>5, <1>6, <2>1, <2>2, LenNext
<1>10. \A i \in 1 .. n : Contents[i] \in Elements /\ Contents[i] = buf[Slot(roff, i - 1)]
  BY <1>1, <1>7, ElementOfSeq
<1>11. /\ SubSeq(Contents, 1, n) \in Seq(Elements) /\ Len(SubSeq(Contents, 1, n)) = n
       /\ \A i \in 1 .. n : SubSeq(Contents, 1, n)[i] = Contents[i]
  <2>1. /\ SubSeq(Contents, 1, n) \in Seq(Elements)
        /\ Len(SubSeq(Contents, 1, n)) = IF 1 <= n THEN n - 1 + 1 ELSE 0
        /\ \A i \in 1 .. n - 1 + 1 : SubSeq(Contents, 1, n)[i] = Contents[1 + i - 1]
    BY <1>10, SubSeqProperties
  <2>2. \A i \in 1 .. n : 1 + i - 1 = i /\ i \in 1 .. n - 1 + 1
    OBVIOUS
  <2>3. n = IF 1 <= n THEN n - 1 + 1 ELSE 0
    OBVIOUS
  <2> QED
    BY <2>1, <2>2, <2>3
<1>12. /\ out' \in Seq(Elements) /\ Len(out') = n
       /\ \A i \in 1 .. n : out'[i] = SubSeq(Contents, 1, n)[i]
  <2>1. \A i \in 1 .. n :
          (IF i <= first THEN buf[roff + i - 1] ELSE buf[i - first - 1]) = Contents[i]
    <3> SUFFICES ASSUME NEW i \in 1 .. n
                 PROVE  (IF i <= first THEN buf[roff + i - 1] ELSE buf[i - first - 1]) = Contents[i]
      OBVIOUS
    <3>1. (IF i <= first THEN roff + i - 1 ELSE i - first - 1) = Slot(roff, i - 1)
      BY <1>1, <1>3 DEF Slot
    <3> QED
      BY <1>10, <3>1
  <2>2. out' = [i \in 1 .. n |-> Contents[i]]
    BY <1>3, <1>8, <2>1
  <2> QED
    BY <1>10, <1>11, <2>2
<1>13. out' = SubSeq(Contents, 1, n)
  BY <1>11, <1>12, SeqEqual
<1>14. BufferOK'
  BY <1>5, <1>9, <1>12 DEF BufferOK
<1>15. /\ Contents' \in Seq(Elements) /\ Len(Contents') = rest
       /\ \A i \in 1 .. rest : Contents'[i] = buf[Slot(roff', i - 1)]
  BY <1>6, <1>9, <1>14, ContentsNext
<1>16. \A i \in n + 1 .. BufLen : Contents[i] \in Elements
  BY <1>1, <1>7, ElementOfSeq
<1>17. /\ SubSeq(Contents, n + 1, BufLen) \in Seq(Elements)
       /\ Len(SubSeq(Contents, n + 1, BufLen)) = rest
       /\ \A i \in 1 .. rest : SubSeq(Contents, n + 1, BufLen)[i] = Contents[n + i]
  <2>1. /\ SubSeq(Contents, n + 1, BufLen) \in Seq(Elements)
        /\ Len(SubSeq(Contents, n + 1, BufLen)) =
             IF n + 1 <= BufLen THEN BufLen - (n + 1) + 1 ELSE 0
        /\ \A i \in 1 .. BufLen - (n + 1) + 1 :
             SubSeq(Contents, n + 1, BufLen)[i] = Contents[(n + 1) + i - 1]
    BY <1>1, <1>16, SubSeqProperties
  <2>2. \A i \in 1 .. rest : (n + 1) + i - 1 = n + i /\ i \in 1 .. BufLen - (n + 1) + 1
    BY <1>1, <1>6
  <2>3. rest = IF n + 1 <= BufLen THEN BufLen - (n + 1) + 1 ELSE 0
    BY <1>1, <1>6
  <2> QED
    BY <2>1, <2>2, <2>3
<1>18. \A i \in 1 .. rest : Contents'[i] = SubSeq(Contents, n + 1, BufLen)[i]
  <2> SUFFICES ASSUME NEW i \in 1 .. rest
               PROVE  Contents'[i] = Contents[n + i]
    BY <1>17
  <2>1. n + i \in 1 .. BufLen
    BY <1>1, <1>6
  <2>2. Slot(roff', i - 1) = Slot(roff, (n + i) - 1)
    BY <1>1, <1>5, <1>6 DEF Slot
  <2> QED
    BY <1>7, <1>15, <2>1, <2>2
<1>19. Contents' = SubSeq(Contents, n + 1, BufLen)
  BY <1>15, <1>17, <1>18, SeqEqual
<1> QED
  BY <1>7, <1>13, <1>14, <1>19

(***************************************************************************)
(* The theorems.                                                           *)
(***************************************************************************)
LEMMA ChunkIsSeq ==
  ASSUME NEW data \in Chunks
  PROVE  data \in Seq(Elements) /\ Len(data) \in Nat
BY BufferAssumption

(* A step of the buffer keeps the offsets in order and is a step of the    *)
(* queue.                                                                  *)
LEMMA StepOK ==
  ASSUME BufferOK, [Next]_vars
  PROVE  BufferOK' /\ [Fifo!Next]_Fifo!fifo
<1>1. BufLen \in Nat /\ Cap \in Nat /\ BufLen <= Cap /\ Space = Cap - BufLen
  BY LenSpec, CapFacts DEF Space
<1>2. Len(Contents) = BufLen
  BY ContentsType
<1>3. ASSUME Abort, ~aborted
      PROVE  BufferOK' /\ Fifo!Abort
  <2>1. UNCHANGED <<roff, woff, full, buf, out>> /\ aborted'
    BY <1>3 DEF Abort, offsets
  <2>2. BufferOK'
    BY <2>1 DEF BufferOK
  <2>3. Contents' = Contents
    BY <2>1 DEF Contents, BufLen
  <2> QED
    BY <1>3, <2>1, <2>2, <2>3 DEF Fifo!Abort, Abort
<1>4. ASSUME NEW data \in Chunks, Write(data)
      PROVE  BufferOK' /\ Fifo!Next
  <2>1. data \in Seq(Elements) /\ Len(data) \in Nat /\ ~aborted
    BY <1>4, ChunkIsSeq DEF Write
  <2>2. CASE Len(data) <= Space /\ Store(data, roff)
    <3>1. BufferOK' /\ Contents' = Contents \o data
      BY <2>1, <2>2, WriteSpec
    <3>2. UNCHANGED <<out, aborted>>
      BY <2>2 DEF Store
    <3>3. Len(Contents) + Len(data) <= Cap
      BY <1>1, <1>2, <2>1, <2>2
    <3>4. Fifo!Write(data)
      BY <2>1, <3>1, <3>2, <3>3 DEF Fifo!Write
    <3> QED
      BY <3>1, <3>4 DEF Fifo!Next
  <2>3. CASE Len(data) > Space /\ Abort
    <3>1. Len(Contents) + Len(data) > Cap
      BY <1>1, <1>2, <2>1, <2>3
    <3>2. BufferOK' /\ Fifo!Write(data)
      BY <1>3, <2>1, <2>3, <3>1 DEF Fifo!Write
    <3> QED
      BY <3>2 DEF Fifo!Next
  <2> QED
    BY <1>4, <2>2, <2>3 DEF Write
<1>5. ASSUME NEW data \in Chunks, WriteOver(data)
      PROVE  BufferOK' /\ Fifo!Next
  <2>1. data \in Seq(Elements) /\ ~aborted
    BY <1>5, ChunkIsSeq DEF WriteOver
  <2>2. Store(Trimmed(data), Advanced(Len(Trimmed(data))))
    BY <1>5 DEF WriteOver
  <2>3. BufferOK'
    BY <2>1, <2>2, WriteOverSpec
  <2>4. UNCHANGED <<out, aborted>>
    BY <2>2 DEF Store
  <2>5. Fifo!WriteOver(data)
    BY <2>1, <2>2, <2>4, WriteOverSpec DEF Fifo!WriteOver
  <2> QED
    BY <2>3, <2>5 DEF Fifo!Next
<1>6. ASSUME NEW n \in 0 .. MaxRead, Read(n)
      PROVE  BufferOK' /\ Fifo!Next
  <2>1. n \in Nat /\ ~aborted
    BY <1>6, BufferAssumption DEF Read
  <2>2. CASE /\ n <= BufLen
             /\ out' = CopyOut(n)
             /\ roff' = Behind(roff, n, woff)
             /\ full' = (full /\ n = 0)
             /\ UNCHANGED <<woff, buf, aborted>>
    <3>1. /\ BufferOK'
          /\ out' = SubSeq(Contents, 1, n)
          /\ Contents' = SubSeq(Contents, n + 1, Len(Contents))
      BY <2>1, <2>2, ReadSpec
    <3>2. Fifo!Read(n)
      BY <1>2, <2>1, <2>2, <3>1 DEF Fifo!Read
    <3> QED
      BY <3>1, <3>2 DEF Fifo!Next
  <2>3. CASE n > BufLen /\ Abort
    <3>1. BufferOK' /\ Fifo!Read(n)
      BY <1>2, <1>3, <2>1, <2>3 DEF Fifo!Read
    <3> QED
      BY <3>1 DEF Fifo!Next
  <2> QED
    BY <1>6, <2>2, <2>3 DEF Read
<1>7. ASSUME UNCHANGED vars
      PROVE  BufferOK' /\ UNCHANGED Fifo!fifo
  <2>1. UNCHANGED <<roff, woff, full, buf, out, aborted>>
    BY <1>7 DEF vars, offsets
  <2>2. BufferOK'
    BY <2>1 DEF BufferOK
  <2>3. Contents' = Contents
    BY <2>1 DEF Contents, BufLen
  <2> QED
    BY <2>1, <2>2, <2>3 DEF Fifo!fifo
<1> QED
  BY <1>4, <1>5, <1>6, <1>7 DEF Next

LEMMA InitOK ==
  ASSUME Init
  PROVE  BufferOK /\ Fifo!Init
<1>1. BufferOK
  <2>1. 0 \in Slots
    BY CapFacts DEF Slots
  <2>2. /\ roff = 0 /\ woff = 0 /\ full = FALSE /\ aborted = FALSE
        /\ buf \in [Slots -> Elements] /\ out = <<>>
    BY DEF Init
  <2>3. out \in Seq(Elements)
    BY <2>2
  <2> QED
    BY <2>1, <2>2, <2>3 DEF BufferOK
<1>2. BufLen = 0
  BY DEF Init, BufLen
<1>3. Contents \in Seq(Elements) /\ Len(Contents) = 0
  BY <1>1, <1>2, ContentsType
<1> QED
  BY <1>1, <1>3 DEF Init, Fifo!Init

(* Whatever is written and read, in whatever order: no method ever indexes *)
(* behind the array, for every capacity.                                   *)
THEOREM OffsetsSafe == Spec => []BufferOK
<1>1. Init => BufferOK
  BY InitOK
<1>2. BufferOK /\ [Next]_vars => BufferOK'
  BY StepOK
<1> QED
  BY <1>1, <1>2, PTL DEF Spec

(* The ring buffer is a bounded queue, for every capacity and all data.    *)
THEOREM IsAFifo == Spec => ImplementsFifo
<1>1. Init => Fifo!Init
  BY InitOK
<1>2. BufferOK /\ [Next]_vars => [Fifo!Next]_Fifo!fifo
  BY StepOK
<1> QED
  BY <1>1, <1>2, OffsetsSafe, PTL DEF Spec, ImplementsFifo, Fifo!Spec
==============================================================================
