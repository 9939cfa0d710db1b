-------------------------- MODULE RingBuffer_proofs --------------------------
(***************************************************************************)
(* RingBuffer is free of data races and loses no published byte, for every *)
(* capacity, every chunk size and every interleaving of its two threads.   *)
(***************************************************************************)
EXTENDS RingBuffer, TLAPS

-----------------------------------------------------------------------------
(* Arithmetic of the mask                                                  *)

LEMMA CapacityType == Capacity \in Nat \ {0}
  BY CapacityAssumption

LEMMA DivMod ==
    ASSUME NEW a \in Nat, NEW b \in Nat \ {0}
    PROVE  /\ a = (b * (a \div b)) + (a % b)
           /\ a % b \in 0..b-1
           /\ a \div b \in Nat
  BY SMT

LEMMA Distributes ==
    ASSUME NEW b \in Nat, NEW q \in Nat
    PROVE  b * (q + 1) = (b * q) + b
  BY SMT

LEMMA ModUnique ==
    ASSUME NEW b \in Nat \ {0}, NEW q \in Nat, NEW r \in 0..b-1
    PROVE  ((b * q) + r) % b = r
  BY SMT

LEMMA SlotType == \A p \in Nat : Slot(p) \in 0..Capacity-1
  BY CapacityType, DivMod DEF Slot

\* Two positions less than a buffer apart never share a cell.
LEMMA SlotDistinct ==
    \A p, q \in Nat :
        p # q /\ p < q + Capacity /\ q < p + Capacity => Slot(p) # Slot(q)
<1> SUFFICES ASSUME NEW p \in Nat, NEW q \in Nat, p # q,
                    p < q + Capacity, q < p + Capacity, Slot(p) = Slot(q)
             PROVE  FALSE
  OBVIOUS
<1> USE CapacityType
<1>1. PICK r \in 0..Capacity-1, i \in Nat :
        p = (Capacity * i) + r /\ r = Slot(p)
  BY DivMod DEF Slot
<1>2. PICK j \in Nat : q = (Capacity * j) + Slot(q)
  BY DivMod DEF Slot
<1>3. p - q = (Capacity * i) - (Capacity * j)
  <2>1. Slot(q) = r
    BY <1>1
  <2>2. PICK x \in Int, y \in Int : x = Capacity * i /\ y = Capacity * j
    BY ONLY CapacityType, i \in Nat, j \in Nat
  <2>3. p = x + r /\ q = y + r
    BY <1>1, <1>2, <2>1, <2>2
  <2> QED BY <2>2, <2>3
<1>4. CASE i = j
  BY <1>3, <1>4
<1>5. CASE i > j
  <2>1. Capacity * i >= (Capacity * j) + Capacity
    BY ONLY CapacityType, i \in Nat, j \in Nat, i > j
  <2> QED BY <2>1, <1>3
<1>6. CASE i < j
  <2>1. Capacity * j >= (Capacity * i) + Capacity
    BY ONLY CapacityType, i \in Nat, j \in Nat, i < j
  <2> QED BY <2>1, <1>3
<1> QED BY <1>4, <1>5, <1>6

\* The remainder is the only one: what identifies the cell of a position.
LEMMA SlotUnique ==
    ASSUME NEW a \in Nat, NEW q \in Nat, NEW r \in 0..Capacity-1,
           a = (Capacity * q) + r
    PROVE  Slot(a) = r
<1> USE CapacityType
<1>1. ((Capacity * q) + r) % Capacity = r
  BY ModUnique
<1> QED BY <1>1 DEF Slot

\* The two memcpy calls of a transfer visit consecutive positions.
LEMMA CellIsSlot ==
    \A pos \in Nat, n \in 0..Capacity : \A i \in 0..n-1 :
        Cell(pos, n, i) = Slot(pos + i)
<1> TAKE pos \in Nat, n \in 0..Capacity
<1> TAKE i \in 0..n-1
<1> USE CapacityType
<1>1. PICK off \in 0..Capacity-1, q \in Nat :
        pos = (Capacity * q) + off /\ off = Slot(pos)
  BY DivMod DEF Slot
<1>2. PICK first \in Nat :
        /\ Cell(pos, n, i) = IF i < first THEN off + i ELSE i - first
        /\ first <= n /\ first <= Capacity - off
        /\ first = n \/ first = Capacity - off
  BY <1>1 DEF Cell, Smaller
<1> DEFINE a == pos + i
<1>3. CASE i < first
  <2>1. a \in Nat /\ off + i \in 0..Capacity-1 /\ a = (Capacity * q) + (off + i)
    BY <1>1, <1>2, <1>3
  <2>2. Slot(a) = off + i
    BY <2>1, SlotUnique
  <2> QED BY <2>2, <1>2, <1>3
<1>4. CASE ~(i < first)
  <2>1. first = Capacity - off /\ i - first \in 0..Capacity-1
    BY <1>2, <1>4
  <2>2. Capacity * (q + 1) = (Capacity * q) + Capacity /\ q + 1 \in Nat
    BY Distributes
  <2>3. a \in Nat /\ a = (Capacity * (q + 1)) + (i - first)
    BY <1>1, <2>1, <2>2
  <2>4. Slot(a) = i - first
    <3> HIDE DEF a
    <3> QED BY <2>1, <2>2, <2>3, SlotUnique
  <2> QED BY <2>4, <1>2, <1>4
<1> QED BY <1>3, <1>4

-----------------------------------------------------------------------------
(* The inductive invariant                                                 *)

\* What a Write has copied so far, and what a Peek has: the parts of a
\* transfer that no index shows yet.
CopiedIntact ==
    /\ \A i \in 0..wDone-1 : buf[Slot(head + i)] = head + i
    /\ rpc = "copy" => dst = [i \in 1..rDone |-> tail + i - 1]

\* The phases fix the counters that they do not use.
PhasesOK ==
    /\ wpc = "idle" => wN = 0
    /\ rpc # "copy" => rDone = 0

IInv == TypeOK /\ PhasesOK /\ IndicesConsistent /\ ContentIntact /\ CopiedIntact

LEMMA InitIInv == Init => IInv
  BY CapacityType
     DEF Init, IInv, TypeOK, PhasesOK, IndicesConsistent, ContentIntact,
         CopiedIntact, None

LEMMA WriteBeginIInv ==
    ASSUME IInv, NEW n \in WriteSizes, WriteBegin(n) PROVE IInv'
  BY CapacityType, SizesAssumption
     DEF WriteBegin, IInv, TypeOK, PhasesOK, IndicesConsistent, ContentIntact,
         CopiedIntact, Smaller, Free, Available, rVars

LEMMA WriteByteIInv == ASSUME IInv, WriteByte PROVE IInv'
<1> USE CapacityType
<1> DEFINE c == Slot(head + wDone)
<1>0. /\ head \in Nat /\ tail \in Nat /\ wN \in Nat /\ wDone \in 0..wN
      /\ wDone < wN /\ tail <= head /\ head + wN <= tail + Capacity
      /\ buf \in [0..Capacity-1 -> Nat \cup {None}]
  BY DEF IInv, TypeOK, IndicesConsistent, WriteByte
<1>1. Cell(head, wN, wDone) = c /\ c \in 0..Capacity-1
  <2>1. wN \in 0..Capacity /\ wDone \in 0..wN-1
    BY <1>0
  <2>2. head + wDone \in Nat
    BY <1>0
  <2> QED BY <2>1, <2>2, <1>0, CellIsSlot, SlotType
<1>2. buf' = [buf EXCEPT ![c] = head + wDone]
  BY <1>1 DEF WriteByte
<1>3. ASSUME NEW p \in Nat, tail <= p, p < head + wDone
      PROVE  buf'[Slot(p)] = buf[Slot(p)]
  <2>1. Slot(p) # c
    <3>1. /\ head + wDone \in Nat /\ p # head + wDone
          /\ p < (head + wDone) + Capacity /\ head + wDone < p + Capacity
      BY <1>0, <1>3
    <3> HIDE DEF c
    <3> QED BY <3>1, SlotDistinct DEF c
  <2>2. Slot(p) \in 0..Capacity-1
    BY SlotType
  <2> QED BY <2>1, <2>2, <1>2, <1>0
<1>4. buf'[c] = head + wDone
  BY <1>1, <1>2, <1>0
<1>5. TypeOK' /\ PhasesOK' /\ IndicesConsistent'
  BY <1>0, <1>2, <1>1 DEF IInv, TypeOK, PhasesOK, IndicesConsistent, WriteByte, rVars
<1>6. ContentIntact'
  <2>1. tail' = tail /\ head' = head
    BY DEF WriteByte, rVars
  <2>2. \A p \in tail..head-1 : buf'[Slot(p)] = p
    BY <1>0, <1>3 DEF IInv, ContentIntact
  <2> QED BY <2>1, <2>2 DEF ContentIntact
<1>7. CopiedIntact'
  <2>1. \A i \in 0..wDone : buf'[Slot(head + i)] = head + i
    <3>1. TAKE i \in 0..wDone
    <3>2. CASE i = wDone
      BY <3>2, <1>4
    <3>3. CASE i < wDone
      <4>1. buf[Slot(head + i)] = head + i
        BY <3>3, <1>0 DEF IInv, CopiedIntact
      <4>2. head + i \in Nat /\ tail <= head + i /\ head + i < head + wDone
        BY <3>3, <1>0
      <4>3. buf'[Slot(head + i)] = buf[Slot(head + i)]
        BY <4>2, <1>3
      <4> QED BY <4>1, <4>3
    <3> QED BY <3>2, <3>3, <1>0
  <2>2. wDone' = wDone + 1 /\ head' = head
    BY DEF WriteByte
  <2>3. \A i \in 0..wDone'-1 : buf'[Slot(head' + i)] = head' + i
    BY <2>1, <2>2, <1>0
  <2>4. rpc' = rpc /\ dst' = dst /\ rDone' = rDone /\ tail' = tail
    BY DEF WriteByte, rVars
  <2>5. (rpc = "copy" => dst = [i \in 1..rDone |-> tail + i - 1])'
    BY <2>4 DEF CopiedIntact, IInv
  <2> QED BY <2>3, <2>5 DEF CopiedIntact
<1> QED BY <1>5, <1>6, <1>7 DEF IInv

LEMMA WritePublishIInv == ASSUME IInv, WritePublish PROVE IInv'
<1> USE CapacityType
<1>0. /\ head \in Nat /\ tail \in Nat /\ wN \in Nat /\ wDone = wN
      /\ head' = head + wN /\ buf' = buf /\ tail' = tail
      /\ wN' = 0 /\ wDone' = 0 /\ wpc' = "idle"
  BY DEF IInv, TypeOK, WritePublish, rVars
<1>1. TypeOK' /\ PhasesOK' /\ IndicesConsistent'
  BY <1>0 DEF IInv, TypeOK, PhasesOK, IndicesConsistent, WritePublish, rVars
<1>2. ContentIntact'
  <2>1. SUFFICES ASSUME NEW p \in tail..(head + wN)-1 PROVE buf[Slot(p)] = p
    BY <1>0 DEF ContentIntact
  <2>2. CASE p < head
    BY <2>2, <1>0 DEF IInv, ContentIntact
  <2>3. CASE p >= head
    <3>1. p - head \in 0..wDone-1 /\ head + (p - head) = p
      BY <2>3, <1>0
    <3> QED BY <3>1 DEF IInv, CopiedIntact
  <2> QED BY <2>2, <2>3, <1>0
<1>3. CopiedIntact'
  BY <1>0 DEF IInv, CopiedIntact, WritePublish, rVars
<1> QED BY <1>1, <1>2, <1>3 DEF IInv

LEMMA PeekBeginIInv ==
    ASSUME IInv, NEW n \in ReadSizes, NEW takes \in BOOLEAN, PeekBegin(n, takes)
    PROVE  IInv'
  BY CapacityType, SizesAssumption
     DEF PeekBegin, IInv, TypeOK, PhasesOK, IndicesConsistent, ContentIntact,
         CopiedIntact, Smaller, Free, Available, wVars

LEMMA PeekByteIInv == ASSUME IInv, PeekByte PROVE IInv'
<1> USE CapacityType
<1> DEFINE b == buf[Cell(tail, rN, rDone)]
<1>0. /\ head \in Nat /\ tail \in Nat /\ rN \in Nat /\ rDone \in 0..rN
      /\ rDone < rN /\ tail + rN <= head /\ head + wN <= tail + Capacity
      /\ wN \in Nat /\ rpc = "copy"
      /\ dst' = Append(dst, b) /\ rDone' = rDone + 1
  BY DEF IInv, TypeOK, IndicesConsistent, PeekByte
<1>1. b = tail + rDone
  <2>1. Cell(tail, rN, rDone) = Slot(tail + rDone)
    <3>1. rN \in 0..Capacity /\ rDone \in 0..rN-1
      BY <1>0
    <3> QED BY <3>1, <1>0, CellIsSlot
  <2>2. tail + rDone \in tail..head-1
    BY <1>0
  <2> QED BY <2>1, <2>2 DEF IInv, ContentIntact
<1>2. dst = [i \in 1..rDone |-> tail + i - 1]
  BY <1>0 DEF IInv, CopiedIntact
<1> HIDE DEF b
<1>3. dst' = [i \in 1..rDone+1 |-> tail + i - 1]
  BY <1>0, <1>1, <1>2
<1>4. TypeOK'
  <2>1. dst' \in Seq(Nat \cup {None})
    BY <1>0, <1>1 DEF IInv, TypeOK
  <2> QED BY <2>1, <1>0 DEF IInv, TypeOK, PeekByte, wVars
<1> QED BY <1>0, <1>3, <1>4
        DEF IInv, PhasesOK, IndicesConsistent, ContentIntact, CopiedIntact,
            PeekByte, wVars

LEMMA PeekEndIInv == ASSUME IInv, PeekEnd PROVE IInv'
<1> USE CapacityType DEF PeekEnd, wVars
<1>1. TypeOK'
  <2>1. got' \in Seq(Nat \cup {None}) /\ dst' \in Seq(Nat \cup {None})
    BY DEF IInv, TypeOK
  <2>2. rN' \in Nat /\ rDone' \in 0..rN'
    BY DEF IInv, TypeOK
  <2>3. rTakes' \in BOOLEAN /\ rpc' \in {"idle", "copy", "discard", "store"}
    BY Zenon
  <2>4. /\ head' = head /\ tail' = tail /\ buf' = buf
        /\ wpc' = wpc /\ wN' = wN /\ wDone' = wDone
    OBVIOUS
  <2> QED BY <2>1, <2>2, <2>3, <2>4 DEF IInv, TypeOK
<1>2. PhasesOK' /\ IndicesConsistent'
  BY DEF IInv, TypeOK, PhasesOK, IndicesConsistent
<1>3. ContentIntact' /\ CopiedIntact'
  BY DEF IInv, ContentIntact, CopiedIntact
<1> QED BY <1>1, <1>2, <1>3 DEF IInv

LEMMA DiscardBeginIInv ==
    ASSUME IInv, NEW n \in ReadSizes, DiscardBegin(n) PROVE IInv'
<1> USE CapacityType, SizesAssumption DEF DiscardBegin, wVars
<1>1. TypeOK'
  BY DEF IInv, TypeOK, PhasesOK
<1>2. PhasesOK' /\ IndicesConsistent'
  BY DEF IInv, TypeOK, PhasesOK, IndicesConsistent
<1>3. ContentIntact' /\ CopiedIntact'
  BY DEF IInv, ContentIntact, CopiedIntact
<1> QED BY <1>1, <1>2, <1>3 DEF IInv

LEMMA DiscardLoadIInv == ASSUME IInv, DiscardLoad PROVE IInv'
<1> USE CapacityType DEF DiscardLoad, wVars, Smaller, Available
<1>1. TypeOK'
  BY DEF IInv, TypeOK, PhasesOK, IndicesConsistent
<1>2. PhasesOK' /\ IndicesConsistent'
  BY DEF IInv, TypeOK, PhasesOK, IndicesConsistent
<1>3. ContentIntact' /\ CopiedIntact'
  BY DEF IInv, ContentIntact, CopiedIntact
<1> QED BY <1>1, <1>2, <1>3 DEF IInv

LEMMA ClearLoadIInv == ASSUME IInv, ClearLoad PROVE IInv'
  BY CapacityType
     DEF ClearLoad, Available, IInv, TypeOK, PhasesOK, IndicesConsistent, ContentIntact,
         CopiedIntact, wVars

LEMMA TailStoreIInv == ASSUME IInv, TailStore PROVE IInv'
  BY CapacityType
     DEF TailStore, IInv, TypeOK, PhasesOK, IndicesConsistent, ContentIntact,
         CopiedIntact, wVars

LEMMA StutterIInv == ASSUME IInv, UNCHANGED vars PROVE IInv'
  BY DEF vars, wVars, rVars, IInv, TypeOK, PhasesOK, IndicesConsistent,
         ContentIntact, CopiedIntact

LEMMA NextIInv == IInv /\ [Next]_vars => IInv'
  BY WriteBeginIInv, WriteByteIInv, WritePublishIInv, PeekBeginIInv,
     PeekByteIInv, PeekEndIInv, DiscardBeginIInv, DiscardLoadIInv,
     ClearLoadIInv, TailStoreIInv, StutterIInv
     DEF Next, Write, Peek, Discard

LEMMA SpecIInv == Spec => []IInv
  BY InitIInv, NextIInv, PTL DEF Spec

-----------------------------------------------------------------------------
(* The results                                                             *)

\* The variables keep their types.
THEOREM TypeCorrect == Spec => []TypeOK
  BY SpecIInv, PTL DEF IInv

\* head_ and tail_ never cross and stay within one buffer of each other, even
\* while an operation holds an index it loaded earlier.
THEOREM IndicesStayConsistent == Spec => []IndicesConsistent
  BY SpecIInv, PTL DEF IInv

\* Every byte that Write published reads back as written until it is consumed.
THEOREM PublishedIntact == Spec => []ContentIntact
  BY SpecIInv, PTL DEF IInv

LEMMA IInvNoDataRace == IInv => NoDataRace
<1> SUFFICES ASSUME IInv PROVE NoDataRace
  OBVIOUS
<1> USE CapacityType
<1>0. /\ head \in Nat /\ tail \in Nat /\ wN \in Nat /\ rN \in Nat
      /\ tail <= head /\ head + wN <= tail + Capacity
      /\ rpc = "copy" => tail + rN <= head
  BY DEF IInv, TypeOK, IndicesConsistent
<1>1. \A c \in WriteCells : \E p \in Nat :
        c = Slot(p) /\ head <= p /\ p < head + wN
  <2>1. wN \in 0..Capacity
    BY <1>0
  <2>2. SUFFICES ASSUME NEW i \in 0..wN-1
                 PROVE  \E p \in Nat : /\ Cell(head, wN, i) = Slot(p)
                                       /\ head <= p /\ p < head + wN
    BY DEF WriteCells
  <2>3. Cell(head, wN, i) = Slot(head + i)
    BY <2>1, <1>0, CellIsSlot
  <2>4. head + i \in Nat /\ head <= head + i /\ head + i < head + wN
    BY <1>0
  <2> QED BY <2>3, <2>4
<1>2. \A c \in ReadCells : \E p \in Nat :
        c = Slot(p) /\ tail <= p /\ p < head
  <2>1. SUFFICES ASSUME rpc = "copy", NEW i \in 0..rN-1
                 PROVE  \E p \in Nat : /\ Cell(tail, rN, i) = Slot(p)
                                       /\ tail <= p /\ p < head
    BY DEF ReadCells
  <2>2. rN \in 0..Capacity
    BY <1>0, <2>1
  <2>3. Cell(tail, rN, i) = Slot(tail + i)
    BY <2>2, <1>0, CellIsSlot
  <2>4. tail + i \in Nat /\ tail <= tail + i /\ tail + i < head
    BY <1>0, <2>1
  <2> QED BY <2>3, <2>4
<1>3. WriteCells \cap ReadCells = {}
  <2>1. SUFFICES ASSUME NEW p \in Nat, NEW q \in Nat,
                        head <= p, p < head + wN, tail <= q, q < head
                 PROVE  Slot(p) # Slot(q)
    BY <1>1, <1>2
  <2>2. p # q /\ p < q + Capacity /\ q < p + Capacity
    BY <2>1, <1>0
  <2> QED BY <2>2, SlotDistinct
<1>4. WriteCells \cup ReadCells \subseteq 0..Capacity-1
  BY <1>1, <1>2, SlotType
<1> QED BY <1>3, <1>4 DEF NoDataRace

\* A running Write and a running Peek never touch the same byte of buf_, and
\* no memcpy leaves it.
THEOREM RaceFree == Spec => []NoDataRace
  BY SpecIInv, IInvNoDataRace, PTL

-----------------------------------------------------------------------------
(* Refinement: the ring implements BoundedFifo                             *)

\* The abstract queue: the unconsumed positions, in order.
Pending == [i \in 1..(head - tail) |-> tail + i - 1]
AbsQueue == [i \in 1..(head - tail) |-> buf[Slot(tail + i - 1)]]

LEMMA AbsQueueIsPending == IInv => AbsQueue = Pending
<1> SUFFICES ASSUME IInv, NEW i \in 1..(head - tail)
             PROVE  buf[Slot(tail + i - 1)] = tail + i - 1
  BY DEF AbsQueue, Pending
<1>1. tail + i - 1 \in tail..head-1
  BY DEF IInv, TypeOK, IndicesConsistent
<1> QED BY <1>1 DEF IInv, ContentIntact

LEMMA AbsQueueIsPendingNext == IInv' => AbsQueue' = Pending'
<1> SUFFICES ASSUME IInv' PROVE AbsQueue' = Pending'
  OBVIOUS
<1>1. PICK h \in Nat, t \in Nat : head' = h /\ tail' = t
  BY DEF IInv, TypeOK
<1>2. \A p \in t..h-1 : buf'[Slot(p)] = p
  BY <1>1 DEF IInv, ContentIntact
<1>3. \A i \in 1..(h - t) : t + i - 1 \in t..h-1
  OBVIOUS
<1>4. [i \in 1..(h - t) |-> buf'[Slot(t + i - 1)]] = [i \in 1..(h - t) |-> t + i - 1]
  BY <1>2, <1>3
<1> QED BY <1>1, <1>4 DEF AbsQueue, Pending

LEMMA PendingLen == IInv => Pending \in Seq(Nat) /\ Len(Pending) = head - tail
  BY DEF IInv, TypeOK, IndicesConsistent, Pending

LEMMA PublishPuts ==
    ASSUME IInv, WritePublish
    PROVE  /\ Len(Pending) + wN <= Capacity
           /\ Pending' = Pending \o [i \in 1..wN |-> head + i - 1]
           /\ wN \in 0..Capacity /\ head' = head + wN /\ got' = got
<1> USE CapacityType
<1>0. /\ head \in Nat /\ tail \in Nat /\ wN \in Nat /\ tail <= head
      /\ head + wN <= tail + Capacity
      /\ head' = head + wN /\ tail' = tail /\ got' = got
  BY DEF IInv, TypeOK, IndicesConsistent, WritePublish, rVars
<1>1. Len(Pending) + wN <= Capacity
  BY <1>0, PendingLen
<1>2. Pending' = [i \in 1..(head + wN - tail) |-> tail + i - 1]
  BY <1>0 DEF Pending
<1>3. Pending \o [i \in 1..wN |-> head + i - 1]
        = [i \in 1..(head + wN - tail) |-> tail + i - 1]
  BY <1>0 DEF Pending
<1>4. wN \in 0..Capacity
  BY <1>0
<1>5. Pending' = Pending \o [i \in 1..wN |-> head + i - 1]
  BY ONLY <1>2, <1>3
<1> QED BY ONLY <1>0, <1>1, <1>4, <1>5

LEMMA PeekEndSees ==
    ASSUME IInv, PeekEnd
    PROVE  /\ rN \in 0..Len(Pending)
           /\ got' = SubSeq(Pending, 1, rN)
           /\ head' = head /\ tail' = tail /\ buf' = buf
<1>0. /\ head \in Nat /\ tail \in Nat /\ rN \in Nat /\ tail + rN <= head
      /\ dst = [i \in 1..rN |-> tail + i - 1]
      /\ got' = dst /\ head' = head /\ tail' = tail /\ buf' = buf
  BY DEF IInv, TypeOK, IndicesConsistent, CopiedIntact, PeekEnd, wVars
<1>1. rN \in 0..Len(Pending)
  BY <1>0, PendingLen
<1>2. SubSeq(Pending, 1, rN) = [i \in 1..rN |-> tail + i - 1]
  BY <1>0 DEF Pending
<1> QED BY <1>0, <1>1, <1>2

LEMMA StoreDrops ==
    ASSUME IInv, TailStore
    PROVE  /\ rN \in 0..Len(Pending)
           /\ Pending' = SubSeq(Pending, rN + 1, Len(Pending))
           /\ head' = head /\ got' = got
<1>0. /\ head \in Nat /\ tail \in Nat /\ rN \in Nat /\ tail + rN <= head
      /\ tail' = tail + rN /\ head' = head /\ got' = got
  BY DEF IInv, TypeOK, IndicesConsistent, TailStore, wVars
<1>1. rN \in 0..Len(Pending) /\ Len(Pending) = head - tail
  BY <1>0, PendingLen
<1>2. SubSeq(Pending, rN + 1, head - tail)
        = [i \in 1..(head - (tail + rN)) |-> (tail + rN) + i - 1]
  BY <1>0 DEF Pending
<1> QED BY <1>0, <1>1, <1>2 DEF Pending

\* Every other step leaves both indices and the handed-over bytes alone.
LEMMA OtherStepsStutter ==
    ASSUME IInv, [Next]_vars, ~WritePublish, ~PeekEnd, ~TailStore
    PROVE  head' = head /\ tail' = tail /\ got' = got
  BY DEF Next, Write, Peek, Discard, WriteBegin, WriteByte, PeekBegin, PeekByte,
         DiscardBegin, DiscardLoad, ClearLoad, vars, rVars, wVars

LEMMA InitRefines == Init => Fifo!FifoInit
  BY DEF Init, Fifo!FifoInit

LEMMA StepRefines == IInv /\ [Next]_vars => [Fifo!FifoNext]_(Fifo!fifoVars)
<1> SUFFICES ASSUME IInv, [Next]_vars
             PROVE  [Fifo!FifoNext]_(Fifo!fifoVars)
  OBVIOUS
<1>1. IInv'
  BY NextIInv
<1>2. AbsQueue = Pending /\ AbsQueue' = Pending'
  BY <1>1, AbsQueueIsPending, AbsQueueIsPendingNext
<1>3. CASE WritePublish
  BY <1>2, <1>3, PublishPuts
     DEF Fifo!FifoNext, Fifo!Put, AbsQueue
<1>4. CASE PeekEnd
  <2>1. AbsQueue' = AbsQueue
    BY <1>4, PeekEndSees DEF AbsQueue
  <2> QED BY <1>2, <1>4, <2>1, PeekEndSees
          DEF Fifo!FifoNext, Fifo!See, AbsQueue
<1>5. CASE TailStore
  BY <1>2, <1>5, StoreDrops DEF Fifo!FifoNext, Fifo!Drop, AbsQueue
<1>6. CASE ~WritePublish /\ ~PeekEnd /\ ~TailStore
  <2>1. head' = head /\ tail' = tail /\ got' = got
    BY <1>6, OtherStepsStutter
  <2>2. AbsQueue' = AbsQueue
    BY <1>2, <2>1 DEF Pending
  <2> QED BY <2>1, <2>2 DEF Fifo!fifoVars, AbsQueue
<1> QED BY <1>3, <1>4, <1>5, <1>6

\* RingBuffer implements the bounded FIFO of BoundedFifo: order, content and
\* bound are those of a queue whose operations are atomic.
THEOREM RingImplementsFifo == Spec => ImplementsFifo
<1>1. Init => Fifo!FifoInit
  BY InitRefines
<1>2. IInv /\ [Next]_vars => [Fifo!FifoNext]_(Fifo!fifoVars)
  BY StepRefines
<1> QED BY <1>1, <1>2, SpecIInv, PTL DEF Spec, ImplementsFifo, Fifo!FifoSpec
=============================================================================
