----------------------------- MODULE RingBuffer -----------------------------
(***************************************************************************)
(* RingBuffer.h: the lock-free single-producer, single-consumer byte ring  *)
(* between the capture thread and the render thread.                       *)
(*                                                                         *)
(* Every operation is split where the other thread can see it in between:  *)
(* the load of the peer's index, the copy of each byte, the store of the   *)
(* own index.  A peer index loaded early and used later is what a stale    *)
(* acquire load can return, so the interleavings cover those as well.      *)
(* head_ and tail_ are 64-bit totals; at the stream's 1.5 MB/s they do not *)
(* wrap in the life of a machine and are natural numbers here.             *)
(*                                                                         *)
(* A byte is identified by its position in the stream of accepted bytes,   *)
(* so the i-th byte of a Write that starts at head is byte head + i.       *)
(***************************************************************************)
EXTENDS Integers, Sequences

CONSTANTS Capacity,    \* buf_.size()
          WriteSizes,  \* the n that Write is called with
          ReadSizes,   \* the n that Peek, Read and Discard are called with
          MaxBytes     \* bound: no Write starts once this many were accepted

\* The constructor rounds the capacity up to a power of two, so that
\* "& mask_" is the remainder by Capacity.
ASSUME CapacityAssumption ==
    /\ Capacity \in Nat \ {0}
    /\ \E k \in 0..Capacity : Capacity = 2^k

ASSUME SizesAssumption ==
    WriteSizes \subseteq Nat /\ ReadSizes \subseteq Nat /\ MaxBytes \in Nat

VARIABLES head, tail,       \* head_, tail_
          buf,              \* buf_
          wpc, wN, wDone,   \* producer: phase of Write, clamped n, bytes copied
          rpc, rN, rDone,   \* consumer: phase, clamped n, bytes copied
          rTakes,           \* consumer: the Peek is the first half of a Read
          dst,              \* the consumer's destination buffer
          got               \* what the last completed Peek handed over

wVars == <<head, buf, wpc, wN, wDone>>
rVars == <<tail, rpc, rN, rDone, rTakes, dst, got>>
vars == <<wVars, rVars>>

None == -1                  \* the value of a byte that was never written
Smaller(a, b) == IF a <= b THEN a ELSE b

\* What the consumer may take (BytesAvailable): the distance of the indices.
Available == head - tail

\* Off by one: a full ring still takes a byte.
FreeOneMore == Capacity + 1 - (head - tail)

\* What the producer may fill.
Free == Capacity - (head - tail)

\* The cell of a total position: "& mask_".
Slot(pos) == pos % Capacity

\* The second memcpy forgets how much the first one copied.
CellUnshifted(pos, n, i) ==
    LET off == Slot(pos)
        first == Smaller(n, Capacity - off)
    IN  IF i < first THEN off + i ELSE i

\* Where the two memcpy calls put byte i of a transfer of n bytes that starts
\* at total position pos: the first call fills up to the end of buf_, the
\* second continues at its start.
Cell(pos, n, i) ==
    LET off == Slot(pos)
        first == Smaller(n, Capacity - off)
    IN  IF i < first THEN off + i ELSE i - first

Init ==
    /\ head = 0 /\ tail = 0
    /\ buf = [c \in 0..Capacity-1 |-> None]
    /\ wpc = "idle" /\ wN = 0 /\ wDone = 0
    /\ rpc = "idle" /\ rN = 0 /\ rDone = 0 /\ rTakes = FALSE
    /\ dst = <<>> /\ got = <<>>

-----------------------------------------------------------------------------
(* The producer: Write(src, n).                                            *)

\* Load both indices and clamp n to the free space.
WriteBegin(n) ==
    /\ wpc = "idle"
    /\ head + n <= MaxBytes
    /\ wN' = Smaller(n, Free)
    /\ wDone' = 0
    /\ wpc' = "copy"
    /\ UNCHANGED <<head, buf, rVars>>

WriteByte ==
    /\ wpc = "copy" /\ wDone < wN
    /\ buf' = [buf EXCEPT ![Cell(head, wN, wDone)] = head + wDone]
    /\ wDone' = wDone + 1
    /\ UNCHANGED <<head, wpc, wN, rVars>>

\* The store is ordered before the copy is complete.
WritePublishEarly ==
    /\ wpc = "copy"
    /\ head' = head + wN
    /\ wpc' = "idle" /\ wN' = 0 /\ wDone' = 0
    /\ UNCHANGED <<buf, rVars>>

\* head_.store(head + n, release)
WritePublish ==
    /\ wpc = "copy" /\ wDone = wN
    /\ head' = head + wN
    /\ wpc' = "idle" /\ wN' = 0 /\ wDone' = 0
    /\ UNCHANGED <<buf, rVars>>

-----------------------------------------------------------------------------
(* The consumer: Peek, Discard, Read and Clear.                            *)

\* Load head_ and clamp n to what it shows.
PeekBegin(n, takes) ==
    /\ rpc = "idle"
    /\ rN' = Smaller(n, Available)
    /\ rDone' = 0
    /\ rTakes' = takes
    /\ dst' = <<>>
    /\ rpc' = "copy"
    /\ UNCHANGED <<tail, got, wVars>>

PeekByte ==
    /\ rpc = "copy" /\ rDone < rN
    /\ dst' = Append(dst, buf[Cell(tail, rN, rDone)])
    /\ rDone' = rDone + 1
    /\ UNCHANGED <<tail, rpc, rN, rTakes, got, wVars>>

\* A Peek returns; a Read goes on to Discard the bytes it got.
PeekEnd ==
    /\ rpc = "copy" /\ rDone = rN
    /\ got' = dst
    /\ dst' = <<>>
    /\ rpc' = IF rTakes THEN "discard" ELSE "idle"
    /\ rN' = IF rTakes THEN rN ELSE 0
    /\ rDone' = 0 /\ rTakes' = FALSE
    /\ UNCHANGED <<tail, wVars>>

DiscardBegin(n) ==
    /\ rpc = "idle"
    /\ rN' = n
    /\ rpc' = "discard"
    /\ UNCHANGED <<tail, rDone, rTakes, dst, got, wVars>>

\* BytesAvailable() inside Discard: head_ is loaded again.
DiscardLoad ==
    /\ rpc = "discard"
    /\ rN' = Smaller(rN, Available)
    /\ rpc' = "store"
    /\ UNCHANGED <<tail, rDone, rTakes, dst, got, wVars>>

\* Clear loads head_ and stores it in tail_: it drops what it saw.
ClearLoad ==
    /\ rpc = "idle"
    /\ rN' = Available
    /\ rpc' = "store"
    /\ UNCHANGED <<tail, rDone, rTakes, dst, got, wVars>>

\* tail_.store(..., release), of Discard and of Clear.
TailStore ==
    /\ rpc = "store"
    /\ tail' = tail + rN
    /\ rpc' = "idle" /\ rN' = 0
    /\ UNCHANGED <<rDone, rTakes, dst, got, wVars>>

-----------------------------------------------------------------------------
Write == (\E n \in WriteSizes : WriteBegin(n)) \/ WriteByte \/ WritePublish

Peek == (\E n \in ReadSizes, takes \in BOOLEAN : PeekBegin(n, takes))
        \/ PeekByte \/ PeekEnd

Discard == (\E n \in ReadSizes : DiscardBegin(n)) \/ DiscardLoad

Next == Write \/ Peek \/ Discard \/ ClearLoad \/ TailStore

Spec == Init /\ [][Next]_vars

-----------------------------------------------------------------------------
(* Properties                                                              *)

\* The variables hold values of their C++ types.
TypeOK ==
    /\ head \in Nat /\ tail \in Nat
    /\ buf \in [0..Capacity-1 -> Nat \cup {None}]
    /\ wpc \in {"idle", "copy"} /\ wN \in Nat /\ wDone \in 0..wN
    /\ rpc \in {"idle", "copy", "discard", "store"}
    /\ rN \in Nat /\ rDone \in 0..rN /\ rTakes \in BOOLEAN
    /\ dst \in Seq(Nat \cup {None}) /\ got \in Seq(Nat \cup {None})

\* The indices never cross and never drift apart by more than the buffer, even
\* counting a Write or a Discard that clamped against an index since moved.
IndicesConsistent ==
    /\ tail <= head /\ head + wN <= tail + Capacity
    /\ rpc \in {"copy", "store"} => tail + rN <= head

WriteCells == IF wpc = "copy" THEN {Cell(head, wN, i) : i \in 0..wN-1} ELSE {}
ReadCells  == IF rpc = "copy" THEN {Cell(tail, rN, i) : i \in 0..rN-1} ELSE {}

\* No data race: the bytes a running Write may store to (RingBuffer.h, 59-61)
\* are disjoint from the bytes a running Peek may load (78-80), and neither
\* memcpy leaves the buffer.
NoDataRace ==
    /\ WriteCells \cap ReadCells = {}
    /\ WriteCells \cup ReadCells \subseteq 0..Capacity-1

\* What is published is intact: until it is consumed, every accepted byte sits
\* in its cell, whatever a concurrent Write is doing.
ContentIntact ==
    \A p \in tail..head-1 : buf[Slot(p)] = p

\* The ring is a bounded FIFO: each operation takes effect in one step, the
\* store of an index or the end of a Peek, and steps of copying are invisible.
Fifo == INSTANCE BoundedFifo
            WITH queue <- [i \in 1..(head - tail) |-> buf[Slot(tail + i - 1)]],
                 accepted <- head

ImplementsFifo == Fifo!FifoSpec
=============================================================================
