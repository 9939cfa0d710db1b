---------------------------- MODULE BoundedFifo ----------------------------
(***************************************************************************)
(* What RingBuffer.h promises its two threads: a bounded first-in,         *)
(* first-out byte queue.  The producer appends as much of its buffer as    *)
(* fits, the consumer looks at, takes or drops bytes from the front, and   *)
(* each of these takes effect at one instant.  A byte is identified by its *)
(* position in the stream of accepted bytes.                               *)
(***************************************************************************)
EXTENDS Naturals, Sequences

CONSTANT Capacity       \* bytes the queue holds

VARIABLES queue,        \* the bytes accepted and not yet consumed
          accepted,     \* how many bytes were ever accepted
          got           \* the bytes the last completed Peek or Read returned

fifoVars == <<queue, accepted, got>>

FifoInit == queue = <<>> /\ accepted = 0 /\ got = <<>>

\* Accept the first k bytes of the producer's buffer.
Put(k) == /\ Len(queue) + k <= Capacity
          /\ queue' = queue \o [i \in 1..k |-> accepted + i - 1]
          /\ accepted' = accepted + k
          /\ UNCHANGED got

\* Look at the first k bytes without consuming them.
See(k) == /\ got' = SubSeq(queue, 1, k)
          /\ UNCHANGED <<queue, accepted>>

\* Consume the k bytes that were last seen, or drop k bytes unseen.
Drop(k) == /\ queue' = SubSeq(queue, k + 1, Len(queue))
           /\ UNCHANGED <<accepted, got>>

FifoNext == \/ \E k \in 0..Capacity : Put(k)
            \/ \E k \in 0..Len(queue) : See(k) \/ Drop(k)

FifoSpec == FifoInit /\ [][FifoNext]_fifoVars
=============================================================================
