---------------------------- MODULE WasapiCapture ----------------------------
(***************************************************************************)
(* WasapiCapture.cpp: the capture side.  A thread drains the packets the   *)
(* audio engine put into the endpoint buffer into the shared ring.  It is  *)
(* woken by the endpoint's event, or polls when the endpoint is captured   *)
(* in loopback mode, where no events come.                                 *)
(*                                                                         *)
(* The ring is the bounded FIFO of bytes that RingBuffer implements.  A    *)
(* byte is its place in the frame it came from, which is what the consumer *)
(* must be able to rely on.  The callers, main and RunMonitor, call        *)
(* SetRing before Start.                                                   *)
(***************************************************************************)
EXTENDS Integers, Sequences

CONSTANTS FrameBytes,     \* fmt_.bytesPerFrame()
          RingBytes,      \* the ring's capacity
          EndpointPackets,\* packets the endpoint buffer holds
          PacketFrames,   \* frames a captured packet may have
          ReadFrames,     \* frames the consumer takes or discards at a time
          DrainSpeed,     \* packets the drain copies while the device delivers one
          Burst,          \* packets that may arrive in a drain that is held up
          CountLimit      \* bound: the counters, 64 bits wide, wrap here

ASSUME CaptureAssumption ==
    /\ FrameBytes \in Nat \ {0} /\ RingBytes \in Nat \ {0}
    /\ EndpointPackets \in Nat \ {0} /\ CountLimit \in Nat \ {0}
    /\ DrainSpeed \in Nat \ {0} /\ Burst \in Nat
    /\ PacketFrames \subseteq Nat \ {0} /\ ReadFrames \subseteq Nat \ {0}

VARIABLES loopback,       \* loopback_: fixed by Init()
          endpoint,       \* packets captured and not yet released
          gap,            \* the endpoint buffer overflowed since the last packet
          deviceLost,     \* calls on the client fail from now on
          credit,         \* what the device may still deliver during this drain
          running, stopEvent, dataEvent, joining,
          phase,          \* where the thread is
          ring,           \* the bytes in the ring
          discontinuities, droppedFrames

\* History: what the ring did not take, wrapped like the counter.
VARIABLES lostBytes,      \* bytes of any packet
          lostSilence     \* bytes of silent packets among them

deviceVars == <<loopback, endpoint, gap, deviceLost>>
ctlVars == <<running, stopEvent, joining>>
countVars == <<discontinuities, droppedFrames, lostBytes, lostSilence>>
vars == <<deviceVars, credit, ctlVars, dataEvent, phase, ring, countVars>>

FullCredit == Burst * DrainSpeed
Kinds == {"data", "silent", "null"}

Smaller(a, b) == IF a <= b THEN a ELSE b

\* The bytes of n frames.
FramesOf(n) == [i \in 1..(n * FrameBytes) |-> (i - 1) % FrameBytes]

\* Forgets that the free space may be less than one cell more than what is asked:
\* leaves one cell of a full ring empty.
TakenShort(n) == IF n < RingBytes - Len(ring) THEN n ELSE Smaller(n, RingBytes - Len(ring) - 1)

\* RingBuffer::Write: how many of n bytes are taken, and the ring then.
Taken(n) == Smaller(n, RingBytes - Len(ring))
Written(n) == ring \o SubSeq(FramesOf(n), 1, Taken(n * FrameBytes))

\* Counts what the ring took instead of what it refused.
LossInverted(n, taken) == taken \div FrameBytes

\* The frames a short Write is counted as.
Loss(n, taken) == ((n * FrameBytes) - taken) \div FrameBytes

Init ==
    /\ loopback \in BOOLEAN
    /\ endpoint = <<>> /\ gap = FALSE /\ deviceLost = FALSE
    /\ running = FALSE /\ stopEvent = FALSE /\ dataEvent = FALSE /\ joining = FALSE
    /\ phase = "idle" /\ ring = <<>>
    /\ credit = FullCredit
    /\ discontinuities = 0 /\ droppedFrames = 0 /\ lostBytes = 0 /\ lostSilence = 0

-----------------------------------------------------------------------------
(* The caller.                                                             *)

\* client_->Start may fail; running_ then stays set without a thread.
Start ==
    /\ phase = "idle" /\ ~joining /\ ~running
    /\ running' = TRUE /\ stopEvent' = FALSE
    /\ phase' \in IF deviceLost THEN {"idle"} ELSE {"test", "idle"}
    /\ UNCHANGED <<deviceVars, credit, joining, dataEvent, ring, countVars>>

StopBegin ==
    /\ running /\ ~joining
    /\ running' = FALSE /\ stopEvent' = TRUE /\ joining' = TRUE
    /\ UNCHANGED <<deviceVars, credit, dataEvent, phase, ring, countVars>>

StopEnd ==
    /\ joining /\ phase \in {"idle", "done"}
    /\ joining' = FALSE /\ phase' = "idle"
    /\ UNCHANGED <<deviceVars, credit, running, stopEvent, dataEvent, ring, countVars>>

-----------------------------------------------------------------------------
(* The capture thread.                                                     *)

LoopTest ==
    /\ phase = "test"
    /\ phase' = IF running THEN "wait" ELSE "done"
    /\ UNCHANGED <<deviceVars, credit, ctlVars, dataEvent, ring, countVars>>

\* Loopback: only the stop event is waited for; 5 ms without it start a drain.
Poll ==
    /\ phase = "wait" /\ loopback
    /\ phase' = IF stopEvent THEN "done" ELSE "next"
    /\ UNCHANGED <<deviceVars, credit, ctlVars, dataEvent, ring, countVars>>

\* Event-driven: the data event has the lower index and wins.
WakeForData ==
    /\ phase = "wait" /\ ~loopback /\ dataEvent
    /\ dataEvent' = FALSE /\ phase' = "next"
    /\ UNCHANGED <<deviceVars, credit, ctlVars, ring, countVars>>

WakeForStop ==
    /\ phase = "wait" /\ ~loopback /\ stopEvent /\ ~dataEvent
    /\ phase' = "done"
    /\ UNCHANGED <<deviceVars, credit, ctlVars, dataEvent, ring, countVars>>

\* A drain that tries again when the device fails.
NextPacketSpins ==
    /\ phase = "next"
    /\ \/ endpoint = <<>> /\ ~deviceLost /\ phase' = "test" /\ credit' = FullCredit
       \/ endpoint # <<>> /\ ~deviceLost /\ phase' = "hold" /\ UNCHANGED credit
       \/ deviceLost /\ UNCHANGED <<phase, credit>>
    /\ UNCHANGED <<deviceVars, ctlVars, dataEvent, ring, countVars>>

\* GetNextPacketSize and GetBuffer: the drain ends when either fails or there
\* is no packet; it looks neither at running_ nor at the stop event.
NextPacket ==
    /\ phase = "next"
    /\ \/ (endpoint = <<>> \/ deviceLost) /\ phase' = "test" /\ credit' = FullCredit
       \/ endpoint # <<>> /\ ~deviceLost /\ phase' = "hold" /\ UNCHANGED credit
    /\ UNCHANGED <<deviceVars, ctlVars, dataEvent, ring, countVars>>

Count(counter, more) == (counter + more) % CountLimit
CountBytes(counter, more) == (counter + more) % (CountLimit * FrameBytes)

\* What the ring does not take is counted in frames, unless the packet is silent.
CountLoss(p) ==
    LET bytes == p.frames * FrameBytes
        refused == IF p.kind = "null" THEN 0 ELSE bytes - Taken(bytes)
    IN  /\ droppedFrames' = IF p.kind = "data"
                              THEN Count(droppedFrames, Loss(p.frames, Taken(bytes)))
                              ELSE droppedFrames
        /\ lostBytes' = CountBytes(lostBytes, refused)
        /\ lostSilence' = IF p.kind = "silent" THEN CountBytes(lostSilence, refused)
                                               ELSE lostSilence

\* A drain that reads one packet per wake-up.
CopyPacketOnce ==
    LET p == Head(endpoint)
    IN  /\ phase = "hold"
        /\ discontinuities' = Count(discontinuities, IF p.gap THEN 1 ELSE 0)
        /\ ring' = IF p.kind = "null" THEN ring ELSE Written(p.frames)
        /\ CountLoss(p)
        /\ endpoint' = Tail(endpoint)
        /\ phase' = "test" /\ credit' = FullCredit
        /\ UNCHANGED <<loopback, gap, deviceLost, ctlVars, dataEvent>>

\* Count a discontinuity, push the packet (zeros for a silent one, nothing for one
\* without data) and release it; the drain goes on.
CopyPacket ==
    LET p == Head(endpoint)
    IN  /\ phase = "hold"
        /\ discontinuities' = Count(discontinuities, IF p.gap THEN 1 ELSE 0)
        /\ ring' = IF p.kind = "null" THEN ring ELSE Written(p.frames)
        /\ CountLoss(p)
        /\ endpoint' = Tail(endpoint)
        /\ phase' = "next" /\ credit' = Smaller(credit + 1, FullCredit)
        /\ UNCHANGED <<loopback, gap, deviceLost, ctlVars, dataEvent>>

CaptureThread == LoopTest \/ Poll \/ WakeForData \/ WakeForStop \/ NextPacket \/ CopyPacket

-----------------------------------------------------------------------------
(* The audio engine and the consumer.                                      *)

\* A packet arrives while the client runs: buffered, with the gap flag if the
\* buffer overflowed before it, or lost because the buffer is full.  The device
\* keeps its pace: in one drain it delivers a burst and then one packet for each
\* DrainSpeed that were copied.  Between drains it may deliver any number.
Arrive(n, kind) ==
    /\ phase # "idle" /\ ~deviceLost
    /\ \/ phase \notin {"next", "hold"} /\ UNCHANGED credit
       \/ phase \in {"next", "hold"} /\ credit >= DrainSpeed /\ credit' = credit - DrainSpeed
    /\ \/ /\ Len(endpoint) < EndpointPackets
          /\ endpoint' = Append(endpoint, [frames |-> n, kind |-> kind, gap |-> gap])
          /\ gap' = FALSE
       \/ /\ Len(endpoint) = EndpointPackets
          /\ gap' = TRUE /\ UNCHANGED endpoint
    /\ dataEvent' = ~loopback
    /\ UNCHANGED <<loopback, deviceLost, ctlVars, phase, ring, countVars>>

LoseDevice ==
    /\ ~deviceLost
    /\ deviceLost' = TRUE
    /\ UNCHANGED <<loopback, endpoint, gap, credit, ctlVars, dataEvent, phase, ring, countVars>>

\* The consumer reads or discards whole frames.
Consume(n) ==
    /\ Len(ring) >= n * FrameBytes
    /\ ring' = SubSeq(ring, (n * FrameBytes) + 1, Len(ring))
    /\ UNCHANGED <<deviceVars, credit, ctlVars, dataEvent, phase, countVars>>

-----------------------------------------------------------------------------
Next == \/ Start \/ StopBegin \/ StopEnd \/ CaptureThread
        \/ \E n \in PacketFrames, kind \in Kinds : Arrive(n, kind)
        \/ LoseDevice
        \/ \E n \in ReadFrames : Consume(n)

Spec == Init /\ [][Next]_vars

\* The capture thread runs on and join returns when it has ended.
FairSpec == Spec /\ WF_vars(CaptureThread) /\ WF_vars(StopEnd)

-----------------------------------------------------------------------------
(* Properties                                                              *)

\* The ring holds frames (WasapiPassthrough.h, 50): the byte at its read end is
\* the first of a frame, so a packet read from it has its channels in order.
FramesAligned == ring # <<>> => Head(ring) = 0

\* Frames pass the ring whole, from the consumer's first to the producer's last, and
\* what a full ring does not take is whole frames.  DroppedFrames is the number of
\* those that carried sound: a silent packet that finds the ring full is lost too,
\* and is not in it (WasapiCapture.cpp, 120).
FramesWhole ==
    /\ \A i \in 1..Len(ring) : ring[i] = (i - 1) % FrameBytes
    /\ Len(ring) % FrameBytes = 0
    /\ droppedFrames * FrameBytes = (lostBytes - lostSilence) % (CountLimit * FrameBytes)

\* What is captured is read: a packet does not stay in the endpoint buffer,
\* although one event stands for any number of packets and the event may come
\* while the drain that it announces is still running.
PacketsAreRead == endpoint # <<>> ~> (endpoint = <<>> \/ deviceLost \/ ~running \/ phase = "idle")

\* Stop returns, wherever the thread is and however long packets keep arriving, as
\* long as the drain is faster than the device (DrainSpeed > 1): it goes on until the
\* endpoint buffer is empty.
StopReturns == joining ~> ~joining
=============================================================================
