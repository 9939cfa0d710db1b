-------------------------- MODULE WasapiPassthrough --------------------------
(***************************************************************************)
(* WasapiPassthrough.cpp: the render side.  A thread woken by the output   *)
(* device's clock fills one exclusive-mode buffer per cycle with bursts    *)
(* encoded from the shared ring, or from silence while the gate (Prebuffer)*)
(* is closed, and trims the ring when the input clock runs ahead.          *)
(*                                                                         *)
(* The ring appears as its fill level, atomic as RingImplementsFifo of     *)
(* RingBuffer_proofs allows.  The level counts whole frames: the consumer  *)
(* compares, reads and discards whole frames only, for which               *)
(* floor(bytes / bytesPerFrame) decides, and a Write of n frames into a    *)
(* ring of C bytes takes that floor to min(fill + n, floor(C / bpf)), which*)
(* is CaptureFillsLevel of WasapiCapture_proofs.                           *)
(***************************************************************************)
EXTENDS Integers

CONSTANTS Packet,        \* framesPerPacket_ (1536)
          Bursts,        \* burstsPerCycle_
          SafeFrames,    \* params_.safeFrames
          RingFrames,    \* whole frames the ring can hold
          TrimPeriod,    \* cycles between trims (64)
          Chunks         \* frames one capture packet may hold

ASSUME ParametersAssumption ==
    /\ Packet \in Nat \ {0} /\ Bursts \in Nat \ {0} /\ SafeFrames \in Nat
    /\ RingFrames \in Nat /\ TrimPeriod \in Nat \ {0}
    /\ Chunks \subseteq Nat

VARIABLES fill,               \* the ring's fill level
          running,            \* running_
          stopEvent,          \* stopEvent_ (manual reset)
          dataEvent,          \* dataEvent_ (auto reset)
          phase,              \* where the render activity is
          starting,           \* it is Start's pre-fill, on the caller's thread
          joining,            \* the caller is inside Stop
          cycle,              \* cycle_ modulo TrimPeriod, which divides 2^32
          minAvail,           \* minAvail_
          refilling, unlogged,\* gate_
          slot                \* b, the burst of the buffer being filled

\* History: what the properties compare against.
VARIABLES trimmed,            \* this cycle discarded frames
          owed                \* frames of the cushion not yet played since it filled

gateVars == <<refilling, unlogged>>
ctlVars == <<running, stopEvent, joining>>
histVars == <<trimmed, owed>>
vars == <<fill, ctlVars, dataEvent, phase, starting, cycle, minAvail, gateVars,
          slot, histVars>>

Smaller(a, b) == IF a <= b THEN a ELSE b

Required == Bursts * Packet          \* required, in ThreadProc
Desired == Required + SafeFrames     \* desired; also the prime level given to Reset
NoMin == RingFrames + 1              \* 0xFFFFFFFF: above every fill level

\* Compares with the target but discards down to the safety margin alone.
TrimTooDeep(least) == IF least > Desired THEN least - SafeFrames ELSE 0

\* Discards the level itself, not what exceeds the target.
TrimToEmpty(least) == IF least = NoMin THEN 0 ELSE least

\* What the ring held in excess of the target through a whole window.
Trim(least) == IF least > Desired THEN least - Desired ELSE 0

Gate == INSTANCE Prebuffer WITH packetFrames <- Packet, primeRequest <- Desired

\* After Init(): nothing runs, the gate was Reset.
Init ==
    /\ fill = 0 /\ running = FALSE /\ stopEvent = FALSE /\ dataEvent = FALSE
    /\ phase = "idle" /\ starting = FALSE /\ joining = FALSE
    /\ cycle = 0 /\ minAvail = NoMin
    /\ Gate!Reset
    /\ slot = 0
    /\ trimmed = FALSE /\ owed = 0

-----------------------------------------------------------------------------
(* The caller: Start and Stop.                                             *)

\* running_ was false: reset the drift window, re-prime the gate and pre-fill
\* the first buffer if the device hands one out.
Start ==
    /\ ~joining /\ phase = "idle" /\ ~running
    /\ running' = TRUE /\ stopEvent' = FALSE
    /\ cycle' = 0 /\ minAvail' = NoMin
    /\ Gate!Rearm
    /\ slot' = 0 /\ starting' = TRUE /\ trimmed' = FALSE
    /\ phase' \in {"fill", "start"}
    /\ UNCHANGED <<fill, joining, dataEvent, owed>>

\* client_->Start: the thread is created, or Start fails and running_ stays set.
ClientStart ==
    /\ phase = "start"
    /\ starting' = FALSE
    /\ phase' \in {"test", "idle"}
    /\ UNCHANGED <<fill, ctlVars, dataEvent, cycle, minAvail, gateVars, slot, histVars>>

StopBegin ==
    /\ running /\ ~starting /\ ~joining
    /\ running' = FALSE /\ stopEvent' = TRUE /\ joining' = TRUE
    /\ UNCHANGED <<fill, dataEvent, phase, starting, cycle, minAvail, gateVars, slot,
                   histVars>>

\* join() returns once the thread has left, or at once if there is none.
StopEnd ==
    /\ joining /\ phase \in {"idle", "done"}
    /\ joining' = FALSE /\ phase' = "idle"
    /\ UNCHANGED <<fill, dataEvent, running, stopEvent, starting, cycle, minAvail,
                   gateVars, slot, histVars>>

-----------------------------------------------------------------------------
(* The render thread.                                                      *)

\* The device clock has consumed a buffer.
DeviceEvent ==
    /\ phase \notin {"idle", "start"} /\ ~starting
    /\ dataEvent' = TRUE
    /\ UNCHANGED <<fill, ctlVars, phase, starting, cycle, minAvail, gateVars, slot,
                   histVars>>

\* The loop runs until the stop event is seen.
LoopForever ==
    /\ phase = "test"
    /\ phase' = "wait"
    /\ UNCHANGED <<fill, ctlVars, dataEvent, starting, cycle, minAvail, gateVars, slot,
                   histVars>>

\* while (running_)
LoopTest ==
    /\ phase = "test"
    /\ phase' = IF running THEN "wait" ELSE "done"
    /\ UNCHANGED <<fill, ctlVars, dataEvent, starting, cycle, minAvail, gateVars, slot,
                   histVars>>

\* WaitForMultipleObjects: the data event has the lower index and wins over the
\* stop event, so a cycle may still run after Stop was called.
WakeForData ==
    /\ phase = "wait" /\ dataEvent
    /\ dataEvent' = FALSE /\ phase' = "drift"
    /\ UNCHANGED <<fill, ctlVars, starting, cycle, minAvail, gateVars, slot, histVars>>

WakeForStop ==
    /\ phase = "wait" /\ stopEvent /\ ~dataEvent
    /\ phase' = "done"
    /\ UNCHANGED <<fill, ctlVars, dataEvent, starting, cycle, minAvail, gateVars, slot,
                   histVars>>

\* Two seconds without an event: log, and test the loop condition again.
WaitTimesOut ==
    /\ phase = "wait" /\ ~dataEvent /\ ~stopEvent
    /\ phase' = "test"
    /\ UNCHANGED <<fill, ctlVars, dataEvent, starting, cycle, minAvail, gateVars, slot,
                   histVars>>

\* Drift control: every TrimPeriod cycles discard what the level never fell
\* below during the window, over the target.
Drift ==
    LET least == Smaller(fill, minAvail)
        due == cycle = 0
        excess == IF due THEN Trim(least) ELSE 0
    IN  /\ phase = "drift"
        /\ cycle' = (cycle + 1) % TrimPeriod
        /\ minAvail' = IF due THEN NoMin ELSE least
        /\ fill' = fill - Smaller(excess, fill)
        /\ unlogged' = IF due THEN 0 ELSE unlogged
        /\ trimmed' = (excess # 0)
        /\ phase' = "get"
        /\ UNCHANGED <<ctlVars, dataEvent, starting, refilling, slot, owed>>

\* GetBuffer: on failure the thread ends.
GetBuffer ==
    /\ phase = "get"
    /\ slot' = 0
    /\ phase' \in {"fill", "done"}
    /\ UNCHANGED <<fill, ctlVars, dataEvent, starting, cycle, minAvail, gateVars,
                   histVars>>

\* EncodeIntoBuffer, one slot: ask the gate, with the level loaded now.
TakePacket ==
    /\ phase = "fill" /\ slot < Bursts
    /\ Gate!Serves(fill)
    /\ Gate!Take(fill)
    /\ owed' = IF refilling THEN Gate!prime ELSE owed
    /\ phase' = "read"
    /\ UNCHANGED <<fill, ctlVars, dataEvent, starting, cycle, minAvail, slot, trimmed>>

\* Read the packet (clamped to the level) and encode it.  Its gain is in
\* VolumeFollower.
EncodeAudio ==
    /\ phase = "read"
    /\ fill' = fill - Smaller(Packet, fill)
    /\ owed' = owed - Smaller(Packet, owed)
    /\ slot' = slot + 1
    /\ phase' = "fill"
    /\ UNCHANGED <<ctlVars, dataEvent, starting, cycle, minAvail, gateVars, trimmed>>

\* The gate is closed: a packet of silence.
EncodeSilence ==
    /\ phase = "fill" /\ slot < Bursts
    /\ ~Gate!Serves(fill)
    /\ Gate!Take(fill)
    /\ slot' = slot + 1
    /\ UNCHANGED <<fill, ctlVars, dataEvent, phase, starting, cycle, minAvail,
                   trimmed, owed>>

ReleaseBuffer ==
    /\ phase = "fill" /\ slot = Bursts
    /\ slot' = 0 /\ trimmed' = FALSE
    /\ phase' = IF starting THEN "start" ELSE "test"
    /\ UNCHANGED <<fill, ctlVars, dataEvent, starting, cycle, minAvail, gateVars, owed>>

-----------------------------------------------------------------------------
(* The other threads.                                                      *)

\* The capture thread writes n frames; what does not fit is dropped.
Capture(n) ==
    /\ fill' = Smaller(fill + n, RingFrames)
    /\ UNCHANGED <<ctlVars, dataEvent, phase, starting, cycle, minAvail, gateVars, slot,
                   histVars>>

-----------------------------------------------------------------------------
Encode == TakePacket \/ EncodeAudio \/ EncodeSilence \/ ReleaseBuffer

RenderThread == LoopTest \/ WakeForData \/ WakeForStop \/ Drift \/ GetBuffer \/ Encode

Next == \/ Start \/ ClientStart \/ StopBegin \/ StopEnd
        \/ DeviceEvent \/ WaitTimesOut \/ RenderThread
        \/ (\E n \in Chunks : Capture(n))

Spec == Init /\ [][Next]_vars

\* Threads run on, the device clock ticks, and the input keeps delivering.
FairSpec == /\ Spec
            /\ WF_vars(RenderThread) /\ WF_vars(ClientStart) /\ WF_vars(StopEnd)
            /\ WF_vars(DeviceEvent)
            /\ \A n \in Chunks : WF_vars(Capture(n))

-----------------------------------------------------------------------------
(* Properties                                                              *)

TypeOK ==
    /\ fill \in 0..RingFrames
    /\ running \in BOOLEAN /\ stopEvent \in BOOLEAN /\ dataEvent \in BOOLEAN
    /\ phase \in {"idle", "start", "test", "wait", "drift", "get", "fill", "read", "done"}
    /\ starting \in BOOLEAN /\ joining \in BOOLEAN
    /\ cycle \in 0..TrimPeriod-1 /\ minAvail \in 0..NoMin
    /\ refilling \in BOOLEAN /\ unlogged \in Nat
    /\ slot \in 0..Bursts
    /\ trimmed \in BOOLEAN /\ owed \in Nat

\* A slot the gate let through reads a whole packet: nothing can take frames
\* out of the ring between Take's look at the level and the Read, so Read's
\* clamp never leaves half of the staging buffer as it was.
ServedSlotsAreWhole == phase = "read" => fill >= Packet

\* Trimming never starves the cycle that trims: the buffer being filled gets
\* audio in every slot.
TrimNeverStarves ==
    [][EncodeSilence => ~trimmed]_vars

\* No crackle: once the gate has opened, it does not close again before as many
\* whole packets as the cushion holds have been played, whatever the input does
\* and however often the level is trimmed meanwhile.
CushionIsPlayedOut ==
    [][~refilling /\ refilling' /\ ~(phase = "idle") => owed < Packet]_vars

\* While input keeps coming the gate never stays closed: it opens, unless the
\* thread is stopped or loses the device.
GateReopens == (phase = "fill" /\ refilling) ~> (~refilling \/ phase \in {"idle", "done"})

\* Stop returns: the thread sees the stop wherever it is, and join ends.
StopReturns == joining ~> ~joining
=============================================================================
