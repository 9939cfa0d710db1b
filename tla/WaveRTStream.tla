----------------------------- MODULE WaveRTStream -----------------------------
(***************************************************************************)
(* A WaveRT stream of the driver (minwavertstream.cpp) simulates DMA: its  *)
(* position is computed from the clock whenever somebody asks, and a 1 ms  *)
(* timer DPC emits a buffer completion each notification interval.  Both   *)
(* divide time with a carried remainder, but separately: the position in   *)
(* UpdatePosition, the completions in TimerNotifyRT.  SetState starts and  *)
(* stops them outside the position lock.                                   *)
(*                                                                         *)
(* Time is in units of 100 ns (HnsPerMs to the ms), counted from the time  *)
(* stamps the code keeps.  The end-of-stream branches are left out: no     *)
(* code sets m_bEoSReceived to TRUE.                                       *)
(* Left out too: the events a completion signals and the ETW reports,      *)
(* which change no state of the stream.                                    *)
(***************************************************************************)
EXTENDS Integers

CONSTANTS HnsPerMs,    \* HNSTIME_PER_MILLISECOND (10000)
          MsPerSec,    \* 1000
          Rate,        \* m_ulDmaMovementRate: bytes per second
          Size,        \* m_ulDmaBufferSize
          Count,       \* m_ulNotificationsPerBuffer; 0 without notifications
          Word,        \* 2^32: what a ULONG wraps at
          MaxGap,      \* bound: time between two updates of the position
          MaxRun       \* bound: time in RUN between two STOPs

ASSUME StreamAssumption ==
    /\ HnsPerMs \in Nat \ {0} /\ MsPerSec \in Nat \ {0} /\ Rate \in Nat \ {0}
    /\ Size \in Nat \ {0} /\ Count \in Nat /\ Word \in Nat \ {0}
    /\ MaxGap \in Nat /\ MaxRun \in Nat

VARIABLES state,         \* m_KsState
          phase,         \* how far a SetState call has come: "none", "run", "cancel",
                         \* "positions", "paused"
          timer,         \* the notification timer is set
          expiry,        \* time since it expired, up to its period
          sinceDma,      \* now - m_ullDmaTimeStamp
          sinceDpc,      \* now - m_ullLastDPCTimeStamp
          elapsedCarry,  \* m_hnsElapsedTimeCarryForward
          byteCarry,     \* m_byteDisplacementCarryForward
          dpcCarry,      \* m_hnsDPCTimeCarryForward
          linear, presentation, play,    \* m_ullLinearPosition and its companions
          counter        \* m_llPacketCounter

\* History: time the position has accounted for since STOP, what the carries held
\* at that STOP, and whether the DPC's carry held anything.
VARIABLES ran, base, stale

clockVars == <<expiry, sinceDma, sinceDpc>>
positionVars == <<elapsedCarry, byteCarry, linear, presentation, play>>
histVars == <<base, stale>>
vars == <<state, phase, timer, clockVars, positionVars, dpcCarry, counter, ran, histVars>>

\* KSSTATE, in its order.
STOP == 0
ACQUIRE == 1
PAUSE == 2
RUN == 3

\* AllocateBufferWithNotification: bytes of a packet, and m_ulNotificationIntervalMs.
Packet == IF Count = 0 THEN 0 ELSE Size \div Count
Interval == IF Count = 0 THEN 0 ELSE (((Size * MsPerSec) % Word) \div Rate) \div Count

Init ==
    /\ state = STOP /\ phase = "none" /\ timer = FALSE
    /\ expiry = 0 /\ sinceDma = 0 /\ sinceDpc = 0
    /\ elapsedCarry = 0 /\ byteCarry = 0 /\ dpcCarry = 0
    /\ linear = 0 /\ presentation = 0 /\ play = 0 /\ counter = 0
    /\ ran = 0 /\ base = 0 /\ stale = FALSE

-----------------------------------------------------------------------------
(* UpdatePosition, called under the position lock.                         *)

\* ULONG TimeElapsedInMS: the cast comes before the division.
Millis(hns) == (hns % Word) \div HnsPerMs

\* Starts each displacement from a whole byte.
MilliBytesUncarried == (Rate * Millis(sinceDma + elapsedCarry)) % Word

\* ByteDisplacement and its remainder are computed from this 32-bit value.
MilliBytes == (Rate * Millis(sinceDma + elapsedCarry) + byteCarry) % Word

Displacement == MilliBytes \div MsPerSec

Played == (play + Displacement) % Size

UpdatePosition ==
    /\ elapsedCarry' = (sinceDma + elapsedCarry) % HnsPerMs
    /\ byteCarry' = MilliBytes % MsPerSec
    /\ presentation' = presentation + Displacement
    /\ play' = Played
    /\ linear' = linear + Displacement
    /\ sinceDma' = 0
    /\ ran' = ran + sinceDma

\* GetPosition, GetPositions and GetPacketCount ask the clock only in RUN.
Query ==
    /\ state = RUN
    /\ UpdatePosition
    /\ UNCHANGED <<state, phase, timer, expiry, sinceDpc, dpcCarry, counter, histVars>>

-----------------------------------------------------------------------------
(* TimerNotifyRT.                                                          *)

DpcTime == sinceDpc + dpcCarry

\* A completion later than due shortens the next interval.
CarriedOver == DpcTime - Interval * HnsPerMs

TimerExpires ==
    /\ timer /\ expiry = HnsPerMs
    /\ expiry' = 0
    /\ IF Millis(DpcTime) >= Interval
         THEN /\ dpcCarry' = CarriedOver /\ sinceDpc' = 0
              /\ UpdatePosition
              /\ counter' = counter + 1
         ELSE UNCHANGED <<dpcCarry, sinceDpc, sinceDma, positionVars, counter, ran>>
    /\ UNCHANGED <<state, phase, timer, histVars>>

-----------------------------------------------------------------------------
(* SetState.  The port moves one state at a time.                          *)

Acquire ==
    /\ phase = "none" /\ state \in {STOP, PAUSE}
    /\ state' = ACQUIRE
    /\ UNCHANGED <<phase, timer, clockVars, positionVars, dpcCarry, counter, ran, histVars>>

\* What STOP resets; the carries and the time stamps stay.
Reset == linear' = 0 /\ presentation' = 0 /\ play' = 0 /\ counter' = 0

Stop ==
    /\ phase = "none" /\ state = ACQUIRE
    /\ state' = STOP
    /\ Reset
    /\ ran' = 0 /\ base' = HnsPerMs * byteCarry + Rate * elapsedCarry
    /\ stale' = (dpcCarry # 0)
    /\ UNCHANGED <<phase, timer, clockVars, elapsedCarry, byteCarry, dpcCarry>>

\* ACQUIRE -> PAUSE: nothing was running.
PauseIdle ==
    /\ phase = "none" /\ state = ACQUIRE
    /\ state' = PAUSE
    /\ UNCHANGED <<phase, timer, clockVars, positionVars, dpcCarry, counter, ran, histVars>>

\* PAUSE -> RUN: time stamps, timer, and only then m_KsState.
RunBegin ==
    /\ phase = "none" /\ state = PAUSE
    /\ phase' = "run"
    /\ sinceDma' = 0 /\ sinceDpc' = 0 /\ expiry' = 0
    /\ timer' = (Interval # 0)
    /\ UNCHANGED <<state, positionVars, dpcCarry, counter, ran, histVars>>

RunEnd ==
    /\ phase = "run"
    /\ phase' = "none" /\ state' = RUN
    /\ UNCHANGED <<timer, clockVars, positionVars, dpcCarry, counter, ran, histVars>>

\* Neither cancels the timer nor flushes its DPC.
PauseKeepsTimer ==
    /\ phase = "none" /\ state = RUN
    /\ phase' = IF Interval > 0 THEN "cancel" ELSE "positions"
    /\ UNCHANGED <<state, timer, clockVars, positionVars, dpcCarry, counter, ran, histVars>>

\* RUN -> PAUSE: the timer is cancelled and its DPCs are flushed; the time since the
\* last completion is kept; the position is brought up to date; then m_KsState.
PauseBegin ==
    /\ phase = "none" /\ state = RUN
    /\ phase' = IF Interval > 0 THEN "cancel" ELSE "positions"
    /\ timer' = IF Interval > 0 THEN FALSE ELSE timer
    /\ UNCHANGED <<state, clockVars, positionVars, dpcCarry, counter, ran, histVars>>

\* Counts the interval that has begun as over.
CarryInterval == sinceDpc + Interval * HnsPerMs

CarriedPause == sinceDpc + dpcCarry

PauseCarry ==
    /\ phase = "cancel"
    /\ phase' = "positions"
    /\ dpcCarry' = CarriedPause /\ sinceDpc' = 0
    /\ UNCHANGED <<state, timer, expiry, sinceDma, positionVars, counter, ran, histVars>>

PausePositions ==
    /\ phase = "positions"
    /\ phase' = "paused"
    /\ UpdatePosition
    /\ UNCHANGED <<state, timer, expiry, sinceDpc, dpcCarry, counter, histVars>>

PauseEnd ==
    /\ phase = "paused"
    /\ phase' = "none" /\ state' = PAUSE
    /\ UNCHANGED <<timer, clockVars, positionVars, dpcCarry, counter, ran, histVars>>

-----------------------------------------------------------------------------
\* Time passes; it matters to a running stream only.
Tick ==
    /\ state = RUN \/ phase = "run"
    /\ sinceDma + elapsedCarry < MaxGap /\ DpcTime < MaxGap
    /\ ran + sinceDma < MaxRun
    /\ sinceDma' = sinceDma + 1
    /\ sinceDpc' = IF timer \/ phase = "cancel" THEN sinceDpc + 1 ELSE sinceDpc
    /\ expiry' = IF timer /\ expiry < HnsPerMs THEN expiry + 1 ELSE expiry
    /\ UNCHANGED <<state, phase, timer, positionVars, dpcCarry, counter, ran, histVars>>

Next ==
    \/ Tick \/ Query \/ TimerExpires
    \/ Acquire \/ Stop \/ PauseIdle \/ RunBegin \/ RunEnd
    \/ PauseBegin \/ PauseCarry \/ PausePositions \/ PauseEnd

Spec == Init /\ [][Next]_vars

-----------------------------------------------------------------------------
(* Properties                                                              *)

TypeOK ==
    /\ state \in {STOP, ACQUIRE, PAUSE, RUN}
    /\ phase \in {"none", "run", "cancel", "positions", "paused"}
    /\ timer \in BOOLEAN /\ expiry \in 0..HnsPerMs
    /\ sinceDma \in Nat /\ sinceDpc \in Nat /\ dpcCarry \in Nat
    /\ elapsedCarry \in 0..(HnsPerMs - 1) /\ byteCarry \in 0..(MsPerSec - 1)
    /\ linear \in Nat /\ presentation \in Nat /\ play \in 0..(Size - 1) /\ counter \in Nat
    /\ ran \in Nat /\ base \in Nat /\ stale \in BOOLEAN

\* The three positions are one position: the place in the buffer is the linear
\* position modulo its size, through any sequence of states, queries and DPCs.
PositionsAgree == play = linear % Size /\ presentation = linear

\* Nothing is lost in the two divisions of UpdatePosition, however often and however
\* irregularly the position is asked for: bytes, carried bytes and carried time
\* together are the time in RUN (minwavertstream.cpp, 1309-1313 and 1321-1323).
PositionKeepsTime ==
    HnsPerMs * (MsPerSec * linear + byteCarry) + Rate * elapsedCarry = Rate * ran + base

\* A completion is counted only once its packet has been played, although the two are
\* computed separately; GetReadPacket subtracts one from the other, unsigned.  It takes
\* a fresh start: see CompletedWasPlayed.
CompletionsFollowData == ~stale => counter * Packet <= linear

\* A stream that has been paused stands still: no DPC that was under way counts a
\* completion or moves the position after SetState returned.
PausedStandsStill ==
    [][state # RUN /\ phase = "none" /\ state' # STOP
           => counter' = counter /\ linear' = linear]_vars

\* A completed buffer has been consumed (minwavertstream.cpp, 1624-1625).
CompletedWasPlayed == counter * Packet <= linear
=============================================================================
