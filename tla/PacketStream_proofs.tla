------------------------ MODULE PacketStream_proofs -------------------------
(***************************************************************************)
(* A stream's positions agree and account for all of its time in RUN, and  *)
(* no completion runs ahead of the data: for every rate, buffer size,      *)
(* number of notifications and pattern of queries, timer ticks and states. *)
(* A stream with its packets is a stream, so all this holds of it too; and,*)
(* of a client that waits, no packet that was written is reported as missing*)
(* and the DPC never stands at a freed entry.                              *)
(***************************************************************************)
EXTENDS PacketStream, SequenceTheorems, TLAPS

-----------------------------------------------------------------------------
(* Arithmetic                                                              *)

LEMMA DivMod ==
    ASSUME NEW a \in Nat, NEW b \in Nat \ {0}
    PROVE  /\ a = (b * (a \div b)) + (a % b)
           /\ a % b \in 0..b-1
           /\ a \div b \in Nat
  BY SMT

LEMMA ModUnique ==
    ASSUME NEW b \in Nat \ {0}, NEW q \in Nat, NEW r \in 0..b-1
    PROVE  ((b * q) + r) % b = r
  BY SMT

LEMMA ModSmall == ASSUME NEW b \in Nat \ {0}, NEW a \in Nat, a < b PROVE a % b = a
  BY SMT

LEMMA TimesType == ASSUME NEW a \in Nat, NEW b \in Nat PROVE a * b \in Nat
  BY SMT

LEMMA TimesMonotone ==
    ASSUME NEW a \in Nat, NEW b \in Nat, NEW c \in Nat, a <= b
    PROVE  c * a <= c * b
  BY SMT

\* Advancing and wrapping in one go or in two is the same.
LEMMA ModAdd ==
    ASSUME NEW b \in Nat \ {0}, NEW a \in Nat, NEW d \in Nat
    PROVE  ((a % b) + d) % b = (a + d) % b
<1>1. PICK q \in Nat, r \in 0..b-1 : a = (b * q) + r /\ r = a % b
  BY DivMod
<1>2. PICK p \in Nat, s \in 0..b-1 : r + d = (b * p) + s /\ s = (r + d) % b
  <2>1. r + d \in Nat
    OBVIOUS
  <2> QED BY <2>1, DivMod
<1>3. a + d = (b * (q + p)) + s
  <2>1. b * (q + p) = (b * q) + (b * p)
    BY SMT
  <2>2. PICK x \in Nat, y \in Nat : x = b * q /\ y = b * p
    BY TimesType
  <2>3. a = x + r /\ r + d = y + s
    BY <1>1, <1>2, <2>2
  <2>4. a + d = (x + y) + s
    BY ONLY <2>3, a \in Nat, d \in Nat, r \in 0..b-1, s \in 0..b-1, b \in Nat, x \in Nat, y \in Nat
  <2> QED BY <2>1, <2>2, <2>4
<1>4. q + p \in Nat
  BY SMT
<1>5. (a + d) % b = s
  BY <1>3, <1>4, ModUnique
<1> QED BY <1>1, <1>2, <1>5

LEMMA PacketAndInterval == Packet \in Nat /\ Interval \in Nat
<1> USE StreamAssumption
<1>1. CASE Count = 0
  BY <1>1 DEF Packet, Interval
<1>2. CASE Count # 0
  <2>1. Size \div Count \in Nat
    BY <1>2, DivMod
  <2>2. (Size * MsPerSec) % Word \in Nat
    BY DivMod, TimesType
  <2>3. ((Size * MsPerSec) % Word) \div Rate \in Nat
    BY <2>2, DivMod
  <2>4. (((Size * MsPerSec) % Word) \div Rate) \div Count \in Nat
    BY <1>2, <2>3, DivMod
  <2> QED BY <1>2, <2>1, <2>4 DEF Packet, Interval
<1> QED BY <1>1, <1>2

LEMMA MillisType == ASSUME NEW h \in Nat PROVE Millis(h) \in Nat
  BY StreamAssumption, DivMod DEF Millis

\* So many whole milliseconds have passed at least.
LEMMA MillisBelow ==
    ASSUME NEW h \in Nat PROVE Millis(h) * HnsPerMs <= h
<1> USE StreamAssumption
<1>1. PICK w \in Nat : w = h % Word /\ w <= h
  <2>1. PICK q \in Nat, r \in Nat : h = (Word * q) + r /\ r = h % Word
    <3>1. Word \in Nat \ {0}
      OBVIOUS
    <3>2. h % Word \in Nat
      BY <3>1, DivMod
    <3> QED BY <3>1, <3>2, DivMod
  <2>2. Word * q \in Nat
    BY TimesType
  <2> QED BY <2>1, <2>2
<1>2. PICK q \in Nat, r \in Nat : w = (HnsPerMs * q) + r /\ q = w \div HnsPerMs
  BY DivMod
<1>3. Millis(h) = q
  BY <1>1, <1>2 DEF Millis
<1>4. HnsPerMs * q = q * HnsPerMs /\ HnsPerMs * q \in Nat
  BY TimesType
<1> QED BY <1>1, <1>2, <1>3, <1>4

-----------------------------------------------------------------------------
(* Type correctness                                                        *)

LEMMA DisplacementType ==
    ASSUME TypeOK
    PROVE  MilliBytes \in Nat /\ Displacement \in Nat /\ sinceDma + elapsedCarry \in Nat
<1> USE StreamAssumption
<1>1. sinceDma + elapsedCarry \in Nat /\ byteCarry \in Nat
  BY DEF TypeOK
<1>2. Rate * Millis(sinceDma + elapsedCarry) \in Nat
  BY <1>1, MillisType, TimesType
<1>3. (Rate * Millis(sinceDma + elapsedCarry)) + byteCarry \in Nat
  BY <1>1, <1>2
<1>4. MilliBytes \in Nat
  BY <1>3, DivMod DEF MilliBytes
<1> QED BY <1>1, <1>4, DivMod DEF Displacement

LEMMA UpdateType ==
    ASSUME TypeOK, UpdatePosition
    PROVE  /\ elapsedCarry' \in 0..(HnsPerMs - 1) /\ byteCarry' \in 0..(MsPerSec - 1)
           /\ presentation' \in Nat /\ play' \in 0..(Size - 1) /\ linear' \in Nat
           /\ sinceDma' \in Nat /\ ran' \in Nat
<1> USE StreamAssumption, DisplacementType
<1>1. elapsedCarry' \in 0..(HnsPerMs - 1) /\ byteCarry' \in 0..(MsPerSec - 1)
  BY DivMod DEF UpdatePosition
<1>2. play + Displacement \in Nat
  BY DEF TypeOK
<1>3. play' \in 0..(Size - 1)
  BY <1>2, DivMod DEF UpdatePosition, Played
<1>4. presentation' \in Nat /\ linear' \in Nat /\ sinceDma' \in Nat /\ ran' \in Nat
  BY DEF UpdatePosition, TypeOK
<1> QED BY <1>1, <1>3, <1>4

\* The steps of SetState and of the clock that leave the position alone.
Control == \/ Tick \/ Acquire \/ PauseIdle \/ RunBegin \/ RunEnd
           \/ PauseBegin \/ PauseCarry \/ PauseEnd

LEMMA ControlType == ASSUME TypeOK, Control PROVE TypeOK'
<1> USE StreamAssumption, PacketAndInterval DEF positionVars, clockVars, histVars
<1>1. timer' \in BOOLEAN /\ stale' \in BOOLEAN
  <2>1. timer \in BOOLEAN /\ stale \in BOOLEAN
    BY DEF TypeOK
  <2>2. CASE Tick
    BY <2>1, <2>2, Zenon DEF Tick
  <2>3. CASE Acquire
    BY <2>1, <2>3, Zenon DEF Acquire
  <2>4. CASE PauseIdle
    BY <2>1, <2>4, Zenon DEF PauseIdle
  <2>5. CASE RunBegin
    BY <2>1, <2>5, Zenon DEF RunBegin
  <2>6. CASE RunEnd
    BY <2>1, <2>6, Zenon DEF RunEnd
  <2>7. CASE PauseBegin
    BY <2>1, <2>7, Zenon DEF PauseBegin
  <2>8. CASE PauseCarry
    BY <2>1, <2>8, Zenon DEF PauseCarry
  <2>9. CASE PauseEnd
    BY <2>1, <2>9, Zenon DEF PauseEnd
  <2> QED BY <2>2, <2>3, <2>4, <2>5, <2>6, <2>7, <2>8, <2>9 DEF Control
<1>2. /\ state' \in {STOP, ACQUIRE, PAUSE, RUN}
      /\ phase' \in {"none", "run", "cancel", "positions", "paused"}
      /\ expiry' \in 0..HnsPerMs
      /\ sinceDma' \in Nat /\ sinceDpc' \in Nat /\ dpcCarry' \in Nat
      /\ ran' \in Nat /\ base' \in Nat /\ counter' \in Nat
  <2> USE DEF TypeOK, STOP, ACQUIRE, PAUSE, RUN
  <2>2. CASE Tick
    BY <2>2 DEF Tick
  <2>3. CASE Acquire
    BY <2>3 DEF Acquire
  <2>4. CASE PauseIdle
    BY <2>4 DEF PauseIdle
  <2>5. CASE RunBegin
    BY <2>5 DEF RunBegin
  <2>6. CASE RunEnd
    BY <2>6 DEF RunEnd
  <2>7. CASE PauseBegin
    BY <2>7 DEF PauseBegin
  <2>8. CASE PauseCarry
    BY <2>8 DEF PauseCarry, CarriedPause
  <2>9. CASE PauseEnd
    BY <2>9 DEF PauseEnd
  <2> QED BY <2>2, <2>3, <2>4, <2>5, <2>6, <2>7, <2>8, <2>9 DEF Control
<1>3. UNCHANGED <<elapsedCarry, byteCarry, linear, presentation, play>>
  BY DEF Control, Tick, Acquire, PauseIdle, RunBegin, RunEnd, PauseBegin, PauseCarry, PauseEnd
<1> QED BY <1>1, <1>2, <1>3 DEF TypeOK

\* A completion leaves no negative carry.
LEMMA CompletionType ==
    ASSUME TypeOK, Millis(DpcTime) >= Interval
    PROVE  CarriedOver \in Nat
<1> USE StreamAssumption, PacketAndInterval
<1>1. DpcTime \in Nat
  BY DEF DpcTime, TypeOK
<1>2. Millis(DpcTime) \in Nat /\ Millis(DpcTime) * HnsPerMs <= DpcTime
  BY <1>1, MillisType, MillisBelow
<1>3. Interval * HnsPerMs <= Millis(DpcTime) * HnsPerMs
  <2>1. HnsPerMs * Interval <= HnsPerMs * Millis(DpcTime)
    BY <1>2, TimesMonotone
  <2> QED BY <2>1, <1>2
<1>4. Interval * HnsPerMs \in Nat /\ Millis(DpcTime) * HnsPerMs \in Nat
  BY <1>2, TimesType
<1> QED BY <1>1, <1>2, <1>3, <1>4 DEF CarriedOver

LEMMA NextType == ASSUME TypeOK, [Next]_vars PROVE TypeOK'
<1> USE StreamAssumption DEF positionVars, clockVars, histVars
<1>1. CASE Control
  BY <1>1, ControlType
<1>2. CASE Query
  <2>1. UpdatePosition /\ UNCHANGED <<state, phase, timer, expiry, sinceDpc, dpcCarry, counter, base, stale>>
    BY <1>2 DEF Query
  <2> QED BY <2>1, UpdateType DEF TypeOK
<1>3. CASE PausePositions
  <2>1. /\ UpdatePosition /\ phase' = "paused"
        /\ UNCHANGED <<state, timer, expiry, sinceDpc, dpcCarry, counter, base, stale>>
    BY <1>3 DEF PausePositions
  <2> QED BY <2>1, UpdateType DEF TypeOK
<1>4. CASE Stop
  <2>1. UNCHANGED <<phase, timer, expiry, sinceDma, sinceDpc, elapsedCarry, byteCarry, dpcCarry>>
    BY <1>4 DEF Stop
  <2>2. stale' \in BOOLEAN
    BY <1>4, Zenon DEF Stop
  <2>3. base' \in Nat
    <3>1. HnsPerMs * byteCarry \in Nat /\ Rate * elapsedCarry \in Nat
      BY TimesType DEF TypeOK
    <3> QED BY <1>4, <3>1 DEF Stop
  <2>4. /\ state' = STOP /\ linear' = 0 /\ presentation' = 0 /\ play' = 0 /\ counter' = 0
        /\ ran' = 0
    BY <1>4 DEF Stop, Reset
  <2> QED BY <2>1, <2>2, <2>3, <2>4 DEF TypeOK
<1>5. CASE TimerExpires
  <2>1. expiry' = 0 /\ UNCHANGED <<state, phase, timer, base, stale>>
    BY <1>5 DEF TimerExpires
  <2>2. CASE Millis(DpcTime) >= Interval
    <3>1. /\ dpcCarry' = CarriedOver /\ sinceDpc' = 0 /\ UpdatePosition
          /\ counter' = counter + 1
      BY <1>5, <2>2 DEF TimerExpires
    <3> QED BY <2>1, <2>2, <3>1, UpdateType, CompletionType DEF TypeOK
  <2>3. CASE ~(Millis(DpcTime) >= Interval)
    <3>1. UNCHANGED <<dpcCarry, sinceDpc, sinceDma, positionVars, counter, ran>>
      BY <1>5, <2>3, Zenon DEF TimerExpires
    <3> QED BY <2>1, <3>1 DEF TypeOK
  <2> QED BY <2>2, <2>3
<1>6. CASE UNCHANGED vars
  BY <1>6 DEF vars, TypeOK
<1> QED BY <1>1, <1>2, <1>3, <1>4, <1>5, <1>6 DEF Next, Control

LEMMA InitType == Init => TypeOK
<1>1. Init => timer \in BOOLEAN /\ stale \in BOOLEAN
  BY Zenon DEF Init
<1>2. Init => /\ state \in {STOP, ACQUIRE, PAUSE, RUN} /\ phase = "none" /\ expiry \in 0..HnsPerMs
              /\ sinceDma \in Nat /\ sinceDpc \in Nat /\ dpcCarry \in Nat
              /\ elapsedCarry \in 0..(HnsPerMs - 1) /\ byteCarry \in 0..(MsPerSec - 1)
              /\ linear \in Nat /\ presentation \in Nat /\ play \in 0..(Size - 1)
              /\ counter \in Nat /\ ran \in Nat /\ base \in Nat
  BY StreamAssumption DEF Init
<1> QED BY <1>1, <1>2 DEF TypeOK

\* Every variable keeps its type; above all, the carries stay remainders and the play
\* position stays inside the buffer (minwavertstream.cpp, 1302-1389).
THEOREM TypeCorrect == Spec => []TypeOK
  BY InitType, NextType, PTL DEF Spec

-----------------------------------------------------------------------------
(* Positions                                                               *)

\* What a step does to the position and its accounts: nothing, an update, or a STOP.
LEMMA StepsOfPosition ==
    ASSUME [Next]_vars
    PROVE  \/ UNCHANGED <<positionVars, ran, base>>
           \/ UpdatePosition /\ UNCHANGED base
           \/ Stop
<1> USE DEF histVars
<1>1. CASE Control
  BY <1>1, Zenon DEF Control, Tick, Acquire, PauseIdle, RunBegin, RunEnd, PauseBegin,
                     PauseCarry, PauseEnd
<1>2. CASE Query \/ PausePositions
  BY <1>2, Zenon DEF Query, PausePositions
<1>3. CASE TimerExpires
  BY <1>3, Zenon DEF TimerExpires
<1>4. CASE UNCHANGED vars
  BY <1>4, Zenon DEF vars
<1> QED BY <1>1, <1>2, <1>3, <1>4, Zenon DEF Next, Control

LEMMA PositionsInit == Init => PositionsAgree
<1>1. 0 % Size = 0
  BY StreamAssumption, ModSmall
<1> QED BY <1>1 DEF Init, PositionsAgree

LEMMA PositionsNext == ASSUME TypeOK, PositionsAgree, [Next]_vars PROVE PositionsAgree'
<1> USE StreamAssumption
<1>1. CASE UNCHANGED <<positionVars, ran, base>>
  BY <1>1 DEF positionVars, PositionsAgree
<1>2. CASE UpdatePosition
  <2>1. linear \in Nat /\ Displacement \in Nat
    BY DisplacementType DEF TypeOK
  <2>2. play' = ((linear % Size) + Displacement) % Size
    BY <1>2 DEF UpdatePosition, Played, PositionsAgree
  <2>3. play' = (linear + Displacement) % Size
    BY <2>1, <2>2, ModAdd
  <2> QED BY <1>2, <2>3 DEF UpdatePosition, PositionsAgree
<1>3. CASE Stop
  <2>1. 0 % Size = 0
    BY ModSmall
  <2> QED BY <1>3, <2>1 DEF Stop, Reset, PositionsAgree
<1> QED BY <1>1, <1>2, <1>3, StepsOfPosition

\* ReadBytes and WriteBytes find the place in the buffer from the linear position (1421,
\* 1456), clients get it from the play position: the two never part, over any number of
\* updates, pauses and stops.
THEOREM PositionsAlwaysAgree == Spec => []PositionsAgree
  BY TypeCorrect, PositionsInit, PositionsNext, PTL DEF Spec

-----------------------------------------------------------------------------
(* SetState and the timer                                                  *)

\* How far SetState has come says whether the timer may run, and whether time counts
\* for the next completion.
Phases ==
    /\ timer => Interval # 0 /\ (phase = "run" \/ (phase = "none" /\ state = RUN))
    /\ phase = "run" => state = PAUSE
    /\ phase \in {"cancel", "positions", "paused"} => state = RUN
    /\ phase = "cancel" => Interval # 0
    /\ \/ Interval = 0
       \/ phase = "none" /\ state # RUN
       \/ phase \in {"positions", "paused"}
       => sinceDpc = 0

LEMMA PhasesNext == ASSUME TypeOK, Phases, [Next]_vars PROVE Phases'
<1> USE PacketAndInterval
    DEF Phases, STOP, ACQUIRE, PAUSE, RUN, positionVars, clockVars, histVars
<1>0. Interval' = Interval
  BY DEF Interval
<1>1. CASE Tick
  BY <1>0, <1>1 DEF Tick, TypeOK
<1>2. CASE Query
  BY <1>0, <1>2 DEF Query
<1>3. CASE TimerExpires
  BY <1>0, <1>3 DEF TimerExpires
<1>4. CASE Acquire \/ PauseIdle \/ Stop
  BY <1>0, <1>4 DEF Acquire, PauseIdle, Stop
<1>5. CASE RunBegin
  BY <1>0, <1>5 DEF RunBegin
<1>6. CASE RunEnd
  BY <1>0, <1>6 DEF RunEnd
<1>7. CASE PauseBegin
  BY <1>0, <1>7 DEF PauseBegin
<1>8. CASE PauseCarry
  BY <1>0, <1>8 DEF PauseCarry
<1>9. CASE PausePositions \/ PauseEnd
  BY <1>0, <1>9 DEF PausePositions, PauseEnd
<1>10. CASE UNCHANGED vars
  BY <1>0, <1>10 DEF vars
<1> QED BY <1>1, <1>2, <1>3, <1>4, <1>5, <1>6, <1>7, <1>8, <1>9, <1>10 DEF Next

LEMMA PhasesInit == Init => Phases
  BY DEF Init, Phases, STOP, RUN

LEMMA PausedStep ==
    ASSUME Phases, [Next]_vars, state # RUN, phase = "none", state' # STOP
    PROVE  counter' = counter /\ linear' = linear
<1> USE DEF Phases, STOP, ACQUIRE, PAUSE, RUN, positionVars
<1>1. CASE Control
  BY <1>1, Zenon DEF Control, Tick, Acquire, PauseIdle, RunBegin, RunEnd, PauseBegin,
                     PauseCarry, PauseEnd
<1>2. CASE Query \/ PausePositions \/ TimerExpires
  BY <1>2 DEF Query, PausePositions, TimerExpires
<1>3. CASE Stop
  BY <1>3 DEF Stop
<1>4. CASE UNCHANGED vars
  BY <1>4, Zenon DEF vars
<1> QED BY <1>1, <1>2, <1>3, <1>4, Zenon DEF Next, Control

\* Cancelling the timer and flushing its DPCs before anything else in PAUSE (1226-1227)
\* is enough: nothing counts or moves in a stream that was paused.
THEOREM PausedIsStill == Spec => PausedStandsStill
<1>1. Spec => []Phases
  BY TypeCorrect, PhasesInit, PhasesNext, PTL DEF Spec
<1>2. Phases /\ [Next]_vars =>
          [state # RUN /\ phase = "none" /\ state' # STOP
              => counter' = counter /\ linear' = linear]_vars
  BY PausedStep
<1> QED BY <1>1, <1>2, PTL DEF Spec, PausedStandsStill

-----------------------------------------------------------------------------
(* Time and bytes                                                          *)

\* Assumption of the results below: between two updates of the position neither the
\* 32-bit time nor the 32-bit product of time and rate wraps (1315, 1327).
NoWrap ==
    /\ MaxGap + HnsPerMs < Word
    /\ (Rate * ((MaxGap + HnsPerMs) \div HnsPerMs)) + MsPerSec <= Word

GapBounded == sinceDma + elapsedCarry <= MaxGap + HnsPerMs

\* Since STOP, n whole milliseconds have been turned into bytes, beginning with e of
\* carried time and b of carried bytes.
Accounts ==
    \E n, e, b \in Nat :
        /\ ran + e = (n * HnsPerMs) + elapsedCarry
        /\ (MsPerSec * linear) + byteCarry = (Rate * n) + b
        /\ base = (HnsPerMs * b) + (Rate * e)

LEMMA DivMonotone ==
    ASSUME NEW a \in Nat, NEW c \in Nat, NEW b \in Nat \ {0}, a <= c
    PROVE  a \div b <= c \div b
<1>1. PICK q \in Nat, r \in 0..b-1 : a = (b * q) + r /\ q = a \div b
  BY DivMod
<1>2. PICK p \in Nat, s \in 0..b-1 : c = (b * p) + s /\ p = c \div b
  BY DivMod
<1>3. CASE q > p
  <2>1. b * (p + 1) <= b * q
    BY <1>3, TimesMonotone
  <2>2. b * (p + 1) = (b * p) + b
    BY SMT
  <2>3. PICK x \in Nat, y \in Nat : x = b * q /\ y = b * p
    BY TimesType
  <2>4. a = x + r /\ c = y + s /\ y + b <= x
    BY <1>1, <1>2, <2>1, <2>2, <2>3
  <2> QED BY ONLY <2>4, a <= c, a \in Nat, c \in Nat, b \in Nat, x \in Nat, y \in Nat,
                  r \in 0..b-1, s \in 0..b-1
<1> QED BY <1>1, <1>2, <1>3

\* One update turns m whole milliseconds into bytes and loses nothing.
LEMMA UpdateAccounts ==
    ASSUME TypeOK, GapBounded, NoWrap, UpdatePosition
    PROVE  \E m \in Nat :
              /\ sinceDma + elapsedCarry = (HnsPerMs * m) + elapsedCarry'
              /\ (MsPerSec * Displacement) + byteCarry' = (Rate * m) + byteCarry
<1> USE StreamAssumption
<1>1. PICK h \in Nat : h = sinceDma + elapsedCarry
  BY DEF TypeOK
<1>2. byteCarry \in 0..(MsPerSec - 1)
  BY DEF TypeOK
<1>3. h < Word /\ h <= MaxGap + HnsPerMs /\ MaxGap + HnsPerMs \in Nat
  BY <1>1 DEF GapBounded, NoWrap
<1>4. Millis(h) = h \div HnsPerMs
  BY <1>3, ModSmall DEF Millis
<1>5. PICK m \in Nat : m = h \div HnsPerMs
  BY DivMod
<1>6. h = (HnsPerMs * m) + (h % HnsPerMs)
  BY <1>5, DivMod
<1>7. PICK k \in Nat : k = Rate * m
  BY TimesType
<1>8. k + byteCarry < Word
  <2>1. PICK g \in Nat : g = (MaxGap + HnsPerMs) \div HnsPerMs
    BY <1>3, DivMod
  <2>2. m <= g
    BY <1>3, <1>5, <2>1, DivMonotone
  <2>3. PICK z \in Nat : z = Rate * g
    BY TimesType
  <2>4. k <= z
    BY <1>7, <2>2, <2>3, TimesMonotone
  <2>5. z + MsPerSec <= Word
    BY <2>1, <2>3 DEF NoWrap
  <2> QED BY ONLY <1>2, <2>4, <2>5, k \in Nat, z \in Nat, Word \in Nat, MsPerSec \in Nat
<1>9. MilliBytes = k + byteCarry
  <2>1. MilliBytes = (k + byteCarry) % Word
    BY <1>1, <1>4, <1>5, <1>7 DEF MilliBytes
  <2> QED BY <1>2, <1>8, <2>1, ModSmall
<1>10. k + byteCarry = (MsPerSec * Displacement) + byteCarry'
  <2>1. byteCarry' = MilliBytes % MsPerSec /\ Displacement = MilliBytes \div MsPerSec
    BY DEF UpdatePosition, Displacement
  <2> QED BY <1>2, <1>9, <2>1, DivMod
<1>11. elapsedCarry' = h % HnsPerMs
  BY <1>1 DEF UpdatePosition
<1> QED BY <1>1, <1>6, <1>7, <1>10, <1>11

LEMMA KeepTimeArithmetic ==
    ASSUME NEW H \in Nat, NEW M \in Nat, NEW R \in Nat, NEW r \in Nat, NEW n \in Nat,
           NEW e \in Nat, NEW b \in Nat, NEW l \in Nat, NEW c \in Nat, NEW b1 \in Nat,
           r + e = (n * H) + c, (M * l) + b1 = (R * n) + b
    PROVE  (H * ((M * l) + b1)) + (R * c) = (R * r) + ((H * b) + (R * e))
<1>1. PICK x \in Nat : x = n * H
  BY TimesType
<1>2. (R * r) + (R * e) = (R * x) + (R * c)
  <2>1. r + e = x + c
    BY <1>1
  <2>2. R * (r + e) = (R * r) + (R * e) /\ R * (x + c) = (R * x) + (R * c)
    BY SMT
  <2> QED BY <2>1, <2>2
<1>3. H * ((R * n) + b) = (R * x) + (H * b)
  BY <1>1
<1>4. PICK y \in Nat, z \in Nat, u \in Nat, v \in Nat, w \in Nat :
         /\ y = H * b /\ z = R * c /\ u = R * r /\ v = R * e /\ w = R * x
  BY TimesType
<1>5. H * ((M * l) + b1) = w + y
  BY <1>3, <1>4
<1>6. u + v = w + z
  BY <1>2, <1>4
<1>7. (w + y) + z = u + (y + v)
  BY ONLY <1>6, y \in Nat, z \in Nat, u \in Nat, v \in Nat, w \in Nat
<1> QED BY <1>4, <1>5, <1>7

LEMMA AccountsInit == Init => Accounts
<1>1. SUFFICES ASSUME Init PROVE Accounts
  OBVIOUS
<1>2. /\ ran + 0 = (0 * HnsPerMs) + elapsedCarry
      /\ (MsPerSec * linear) + byteCarry = (Rate * 0) + 0
      /\ base = (HnsPerMs * 0) + (Rate * 0)
  BY <1>1, StreamAssumption DEF Init
<1> QED BY <1>2 DEF Accounts

LEMMA AccountsNext ==
    ASSUME TypeOK, GapBounded, NoWrap, Accounts, [Next]_vars
    PROVE  Accounts'
<1> USE StreamAssumption
<1>1. PICK n \in Nat, e \in Nat, b \in Nat :
         /\ ran + e = (n * HnsPerMs) + elapsedCarry
         /\ (MsPerSec * linear) + byteCarry = (Rate * n) + b
         /\ base = (HnsPerMs * b) + (Rate * e)
  BY DEF Accounts
<1>2. CASE UNCHANGED <<positionVars, ran, base>>
  BY <1>1, <1>2 DEF positionVars, Accounts
<1>3. CASE UpdatePosition /\ UNCHANGED base
  <2>1. PICK m \in Nat :
           /\ sinceDma + elapsedCarry = (HnsPerMs * m) + elapsedCarry'
           /\ (MsPerSec * Displacement) + byteCarry' = (Rate * m) + byteCarry
    BY <1>3, UpdateAccounts
  <2>2. ran' = ran + sinceDma /\ linear' = linear + Displacement
    BY <1>3 DEF UpdatePosition
  <2>3. ran' + e = ((n + m) * HnsPerMs) + elapsedCarry'
    <3>1. PICK r \in Nat, s \in Nat, c \in Nat, d \in Nat :
             r = ran /\ s = sinceDma /\ c = elapsedCarry /\ d = elapsedCarry'
      <4>1. elapsedCarry' \in Nat
        BY <1>3, UpdateType
      <4>2. ran \in Nat /\ sinceDma \in Nat /\ elapsedCarry \in Nat
        BY DEF TypeOK
      <4> QED BY ONLY <4>1, <4>2
    <3>2. PICK x \in Nat, y \in Nat : x = n * HnsPerMs /\ y = HnsPerMs * m
      BY TimesType
    <3>3. (n + m) * HnsPerMs = x + y
      BY <3>2
    <3>4. r + e = x + c /\ s + c = y + d
      BY <1>1, <2>1, <3>1, <3>2
    <3>5. (r + s) + e = (x + y) + d
      BY ONLY <3>4, e \in Nat, x \in Nat, y \in Nat, r \in Nat, s \in Nat, c \in Nat, d \in Nat
    <3> QED BY <2>2, <3>1, <3>3, <3>5
  <2>4. (MsPerSec * linear') + byteCarry' = (Rate * (n + m)) + b
    <3>1. PICK l \in Nat, d \in Nat, c \in Nat, f \in Nat :
             l = linear /\ d = Displacement /\ c = byteCarry /\ f = byteCarry'
      BY <1>3, UpdateType, DisplacementType DEF TypeOK
    <3>2. PICK x \in Nat, y \in Nat : x = MsPerSec * l /\ y = MsPerSec * d
      BY TimesType
    <3>3. PICK u \in Nat, v \in Nat : u = Rate * n /\ v = Rate * m
      BY TimesType
    <3>4. MsPerSec * (l + d) = x + y /\ Rate * (n + m) = u + v
      BY <3>2, <3>3
    <3>5. x + c = u + b /\ y + f = v + c
      BY <1>1, <2>1, <3>1, <3>2, <3>3
    <3>6. (x + y) + f = (u + v) + b
      BY ONLY <3>5, b \in Nat, x \in Nat, y \in Nat, u \in Nat, v \in Nat, c \in Nat, f \in Nat
    <3> QED BY <2>2, <3>1, <3>4, <3>6
  <2>5. n + m \in Nat /\ base' = (HnsPerMs * b) + (Rate * e)
    BY <1>1, <1>3
  <2> QED BY <2>3, <2>4, <2>5 DEF Accounts
<1>4. CASE Stop
  <2>1. /\ ran' = 0 /\ linear' = 0 /\ elapsedCarry' = elapsedCarry /\ byteCarry' = byteCarry
        /\ base' = (HnsPerMs * byteCarry) + (Rate * elapsedCarry)
        /\ elapsedCarry \in Nat /\ byteCarry \in Nat
    BY <1>4 DEF Stop, Reset, TypeOK
  <2>2. /\ ran' + elapsedCarry = (0 * HnsPerMs) + elapsedCarry'
        /\ (MsPerSec * linear') + byteCarry' = (Rate * 0) + byteCarry
    BY <2>1
  <2> QED BY <2>1, <2>2 DEF Accounts
<1> QED BY <1>2, <1>3, <1>4, StepsOfPosition

LEMMA AccountsKeepTime == ASSUME TypeOK, Accounts PROVE PositionKeepsTime
<1> USE StreamAssumption
<1>1. PICK n \in Nat, e \in Nat, b \in Nat :
         /\ ran + e = (n * HnsPerMs) + elapsedCarry
         /\ (MsPerSec * linear) + byteCarry = (Rate * n) + b
         /\ base = (HnsPerMs * b) + (Rate * e)
  BY DEF Accounts
<1>2. ran \in Nat /\ linear \in Nat /\ elapsedCarry \in Nat /\ byteCarry \in Nat
  BY DEF TypeOK
<1>3. (HnsPerMs * ((MsPerSec * linear) + byteCarry)) + (Rate * elapsedCarry)
          = (Rate * ran) + ((HnsPerMs * b) + (Rate * e))
  BY <1>1, <1>2, KeepTimeArithmetic
<1> QED BY <1>1, <1>3 DEF PositionKeepsTime

LEMMA GapNext == ASSUME TypeOK, GapBounded, [Next]_vars PROVE GapBounded'
<1> USE StreamAssumption DEF GapBounded, TypeOK, positionVars, clockVars, histVars
<1>1. CASE UpdatePosition
  BY <1>1, UpdateType DEF UpdatePosition
<1>2. CASE Control
  <2>1. CASE Tick
    BY <2>1 DEF Tick
  <2>2. CASE RunBegin
    BY <2>2 DEF RunBegin
  <2>3. CASE Acquire \/ PauseIdle \/ RunEnd
    BY <2>3 DEF Acquire, PauseIdle, RunEnd
  <2>4. CASE PauseBegin \/ PauseCarry \/ PauseEnd
    BY <2>4 DEF PauseBegin, PauseCarry, PauseEnd
  <2> QED BY <1>2, <2>1, <2>2, <2>3, <2>4 DEF Control
<1>3. CASE Stop
  BY <1>3 DEF Stop
<1>4. CASE TimerExpires
  BY <1>1, <1>4 DEF TimerExpires
<1>5. CASE UNCHANGED vars
  BY <1>5 DEF vars
<1> QED BY <1>1, <1>2, <1>3, <1>4, <1>5 DEF Next, Control, Query, PausePositions

\* The comments at 1309-1313 and 1321-1323 fear that time and bytes are lost in the
\* divisions: none is, whenever and however often the position is asked for.
THEOREM PositionIsTime == NoWrap => (Spec => []PositionKeepsTime)
<1> SUFFICES ASSUME NoWrap PROVE Spec => []PositionKeepsTime
  OBVIOUS
<1>1. Init => GapBounded
  BY StreamAssumption DEF Init, GapBounded
<1>2. TypeOK /\ GapBounded /\ Accounts /\ [Next]_vars => Accounts'
  BY AccountsNext
<1>3. TypeOK /\ GapBounded /\ [Next]_vars => GapBounded'
  BY GapNext
<1>4. TypeOK /\ Accounts => PositionKeepsTime
  BY AccountsKeepTime
<1> QED BY <1>1, <1>2, <1>3, <1>4, TypeCorrect, AccountsInit, PTL DEF Spec

-----------------------------------------------------------------------------
(* Completions                                                             *)

\* Assumption of the last result: an interval is long enough to play a packet, which it
\* is unless its truncation to whole milliseconds (525-529) took something away.
IntervalCoversPacket == Packet * MsPerSec <= Interval * Rate

\* The time the DPC has accounted for, in completions and in what is under way.
DpcAccounts == (counter * (Interval * HnsPerMs)) + dpcCarry + sinceDpc

\* From a fresh start, the DPC never accounts for more time than has passed in RUN; and
\* once the position is up to date in PAUSE, for none the position has not counted.
DpcFollowsClock ==
    ~stale =>
        /\ DpcAccounts <= ran + sinceDma
        /\ (state # RUN /\ phase # "run") \/ phase = "paused" => DpcAccounts <= ran

\* The arithmetic of a completion: c intervals are over within n milliseconds, hence c
\* packets are within l bytes.
LEMMA CompletedArePlayed ==
    ASSUME NEW H \in Nat \ {0}, NEW M \in Nat \ {0}, NEW R \in Nat, NEW P \in Nat,
           NEW I \in Nat, NEW c \in Nat, NEW r \in Nat, NEW e \in Nat, NEW n \in Nat,
           NEW t \in 0..H-1, NEW l \in Nat, NEW f \in 0..M-1, NEW b \in Nat,
           r + e = (n * H) + t, (M * l) + f = (R * n) + b,
           c * (I * H) <= r, P * M <= I * R
    PROVE  c * P <= l
<1>1. PICK k \in Nat : k = c * I
  BY TimesType
<1>2. k <= n
  <2>1. SUFFICES ASSUME n + 1 <= k PROVE FALSE
    BY <1>1
  <2>2. H * (n + 1) <= H * k
    BY <2>1, TimesMonotone
  <2>3. PICK x \in Nat, y \in Nat : x = n * H /\ y = H * k
    BY TimesType
  <2>4. H * (n + 1) = x + H
    BY <2>3
  <2>5. y <= r
    <3>1. c * (I * H) = H * k
      BY <1>1
    <3> QED BY <2>3, <3>1
  <2>6. r + e = x + t
    BY <2>3
  <2> QED BY ONLY <2>2, <2>3, <2>4, <2>5, <2>6, x \in Nat, y \in Nat, r \in Nat, e \in Nat,
                  H \in Nat, t \in 0..H-1
<1>3. R * k <= R * n
  BY <1>2, TimesMonotone
<1>4. PICK q \in Nat : q = c * P
  BY TimesType
<1>5. M * q <= R * k
  <2>1. PICK u \in Nat, v \in Nat : u = P * M /\ v = I * R
    BY TimesType
  <2>2. c * u <= c * v
    BY <2>1, TimesMonotone
  <2>3. c * u = M * q /\ c * v = R * k
    BY <1>1, <1>4, <2>1
  <2> QED BY <2>2, <2>3
<1>6. q <= l
  <2>1. SUFFICES ASSUME l + 1 <= q PROVE FALSE
    BY <1>4
  <2>2. M * (l + 1) <= M * q
    BY <2>1, TimesMonotone
  <2>3. PICK x \in Nat, y \in Nat, u \in Nat, v \in Nat :
           x = M * l /\ y = M * q /\ u = R * n /\ v = R * k
    BY TimesType
  <2>4. M * (l + 1) = x + M
    BY <2>3
  <2>5. x + f = u + b /\ v <= u /\ y <= v
    BY <1>3, <1>5, <2>3
  <2> QED BY ONLY <2>2, <2>3, <2>4, <2>5, x \in Nat, y \in Nat, u \in Nat, v \in Nat,
                  b \in Nat, M \in Nat, f \in 0..M-1
<1> QED BY <1>4, <1>6

\* The carry moves time between its two accounts; a completion books an interval.
LEMMA DpcNext ==
    ASSUME TypeOK, Phases, DpcFollowsClock, [Next]_vars
    PROVE  DpcFollowsClock'
<1> USE StreamAssumption, PacketAndInterval
    DEF DpcFollowsClock, STOP, ACQUIRE, PAUSE, RUN, positionVars, clockVars, histVars
<1>1. PICK j \in Nat : j = Interval * HnsPerMs
  BY TimesType
<1>2. DpcAccounts = (counter * j) + dpcCarry + sinceDpc
  BY <1>1 DEF DpcAccounts
<1>3. DpcAccounts' = (counter' * j) + dpcCarry' + sinceDpc'
  BY <1>1 DEF DpcAccounts, Interval
<1>4. PICK p \in Nat : p = counter * j
  BY TimesType DEF TypeOK
<1>5. /\ sinceDma \in Nat /\ sinceDpc \in Nat /\ dpcCarry \in Nat /\ ran \in Nat
      /\ counter \in Nat /\ DpcAccounts = p + dpcCarry + sinceDpc
  BY <1>2, <1>4 DEF TypeOK
<1>6. CASE Tick
  <2>1. /\ sinceDma' = sinceDma + 1 /\ sinceDpc' \in {sinceDpc, sinceDpc + 1}
        /\ UNCHANGED <<state, phase, dpcCarry, counter, ran, stale>>
        /\ state = RUN \/ phase = "run"
    BY <1>6 DEF Tick
  <2>2. phase = "paused" => sinceDpc' = sinceDpc
    BY <1>6 DEF Tick, Phases
  <2>3. PICK z \in Nat : /\ z = sinceDpc \/ z = sinceDpc + 1
                         /\ phase = "paused" => z = sinceDpc
                         /\ DpcAccounts' = p + dpcCarry + z
    <3>1. sinceDpc' = sinceDpc \/ sinceDpc' = sinceDpc + 1
      BY <2>1
    <3>2. sinceDpc' \in Nat
      BY <1>5, <3>1
    <3>3. DpcAccounts' = p + dpcCarry + sinceDpc'
      BY <1>3, <1>4, <2>1
    <3> QED BY <2>2, <3>1, <3>2, <3>3
  <2>4. DpcAccounts' <= DpcAccounts + 1 /\ (phase = "paused" => DpcAccounts' = DpcAccounts)
    BY ONLY <1>5, <2>3, p \in Nat, z \in Nat
  <2>5. DpcAccounts \in Nat /\ DpcAccounts' \in Nat
    BY ONLY <1>5, <2>3, p \in Nat, z \in Nat
  <2> QED BY <1>5, <2>1, <2>4, <2>5
<1>7. CASE UpdatePosition /\ (Query \/ PausePositions)
  <2>1. ran' = ran + sinceDma /\ sinceDma' = 0
    BY <1>7 DEF UpdatePosition
  <2>2. /\ UNCHANGED <<state, sinceDpc, dpcCarry, counter, stale>>
        /\ phase' \in {phase, "paused"}
    BY <1>7 DEF Query, PausePositions
  <2> QED BY <1>3, <1>4, <1>5, <2>1, <2>2 DEF Phases
<1>8. CASE TimerExpires
  <2>1. UNCHANGED <<state, phase, timer, stale>> /\ timer
    BY <1>8 DEF TimerExpires
  <2>2. CASE Millis(DpcTime) >= Interval
    <3>1. /\ dpcCarry' = (sinceDpc + dpcCarry) - j /\ sinceDpc' = 0 /\ counter' = counter + 1
          /\ ran' = ran + sinceDma /\ sinceDma' = 0
      BY <1>1, <1>8, <2>2 DEF TimerExpires, CarriedOver, DpcTime, UpdatePosition
    <3>2. counter' * j = p + j
      BY <1>4, <1>5, <3>1
    <3>3. DpcAccounts' = DpcAccounts
      BY <1>3, <1>5, <3>1, <3>2
    <3> QED BY <1>5, <2>1, <3>1, <3>3 DEF Phases
  <2>3. CASE ~(Millis(DpcTime) >= Interval)
    <3>1. UNCHANGED <<dpcCarry, sinceDpc, sinceDma, counter, ran>>
      BY <1>8, <2>3, Zenon DEF TimerExpires
    <3> QED BY <1>3, <1>4, <1>5, <2>1, <3>1
  <2> QED BY <2>2, <2>3
<1>9. CASE Acquire \/ PauseIdle \/ RunEnd \/ PauseBegin \/ PauseEnd
  <2>1. UNCHANGED <<sinceDma, sinceDpc, dpcCarry, counter, ran, stale>>
    BY <1>9 DEF Acquire, PauseIdle, RunEnd, PauseBegin, PauseEnd
  <2>2. (state' # RUN /\ phase' # "run") \/ phase' = "paused" =>
            (state # RUN /\ phase # "run") \/ phase = "paused"
    <3>1. CASE Acquire \/ PauseIdle
      BY <3>1 DEF Acquire, PauseIdle
    <3>2. CASE RunEnd
      BY <3>2 DEF RunEnd
    <3>3. CASE PauseBegin
      BY <3>3 DEF PauseBegin
    <3>4. CASE PauseEnd
      BY <3>4 DEF PauseEnd
    <3> QED BY <1>9, <3>1, <3>2, <3>3, <3>4
  <2> QED BY <1>3, <1>4, <1>5, <2>1, <2>2
<1>10. CASE RunBegin
  <2>1. /\ state = PAUSE /\ phase = "none" /\ phase' = "run"
        /\ sinceDma' = 0 /\ sinceDpc' = 0
        /\ UNCHANGED <<state, dpcCarry, counter, ran, stale>>
    BY <1>10 DEF RunBegin
  <2> QED BY <1>3, <1>4, <1>5, <2>1
<1>11. CASE PauseCarry
  <2>1. /\ dpcCarry' = sinceDpc + dpcCarry /\ sinceDpc' = 0 /\ phase' = "positions"
        /\ UNCHANGED <<state, sinceDma, counter, ran, stale>> /\ phase = "cancel"
    BY <1>11 DEF PauseCarry, CarriedPause
  <2> QED BY <1>3, <1>4, <1>5, <2>1 DEF Phases
<1>12. CASE Stop
  <2>1. /\ counter' = 0 /\ ran' = 0 /\ state' = STOP /\ phase' = "none"
        /\ UNCHANGED <<sinceDma, sinceDpc, dpcCarry>> /\ state = ACQUIRE /\ phase = "none"
    BY <1>12 DEF Stop, Reset
  <2>2. ~stale' => dpcCarry = 0
    BY <1>12, Zenon DEF Stop
  <2>3. sinceDpc = 0
    BY <2>1 DEF Phases
  <2>4. counter' * j = 0
    BY <2>1
  <2> QED BY <1>3, <1>5, <2>1, <2>2, <2>3, <2>4
<1>13. CASE UNCHANGED vars
  BY <1>3, <1>4, <1>5, <1>13 DEF vars
<1> QED BY <1>6, <1>7, <1>8, <1>9, <1>10, <1>11, <1>12, <1>13
        DEF Next, Query, PausePositions

LEMMA CompletionsNext ==
    ASSUME TypeOK, GapBounded, NoWrap, IntervalCoversPacket, Phases, Accounts,
           DpcFollowsClock, CompletionsFollowData, [Next]_vars
    PROVE  CompletionsFollowData'
<1> USE StreamAssumption, PacketAndInterval
<1>1. SUFFICES ASSUME ~stale' PROVE (counter' * Packet) <= linear'
  BY DEF CompletionsFollowData, Packet
<1>2. counter \in Nat /\ linear \in Nat
  BY DEF TypeOK
<1>3. CASE Stop
  <2>1. counter' = 0 /\ linear' = 0
    BY <1>3 DEF Stop, Reset
  <2> QED BY <2>1
<1>4. CASE ~Stop /\ counter' = counter
  <2>1. stale' = stale
    BY <1>4, Zenon DEF Next, vars, histVars, Tick, Query, TimerExpires, Acquire, PauseIdle,
          RunBegin, RunEnd, PauseBegin, PauseCarry, PausePositions, PauseEnd
  <2>2. PICK q \in Nat : q = counter * Packet
    BY <1>2, TimesType
  <2>3. q <= linear
    BY <1>1, <2>1, <2>2 DEF CompletionsFollowData
  <2>4. linear' = linear \/ linear' = linear + Displacement
    BY <1>4, StepsOfPosition DEF positionVars, UpdatePosition
  <2> QED BY <1>2, <1>4, <2>2, <2>3, <2>4, DisplacementType
<1>5. CASE TimerExpires /\ counter' # counter
  <2>1. Accounts' /\ DpcFollowsClock' /\ TypeOK'
    BY AccountsNext, DpcNext, NextType
  <2>2. UpdatePosition
    BY <1>5, Zenon DEF TimerExpires
  <2>3. sinceDma' = 0
    BY <2>2 DEF UpdatePosition
  <2>4. PICK n \in Nat, e \in Nat, b \in Nat :
           /\ ran' + e = (n * HnsPerMs) + elapsedCarry'
           /\ (MsPerSec * linear') + byteCarry' = (Rate * n) + b
    BY <2>1 DEF Accounts
  <2>5. /\ ran' \in Nat /\ linear' \in Nat /\ counter' \in Nat
        /\ dpcCarry' \in Nat /\ sinceDpc' \in Nat
        /\ elapsedCarry' \in 0..HnsPerMs-1 /\ byteCarry' \in 0..MsPerSec-1
    BY <2>1 DEF TypeOK
  <2>6. counter' * (Interval * HnsPerMs) <= ran'
    <3>1. DpcAccounts' <= ran'
      <4>1. DpcAccounts' <= ran' + sinceDma'
        BY <1>1, <2>1 DEF DpcFollowsClock
      <4> QED BY <2>3, <2>5, <4>1
    <3>2. PICK x \in Nat : x = counter' * (Interval * HnsPerMs)
      BY <2>5, TimesType
    <3>3. DpcAccounts' = x + dpcCarry' + sinceDpc'
      BY <3>2 DEF DpcAccounts, Interval
    <3>4. PICK y \in Nat, z \in Nat, w \in Nat : y = dpcCarry' /\ z = sinceDpc' /\ w = ran'
      BY <2>5
    <3>5. x + y + z <= w
      BY <3>1, <3>3, <3>4
    <3>6. x <= w
      BY ONLY <3>5, x \in Nat, y \in Nat, z \in Nat, w \in Nat
    <3> QED BY <3>2, <3>4, <3>6
  <2>7. PICK c \in Nat, r \in Nat, l \in Nat, t \in 0..HnsPerMs-1, f \in 0..MsPerSec-1 :
           c = counter' /\ r = ran' /\ l = linear' /\ t = elapsedCarry' /\ f = byteCarry'
    BY <2>5
  <2>8. /\ r + e = (n * HnsPerMs) + t /\ (MsPerSec * l) + f = (Rate * n) + b
        /\ c * (Interval * HnsPerMs) <= r /\ Packet * MsPerSec <= Interval * Rate
    BY <2>4, <2>6, <2>7 DEF IntervalCoversPacket
  <2>9. c * Packet <= l
    BY <2>8, CompletedArePlayed
  <2> QED BY <2>7, <2>9
<1>6. counter' = counter \/ Stop \/ TimerExpires
  BY Zenon DEF Next, vars, histVars, Tick, Query, TimerExpires, Acquire, PauseIdle,
     RunBegin, RunEnd, PauseBegin, PauseCarry, PausePositions, PauseEnd
<1> QED BY <1>3, <1>4, <1>5, <1>6

\* The DPC and UpdatePosition divide time separately, and a completion still never counts
\* a packet before its last byte was played: through any queries, pauses and resumptions,
\* as long as STOP left nothing in the carry of the DPC.
THEOREM CompletedPacketsArePlayed ==
    NoWrap /\ IntervalCoversPacket => (Spec => []CompletionsFollowData)
<1> SUFFICES ASSUME NoWrap, IntervalCoversPacket PROVE Spec => []CompletionsFollowData
  OBVIOUS
<1> DEFINE IInv == /\ TypeOK /\ Phases /\ GapBounded /\ Accounts /\ DpcFollowsClock
                   /\ CompletionsFollowData
<1>1. Init => IInv
  <2>1. Init => TypeOK
    BY InitType
  <2>2. Init => GapBounded
    BY StreamAssumption DEF Init, GapBounded
  <2>3. Init => DpcFollowsClock
    <3>1. Interval * HnsPerMs \in Nat
      BY StreamAssumption, PacketAndInterval, TimesType
    <3>2. Init => DpcAccounts = 0
      BY <3>1 DEF Init, DpcAccounts
    <3> QED BY <3>2 DEF Init, DpcFollowsClock
  <2>4. Init => CompletionsFollowData
    BY PacketAndInterval DEF Init, CompletionsFollowData
  <2> QED BY <2>1, <2>2, <2>3, <2>4, PhasesInit, AccountsInit
<1>2. IInv /\ [Next]_vars => IInv'
  BY NextType, PhasesNext, GapNext, AccountsNext, DpcNext, CompletionsNext
<1>3. IInv => CompletionsFollowData
  OBVIOUS
<1> QED BY <1>1, <1>2, <1>3, PTL DEF Spec

\* Every step with the packets is a step of the stream or leaves it alone.
LEMMA PacketStep == ASSUME [PacketNext]_pvars PROVE [Next]_vars
<1>1. CASE (Tick \/ Acquire \/ PauseIdle \/ RunBegin \/ RunEnd \/ PauseCarry \/ PauseEnd) /\ Unchanged
  BY <1>1, Zenon DEF Next
<1>2. CASE Unlocked /\ (Query \/ PausePositions) /\ Unchanged
  BY <1>2, Zenon DEF Next
<1>3. CASE Flush /\ Unchanged
  BY <1>3, Zenon DEF Next, Flush
<1>4. CASE StopPackets
  BY <1>4, Zenon DEF Next, StopPackets
<1>5. CASE NotifyTimer
  BY <1>5, Zenon DEF Next, NotifyTimer
<1>6. CASE SignalEvent
  BY <1>6, Zenon DEF SignalEvent
<1>7. CASE \E packet \in Candidates : SetWritePacket(packet)
  BY <1>7, Zenon DEF SetWritePacket
<1>8. CASE \E endOfStream \in BOOLEAN : CheckPacket(endOfStream)
  BY <1>8, Zenon DEF CheckPacket
<1>9. CASE SetCurrentWritePosition
  BY <1>9, Zenon DEF SetCurrentWritePosition
<1>10. CASE \E e \in Events : RegisterNotificationEvent(e) \/ UnregisterNotificationEvent(e)
  BY <1>10, Zenon DEF RegisterNotificationEvent, UnregisterNotificationEvent
<1>11. CASE UNCHANGED pvars
  BY <1>11, Zenon DEF pvars
<1> QED BY <1>1, <1>2, <1>3, <1>4, <1>5, <1>6, <1>7, <1>8, <1>9, <1>10, <1>11, Zenon DEF PacketNext

\* The client's packets and events never disturb the stream below
\* (minwavertstream.cpp): it implements the stream without them.
THEOREM PacketsImplementStream == PacketSpec => Spec
<1>1. PacketInit => Init
  BY DEF PacketInit
<1>2. [PacketNext]_pvars => [Next]_vars
  BY PacketStep
<1> QED BY <1>1, <1>2, PTL DEF PacketSpec, Spec

-----------------------------------------------------------------------------
(* Type correctness                                                        *)

LEMMA LoDWordType == ASSUME NEW x \in Nat PROVE LoDWord(x) \in 0..NoPacket
  BY StreamAssumption, DivMod DEF LoDWord, NoPacket

LEMMA LoDWordSmall == ASSUME NEW x \in Nat, x <= NoPacket PROVE LoDWord(x) = x
<1>1. x < Word /\ Word \in Nat \ {0}
  BY StreamAssumption DEF NoPacket
<1> QED BY <1>1, ModSmall DEF LoDWord

LEMMA NoPacketType == NoPacket \in Nat
  BY StreamAssumption DEF NoPacket

Requests == [packet : 0..NoPacket, currentPacket : Nat]

CallOK ==
    /\ lastOsWritePacket \in 0..NoPacket /\ isUpdated \in BOOLEAN
    /\ call \in {"idle", "checks", "stores"}
    /\ request \in Requests

ListOK == list \in Seq(Events) /\ walk \in Events \cup {Idle}

LEMMA NoRequestType == NoRequest \in Requests /\ NoPacket \in 0..NoPacket
  BY NoPacketType DEF NoRequest, Requests

LEMMA CallNext == ASSUME TypeOK, CallOK, [PacketNext]_pvars PROVE CallOK'
<1>1. CASE UNCHANGED packetVars
  BY <1>1 DEF CallOK, packetVars
<1>2. CASE StopPackets
  BY <1>2, NoRequestType DEF StopPackets, CallOK
<1>3. CASE NotifyTimer
  <2>1. UNCHANGED <<lastOsWritePacket, call, request>>
    BY <1>3, Zenon DEF NotifyTimer
  <2>2. isUpdated' \in BOOLEAN
    BY <1>3, Zenon DEF NotifyTimer
  <2> QED BY <2>1, <2>2, Zenon DEF CallOK
<1>4. ASSUME NEW packet \in Candidates, SetWritePacket(packet) PROVE CallOK'
  <2>1. counter \in Nat
    BY DEF TypeOK
  <2>2. packet \in 0..NoPacket
    BY <2>1, LoDWordType DEF Candidates
  <2>3. request' \in Requests
    BY <1>4, <2>1, <2>2 DEF SetWritePacket, Requests
  <2> QED BY <1>4, <2>3 DEF SetWritePacket, CallOK
<1>5. ASSUME NEW endOfStream \in BOOLEAN, CheckPacket(endOfStream) PROVE CallOK'
  <2>1. lastOsWritePacket' \in {lastOsWritePacket, request.packet} /\ call' \in {"idle", "stores"}
    BY <1>5 DEF CheckPacket
  <2>2. request.packet \in 0..NoPacket
    BY DEF CallOK, Requests
  <2>3. UNCHANGED isUpdated /\ request' = NoRequest
    BY <1>5 DEF CheckPacket
  <2> QED BY <2>1, <2>2, <2>3, NoRequestType DEF CallOK
<1>6. CASE SetCurrentWritePosition
  BY <1>6, Zenon DEF SetCurrentWritePosition, CallOK
<1> QED
  <2>1. \/ UNCHANGED packetVars \/ StopPackets \/ NotifyTimer
        \/ \E packet \in Candidates : SetWritePacket(packet)
        \/ \E endOfStream \in BOOLEAN : CheckPacket(endOfStream)
        \/ SetCurrentWritePosition
    BY Zenon DEF PacketNext, Unchanged, pvars, SignalEvent, RegisterNotificationEvent,
                 UnregisterNotificationEvent
  <2> QED BY <2>1, <1>1, <1>2, <1>3, <1>4, <1>5, <1>6, Zenon

\* Freeing an entry leaves a list.
LEMMA RemoveAtType ==
    ASSUME NEW S, NEW s \in Seq(S), NEW i \in 1..Len(s) PROVE RemoveAt(s, i) \in Seq(S)
<1>1. Len(s) \in Nat /\ \A j \in 1..Len(s) : s[j] \in S
  BY LenProperties, ElementOfSeq
<1>2. SubSeq(s, 1, i-1) \in Seq(S)
  <2>1. \A j \in 1..(i-1) : s[j] \in S
    BY <1>1
  <2> QED BY <2>1, SubSeqProperties
<1>3. SubSeq(s, i+1, Len(s)) \in Seq(S)
  <2>1. \A j \in (i+1)..Len(s) : s[j] \in S
    BY <1>1
  <2> QED BY <1>1, <2>1, SubSeqProperties
<1> QED BY <1>2, <1>3, ConcatProperties DEF RemoveAt

\* Where the DPC goes from an entry: to another entry of the list, or to its end.
LEMMA WalkNext ==
    ASSUME ListOK, SignalEvent PROVE walk' = Idle \/ \E i \in 1..Len(list) : walk' = list[i]
<1>1. Len(list) \in Nat
  BY LenProperties DEF ListOK
<1> QED BY <1>1 DEF SignalEvent

LEMMA ListNext == ASSUME ListOK, [PacketNext]_pvars PROVE ListOK'
<1>1. CASE UNCHANGED listVars
  BY <1>1 DEF ListOK, listVars
<1>2. CASE NotifyTimer
  <2>1. list' = list /\ walk' \in {Idle} \cup (IF list # <<>> THEN {Head(list)} ELSE {})
    BY <1>2 DEF NotifyTimer
  <2>2. list # <<>> => Head(list) \in Events
    BY HeadTailProperties DEF ListOK
  <2> QED BY <2>1, <2>2 DEF ListOK
<1>3. CASE SignalEvent
  <2>1. list' = list
    BY <1>3 DEF SignalEvent
  <2>2. walk' \in Events \cup {Idle}
    BY <1>3, WalkNext, ElementOfSeq DEF ListOK
  <2> QED BY <2>1, <2>2 DEF ListOK
<1>4. ASSUME NEW e \in Events, RegisterNotificationEvent(e) PROVE ListOK'
  BY <1>4, AppendProperties DEF RegisterNotificationEvent, ListOK
<1>5. ASSUME NEW e \in Events, UnregisterNotificationEvent(e) PROVE ListOK'
  BY <1>5, RemoveAtType DEF UnregisterNotificationEvent, ListOK
<1> QED
  <2>1. \/ UNCHANGED listVars \/ NotifyTimer \/ SignalEvent
        \/ \E e \in Events : RegisterNotificationEvent(e) \/ UnregisterNotificationEvent(e)
    BY Zenon DEF PacketNext, Unchanged, pvars, StopPackets, SetWritePacket, CheckPacket,
                 SetCurrentWritePosition
  <2> QED BY <2>1, <1>1, <1>2, <1>3, <1>4, <1>5, Zenon

\* The variables of SetWritePacket and of the notification list keep their types, those
\* of the stream included (minwavertstream.cpp).
THEOREM PacketTypes == PacketSpec => []PacketTypeOK
<1>1. PacketInit => CallOK /\ ListOK
  BY NoRequestType, EmptySeq DEF PacketInit, CallOK, ListOK
<1>2. PacketSpec => []TypeOK
  BY PacketsImplementStream, TypeCorrect, PTL
<1>3. TypeOK /\ CallOK /\ ListOK => PacketTypeOK
  BY Zenon DEF CallOK, ListOK, PacketTypeOK, Requests
<1> QED BY <1>1, <1>2, <1>3, CallNext, ListNext, PTL DEF PacketSpec

-----------------------------------------------------------------------------
(* The walk over the list                                                  *)

\* The DPC is at an entry only of a stream that runs: PAUSE waits for it.
WalkOK == walk # Idle => phase = "none" /\ state = RUN /\ walk \in ToSet(list)

LEMMA WalkOKNext ==
    ASSUME ClientWaits, ListOK, Phases, WalkOK, [PacketNext]_pvars PROVE WalkOK'
<1> USE DEF STOP, ACQUIRE, PAUSE, RUN
<1>0. DOMAIN list = 1..Len(list) /\ Len(list) \in Nat
  BY LenProperties DEF ListOK
<1>1. CASE UNCHANGED listVars /\ walk = Idle
  BY <1>1 DEF WalkOK, listVars
<1>2. CASE UNCHANGED listVars /\ walk # Idle
  <2>1. UNCHANGED <<phase, state>>
    <3>1. phase = "none" /\ state = RUN
      BY <1>2 DEF WalkOK
    <3>2. ~Unlocked
      BY <1>2 DEF Unlocked
    <3>3. CASE (Tick \/ Acquire \/ PauseIdle \/ RunBegin \/ RunEnd \/ PauseCarry \/ PauseEnd) /\ Unchanged
      BY <3>1, <3>3 DEF Tick, Acquire, PauseIdle, RunBegin, RunEnd, PauseCarry, PauseEnd
    <3>4. CASE UNCHANGED vars
      BY <3>4, Zenon DEF vars
    <3> QED BY <3>2, <3>3, <3>4, <1>2, Zenon DEF PacketNext, Flush, StopPackets, NotifyTimer,
                  SetWritePacket, CheckPacket, SetCurrentWritePosition,
                  SignalEvent, RegisterNotificationEvent, UnregisterNotificationEvent, pvars
  <2> QED BY <1>2, <2>1 DEF WalkOK, listVars
<1>3. CASE NotifyTimer
  <2>1. UNCHANGED <<list, phase, state>> /\ timer
    BY <1>3, Zenon DEF NotifyTimer, TimerExpires
  <2>2. walk' # Idle => state = RUN /\ list # <<>> /\ walk' = Head(list)
    BY <1>3, Zenon DEF NotifyTimer
  <2>3. list # <<>> => Head(list) \in ToSet(list)
    BY <1>0, EmptySeq, HeadTailProperties DEF ListOK, ToSet
  <2>4. state = RUN => phase = "none"
    BY <2>1 DEF Phases
  <2> QED BY <2>1, <2>2, <2>3, <2>4 DEF WalkOK
<1>4. CASE SignalEvent
  <2>1. UNCHANGED <<list, phase, state>> /\ walk # Idle
    BY <1>4, Zenon DEF SignalEvent, vars
  <2>2. walk' # Idle => walk' \in ToSet(list)
    BY <1>4, <1>0, WalkNext DEF ToSet
  <2> QED BY <2>1, <2>2 DEF WalkOK
<1>5. ASSUME NEW e \in Events, RegisterNotificationEvent(e) PROVE WalkOK'
  <2>1. UNCHANGED <<walk, phase, state>> /\ list' = Append(list, e)
    BY <1>5, Zenon DEF RegisterNotificationEvent, vars
  <2>2. Append(list, e) \in Seq(Events) /\ Len(Append(list, e)) = Len(list) + 1
        /\ \A i \in 1..Len(list) : Append(list, e)[i] = list[i]
    BY AppendProperties DEF ListOK
  <2>3. DOMAIN Append(list, e) = 1..(Len(list) + 1)
    BY <2>2, LenProperties
  <2>4. ToSet(list) \subseteq ToSet(Append(list, e))
    BY <2>2, <2>3, <1>0 DEF ToSet
  <2> QED BY <2>1, <2>4 DEF WalkOK
<1>6. ASSUME NEW e \in Events, UnregisterNotificationEvent(e) PROVE WalkOK'
  <2>1. UNCHANGED <<walk, phase, state>> /\ state # RUN
    BY <1>6, Zenon DEF UnregisterNotificationEvent, vars
  <2> QED BY <2>1 DEF WalkOK
<1> QED
  <2>1. \/ UNCHANGED listVars \/ NotifyTimer \/ SignalEvent
        \/ \E e \in Events : RegisterNotificationEvent(e) \/ UnregisterNotificationEvent(e)
    BY Zenon DEF PacketNext, Unchanged, pvars, StopPackets, SetWritePacket, CheckPacket,
                 SetCurrentWritePosition
  <2> QED BY <2>1, <1>1, <1>2, <1>3, <1>4, <1>5, <1>6, Zenon

\* For every list and every order of registrations, DPCs and states: UnregisterNotificationEvent
\* (614-641) frees no entry the DPC is at if the client waits for the end of PAUSE.
THEOREM DpcWalksTheList == ClientWaits => (PacketSpec => []WalksTheList)
<1> SUFFICES ASSUME ClientWaits PROVE PacketSpec => []WalksTheList
  OBVIOUS
<1>1. PacketInit => ListOK /\ WalkOK
  BY EmptySeq DEF PacketInit, ListOK, WalkOK
<1>2. PacketSpec => []Phases
  <2>1. Spec => []Phases
    BY TypeCorrect, PhasesInit, PhasesNext, PTL DEF Spec
  <2> QED BY <2>1, PacketsImplementStream, PTL
<1>3. ListOK /\ Phases /\ WalkOK /\ [PacketNext]_pvars => WalkOK'
  BY WalkOKNext
<1>4. WalkOK => WalksTheList
  BY DEF WalkOK, WalksTheList
<1> QED BY <1>1, <1>2, <1>3, <1>4, ListNext, PTL DEF PacketSpec

-----------------------------------------------------------------------------
(* Underruns                                                               *)

\* SetWritePacket works with a counter that is not ahead; so the last packet written is
\* at most the next one, and no more than the current one once a completion has taken
\* the mark of its SetCurrentWritePosition.
PacketsOK ==
    /\ call = "checks" => request.currentPacket <= counter
    /\ counter < NoPacket /\ lastOsWritePacket # NoPacket =>
         /\ lastOsWritePacket <= counter + 1
         /\ ~isUpdated /\ call # "stores" => lastOsWritePacket <= counter

\* The stream's counter: a completion or a STOP apart, it stands.
LEMMA CounterSteps ==
    ASSUME [PacketNext]_pvars
    PROVE  \/ UNCHANGED counter
           \/ NotifyTimer /\ counter' = counter + 1
           \/ StopPackets /\ counter' = 0
<1>1. CASE NotifyTimer
  <2>1. counter' \in {counter, counter + 1}
    BY <1>1 DEF NotifyTimer, TimerExpires
  <2> QED BY <1>1, <2>1
<1>2. CASE StopPackets
  BY <1>2 DEF StopPackets, Stop, Reset
<1>3. CASE (Tick \/ Acquire \/ PauseIdle \/ RunBegin \/ RunEnd \/ PauseCarry \/ PauseEnd) /\ Unchanged
  BY <1>3, Zenon DEF Tick, Acquire, PauseIdle, RunBegin, RunEnd, PauseCarry, PauseEnd
<1>4. CASE Unlocked /\ (Query \/ PausePositions) /\ Unchanged
  BY <1>4, Zenon DEF Query, PausePositions
<1>5. CASE Flush /\ Unchanged
  BY <1>5, Zenon DEF Flush, PauseBegin
<1>6. CASE UNCHANGED vars
  BY <1>6, Zenon DEF vars
<1> QED
  BY <1>1, <1>2, <1>3, <1>4, <1>5, <1>6, Zenon
     DEF PacketNext, SignalEvent, SetWritePacket, CheckPacket, SetCurrentWritePosition,
         RegisterNotificationEvent, UnregisterNotificationEvent, pvars

\* Of a counter that has not wrapped, SetWritePacket takes at most the next packet.
LEMMA ExpectedIsNext ==
    ASSUME NEW current \in Nat, NEW c \in Nat, current <= c, c < NoPacket
    PROVE  LoDWord(current + 1) <= c + 1 /\ LoDWord(current) <= c + 1
<1>1. current + 1 \in Nat /\ current + 1 <= NoPacket /\ current <= NoPacket
  BY NoPacketType
<1>2. LoDWord(current + 1) = current + 1 /\ LoDWord(current) = current
  BY <1>1, LoDWordSmall
<1> QED BY <1>2

LEMMA PacketsNext ==
    ASSUME ClientWaits, TypeOK, CallOK, PacketsOK, [PacketNext]_pvars PROVE PacketsOK'
<1> USE NoPacketType
<1>0. counter \in Nat /\ lastOsWritePacket \in Nat /\ NoPacket' = NoPacket
      /\ request.currentPacket \in Nat
  BY DEF TypeOK, CallOK, NoPacket, Requests
<1>1. CASE UNCHANGED <<packetVars, counter>>
  BY <1>1 DEF PacketsOK, packetVars
<1>2. CASE StopPackets
  <2>1. call' = "idle" /\ lastOsWritePacket' = NoPacket
    BY <1>2, Zenon DEF StopPackets
  <2> QED BY <2>1, <1>0 DEF PacketsOK
<1>3. CASE NotifyTimer
  <2>1. UNCHANGED <<lastOsWritePacket, call, request>>
    BY <1>3, Zenon DEF NotifyTimer
  <2>2. CASE counter' = counter /\ (isUpdated => isUpdated')
    BY <1>0, <2>1, <2>2 DEF PacketsOK
  <2>3. CASE counter' = counter + 1
    <3>1. call' = "checks" => request'.currentPacket <= counter'
      BY <1>0, <2>1, <2>3 DEF PacketsOK
    <3>2. counter' < NoPacket /\ lastOsWritePacket' # NoPacket => lastOsWritePacket' <= counter'
      BY <1>0, <2>1, <2>3 DEF PacketsOK
    <3>3. lastOsWritePacket' \in Nat /\ counter' \in Nat
      BY <1>0, <2>1, <2>3
    <3>4. lastOsWritePacket' <= counter' => lastOsWritePacket' <= counter' + 1
      <4>1. ASSUME NEW a \in Nat, NEW b \in Nat, a <= b PROVE a <= b + 1
        BY <4>1
      <4> QED BY ONLY <3>3, <4>1, Zenon
    <3> QED BY <1>0, <3>1, <3>2, <3>4, Zenon DEF PacketsOK
  <2>4. CASE ~Completed
    <3>1. counter' = counter
      BY <1>3, <2>4 DEF NotifyTimer, TimerExpires, Completed
    <3>2. isUpdated => isUpdated'
      BY <1>3, <2>4, Zenon DEF NotifyTimer
    <3> QED BY <2>2, <3>1, <3>2
  <2>5. CASE Completed
    BY <1>3, <2>3, <2>5 DEF NotifyTimer, TimerExpires, Completed
  <2> QED BY <2>4, <2>5
<1>4. ASSUME NEW packet \in Candidates, SetWritePacket(packet) PROVE PacketsOK'
  <2>1. UNCHANGED <<lastOsWritePacket, isUpdated, counter>> /\ call = "idle" /\ call' = "checks"
    BY <1>4, Zenon DEF SetWritePacket, vars
  <2>2. request'.currentPacket = counter
    BY <1>4 DEF SetWritePacket
  <2> QED BY <1>0, <2>1, <2>2 DEF PacketsOK
<1>5. ASSUME NEW endOfStream \in BOOLEAN, CheckPacket(endOfStream) PROVE PacketsOK'
  <2>1. UNCHANGED <<isUpdated, counter>> /\ call = "checks"
    BY <1>5, Zenon DEF CheckPacket, vars
  <2>2. CASE lastOsWritePacket' = ExpectedPacket /\ call' = "stores"
    <3>1. counter < NoPacket => lastOsWritePacket' <= counter + 1
      BY <1>0, <2>1, <2>2, ExpectedIsNext DEF ExpectedPacket, PacketsOK
    <3> QED BY <1>0, <2>1, <2>2, <3>1 DEF PacketsOK
  <2>3. CASE UNCHANGED lastOsWritePacket /\ call' = "idle"
    BY <1>0, <2>1, <2>3 DEF PacketsOK
  <2> QED BY <1>5, <2>2, <2>3 DEF CheckPacket
<1>6. CASE SetCurrentWritePosition
  <2>1. UNCHANGED <<lastOsWritePacket, counter>> /\ isUpdated' /\ call' = "idle"
    BY <1>6, Zenon DEF SetCurrentWritePosition, vars
  <2> QED BY <1>0, <2>1 DEF PacketsOK
<1> QED
  <2>1. \/ UNCHANGED packetVars \/ StopPackets \/ NotifyTimer
        \/ \E packet \in Candidates : SetWritePacket(packet)
        \/ \E endOfStream \in BOOLEAN : CheckPacket(endOfStream)
        \/ SetCurrentWritePosition
    BY Zenon DEF PacketNext, Unchanged, pvars, SignalEvent, RegisterNotificationEvent,
                 UnregisterNotificationEvent
  <2> QED BY <2>1, <1>1, <1>2, <1>3, <1>4, <1>5, <1>6, CounterSteps, Zenon DEF packetVars

LEMMA UnderrunStep ==
    ASSUME TypeOK, CallOK, PacketsOK, counter' = counter + 1, Underrun
    PROVE  \/ lastOsWritePacket # LoDWord(counter')
           \/ call = "stores"
           \/ counter' >= NoPacket
<1> SUFFICES ASSUME call # "stores", counter' < NoPacket
             PROVE  lastOsWritePacket # LoDWord(counter')
  BY NoPacketType DEF TypeOK
<1>1. counter \in Nat /\ lastOsWritePacket \in Nat
  BY DEF TypeOK, CallOK
<1>2. LoDWord(counter') = counter + 1
  BY <1>1, LoDWordSmall, NoPacketType
<1>3. ~isUpdated
  BY Zenon DEF Underrun
<1> QED BY <1>1, <1>2, <1>3, NoPacketType DEF PacketsOK

\* With any number and size of packets, and a SetWritePacket that any completion, pause or
\* resumption may overtake, an underrun is reported (1610-1622) only if the packet that
\* starts playing was not written.
THEOREM UnderrunsAreReal == ClientWaits => (PacketSpec => NoFalseUnderrun)
<1> SUFFICES ASSUME ClientWaits PROVE PacketSpec => NoFalseUnderrun
  OBVIOUS
<1>1. PacketInit => CallOK /\ PacketsOK
  BY NoRequestType DEF PacketInit, CallOK, PacketsOK
<1>2. PacketSpec => []TypeOK
  BY PacketsImplementStream, TypeCorrect, PTL
<1>3. TypeOK /\ CallOK /\ PacketsOK /\ [PacketNext]_pvars => PacketsOK'
  BY PacketsNext
<1>4. TypeOK /\ CallOK /\ PacketsOK /\ [PacketNext]_pvars =>
        [counter' = counter + 1 /\ Underrun =>
             \/ lastOsWritePacket # LoDWord(counter')
             \/ call = "stores"
             \/ counter' >= NoPacket]_pvars
  BY UnderrunStep
<1> QED BY <1>1, <1>2, <1>3, <1>4, CallNext, PTL DEF PacketSpec, NoFalseUnderrun
=============================================================================
