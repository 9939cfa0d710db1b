----------------------- MODULE WasapiPassthrough_proofs -----------------------
(***************************************************************************)
(* The render side's promises about the ring's fill level, for every packet*)
(* size, buffer size, safety margin, ring and trim period.                 *)
(***************************************************************************)
EXTENDS WasapiPassthrough, TLAPS

-----------------------------------------------------------------------------
(* The strengthening                                                       *)

\* While the gate is open the ring holds what of the cushion is still owed.
LevelCoversOwed ==
    /\ owed <= Desired
    /\ ~refilling => owed <= fill

ReadIsBacked ==
    phase = "read" => ~refilling /\ slot < Bursts /\ Packet <= fill

\* What the rest of the buffer of a cycle that trimmed will consume is there.
TrimLeavesCycle ==
    trimmed =>
        /\ phase = "get" => Desired <= fill
        /\ phase \in {"fill", "read"} =>
              /\ ((Bursts - slot) * Packet) + SafeFrames <= fill
              /\ slot # 0 => ~refilling

IInv == TypeOK /\ LevelCoversOwed /\ ReadIsBacked /\ TrimLeavesCycle

LEMMA RequiredType == Required \in Nat /\ Desired \in Nat /\ Packet <= Required
<1>1. \A b \in Nat \ {0}, p \in Nat : b * p \in Nat /\ p <= b * p
  OBVIOUS
<1> QED BY <1>1, ParametersAssumption DEF Required, Desired

LEMMA PrimeIsDesired == Gate!prime = Desired
  BY RequiredType, ParametersAssumption DEF Gate!prime, Desired

LEMMA OneSlotLess ==
    \A n \in Int : (n - 1) * Packet = (n * Packet) - Packet
  BY ParametersAssumption

\* A positive number of slots needs at least one packet.
LEMMA SlotsNeedPacket ==
    \A n \in Nat \ {0} : n * Packet \in Nat /\ Packet <= n * Packet
  BY ParametersAssumption

LEMMA GateServed ==
    ASSUME refilling \in BOOLEAN, Gate!Serves(fill), Gate!Take(fill), TypeOK
    PROVE  /\ refilling' = FALSE
           /\ refilling => Desired <= fill
           /\ ~refilling => Packet <= fill
           /\ Packet <= fill
           /\ unlogged' = unlogged
<1> USE ParametersAssumption, RequiredType
<1>1. Packet # 0 /\ fill \in Nat
  BY DEF TypeOK
<1>2. refilling' = ~Gate!Serves(fill)
  BY <1>1, Zenon DEF Gate!Take
<1>3. refilling' = FALSE
  BY <1>2, Zenon
<1>4. CASE refilling
  BY <1>1, <1>3, <1>4, PrimeIsDesired
     DEF Gate!Serves, Gate!Take, Gate!Starves, Desired
<1>5. CASE ~refilling
  BY <1>1, <1>3, <1>5 DEF Gate!Serves, Gate!Take, Gate!Starves
<1> QED BY <1>4, <1>5

LEMMA GateRefused ==
    ASSUME ~Gate!Serves(fill), Gate!Take(fill), TypeOK
    PROVE  /\ refilling' = TRUE
           /\ refilling => ~(Desired <= fill)
           /\ ~refilling => ~(Packet <= fill)
           /\ unlogged' \in Nat
<1> USE ParametersAssumption, RequiredType
<1>1. Packet # 0 /\ fill \in Nat /\ unlogged \in Nat
  BY DEF TypeOK
<1>2. refilling' = ~Gate!Serves(fill)
  BY <1>1, Zenon DEF Gate!Take
<1>3. refilling' = TRUE
  BY <1>2, Zenon
<1>4. unlogged' \in Nat
  BY <1>1 DEF Gate!Take
<1>5. CASE refilling
  BY <1>1, <1>3, <1>4, <1>5, PrimeIsDesired DEF Gate!Serves
<1>6. CASE ~refilling
  BY <1>1, <1>3, <1>4, <1>6 DEF Gate!Serves
<1> QED BY <1>5, <1>6

LEMMA InitIInv == Init => IInv
<1> USE ParametersAssumption, RequiredType DEF Init, Gate!Reset
<1>1. Init => TypeOK
  <2>1. Init => /\ running \in BOOLEAN /\ stopEvent \in BOOLEAN /\ dataEvent \in BOOLEAN
                /\ starting \in BOOLEAN /\ joining \in BOOLEAN
                /\ refilling \in BOOLEAN /\ trimmed \in BOOLEAN
    BY Zenon
  <2>2. Init => /\ fill \in 0..RingFrames /\ cycle \in 0..TrimPeriod-1
                /\ minAvail \in 0..NoMin /\ slot \in 0..Bursts
                /\ unlogged \in Nat /\ owed \in Nat
    BY DEF NoMin
  <2> QED BY <2>1, <2>2 DEF TypeOK
<1>2. Init => LevelCoversOwed /\ ReadIsBacked /\ TrimLeavesCycle
  BY DEF LevelCoversOwed, ReadIsBacked, TrimLeavesCycle
<1> QED BY <1>1, <1>2 DEF IInv

\* The steps that touch neither the level, the gate nor the slot.
Control == \/ ClientStart \/ StopBegin \/ StopEnd \/ DeviceEvent \/ LoopTest
           \/ WakeForData \/ WakeForStop \/ WaitTimesOut

LEMMA ControlIInv == ASSUME IInv, Control PROVE IInv'
<1> USE DEF Control, ClientStart, StopBegin, StopEnd, DeviceEvent, LoopTest,
            WakeForData, WakeForStop, WaitTimesOut, ctlVars, gateVars, histVars
<1>1. TypeOK'
  <2>1. CASE ClientStart \/ StopBegin \/ StopEnd
    BY <2>1 DEF IInv, TypeOK
  <2>2. CASE DeviceEvent
    BY <2>2 DEF IInv, TypeOK
  <2>4. CASE LoopTest
    <3>1. phase' = "wait" \/ phase' = "done"
      BY <2>4, Zenon
    <3> QED BY <2>4, <3>1 DEF IInv, TypeOK
  <2>3. CASE WakeForData \/ WakeForStop \/ WaitTimesOut
    BY <2>3 DEF IInv, TypeOK
  <2> QED BY <2>1, <2>2, <2>3, <2>4
<1>2. LevelCoversOwed'
  BY DEF IInv, LevelCoversOwed
<1>3. ReadIsBacked'
  BY DEF IInv, ReadIsBacked
<1>4. TrimLeavesCycle'
  BY DEF IInv, TrimLeavesCycle
<1> QED BY <1>1, <1>2, <1>3, <1>4 DEF IInv

LEMMA StartIInv == ASSUME IInv, Start PROVE IInv'
<1> USE ParametersAssumption DEF Start, Gate!Rearm, ctlVars
<1>1. TypeOK'
  <2>1. /\ running' \in BOOLEAN /\ stopEvent' \in BOOLEAN /\ starting' \in BOOLEAN
        /\ refilling' \in BOOLEAN /\ trimmed' \in BOOLEAN
    BY Zenon
  <2>2. /\ cycle' \in 0..TrimPeriod-1 /\ minAvail' \in 0..NoMin /\ slot' \in 0..Bursts
        /\ phase' \in {"fill", "start"}
    BY DEF IInv, TypeOK, NoMin
  <2> QED BY <2>1, <2>2 DEF IInv, TypeOK
<1>2. LevelCoversOwed' /\ ReadIsBacked' /\ TrimLeavesCycle'
  BY DEF IInv, LevelCoversOwed, ReadIsBacked, TrimLeavesCycle,
         Desired, Required
<1> QED BY <1>1, <1>2 DEF IInv

LEMMA DriftIInv == ASSUME IInv, Drift PROVE IInv'
<1> USE ParametersAssumption, RequiredType
<1>0. /\ fill \in 0..RingFrames /\ minAvail \in 0..NoMin /\ cycle \in 0..TrimPeriod-1
      /\ phase' = "get" /\ slot' = slot /\ refilling' = refilling
      /\ owed' = owed
  BY DEF IInv, TypeOK, Drift, ctlVars
<1>a. PICK least \in 0..RingFrames : least = Smaller(fill, minAvail) /\ least <= fill
  BY <1>0 DEF Smaller, NoMin
<1>b. PICK excess \in Nat :
        /\ excess = IF cycle = 0 THEN Trim(least) ELSE 0
        /\ excess = 0 \/ (Desired < least /\ excess = least - Desired)
  <2>1. /\ Trim(least) \in Nat
        /\ Trim(least) = 0 \/ (Desired < least /\ Trim(least) = least - Desired)
    BY DEF Trim
  <2> QED BY <2>1
<1>c. fill' = fill - Smaller(excess, fill) /\ trimmed' = (excess # 0)
  BY <1>a, <1>b DEF Drift
<1>1. /\ fill' \in 0..RingFrames
      /\ fill' = fill \/ (Desired < fill /\ Desired <= fill')
      /\ trimmed' = TRUE => Desired <= fill'
  <2>1. CASE excess = 0
    <3>1. fill' = fill
      BY <1>0, <1>c, <2>1 DEF Smaller
    <3>2. trimmed' # TRUE
      BY <1>c, <2>1, Zenon
    <3> QED BY <3>1, <3>2, <1>0
  <2>2. CASE excess # 0
    BY <1>0, <1>a, <1>b, <1>c, <2>2 DEF Smaller
  <2> QED BY <2>1, <2>2
<1>2. cycle' \in 0..TrimPeriod-1
  <2>1. cycle' = (cycle + 1) % TrimPeriod
    BY DEF Drift
  <2>2. cycle + 1 \in Nat
    BY <1>0
  <2>3. \A a \in Nat, b \in Nat \ {0} : a % b \in 0..b-1
    BY SMT
  <2> QED BY <2>1, <2>2, <2>3
<1>3. minAvail' \in 0..NoMin /\ unlogged' \in Nat /\ trimmed' \in BOOLEAN
  <2>1. minAvail' \in 0..NoMin /\ unlogged' \in Nat
    BY <1>0 DEF Drift, Smaller, NoMin, IInv, TypeOK
  <2>2. trimmed' \in BOOLEAN
    BY <1>c, Zenon
  <2> QED BY <2>1, <2>2
<1>4. TypeOK'
  BY <1>0, <1>1, <1>2, <1>3 DEF IInv, TypeOK, Drift, ctlVars
<1>5. LevelCoversOwed'
  BY <1>0, <1>1 DEF IInv, LevelCoversOwed, TypeOK
<1>6. ReadIsBacked' /\ TrimLeavesCycle'
  BY <1>0, <1>1, <1>3
     DEF IInv, ReadIsBacked, TrimLeavesCycle
<1> QED BY <1>4, <1>5, <1>6 DEF IInv

LEMMA GetBufferIInv == ASSUME IInv, GetBuffer PROVE IInv'
  BY ParametersAssumption, RequiredType
     DEF GetBuffer, IInv, TypeOK, LevelCoversOwed, ReadIsBacked, TrimLeavesCycle, ctlVars, gateVars, histVars, Desired, Required

LEMMA TakePacketIInv == ASSUME IInv, TakePacket PROVE IInv'
<1> USE ParametersAssumption, RequiredType
<1>1. /\ refilling' = FALSE /\ unlogged' = unlogged /\ Packet <= fill
      /\ refilling => Desired <= fill
  BY GateServed DEF TakePacket, IInv, TypeOK
<1>2. owed' \in Nat /\ owed' <= Desired /\ owed' <= fill
  BY <1>1, PrimeIsDesired DEF TakePacket, IInv, TypeOK, LevelCoversOwed
<1>3. TypeOK'
  BY <1>1, <1>2 DEF TakePacket, IInv, TypeOK, ctlVars
<1>4. LevelCoversOwed'
  BY <1>2 DEF TakePacket, LevelCoversOwed, Desired, Required
<1>5. ReadIsBacked'
  BY <1>1 DEF TakePacket, ReadIsBacked
<1>6. TrimLeavesCycle'
  BY <1>1 DEF TakePacket, IInv, TrimLeavesCycle
<1> QED BY <1>3, <1>4, <1>5, <1>6 DEF IInv

LEMMA EncodeAudioIInv == ASSUME IInv, EncodeAudio PROVE IInv'
<1> USE ParametersAssumption, RequiredType
<1>0. /\ phase = "read" /\ ~refilling /\ refilling' = refilling
      /\ slot \in 0..Bursts /\ slot < Bursts /\ slot' = slot + 1
      /\ fill \in 0..RingFrames /\ Packet <= fill /\ fill' = fill - Packet
      /\ owed \in Nat /\ owed <= fill /\ owed <= Desired
      /\ owed' = owed - Smaller(Packet, owed)
      /\ trimmed' = trimmed /\ phase' = "fill"
  BY DEF EncodeAudio, IInv, TypeOK, ReadIsBacked, LevelCoversOwed, Smaller,
         ctlVars, gateVars
<1>1. TypeOK'
  BY <1>0 DEF EncodeAudio, IInv, TypeOK, Smaller, ctlVars, gateVars
<1>2. LevelCoversOwed'
  BY <1>0 DEF LevelCoversOwed, Smaller, Desired, Required
<1>3. TrimLeavesCycle'
  <2>1. SUFFICES ASSUME trimmed
                 PROVE  ((Bursts - (slot + 1)) * Packet) + SafeFrames <= fill - Packet
    BY <1>0 DEF TrimLeavesCycle
  <2>2. PICK n \in Int : n = Bursts - slot /\ n - 1 = Bursts - (slot + 1)
    BY <1>0
  <2>3. PICK x \in Int : x = n * Packet
    BY SMT
  <2>4. (n - 1) * Packet = x - Packet
    BY <2>3, OneSlotLess
  <2>5. x + SafeFrames <= fill
    BY <1>0, <2>1, <2>2, <2>3 DEF IInv, TrimLeavesCycle
  <2>6. (x - Packet) + SafeFrames <= fill - Packet
    BY <2>5, <1>0
  <2> QED BY <2>2, <2>4, <2>6
<1>4. ReadIsBacked'
  BY DEF EncodeAudio, ReadIsBacked
<1> QED BY <1>1, <1>2, <1>3, <1>4 DEF IInv

\* A cycle that trimmed has audio for each of its slots.
LEMMA SilenceMeansNoTrim == ASSUME IInv, EncodeSilence PROVE ~trimmed
<1> USE ParametersAssumption, RequiredType
<1>1. SUFFICES ASSUME trimmed PROVE FALSE
  OBVIOUS
<1>2. /\ refilling => ~(Desired <= fill)
      /\ ~refilling => ~(Packet <= fill)
  BY GateRefused DEF EncodeSilence, IInv
<1>3. /\ slot \in 0..Bursts /\ slot < Bursts /\ fill \in Nat
      /\ ((Bursts - slot) * Packet) + SafeFrames <= fill
      /\ slot # 0 => ~refilling
  BY <1>1 DEF IInv, TypeOK, TrimLeavesCycle, EncodeSilence
<1>4. CASE refilling
  BY <1>2, <1>3, <1>4 DEF Desired, Required
<1>5. CASE ~refilling
  <2>1. PICK n \in Nat \ {0} : n = Bursts - slot
    BY <1>3
  <2>2. PICK x \in Nat : x = n * Packet /\ Packet <= x
    BY SlotsNeedPacket
  <2>3. x + SafeFrames <= fill
    BY <1>3, <2>1, <2>2
  <2> QED BY <2>2, <2>3, <1>2, <1>3, <1>5
<1> QED BY <1>4, <1>5

LEMMA EncodeSilenceIInv == ASSUME IInv, EncodeSilence PROVE IInv'
<1> USE ParametersAssumption, RequiredType
<1>1. refilling' = TRUE /\ unlogged' \in Nat
  BY GateRefused DEF EncodeSilence, IInv
<1>2. trimmed' = FALSE
  BY SilenceMeansNoTrim DEF EncodeSilence, IInv, TypeOK
<1>3. TypeOK'
  BY <1>1, <1>2 DEF EncodeSilence, IInv, TypeOK, ctlVars
<1>4. LevelCoversOwed' /\ TrimLeavesCycle'
  BY <1>1, <1>2 DEF EncodeSilence, IInv, LevelCoversOwed, TrimLeavesCycle,
                    Desired, Required
<1>5. ReadIsBacked'
  BY DEF EncodeSilence, ReadIsBacked
<1> QED BY <1>3, <1>4, <1>5 DEF IInv

LEMMA ReleaseBufferIInv == ASSUME IInv, ReleaseBuffer PROVE IInv'
<1> USE ParametersAssumption DEF ReleaseBuffer, ctlVars, gateVars
<1>1. TypeOK'
  <2>1. trimmed' \in BOOLEAN
    BY Zenon
  <2>2. slot' \in 0..Bursts /\ phase' \in {"start", "test"}
    BY DEF IInv, TypeOK
  <2> QED BY <2>1, <2>2 DEF IInv, TypeOK
<1>2. LevelCoversOwed' /\ ReadIsBacked' /\ TrimLeavesCycle'
  BY DEF IInv, LevelCoversOwed, ReadIsBacked, TrimLeavesCycle,
         Desired, Required
<1> QED BY <1>1, <1>2 DEF IInv

LEMMA CaptureIInv == ASSUME IInv, NEW n \in Chunks, Capture(n) PROVE IInv'
<1> USE ParametersAssumption, RequiredType
<1>1. /\ fill \in 0..RingFrames /\ fill' \in 0..RingFrames /\ fill <= fill'
      /\ slot \in 0..Bursts
  BY DEF IInv, TypeOK, Capture, Smaller
<1>2. TypeOK'
  BY <1>1 DEF Capture, IInv, TypeOK, ctlVars, gateVars, histVars
<1>3. LevelCoversOwed' /\ ReadIsBacked'
  BY <1>1 DEF Capture, IInv, TypeOK, LevelCoversOwed, ReadIsBacked, ctlVars, gateVars, histVars, Desired, Required
<1>4. TrimLeavesCycle'
  <2>1. PICK x \in Int : x = (Bursts - slot) * Packet
    BY <1>1, OneSlotLess
  <2> QED BY <1>1, <2>1
          DEF Capture, IInv, TrimLeavesCycle, gateVars, histVars
<1> QED BY <1>2, <1>3, <1>4 DEF IInv

LEMMA StutterIInv == ASSUME IInv, UNCHANGED vars PROVE IInv'
  BY DEF vars, IInv, TypeOK, LevelCoversOwed, ReadIsBacked, TrimLeavesCycle, ctlVars, gateVars, histVars

LEMMA NextIInv == IInv /\ [Next]_vars => IInv'
  BY ControlIInv, StartIInv, DriftIInv, GetBufferIInv, TakePacketIInv,
     EncodeAudioIInv, EncodeSilenceIInv, ReleaseBufferIInv, CaptureIInv,
     StutterIInv
     DEF Next, RenderThread, Encode, Control

LEMMA SpecIInv == Spec => []IInv
  BY InitIInv, NextIInv, PTL DEF Spec

-----------------------------------------------------------------------------
(* The results                                                             *)

\* The variables keep their types; in particular the level never leaves the ring.
THEOREM TypeCorrect == Spec => []TypeOK
  BY SpecIInv, PTL DEF IInv

\* Every slot the gate lets through reads a whole packet from the ring.
THEOREM WholePackets == Spec => []ServedSlotsAreWhole
<1>1. IInv => ServedSlotsAreWhole
  BY ParametersAssumption
     DEF IInv, TypeOK, ReadIsBacked, ServedSlotsAreWhole
<1> QED BY <1>1, SpecIInv, PTL

\* A cycle that discards frames to catch up still fills its whole buffer with audio.
THEOREM TrimIsHarmless == Spec => TrimNeverStarves
<1>1. IInv /\ [Next]_vars => [EncodeSilence => ~trimmed]_vars
  BY SilenceMeansNoTrim
<1> QED BY <1>1, SpecIInv, PTL DEF Spec, TrimNeverStarves

\* The gate closes only after the cushion it opened with has been played out.
THEOREM NoCrackle == Spec => CushionIsPlayedOut
<1>1. ASSUME IInv, Next, ~refilling, refilling', phase # "idle"
      PROVE  owed < Packet
  <2>1. CASE EncodeSilence
    <3>1. ~(Packet <= fill)
      BY <1>1, <2>1, GateRefused DEF EncodeSilence, IInv
    <3> QED BY <3>1, <1>1, ParametersAssumption
            DEF IInv, TypeOK, LevelCoversOwed
  <2>2. CASE TakePacket
    BY <1>1, <2>2, GateServed DEF TakePacket, IInv, TypeOK
  <2>3. CASE ~EncodeSilence /\ ~TakePacket
    BY <1>1, <2>3
       DEF Next, RenderThread, Encode, Start, ClientStart, StopBegin, StopEnd,
           DeviceEvent, LoopTest, WakeForData, WakeForStop, WaitTimesOut, Drift,
           GetBuffer, EncodeAudio, ReleaseBuffer, Capture, gateVars
  <2> QED BY <2>1, <2>2, <2>3
<1>2. IInv /\ [Next]_vars
        => [~refilling /\ refilling' /\ ~(phase = "idle") => owed < Packet]_vars
  BY <1>1
<1> QED BY <1>2, SpecIInv, PTL DEF Spec, CushionIsPlayedOut

-----------------------------------------------------------------------------
(* The ring as the capture side fills it                                   *)

Level == INSTANCE FrameLevel WITH Frames <- RingFrames, level <- fill

LEMMA LevelNext == ASSUME IInv, [Next]_vars PROVE [Level!LevelNext]_fill
<1> USE ParametersAssumption
<1>1. CASE UNCHANGED fill
  BY <1>1
<1>2. ASSUME NEW n \in Nat, n <= fill, fill' = fill - n PROVE [Level!LevelNext]_fill
  <2>1. CASE n = 0
    BY <1>2, <2>1 DEF IInv, TypeOK
  <2>2. CASE n # 0
    <3>1. n \in 1..fill /\ Level!Take(n)
      BY <1>2, <2>2 DEF Level!Take, IInv, TypeOK
    <3> QED BY <3>1 DEF Level!LevelNext
  <2> QED BY <2>1, <2>2
<1>3. CASE Drift
  <2>1. PICK excess : fill' = fill - Smaller(excess, fill)
                      /\ (excess = 0 \/ excess = Trim(Smaller(fill, minAvail)))
    BY <1>3 DEF Drift
  <2>2. excess \in Nat
    BY <2>1, RequiredType DEF Trim, Smaller, IInv, TypeOK, NoMin
  <2>3. Smaller(excess, fill) \in Nat /\ Smaller(excess, fill) <= fill
    BY <2>2 DEF Smaller, IInv, TypeOK
  <2> QED BY <1>2, <2>1, <2>3
<1>4. CASE EncodeAudio
  <2>1. fill' = fill - Packet /\ Packet <= fill
    BY <1>4 DEF EncodeAudio, ReadIsBacked, IInv, TypeOK, Smaller
  <2> QED BY <1>2, <2>1
<1>5. ASSUME NEW n \in Chunks, Capture(n) PROVE [Level!LevelNext]_fill
  <2>1. Level!Put(n)
    BY <1>5 DEF Capture, Smaller, Level!Put
  <2> QED BY <1>5, <2>1 DEF Level!LevelNext
<1> QED
  <2>1. UNCHANGED fill \/ Drift \/ EncodeAudio \/ \E n \in Chunks : Capture(n)
    BY Zenon DEF Next, vars, RenderThread, Encode, Start, ClientStart, StopBegin, StopEnd,
           DeviceEvent, LoopTest, WakeForData, WakeForStop, WaitTimesOut, GetBuffer,
           TakePacket, EncodeSilence, ReleaseBuffer
  <2> QED BY <1>1, <1>3, <1>4, <1>5, <2>1

\* The render thread takes from the ring only whole frames that are there, whether it
\* plays or discards them (WasapiPassthrough.cpp, ThreadProc and EncodeIntoBuffer), and
\* counts on no more from the capture side than WasapiCapture_proofs shows of it.
THEOREM RenderDrainsLevel == Spec => Level!LevelSpec
<1>1. Init => fill = 0
  BY DEF Init
<1> QED BY <1>1, LevelNext, SpecIInv, PTL DEF Spec, Level!LevelSpec

-----------------------------------------------------------------------------
(* The thread as its owner sees it                                         *)

\* Start fills the first buffer before there is a thread.
ThreadOf(p, s) == CASE p = "idle" \/ s -> "none" [] p = "done" /\ ~s -> "left" [] OTHER -> "up"

Thread == INSTANCE OwnedThread WITH EndsAlone <- TRUE, thread <- ThreadOf(phase, starting)

\* While Start is under way no one else calls the object, and the thread is not there.
StartOwns ==
    /\ starting \in BOOLEAN
    /\ starting => running /\ ~joining /\ phase \in {"fill", "read", "start"}
    /\ phase = "start" => starting

LEMMA ThreadNext ==
    ASSUME StartOwns, [Next]_vars
    PROVE  StartOwns' /\ [Thread!ThreadNext]_(Thread!threadVars)
<1> USE DEF StartOwns, ThreadOf
<1>1. CASE UNCHANGED <<running, joining, phase, starting>>
  BY <1>1, Zenon DEF Thread!threadVars
<1>2. CASE Start
  <2>1. running' = TRUE /\ starting' = TRUE /\ joining' = joining /\ phase' \in {"fill", "start"}
        /\ phase = "idle" /\ ~joining /\ ~running
    BY <1>2 DEF Start
  <2>2. Thread!Start
    BY <2>1 DEF Thread!Start
  <2> QED BY <2>1, <2>2 DEF Thread!ThreadNext
<1>3. CASE ClientStart
  <2>1. phase = "start" /\ starting' = FALSE /\ phase' \in {"test", "idle"} /\ UNCHANGED ctlVars
    BY <1>3 DEF ClientStart
  <2>2. CASE phase' = "test"
    <3>1. Thread!Create
      BY <2>1, <2>2 DEF Thread!Create, ctlVars
    <3> QED BY <2>1, <2>2, <3>1 DEF Thread!ThreadNext
  <2>3. CASE phase' = "idle"
    BY <2>1, <2>3 DEF Thread!threadVars, ctlVars
  <2> QED BY <2>1, <2>2, <2>3
<1>4. CASE StopBegin
  <2>1. Thread!Stop
    BY <1>4 DEF StopBegin, Thread!Stop
  <2> QED BY <1>4, <2>1 DEF StopBegin, Thread!ThreadNext
<1>5. CASE StopEnd
  <2>1. Thread!Joined
    BY <1>5 DEF StopEnd, Thread!Joined
  <2> QED BY <1>5, <2>1 DEF StopEnd, Thread!ThreadNext
<1>6. ASSUME ~starting, phase \notin {"idle", "done", "start"}, phase' = "done", UNCHANGED <<ctlVars, starting>>
      PROVE  StartOwns' /\ [Thread!ThreadNext]_(Thread!threadVars)
  <2>1. Thread!Leave
    BY <1>6 DEF Thread!Leave, ctlVars
  <2> QED BY <1>6, <2>1 DEF Thread!ThreadNext, ctlVars
<1>7. ASSUME ~starting, phase \notin {"idle", "done"}, phase' \notin {"idle", "done", "start"},
             UNCHANGED <<ctlVars, starting>>
      PROVE  StartOwns' /\ [Thread!ThreadNext]_(Thread!threadVars)
  BY <1>7 DEF Thread!threadVars, ctlVars
<1>8. ASSUME starting, phase' \in {"fill", "read", "start"}, UNCHANGED <<ctlVars, starting>>
      PROVE  StartOwns' /\ [Thread!ThreadNext]_(Thread!threadVars)
  BY <1>8 DEF Thread!threadVars, ctlVars
<1>9. CASE LoopTest \/ WakeForData \/ WakeForStop \/ WaitTimesOut \/ Drift \/ GetBuffer
  <2>1. UNCHANGED <<ctlVars, starting>> /\ phase \in {"test", "wait", "drift", "get"}
        /\ phase' \in {"wait", "done", "drift", "test", "get", "fill"}
    BY <1>9 DEF LoopTest, WakeForData, WakeForStop, WaitTimesOut, Drift, GetBuffer
  <2> QED BY <1>6, <1>7, <2>1
<1>10. CASE Encode
  <2>1. UNCHANGED <<ctlVars, starting>> /\ phase \in {"fill", "read"}
        /\ (starting => phase' \in {"fill", "read", "start"})
        /\ (~starting => phase' \in {"fill", "read", "test"})
    BY <1>10 DEF Encode, TakePacket, EncodeAudio, EncodeSilence, ReleaseBuffer
  <2> QED BY <1>7, <1>8, <2>1
<1> QED
  <2>1. DeviceEvent \/ (\E n \in Chunks : Capture(n)) \/ UNCHANGED vars
        => UNCHANGED <<running, joining, phase, starting>>
    BY Zenon DEF DeviceEvent, Capture, vars, ctlVars
  <2> QED BY <1>1, <1>2, <1>3, <1>4, <1>5, <1>9, <1>10, <2>1, Zenon DEF Next, RenderThread

\* Start, the render thread and Stop keep what main relies on: the thread may also leave
\* by itself, when the device fails, and is joined all the same (WasapiPassthrough.cpp,
\* Start, ThreadProc and Stop).
THEOREM RenderIsOwnedThread == Spec => Thread!ThreadSpec
<1>1. Init => StartOwns /\ Thread!ThreadInit
  BY DEF Init, StartOwns, Thread!ThreadInit, ThreadOf
<1> QED BY <1>1, ThreadNext, PTL DEF Spec, Thread!ThreadSpec

-----------------------------------------------------------------------------
(* A cushion that the ring cannot hold                                     *)

\* A ring smaller than the cushion never opens the gate: the level stays under the prime
\* level, so every packet is silence for good, whatever the capture thread delivers.  The
\* size of the ring (main.cpp, 287) does not depend on the safety margin the user gives.
THEOREM SmallRingStaysSilent == RingFrames < Desired => (Spec => []refilling)
<1> SUFFICES ASSUME RingFrames < Desired PROVE Spec => []refilling
  OBVIOUS
<1>1. Init => refilling
  BY DEF Init, Gate!Reset
<1>2. ASSUME IInv, refilling, [Next]_vars PROVE refilling'
  <2>1. CASE UNCHANGED gateVars
    BY <1>2, <2>1 DEF gateVars
  <2>2. CASE Start
    BY <2>2 DEF Start, Gate!Rearm
  <2>3. CASE Drift
    BY <1>2, <2>3 DEF Drift
  <2>4. CASE TakePacket
    <3>1. Desired <= fill
      BY <1>2, <2>4, GateServed DEF TakePacket, IInv, TypeOK
    <3>2. fill \in Nat /\ fill <= RingFrames /\ RingFrames \in Nat /\ Desired \in Nat
      BY <1>2, RequiredType, ParametersAssumption DEF IInv, TypeOK
    <3> QED BY <3>1, <3>2
  <2>5. CASE EncodeSilence
    BY <1>2, <2>5, GateRefused DEF EncodeSilence, IInv
  <2> QED
    BY <1>2, <2>1, <2>2, <2>3, <2>4, <2>5, Zenon
       DEF Next, RenderThread, Encode, ClientStart, StopBegin, StopEnd, DeviceEvent, LoopTest,
           WakeForData, WakeForStop, WaitTimesOut, GetBuffer, EncodeAudio, ReleaseBuffer,
           Capture, vars
<1> QED BY <1>1, <1>2, SpecIInv, PTL DEF Spec
=============================================================================
