------------------------- MODULE WasapiCapture_proofs -------------------------
(***************************************************************************)
(* Frames pass the ring whole as long as no Write has to cut one: either    *)
(* there is always room for the packet in hand (any sizes), or the size of  *)
(* the ring is a multiple of that of a frame.  Then loss is counted in the  *)
(* frames that were lost, silent packets apart.                             *)
(***************************************************************************)
EXTENDS WasapiCapture, SequenceTheorems, TLAPS

\* The ring is rounded up to a power of two, so this holds for frames of 2, 4, 8...
\* bytes, for which a short Write takes whole frames.  It does not hold for 5.1 input,
\* whose frames have 12 or 24 bytes.
RingHoldsFrames == RingBytes % FrameBytes = 0

\* The consumer keeps up: no Write is short.
RoomForPacket ==
    phase = "hold" => Head(endpoint).frames * FrameBytes <= RingBytes - Len(ring)

-----------------------------------------------------------------------------
(* Arithmetic                                                              *)

LEMMA TimesNat == ASSUME NEW a \in Nat, NEW b \in Nat PROVE a * b \in Nat
  BY SMT

LEMMA Commutes == ASSUME NEW a \in Int, NEW b \in Int PROVE a * b = b * a
  BY SMT

LEMMA Distributes ==
    ASSUME NEW a \in Int, NEW b \in Int, NEW c \in Int
    PROVE  /\ (a + b) * c = (a * c) + (b * c)
           /\ (a - b) * c = (a * c) - (b * c)
  BY SMT

LEMMA Monotone ==
    ASSUME NEW a \in Nat, NEW b \in Nat, NEW c \in Nat \ {0}
    PROVE  /\ a <= b => a * c <= b * c
           /\ a * c <= b * c => a <= b
<1>1. a <= b => a * c <= b * c
  BY SMT
<1>2. ASSUME a >= b + 1 PROVE a * c > b * c
  <2>1. a * c >= (b + 1) * c
    BY <1>2, SMT
  <2>2. (b + 1) * c = (b * c) + (1 * c) /\ 1 * c = c
    BY Distributes
  <2>3. a * c \in Nat /\ b * c \in Nat
    BY TimesNat
  <2> QED BY <2>1, <2>2, <2>3
<1>3. a <= b \/ a >= b + 1
  OBVIOUS
<1>4. a * c \in Nat /\ b * c \in Nat
  BY TimesNat
<1> QED BY <1>1, <1>2, <1>3, <1>4

LEMMA DivMod ==
    ASSUME NEW a \in Nat, NEW b \in Nat \ {0}
    PROVE  a = ((a \div b) * b) + (a % b) /\ a \div b \in Nat /\ a % b \in 0..b-1
  BY SMT

LEMMA ModUnique ==
    ASSUME NEW b \in Nat \ {0}, NEW q \in Nat, NEW r \in 0..b-1
    PROVE  ((q * b) + r) % b = r
  BY SMT

LEMMA DivExact == ASSUME NEW b \in Nat \ {0}, NEW q \in Nat PROVE (q * b) \div b = q
  BY SMT

\* Whole frames do not change the place in a frame.
LEMMA ModShift ==
    ASSUME NEW a \in Nat, NEW k \in Nat, NEW b \in Nat \ {0}
    PROVE  ((k * b) + a) % b = a % b
<1>1. PICK q \in Nat, r \in 0..b-1, x \in Nat : a = x + r /\ r = a % b /\ x = q * b
  BY DivMod, TimesNat
<1>2. PICK y \in Nat : y = k * b
  BY TimesNat
<1>3. (k + q) * b = y + x
  BY <1>1, <1>2, Distributes
<1>4. (k * b) + a = ((k + q) * b) + r
  BY <1>1, <1>2, <1>3
<1>5. (((k + q) * b) + r) % b = r
  <2>1. k + q \in Nat
    OBVIOUS
  <2> QED BY <2>1, ModUnique
<1> QED BY <1>1, <1>4, <1>5

-----------------------------------------------------------------------------
(* Bytes in the ring                                                       *)

InFrames(s) == \A i \in 1..Len(s) : s[i] = (i - 1) % FrameBytes
\* The number of whole frames in a sequence of bytes.
Whole(s, k) == Len(s) = k * FrameBytes

\* Of n frames a Write takes whole ones.
CutsNoFrame(n) == \E t \in 0..n : Taken(n * FrameBytes) = t * FrameBytes

LEMMA FullRingCutsNoFrame ==
    ASSUME RingHoldsFrames, NEW n \in Nat, NEW k \in Nat,
           Whole(ring, k), Len(ring) <= RingBytes
    PROVE  CutsNoFrame(n)
<1> USE CaptureAssumption
<1>1. PICK room \in Nat : RingBytes = room * FrameBytes
  <2>1. RingBytes = ((RingBytes \div FrameBytes) * FrameBytes) + (RingBytes % FrameBytes)
        /\ RingBytes \div FrameBytes \in Nat
    BY DivMod
  <2>2. PICK q \in Nat, x \in Nat : q = RingBytes \div FrameBytes /\ x = q * FrameBytes
    BY <2>1, TimesNat
  <2>3. RingBytes = x
    BY <2>1, <2>2 DEF RingHoldsFrames
  <2> QED BY <2>2, <2>3
<1>2. PICK wanted \in Nat, level \in Nat :
        wanted = n * FrameBytes /\ level = k * FrameBytes /\ level = Len(ring)
  BY TimesNat DEF Whole
<1>3. k <= room
  BY <1>1, <1>2, Monotone
<1>4. PICK free \in Nat : free = room - k
  BY <1>3
<1>5. free * FrameBytes = RingBytes - level
  BY <1>1, <1>2, <1>4, Distributes
<1>6. n <= free <=> wanted <= RingBytes - level
  BY <1>2, <1>4, <1>5, Monotone
<1>7. Taken(wanted) = IF wanted <= RingBytes - level THEN wanted ELSE RingBytes - level
  BY <1>2 DEF Taken, Smaller
<1>8. CASE n <= free
  <2>1. Taken(n * FrameBytes) = n * FrameBytes /\ n \in 0..n
    BY <1>2, <1>6, <1>7, <1>8
  <2> QED BY <2>1 DEF CutsNoFrame
<1>9. CASE ~(n <= free)
  <2>1. Taken(n * FrameBytes) = free * FrameBytes /\ free \in 0..n
    BY <1>2, <1>5, <1>6, <1>7, <1>9
  <2> QED BY <2>1 DEF CutsNoFrame
<1> QED BY <1>8, <1>9

LEMMA RoomCutsNoFrame ==
    ASSUME NEW n \in Nat, n * FrameBytes <= RingBytes - Len(ring)
    PROVE  CutsNoFrame(n)
<1>1. Taken(n * FrameBytes) = n * FrameBytes /\ n \in 0..n
  BY DEF Taken, Smaller
<1> QED BY <1>1 DEF CutsNoFrame

\* A Write that cuts no frame leaves a ring of whole frames.
LEMMA WriteKeepsFrames ==
    ASSUME NEW n \in Nat, CutsNoFrame(n), NEW k \in Nat, ring \in Seq(Nat),
           InFrames(ring), Whole(ring, k), Len(ring) <= RingBytes
    PROVE  \E t \in 0..n : /\ Taken(n * FrameBytes) = t * FrameBytes
                           /\ Written(n) \in Seq(Nat) /\ Len(Written(n)) <= RingBytes
                           /\ InFrames(Written(n)) /\ Whole(Written(n), k + t)
<1> USE CaptureAssumption
<1>2. PICK wanted \in Nat, level \in Nat :
        wanted = n * FrameBytes /\ level = k * FrameBytes /\ level = Len(ring)
  BY TimesNat DEF Whole
<1>4. PICK t \in 0..n : Taken(wanted) = t * FrameBytes
  BY <1>2 DEF CutsNoFrame
<1>5. PICK taken \in Nat : taken = t * FrameBytes /\ taken = Taken(wanted) /\ taken <= wanted
                           /\ taken + level <= RingBytes
  <2>1. Taken(wanted) = IF wanted <= RingBytes - level THEN wanted ELSE RingBytes - level
    BY <1>2 DEF Taken, Smaller
  <2>2. Taken(wanted) \in Nat /\ Taken(wanted) <= wanted /\ Taken(wanted) + level <= RingBytes
    BY <1>2, <2>1
  <2> QED BY <1>4, <2>2
<1> DEFINE bytes == SubSeq(FramesOf(n), 1, taken)
<1>6. \A i \in 1..taken : FramesOf(n)[i] = (i - 1) % FrameBytes /\ FramesOf(n)[i] \in Nat
  <2>1. \A i \in 1..wanted : FramesOf(n)[i] = (i - 1) % FrameBytes
    BY <1>2 DEF FramesOf
  <2>2. \A i \in 1..wanted : (i - 1) % FrameBytes \in Nat
    BY DivMod
  <2> QED BY <1>5, <2>1, <2>2
<1>7. /\ bytes \in Seq(Nat) /\ Len(bytes) = taken
      /\ \A i \in 1..taken : bytes[i] = (i - 1) % FrameBytes
  <2>1. /\ bytes \in Seq(Nat) /\ Len(bytes) = IF 1 <= taken THEN taken - 1 + 1 ELSE 0
        /\ \A i \in 1 .. taken-1+1 : bytes[i] = FramesOf(n)[1+i-1]
    BY <1>6, SubSeqProperties
  <2>2. \A i \in 1..taken : 1+i-1 = i
    OBVIOUS
  <2> QED BY <1>6, <2>1, <2>2
<1>8. Written(n) = ring \o bytes
  BY <1>2, <1>5 DEF Written
<1>9. /\ Written(n) \in Seq(Nat) /\ Len(Written(n)) = level + taken
      /\ \A i \in 1..(level + taken) :
            Written(n)[i] = IF i <= level THEN ring[i] ELSE bytes[i - level]
  <2>1. PICK more : more = bytes
    OBVIOUS
  <2>2. more \in Seq(Nat) /\ Len(more) = taken
    BY <1>7, <2>1
  <2>3. /\ ring \o more \in Seq(Nat) /\ Len(ring \o more) = Len(ring) + Len(more)
        /\ \A i \in 1..Len(ring) + Len(more) :
              (ring \o more)[i] = IF i <= Len(ring) THEN ring[i] ELSE more[i - Len(ring)]
    BY ONLY <2>2, ring \in Seq(Nat), ConcatProperties
  <2>4. level = Len(ring) /\ Written(n) = ring \o more
    BY <1>2, <1>8, <2>1
  <2> QED BY ONLY <2>1, <2>2, <2>3, <2>4
<1>10. InFrames(Written(n))
  <2>1. SUFFICES ASSUME NEW i \in 1..(level + taken) PROVE Written(n)[i] = (i - 1) % FrameBytes
    BY <1>9 DEF InFrames
  <2>2. CASE i <= level
    <3>1. i \in 1..Len(ring)
      BY <1>2, <2>2
    <3>2. ring[i] = (i - 1) % FrameBytes
      BY <3>1 DEF InFrames
    <3> QED BY <1>9, <2>2, <3>2
  <2>3. CASE ~(i <= level)
    <3>1. PICK a \in Nat : a = (i - level) - 1 /\ i - level \in 1..taken /\ i - 1 = level + a
      BY <2>3
    <3>2. Written(n)[i] = a % FrameBytes
      BY <1>7, <1>9, <2>3, <3>1
    <3>3. (level + a) % FrameBytes = a % FrameBytes
      <4>1. ((k * FrameBytes) + a) % FrameBytes = a % FrameBytes
        BY ModShift
      <4> QED BY ONLY <4>1, <1>2
    <3> QED BY <3>1, <3>2, <3>3
  <2> QED BY <2>2, <2>3
<1>11. Whole(Written(n), k + t)
  <2>1. (k + t) * FrameBytes = level + taken
    BY <1>2, <1>5, Distributes
  <2> QED BY <1>9, <2>1 DEF Whole
<1>12. Len(Written(n)) <= RingBytes /\ Taken(n * FrameBytes) = t * FrameBytes
  BY <1>2, <1>5, <1>9
<1> QED BY <1>9, <1>10, <1>11, <1>12, Zenon

\* Reading whole frames leaves whole frames.
LEMMA ConsumeKeepsFrames ==
    ASSUME NEW n \in Nat, NEW k \in Nat, ring \in Seq(Nat), InFrames(ring), Whole(ring, k),
           Len(ring) >= n * FrameBytes, NEW rest, rest = SubSeq(ring, (n * FrameBytes) + 1, Len(ring))
    PROVE  /\ rest \in Seq(Nat) /\ Len(rest) <= Len(ring) /\ InFrames(rest)
           /\ \E m \in Nat : Whole(rest, m)
<1> USE CaptureAssumption
<1>1. PICK gone \in Nat, level \in Nat :
        gone = n * FrameBytes /\ level = k * FrameBytes /\ level = Len(ring) /\ gone <= level
  BY TimesNat DEF Whole
<1>2. /\ rest \in Seq(Nat)
      /\ Len(rest) = IF gone + 1 <= level THEN level - (gone + 1) + 1 ELSE 0
      /\ \A i \in 1 .. level-(gone+1)+1 : rest[i] = ring[gone+1+i-1]
  <2>1. \A i \in (gone + 1)..level : ring[i] \in Nat
    <3>1. \A i \in (gone + 1)..level : i \in 1..Len(ring)
      BY <1>1
    <3> QED BY <3>1, ElementOfSeq
  <2>2. rest = SubSeq(ring, gone + 1, level) /\ gone + 1 \in Int /\ level \in Int
    BY <1>1
  <2> QED BY ONLY <2>1, <2>2, SubSeqProperties
<1>3. Len(rest) = level - gone
  <2>1. CASE gone + 1 <= level
    BY ONLY <1>2, <2>1, gone \in Nat, level \in Nat
  <2>2. CASE gone = level
    BY ONLY <1>2, <2>2, gone \in Nat, level \in Nat
  <2>3. gone <= level
    BY <1>1
  <2>4. gone + 1 <= level \/ gone = level
    BY ONLY <2>3, gone \in Nat, level \in Nat
  <2> QED BY ONLY <2>1, <2>2, <2>4, Zenon
<1>4. InFrames(rest)
  <2>1. SUFFICES ASSUME NEW i \in 1..(level - gone) PROVE rest[i] = (i - 1) % FrameBytes
    BY <1>3 DEF InFrames
  <2>2. PICK a \in Nat : a = i - 1 /\ gone+1+i-1 = gone + i /\ gone + i \in 1..level
                         /\ (gone + i) - 1 = gone + a
    BY <1>1
  <2>3. rest[i] = (gone + a) % FrameBytes
    <3>1. rest[i] = ring[gone + i]
      BY <1>1, <1>2, <2>2
    <3>2. ring[gone + i] = ((gone + i) - 1) % FrameBytes
      BY <1>1, <2>2 DEF InFrames
    <3> QED BY <2>2, <3>1, <3>2
  <2>4. (gone + a) % FrameBytes = a % FrameBytes
    <3>1. ((n * FrameBytes) + a) % FrameBytes = a % FrameBytes
      BY ModShift
    <3> QED BY ONLY <3>1, <1>1
  <2> QED BY <2>2, <2>3, <2>4
<1>5. n <= k
  BY <1>1, Monotone
<1>6. Whole(rest, k - n)
  BY <1>1, <1>3, Distributes DEF Whole
<1> QED BY <1>1, <1>2, <1>3, <1>4, <1>5, <1>6

-----------------------------------------------------------------------------
(* The invariant                                                           *)

Packets == [frames : PacketFrames, kind : Kinds, gap : BOOLEAN]

EndpointOK ==
    /\ endpoint \in Seq(Packets) /\ gap \in BOOLEAN
    /\ phase = "hold" => endpoint # <<>>

RingOK ==
    /\ ring \in Seq(Nat) /\ Len(ring) <= RingBytes /\ InFrames(ring)
    /\ \E k \in Nat : Whole(ring, k)

\* The counters wrap, so they agree up to a multiple of the limit.
CountsOK ==
    /\ droppedFrames \in 0..CountLimit-1 /\ lostBytes \in Nat /\ lostSilence \in Nat
    /\ \E turns \in Int : lostBytes - lostSilence =
          (droppedFrames * FrameBytes) + (turns * (CountLimit * FrameBytes))

LEMMA EndpointNext == ASSUME EndpointOK, [Next]_vars PROVE EndpointOK'
<1>1. CASE UNCHANGED <<endpoint, gap>> /\ phase' # "hold"
  BY <1>1 DEF EndpointOK
<1>2. CASE UNCHANGED <<endpoint, gap>> /\ (phase' = phase \/ endpoint # <<>>)
  BY <1>2 DEF EndpointOK
<1>3. CASE CopyPacket
  <2>1. endpoint' = Tail(endpoint) /\ gap' = gap /\ phase' = "next" /\ endpoint # <<>>
    BY <1>3 DEF CopyPacket, EndpointOK
  <2> QED BY <2>1, HeadTailProperties DEF EndpointOK
<1>4. ASSUME NEW n \in PacketFrames, NEW kind \in Kinds, Arrive(n, kind) PROVE EndpointOK'
  <2>1. CASE endpoint' = Append(endpoint, [frames |-> n, kind |-> kind, gap |-> gap])
             /\ gap' = FALSE
    <3>1. [frames |-> n, kind |-> kind, gap |-> gap] \in Packets
      BY DEF EndpointOK, Packets
    <3>2. PICK p \in Packets : p = [frames |-> n, kind |-> kind, gap |-> gap]
      BY <3>1
    <3>3. Append(endpoint, p) \in Seq(Packets) /\ Append(endpoint, p) # <<>>
      BY AppendProperties DEF EndpointOK
    <3>4. endpoint' = Append(endpoint, p)
      BY <2>1, <3>2
    <3> QED BY <2>1, <3>3, <3>4 DEF EndpointOK
  <2>2. CASE gap' = TRUE /\ UNCHANGED endpoint
    BY <1>4, <2>2 DEF Arrive, EndpointOK
  <2> QED BY <1>4, <2>1, <2>2 DEF Arrive
<1> QED
  <2>1. Start \/ StopEnd \/ LoopTest \/ Poll \/ WakeForData \/ WakeForStop => UNCHANGED <<endpoint, gap>> /\ phase' # "hold"
    BY DEF Start, StopEnd, LoopTest, Poll, WakeForData, WakeForStop, deviceVars
  <2>2. NextPacket => UNCHANGED <<endpoint, gap>> /\ (phase' # "hold" \/ endpoint # <<>>)
    BY DEF NextPacket, deviceVars
  <2>3. StopBegin \/ LoseDevice \/ UNCHANGED vars \/ (\E n \in ReadFrames : Consume(n))
          => UNCHANGED <<endpoint, gap>> /\ phase' = phase
    BY DEF StopBegin, LoseDevice, Consume, deviceVars, vars
  <2> QED BY <1>1, <1>2, <1>3, <1>4, <2>1, <2>2, <2>3 DEF Next, CaptureThread

\* Counting modulo a limit is counting up to a multiple of it.
LEMMA Wraps ==
    ASSUME NEW a \in Int, NEW m \in Nat \ {0}
    PROVE  a % m \in 0..m-1 /\ \E q \in Int : a % m = a - (q * m)
<1>1. a = ((a \div m) * m) + (a % m) /\ a \div m \in Int /\ a % m \in 0..m-1
  BY SMT
<1>2. PICK q \in Int, x \in Int : q = a \div m /\ x = q * m
  BY <1>1, SMT
<1>3. a % m = a - (q * m)
  BY <1>1, <1>2
<1> QED BY <1>1, <1>3

LEMMA WrapUnique ==
    ASSUME NEW m \in Nat \ {0}, NEW q \in Int, NEW r \in 0..m-1
    PROVE  (r + (q * m)) % m = r
  BY SMT

\* The size of all the counter can count, in bytes.
LEMMA LimitBytes ==
    /\ CountLimit * FrameBytes \in Nat \ {0}
    /\ \A d \in 0..CountLimit-1 : d * FrameBytes \in 0..(CountLimit * FrameBytes)-1
<1> USE CaptureAssumption
<1>1. PICK m \in Nat : m = CountLimit * FrameBytes
  BY TimesNat
<1>2. FrameBytes <= m
  <2>1. 1 * FrameBytes <= CountLimit * FrameBytes
    BY Monotone
  <2> QED BY <1>1, <2>1
<1>3. ASSUME NEW d \in 0..CountLimit-1 PROVE d * FrameBytes \in 0..m-1
  <2>1. (d + 1) * FrameBytes <= m
    BY <1>1, Monotone
  <2>2. (d + 1) * FrameBytes = (d * FrameBytes) + (1 * FrameBytes) /\ d * FrameBytes \in Nat
    BY Distributes, TimesNat
  <2> QED BY <2>1, <2>2
<1> QED BY <1>1, <1>2, <1>3

\* Frames of sound that are refused go into both counts.
LEMMA SoundCounted ==
    ASSUME CountsOK, NEW x \in Nat, NEW bytes \in Nat, bytes = x * FrameBytes,
           droppedFrames' = Count(droppedFrames, x), lostBytes' = CountBytes(lostBytes, bytes),
           lostSilence' = lostSilence
    PROVE  CountsOK'
<1> USE CaptureAssumption
<1>1. PICK m \in Nat \ {0} : m = CountLimit * FrameBytes
  BY LimitBytes
<1>2. PICK turns \in Int : lostBytes - lostSilence = (droppedFrames * FrameBytes) + (turns * m)
  BY <1>1 DEF CountsOK
<1>3. droppedFrames' \in 0..CountLimit-1
      /\ \E a \in Int : droppedFrames' = (droppedFrames + x) - (a * CountLimit)
  <2>1. PICK d \in Int : d = droppedFrames + x
    BY DEF CountsOK
  <2>2. d % CountLimit \in 0..CountLimit-1 /\ \E q \in Int : d % CountLimit = d - (q * CountLimit)
    BY Wraps
  <2> QED BY <2>1, <2>2 DEF Count
<1>4. lostBytes' \in 0..m-1 /\ \E b \in Int : lostBytes' = (lostBytes + bytes) - (b * m)
  <2>1. PICK d \in Int : d = lostBytes + bytes
    BY DEF CountsOK
  <2>2. d % m \in 0..m-1 /\ \E q \in Int : d % m = d - (q * m)
    BY Wraps
  <2> QED BY <1>1, <2>1, <2>2 DEF CountBytes
<1>5. PICK a \in Int : droppedFrames' = (droppedFrames + x) - (a * CountLimit)
  BY <1>3
<1>6. PICK b \in Int : lostBytes' = (lostBytes + bytes) - (b * m)
  BY <1>4
<1>7. droppedFrames' * FrameBytes = ((droppedFrames * FrameBytes) + bytes) - (a * m)
  <2>1. PICK full \in Int, d \in Int : full = a * CountLimit /\ d = droppedFrames + x
    BY SMT DEF CountsOK
  <2>2. (d - full) * FrameBytes = (d * FrameBytes) - (full * FrameBytes)
    BY Distributes
  <2>3. d * FrameBytes = (droppedFrames * FrameBytes) + (x * FrameBytes)
    BY <2>1, Distributes DEF CountsOK
  <2>4. full * FrameBytes = a * m
    <3>1. (a * CountLimit) * FrameBytes = a * (CountLimit * FrameBytes)
      BY SMT
    <3> QED BY <1>1, <2>1, <3>1
  <2> QED BY <1>5, <2>1, <2>2, <2>3, <2>4
<1>8. lostBytes' - lostSilence' = (droppedFrames' * FrameBytes) + (((a + turns) - b) * m)
  <2>1. PICK am \in Int, tm \in Int, bm \in Int, d \in Int, e \in Int :
          /\ am = a * m /\ tm = turns * m /\ bm = b * m
          /\ d = droppedFrames * FrameBytes /\ e = droppedFrames' * FrameBytes
    BY <1>3, SMT DEF CountsOK
  <2>2. ((a + turns) - b) * m = (am + tm) - bm
    <3>1. PICK at \in Int : at = a + turns
      OBVIOUS
    <3>2. (at - b) * m = (at * m) - (b * m) /\ (a + turns) * m = (a * m) + (turns * m)
      BY Distributes
    <3> QED BY <2>1, <3>1, <3>2
  <2>3. lostBytes' - lostSilence' = ((d + tm) + bytes) - bm
    BY <1>2, <1>6, <2>1 DEF CountsOK
  <2>4. e = (d + bytes) - am
    BY <1>7, <2>1
  <2> QED BY <2>1, <2>2, <2>3, <2>4
<1>9. \E t \in Int : lostBytes' - lostSilence' = (droppedFrames' * FrameBytes) + (t * m)
  <2>1. (a + turns) - b \in Int
    OBVIOUS
  <2> QED BY ONLY <1>8, <2>1, Zenon
<1>10. lostBytes' \in Nat /\ lostSilence' \in Nat
  BY <1>4 DEF CountsOK
<1> QED BY ONLY <1>1, <1>3, <1>9, <1>10, Zenon DEF CountsOK

\* Bytes of silence go into the byte counts alone.
LEMMA SilenceCounted ==
    ASSUME CountsOK, NEW bytes \in Nat, droppedFrames' = droppedFrames,
           lostBytes' = CountBytes(lostBytes, bytes), lostSilence' = CountBytes(lostSilence, bytes)
    PROVE  CountsOK'
<1> USE CaptureAssumption
<1>1. PICK m \in Nat \ {0} : m = CountLimit * FrameBytes
  BY LimitBytes
<1>2. PICK turns \in Int : lostBytes - lostSilence = (droppedFrames * FrameBytes) + (turns * m)
  BY <1>1 DEF CountsOK
<1>3. ASSUME NEW count \in Nat
      PROVE  /\ CountBytes(count, bytes) \in Nat
             /\ \E b \in Int : CountBytes(count, bytes) = (count + bytes) - (b * m)
  <2>1. PICK d \in Int : d = count + bytes
    OBVIOUS
  <2>2. d % m \in 0..m-1 /\ \E q \in Int : d % m = d - (q * m)
    BY ONLY Wraps, d \in Int, m \in Nat \ {0}
  <2>3. CountBytes(count, bytes) = d % m
    BY <1>1, <2>1 DEF CountBytes
  <2>4. CountBytes(count, bytes) \in Nat
    BY <2>2, <2>3
  <2> QED BY <2>1, <2>2, <2>3, <2>4
<1>4. lostBytes' \in Nat /\ lostSilence' \in Nat
  BY <1>3 DEF CountsOK
<1>5. PICK b \in Int, c \in Int : /\ lostBytes' = (lostBytes + bytes) - (b * m)
                                  /\ lostSilence' = (lostSilence + bytes) - (c * m)
  BY <1>3 DEF CountsOK
<1>6. ((turns + c) - b) * m = ((turns * m) + (c * m)) - (b * m)
  <2>1. PICK at \in Int : at = turns + c
    OBVIOUS
  <2>2. (at - b) * m = (at * m) - (b * m) /\ (turns + c) * m = (turns * m) + (c * m)
    BY Distributes
  <2> QED BY <2>1, <2>2
<1>7. lostBytes' - lostSilence' = (droppedFrames * FrameBytes) + (((turns + c) - b) * m)
  <2>1. PICK tm \in Int, bm \in Int, cm \in Int, d \in Int :
          tm = turns * m /\ bm = b * m /\ cm = c * m /\ d = droppedFrames * FrameBytes
    BY SMT DEF CountsOK
  <2> QED BY <1>2, <1>5, <1>6, <2>1 DEF CountsOK
<1>8. (turns + c) - b \in Int
  OBVIOUS
<1> QED BY <1>1, <1>4, <1>7, <1>8 DEF CountsOK

\* A packet that brings nothing changes nothing.
LEMMA NothingCounted ==
    ASSUME CountsOK, droppedFrames' = droppedFrames, lostSilence' = lostSilence,
           lostBytes' = CountBytes(lostBytes, 0)
    PROVE  CountsOK'
<1>1. 0 * FrameBytes = 0 /\ 0 \in Nat
  BY CaptureAssumption, SMT
<1>2. droppedFrames' = Count(droppedFrames, 0)
  <2>1. \A d \in 0..CountLimit-1 : (d + 0) % CountLimit = d
    BY CaptureAssumption, SMT
  <2> QED BY <2>1 DEF Count, CountsOK
<1> QED BY <1>1, <1>2, SoundCounted

\* The packet that is held.
LEMMA HeadFrames ==
    ASSUME EndpointOK, CopyPacket
    PROVE  Head(endpoint) \in Packets /\ Head(endpoint).frames \in PacketFrames
           /\ Head(endpoint).frames \in Nat
<1>1. endpoint # <<>> /\ endpoint \in Seq(Packets)
  BY DEF CopyPacket, EndpointOK
<1>2. Head(endpoint) \in Packets
  BY <1>1, HeadTailProperties
<1> QED BY <1>2, CaptureAssumption DEF Packets

\* One packet: so many frames go in, and the others are counted.
LEMMA CopyKeeps ==
    ASSUME EndpointOK, RingOK, CountsOK, CopyPacket, CutsNoFrame(Head(endpoint).frames)
    PROVE  RingOK' /\ CountsOK'
<1> USE CaptureAssumption
<1>1. PICK n \in Nat, p \in Packets : p = Head(endpoint) /\ n = p.frames
  BY HeadFrames
<1>2. PICK k \in Nat : Whole(ring, k)
  BY DEF RingOK
<1>3. PICK t \in 0..n : /\ Taken(n * FrameBytes) = t * FrameBytes
                        /\ Written(n) \in Seq(Nat) /\ Len(Written(n)) <= RingBytes
                        /\ InFrames(Written(n)) /\ Whole(Written(n), k + t)
  BY <1>1, <1>2, WriteKeepsFrames DEF RingOK
<1>4. RingOK'
  <2>1. CASE p.kind = "null"
    <3>1. ring' = ring
      BY <1>1, <2>1 DEF CopyPacket
    <3> QED BY <3>1 DEF RingOK, InFrames, Whole
  <2>2. CASE p.kind # "null"
    <3>1. ring' = Written(n)
      BY <1>1, <2>2 DEF CopyPacket
    <3>2. k + t \in Nat
      OBVIOUS
    <3>3. InFrames(ring') /\ Whole(ring', k + t)
      BY <1>3, <3>1
    <3>4. ring' \in Seq(Nat) /\ Len(ring') <= RingBytes
      BY <1>3, <3>1
    <3> QED BY <3>2, <3>3, <3>4 DEF RingOK, InFrames, Whole
  <2> QED BY <2>1, <2>2
<1>5. CountsOK'
  <2>1. PICK wanted \in Nat, taken \in Nat, d \in Nat, refused \in Nat :
          /\ wanted = n * FrameBytes /\ taken = t * FrameBytes /\ taken = Taken(wanted)
          /\ d = n - t /\ refused = d * FrameBytes /\ refused = wanted - taken
    <3>1. n * FrameBytes \in Nat /\ t * FrameBytes \in Nat
      BY TimesNat
    <3>2. PICK d \in Nat : d = n - t
      OBVIOUS
    <3>3. d * FrameBytes = (n * FrameBytes) - (t * FrameBytes) /\ d * FrameBytes \in Nat
      BY <3>2, Distributes, TimesNat
    <3> QED BY <1>3, <3>1, <3>2, <3>3
  <2>2. Loss(n, taken) = d
    <3>1. Loss(n, taken) = (d * FrameBytes) \div FrameBytes
      BY <2>1 DEF Loss
    <3> QED BY <3>1, DivExact
  <2>3. CASE p.kind = "data"
    <3>1. /\ droppedFrames' = Count(droppedFrames, d) /\ lostSilence' = lostSilence
          /\ lostBytes' = CountBytes(lostBytes, refused)
      BY <1>1, <2>1, <2>2, <2>3 DEF CopyPacket, CountLoss
    <3> QED BY <2>1, <3>1, SoundCounted
  <2>4. CASE p.kind = "silent"
    <3>1. /\ droppedFrames' = droppedFrames /\ lostSilence' = CountBytes(lostSilence, refused)
          /\ lostBytes' = CountBytes(lostBytes, refused)
      BY <1>1, <2>1, <2>4 DEF CopyPacket, CountLoss
    <3> QED BY <3>1, SilenceCounted
  <2>5. CASE p.kind = "null"
    <3>1. /\ droppedFrames' = droppedFrames /\ lostSilence' = lostSilence
          /\ lostBytes' = CountBytes(lostBytes, 0)
      BY <1>1, <2>5 DEF CopyPacket, CountLoss
    <3> QED BY <3>1, NothingCounted
  <2> QED BY <2>3, <2>4, <2>5 DEF Packets, Kinds
<1> QED BY <1>4, <1>5

LEMMA FramesNext ==
    ASSUME RingHoldsFrames \/ RoomForPacket, EndpointOK, RingOK, CountsOK, [Next]_vars
    PROVE  RingOK' /\ CountsOK'
<1>1. CASE UNCHANGED <<ring, countVars>>
  BY <1>1 DEF RingOK, CountsOK, InFrames, Whole, countVars
<1>2. CASE CopyPacket
  <2>1. PICK n \in Nat : n = Head(endpoint).frames
    BY <1>2, HeadFrames
  <2>2. PICK k \in Nat : Whole(ring, k)
    BY DEF RingOK
  <2>3. CASE RingHoldsFrames
    BY <1>2, <2>1, <2>2, <2>3, FullRingCutsNoFrame, CopyKeeps DEF RingOK
  <2>4. CASE RoomForPacket
    <3>1. n * FrameBytes <= RingBytes - Len(ring)
      BY <1>2, <2>1, <2>4 DEF RoomForPacket, CopyPacket
    <3> QED BY <1>2, <2>1, <3>1, RoomCutsNoFrame, CopyKeeps
  <2> QED BY <2>3, <2>4
<1>3. ASSUME NEW n \in ReadFrames, Consume(n) PROVE RingOK' /\ CountsOK'
  <2>1. ring' = SubSeq(ring, (n * FrameBytes) + 1, Len(ring)) /\ Len(ring) >= n * FrameBytes
        /\ UNCHANGED countVars
    BY <1>3 DEF Consume
  <2>2. n \in Nat
    BY CaptureAssumption
  <2>3. PICK k \in Nat : Whole(ring, k)
    BY DEF RingOK
  <2>4. PICK rest : rest = SubSeq(ring, (n * FrameBytes) + 1, Len(ring))
    OBVIOUS
  <2>5. /\ rest \in Seq(Nat) /\ Len(rest) <= Len(ring) /\ InFrames(rest)
        /\ \E m \in Nat : Whole(rest, m)
    BY <2>1, <2>2, <2>3, <2>4, ConsumeKeepsFrames DEF RingOK
  <2>6. ring' = rest
    BY <2>1, <2>4
  <2>7. Len(rest) <= RingBytes
    <3>1. Len(ring) \in Nat /\ Len(rest) \in Nat
      BY <2>5, LenProperties DEF RingOK
    <3> QED BY <2>5, <3>1, CaptureAssumption DEF RingOK
  <2>8. CountsOK'
    BY <2>1 DEF CountsOK, countVars
  <2> QED BY <2>5, <2>6, <2>7, <2>8 DEF RingOK, InFrames, Whole
<1> QED
  <2>1. \/ UNCHANGED <<ring, countVars>> \/ CopyPacket \/ \E n \in ReadFrames : Consume(n)
    BY Zenon DEF Next, vars, CaptureThread, Start, StopBegin, StopEnd, LoopTest, Poll,
                 WakeForData, WakeForStop, NextPacket, Arrive, LoseDevice
  <2> QED BY <1>1, <1>2, <1>3, <2>1

LEMMA FramesInit == Init => EndpointOK /\ RingOK /\ CountsOK
<1> USE CaptureAssumption
<1>1. 0 * FrameBytes = 0 /\ 0 * (CountLimit * FrameBytes) = 0
  BY LimitBytes, SMT
<1>2. SUFFICES ASSUME Init PROVE EndpointOK /\ RingOK /\ CountsOK
  OBVIOUS
<1>3. /\ ring = <<>> /\ <<>> \in Seq(Nat) /\ Len(<<>>) = 0
      /\ endpoint = <<>> /\ <<>> \in Seq(Packets) /\ gap = FALSE /\ phase = "idle"
  <2>1. <<>> \in Seq(Nat) /\ Len(<<>>) = 0 /\ <<>> \in Seq(Packets)
    BY EmptySeq
  <2> QED BY <1>2, <2>1 DEF Init
<1>4. RingOK
  <2>1. Whole(ring, 0)
    BY <1>1, <1>3 DEF Whole
  <2> QED BY <1>3, <2>1 DEF RingOK, InFrames
<1>5. EndpointOK
  BY <1>3 DEF EndpointOK
<1>6. CountsOK
  <2>1. droppedFrames = 0 /\ lostBytes = 0 /\ lostSilence = 0
    BY <1>2 DEF Init
  <2>2. 0 \in Int /\ lostBytes - lostSilence
            = (droppedFrames * FrameBytes) + (0 * (CountLimit * FrameBytes))
    BY <1>1, <2>1
  <2> QED BY <2>1, <2>2 DEF CountsOK
<1> QED BY <1>4, <1>5, <1>6

LEMMA FramesHold == RingOK /\ CountsOK => FramesWhole
<1> SUFFICES ASSUME RingOK, CountsOK PROVE FramesWhole
  OBVIOUS
<1> USE CaptureAssumption
<1>1. \A i \in 1..Len(ring) : ring[i] = (i - 1) % FrameBytes
  BY DEF RingOK, InFrames
<1>2. Len(ring) % FrameBytes = 0
  <2>1. PICK k \in Nat : Len(ring) = k * FrameBytes
    BY DEF RingOK, Whole
  <2>2. ((k * FrameBytes) + 0) % FrameBytes = 0 /\ k * FrameBytes \in Nat
    BY ModUnique, TimesNat
  <2> QED BY <2>1, <2>2
<1>3. droppedFrames * FrameBytes = (lostBytes - lostSilence) % (CountLimit * FrameBytes)
  <2>1. PICK m \in Nat \ {0}, r \in Nat :
          m = CountLimit * FrameBytes /\ r = droppedFrames * FrameBytes /\ r \in 0..m-1
    <3>1. droppedFrames \in 0..CountLimit-1
      BY DEF CountsOK
    <3> QED BY <3>1, LimitBytes
  <2>2. PICK turns \in Int : lostBytes - lostSilence = r + (turns * m)
    BY <2>1 DEF CountsOK
  <2>3. (r + (turns * m)) % m = r
    BY <2>1, WrapUnique
  <2> QED BY <2>1, <2>2, <2>3
<1> QED BY <1>1, <1>2, <1>3 DEF FramesWhole

\* While there is room for every packet when it is written, frames of any size pass the
\* ring whole: every frame the consumer gets begins at its first channel, and nothing is
\* counted as lost (WasapiCapture.cpp, 111-127).
THEOREM FramesStayWhole == Spec /\ []RoomForPacket => []FramesWhole
<1>1. EndpointOK /\ RingOK /\ CountsOK /\ RoomForPacket /\ [Next]_vars => RingOK' /\ CountsOK'
  BY FramesNext
<1> QED BY <1>1, FramesInit, FramesHold, EndpointNext, PTL DEF Spec

\* The same through full rings, if the size of the ring is a multiple of that of a frame.
\* A Write then takes whole frames, and DroppedFrames is the number of frames of sound
\* that it did not take (WasapiCapture.cpp, 124-126); lost silence is not in it.  Of the
\* formats the driver offers this leaves out those with six channels.
THEOREM FullRingDropsWholeFrames == RingHoldsFrames => (Spec => []FramesWhole)
<1> SUFFICES ASSUME RingHoldsFrames PROVE Spec => []FramesWhole
  OBVIOUS
<1>1. EndpointOK /\ RingOK /\ CountsOK /\ [Next]_vars => RingOK' /\ CountsOK'
  BY FramesNext
<1> QED BY <1>1, FramesInit, FramesHold, EndpointNext, PTL DEF Spec

-----------------------------------------------------------------------------
(* The ring as the render side counts on it: the number of whole frames in *)
(* it rises by what a packet has, to what the ring can hold, and falls by  *)
(* what is taken.  This needs no hypothesis on frame and ring.             *)

Level == INSTANCE FrameLevel
             WITH Frames <- RingBytes \div FrameBytes, Chunks <- PacketFrames,
                  level <- Len(ring) \div FrameBytes

LEMMA DivUnique ==
    ASSUME NEW b \in Nat \ {0}, NEW q \in Nat, NEW r \in 0..b-1
    PROVE  ((q * b) + r) \div b = q
  BY SMT

LEMMA DivMonotone ==
    ASSUME NEW a \in Nat, NEW c \in Nat, NEW b \in Nat \ {0}, a <= c
    PROVE  a \div b <= c \div b
  BY SMT

\* Whole frames more or less are as many more or less after the division.
LEMMA DivShift ==
    ASSUME NEW a \in Nat, NEW n \in Nat, NEW b \in Nat \ {0}
    PROVE  (a + (n * b)) \div b = (a \div b) + n
<1>1. PICK q \in Nat, r \in 0..b-1, x \in Nat : a = x + r /\ q = a \div b /\ x = q * b
  BY DivMod, TimesNat
<1>2. PICK y \in Nat : y = n * b
  BY TimesNat
<1>3. (q + n) * b = x + y
  BY <1>1, <1>2, Distributes
<1>4. a + (n * b) = ((q + n) * b) + r
  BY <1>1, <1>2, <1>3
<1>5. (((q + n) * b) + r) \div b = q + n
  <2>1. q + n \in Nat
    OBVIOUS
  <2> QED BY <2>1, DivUnique
<1> QED BY <1>1, <1>4, <1>5

LEMMA DivShiftDown ==
    ASSUME NEW a \in Nat, NEW n \in Nat, NEW b \in Nat \ {0}, n * b <= a
    PROVE  n <= a \div b /\ (a - (n * b)) \div b = (a \div b) - n
<1>1. PICK y \in Nat, c \in Nat : y = n * b /\ c = a - y
  BY TimesNat
<1>2. (c + (n * b)) \div b = (c \div b) + n
  BY DivShift
<1>3. c + (n * b) = a
  BY <1>1
<1>4. c \div b \in Nat
  BY DivMod
<1> QED BY <1>1, <1>2, <1>3, <1>4

\* The level, after n frames were offered.
Filled(l, n) ==
    IF l + n <= RingBytes \div FrameBytes THEN l + n ELSE RingBytes \div FrameBytes

\* Of n frames offered, the level rises by all, or to the top.
LEMMA LevelRises ==
    ASSUME NEW n \in Nat, NEW len \in Nat, len <= RingBytes, NEW after,
           after = len + Smaller(n * FrameBytes, RingBytes - len)
    PROVE  after \div FrameBytes = Filled(len \div FrameBytes, n)
<1> USE CaptureAssumption DEF Filled
<1>1. PICK wanted \in Nat, top \in Nat, l \in Nat :
        wanted = n * FrameBytes /\ top = RingBytes \div FrameBytes /\ l = len \div FrameBytes
  <2>1. n * FrameBytes \in Nat /\ RingBytes \div FrameBytes \in Nat /\ len \div FrameBytes \in Nat
    <3>1. n * FrameBytes \in Nat
      BY TimesNat
    <3>2. RingBytes \div FrameBytes \in Nat /\ len \div FrameBytes \in Nat
      BY DivMod
    <3> QED BY ONLY <3>1, <3>2
  <2> QED BY ONLY <2>1
<1>2. (len + wanted) \div FrameBytes = l + n
  <2>1. (len + (n * FrameBytes)) \div FrameBytes = (len \div FrameBytes) + n
    BY DivShift
  <2> QED BY ONLY <1>1, <2>1
<1>3. CASE wanted <= RingBytes - len
  <2>1. after = len + wanted /\ len + wanted \in Nat /\ len + wanted <= RingBytes
    BY <1>1, <1>3 DEF Smaller
  <2>2. l + n <= top
    BY <1>1, <1>2, <2>1, DivMonotone
  <2> QED BY <1>1, <1>2, <2>1, <2>2
<1>4. CASE ~(wanted <= RingBytes - len)
  <2>1. after = RingBytes /\ RingBytes <= len + wanted /\ len + wanted \in Nat
    BY <1>1, <1>4 DEF Smaller
  <2>2. top <= l + n
    BY <1>1, <1>2, <2>1, DivMonotone
  <2> QED BY <1>1, <2>1, <2>2
<1> QED BY <1>3, <1>4

RingFits == ring \in Seq(Nat) /\ Len(ring) <= RingBytes

\* What a Write leaves in the ring, whatever the sizes of frame and ring.
LEMMA WriteFits ==
    ASSUME RingFits, NEW n \in Nat
    PROVE  /\ Written(n) \in Seq(Nat) /\ Len(Written(n)) <= RingBytes
           /\ Len(Written(n)) = Len(ring) + Smaller(n * FrameBytes, RingBytes - Len(ring))
<1> USE CaptureAssumption
<1>1. PICK wanted \in Nat, len \in 0..RingBytes : wanted = n * FrameBytes /\ len = Len(ring)
  <2>1. n * FrameBytes \in Nat /\ Len(ring) \in 0..RingBytes
    BY TimesNat, LenProperties DEF RingFits
  <2> QED BY ONLY <2>1
<1>2. PICK taken \in 0..wanted : taken = Smaller(wanted, RingBytes - len) /\ taken <= RingBytes - len
  <2>1. CASE wanted <= RingBytes - len
    BY <2>1 DEF Smaller
  <2>2. CASE ~(wanted <= RingBytes - len)
    BY <2>2 DEF Smaller
  <2> QED BY <2>1, <2>2
<1>3. \A i \in 1..taken : FramesOf(n)[i] \in Nat
  <2>1. \A i \in 1..wanted : FramesOf(n)[i] = (i - 1) % FrameBytes
    BY <1>1 DEF FramesOf
  <2>2. \A i \in 1..wanted : (i - 1) % FrameBytes \in Nat
    BY DivMod
  <2> QED BY <2>1, <2>2
<1>4. PICK more : more = SubSeq(FramesOf(n), 1, taken)
  OBVIOUS
<1>5. more \in Seq(Nat) /\ Len(more) = taken
  <2>1. /\ SubSeq(FramesOf(n), 1, taken) \in Seq(Nat)
        /\ Len(SubSeq(FramesOf(n), 1, taken)) = IF 1 <= taken THEN taken - 1 + 1 ELSE 0
    BY <1>3, SubSeqProperties
  <2> QED BY <1>4, <2>1
<1>6. ring \o more \in Seq(Nat) /\ Len(ring \o more) = Len(ring) + Len(more)
  BY ONLY <1>5, RingFits, ConcatProperties DEF RingFits
<1>7. Written(n) = ring \o more
  BY <1>1, <1>2, <1>4 DEF Written, Taken
<1> QED BY <1>1, <1>2, <1>5, <1>6, <1>7

\* What the consumer leaves.
LEMMA ConsumeFits ==
    ASSUME RingFits, NEW n \in ReadFrames, Consume(n)
    PROVE  ring' \in Seq(Nat) /\ Len(ring') = Len(ring) - (n * FrameBytes) /\ Len(ring') <= RingBytes
<1> USE CaptureAssumption
<1>1. PICK gone \in Nat, len \in Nat :
        gone = n * FrameBytes /\ len = Len(ring) /\ gone <= len /\ len <= RingBytes
  <2>1. n * FrameBytes \in Nat
    BY TimesNat
  <2>2. Len(ring) \in Nat /\ n * FrameBytes <= Len(ring)
    BY LenProperties DEF RingFits, Consume
  <2> QED BY ONLY <2>1, <2>2, RingFits DEF RingFits
<1>2. ring' = SubSeq(ring, gone + 1, len)
  BY <1>1 DEF Consume
<1>3. /\ SubSeq(ring, gone + 1, len) \in Seq(Nat)
      /\ Len(SubSeq(ring, gone + 1, len)) = IF gone + 1 <= len THEN len - (gone + 1) + 1 ELSE 0
  <2>1. \A i \in (gone + 1)..len : ring[i] \in Nat
    <3>1. \A i \in (gone + 1)..len : i \in 1..Len(ring)
      BY <1>1
    <3> QED BY <3>1, ElementOfSeq DEF RingFits
  <2>2. gone + 1 \in Int /\ len \in Int
    OBVIOUS
  <2> QED BY ONLY <2>1, <2>2, SubSeqProperties
<1> QED BY ONLY <1>1, <1>2, <1>3, RingBytes \in Nat, gone \in Nat, len \in Nat

LEMMA RingWriters ==
    ASSUME [Next]_vars
    PROVE  UNCHANGED ring \/ CopyPacket \/ \E n \in ReadFrames : Consume(n)
BY Zenon DEF Next, vars, CaptureThread, Start, StopBegin, StopEnd, LoopTest, Poll,
             WakeForData, WakeForStop, NextPacket, Arrive, LoseDevice

\* A packet is written, unless it has no data.
LEMMA CopyWrites ==
    ASSUME EndpointOK, CopyPacket
    PROVE  UNCHANGED ring \/ \E n \in PacketFrames : ring' = Written(n)
<1>1. PICK n \in PacketFrames : n = Head(endpoint).frames
  BY HeadFrames
<1>2. ring' = ring \/ ring' = Written(n)
  BY <1>1 DEF CopyPacket
<1> QED BY <1>2

LEMMA RingFitsNext == ASSUME EndpointOK, RingFits, [Next]_vars PROVE RingFits'
<1>1. CASE UNCHANGED ring
  BY <1>1 DEF RingFits
<1>2. ASSUME NEW n \in PacketFrames, ring' = Written(n) PROVE RingFits'
  BY <1>2, WriteFits, CaptureAssumption DEF RingFits
<1>3. ASSUME NEW n \in ReadFrames, Consume(n) PROVE RingFits'
  BY <1>3, ConsumeFits DEF RingFits
<1> QED BY <1>1, <1>2, <1>3, RingWriters, CopyWrites

LEMMA LevelNext ==
    ASSUME EndpointOK, RingFits, [Next]_vars
    PROVE  [Level!LevelNext]_(Len(ring) \div FrameBytes)
<1> USE CaptureAssumption
<1>1. CASE UNCHANGED ring
  BY <1>1
<1>2. ASSUME NEW n \in PacketFrames, ring' = Written(n)
      PROVE  [Level!LevelNext]_(Len(ring) \div FrameBytes)
  <2>1. n \in Nat /\ n \in PacketFrames
    OBVIOUS
  <2>2. ring' = Written(n)
    BY <1>2
  <2>3. PICK len \in Nat, after \in Nat :
          len = Len(ring) /\ after = Len(Written(n)) /\ len <= RingBytes
    <3>1. Len(Written(n)) \in Nat
      BY WriteFits, LenProperties
    <3> QED BY <3>1, LenProperties DEF RingFits
  <2>4. after = len + Smaller(n * FrameBytes, RingBytes - len)
    BY <2>3, WriteFits
  <2>5. after \div FrameBytes = Filled(len \div FrameBytes, n)
    BY ONLY <2>3, <2>4, LevelRises, n \in Nat, len \in Nat, Zenon
  <2>6. Level!Put(n)
    BY ONLY <2>2, <2>3, <2>5 DEF Level!Put, Filled
  <2> QED BY <2>1, <2>6 DEF Level!LevelNext
<1>3. ASSUME NEW n \in ReadFrames, Consume(n) PROVE [Level!LevelNext]_(Len(ring) \div FrameBytes)
  <2>1. n \in Nat \ {0}
    OBVIOUS
  <2>2. PICK len \in Nat, after \in Nat :
          len = Len(ring) /\ after = Len(ring') /\ n * FrameBytes <= len
    <3>1. Len(ring') \in Nat
      BY <1>3, ConsumeFits, LenProperties
    <3> QED BY <1>3, <3>1, LenProperties, TimesNat DEF RingFits, Consume
  <2>3. after = len - (n * FrameBytes)
    BY <1>3, <2>2, ConsumeFits
  <2>4. n <= len \div FrameBytes /\ after \div FrameBytes = (len \div FrameBytes) - n
    <3>1. /\ n <= len \div FrameBytes
          /\ (len - (n * FrameBytes)) \div FrameBytes = (len \div FrameBytes) - n
      BY ONLY <2>1, <2>2, DivShiftDown, len \in Nat, n \in Nat, FrameBytes \in Nat \ {0}, Zenon
    <3> QED BY ONLY <2>3, <3>1
  <2>5. Level!Take(n)
    BY ONLY <2>2, <2>4 DEF Level!Take
  <2>6. n \in 1..(len \div FrameBytes)
    <3>1. len \div FrameBytes \in Nat
      BY DivMod
    <3> QED BY <2>1, <2>4, <3>1
  <2> QED BY <2>2, <2>5, <2>6 DEF Level!LevelNext
<1> QED BY <1>1, <1>2, <1>3, RingWriters, CopyWrites

\* The capture thread and its ring do to the level only what the render side counts on
\* (RingBuffer::Write in WasapiCapture::ThreadProc; WasapiPassthrough.cpp reads and
\* discards whole frames), whether or not the ring holds whole frames.
THEOREM CaptureFillsLevel == Spec => Level!LevelSpec
<1> USE CaptureAssumption
<1>1. Init => EndpointOK /\ RingFits /\ Len(ring) \div FrameBytes = 0
  <2>1. SUFFICES ASSUME Init PROVE EndpointOK /\ RingFits /\ Len(ring) \div FrameBytes = 0
    OBVIOUS
  <2>2. /\ <<>> \in Seq(Nat) /\ Len(<<>>) = 0
        /\ <<>> \in Seq(Packets)
    BY EmptySeq
  <2>3. ring = <<>> /\ endpoint = <<>> /\ gap = FALSE /\ phase = "idle"
    BY <2>1 DEF Init
  <2>4. EndpointOK
    BY <2>2, <2>3 DEF EndpointOK
  <2>5. 0 \div FrameBytes = 0
    BY SMT
  <2> QED BY <2>2, <2>3, <2>4, <2>5 DEF RingFits
<1>2. EndpointOK /\ RingFits /\ [Next]_vars => EndpointOK' /\ RingFits'
  BY EndpointNext, RingFitsNext
<1>3. EndpointOK /\ RingFits /\ [Next]_vars => [Level!LevelNext]_(Len(ring) \div FrameBytes)
  BY LevelNext
<1> QED BY <1>1, <1>2, <1>3, PTL DEF Spec, Level!LevelSpec

-----------------------------------------------------------------------------
(* The thread as its owner sees it                                         *)

ThreadOf(p) == CASE p = "idle" -> "none" [] p = "done" -> "left" [] OTHER -> "up"

Thread == INSTANCE OwnedThread WITH EndsAlone <- FALSE, thread <- ThreadOf(phase)

\* The event is only set for a thread that was told to stop, and Start clears it.
EventMeansStop == stopEvent => ~running

LEMMA ThreadNext ==
    ASSUME EventMeansStop, [Next]_vars
    PROVE  EventMeansStop' /\ [Thread!ThreadNext]_(Thread!threadVars)
<1> USE DEF EventMeansStop, ThreadOf
<1>1. CASE UNCHANGED <<running, stopEvent, joining, phase>>
  BY <1>1, Zenon DEF Thread!threadVars
<1>2. CASE Start
  <2>1. running' = TRUE /\ stopEvent' = FALSE /\ joining' = joining /\ phase' \in {"test", "idle"}
        /\ phase = "idle" /\ ~joining /\ ~running
    BY <1>2 DEF Start
  <2>2. Thread!Start
    BY <2>1 DEF Thread!Start
  <2> QED BY <2>1, <2>2 DEF Thread!ThreadNext
<1>3. CASE StopBegin
  <2>1. Thread!Stop
    BY <1>3 DEF StopBegin, Thread!Stop
  <2> QED BY <1>3, <2>1 DEF StopBegin, Thread!ThreadNext
<1>4. CASE StopEnd
  <2>1. Thread!Joined
    BY <1>4 DEF StopEnd, Thread!Joined
  <2> QED BY <1>4, <2>1 DEF StopEnd, Thread!ThreadNext
<1>5. ASSUME phase \notin {"idle", "done"}, ~running, phase' = "done", UNCHANGED ctlVars
      PROVE  EventMeansStop' /\ [Thread!ThreadNext]_(Thread!threadVars)
  <2>1. Thread!Leave
    BY <1>5 DEF Thread!Leave, ctlVars
  <2> QED BY <1>5, <2>1 DEF Thread!ThreadNext, ctlVars
<1>6. ASSUME phase \notin {"idle", "done"}, phase' \notin {"idle", "done"}, UNCHANGED ctlVars
      PROVE  EventMeansStop' /\ [Thread!ThreadNext]_(Thread!threadVars)
  BY <1>6 DEF Thread!threadVars, ctlVars
<1>7. CASE CaptureThread
  <2>1. UNCHANGED ctlVars /\ phase \notin {"idle", "done"}
        /\ (\/ phase' = "done" /\ (~running \/ stopEvent)
            \/ phase' \notin {"idle", "done"})
    BY <1>7 DEF CaptureThread, LoopTest, Poll, WakeForData, WakeForStop, NextPacket, CopyPacket
  <2> QED BY <1>5, <1>6, <2>1
<1> QED
  <2>1. (\E n \in PacketFrames, kind \in Kinds : Arrive(n, kind)) \/ LoseDevice
          \/ (\E n \in ReadFrames : Consume(n)) \/ UNCHANGED vars
        => UNCHANGED <<running, stopEvent, joining, phase>>
    BY Zenon DEF Arrive, LoseDevice, Consume, vars, ctlVars
  <2> QED BY <1>1, <1>2, <1>3, <1>4, <1>7, <2>1, Zenon DEF Next

\* Start, the capture thread and Stop keep what main relies on: one thread for each
\* Start at most, which ends only when told and is joined (WasapiCapture.cpp, Start,
\* ThreadProc and Stop).
THEOREM CaptureIsOwnedThread == Spec => Thread!ThreadSpec
<1>1. Init => EventMeansStop /\ Thread!ThreadInit
  BY DEF Init, EventMeansStop, Thread!ThreadInit, ThreadOf
<1>2. EventMeansStop /\ [Next]_vars => EventMeansStop' /\ [Thread!ThreadNext]_(Thread!threadVars)
  BY ThreadNext
<1> QED BY <1>1, <1>2, PTL DEF Spec, Thread!ThreadSpec
=============================================================================
