---------------------------- MODULE SaveData_proofs ----------------------------
(***************************************************************************)
(* The file writer, for any number of frames, work items and threads that  *)
(* the pool assumption allows: no frame is forgotten or released twice,    *)
(* index and offset stay together, and after STOP no worker is left.          *)
(***************************************************************************)
EXTENDS SaveData, FiniteSetTheorems, WellFoundedInduction, TLAPS

-----------------------------------------------------------------------------
(* The inductive invariant                                                 *)

\* Items a thread is at work with.
Busy == {i \in Item : items[i].st \in {"writing", "cleared"}}

Works == [st : {"done", "queued", "writing", "cleared"}, frame : 0..FrameCount, size : 0..FrameSize]

TypeOK ==
    /\ stream \in {"pause", "run", "drain", "stop"} /\ waited \in 0..ItemCount
    /\ offset \in Nat /\ index \in Frame /\ used \in [Frame -> BOOLEAN] /\ disabled \in BOOLEAN
    /\ pc \in {"idle", "left", "save"} /\ left \in Nat /\ saving \in Frame \cup {NoFrame}
    /\ items \in [Item -> Works]

\* The offset lies in the frame of the index; what did not fit starts a new round.
Positioned ==
    /\ Partial \in 0..(FrameSize - 1)
    /\ pc = "left" => offset = 0 /\ index = 0 /\ left \in 1..(FrameSize - 1)
    /\ pc # "left" => left = 0

\* A frame about to be queued is marked, and nothing saves it yet.
Saving ==
    /\ saving = NoFrame <=> pc = "idle"
    /\ pc # "idle" => stream = "run"
    /\ saving # NoFrame => used[saving] /\ \A i \in InFlight : items[i].frame # saving

\* Threads at work, and what they work at: whole frames that are marked, each by one item.
\* Only STOP queues a partial frame, and writes nothing before all items are done.
Queue ==
    /\ Cardinality(Busy) <= Workers
    /\ \A i \in Item : items[i].st # "done" => items[i].frame \in Frame
    /\ stream # "drain" =>
         /\ \A i \in InFlight : items[i].size = FrameSize /\ used[items[i].frame]
         /\ \A i, j \in InFlight : items[i].frame = items[j].frame => i = j

\* What STOP found done stays done.
Drained ==
    /\ stream = "drain" => \A i \in 1..waited : items[i].st = "done"
    /\ stream # "drain" => waited = 0
    /\ stream = "stop" => Idle = Item

IInv ==
    /\ TypeOK /\ Positioned /\ Saving /\ Queue /\ Drained
    /\ UsedFramesAreOnTheirWay

-----------------------------------------------------------------------------
(* Minima                                                                  *)

\* Where there is a least element, Min is one.
LEMMA MinIsLeast ==
    ASSUME NEW S, \E x \in S : \A y \in S : x =< y
    PROVE  Min(S) \in S /\ \A y \in S : Min(S) =< y
  BY Zenon DEF Min

\* The work item that GetNewWorkItem picks.
LEMMA MinOfItems ==
    ASSUME NEW S, S \subseteq Item, S # {}
    PROVE  Min(S) \in S
<1>1. S \subseteq Nat
  BY SMT DEF Item
<1>2. \E x \in S : \A y \in S : ~ (<<y, x>> \in OpToRel(<, Nat))
  <2>1. PICK R : R = OpToRel(<, Nat)
    BY Zenon
  <2>2. IsWellFoundedOn(R, Nat)
    BY <2>1, NatLessThanWellFounded, Zenon
  <2>3. \E x \in S : \A y \in S : ~ (<<y, x>> \in R)
    BY ONLY <1>1, <2>2, S # {}, WFMin
  <2> QED BY <2>1, <2>3, Zenon
<1>3. \A x, y \in Nat : y < x => <<y, x>> \in OpToRel(<, Nat)
  <2>1. ASSUME NEW x \in Nat, NEW y \in Nat, y < x PROVE <<y, x>> \in {ss \in Nat \X Nat : ss[1] < ss[2]}
    BY <2>1, SMT
  <2> QED BY <2>1, Zenon DEF OpToRel
<1>4. \E x \in S : \A y \in S : ~(y < x)
  BY <1>1, <1>2, <1>3, Zenon
<1>5. \E x \in S : \A y \in S : x =< y
  BY <1>1, <1>4, SMT
<1> QED BY <1>5, MinIsLeast

LEMMA MinOfTwo ==
    ASSUME NEW a \in Int, NEW b \in Int
    PROVE  /\ Min({a, b}) \in {a, b}
           /\ Min({a, b}) =< a /\ Min({a, b}) =< b
<1>1. \E x \in {a, b} : \A y \in {a, b} : x =< y
  <2>1. CASE a =< b
    BY <2>1, SMT
  <2>2. CASE b < a
    BY <2>2, SMT
  <2> QED BY <2>1, <2>2, SMT
<1> QED BY <1>1, MinIsLeast

LEMMA MinOfThree ==
    ASSUME NEW a \in Int, NEW b \in Int, NEW c \in Int
    PROVE  /\ Min({a, b, c}) \in {a, b, c}
           /\ Min({a, b, c}) =< a /\ Min({a, b, c}) =< b /\ Min({a, b, c}) =< c
<1>1. \E x \in {a, b, c} : \A y \in {a, b, c} : x =< y
  <2>1. CASE a =< b /\ a =< c
    BY <2>1, SMT
  <2>2. CASE b =< a /\ b =< c
    BY <2>2, SMT
  <2>3. CASE c =< a /\ c =< b
    BY <2>3, SMT
  <2> QED BY <2>1, <2>2, <2>3, SMT
<1> QED BY <1>1, MinIsLeast

-----------------------------------------------------------------------------
(* The pool                                                                *)

LEMMA BusyIsFinite == IsFiniteSet(Busy) /\ Cardinality(Busy) \in Nat
<1>1. IsFiniteSet(Item)
  BY FS_Interval, SaveDataAssumption DEF Item
<1>2. Busy \in SUBSET Item
  BY DEF Busy
<1>3. IsFiniteSet(Busy)
  BY ONLY <1>1, <1>2, FS_Subset
<1> QED BY ONLY <1>3, FS_CardinalityType

\* Every frame has at most one item in flight and every thread one at work, so the
\* pool has one left for whoever calls SaveFrame.
LEMMA PoolSuffices ==
    ASSUME TypeOK, Queue, stream # "drain"
    PROVE  Idle # {}
<1>1. IsFiniteSet(Frame) /\ Cardinality(Frame) = FrameCount
  BY FS_Interval, SaveDataAssumption, SMT DEF Frame
<1> DEFINE carries == [i \in InFlight |-> items[i].frame]
<1>2. carries \in Injection(InFlight, Frame)
  <2>1. \A i \in InFlight : items[i].frame \in Frame
    BY DEF Queue, InFlight
  <2>2. \A i, j \in InFlight : items[i].frame = items[j].frame => i = j
    BY DEF Queue
  <2> QED BY <2>1, <2>2, Zenon DEF Injection, IsInjective
<1>3. IsFiniteSet(InFlight) /\ Cardinality(InFlight) <= FrameCount
  <2>1. IsFiniteSet(InFlight) /\ Cardinality(InFlight) <= Cardinality(Frame)
    <3>1. PICK c : c = carries
      OBVIOUS
    <3>2. c \in Injection(InFlight, Frame)
      BY <3>1, <1>2
    <3> QED BY ONLY <3>2, <1>1, FS_Injection
  <2> QED BY <1>1, <2>1
<1>4. SUFFICES ASSUME Idle = {} PROVE FALSE
  OBVIOUS
<1>5. Item \subseteq InFlight \cup Busy
  BY <1>4, Zenon DEF TypeOK, Idle, InFlight, Busy, Works
<1>6. Item = InFlight \cup Busy
  BY <1>5 DEF InFlight, Busy
<1>7. /\ IsFiniteSet(InFlight \cup Busy)
      /\ Cardinality(InFlight \cup Busy)
           = Cardinality(InFlight) + Cardinality(Busy) - Cardinality(InFlight \cap Busy)
  BY ONLY <1>3, BusyIsFinite, FS_Union
<1>8. Cardinality(Item) = ItemCount
  BY FS_Interval, SaveDataAssumption, SMT DEF Item
<1>9. Cardinality(InFlight) \in Nat /\ Cardinality(InFlight \cap Busy) \in Nat
  BY <1>3, FS_CardinalityType, FS_Intersection
<1> QED
  BY <1>3, <1>6, <1>7, <1>8, <1>9, BusyIsFinite, PoolAssumption, SaveDataAssumption, SMT DEF Queue

-----------------------------------------------------------------------------
(* The places of the frames                                                *)

LEMMA FramePlaces ==
    ASSUME NEW f \in Frame
    PROVE  /\ BufferSize \in Nat /\ f * FrameSize \in Nat
           /\ (f + 1) * FrameSize = (f * FrameSize) + FrameSize
           /\ (f + 1) * FrameSize <= BufferSize
           /\ f + 1 = FrameCount => (f + 1) * FrameSize = BufferSize
<1>1. \A a, b \in Nat : a * b \in Nat
  BY SMT
<1>2. \A a, b \in Nat : (a + 1) * b = (a * b) + b
  BY SMT
<1>3. \A a, b, c \in Nat : (a + c) * b = (a * b) + (c * b)
  BY SMT
<1>4. FrameCount - (f + 1) \in Nat /\ f \in Nat /\ FrameSize \in Nat /\ FrameCount \in Nat
  BY SaveDataAssumption, SMT DEF Frame
<1>5. FrameCount * FrameSize = ((f + 1) * FrameSize) + ((FrameCount - (f + 1)) * FrameSize)
  <2>1. (f + 1) + (FrameCount - (f + 1)) = FrameCount
    BY <1>4, SMT
  <2> QED BY <1>3, <1>4, <2>1, SMT
<1>6. (FrameCount - (f + 1)) * FrameSize \in Nat /\ (f + 1) * FrameSize \in Nat
  BY <1>1, <1>4, SMT
<1>7. f * FrameSize \in Nat /\ FrameCount * FrameSize \in Nat
  BY <1>1, <1>4
<1>8. (f + 1) * FrameSize = (f * FrameSize) + FrameSize
  BY <1>2, <1>4
<1>9. (f + 1) * FrameSize <= FrameCount * FrameSize
  <2> DEFINE a == (f + 1) * FrameSize  b == (FrameCount - (f + 1)) * FrameSize
             c == FrameCount * FrameSize
  <2>1. a \in Nat /\ b \in Nat /\ c = a + b
    BY <1>5, <1>6
  <2> HIDE DEF a, b, c
  <2>2. a <= c
    BY <2>1, SMT
  <2> QED BY <2>2 DEF a, c
<1>10. f + 1 = FrameCount => (f + 1) * FrameSize = FrameCount * FrameSize
  OBVIOUS
<1> QED BY <1>7, <1>8, <1>9, <1>10, Zenon DEF BufferSize

\* Where the copy of a call of WriteData ends.
LEMMA CopyEnds ==
    ASSUME TypeOK, Positioned, NEW n \in 1..MaxRequest
    PROVE  /\ Clipped(n) \in 1..FrameSize
           /\ Min({n, FrameSize}) - Clipped(n) \in 0..(FrameSize - 1)
           /\ Min({n, FrameSize}) # Clipped(n) => offset + Clipped(n) = BufferSize
           /\ offset + Clipped(n) <= BufferSize
<1>1. n \in Nat /\ n >= 1 /\ FrameSize \in Nat /\ FrameSize >= 1 /\ index \in Frame /\ offset \in Nat
  BY SaveDataAssumption, SMT DEF TypeOK
<1>2. BufferSize \in Nat /\ index * FrameSize \in Nat /\ (index * FrameSize) + FrameSize <= BufferSize
  BY <1>1, FramePlaces
<1>3. BufferSize - offset >= 1 /\ BufferSize - offset \in Int
  BY <1>1, <1>2, SMT DEF Positioned, Partial
<1>4. /\ Clipped(n) \in {n, FrameSize, BufferSize - offset}
      /\ Clipped(n) =< n /\ Clipped(n) =< FrameSize /\ Clipped(n) =< BufferSize - offset
  <2>1. PICK c \in Int : c = BufferSize - offset
    BY <1>3
  <2>2. /\ Min({n, FrameSize, c}) \in {n, FrameSize, c}
        /\ Min({n, FrameSize, c}) =< n /\ Min({n, FrameSize, c}) =< FrameSize
        /\ Min({n, FrameSize, c}) =< c
    <3>1. n \in Int /\ FrameSize \in Int
      BY <1>1, SMT
    <3> QED BY ONLY <3>1, c \in Int, MinOfThree
  <2> QED BY ONLY <2>1, <2>2 DEF Clipped
<1>5. Min({n, FrameSize}) \in {n, FrameSize} /\ Min({n, FrameSize}) =< n /\ Min({n, FrameSize}) =< FrameSize
  <2>1. n \in Int /\ FrameSize \in Int
    BY <1>1, SMT
  <2> QED BY ONLY <2>1, MinOfTwo
<1> QED BY ONLY <1>1, <1>2, <1>3, <1>4, <1>5, SMT

-----------------------------------------------------------------------------
(* The writer's steps                                                      *)

LEMMA SameItems ==
    ASSUME UNCHANGED items
    PROVE  Busy' = Busy /\ InFlight' = InFlight /\ Idle' = Idle
  BY Zenon DEF Busy, InFlight, Idle

LEMMA WriteBeginKeeps ==
    ASSUME IInv, NEW n \in 1..MaxRequest, WriteBegin(n)
    PROVE  IInv'
<1> DEFINE w == Clipped(n)  off == offset + w
<1>1. /\ stream = "run" /\ pc = "idle" /\ ~used[index] /\ left = 0 /\ saving = NoFrame
      /\ UNCHANGED <<stream, waited, disabled, items>>
  BY Zenon DEF IInv, WriteBegin, Saving, Positioned
<1>2. Busy' = Busy /\ InFlight' = InFlight /\ Idle' = Idle
  BY <1>1, SameItems
<1>3. /\ w \in 1..FrameSize /\ left' \in 0..(FrameSize - 1)
      /\ left' # 0 => off = BufferSize
      /\ off <= BufferSize
  <2>1. left' = Min({n, FrameSize}) - w
    BY DEF WriteBegin
  <2>2. /\ w \in 1..FrameSize /\ Min({n, FrameSize}) - w \in 0..(FrameSize - 1)
        /\ Min({n, FrameSize}) # w => off = BufferSize
        /\ off <= BufferSize
    BY CopyEnds, Zenon DEF IInv
  <2>3. Min({n, FrameSize}) = w => Min({n, FrameSize}) - w = 0
    BY <2>2, SMT
  <2> QED BY <2>1, <2>2, <2>3, Zenon
<1> HIDE DEF w
<1>4. /\ index \in Frame /\ index \in Nat /\ offset \in Nat /\ FrameSize \in Nat \ {0} /\ FrameCount \in Nat \ {0}
      /\ index + 1 <= FrameCount /\ NoFrame \notin Frame
  BY SaveDataAssumption, SMT DEF IInv, TypeOK, Frame, NoFrame
<1>5. /\ BufferSize \in Nat /\ index * FrameSize \in Nat
      /\ (index + 1) * FrameSize = (index * FrameSize) + FrameSize
      /\ (index + 1) * FrameSize <= BufferSize
      /\ index + 1 = FrameCount => (index + 1) * FrameSize = BufferSize
  BY <1>4, FramePlaces
<1>6. Partial \in 0..(FrameSize - 1) /\ offset = (index * FrameSize) + Partial
  BY <1>4, <1>5, SMT DEF IInv, Positioned, Partial
<1>7. /\ \A i \in InFlight : items[i].size = FrameSize /\ used[items[i].frame] /\ items[i].frame \in Frame
      /\ \A i \in InFlight : items[i].frame # index
  BY <1>1, Zenon DEF IInv, Queue, InFlight
<1>9. CASE FillsFrame(off)
  <2>1. /\ offset' = IF off = BufferSize THEN 0 ELSE off
        /\ used' = [used EXCEPT ![index] = TRUE]
        /\ saving' = index /\ index' = (index + 1) % FrameCount
        /\ pc' = IF left' > 0 THEN "left" ELSE "save"
    BY <1>9, Zenon DEF WriteBegin, Advance, w
  <2>2. off >= (index * FrameSize) + FrameSize
    BY <1>9, <1>5, SMT DEF FillsFrame
  <2>3. /\ index' \in Frame /\ offset' \in Nat
        /\ offset' - (index' * FrameSize) = Partial + w - FrameSize
        /\ Partial + w - FrameSize \in 0..(FrameSize - 1)
        /\ left' # 0 => offset' = 0 /\ index' = 0
    <3>1. Partial + w - FrameSize \in 0..(FrameSize - 1)
      BY <1>3, <1>4, <1>6, <1>5, <2>2, SMT
    <3>2. CASE index + 1 = FrameCount
      <4>1. index' = 0
        BY <3>2, <2>1, <1>4, SMT
      <4>2. off = BufferSize
        BY <3>2, <2>2, <1>5, <1>3, <1>4, SMT
      <4>3. offset' = 0
        BY <2>1, <4>2
      <4>4. index' * FrameSize = 0
        BY <4>1, <1>4, SMT
      <4>5. Partial + w - FrameSize = 0
        BY <3>2, <4>2, <1>5, <1>6, <1>3, <1>4, SMT
      <4> QED BY <3>1, <4>1, <4>3, <4>4, <4>5, <1>4, SMT DEF Frame
    <3>3. CASE index + 1 < FrameCount
      <4>1. index' = index + 1 /\ index + 1 \in Frame
        BY <3>3, <2>1, <1>4, SMT DEF Frame
      <4>2. /\ (index + 1 + 1) * FrameSize = ((index + 1) * FrameSize) + FrameSize
            /\ (index + 1 + 1) * FrameSize <= BufferSize
        BY <4>1, FramePlaces
      <4>3. off < BufferSize
        BY <3>1, <4>2, <1>5, <1>6, <1>3, <1>4, SMT
      <4>4. left' = 0
        BY <4>3, <1>3, <1>5, SMT
      <4>5. offset' = off
        BY <2>1, <4>3, <1>5, <1>4, <1>3, SMT
      <4> QED BY <3>1, <4>1, <4>4, <4>5, <1>5, <1>6, <1>3, <1>4, SMT
    <3> QED BY <3>2, <3>3, <1>4, SMT
  <2>4. Partial' = Partial + w - FrameSize
    BY <2>3 DEF Partial
  <2>5. used' \in [Frame -> BOOLEAN] /\ used'[index] /\ \A f \in Frame : f # index => used'[f] = used[f]
    BY <2>1, <1>4 DEF IInv, TypeOK
  <2>6. TypeOK'
    <3>1. left' \in Nat
      BY <1>3, <1>4, SMT DEF IInv, TypeOK
    <3> QED BY <1>1, <1>4, <2>1, <2>3, <2>5, <3>1 DEF IInv, TypeOK
  <2>7. Positioned'
    <3>1. Partial' \in 0..(FrameSize - 1)
      BY <2>3, <2>4
    <3>2. pc' = "left" => offset' = 0 /\ index' = 0 /\ left' \in 1..(FrameSize - 1)
      BY <2>1, <2>3, <1>3, <1>4, SMT
    <3>3. pc' # "left" => left' = 0
      BY <2>1, <1>3, <1>4, SMT
    <3> QED BY <3>1, <3>2, <3>3, Zenon DEF Positioned
  <2>8. Saving'
    BY <1>1, <1>2, <1>4, <1>7, <2>1, <2>5 DEF Saving, NoFrame
  <2>9. Queue'
    <3>1. \A i \in InFlight : used'[items[i].frame]
      BY <1>7, <2>5
    <3> QED BY <1>1, <1>2, <3>1, Zenon DEF IInv, Queue
  <2>10. UsedFramesAreOnTheirWay'
    BY <1>1, <1>2, <2>1, <2>5 DEF IInv, UsedFramesAreOnTheirWay, NoFrame, Frame
  <2> QED BY <1>1, <1>2, <2>6, <2>7, <2>8, <2>9, <2>10, Zenon DEF IInv, Drained
<1>10. CASE ~FillsFrame(off)
  <2>1. /\ offset' = IF off = BufferSize THEN 0 ELSE off
        /\ UNCHANGED <<used, saving, index, pc>>
    BY <1>10, Zenon DEF WriteBegin, w
  <2>2. off < (index * FrameSize) + FrameSize
    BY <1>10, <1>5, <1>3, <1>4, SMT DEF FillsFrame
  <2>3. off < BufferSize /\ left' = 0 /\ offset' = off
    BY <2>1, <2>2, <1>3, <1>4, <1>5, SMT
  <2>4. Partial' = Partial + w /\ Partial' \in 0..(FrameSize - 1)
    BY <2>1, <2>2, <2>3, <1>3, <1>4, <1>5, <1>6, SMT DEF Partial
  <2>5. TypeOK'
    <3>1. left' \in Nat /\ offset' \in Nat
      BY <2>3, <1>3, <1>4, SMT DEF IInv, TypeOK
    <3> QED BY <1>1, <2>1, <3>1, Zenon DEF IInv, TypeOK
  <2>6. Positioned'
    BY <1>1, <2>1, <2>3, <2>4, Zenon DEF Positioned
  <2>7. Saving' /\ Queue' /\ UsedFramesAreOnTheirWay' /\ Drained'
    BY <1>1, <1>2, <2>1, Zenon DEF IInv, Saving, Queue, UsedFramesAreOnTheirWay, Drained
  <2> QED BY <2>5, <2>6, <2>7, Zenon DEF IInv
<1> QED BY <1>9, <1>10

LEMMA WriteLeftKeeps == ASSUME IInv, WriteLeft PROVE IInv'
<1>1. /\ pc = "left" /\ pc' = "save" /\ left' = 0 /\ stream = "run"
      /\ offset = 0 /\ index = 0 /\ left \in 1..(FrameSize - 1) /\ saving # NoFrame
      /\ UNCHANGED <<stream, waited, index, saving, used, disabled, items>>
  BY Zenon DEF IInv, WriteLeft, Positioned, Saving
<1>2. Busy' = Busy /\ InFlight' = InFlight /\ Idle' = Idle
  BY <1>1, SameItems
<1>3. offset' = offset \/ offset' = left
  BY <1>1, SaveDataAssumption, SMT DEF WriteLeft
<1>4. index * FrameSize = 0 /\ Partial = 0 /\ Partial' = offset'
  BY <1>1, <1>3, SaveDataAssumption, SMT DEF Partial
<1>5. Partial' \in 0..(FrameSize - 1) /\ offset' \in Nat
  BY <1>1, <1>3, <1>4, SaveDataAssumption, SMT DEF IInv, TypeOK
<1>8. TypeOK'
  BY <1>1, <1>5 DEF IInv, TypeOK
<1>9. Positioned'
  BY <1>1, <1>5, Zenon DEF Positioned
<1>10. Saving' /\ Queue' /\ UsedFramesAreOnTheirWay' /\ Drained'
  BY <1>1, <1>2, Zenon DEF IInv, Saving, Queue, UsedFramesAreOnTheirWay, Drained
<1> QED BY <1>8, <1>9, <1>10, Zenon DEF IInv

\* SaveFrame puts one idle item into flight, with the frame and the size.
LEMMA SaveFrameQueues ==
    ASSUME TypeOK, Queue, stream # "drain", NEW f \in Frame, NEW k \in 0..FrameSize, SaveFrame(f, k)
    PROVE  \E i \in Idle :
             /\ items' \in [Item -> Works]
             /\ items'[i] = [st |-> "queued", frame |-> f, size |-> k]
             /\ \A j \in Item \ {i} : items'[j] = items[j]
             /\ InFlight' = InFlight \cup {i} /\ Busy' = Busy
<1>1. Idle # {} /\ Idle \subseteq Item
  BY PoolSuffices DEF Idle
<1>2. PICK i \in Idle : i = Min(Idle)
  BY <1>1, MinOfItems
<1>3. items' = [items EXCEPT ![i] = [st |-> "queued", frame |-> f, size |-> k]]
  BY <1>1, <1>2, Zenon DEF SaveFrame
<1>4. i \in Item /\ items[i].st = "done" /\ items \in [Item -> Works]
  BY <1>1 DEF TypeOK, Idle
<1>5. [st |-> "queued", frame |-> f, size |-> k] \in Works
  BY SaveDataAssumption, SMT DEF Works, Frame
<1>6. /\ items' \in [Item -> Works]
      /\ items'[i] = [st |-> "queued", frame |-> f, size |-> k]
      /\ \A j \in Item \ {i} : items'[j] = items[j]
  BY <1>3, <1>4, <1>5
<1>7. items'[i].st = "queued" /\ items'[i].size = k
  BY <1>6
<1>8. InFlight' = InFlight \cup {i}
  BY <1>4, <1>6, <1>7, Zenon DEF InFlight
<1>9. Busy' = Busy
  BY <1>4, <1>6, <1>7 DEF Busy
<1> QED BY <1>6, <1>8, <1>9

LEMMA WriteSaveKeeps == ASSUME IInv, WriteSave PROVE IInv'
<1>1. /\ pc = "save" /\ pc' = "idle" /\ stream = "run" /\ stream' = "run" /\ left' = 0
      /\ saving \in Frame /\ saving' = NoFrame /\ used[saving] /\ \A i \in InFlight : items[i].frame # saving
      /\ SaveFrame(saving, FrameSize)
      /\ UNCHANGED <<stream, waited, offset, index, left, used, disabled>>
  BY Zenon DEF IInv, TypeOK, WriteSave, Saving, Positioned
<1>2. FrameSize \in 0..FrameSize /\ FrameSize \in Nat
  BY SaveDataAssumption, SMT
<1>3. PICK i \in Idle :
        /\ items' \in [Item -> Works]
        /\ items'[i] = [st |-> "queued", frame |-> saving, size |-> FrameSize]
        /\ \A j \in Item \ {i} : items'[j] = items[j]
        /\ InFlight' = InFlight \cup {i} /\ Busy' = Busy
  <2>1. stream # "drain"
    BY <1>1
  <2> QED BY <1>1, <1>2, <2>1, SaveFrameQueues DEF IInv
<1>4. /\ i \in Item /\ i \notin InFlight /\ InFlight \subseteq Item
      /\ items'[i].st = "queued" /\ items'[i].frame = saving /\ items'[i].size = FrameSize
  BY <1>3 DEF Idle, InFlight
<1>5. \A j \in InFlight : items'[j] = items[j]
  BY <1>3, <1>4
<1>6. NoFrame \notin Frame /\ NoFrame = FrameCount
  BY SaveDataAssumption, SMT DEF Frame, NoFrame
<1>7. TypeOK'
  BY <1>1, <1>3 DEF IInv, TypeOK
<1>8. Positioned'
  <2>1. Partial' = Partial
    BY <1>1 DEF Partial
  <2> QED BY <1>1, <2>1, Zenon DEF IInv, Positioned
<1>9. Saving'
  BY <1>1, Zenon DEF Saving
<1>10. Queue'
  <2>1. Cardinality(Busy') <= Workers
    BY <1>3, Zenon DEF IInv, Queue
  <2>2. \A j \in Item : items'[j].st # "done" => items'[j].frame \in Frame
    BY <1>1, <1>3, <1>4, Zenon DEF IInv, Queue
  <2>3. \A j \in InFlight' : items'[j].size = FrameSize /\ used'[items'[j].frame]
    BY <1>1, <1>3, <1>4, <1>5, Zenon DEF IInv, Queue
  <2>4. \A j, k \in InFlight' : items'[j].frame = items'[k].frame => j = k
    BY <1>1, <1>3, <1>4, <1>5 DEF IInv, Queue
  <2> QED BY <2>1, <2>2, <2>3, <2>4, Zenon DEF Queue
<1>11. Drained'
  BY <1>1, Zenon DEF IInv, Drained
<1>12. UsedFramesAreOnTheirWay'
  <2>1. ASSUME NEW f \in Frame, used'[f] PROVE \E j \in InFlight' : items'[j].frame = f
    <3>1. CASE f = saving
      BY <3>1, <1>3, <1>4
    <3>2. CASE f # saving
      <4>1. PICK j \in InFlight : items[j].frame = f
        BY <3>2, <2>1, <1>1, Zenon DEF IInv, UsedFramesAreOnTheirWay
      <4> QED BY <4>1, <1>3, <1>5
    <3> QED BY <3>1, <3>2
  <2> QED BY <2>1, Zenon DEF UsedFramesAreOnTheirWay
<1> QED BY <1>7, <1>8, <1>9, <1>10, <1>11, <1>12, Zenon DEF IInv

-----------------------------------------------------------------------------
(* The workers' steps                                                      *)

LEMMA WriterStands ==
    ASSUME TypeOK, Positioned, UNCHANGED writerVars
    PROVE  Positioned' /\ Partial' = Partial /\ Partial \in Nat
<1>1. UNCHANGED <<offset, index, pc, left, saving>>
  BY Zenon DEF writerVars
<1>2. Partial' = Partial
  BY <1>1, Zenon DEF Partial
<1>3. Partial \in Nat
  BY SaveDataAssumption, SMT DEF Positioned
<1> QED BY <1>1, <1>2, <1>3, Zenon DEF Positioned

\* The three steps change the state of one item that is under way.
LEMMA WorkerBeginKeeps == ASSUME IInv, NEW i \in Item, WorkerBegin(i) PROVE IInv'
<1>1. /\ items[i].st = "queued" /\ items' = [items EXCEPT ![i].st = "writing"]
      /\ UNCHANGED <<stream, waited, writerVars, used, disabled>>
      /\ items \in [Item -> Works] /\ offset \in Nat
  BY Zenon DEF IInv, TypeOK, WorkerBegin, At
<1>2. UNCHANGED <<offset, index, pc, left, saving>>
  BY <1>1, Zenon DEF writerVars
<1>3. /\ items' \in [Item -> Works]
      /\ \A j \in Item : items'[j].frame = items[j].frame /\ items'[j].size = items[j].size
      /\ \A j \in Item \ {i} : items'[j].st = items[j].st
      /\ items'[i].st = "writing"
  BY <1>1 DEF Works
<1>4. /\ InFlight' = InFlight
      /\ \A j \in InFlight : items'[j].frame = items[j].frame /\ items'[j].size = items[j].size
  BY <1>1, <1>3 DEF InFlight
<1>7. Busy' = Busy \cup {i}
  BY <1>1, <1>3 DEF Busy
<1>8. Cardinality(Busy') <= Workers
  <2>1. Cardinality(Busy) < Workers
    BY Zenon DEF WorkerBegin, Busy
  <2>2. Cardinality(Busy \cup {i}) = IF i \in Busy THEN Cardinality(Busy) ELSE Cardinality(Busy) + 1
    BY ONLY BusyIsFinite, FS_AddElement
  <2> QED BY <1>7, <2>1, <2>2, BusyIsFinite, SaveDataAssumption, SMT
<1>9. Positioned' /\ Partial' = Partial
  BY <1>1, WriterStands DEF IInv
<1>10. TypeOK'
  BY <1>1, <1>2, <1>3, Zenon DEF IInv, TypeOK
<1>11. Saving'
  BY <1>1, <1>2, <1>4, Zenon DEF IInv, Saving
<1>12. Queue'
  <2>1. \A j \in Item : items'[j].st # "done" => items'[j].frame \in Frame
    BY <1>1, <1>3, Zenon DEF IInv, Queue
  <2>2. stream # "drain" =>
          /\ \A j \in InFlight : items[j].size = FrameSize /\ used[items[j].frame]
          /\ \A j, k \in InFlight : items[j].frame = items[k].frame => j = k
    BY Zenon DEF IInv, Queue
  <2>3. stream' # "drain" => \A j \in InFlight' : items'[j].size = FrameSize /\ used'[items'[j].frame]
    BY <1>1, <1>4, <2>2, Zenon
  <2>4. stream' # "drain" => \A j, k \in InFlight' : items'[j].frame = items'[k].frame => j = k
    BY <1>1, <1>4, <2>2
  <2> QED BY <1>8, <2>1, <2>3, <2>4, Zenon DEF IInv, Queue
<1>13. Drained'
  <2>1. stream = "drain" => \A j \in 1..waited : items[j].st = "done" /\ j \in Item
    BY SaveDataAssumption, SMT DEF IInv, TypeOK, Drained, Item
  <2>2. stream = "stop" => Idle = Item
    BY DEF IInv, Drained
  <2>3. stream # "stop"
    BY <1>1, <2>2, Zenon DEF Idle
  <2> QED BY <1>1, <1>3, <2>1, <2>3, Zenon DEF IInv, Drained
<1>14. UsedFramesAreOnTheirWay'
  <2>1. ASSUME NEW f \in Frame, used[f], saving # f PROVE \E j \in InFlight : items'[j].frame = f
    <3>1. PICK j \in InFlight : items[j].frame = f
      BY <2>1, Zenon DEF IInv, UsedFramesAreOnTheirWay
    <3> QED BY <3>1, <1>4
  <2> QED BY <1>1, <1>2, <1>4, <2>1, Zenon DEF UsedFramesAreOnTheirWay
<1> QED BY <1>9, <1>10, <1>11, <1>12, <1>13, <1>14, Zenon DEF IInv

LEMMA WorkerFileKeeps == ASSUME IInv, NEW i \in Item, WorkerFile(i) PROVE IInv'
<1>1. /\ items[i].st = "writing" /\ items' = [items EXCEPT ![i].st = "cleared"]
      /\ used' = [used EXCEPT ![items[i].frame] = FALSE]
      /\ UNCHANGED <<stream, waited, writerVars, disabled>>
      /\ items \in [Item -> Works] /\ used \in [Frame -> BOOLEAN]
  BY Zenon DEF IInv, TypeOK, WorkerFile, At, Released
<1>2. UNCHANGED <<offset, index, pc, left, saving>>
  BY <1>1, Zenon DEF writerVars
<1>3. /\ items' \in [Item -> Works]
      /\ \A j \in Item : items'[j].frame = items[j].frame /\ items'[j].size = items[j].size
      /\ \A j \in Item \ {i} : items'[j].st = items[j].st
      /\ items'[i].st = "cleared"
      /\ items[i].size \in 0..FrameSize /\ items[i].frame \in Frame
  BY <1>1 DEF Works, IInv, Queue
<1>4. used' \in [Frame -> BOOLEAN] /\ \A f \in Frame : used'[f] <=> used[f] /\ f # items[i].frame
  BY <1>1, <1>3
<1>5. i \in InFlight /\ InFlight' = InFlight \ {i} /\ Busy' = Busy
  BY <1>1, <1>3 DEF InFlight, Busy
<1>7. Positioned' /\ Partial' = Partial /\ Partial \in Nat
  BY <1>1, WriterStands DEF IInv
<1>8. TypeOK'
  BY <1>1, <1>2, <1>3, <1>4, Zenon DEF IInv, TypeOK
<1>9. Saving'
  <2>1. saving # NoFrame => saving \in Frame
    BY DEF IInv, TypeOK
  <2> QED BY <1>1, <1>2, <1>3, <1>4, <1>5, <2>1, Zenon DEF IInv, Saving, InFlight
<1>10. Queue'
  <2>1. \A j \in Item : items'[j].st # "done" => items'[j].frame \in Frame
    BY <1>1, <1>3, Zenon DEF IInv, Queue
  <2>2. stream # "drain" =>
          /\ \A j \in InFlight : items[j].size = FrameSize /\ used[items[j].frame]
          /\ \A j, k \in InFlight : items[j].frame = items[k].frame => j = k
    BY Zenon DEF IInv, Queue
  <2>3. stream' # "drain" => \A j \in InFlight' : items'[j].size = FrameSize /\ used'[items'[j].frame]
    <3>1. \A j \in InFlight' : /\ j \in InFlight /\ j # i /\ items[j].frame \in Frame
                               /\ items'[j].frame = items[j].frame /\ items'[j].size = items[j].size
      BY <1>3, <1>5 DEF InFlight, IInv, Queue
    <3> QED BY <1>1, <1>4, <1>5, <2>2, <3>1
  <2>4. stream' # "drain" => \A j, k \in InFlight' : items'[j].frame = items'[k].frame => j = k
    BY <1>1, <1>3, <1>5, <2>2 DEF InFlight
  <2> QED BY <1>5, <2>1, <2>3, <2>4, Zenon DEF IInv, Queue
<1>11. Drained'
  <2>1. stream = "drain" => \A j \in 1..waited : items[j].st = "done" /\ j \in Item
    BY SaveDataAssumption, SMT DEF IInv, TypeOK, Drained, Item
  <2>2. stream = "stop" => Idle = Item
    BY DEF IInv, Drained
  <2>3. stream # "stop"
    BY <1>1, <2>2, Zenon DEF Idle
  <2> QED BY <1>1, <1>3, <2>1, <2>3, Zenon DEF IInv, Drained
<1>12. UsedFramesAreOnTheirWay'
  <2>1. ASSUME NEW f \in Frame, used'[f], saving # f PROVE \E j \in InFlight' : items'[j].frame = f
    <3>1. used[f] /\ f # items[i].frame
      BY <2>1, <1>4
    <3>2. PICK j \in InFlight : items[j].frame = f
      BY <2>1, <3>1, Zenon DEF IInv, UsedFramesAreOnTheirWay
    <3>3. j \in Item
      BY DEF InFlight
    <3> QED BY <3>1, <3>2, <3>3, <1>3, <1>5
  <2> QED BY <1>2, <2>1, Zenon DEF UsedFramesAreOnTheirWay
<1> QED BY <1>7, <1>8, <1>9, <1>10, <1>11, <1>12, Zenon DEF IInv

LEMMA WorkerEndKeeps == ASSUME IInv, NEW i \in Item, WorkerEnd(i) PROVE IInv'
<1>1. /\ items[i].st = "cleared" /\ items' = [items EXCEPT ![i] = FreeItem]
      /\ UNCHANGED <<stream, waited, writerVars, used, disabled>>
      /\ items \in [Item -> Works]
  BY Zenon DEF IInv, TypeOK, WorkerEnd
<1>2. UNCHANGED <<offset, index, pc, left, saving>>
  BY <1>1, Zenon DEF writerVars
<1>3. FreeItem \in Works /\ FreeItem.st = "done"
  BY SaveDataAssumption, SMT DEF Works, FreeItem, NoFrame
<1>4. /\ items' \in [Item -> Works]
      /\ \A j \in Item \ {i} : items'[j] = items[j]
      /\ items'[i].st = "done"
  BY <1>1, <1>3, Zenon
<1>5. InFlight' = InFlight /\ Busy' = Busy \ {i}
  BY <1>1, <1>4 DEF InFlight, Busy
<1>7. Cardinality(Busy') <= Workers
  <2>1. Cardinality(Busy \ {i}) = IF i \in Busy THEN Cardinality(Busy) - 1 ELSE Cardinality(Busy)
    BY ONLY BusyIsFinite, FS_RemoveElement
  <2> QED BY <1>5, <2>1, BusyIsFinite, SaveDataAssumption, SMT DEF IInv, Queue
<1>8. Positioned' /\ Partial' = Partial
  BY <1>1, WriterStands DEF IInv
<1>9. TypeOK'
  BY <1>1, <1>2, <1>4, Zenon DEF IInv, TypeOK
<1>10. \A j \in InFlight : j \in Item /\ items'[j] = items[j]
  BY <1>1, <1>4 DEF InFlight
<1>11. Saving' /\ UsedFramesAreOnTheirWay'
  BY <1>1, <1>2, <1>5, <1>10, Zenon DEF IInv, Saving, UsedFramesAreOnTheirWay
<1>12. Queue'
  <2>1. \A j \in Item : items'[j].st # "done" => items'[j].frame \in Frame
    BY <1>1, <1>4, Zenon DEF IInv, Queue
  <2>2. stream # "drain" =>
          /\ \A j \in InFlight : items[j].size = FrameSize /\ used[items[j].frame]
          /\ \A j, k \in InFlight : items[j].frame = items[k].frame => j = k
    BY Zenon DEF IInv, Queue
  <2>3. stream' # "drain" => \A j \in InFlight' : items'[j].size = FrameSize /\ used'[items'[j].frame]
    BY <1>1, <1>5, <1>10, <2>2, Zenon
  <2>4. stream' # "drain" => \A j, k \in InFlight' : items'[j].frame = items'[k].frame => j = k
    BY <1>1, <1>5, <1>10, <2>2
  <2> QED BY <1>7, <2>1, <2>3, <2>4, Zenon DEF IInv, Queue
<1>13. Drained'
  <2>1. stream = "drain" => \A j \in 1..waited : items[j].st = "done" /\ j \in Item
    BY SaveDataAssumption, SMT DEF IInv, TypeOK, Drained, Item
  <2>2. stream = "stop" => Idle = Item
    BY DEF IInv, Drained
  <2>3. stream # "stop"
    BY <1>1, <2>2, Zenon DEF Idle
  <2> QED BY <1>1, <1>4, <2>1, <2>3, Zenon DEF IInv, Drained
<1> QED BY <1>8, <1>9, <1>11, <1>12, <1>13, Zenon DEF IInv

-----------------------------------------------------------------------------
(* The stream's steps                                                      *)

\* Steps that leave the writer and the pool alone.
LEMMA StreamKeeps ==
    ASSUME IInv, UNCHANGED <<writerVars, used, items>>, disabled' \in BOOLEAN,
           stream' \in {"pause", "run", "drain", "stop"}, waited' \in 0..ItemCount, Drained',
           stream = "drain" => stream' = "drain" \/ InFlight = {},
           pc # "idle" => stream' = "run"
    PROVE  IInv'
<1>1. UNCHANGED <<offset, index, pc, left, saving>>
  BY Zenon DEF writerVars
<1>2. Busy' = Busy /\ InFlight' = InFlight
  BY SameItems
<1>3. Positioned' /\ Partial' = Partial
  BY WriterStands DEF IInv
<1>4. TypeOK'
  BY <1>1, Zenon DEF IInv, TypeOK
<1>5. Saving' /\ UsedFramesAreOnTheirWay'
  BY <1>1, <1>2, Zenon DEF IInv, Saving, UsedFramesAreOnTheirWay
<1>6. Queue'
  <2>1. /\ Cardinality(Busy) <= Workers
        /\ \A i \in Item : items[i].st # "done" => items[i].frame \in Frame
        /\ stream # "drain" =>
             /\ \A i \in InFlight : items[i].size = FrameSize /\ used[items[i].frame]
             /\ \A i, j \in InFlight : items[i].frame = items[j].frame => i = j
    BY Zenon DEF IInv, Queue
  <2>2. stream' # "drain" => stream # "drain" \/ InFlight = {}
    BY Zenon
  <2>3. stream' # "drain" => \A i \in InFlight' : items'[i].size = FrameSize /\ used'[items'[i].frame]
    BY <1>2, <2>1, <2>2
  <2>4. stream' # "drain" => \A i, j \in InFlight' : items'[i].frame = items'[j].frame => i = j
    BY <1>2, <2>1, <2>2
  <2>5. \A i \in Item : items'[i].st # "done" => items'[i].frame \in Frame
    BY <2>1
  <2> QED BY <1>2, <2>1, <2>3, <2>4, <2>5, Zenon DEF Queue
<1> QED BY <1>3, <1>4, <1>5, <1>6, Zenon DEF IInv

LEMMA AllIdle == ASSUME Idle = Item PROVE InFlight = {}
  BY DEF Idle, InFlight

LEMMA StatesKeep ==
    ASSUME IInv, Run \/ Pause \/ WaitItem \/ StopEnd \/ Resume \/ Disable \/ UNCHANGED vars
    PROVE  IInv'
<1>1. stream \in {"pause", "run", "drain", "stop"} /\ waited \in 0..ItemCount /\ disabled \in BOOLEAN
  BY DEF IInv, TypeOK
<1>2. /\ stream = "drain" => \A i \in 1..waited : items[i].st = "done"
      /\ stream # "drain" => waited = 0
      /\ stream = "stop" => Idle = Item
  BY Zenon DEF IInv, Drained
<1>3. pc # "idle" => stream = "run"
  BY Zenon DEF IInv, Saving
<1>4. UNCHANGED items => Idle' = Idle
  BY SameItems
<1>5. CASE Run \/ Pause
  <2>1. /\ stream' \in {"pause", "run"} /\ stream # "drain" /\ waited = 0 /\ disabled' \in BOOLEAN
        /\ UNCHANGED <<waited, writerVars, used, items>>
        /\ pc # "idle" => stream' = "run"
    BY <1>1, <1>2, <1>3, <1>5, Zenon DEF Run, Pause
  <2>2. Drained'
    BY <2>1, Zenon DEF Drained
  <2> QED BY <1>1, <2>1, <2>2, StreamKeeps
<1>6. CASE WaitItem
  <2>1. /\ stream = "drain" /\ stream' = "drain" /\ waited' = waited + 1 /\ waited' \in 0..ItemCount
        /\ items[waited + 1].st = "done" /\ disabled' \in BOOLEAN
        /\ UNCHANGED <<writerVars, used, items>>
    BY <1>1, <1>6, SaveDataAssumption, SMT DEF WaitItem
  <2>2. Drained'
    <3>1. \A i \in 1..waited' : i \in 1..waited \/ i = waited + 1
      BY <1>1, <2>1, SaveDataAssumption, SMT
    <3> QED BY <1>2, <2>1, <3>1, Zenon DEF Drained
  <2> QED BY <1>3, <2>1, <2>2, StreamKeeps
<1>7. CASE StopEnd
  <2>1. /\ stream = "drain" /\ stream' = "stop" /\ waited = ItemCount /\ waited' = 0
        /\ disabled' \in BOOLEAN
        /\ UNCHANGED <<writerVars, used, items>>
    BY <1>1, <1>7, Zenon DEF StopEnd
  <2>2. Idle = Item
    BY <1>2, <2>1 DEF Idle, Item
  <2>3. Drained' /\ InFlight = {}
    BY <1>4, <2>1, <2>2, AllIdle, Zenon DEF Drained
  <2>4. waited' \in 0..ItemCount
    BY <2>1, SaveDataAssumption, SMT
  <2> QED BY <1>3, <2>1, <2>3, <2>4, StreamKeeps
<1>8. CASE Resume
  <2>1. /\ stream = "stop" /\ stream' = "pause" /\ waited' = 0 /\ waited = 0 /\ disabled' \in BOOLEAN
        /\ UNCHANGED <<writerVars, used, items>>
    BY <1>1, <1>2, <1>8, Zenon DEF Resume
  <2>2. Drained'
    BY <2>1, Zenon DEF Drained
  <2> QED BY <1>1, <1>3, <2>1, <2>2, StreamKeeps
<1>9. CASE Disable \/ UNCHANGED vars
  <2>1. disabled' \in BOOLEAN /\ UNCHANGED <<stream, waited, writerVars, used, items>>
    BY <1>1, <1>9, Zenon DEF Disable, vars
  <2>2. Drained'
    BY <1>2, <1>4, <2>1, Zenon DEF Drained
  <2> QED BY <1>1, <1>3, <2>1, <2>2, StreamKeeps
<1> QED BY <1>5, <1>6, <1>7, <1>8, <1>9

LEMMA StopBeginKeeps == ASSUME IInv, StopBegin PROVE IInv'
<1>1. /\ stream = "pause" /\ stream' = "drain" /\ waited' = 0 /\ pc = "idle" /\ saving = NoFrame
      /\ UNCHANGED <<writerVars, used, disabled>>
      /\ index \in Frame /\ items \in [Item -> Works]
  BY Zenon DEF IInv, TypeOK, Saving, StopBegin
<1>2. UNCHANGED <<offset, index, pc, left, saving>>
  BY <1>1, Zenon DEF writerVars
<1>3. Positioned' /\ Partial' = Partial /\ Partial \in 0..FrameSize
  <2>1. Positioned' /\ Partial' = Partial
    BY <1>1, WriterStands DEF IInv
  <2>2. Partial \in 0..FrameSize
    BY SaveDataAssumption, SMT DEF IInv, Positioned
  <2> QED BY <2>1, <2>2
<1>4. Drained'
  <2>1. \A i \in 1..0 : items'[i].st = "done"
    BY SMT
  <2> QED BY <1>1, <2>1, Zenon DEF Drained
<1>5. waited' \in 0..ItemCount
  BY <1>1, SaveDataAssumption, SMT
<1>6. CASE Partial > 0
  <2>1. SaveFrame(index, Partial)
    BY <1>6, Zenon DEF StopBegin
  <2>2. PICK i \in Idle :
          /\ items' \in [Item -> Works]
          /\ items'[i] = [st |-> "queued", frame |-> index, size |-> Partial]
          /\ \A j \in Item \ {i} : items'[j] = items[j]
          /\ InFlight' = InFlight \cup {i} /\ Busy' = Busy
    <3>1. stream # "drain"
      BY <1>1
    <3> QED BY <1>1, <1>3, <2>1, <3>1, SaveFrameQueues DEF IInv
  <2>3. /\ i \in Item /\ i \notin InFlight /\ InFlight \subseteq Item
        /\ items'[i].frame = index
    BY <2>2 DEF Idle, InFlight
  <2>4. \A j \in InFlight : items'[j] = items[j]
    BY <2>2, <2>3
  <2>5. TypeOK'
    BY <1>1, <1>2, <1>5, <2>2 DEF IInv, TypeOK
  <2>6. Saving'
    BY <1>1, <1>2, Zenon DEF Saving
  <2>7. Queue'
    <3>1. Cardinality(Busy') <= Workers
      BY <2>2, Zenon DEF IInv, Queue
    <3>2. \A j \in Item : items'[j].st # "done" => items'[j].frame \in Frame
      BY <1>1, <2>2, <2>3, Zenon DEF IInv, Queue
    <3> QED BY <1>1, <3>1, <3>2, Zenon DEF Queue
  <2>8. UsedFramesAreOnTheirWay'
    <3>1. ASSUME NEW f \in Frame, used[f], saving # f PROVE \E j \in InFlight' : items'[j].frame = f
      <4>1. PICK j \in InFlight : items[j].frame = f
        BY <3>1, Zenon DEF IInv, UsedFramesAreOnTheirWay
      <4> QED BY <4>1, <2>2, <2>4
    <3> QED BY <1>1, <1>2, <3>1, Zenon DEF UsedFramesAreOnTheirWay
  <2> QED BY <1>3, <1>4, <2>5, <2>6, <2>7, <2>8, Zenon DEF IInv
<1>7. CASE ~(Partial > 0)
  <2>1. UNCHANGED <<writerVars, used, items>> /\ disabled' \in BOOLEAN
    BY <1>1, <1>7, Zenon DEF StopBegin, IInv, TypeOK
  <2> QED BY <1>1, <1>4, <1>5, <2>1, StreamKeeps
<1> QED BY <1>6, <1>7

LEMMA NewStreamKeeps == ASSUME IInv, NewStream PROVE IInv'
<1>1. /\ stream = "stop" /\ stream' = "pause" /\ waited = 0 /\ Idle = Item
      /\ pc = "idle" /\ saving = NoFrame /\ left = 0
      /\ offset' = 0 /\ index' = 0 /\ used' = [f \in Frame |-> FALSE] /\ disabled' = FALSE
      /\ UNCHANGED <<waited, pc, left, saving, items>>
  BY Zenon DEF IInv, Saving, Positioned, Drained, NewStream
<1>2. Busy' = Busy /\ InFlight' = {}
  BY <1>1, SameItems, AllIdle
<1>3. 0 \in Frame /\ Partial' = 0 /\ 0 \in 0..(FrameSize - 1)
  BY <1>1, SaveDataAssumption, SMT DEF Frame, Partial
<1>4. TypeOK'
  <2>1. used' \in [Frame -> BOOLEAN]
    BY <1>1, Zenon
  <2>2. 0 \in Nat /\ 0 \in Int
    OBVIOUS
  <2> QED BY <1>1, <1>3, <2>1, <2>2, Zenon DEF IInv, TypeOK
<1>5. Positioned' /\ Saving' /\ Drained'
  BY <1>1, <1>3, Zenon DEF Positioned, Saving, Drained
<1>6. Queue' /\ UsedFramesAreOnTheirWay'
  BY <1>1, <1>2, Zenon DEF IInv, Queue, UsedFramesAreOnTheirWay
<1> QED BY <1>4, <1>5, <1>6, Zenon DEF IInv

-----------------------------------------------------------------------------
(* Theorems                                                                *)

LEMMA InitHolds == ASSUME Init PROVE IInv
<1>1. /\ stream = "pause" /\ waited = 0
      /\ offset = 0 /\ index = 0 /\ used = [f \in Frame |-> FALSE] /\ disabled = FALSE
      /\ pc = "idle" /\ left = 0 /\ saving = NoFrame
      /\ items = [i \in Item |-> FreeItem]
  BY Zenon DEF Init
<1>2. FreeItem \in Works /\ FreeItem.st = "done"
  BY SaveDataAssumption, SMT DEF Works, FreeItem, NoFrame
<1>3. Idle = Item /\ Busy = {}
  BY <1>1, <1>2 DEF Idle, Busy
<1>4. InFlight = {}
  BY <1>3, AllIdle
<1>5. 0 \in Frame /\ Partial = 0 /\ 0 \in 0..(FrameSize - 1) /\ 0 \in 0..ItemCount
  BY <1>1, SaveDataAssumption, SMT DEF Frame, Partial
<1>6. TypeOK
  <2>1. used \in [Frame -> BOOLEAN] /\ items \in [Item -> Works]
    BY <1>1, <1>2, Zenon
  <2>2. 0 \in Nat /\ 0 \in Int
    OBVIOUS
  <2> QED BY <1>1, <1>5, <2>1, <2>2, Zenon DEF TypeOK
<1>7. Queue
  <2>1. Cardinality(Busy) <= Workers
    BY <1>3, FS_EmptySet, SaveDataAssumption, SMT
  <2> QED BY <1>1, <1>2, <1>4, <2>1, Zenon DEF Queue
<1>8. Positioned /\ Saving /\ Drained
  BY <1>1, <1>3, <1>5, Zenon DEF Positioned, Saving, Drained
<1>9. UsedFramesAreOnTheirWay
  BY <1>1, Zenon DEF UsedFramesAreOnTheirWay
<1> QED BY <1>6, <1>7, <1>8, <1>9, Zenon DEF IInv

LEMMA StepKeeps == ASSUME IInv, [Next]_vars PROVE IInv'
<1>1. CASE \E n \in 1..MaxRequest : WriteBegin(n)
  BY <1>1, WriteBeginKeeps
<1>2. CASE \E i \in Item : Worker(i)
  BY <1>2, WorkerBeginKeeps, WorkerFileKeeps, WorkerEndKeeps DEF Worker
<1> QED BY <1>1, <1>2, WriteLeftKeeps, WriteSaveKeeps, StatesKeep, StopBeginKeeps, NewStreamKeeps,
           Zenon DEF Next

LEMMA Invariant == Spec => []IInv
  BY InitHolds, StepKeeps, PTL DEF Spec

\* Whenever WriteData or the STOP calls SaveFrame, GetNewWorkItem finds an item that
\* is done, so no full or partial frame is forgotten (savedata.cpp, SaveFrame).
NoFrameIsForgotten == pc = "save" \/ (stream = "pause" /\ Partial > 0) => Idle # {}

THEOREM FramesAreSaved == Spec => []NoFrameIsForgotten
<1>1. IInv => NoFrameIsForgotten
  <2>1. IInv /\ (pc = "save" \/ stream = "pause") => stream # "drain"
    BY DEF IInv, Saving
  <2> QED BY <2>1, PoolSuffices, Zenon DEF IInv, NoFrameIsForgotten
<1> QED BY <1>1, Invariant, PTL

\* A frame that WriteData finds marked is about to be queued or queued, with a worker
\* that will clear the mark (savedata.cpp, WriteData and SaveFrameWorkerCallback).
THEOREM FramesAreReleased == Spec => []UsedFramesAreOnTheirWay
<1>1. IInv => UsedFramesAreOnTheirWay
  BY DEF IInv
<1> QED BY <1>1, Invariant, PTL

\* Whatever the sizes of the requests, the frame index is the frame of the offset at
\* every step, so a call tests, marks and saves the frame it begins to write in
\* (savedata.cpp, WriteData).
THEOREM IndexStaysWithOffset == Spec => []IndexFollowsOffset
<1>1. ASSUME IInv PROVE IndexFollowsOffset
  <2>1. index \in Frame /\ offset \in Nat /\ FrameSize \in Nat
    BY <1>1, SaveDataAssumption DEF IInv, TypeOK
  <2>2. index * FrameSize \in Nat /\ (index + 1) * FrameSize = (index * FrameSize) + FrameSize
    BY <2>1, FramePlaces
  <2>3. offset - index * FrameSize \in 0..(FrameSize - 1)
    BY <1>1, Zenon DEF IInv, Positioned, Partial
  <2> QED BY <2>1, <2>2, <2>3, SMT DEF IndexFollowsOffset
<1> QED BY <1>1, Invariant, PTL

\* When WaitAllWorkItems has returned no worker uses the stream and no frame is
\* marked, so the buffer may go (savedata.cpp, WaitAllWorkItems).
THEOREM StoppedIsQuiet == Spec => []QuietWhenStopped
<1>1. ASSUME IInv PROVE QuietWhenStopped
  <2>1. SUFFICES ASSUME stream = "stop" PROVE Idle = Item /\ \A f \in Frame : ~used[f]
    BY Zenon DEF QuietWhenStopped
  <2>2. Idle = Item /\ pc = "idle"
    BY <1>1, <2>1 DEF IInv, Drained, Saving
  <2>3. InFlight = {} /\ saving = NoFrame /\ \A f \in Frame : saving # f
    BY <1>1, <2>2, AllIdle, SaveDataAssumption, SMT DEF IInv, Saving, NoFrame, Frame
  <2> QED BY <1>1, <2>2, <2>3, Zenon DEF IInv, UsedFramesAreOnTheirWay
<1> QED BY <1>1, Invariant, PTL
=============================================================================
