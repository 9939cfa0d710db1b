------------------------- MODULE SpdifEncoder_proofs -------------------------
(***************************************************************************)
(* The encoder uses complete sets of objects, never comes up a burst short *)
(* and never falls further behind, for every packet size, block size and   *)
(* latency of the surround filter that EncoderAssumption allows, and for   *)
(* every number of calls.                                                  *)
(***************************************************************************)
EXTENDS SpdifEncoder, TLAPS

-----------------------------------------------------------------------------
(* Objects                                                                 *)

\* What Init has opened where it stands; a filter that is being primed is complete.
Opened ==
    /\ phase = "prime" => {"codec", "frame", "graph", "fifo", "filtFrame"} \subseteq alive
    /\ ReadyIsComplete

LEMMA FinishOpens ==
    ASSUME NEW base, NEW use \in BOOLEAN, NEW failed, Finish(base, use, failed),
           {"codec", "frame"} \subseteq base,
           IF use THEN {"graph", "fifo", "filtFrame"} \subseteq base ELSE "swr" \in base
    PROVE  Opened'
  BY DEF Finish, Opened, ReadyIsComplete

LEMMA OpenedNext == ASSUME Opened, [Next]_vars PROVE Opened'
<1>1. CASE Close \/ InitFailsEarly
  BY <1>1 DEF Close, InitFailsEarly, Opened, ReadyIsComplete
<1>2. CASE InitFilter
  BY <1>2 DEF InitFilter, Opened, ReadyIsComplete
<1>3. CASE InitSwr
  <2>1. PICK remains \in GraphRemains :
          \/ Finish({"codec", "frame", "swr"} \cup remains, FALSE, remains # {})
          \/ phase' = "failed"
    BY <1>3 DEF InitSwr, Flag
  <2>2. CASE phase' = "failed"
    BY <2>2 DEF Opened, ReadyIsComplete
  <2>3. CASE Finish({"codec", "frame", "swr"} \cup remains, FALSE, remains # {})
    BY <2>3, FinishOpens
  <2> QED BY <2>1, <2>2, <2>3
<1>4. CASE Prime
  BY <1>4 DEF Prime, Opened, ReadyIsComplete, objectVars
<1>5. CASE PrimeEnds
  <2>1. phase = "prime"
    BY <1>5 DEF PrimeEnds
  <2>2. CASE Finish(alive, TRUE, hitch)
    BY <2>1, <2>2, FinishOpens DEF Opened
  <2>3. CASE UNCHANGED <<phase, objectVars>>
    BY <2>1, <2>3 DEF Opened, ReadyIsComplete, objectVars
  <2> QED BY <1>5, <2>2, <2>3 DEF PrimeEnds
<1>6. CASE EncodeUpmixed \/ EncodeFails \/ EncodeConverted \/ UNCHANGED vars
  <2>1. UNCHANGED <<phase, objectVars>>
    BY <1>6 DEF EncodeUpmixed, EncodeFails, EncodeConverted, vars
  <2> QED BY <2>1 DEF Opened, ReadyIsComplete, objectVars
<1> QED BY <1>1, <1>2, <1>3, <1>4, <1>5, <1>6 DEF Next

\* Whatever failed in an attempt at the surround filter, EncodePacket finds all the
\* objects of the conditioning that useFilter_ names (SpdifEncoder.cpp, 125-208).
THEOREM ReadyHasItsObjects == Spec => []ReadyIsComplete
<1>1. Init => Opened
  BY DEF Init, Opened, ReadyIsComplete
<1>2. Opened => ReadyIsComplete
  BY DEF Opened
<1> QED BY <1>1, <1>2, OpenedNext, PTL DEF Spec

-----------------------------------------------------------------------------
(* The filter's samples                                                    *)

LEMMA DivMod ==
    ASSUME NEW a \in Nat, NEW b \in Nat \ {0}
    PROVE  /\ a \div b \in Nat /\ b * (a \div b) \in Nat
           /\ b * (a \div b) <= a /\ a < (b * (a \div b)) + b
  BY SMT

LEMMA Commutes == ASSUME NEW a \in Nat, NEW b \in Nat PROVE a * b = b * a
  BY SMT

LEMMA NextMultiple == ASSUME NEW a \in Nat, NEW b \in Nat PROVE (a + 1) * b = (a * b) + b
  BY SMT

\* What the filter keeps after it was fed: less than its latency and a block, and its
\* latency at least if it emitted anything.
LEMMA EmittedBounds ==
    ASSUME NEW h \in Nat
    PROVE  /\ Emitted(h) \in Nat /\ Emitted(h) <= h + Packet
           /\ (h + Packet) - Emitted(h) < Latency + Hop
           /\ Emitted(h) # 0 => (h + Packet) - Emitted(h) >= Latency
<1> USE EncoderAssumption
<1>1. CASE h + Packet < Latency
  BY <1>1 DEF Emitted
<1>2. CASE h + Packet >= Latency
  <2>1. PICK a \in Nat : a = (h + Packet) - Latency
    BY <1>2
  <2>2. Emitted(h) = (a \div Hop) * Hop
    BY <1>2, <2>1 DEF Emitted
  <2>3. PICK e \in Nat : e = Hop * (a \div Hop) /\ e <= a /\ a < e + Hop
    BY DivMod
  <2>4. Emitted(h) = e
    BY <2>2, <2>3, DivMod, Commutes
  <2> QED BY <1>2, <2>1, <2>3, <2>4
<1> QED BY <1>1, <1>2

\* The priming loop has fed so many packets and lost nothing; a filter that has emitted
\* holds its latency.
Priming ==
    /\ feeds \in Nat /\ feeds <= Guard /\ fifo + held = feeds * Packet
    /\ fifo # 0 => held >= Latency
    /\ fifo + held <= (3 * Packet) + Latency + Hop - 2

\* One packet more in the filter and it emits what a call needs.
Cushion ==
    /\ fifo + held >= Latency + Hop - 1
    /\ fifo + held <= (3 * Packet) + Latency + Hop - 2

Samples ==
    /\ held \in Nat /\ fifo \in Nat /\ held < Latency + Hop
    /\ phase = "prime" /\ ~hitch => Priming
    /\ phase = "ready" /\ useFilter /\ ~hitch => Cushion
    /\ burst = "nothing" => hitch

\* One more packet into the filter.
LEMMA FeedKeeps ==
    ASSUME Samples
    PROVE  /\ held + Packet - Emitted(held) \in Nat /\ Emitted(held) \in Nat
           /\ held + Packet - Emitted(held) < Latency + Hop
           /\ fifo + Emitted(held) \in Nat
<1> USE EncoderAssumption
<1>1. held \in Nat /\ fifo \in Nat
  BY DEF Samples
<1>2. PICK e \in Nat : /\ e = Emitted(held) /\ e <= held + Packet
                       /\ (held + Packet) - e < Latency + Hop
  BY <1>1, EmittedBounds
<1> QED BY <1>1, <1>2

\* Without a failure the loop ends with two packets in the FIFO, however the blocks of
\* the filter fall: Guard is enough.
LEMMA PrimedIsCushion ==
    ASSUME Samples, Priming, Primed \/ feeds = Guard
    PROVE  Cushion
<1> USE EncoderAssumption
<1>1. held \in Nat /\ fifo \in Nat /\ held < Latency + Hop
  BY DEF Samples
<1>2. fifo >= 2 * Packet
  <2>1. CASE Primed
    BY <2>1 DEF Primed
  <2>2. CASE feeds = Guard
    <3>1. PICK fed \in Nat : fed = Guard * Packet /\ fed >= (2 * Packet) + Latency + Hop
      <4>1. Guard * Packet = fifo + held
        BY <2>2 DEF Priming
      <4> QED BY <4>1, <1>1
    <3>2. fifo + held = fed
      BY <2>2, <3>1 DEF Priming
    <3> QED BY <1>1, <3>1, <3>2
  <2> QED BY <2>1, <2>2
<1>3. held >= Latency
  BY <1>1, <1>2 DEF Priming
<1> QED BY <1>1, <1>2, <1>3 DEF Cushion, Priming

LEMMA PrimeKeeps == ASSUME Samples, Prime PROVE Samples'
<1> USE EncoderAssumption
<1>1. held \in Nat /\ fifo \in Nat /\ held < Latency + Hop /\ phase = "prime"
      /\ UNCHANGED <<phase, useFilter, burst, hitch>>
  BY DEF Samples, Prime, objectVars
<1>2. PICK e \in Nat : /\ e = Emitted(held) /\ e <= held + Packet
                       /\ (held + Packet) - e < Latency + Hop
                       /\ e # 0 => (held + Packet) - e >= Latency
  BY <1>1, EmittedBounds
<1>3. held' = (held + Packet) - e /\ fifo' = fifo + e /\ feeds' = feeds + 1
  BY <1>1, <1>2 DEF Prime, Fed
<1>4. held' \in Nat /\ fifo' \in Nat /\ held' < Latency + Hop
  BY <1>1, <1>2, <1>3
<1>5. ASSUME ~hitch PROVE Priming'
  <2>1. Priming
    BY <1>1, <1>5 DEF Samples
  <2>2. PICK fed \in Nat : fed = feeds * Packet /\ (feeds + 1) * Packet = fed + Packet
    <3>1. feeds \in Nat /\ feeds * Packet = fifo + held
      BY <2>1 DEF Priming
    <3>2. (feeds + 1) * Packet = (feeds * Packet) + Packet
      BY <3>1, NextMultiple
    <3> QED BY <1>1, <3>1, <3>2
  <2>3. fifo < 2 * Packet /\ feeds < Guard
    BY <1>1 DEF Prime, Primed
  <2>4. feeds' \in Nat /\ feeds' <= Guard
    BY <1>3, <2>1, <2>3 DEF Priming
  <2>5. fifo' + held' = feeds' * Packet
    BY <1>1, <1>2, <1>3, <2>1, <2>2 DEF Priming
  <2>6. fifo' # 0 => held' >= Latency
    <3>1. CASE e # 0
      BY <1>2, <1>3, <3>1
    <3>2. CASE e = 0
      BY <1>1, <1>3, <2>1, <3>2 DEF Priming
    <3> QED BY <3>1, <3>2
  <2>7. fifo' + held' <= (3 * Packet) + Latency + Hop - 2
    BY <1>1, <1>2, <1>3, <2>3
  <2> QED BY <2>4, <2>5, <2>6, <2>7 DEF Priming
<1> QED BY <1>1, <1>4, <1>5 DEF Samples

LEMMA PrimeEndsKeeps == ASSUME Samples, PrimeEnds PROVE Samples'
<1> USE EncoderAssumption
<1>1. phase = "prime" /\ burst' = burst
  BY DEF PrimeEnds
<1>2. CASE (Primed \/ feeds = Guard) /\ UNCHANGED <<held, fifo>> /\ Finish(alive, TRUE, hitch)
  <2>1. CASE phase' = "ready" /\ hitch' = hitch
    <3>1. ~hitch => Cushion
      BY <1>1, <1>2, PrimedIsCushion DEF Samples
    <3> QED BY <1>1, <1>2, <2>1, <3>1 DEF Samples, Cushion
  <2>2. CASE phase' = "failed" /\ hitch' = TRUE
    BY <1>1, <1>2, <2>2 DEF Samples
  <2> QED BY <1>2, <2>1, <2>2 DEF Finish
<1>3. CASE FedFails /\ UNCHANGED phase
  <2>1. hitch' /\ held' \in {held, held + Packet - Emitted(held)} /\ fifo' = fifo
    BY <1>3 DEF FedFails
  <2>2. held' \in Nat /\ held' < Latency + Hop /\ fifo' \in Nat
    BY <2>1, FeedKeeps DEF Samples
  <2> QED BY <2>1, <2>2 DEF Samples
<1> QED BY <1>2, <1>3 DEF PrimeEnds

LEMMA EncodeUpmixedKeeps == ASSUME Samples, EncodeUpmixed PROVE Samples'
<1> USE EncoderAssumption
<1>1. held \in Nat /\ fifo \in Nat /\ phase = "ready" /\ useFilter
      /\ UNCHANGED <<phase, useFilter>>
  BY DEF Samples, EncodeUpmixed, objectVars
<1>2. PICK e \in Nat : /\ e = Emitted(held) /\ e <= held + Packet
                       /\ (held + Packet) - e < Latency + Hop
  BY <1>1, EmittedBounds
<1>3. held' = (held + Packet) - e
  BY <1>1, <1>2 DEF EncodeUpmixed
<1>4. held' \in Nat /\ held' < Latency + Hop
  BY <1>1, <1>2, <1>3
<1>5. CASE fifo + e >= Packet
  <2>1. fifo' = (fifo + e) - Packet /\ EncodeFrame
    BY <1>2, <1>5 DEF EncodeUpmixed
  <2>2. fifo' \in Nat /\ fifo' + held' = fifo + held
    BY <1>1, <1>2, <1>3, <1>5, <2>1
  <2>3. (hitch' \/ hitch' = hitch) /\ (burst' = "burst" \/ hitch')
    BY <2>1, Zenon DEF EncodeFrame
  <2>4. ~hitch' => Cushion'
    <3>1. ASSUME ~hitch PROVE Cushion'
      <4>1. Cushion
        BY <1>1, <3>1 DEF Samples
      <4> QED BY <2>2, <4>1 DEF Cushion
    <3> QED BY <2>3, <3>1
  <2> QED BY <1>1, <1>4, <2>2, <2>3, <2>4 DEF Samples
<1>6. CASE ~(fifo + e >= Packet)
  <2>1. fifo' = fifo + e /\ hitch' = hitch
    BY <1>2, <1>6 DEF EncodeUpmixed
  <2>2. hitch
    <3>1. SUFFICES ASSUME ~hitch PROVE FALSE
      OBVIOUS
    <3>2. Cushion
      BY <1>1, <3>1 DEF Samples
    <3> QED BY <1>1, <1>2, <1>6, <3>2 DEF Cushion
  <2>3. fifo' \in Nat
    BY <1>1, <1>2, <2>1
  <2> QED BY <1>1, <1>4, <2>1, <2>2, <2>3 DEF Samples
<1> QED BY <1>5, <1>6

LEMMA EncodeFailsKeeps == ASSUME Samples, EncodeFails PROVE Samples'
<1>1. hitch' = TRUE
  BY DEF EncodeFails
<1>2. held' \in {held, held + Packet - Emitted(held)} /\ fifo' \in {fifo, fifo + Emitted(held)}
  BY DEF EncodeFails
<1>3. held' \in Nat /\ held' < Latency + Hop /\ fifo' \in Nat
  BY <1>2, FeedKeeps DEF Samples
<1> QED BY <1>1, <1>3 DEF Samples

LEMMA SamplesNext == ASSUME Samples, [Next]_vars PROVE Samples'
<1> USE EncoderAssumption
<1>1. CASE Close \/ InitFailsEarly
  <2>1. held' = 0 /\ fifo' = 0 /\ phase' \in {"closed", "failed"} /\ burst' = "none"
    BY <1>1 DEF Close, InitFailsEarly, Closed
  <2> QED BY <2>1 DEF Samples
<1>2. CASE InitFilter
  <2>1. held' = 0 /\ fifo' = 0 /\ feeds' = 0 /\ phase' = "prime" /\ burst' = "none"
    BY <1>2 DEF InitFilter, Closed
  <2>2. 0 * Packet = 0
    BY SMT
  <2>3. Priming'
    BY <2>1, <2>2 DEF Priming
  <2> QED BY <2>1, <2>3 DEF Samples
<1>3. CASE InitSwr
  <2>1. held' = 0 /\ fifo' = 0 /\ burst' = "none"
    BY <1>3 DEF InitSwr
  <2>2. phase' \in {"ready", "failed"} /\ useFilter' = FALSE
    BY <1>3 DEF InitSwr, Finish, Flag
  <2> QED BY <2>1, <2>2 DEF Samples
<1>4. CASE EncodeConverted
  <2>1. UNCHANGED <<phase, useFilter, held, fifo>> /\ phase = "ready" /\ ~useFilter
    BY <1>4 DEF EncodeConverted, objectVars, filterVars
  <2>2. (hitch' \/ hitch' = hitch) /\ (burst' = "burst" \/ hitch')
    BY <1>4, Zenon DEF EncodeConverted, EncodeFrame
  <2> QED BY <2>1, <2>2 DEF Samples
<1>5. CASE UNCHANGED vars
  BY <1>5 DEF vars, objectVars, filterVars, Samples, Priming, Cushion
<1> QED BY <1>1, <1>2, <1>3, <1>4, <1>5, PrimeKeeps, PrimeEndsKeeps, EncodeUpmixedKeeps,
           EncodeFailsKeeps DEF Next

LEMMA SamplesInvariant == Spec => []Samples
<1>1. Init => Samples
  BY EncoderAssumption DEF Init, Samples
<1> QED BY <1>1, SamplesNext, PTL DEF Spec

\* The cushion that Init builds (SpdifEncoder.cpp, 211-230) is enough: a call comes up
\* empty only if FFmpeg failed, for every block and packet size and after any number
\* of calls.
THEOREM NoCallComesUpEmpty == Spec => []EveryCallBursts
<1>1. Samples => EveryCallBursts
  BY DEF Samples, EveryCallBursts
<1> QED BY <1>1, SamplesInvariant, PTL

\* The samples between input and encoder stay below three packets, the latency and a
\* block: the upmix adds no delay that grows.
THEOREM DelayStaysBounded == Spec => []DelayIsBounded
<1>1. Samples => DelayIsBounded
  BY EncoderAssumption DEF Samples, Cushion, DelayIsBounded
<1> QED BY <1>1, SamplesInvariant, PTL
=============================================================================
