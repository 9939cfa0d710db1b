----------------------------- MODULE SpdifEncoder -----------------------------
(***************************************************************************)
(* SpdifEncoder.cpp: PCM packets in, IEC 61937 bursts out.  FFmpeg does the*)
(* work; this class opens its objects one by one (any may fail), feeds the *)
(* optional surround filter, whose output comes in blocks and late, and    *)
(* collects the muxer's output through a callback.                         *)
(*                                                                         *)
(* Modelled of FFmpeg is only what the control depends on: whether a call  *)
(* fails, and how many samples the filter holds back.  The filter keeps    *)
(* Latency samples and emits the rest in blocks of Hop.                    *)
(***************************************************************************)
EXTENDS Integers

CONSTANTS Packet,     \* framesPerPacket_: samples per call (1536)
          Hop,        \* samples per block the surround filter emits (2048)
          Latency,    \* samples it holds back for its window
          Guard,      \* feeds the priming loop makes at most (64)
          MaxFifo     \* bound: library failures stop once the FIFO holds this much

\* The hop of the filter's default window (4096, overlap 0.5) is below two packets.
ASSUME EncoderAssumption ==
    /\ Packet \in Nat \ {0} /\ Hop \in Nat \ {0} /\ Latency \in Nat
    /\ Guard \in Nat /\ MaxFifo \in Nat
    /\ Hop <= 2 * Packet + 1
    /\ Guard * Packet >= 2 * Packet + Latency + Hop

VARIABLES phase,      \* "closed", "prime" (inside Init), "ready", "failed"
          alive,      \* the FFmpeg objects that exist
          header,     \* avformat_write_header has succeeded for this muxer
          useFilter,  \* useFilter_
          held, fifo, \* samples inside the filter, and in fifo_
          feeds,      \* iterations of the priming loop
          burst       \* result of the last EncodePacket: "none", "burst", "nothing", "error"

\* History.
VARIABLE hitch        \* a library call failed since Init began

objectVars == <<alive, header, useFilter>>
filterVars == <<held, fifo, feeds>>
vars == <<phase, objectVars, filterVars, burst, hitch>>

\* What Init opens, in order; the conditioning objects come after the frame.
Before == <<{}, {"codec"}, {"codec", "frame"}>>
After == <<{}, {"pkt"}, {"pkt", "muxer"}, {"pkt", "muxer", "pb"}>>

\* What BuildFilterGraph leaves behind when it fails: nothing is released.
GraphRemains == {{}, {"graph"}, {"graph", "fifo"}, {"graph", "filtFrame"}}

Init ==
    /\ phase = "closed" /\ alive = {} /\ header = FALSE /\ useFilter = FALSE
    /\ held = 0 /\ fifo = 0 /\ feeds = 0
    /\ burst = "none" /\ hitch = FALSE

-----------------------------------------------------------------------------
(* Close, and Init, which begins with it.                                  *)

\* Leaves the FIFO, and what is in it, for the next Init.
ClosedKeepsFifo ==
    /\ header' = FALSE /\ useFilter' = FALSE /\ held' = 0 /\ feeds' = 0
    /\ UNCHANGED fifo

\* Close releases every object that exists; if pb does, it writes a trailer first.
Closed ==
    /\ header' = FALSE /\ useFilter' = FALSE /\ held' = 0 /\ fifo' = 0 /\ feeds' = 0

Close ==
    /\ phase # "prime"
    /\ Closed
    /\ alive' = {} /\ phase' = "closed" /\ burst' = "none" /\ hitch' = FALSE

\* Init that fails before the input conditioning.
InitFailsEarly ==
    /\ phase # "prime"
    /\ Closed
    /\ \E k \in DOMAIN Before : alive' = Before[k]
    /\ phase' = "failed" /\ burst' = "none" /\ hitch' = TRUE

\* Upmix: the graph is built and primed with silence.
InitFilter ==
    /\ phase # "prime"
    /\ Closed
    /\ alive' = {"codec", "frame", "graph", "fifo", "filtFrame"}
    /\ phase' = "prime" /\ burst' = "none" /\ hitch' = FALSE

\* The objects Init opens last; the header is written if all of them opened.
Finish(base, use, failed) ==
    /\ useFilter' = use
    /\ \/ /\ alive' = base \cup {"pkt", "muxer", "pb"}
          /\ header' = TRUE /\ phase' = "ready" /\ hitch' = failed
       \/ /\ \E k \in DOMAIN After : alive' = base \cup After[k]
          /\ header' = FALSE /\ phase' = "failed" /\ hitch' = TRUE

\* The flag survives the failure of the graph it stands for.
FlagKept(remains) == remains # {}

\* useFilter_ after BuildFilterGraph failed, or was not asked for.
Flag(remains) == FALSE

\* No upmix, or the graph cannot be built: swr converts, if it can be made and set up.
InitSwr ==
    /\ phase # "prime"
    /\ held' = 0 /\ fifo' = 0 /\ feeds' = 0
    /\ \E remains \in GraphRemains :
          \/ Finish({"codec", "frame", "swr"} \cup remains, Flag(remains), remains # {})
          \/ /\ \E swr \in {{}, {"swr"}} : alive' = {"codec", "frame"} \cup remains \cup swr
             /\ header' = FALSE /\ useFilter' = FALSE /\ phase' = "failed" /\ hitch' = TRUE
    /\ burst' = "none"

-----------------------------------------------------------------------------
(* The surround filter.                                                    *)

\* Samples that a feed of one packet pushes out of the filter.
Emitted(h) == IF h + Packet < Latency THEN 0
              ELSE ((h + Packet - Latency) \div Hop) * Hop

\* FeedFilter: push one packet, drain the sink into the FIFO.
Fed == /\ held' = held + Packet - Emitted(held)
       /\ fifo' = fifo + Emitted(held)

\* A feed that fails loses its samples; a fifo write that fails, what was drained.
FedFails ==
    /\ fifo < MaxFifo
    /\ hitch' = TRUE
    /\ \/ UNCHANGED <<held, fifo>>
       \/ held' = held + Packet - Emitted(held) /\ UNCHANGED fifo

\* No priming at all.
Unprimed == fifo >= 0

\* The cushion that the priming loop builds.
Primed == fifo >= 2 * Packet

\* Priming: until the FIFO holds two packets, or a feed fails, or 64 feeds.
Prime ==
    /\ phase = "prime" /\ ~Primed /\ feeds < Guard
    /\ feeds' = feeds + 1
    /\ Fed
    /\ UNCHANGED <<phase, objectVars, burst, hitch>>

PrimeEnds ==
    /\ phase = "prime"
    /\ \/ (Primed \/ feeds = Guard) /\ UNCHANGED <<held, fifo>> /\ Finish(alive, TRUE, hitch)
       \/ ~Primed /\ feeds < Guard /\ FedFails /\ UNCHANGED <<phase, objectVars>>
    /\ feeds' = Guard
    /\ UNCHANGED burst

-----------------------------------------------------------------------------
(* EncodePacket.                                                           *)

\* Encode the frame: a burst, EAGAIN from the encoder, or an error; the samples
\* are consumed in each case.
EncodeFrame ==
    \/ burst' = "burst" /\ UNCHANGED hitch
    \/ burst' \in {"nothing", "error"} /\ fifo < MaxFifo /\ hitch' = TRUE

\* Surround: one packet goes in, and one comes out if the FIFO has one.
EncodeUpmixed ==
    LET level == fifo + Emitted(held)
    IN  /\ phase = "ready" /\ useFilter
        /\ held' = held + Packet - Emitted(held)
        /\ IF level >= Packet
             THEN fifo' = level - Packet /\ EncodeFrame
             ELSE fifo' = level /\ burst' = "nothing" /\ UNCHANGED hitch
        /\ UNCHANGED <<phase, objectVars, feeds>>

\* FeedFilter fails, or the frame cannot be made writable after a feed.
EncodeFails ==
    /\ phase = "ready" /\ fifo < MaxFifo
    /\ burst' = "error" /\ hitch' = TRUE
    /\ \/ UNCHANGED <<held, fifo>>
       \/ useFilter /\ held' = held + Packet - Emitted(held)
                    /\ fifo' \in {fifo, fifo + Emitted(held)}
    /\ UNCHANGED <<phase, objectVars, feeds>>

\* swr converts the packet in place.
EncodeConverted ==
    /\ phase = "ready" /\ ~useFilter
    /\ EncodeFrame
    /\ UNCHANGED <<phase, objectVars, filterVars>>

-----------------------------------------------------------------------------
Next == \/ Close \/ InitFailsEarly \/ InitFilter \/ InitSwr
        \/ Prime \/ PrimeEnds
        \/ EncodeUpmixed \/ EncodeFails \/ EncodeConverted

Spec == Init /\ [][Next]_vars

-----------------------------------------------------------------------------
(* Properties                                                              *)

\* The real-time consumer does not starve on the filter (SpdifEncoder.cpp, 211):
\* although the filter emits blocks that fit no packet, the primed cushion makes
\* every call return a burst, as long as FFmpeg's calls succeed.
EveryCallBursts == burst = "nothing" => hitch

\* What EncodePacket will use exists, whichever of the two conditionings Init ended
\* up with and whatever a failed attempt at the other left behind.
ReadyIsComplete ==
    phase = "ready" =>
        /\ {"codec", "frame", "pkt", "muxer", "pb"} \subseteq alive /\ header
        /\ IF useFilter THEN {"graph", "fifo", "filtFrame"} \subseteq alive
                        ELSE "swr" \in alive

\* The upmix adds a bounded delay: what is between the input and the encoder does
\* not grow from call to call.
DelayIsBounded ==
    phase = "ready" /\ useFilter /\ ~hitch
        => fifo + held <= 3 * Packet + Latency + Hop - 2
=============================================================================
