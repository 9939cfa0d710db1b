------------------------------ MODULE Prebuffer ------------------------------
(***************************************************************************)
(* Prebuffer.h: the gate that decides, once per packet slot, whether the   *)
(* render thread consumes a packet or emits silence while the ring refills.*)
(* Instantiated by WasapiPassthrough, which owns the gate; amounts are in  *)
(* frames, of which the gate's byte counts are fixed multiples.            *)
(***************************************************************************)
EXTENDS Naturals

CONSTANTS packetFrames,   \* packet_
          primeRequest    \* the primeBytes that Reset is called with

VARIABLES refilling,      \* refilling_
          unlogged        \* underruns_, less those the owner has reported

\* Reset raises a cushion below one packet to one packet.
prime == IF primeRequest < packetFrames THEN packetFrames ELSE primeRequest

Reset == refilling = TRUE /\ unlogged = 0

Rearm == refilling' = TRUE /\ UNCHANGED unlogged

\* Resumes as soon as one packet is there.
ServesWithoutCushion(available) == packetFrames # 0 /\ available >= packetFrames

\* An open gate lets an incomplete packet through.
ServesRemainder(available) ==
    /\ packetFrames # 0
    /\ IF refilling THEN available >= prime ELSE available > 0

\* The answer of Take, given the ring's fill level.
Serves(available) ==
    /\ packetFrames # 0
    /\ available >= IF refilling THEN prime ELSE packetFrames

Starves(available) == packetFrames # 0 /\ ~refilling /\ available < packetFrames

\* The state change of Take.
Take(available) ==
    /\ refilling' = IF packetFrames = 0 THEN refilling ELSE ~Serves(available)
    /\ unlogged' = IF Starves(available) THEN unlogged + 1 ELSE unlogged
=============================================================================
