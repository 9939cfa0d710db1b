---------------------------- MODULE PacketStream ----------------------------
(***************************************************************************)
(* The event-driven interface of a render stream on top of WaveRTStream:   *)
(* the client writes the buffer packet by packet and tells the driver so   *)
(* with SetWritePacket; the timer DPC detects underruns and signals the    *)
(* client's notification events after every completed packet               *)
(* (driver/Source/Main/minwavertstream.cpp).                               *)
(*                                                                         *)
(* The DPC holds the position lock from the completion to the end of its   *)
(* walk over the notification list, so the two are separate steps here and *)
(* whoever takes the lock waits.  SetWritePacket takes it twice and looks  *)
(* at m_KsState in between; RegisterNotificationEvent and                  *)
(* UnregisterNotificationEvent never take it.                              *)
(*                                                                         *)
(* m_ulCurrentWritePosition is left out: nothing but reports reads it.     *)
(***************************************************************************)
EXTENDS WaveRTStream, SequencesExt

CONSTANTS BlockAlign,   \* m_pWfExt->Format.nBlockAlign
          Events,       \* events a client may register
          Idle,         \* model value: the DPC walks no list
          ClientWaits   \* the client neither stops a stream while it writes a packet
                        \* nor gives an event back while the stream runs

\* A ULONG.
LoDWord(x) == x % Word
\* ULONG_MAX, the last packet written when there is none.
NoPacket == Word - 1
NoRequest == [packet |-> 0, currentPacket |-> 0]

\* Whole blocks only.
Blocks(requested) == requested - (requested % BlockAlign)

\* The buffers a request yields: none if it is refused.  Divisible by the number of
\* packets is the size that was asked for, not what rounding makes of it.
AllocateBufferWithNotification(requested, packets) ==
    IF requested < BlockAlign \/ packets = 0 \/ requested % packets # 0 THEN {}
    ELSE {[size |-> Blocks(requested), count |-> packets]}

AllocateAudioBuffer(requested) ==
    IF requested < BlockAlign THEN {} ELSE {[size |-> Blocks(requested), count |-> 0]}

ASSUME PacketAssumption ==
    /\ BlockAlign \in Nat \ {0} /\ ClientWaits \in BOOLEAN /\ Idle \notin Events
    /\ \E requested \in Size..(Size + BlockAlign) :
         [size |-> Size, count |-> Count] \in AllocateBufferWithNotification(requested, Count)
                                                \cup AllocateAudioBuffer(requested)

VARIABLES lastOsWritePacket,  \* m_ulLastOsWritePacket
          isUpdated,          \* m_IsCurrentWritePositionUpdated
          call,               \* SetWritePacket: "idle", "checks" or "stores"
          request,            \* its packet, and the counter as it read it
          list,               \* m_NotificationList
          walk                \* Idle, or the event whose entry the DPC is at

packetVars == <<lastOsWritePacket, isUpdated, call, request>>
listVars == <<list, walk>>
pvars == <<vars, packetVars, listVars>>

\* The position lock is free.
Unlocked == walk = Idle

PacketInit ==
    /\ Init
    /\ lastOsWritePacket = NoPacket /\ isUpdated = FALSE
    /\ call = "idle" /\ request = NoRequest
    /\ list = <<>> /\ walk = Idle

-----------------------------------------------------------------------------
(* SetWritePacket.                                                         *)

\* What the OS may try to write: the packet being played, or one of the next two.
Candidates == {LoDWord(counter + ahead) : ahead \in 0..2}

SetWritePacket(packet) ==
    /\ Count # 0 /\ call = "idle" /\ Unlocked
    /\ call' = "checks" /\ request' = [packet |-> packet, currentPacket |-> counter]
    /\ UNCHANGED <<vars, lastOsWritePacket, isUpdated, listVars>>

\* Takes the 1-based count of completed packets for the number of the last one.
ExpectedOneBased ==
    LoDWord(IF state = RUN THEN request.currentPacket + 2 ELSE request.currentPacket + 1)

ExpectedPacket ==
    LoDWord(IF state = RUN THEN request.currentPacket + 1 ELSE request.currentPacket)

\* A packet that is late, one too far ahead, and the end-of-stream flag are refused.
CheckPacket(endOfStream) ==
    /\ call = "checks"
    /\ IF request.packet = ExpectedPacket /\ ~endOfStream
         THEN lastOsWritePacket' = request.packet /\ call' = "stores"
         ELSE UNCHANGED lastOsWritePacket /\ call' = "idle"
    /\ request' = NoRequest
    /\ UNCHANGED <<vars, isUpdated, listVars>>

\* The index of a packet times its size is inside the buffer: never refused.
SetCurrentWritePosition ==
    /\ call = "stores" /\ Unlocked
    /\ isUpdated' = TRUE
    /\ call' = "idle"
    /\ UNCHANGED <<vars, lastOsWritePacket, request, listVars>>

-----------------------------------------------------------------------------
(* The notification list.                                                  *)

\* Fails without memory, and for an event that is there already.
RegisterNotificationEvent(e) ==
    /\ e \notin ToSet(list)
    /\ list' = Append(list, e)
    /\ UNCHANGED <<vars, packetVars, walk>>

\* The entry is freed at once, wherever the DPC is.
UnregisterNotificationEvent(e) ==
    /\ ClientWaits => state # RUN
    /\ \E entry \in 1..Len(list) : list[entry] = e /\ list' = RemoveAt(list, entry)
    /\ UNCHANGED <<vars, packetVars, walk>>

-----------------------------------------------------------------------------
(* The timer DPC.                                                          *)

Completed == Millis(DpcTime) >= Interval
\* IsCurrentWaveRTWritePositionUpdated returned FALSE: a glitch is reported.
Underrun == Completed /\ state = RUN /\ ~isUpdated

NotifyTimer ==
    /\ Unlocked
    /\ TimerExpires
    /\ isUpdated' = (isUpdated /\ ~(Completed /\ state = RUN))
    /\ walk' = IF Completed /\ state = RUN /\ list # <<>> THEN Head(list) ELSE Idle
    /\ UNCHANGED <<lastOsWritePacket, call, request, list>>

\* Sets the event of the entry and goes on to the next.
SignalEvent ==
    /\ walk # Idle
    /\ walk' \in {list[i + 1] : i \in {j \in 1..(Len(list) - 1) : list[j] = walk}}
                   \cup {Idle : i \in {j \in {Len(list)} \ {0} : list[j] = walk}}
    /\ UNCHANGED <<vars, packetVars, list>>

-----------------------------------------------------------------------------
(* SetState.                                                               *)

StopPackets ==
    /\ Unlocked /\ Stop
    /\ ClientWaits => call = "idle"
    /\ lastOsWritePacket' = NoPacket
    /\ UNCHANGED <<isUpdated, call, request, listVars>>

\* Cancels the timer but does not wait for a DPC that runs.
NoFlush == PauseKeepsTimer

\* KeFlushQueuedDpcs returns when no DPC is under way.
Flush == PauseBegin /\ Unlocked

Unchanged == UNCHANGED <<packetVars, listVars>>

PacketNext ==
    \/ (Tick \/ Acquire \/ PauseIdle \/ RunBegin \/ RunEnd \/ PauseCarry \/ PauseEnd) /\ Unchanged
    \/ Unlocked /\ (Query \/ PausePositions) /\ Unchanged
    \/ Flush /\ Unchanged
    \/ StopPackets
    \/ NotifyTimer \/ SignalEvent
    \/ \E packet \in Candidates : SetWritePacket(packet)
    \/ \E endOfStream \in BOOLEAN : CheckPacket(endOfStream)
    \/ SetCurrentWritePosition
    \/ \E e \in Events : RegisterNotificationEvent(e) \/ UnregisterNotificationEvent(e)

PacketSpec == PacketInit /\ [][PacketNext]_pvars

-----------------------------------------------------------------------------
(* Properties; those of WaveRTStream are checked here as well.             *)

PacketTypeOK ==
    /\ TypeOK
    /\ lastOsWritePacket \in 0..NoPacket /\ isUpdated \in BOOLEAN
    /\ call \in {"idle", "checks", "stores"}
    /\ request \in [packet : 0..NoPacket, currentPacket : Nat]
    /\ list \in Seq(Events) /\ walk \in Events \cup {Idle}

(***************************************************************************)
(* The DPC reports an underrun only if the packet that starts playing was  *)
(* not written.  The check (minwavertstream.cpp, 1610) knows of no packet  *)
(* numbers, only whether any packet came since the last completion; that   *)
(* this is enough rests on SetWritePacket refusing all packets but one,    *)
(* with a counter that may be stale, and holds across pauses and stops.    *)
(***************************************************************************)
NoFalseUnderrun ==
    [][counter' = counter + 1 /\ Underrun =>
          \/ lastOsWritePacket # LoDWord(counter')
          \/ call = "stores"
          \/ counter' >= NoPacket]_pvars

(***************************************************************************)
(* The entry the DPC is at is in the list: it was not freed by             *)
(* UnregisterNotificationEvent, which takes no lock.  A client that waits  *)
(* for the end of PAUSE is safe because PAUSE flushes the DPCs before it   *)
(* stores the state.                                                       *)
(***************************************************************************)
WalksTheList == walk # Idle => walk \in ToSet(list)
=============================================================================
