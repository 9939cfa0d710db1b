------------------------------- MODULE SaveData -------------------------------
(***************************************************************************)
(* CSaveData (savedata.cpp): what a render stream plays is copied into a   *)
(* circular buffer of frames; each full frame is handed to a system worker *)
(* thread that appends it to a file.  Writer, workers and the thread that  *)
(* stops the stream share the frame flags and a pool of work items.        *)
(*                                                                         *)
(* WriteData runs at DISPATCH_LEVEL under the stream's position lock, so   *)
(* one call at a time; it is split where a worker can come between.  The   *)
(* bytes are abstracted to counts.  The driver has one render pin, so at   *)
(* most one CSaveData is alive; streams follow each other on one pool.     *)
(***************************************************************************)
EXTENDS Integers, FiniteSets, FiniteSetsExt

CONSTANTS FrameCount,   \* DEFAULT_FRAME_COUNT (4)
          FrameSize,    \* m_ulFrameSize
          ItemCount,    \* MAX_WORKER_ITEM_COUNT (15)
          Workers,      \* threads that serve CriticalWorkQueue
          MaxRequest    \* bound: bytes in one call of WriteData

ASSUME SaveDataAssumption ==
    /\ FrameCount \in Nat \ {0} /\ FrameSize \in Nat \ {0}
    /\ Workers \in Nat \ {0} /\ ItemCount \in Nat /\ MaxRequest \in Nat

\* The pool is large enough for every frame, every thread and one partial frame.
ASSUME PoolAssumption == ItemCount >= FrameCount + Workers + 1

VARIABLES stream,     \* "pause", "run", "drain" (inside WaitAllWorkItems), "stop"
          waited,     \* work items that WaitAllWorkItems has found done
          offset,     \* m_ulBufferOffset
          index,      \* m_ulFrameIndex
          used,       \* m_fFrameUsed
          disabled,   \* m_fWriteDisabled
          pc,         \* WriteData: "idle", "left", "save"
          left,       \* bytes that did not fit before the end of the buffer
          saving,     \* ulSaveFrameIndex of a running WriteData, or NoFrame
          items       \* the work items: state, frame and size

\* History: frames written into while they wait to be saved.
VARIABLE spoiled

writerVars == <<offset, index, pc, left, saving>>
vars == <<stream, waited, writerVars, used, disabled, items, spoiled>>

Frame == 0..(FrameCount - 1)
NoFrame == FrameCount
Item == 1..ItemCount
BufferSize == FrameCount * FrameSize
FreeItem == [st |-> "done", frame |-> NoFrame, size |-> 0]

Idle == {i \in Item : items[i].st = "done"}
InFlight == {i \in Item : items[i].st \in {"queued", "writing"}}

Init ==
    /\ stream = "pause" /\ waited = 0
    /\ offset = 0 /\ index = 0 /\ used = [f \in Frame |-> FALSE] /\ disabled = FALSE
    /\ pc = "idle" /\ left = 0 /\ saving = NoFrame
    /\ items = [i \in Item |-> FreeItem]
    /\ spoiled = {}

\* SaveFrame with GetNewWorkItem: the first item that is done carries the frame;
\* without one the frame is forgotten.
SaveFrame(f, size) ==
    items' = IF Idle = {} THEN items
             ELSE [items EXCEPT ![Min(Idle)] = [st |-> "queued", frame |-> f, size |-> size]]

-----------------------------------------------------------------------------
(* WriteData.                                                              *)

\* Bytes of a request that the first copy takes.
Clipped(n) == Min({n, FrameSize, BufferSize - offset})

\* The frame counts as full with one byte missing.
FillsFrameEarly(off) == off + 1 >= (index + 1) * FrameSize

\* The copy reached the end of the current frame.
FillsFrame(off) == off >= (index + 1) * FrameSize

Advance(off) == index' = (index + 1) % FrameCount

\* Frames that a copy of n bytes touches.
Touched(n) == {f \in Frame : offset < (f + 1) * FrameSize /\ f * FrameSize < offset + n}

\* The current frame is free: copy, mark the frame if it is full, wrap at the end.
\* A used frame drops the call.
WriteBegin(n) ==
    LET w == Clipped(n)  off == offset + w
    IN  /\ stream = "run" /\ ~disabled /\ pc = "idle" /\ ~used[index]
        /\ offset' = IF off = BufferSize THEN 0 ELSE off
        /\ left' = Min({n, FrameSize}) - w
        /\ IF FillsFrame(off)
             THEN /\ used' = [used EXCEPT ![index] = TRUE]
                  /\ saving' = index /\ Advance(off)
                  /\ pc' = IF left' > 0 THEN "left" ELSE "save"
             ELSE UNCHANGED <<used, saving, index, pc>>
        /\ spoiled' = spoiled \cup (Touched(w) \cap {items[i].frame : i \in InFlight})
        /\ UNCHANGED <<stream, waited, disabled, items>>

\* The left over goes to the first frame if that is free.
WriteLeft ==
    /\ pc = "left" /\ pc' = "save" /\ left' = 0
    /\ IF used[index] THEN UNCHANGED offset ELSE offset' = offset + left
    /\ UNCHANGED <<stream, waited, index, saving, used, disabled, items, spoiled>>

WriteSave ==
    /\ pc = "save" /\ pc' = "idle" /\ saving' = NoFrame
    /\ SaveFrame(saving, FrameSize)
    /\ UNCHANGED <<stream, waited, offset, index, left, used, disabled, spoiled>>

-----------------------------------------------------------------------------
(* SaveFrameWorkerCallback.                                                *)

At(i, st) == items' = [items EXCEPT ![i].st = st]

\* A thread takes the item and gets the file mutex.
WorkerBegin(i) ==
    /\ items[i].st = "queued"
    /\ \A j \in Item : items[j].st # "writing"
    /\ Cardinality({j \in Item : items[j].st \in {"writing", "cleared"}}) < Workers
    /\ At(i, "writing")
    /\ UNCHANGED <<stream, waited, writerVars, used, disabled, spoiled>>

\* Releases the frame only if the file could be opened.
ReleasedIfFiled(i) == \/ used' = [used EXCEPT ![items[i].frame] = FALSE]
                      \/ UNCHANGED used

\* The frame is free again whether or not the file could be written.
Released(i) == used' = [used EXCEPT ![items[i].frame] = FALSE]

WorkerFile(i) ==
    /\ items[i].st = "writing"
    /\ At(i, "cleared")
    /\ Released(i)
    /\ spoiled' = spoiled \ {items[i].frame}
    /\ UNCHANGED <<stream, waited, writerVars, disabled>>

\* Signals full frames only.
WorkerEndsFull(i) ==
    /\ items[i].st = "cleared" /\ items[i].size = FrameSize
    /\ items' = [items EXCEPT ![i] = FreeItem]
    /\ UNCHANGED <<stream, waited, writerVars, used, disabled, spoiled>>

\* KeSetEvent, last of all.
WorkerEnd(i) ==
    /\ items[i].st = "cleared"
    /\ items' = [items EXCEPT ![i] = FreeItem]
    /\ UNCHANGED <<stream, waited, writerVars, used, disabled, spoiled>>

Worker(i) == WorkerBegin(i) \/ WorkerFile(i) \/ WorkerEnd(i)

-----------------------------------------------------------------------------
(* The stream's states, and WaitAllWorkItems on the way to STOP.           *)

Partial == offset - index * FrameSize

Run ==
    /\ stream = "pause" /\ stream' = "run"
    /\ UNCHANGED <<waited, writerVars, used, disabled, items, spoiled>>

\* The DPCs are flushed before the state changes, so no call is under way.
Pause ==
    /\ stream = "run" /\ pc = "idle" /\ stream' = "pause"
    /\ UNCHANGED <<waited, writerVars, used, disabled, items, spoiled>>

\* The last, partly filled frame is saved, but neither marked nor left behind: its
\* bytes are saved again once the frame is full.
StopBegin ==
    /\ stream = "pause" /\ stream' = "drain"
    /\ IF Partial > 0 THEN SaveFrame(index, Partial) ELSE UNCHANGED items
    /\ waited' = 0
    /\ UNCHANGED <<writerVars, used, disabled, spoiled>>

\* Waits for any item, not for all of them.
WaitAny ==
    /\ stream = "drain" /\ waited < ItemCount
    /\ Idle # {} /\ waited' = ItemCount
    /\ UNCHANGED <<stream, writerVars, used, disabled, items, spoiled>>

WaitItem ==
    /\ stream = "drain" /\ waited < ItemCount
    /\ items[waited + 1].st = "done"
    /\ waited' = waited + 1
    /\ UNCHANGED <<stream, writerVars, used, disabled, items, spoiled>>

StopEnd ==
    /\ stream = "drain" /\ waited = ItemCount
    /\ stream' = "stop" /\ waited' = 0
    /\ UNCHANGED <<writerVars, used, disabled, items, spoiled>>

\* The same stream again: the buffer is as STOP left it.
Resume ==
    /\ stream = "stop" /\ stream' = "pause"
    /\ UNCHANGED <<waited, writerVars, used, disabled, items, spoiled>>

\* Another stream, with a new CSaveData, on the same pool.
NewStream ==
    /\ stream = "stop" /\ stream' = "pause"
    /\ offset' = 0 /\ index' = 0 /\ used' = [f \in Frame |-> FALSE] /\ disabled' = FALSE
    /\ UNCHANGED <<waited, pc, left, saving, items, spoiled>>

\* DRM turns the recording off or on.
Disable ==
    /\ disabled' = ~disabled
    /\ UNCHANGED <<stream, waited, writerVars, used, items, spoiled>>

-----------------------------------------------------------------------------
Next ==
    \/ \E n \in 1..MaxRequest : WriteBegin(n)
    \/ WriteLeft \/ WriteSave
    \/ \E i \in Item : Worker(i)
    \/ Run \/ Pause \/ StopBegin \/ WaitItem \/ StopEnd \/ Resume \/ NewStream \/ Disable

\* Worker threads run; a DPC and a SetState call, once begun, go on.
Fairness ==
    /\ \A i \in Item : WF_vars(Worker(i))
    /\ WF_vars(WriteLeft \/ WriteSave)
    /\ WF_vars(WaitItem \/ StopEnd)

Spec == Init /\ [][Next]_vars /\ Fairness

-----------------------------------------------------------------------------
(* Properties                                                              *)

\* A frame is never marked for good: whoever sees it marked, its save is about to
\* be queued, or is queued, with a worker that will release it.  SaveFrame finds a
\* work item whenever it is called.
UsedFramesAreOnTheirWay ==
    \A f \in Frame : used[f] => saving = f \/ \E i \in InFlight : items[i].frame = f

\* The frame whose flag the next call tests (savedata.cpp, 992) is the one that call
\* begins to write in, and the frame it will save: however requests split at the end of
\* the buffer, wrap, or lose what did not fit, index and offset stay together, through
\* STOP and resumption too.  (The call may still end in the next frame: SavedAsWritten.)
IndexFollowsOffset == offset \in index * FrameSize .. (index + 1) * FrameSize - 1

\* After STOP no worker thread uses the stream: the buffer may be replaced and
\* the object destroyed.
QuietWhenStopped == stream = "stop" => Idle = Item /\ \A f \in Frame : ~used[f]

\* The transition to STOP ends, whatever the file system returns.
StopReturns == stream = "drain" ~> stream = "stop"

\* The writer is never shut out for good: a marked frame is released.
FramesComeBack == \A f \in Frame : used[f] ~> ~used[f]

\* A frame is not written to while it waits to be saved (savedata.cpp, 990: "Check
\* to see if this frame is available"; 1026: "if the next frame is available").
SavedAsWritten == spoiled = {}
=============================================================================
