----------------------------- MODULE FrameLevel -----------------------------
(***************************************************************************)
(* The ring between the capture and the render thread as each of them may  *)
(* count on the other to use it: the one adds a packet's frames, as many   *)
(* as fit; the other takes whole frames that are there.                    *)
(***************************************************************************)
EXTENDS Naturals

CONSTANTS Frames,       \* whole frames the ring can hold
          Chunks        \* frames a captured packet may have

VARIABLE level          \* whole frames in the ring

Put(n) == level' = IF level + n <= Frames THEN level + n ELSE Frames

Take(n) == n <= level /\ level' = level - n

LevelNext == (\E n \in Chunks : Put(n)) \/ (\E n \in 1..level : Take(n))

LevelSpec == level = 0 /\ [][LevelNext]_level
=============================================================================
