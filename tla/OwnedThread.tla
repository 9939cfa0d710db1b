----------------------------- MODULE OwnedThread -----------------------------
(***************************************************************************)
(* What main relies on in each object that runs a thread (WasapiCapture,   *)
(* WasapiPassthrough, VolumeFollower): Start sets running_ and creates the *)
(* thread last, if at all; the thread leaves its loop when running_ is     *)
(* cleared; Stop clears it and joins the thread, once per Start.           *)
(***************************************************************************)

CONSTANT EndsAlone      \* whether the thread may also leave its loop by itself

VARIABLES running,      \* running_
          joining,      \* its owner waits in join()
          thread        \* "none", "up", or "left" (ended, not joined)

threadVars == <<running, joining, thread>>

ThreadInit == ~running /\ ~joining /\ thread = "none"

\* Start, with a device that may fail before the thread is created.
Start ==
    /\ ~running /\ ~joining /\ thread = "none"
    /\ running' = TRUE /\ thread' \in {"none", "up"}
    /\ UNCHANGED joining

\* A Start that had set running_ before creates the thread.
Create ==
    /\ running /\ ~joining /\ thread = "none"
    /\ thread' = "up"
    /\ UNCHANGED <<running, joining>>

Leave ==
    /\ thread = "up" /\ (running => EndsAlone)
    /\ thread' = "left"
    /\ UNCHANGED <<running, joining>>

Stop ==
    /\ running /\ ~joining
    /\ running' = FALSE /\ joining' = TRUE
    /\ UNCHANGED thread

Joined ==
    /\ joining /\ thread # "up"
    /\ joining' = FALSE /\ thread' = "none"
    /\ UNCHANGED running

\* The process ends.
Vanish == ThreadInit'

ThreadNext == Start \/ Create \/ Leave \/ Stop \/ Joined \/ Vanish

ThreadSpec == ThreadInit /\ [][ThreadNext]_threadVars
=============================================================================
