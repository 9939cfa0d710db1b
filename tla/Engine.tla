-------------------------------- MODULE Engine --------------------------------
(***************************************************************************)
(* main.cpp with the threads it owns, and the supervisor that keeps the    *)
(* engine running.  main constructs the volume follower, the capture, the  *)
(* ring and the passthrough in this order, starts their threads, waits to  *)
(* be told to stop, stops them, and leaves the scope, which destroys the   *)
(* objects in the reverse order.  Every call that talks to a device may    *)
(* fail; each failure leaves main by its own early return.                 *)
(*                                                                         *)
(* Of WasapiPassthrough, WasapiCapture and VolumeFollower this module keeps*)
(* what their owner sees: running_, the thread, and Stop.                  *)
(***************************************************************************)
EXTENDS Integers, Sequences

CONSTANT Modes      \* what the command lines ask for

ASSUME ModesAssumption == Modes \subseteq {"info", "monitor", "run"}

Threads == {"render", "capture", "volume"}

VARIABLES supervisor,   \* "wait": engine.exe runs, "sleep": it ended
          main,         \* where main is
          todo,         \* the Stops and destructors still ahead of main
          joining,      \* main waits in join()
          running,      \* running_ of each thread's object
          thread,       \* each thread: none, up, or left (ended, not joined)
          ringAlive,    \* the RingBuffer in main's or RunMonitor's frame exists
          volumeAlive,  \* the VolumeFollower exists
          stopRequest,  \* g_stop
          timed         \* a duration was given

objectVars == <<running, thread, ringAlive, volumeAlive>>
vars == <<supervisor, main, todo, joining, objectVars, stopRequest, timed>>

AllQuiet == [t \in Threads |-> FALSE]
NoThreads == [t \in Threads |-> "none"]

Init ==
    /\ supervisor = "wait" /\ main = "begin" /\ todo = <<>> /\ joining = FALSE
    /\ running = AllQuiet /\ thread = NoThreads
    /\ ringAlive = FALSE /\ volumeAlive = FALSE /\ stopRequest = FALSE /\ timed = FALSE

\* Forgets the explicit Stop calls, and the passthrough's destructor does not
\* stop its thread.
UnwindNoStop(stage) ==
    CASE stage = "volume"  -> <<"volume">>
      [] stage = "capture" -> <<"capture", "volume">>
      [] stage = "out"     -> <<"ring", "capture", "volume">>
      [] stage = "loop"    -> <<"ring", "capture", "volume">>
      [] stage = "monitor" -> <<"ring", "capture">>

\* What is left to do when main returns from a stage: the explicit Stops, then
\* the destructors of the objects constructed so far ("ring" frees the ring).
Unwind(stage) ==
    CASE stage = "volume"  -> <<"volume">>
      [] stage = "capture" -> <<"capture", "volume">>
      [] stage = "out"     -> <<"render", "ring", "capture", "volume">>
      [] stage = "loop"    -> <<"capture", "render", "volume">>
                              \o <<"render", "ring", "capture", "volume">>
      [] stage = "monitor" -> <<"capture", "ring", "capture">>

Leave(stage) == main' = "unwind" /\ todo' = Unwind(stage)

-----------------------------------------------------------------------------
(* main: construction and start                                            *)

\* Options, the config file, ResolveCapture: --list, --probe and --version end
\* here, and so does a missing input device.
Begin ==
    /\ main = "begin"
    /\ main' \in {IF m = "info" THEN "exit" ELSE m : m \in Modes} \cup {"exit"}
    /\ timed' \in BOOLEAN
    /\ UNCHANGED <<supervisor, todo, joining, objectVars, stopRequest>>

\* ResolveOutput, then VolumeFollower::Init, which may be off or fail.
InitVolume ==
    /\ main = "run"
    /\ \/ main' = "exit" /\ UNCHANGED objectVars
       \/ /\ main' = "initCapture"
          /\ volumeAlive' = TRUE
          /\ \E on \in BOOLEAN :
                /\ running' = [running EXCEPT !["volume"] = on]
                /\ thread' = [thread EXCEPT !["volume"] = IF on THEN "up" ELSE "none"]
          /\ UNCHANGED ringAlive
    /\ UNCHANGED <<supervisor, todo, joining, stopRequest, timed>>

\* WasapiCapture::Init; then the ring is constructed.
InitCapture ==
    /\ main = "initCapture"
    /\ \/ Leave("capture") /\ UNCHANGED ringAlive
       \/ main' = "initOut" /\ ringAlive' = TRUE /\ UNCHANGED todo
    /\ UNCHANGED <<supervisor, joining, running, thread, volumeAlive, stopRequest, timed>>

\* WasapiPassthrough::Init.
InitOut ==
    /\ main = "initOut"
    /\ \/ Leave("out")
       \/ main' = "startOut" /\ UNCHANGED todo
    /\ UNCHANGED <<supervisor, joining, objectVars, stopRequest, timed>>

\* Start sets running_ first; if the client does not start there is no thread.
StartThread(t, ok) ==
    /\ running' = [running EXCEPT ![t] = TRUE]
    /\ thread' = [thread EXCEPT ![t] = IF ok THEN "up" ELSE "none"]

StartOut ==
    /\ main = "startOut"
    /\ \E ok \in BOOLEAN :
          /\ StartThread("render", ok)
          /\ IF ok THEN main' = "startCapture" /\ UNCHANGED todo ELSE Leave("out")
    /\ UNCHANGED <<supervisor, joining, ringAlive, volumeAlive, stopRequest, timed>>

\* A failure stops the passthrough, then returns: its destructor finds nothing
\* left to stop.
StartCapture ==
    /\ main = "startCapture"
    /\ \E ok \in BOOLEAN :
          /\ StartThread("capture", ok)
          /\ IF ok THEN main' = "loop" /\ UNCHANGED todo
                   ELSE main' = "unwind" /\ todo' = <<"render">> \o Unwind("out")
    /\ UNCHANGED <<supervisor, joining, ringAlive, volumeAlive, stopRequest, timed>>

\* RunMonitor up to its loop: capture.Init, the ring, Start.
StartMonitor ==
    /\ main = "monitor"
    /\ \/ main' = "unwind" /\ todo' = <<"capture">> /\ UNCHANGED objectVars
       \/ \E ok \in BOOLEAN :
            /\ ringAlive' = TRUE
            /\ StartThread("capture", ok)
            /\ IF ok THEN main' = "monitorLoop" /\ UNCHANGED todo
                     ELSE main' = "unwind" /\ todo' = <<"ring", "capture">>
            /\ UNCHANGED volumeAlive
    /\ UNCHANGED <<supervisor, joining, stopRequest, timed>>

-----------------------------------------------------------------------------
(* main: the loop, the Stops and the destructors                           *)

\* The loop looks at g_stop and, when a duration was given, at the clock.
LeaveLoop ==
    /\ main = "loop" /\ (stopRequest \/ timed)
    /\ Leave("loop")
    /\ UNCHANGED <<supervisor, joining, objectVars, stopRequest, timed>>

\* RunMonitor's loop also ends by itself.
LeaveMonitor ==
    /\ main = "monitorLoop"
    /\ Leave("monitor")
    /\ UNCHANGED <<supervisor, joining, objectVars, stopRequest, timed>>

\* Does not join the thread.
StopNoJoin ==
    /\ main = "unwind" /\ todo # <<>> /\ ~joining
    /\ LET o == Head(todo)
       IN  /\ o # "ring" /\ running[o]
           /\ running' = [running EXCEPT ![o] = FALSE]
    /\ todo' = Tail(todo)
    /\ UNCHANGED <<supervisor, main, joining, thread, ringAlive, volumeAlive, stopRequest, timed>>

\* Stop(): clear running_, set the stop event, and join.
StopObject ==
    /\ main = "unwind" /\ todo # <<>> /\ ~joining
    /\ LET o == Head(todo)
       IN  /\ o # "ring" /\ running[o]
           /\ running' = [running EXCEPT ![o] = FALSE]
    /\ joining' = TRUE
    /\ UNCHANGED <<supervisor, main, todo, thread, ringAlive, volumeAlive, stopRequest, timed>>

\* join() returns when the thread has ended, at once if there is none.
Joined ==
    /\ joining
    /\ thread[Head(todo)] # "up"
    /\ thread' = [thread EXCEPT ![Head(todo)] = "none"]
    /\ joining' = FALSE /\ todo' = Tail(todo)
    /\ UNCHANGED <<supervisor, main, running, ringAlive, volumeAlive, stopRequest, timed>>

\* Nothing to stop, or the ring's destructor.
Passed ==
    /\ main = "unwind" /\ todo # <<>> /\ ~joining
    /\ \/ Head(todo) = "ring" /\ ringAlive' = FALSE
       \/ Head(todo) # "ring" /\ ~running[Head(todo)] /\ UNCHANGED ringAlive
    /\ todo' = Tail(todo)
    /\ UNCHANGED <<supervisor, main, joining, running, thread, volumeAlive, stopRequest, timed>>

Return ==
    /\ main = "unwind" /\ todo = <<>>
    /\ main' = "exit" /\ volumeAlive' = FALSE
    /\ UNCHANGED <<supervisor, todo, joining, running, thread, ringAlive, stopRequest, timed>>

-----------------------------------------------------------------------------
(* The threads, the user and the supervisor                                *)

\* A capture thread that does not look at running_.
ThreadStopsButCapture(t) ==
    /\ thread[t] = "up" /\ ~running[t] /\ t # "capture"
    /\ thread' = [thread EXCEPT ![t] = "left"]
    /\ UNCHANGED <<supervisor, main, todo, joining, running, ringAlive, volumeAlive,
                   stopRequest, timed>>

\* A thread that was told to stop ends.
ThreadStops(t) ==
    /\ thread[t] = "up" /\ ~running[t]
    /\ thread' = [thread EXCEPT ![t] = "left"]
    /\ UNCHANGED <<supervisor, main, todo, joining, running, ringAlive, volumeAlive,
                   stopRequest, timed>>

\* The output device is gone: the render thread leaves its loop and nobody is
\* told (GetBuffer failed, WasapiPassthrough.cpp 362-367).
RenderFails ==
    /\ thread["render"] = "up"
    /\ thread' = [thread EXCEPT !["render"] = "left"]
    /\ UNCHANGED <<supervisor, main, todo, joining, running, ringAlive, volumeAlive,
                   stopRequest, timed>>

\* CtrlHandler
CtrlC ==
    /\ main \notin {"begin", "exit"} /\ ~stopRequest
    /\ stopRequest' = TRUE
    /\ UNCHANGED <<supervisor, main, todo, joining, objectVars, timed>>

\* A supervisor that takes Ctrl+C for its own end.
EngineEndedUnasked ==
    /\ supervisor = "wait" /\ main = "exit" /\ ~stopRequest
    /\ supervisor' = "sleep"
    /\ UNCHANGED <<main, todo, joining, objectVars, stopRequest, timed>>

\* sh.Run returns when the engine has ended; the supervisor sleeps 5 s.
EngineEnded ==
    /\ supervisor = "wait" /\ main = "exit"
    /\ supervisor' = "sleep"
    /\ UNCHANGED <<main, todo, joining, objectVars, stopRequest, timed>>

\* Do ... Loop: a fresh process.
Relaunch ==
    /\ supervisor = "sleep"
    /\ supervisor' = "wait" /\ main' = "begin" /\ todo' = <<>> /\ joining' = FALSE
    /\ running' = AllQuiet /\ thread' = NoThreads
    /\ ringAlive' = FALSE /\ volumeAlive' = FALSE /\ stopRequest' = FALSE
    /\ timed' = FALSE

\* The process is killed (stop-engine.ps1, logoff, a crash).
Killed ==
    /\ supervisor = "wait" /\ main # "exit"
    /\ main' = "exit" /\ todo' = <<>> /\ joining' = FALSE
    /\ running' = AllQuiet /\ thread' = NoThreads
    /\ ringAlive' = FALSE /\ volumeAlive' = FALSE
    /\ UNCHANGED <<supervisor, stopRequest, timed>>

-----------------------------------------------------------------------------
Main == \/ Begin \/ InitVolume \/ InitCapture \/ InitOut \/ StartOut \/ StartCapture
        \/ StartMonitor \/ LeaveLoop \/ LeaveMonitor
        \/ StopObject \/ Joined \/ Passed \/ Return

Next == \/ Main \/ (\E t \in Threads : ThreadStops(t)) \/ RenderFails \/ CtrlC
        \/ EngineEnded \/ Relaunch \/ Killed

Spec == Init /\ [][Next]_vars

\* main, a thread told to stop, and the supervisor run on.  Nobody has to press
\* Ctrl+C and no device has to fail.
FairSpec == /\ Spec
            /\ WF_vars(Main)
            /\ \A t \in Threads : WF_vars(ThreadStops(t))
            /\ WF_vars(EngineEnded) /\ WF_vars(Relaunch)

-----------------------------------------------------------------------------
(* Properties                                                              *)

\* No thread outlives what it uses, on any way out of main: the ring that the
\* render and capture threads share, and the volume follower that the render
\* thread reads (main.cpp 274-276).
NothingDangles ==
    /\ thread["render"] = "up" => ringAlive /\ volumeAlive
    /\ thread["capture"] = "up" => ringAlive

\* main returns only when every thread is joined: a std::thread destroyed while
\* joinable would terminate the process.
ExitIsClean == main = "exit" => thread = NoThreads /\ ~ringAlive

\* Ctrl+C ends the engine whatever state it and its threads are in.
CtrlCStops == stopRequest /\ main = "loop" ~> main = "exit"

\* Whatever step of main fails and however much was built by then, the way out
\* ends and the supervisor starts the engine again.
EveryExitRelaunches == main = "unwind" ~> main = "begin"

\* Restart on failure: an engine that lost its output device ends, so that the
\* supervisor can start it again (README.md, 152-153).
FailureRestarts == (main = "loop" /\ thread["render"] = "left") ~> main = "begin"
=============================================================================
