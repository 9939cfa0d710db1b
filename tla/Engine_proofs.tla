----------------------------- MODULE Engine_proofs -----------------------------
(***************************************************************************)
(* On every way out of main the threads end before the objects they use,   *)
(* and none is left: whatever step of the construction failed, however     *)
(* much was built by then, and whatever a thread did meanwhile.            *)
(***************************************************************************)
EXTENDS VolumeFollower, SequenceTheorems, TLAPS

-----------------------------------------------------------------------------
(* The inductive invariant                                                 *)

Running == {"initCapture", "initOut", "startOut", "startCapture", "loop"}

TypeOK ==
    /\ main \in Running \cup {"begin", "run", "monitor", "monitorLoop", "unwind", "exit"}
    /\ todo \in Seq(Threads \cup {"ring"}) /\ joining \in BOOLEAN
    /\ running \in [Threads -> BOOLEAN] /\ thread \in [Threads -> {"none", "up", "left"}]

\* The thread is stopped on the way that is left, the ring still there.
StopAhead(t, way) == \E k \in 1..Len(way) : way[k] = t /\ \A j \in 1..(k-1) : way[j] # "ring"

\* Something is on the way that is left.
Ahead(o, way) == \E k \in 1..Len(way) : way[k] = o

\* A thread that nobody has stopped is still to be stopped; no Stop is forgotten
\* because a thread ended by itself.
Kept ==
    /\ \A t \in Threads : thread[t] # "none" => running[t] \/ (joining /\ Head(todo) = t)
    /\ joining => main = "unwind" /\ todo # <<>> /\ Head(todo) \in Threads

\* Where each thread may still be there, and what is there with it.
Render ==
    thread["render"] # "none" =>
        /\ ringAlive /\ volumeAlive
        /\ main \in {"startCapture", "loop"} \/ (main = "unwind" /\ StopAhead("render", todo))

Capture ==
    thread["capture"] # "none" =>
        /\ ringAlive
        /\ main \in {"loop", "monitorLoop"} \/ (main = "unwind" /\ StopAhead("capture", todo))

Volume ==
    thread["volume"] # "none" => main \in Running \/ (main = "unwind" /\ Ahead("volume", todo))

Ring ==
    /\ ringAlive => \/ main \in (Running \ {"initCapture"}) \cup {"monitorLoop"}
                    \/ main = "unwind" /\ Ahead("ring", todo)
    /\ main \in (Running \ {"initCapture"}) \cup {"monitorLoop"} => ringAlive
    /\ main \in Running => volumeAlive

IInv == TypeOK /\ Kept /\ Render /\ Capture /\ Volume /\ Ring

-----------------------------------------------------------------------------
(* Ways out                                                                *)

Way == Seq(Threads \cup {"ring"})

LEMMA TailAhead ==
    ASSUME NEW way \in Way, way # <<>>, NEW o, Ahead(o, way), Head(way) # o
    PROVE  Ahead(o, Tail(way))
<1>1. PICK k \in 1..Len(way) : way[k] = o
  BY DEF Ahead
<1>2. k # 1 /\ k - 1 \in 1..Len(Tail(way)) /\ Tail(way)[k - 1] = way[k]
  BY <1>1, SMT DEF Way
<1> QED BY <1>1, <1>2 DEF Ahead

LEMMA TailStopAhead ==
    ASSUME NEW way \in Way, way # <<>>, NEW t, StopAhead(t, way), Head(way) # t
    PROVE  Head(way) # "ring" /\ StopAhead(t, Tail(way))
<1>1. PICK k \in 1..Len(way) : way[k] = t /\ \A j \in 1..(k-1) : way[j] # "ring"
  BY DEF StopAhead
<1>2. k # 1 /\ k - 1 \in 1..Len(Tail(way)) /\ Tail(way)[k - 1] = way[k] /\ Head(way) = way[1]
  BY <1>1, SMT DEF Way
<1>3. 1 \in 1..(k-1)
  BY <1>1, <1>2, SMT
<1>4. \A j \in 1..(k-2) : Tail(way)[j] = way[j + 1] /\ j + 1 \in 1..(k-1)
  BY <1>1, <1>2, SMT DEF Way
<1>5. (k - 1) - 1 = k - 2
  BY SMT
<1>6. \A j \in 1..((k-1)-1) : Tail(way)[j] # "ring"
  BY <1>1, <1>4, <1>5
<1>7. StopAhead(t, Tail(way))
  BY <1>1, <1>2, <1>6 DEF StopAhead
<1> QED BY <1>1, <1>2, <1>3, <1>7

\* Nobody is stopped after the last entry, and the ring frees what is before it.
LEMMA StopAheadIsAhead == ASSUME NEW way, NEW t, StopAhead(t, way) PROVE Ahead(t, way)
  BY DEF StopAhead, Ahead

LEMMA WayOfOut ==
    /\ Unwind("out") \in Way /\ Len(Unwind("out")) = 4
    /\ Unwind("out")[1] = "render" /\ Unwind("out")[2] = "ring"
    /\ Unwind("out")[3] = "capture" /\ Unwind("out")[4] = "volume"
  BY SMT DEF Unwind, Way, Threads

LEMMA WayOfCapture ==
    /\ Unwind("capture") \in Way /\ Len(Unwind("capture")) = 2
    /\ Unwind("capture")[1] = "capture" /\ Unwind("capture")[2] = "volume"
  BY SMT DEF Unwind, Way, Threads

LEMMA WayOfMonitor ==
    /\ Unwind("monitor") \in Way /\ Len(Unwind("monitor")) = 3
    /\ Unwind("monitor")[1] = "capture" /\ Unwind("monitor")[2] = "ring"
  BY SMT DEF Unwind, Way, Threads

LEMMA WayOfLoop ==
    /\ Unwind("loop") \in Way /\ Len(Unwind("loop")) = 7
    /\ Unwind("loop")[1] = "capture" /\ Unwind("loop")[2] = "render"
    /\ Unwind("loop")[3] = "volume" /\ Unwind("loop")[5] = "ring"
  BY SMT DEF Unwind, Way, Threads

LEMMA WayOfStart ==
    LET way == <<"render">> \o Unwind("out")
    IN  /\ way \in Way /\ Len(way) = 5
        /\ way[1] = "render" /\ way[3] = "ring" /\ way[5] = "volume"
<1>1. PICK out : out = Unwind("out")
  OBVIOUS
<1>2. out \in Way /\ Len(out) = 4 /\ out[2] = "ring" /\ out[4] = "volume" /\ <<"render">> \in Way
  BY <1>1, WayOfOut DEF Way, Threads
<1>3. PICK first : first = <<"render">>
  OBVIOUS
<1>4. first \in Way /\ Len(first) = 1 /\ first[1] = "render"
  BY <1>2, <1>3
<1>5. /\ first \o out \in Way /\ Len(first \o out) = Len(first) + Len(out)
      /\ \A i \in 1..(Len(first) + Len(out)) :
            (first \o out)[i] = IF i <= Len(first) THEN first[i] ELSE out[i - Len(first)]
  <2>1. first \in Seq(Threads \cup {"ring"}) /\ out \in Seq(Threads \cup {"ring"})
    BY <1>2, <1>4 DEF Way
  <2> QED BY ONLY <2>1, ConcatProperties DEF Way
<1>6. /\ first \o out \in Way /\ Len(first \o out) = 5
      /\ (first \o out)[1] = "render" /\ (first \o out)[3] = "ring" /\ (first \o out)[5] = "volume"
  BY <1>2, <1>4, <1>5, SMT
<1> QED BY ONLY <1>1, <1>3, <1>6

-----------------------------------------------------------------------------
(* The steps of main up to its loop                                        *)

LEMMA BeginKeeps == ASSUME IInv, Begin PROVE IInv'
<1>1. main = "begin" /\ main' \in {"run", "monitor", "exit"} /\ UNCHANGED <<todo, joining, objectVars>>
  BY ModesAssumption DEF Begin
<1>2. UNCHANGED <<todo, joining, running, thread, ringAlive, volumeAlive>>
  BY <1>1, Zenon DEF objectVars
<1> QED BY <1>1, <1>2 DEF IInv, TypeOK, Kept, Render, Capture, Volume, Ring, Running, Threads

LEMMA StartKeeps ==
    ASSUME TypeOK, NEW t \in Threads, NEW ok \in BOOLEAN, StartThread(t, ok)
    PROVE  /\ running' \in [Threads -> BOOLEAN] /\ thread' \in [Threads -> {"none", "up", "left"}]
           /\ running'[t]
           /\ ~ok => thread'[t] = "none"
           /\ \A u \in Threads \ {t} : running'[u] = running[u] /\ thread'[u] = thread[u]
  BY DEF TypeOK, StartThread

LEMMA InitVolumeKeeps == ASSUME IInv, InitVolume PROVE IInv'
<1>1. main = "run" /\ UNCHANGED <<todo, joining>>
  BY Zenon DEF InitVolume
<1>2. \A t \in Threads : thread[t] = "none"
  BY <1>1 DEF IInv, Render, Capture, Volume, Running, Threads
<1>3. ~joining /\ ~ringAlive
  BY <1>1 DEF IInv, Kept, Ring, Running
<1>4. CASE main' = "exit" /\ UNCHANGED objectVars
  <2>1. UNCHANGED <<running, thread, ringAlive, volumeAlive>>
    BY <1>4, Zenon DEF objectVars
  <2> QED BY <1>1, <1>2, <1>3, <1>4, <2>1
          DEF IInv, TypeOK, Kept, Render, Capture, Volume, Ring, Running, Threads
<1>5. CASE /\ main' = "initCapture" /\ volumeAlive' = TRUE /\ UNCHANGED ringAlive
           /\ \E on \in BOOLEAN :
                /\ running' = [running EXCEPT !["volume"] = on]
                /\ thread' = [thread EXCEPT !["volume"] = IF on THEN "up" ELSE "none"]
  <2>1. PICK on \in BOOLEAN :
          /\ running' = [running EXCEPT !["volume"] = on]
          /\ thread' = [thread EXCEPT !["volume"] = IF on THEN "up" ELSE "none"]
    BY <1>5
  <2>2. /\ running' \in [Threads -> BOOLEAN] /\ thread' \in [Threads -> {"none", "up", "left"}]
        /\ thread'["volume"] # "none" => running'["volume"]
        /\ \A t \in Threads \ {"volume"} : thread'[t] = "none"
    BY <1>2, <2>1 DEF IInv, TypeOK, Threads
  <2> QED BY <1>1, <1>3, <1>5, <2>2
          DEF IInv, TypeOK, Kept, Render, Capture, Volume, Ring, Running, Threads
<1> QED BY <1>4, <1>5, Zenon DEF InitVolume

\* What main may leave a stage with.
LEMMA LeaveKeeps ==
    ASSUME IInv, NEW way, main' = "unwind", todo' = way, way \in Way, ~joining,
           UNCHANGED <<joining, ringAlive, volumeAlive>>,
           running' \in [Threads -> BOOLEAN], thread' \in [Threads -> {"none", "up", "left"}],
           \A t \in Threads : thread'[t] # "none" => running'[t],
           thread'["render"] # "none" => ringAlive /\ volumeAlive /\ StopAhead("render", way),
           thread'["capture"] # "none" => ringAlive /\ StopAhead("capture", way),
           thread'["volume"] # "none" => Ahead("volume", way),
           ringAlive => Ahead("ring", way)
    PROVE  IInv'
<1>1. TypeOK'
  BY DEF IInv, TypeOK, Way
<1>2. Kept' /\ Render' /\ Capture' /\ Volume' /\ Ring'
  BY DEF Kept, Render, Capture, Volume, Ring, Running
<1> QED BY <1>1, <1>2 DEF IInv

\* While main constructs, only the threads of earlier stages may be there.
LEMMA Constructing ==
    ASSUME IInv, main # "unwind"
    PROVE  /\ ~joining
           /\ \A t \in Threads : thread[t] # "none" => running[t]
           /\ thread["render"] # "none" => main \in {"startCapture", "loop"}
           /\ thread["capture"] # "none" => main \in {"loop", "monitorLoop"}
           /\ thread["volume"] # "none" => main \in Running
           /\ ringAlive => main \in (Running \ {"initCapture"}) \cup {"monitorLoop"}
  BY Zenon DEF IInv, Kept, Render, Capture, Volume, Ring

LEMMA InitCaptureKeeps == ASSUME IInv, InitCapture PROVE IInv'
<1>1. main = "initCapture" /\ UNCHANGED <<joining, running, thread, volumeAlive>>
  BY Zenon DEF InitCapture
<1>2. /\ ~joining /\ ~ringAlive /\ \A t \in Threads : thread[t] # "none" => running[t]
      /\ thread["render"] = "none" /\ thread["capture"] = "none"
  BY <1>1, Constructing
<1>3. CASE Leave("capture") /\ UNCHANGED ringAlive
  <2>1. PICK way : way = Unwind("capture")
    OBVIOUS
  <2>2. way \in Way /\ Ahead("volume", way)
    BY <2>1, WayOfCapture, SMT DEF Ahead
  <2> QED BY <1>1, <1>2, <1>3, <2>1, <2>2, LeaveKeeps DEF Leave, IInv, TypeOK
<1>4. CASE main' = "initOut" /\ ringAlive' = TRUE /\ UNCHANGED todo
  BY <1>1, <1>2, <1>4 DEF IInv, TypeOK, Kept, Render, Capture, Volume, Ring, Running, Threads
<1> QED BY <1>3, <1>4, Zenon DEF InitCapture

LEMMA OutWay ==
    /\ Unwind("out") \in Way /\ StopAhead("render", Unwind("out"))
    /\ Ahead("volume", Unwind("out")) /\ Ahead("ring", Unwind("out"))
<1>1. PICK way : way = Unwind("out")
  OBVIOUS
<1>2. way \in Way /\ Len(way) = 4 /\ way[1] = "render" /\ way[2] = "ring" /\ way[4] = "volume"
  BY <1>1, WayOfOut
<1>3. StopAhead("render", way) /\ Ahead("volume", way) /\ Ahead("ring", way)
  BY <1>2, SMT DEF StopAhead, Ahead
<1> QED BY <1>1, <1>2, <1>3

LEMMA InitOutKeeps == ASSUME IInv, InitOut PROVE IInv'
<1>1. main = "initOut" /\ UNCHANGED <<joining, running, thread, ringAlive, volumeAlive>>
  BY Zenon DEF InitOut, objectVars
<1>2. /\ ~joining /\ \A t \in Threads : thread[t] # "none" => running[t]
      /\ thread["render"] = "none" /\ thread["capture"] = "none"
  BY <1>1, Constructing
<1>3. CASE Leave("out")
  BY <1>1, <1>2, <1>3, OutWay, LeaveKeeps DEF Leave, IInv, TypeOK
<1>4. CASE main' = "startOut" /\ UNCHANGED todo
  BY <1>1, <1>2, <1>4 DEF IInv, TypeOK, Kept, Render, Capture, Volume, Ring, Running, Threads
<1> QED BY <1>3, <1>4, Zenon DEF InitOut

LEMMA StartOutKeeps == ASSUME IInv, StartOut PROVE IInv'
<1>1. main = "startOut" /\ UNCHANGED <<joining, ringAlive, volumeAlive>>
  BY Zenon DEF StartOut
<1>2. /\ ~joining /\ \A t \in Threads : thread[t] # "none" => running[t]
      /\ thread["capture"] = "none" /\ ringAlive /\ volumeAlive
  BY <1>1, Constructing DEF IInv, Ring, Running
<1>3. PICK ok \in BOOLEAN :
        /\ StartThread("render", ok)
        /\ IF ok THEN main' = "startCapture" /\ UNCHANGED todo ELSE Leave("out")
  BY Zenon DEF StartOut
<1>4. /\ running' \in [Threads -> BOOLEAN] /\ thread' \in [Threads -> {"none", "up", "left"}]
      /\ running'["render"]
      /\ ~ok => thread'["render"] = "none"
      /\ \A u \in Threads \ {"render"} : running'[u] = running[u] /\ thread'[u] = thread[u]
  BY <1>3, StartKeeps DEF IInv, Threads
<1>5. thread'["capture"] = "none" /\ \A t \in Threads : thread'[t] # "none" => running'[t]
  BY <1>2, <1>4 DEF Threads
<1>6. CASE ok
  BY <1>1, <1>2, <1>3, <1>4, <1>5, <1>6
     DEF IInv, TypeOK, Kept, Render, Capture, Volume, Ring, Running
<1>7. CASE ~ok
  BY <1>1, <1>2, <1>3, <1>4, <1>5, <1>7, OutWay, LeaveKeeps DEF Leave
<1> QED BY <1>6, <1>7

LEMMA StartCaptureKeeps == ASSUME IInv, StartCapture PROVE IInv'
<1>1. main = "startCapture" /\ UNCHANGED <<joining, ringAlive, volumeAlive>>
  BY Zenon DEF StartCapture
<1>2. /\ ~joining /\ \A t \in Threads : thread[t] # "none" => running[t]
      /\ ringAlive /\ volumeAlive
  BY <1>1, Constructing DEF IInv, Ring, Running
<1>3. PICK ok \in BOOLEAN :
        /\ StartThread("capture", ok)
        /\ IF ok THEN main' = "loop" /\ UNCHANGED todo
                 ELSE main' = "unwind" /\ todo' = <<"render">> \o Unwind("out")
  BY Zenon DEF StartCapture
<1>4. /\ running' \in [Threads -> BOOLEAN] /\ thread' \in [Threads -> {"none", "up", "left"}]
      /\ running'["capture"]
      /\ ~ok => thread'["capture"] = "none"
      /\ \A u \in Threads \ {"capture"} : running'[u] = running[u] /\ thread'[u] = thread[u]
  BY <1>3, StartKeeps DEF IInv, Threads
<1>5. \A t \in Threads : thread'[t] # "none" => running'[t]
  BY <1>2, <1>4 DEF Threads
<1>6. CASE ok
  BY <1>1, <1>2, <1>3, <1>4, <1>5, <1>6
     DEF IInv, TypeOK, Kept, Render, Capture, Volume, Ring, Running
<1>7. CASE ~ok
  <2>1. PICK way : way = <<"render">> \o Unwind("out")
    OBVIOUS
  <2>2. /\ way \in Way /\ Len(way) = 5
        /\ way[1] = "render" /\ way[3] = "ring" /\ way[5] = "volume"
    BY <2>1, WayOfStart
  <2>3. StopAhead("render", way) /\ Ahead("volume", way) /\ Ahead("ring", way)
    BY <2>2, SMT DEF StopAhead, Ahead
  <2> QED BY <1>1, <1>2, <1>3, <1>4, <1>5, <1>7, <2>1, <2>2, <2>3, LeaveKeeps
<1> QED BY <1>6, <1>7

LEMMA StartMonitorKeeps == ASSUME IInv, StartMonitor PROVE IInv'
<1>1. main = "monitor" /\ UNCHANGED joining
  BY Zenon DEF StartMonitor
<1>2. ~joining /\ ~ringAlive /\ \A t \in Threads : thread[t] = "none"
  BY <1>1, Constructing DEF Running, Threads
<1>3. CASE main' = "unwind" /\ todo' = <<"capture">> /\ UNCHANGED objectVars
  <2>1. UNCHANGED <<running, thread, ringAlive, volumeAlive>>
    BY <1>3, Zenon DEF objectVars
  <2>2. <<"capture">> \in Way
    BY DEF Way, Threads
  <2> QED BY <1>1, <1>2, <1>3, <2>1, <2>2 DEF Way,
             IInv, TypeOK, Kept, Render, Capture, Volume, Ring, Running, Threads
<1>4. ASSUME NEW ok \in BOOLEAN, ringAlive' = TRUE, StartThread("capture", ok), UNCHANGED volumeAlive,
             IF ok THEN main' = "monitorLoop" /\ UNCHANGED todo
                   ELSE main' = "unwind" /\ todo' = <<"ring", "capture">>
      PROVE  IInv'
  <2>1. /\ running' \in [Threads -> BOOLEAN] /\ thread' \in [Threads -> {"none", "up", "left"}]
        /\ running'["capture"]
        /\ ~ok => thread'["capture"] = "none"
        /\ \A u \in Threads \ {"capture"} : running'[u] = running[u] /\ thread'[u] = thread[u]
    BY <1>4, StartKeeps DEF IInv, Threads
  <2>2. \A t \in Threads \ {"capture"} : thread'[t] = "none"
    BY <1>2, <2>1
  <2>3. CASE ok
    BY <1>1, <1>2, <1>4, <2>1, <2>2, <2>3
       DEF IInv, TypeOK, Kept, Render, Capture, Volume, Ring, Running, Threads
  <2>4. CASE ~ok
    <3>1. <<"ring", "capture">> \in Way /\ Ahead("ring", <<"ring", "capture">>)
      BY DEF Way, Threads, Ahead
    <3>2. \A t \in Threads : thread'[t] = "none"
      BY <2>1, <2>2, <2>4
    <3> QED BY <1>1, <1>2, <1>4, <2>1, <2>4, <3>1, <3>2
            DEF Way, IInv, TypeOK, Kept, Render, Capture, Volume, Ring, Running, Threads
  <2> QED BY <2>3, <2>4
<1> QED BY <1>3, <1>4, Zenon DEF StartMonitor

-----------------------------------------------------------------------------
(* The way out                                                             *)

LEMMA LeaveLoopKeeps == ASSUME IInv, LeaveLoop PROVE IInv'
<1>1. main = "loop" /\ Leave("loop") /\ UNCHANGED <<joining, running, thread, ringAlive, volumeAlive>>
  BY Zenon DEF LeaveLoop, objectVars
<1>2. ~joining /\ (\A t \in Threads : thread[t] # "none" => running[t]) /\ ringAlive /\ volumeAlive
  BY <1>1, Constructing DEF IInv, Ring, Running
<1>3. PICK way : way = Unwind("loop")
  OBVIOUS
<1>4. /\ way \in Way /\ Len(way) = 7 /\ way[1] = "capture" /\ way[2] = "render"
      /\ way[3] = "volume" /\ way[5] = "ring"
  BY <1>3, WayOfLoop
<1>5. /\ StopAhead("render", way) /\ StopAhead("capture", way)
      /\ Ahead("volume", way) /\ Ahead("ring", way)
  <2>1. 1 \in 1..Len(way) /\ 2 \in 1..Len(way) /\ 3 \in 1..Len(way) /\ 5 \in 1..Len(way)
    BY <1>4, SMT
  <2>2. (\A j \in 1..(1-1) : way[j] # "ring") /\ \A j \in 1..(2-1) : way[j] # "ring"
    BY <1>4, SMT
  <2> QED BY <1>4, <2>1, <2>2, Zenon DEF StopAhead, Ahead
<1> QED BY <1>1, <1>2, <1>3, <1>4, <1>5, LeaveKeeps DEF Leave, IInv, TypeOK

LEMMA LeaveMonitorKeeps == ASSUME IInv, LeaveMonitor PROVE IInv'
<1>1. main = "monitorLoop" /\ Leave("monitor") /\ UNCHANGED <<joining, running, thread, ringAlive, volumeAlive>>
  BY Zenon DEF LeaveMonitor, objectVars
<1>2. /\ ~joining /\ (\A t \in Threads : thread[t] # "none" => running[t])
      /\ ringAlive /\ thread["render"] = "none" /\ thread["volume"] = "none"
  BY <1>1, Constructing DEF IInv, Ring, Running
<1>3. PICK way : way = Unwind("monitor")
  OBVIOUS
<1>4. way \in Way /\ Len(way) = 3 /\ way[1] = "capture" /\ way[2] = "ring"
  BY <1>3, WayOfMonitor
<1>5. StopAhead("capture", way) /\ Ahead("ring", way)
  BY <1>4, SMT DEF StopAhead, Ahead
<1> QED BY <1>1, <1>2, <1>3, <1>4, <1>5, LeaveKeeps DEF Leave, IInv, TypeOK

LEMMA StopObjectKeeps == ASSUME IInv, StopObject PROVE IInv'
<1>1. /\ main = "unwind" /\ todo # <<>> /\ ~joining /\ joining'
      /\ UNCHANGED <<main, todo, thread, ringAlive, volumeAlive>>
      /\ Head(todo) # "ring" /\ running' = [running EXCEPT ![Head(todo)] = FALSE]
  BY Zenon DEF StopObject, IInv, TypeOK
<1>2. Head(todo) \in Threads
  <2>1. Head(todo) \in Threads \cup {"ring"}
    BY <1>1 DEF IInv, TypeOK
  <2> QED BY <1>1, <2>1
<1>3. TypeOK'
  BY <1>1, <1>2 DEF IInv, TypeOK
<1>4. Kept'
  <2>1. \A t \in Threads : thread[t] # "none" => running[t]
    BY <1>1, Zenon DEF IInv, Kept
  <2>2. \A t \in Threads : t # Head(todo) => running'[t] = running[t]
    BY <1>1 DEF IInv, TypeOK
  <2> QED BY <1>1, <1>2, <2>1, <2>2, Zenon DEF Kept
<1>5. Render' /\ Capture' /\ Volume' /\ Ring'
  BY <1>1, Zenon DEF IInv, Render, Capture, Volume, Ring
<1> QED BY <1>3, <1>4, <1>5, Zenon DEF IInv

\* The head of the way is done with: a Stop whose thread has gone, or the ring.
LEMMA HeadDone ==
    ASSUME IInv, main = "unwind", UNCHANGED <<main, running, volumeAlive>>, todo # <<>>,
           todo' = Tail(todo), ~joining', thread' \in [Threads -> {"none", "up", "left"}],
           \A t \in Threads : thread'[t] # "none" => thread[t] # "none" /\ running[t] /\ Head(todo) # t,
           ringAlive' <=> ringAlive /\ Head(todo) # "ring", joining' \in BOOLEAN
    PROVE  IInv'
<1>1. todo \in Way
  BY DEF IInv, TypeOK, Way
<1>2. TypeOK'
  <2>1. Tail(todo) \in Seq(Threads \cup {"ring"})
    BY DEF IInv, TypeOK
  <2> QED BY <2>1, Zenon DEF IInv, TypeOK
<1>3. Kept'
  BY Zenon DEF Kept
<1>4. Render'
  <2>1. SUFFICES ASSUME thread'["render"] # "none"
                 PROVE  ringAlive' /\ volumeAlive' /\ StopAhead("render", Tail(todo))
    BY Zenon DEF Render
  <2>2. thread["render"] # "none" /\ Head(todo) # "render"
    BY <2>1 DEF Threads
  <2>3. ringAlive /\ volumeAlive /\ StopAhead("render", todo)
    BY <2>2 DEF IInv, Render
  <2> QED BY <1>1, <2>2, <2>3, TailStopAhead
<1>5. Capture'
  <2>1. SUFFICES ASSUME thread'["capture"] # "none"
                 PROVE  ringAlive' /\ StopAhead("capture", Tail(todo))
    BY Zenon DEF Capture
  <2>2. thread["capture"] # "none" /\ Head(todo) # "capture"
    BY <2>1 DEF Threads
  <2>3. ringAlive /\ StopAhead("capture", todo)
    BY <2>2 DEF IInv, Capture
  <2> QED BY <1>1, <2>2, <2>3, TailStopAhead
<1>6. Volume'
  <2>1. SUFFICES ASSUME thread'["volume"] # "none" PROVE Ahead("volume", Tail(todo))
    BY Zenon DEF Volume
  <2>2. thread["volume"] # "none" /\ Head(todo) # "volume"
    BY <2>1 DEF Threads
  <2>3. Ahead("volume", todo)
    BY <2>2 DEF IInv, Volume, Running
  <2> QED BY <1>1, <2>2, <2>3, TailAhead
<1>7. Ring'
  <2>1. ringAlive => Ahead("ring", todo)
    BY DEF IInv, Ring, Running
  <2>2. ringAlive' => Ahead("ring", Tail(todo))
    BY <1>1, <2>1, TailAhead
  <2> QED BY <2>2 DEF Ring, Running
<1> QED BY <1>2, <1>3, <1>4, <1>5, <1>6, <1>7, Zenon DEF IInv

LEMMA JoinedKeeps == ASSUME IInv, Joined PROVE IInv'
<1>1. /\ joining /\ thread' = [thread EXCEPT ![Head(todo)] = "none"]
      /\ joining' = FALSE /\ todo' = Tail(todo)
      /\ UNCHANGED <<main, running, ringAlive, volumeAlive>>
  BY Zenon DEF Joined
<1>2. main = "unwind" /\ todo # <<>> /\ Head(todo) \in Threads
  BY <1>1, Zenon DEF IInv, Kept
<1>3. \A t \in Threads : thread[t] # "none" => running[t] \/ Head(todo) = t
  BY Zenon DEF IInv, Kept
<1>4. /\ thread' \in [Threads -> {"none", "up", "left"}] /\ thread'[Head(todo)] = "none"
      /\ \A t \in Threads : t # Head(todo) => thread'[t] = thread[t]
  BY <1>1, <1>2 DEF IInv, TypeOK
<1>5. \A t \in Threads : thread'[t] # "none" => thread[t] # "none" /\ running[t] /\ Head(todo) # t
  BY <1>3, <1>4, Zenon
<1>6. Head(todo) # "ring"
  BY <1>2 DEF Threads
<1> QED BY <1>1, <1>2, <1>4, <1>5, <1>6, HeadDone

LEMMA PassedKeeps == ASSUME IInv, Passed PROVE IInv'
<1>1. /\ main = "unwind" /\ todo # <<>> /\ ~joining /\ todo' = Tail(todo)
      /\ UNCHANGED <<main, joining, running, thread, volumeAlive>>
      /\ \/ Head(todo) = "ring" /\ ringAlive' = FALSE
         \/ Head(todo) # "ring" /\ ~running[Head(todo)] /\ UNCHANGED ringAlive
  BY Zenon DEF Passed
<1>2. \A t \in Threads : thread[t] # "none" => running[t]
  BY <1>1, Zenon DEF IInv, Kept
<1>3. \A t \in Threads : thread'[t] # "none" => thread[t] # "none" /\ running[t] /\ Head(todo) # t
  BY <1>1, <1>2 DEF Threads
<1>4. ringAlive' <=> ringAlive /\ Head(todo) # "ring"
  <2>1. Head(todo) = "ring" => ~ringAlive'
    BY <1>1, Zenon
  <2>2. Head(todo) # "ring" => ringAlive' = ringAlive
    BY <1>1, Zenon
  <2> QED BY <2>1, <2>2
<1> QED BY <1>1, <1>3, <1>4, HeadDone DEF IInv, TypeOK

LEMMA ReturnKeeps == ASSUME IInv, Return PROVE IInv'
<1>1. main = "unwind" /\ todo = <<>> /\ main' = "exit"
      /\ UNCHANGED <<todo, joining, running, thread, ringAlive>>
  BY Zenon DEF Return
<1>2. \A o : ~Ahead(o, todo) /\ ~StopAhead(o, todo)
  <2>1. Len(todo) = 0
    BY <1>1
  <2>2. 1..Len(todo) = {}
    BY <2>1, SMT
  <2> QED BY <2>2 DEF Ahead, StopAhead
<1>3. /\ thread["render"] = "none" /\ thread["capture"] = "none" /\ thread["volume"] = "none"
      /\ ~ringAlive /\ ~joining
  BY <1>1, <1>2 DEF IInv, Kept, Render, Capture, Volume, Ring, Running
<1> QED BY <1>1, <1>3 DEF IInv, TypeOK, Kept, Render, Capture, Volume, Ring, Running, Threads

-----------------------------------------------------------------------------
(* The threads, the user and the supervisor                                *)

\* A thread that ends by itself or was told to is still to be joined.
LEMMA ThreadKeeps == ASSUME IInv, RenderFails \/ \E t \in Threads : ThreadStops(t) PROVE IInv'
<1>1. PICK t \in Threads : thread[t] = "up" /\ thread' = [thread EXCEPT ![t] = "left"]
  BY DEF ThreadStops, RenderFails, Threads
<1>2. UNCHANGED <<main, todo, joining, running, ringAlive, volumeAlive>>
  BY Zenon DEF ThreadStops, RenderFails
<1>3. /\ thread' \in [Threads -> {"none", "up", "left"}]
      /\ \A u \in Threads : thread'[u] # "none" => thread[u] # "none"
  BY <1>1 DEF IInv, TypeOK
<1>4. "render" \in Threads /\ "capture" \in Threads /\ "volume" \in Threads
  BY DEF Threads
<1>5. Kept'
  BY <1>2, <1>3, Zenon DEF IInv, Kept
<1>6. Render' /\ Capture' /\ Volume' /\ Ring'
  BY <1>2, <1>3, <1>4, Zenon DEF IInv, Render, Capture, Volume, Ring
<1> QED BY <1>2, <1>3, <1>5, <1>6, Zenon DEF IInv, TypeOK

LEMMA ProcessKeeps ==
    ASSUME IInv, CtrlC \/ EngineEnded \/ Relaunch \/ Killed \/ UNCHANGED vars PROVE IInv'
<1>1. CASE CtrlC \/ EngineEnded \/ UNCHANGED vars
  <2>1. UNCHANGED <<main, todo, joining, running, thread, ringAlive, volumeAlive>>
    BY <1>1, Zenon DEF CtrlC, EngineEnded, objectVars, vars
  <2> QED BY <2>1, Zenon DEF IInv, TypeOK, Kept, Render, Capture, Volume, Ring
<1>2. CASE Relaunch \/ Killed
  <2>1. /\ main' \in {"begin", "exit"} /\ todo' = <<>> /\ joining' = FALSE
        /\ running' = AllQuiet /\ thread' = NoThreads /\ ringAlive' = FALSE
    BY <1>2, Zenon DEF Relaunch, Killed
  <2>2. /\ running' \in [Threads -> BOOLEAN] /\ thread' \in [Threads -> {"none", "up", "left"}]
        /\ \A t \in Threads : thread'[t] = "none"
    BY <2>1 DEF AllQuiet, NoThreads
  <2>3. TypeOK'
    <3>1. <<>> \in Seq(Threads \cup {"ring"})
      OBVIOUS
    <3> QED BY <2>1, <2>2, <3>1, Zenon DEF TypeOK
  <2>4. Kept' /\ Render' /\ Capture' /\ Volume' /\ Ring'
    BY <2>1, <2>2 DEF Kept, Render, Capture, Volume, Ring, Running, Threads
  <2> QED BY <2>3, <2>4 DEF IInv
<1> QED BY <1>1, <1>2

-----------------------------------------------------------------------------
(* Theorems                                                                *)

LEMMA InitHolds == ASSUME Init PROVE IInv
<1>1. /\ main = "begin" /\ todo = <<>> /\ joining = FALSE
      /\ running = AllQuiet /\ thread = NoThreads /\ ringAlive = FALSE
  BY Zenon DEF Init
<1>2. /\ running \in [Threads -> BOOLEAN] /\ thread \in [Threads -> {"none", "up", "left"}]
      /\ \A t \in Threads : thread[t] = "none"
  BY <1>1 DEF AllQuiet, NoThreads
<1>3. TypeOK
  <2>1. <<>> \in Seq(Threads \cup {"ring"})
    OBVIOUS
  <2> QED BY <1>1, <1>2, <2>1, Zenon DEF TypeOK
<1>4. Kept /\ Render /\ Capture /\ Volume /\ Ring
  BY <1>1, <1>2 DEF Kept, Render, Capture, Volume, Ring, Running, Threads
<1> QED BY <1>3, <1>4 DEF IInv

LEMMA StepKeeps == ASSUME IInv, [Next]_vars PROVE IInv'
<1>1. CASE Main
  BY <1>1, BeginKeeps, InitVolumeKeeps, InitCaptureKeeps, InitOutKeeps, StartOutKeeps,
     StartCaptureKeeps, StartMonitorKeeps, LeaveLoopKeeps, LeaveMonitorKeeps, StopObjectKeeps,
     JoinedKeeps, PassedKeeps, ReturnKeeps, Zenon DEF Main
<1> QED BY <1>1, ThreadKeeps, ProcessKeeps, Zenon DEF Next

LEMMA Invariant == Spec => []IInv
  BY InitHolds, StepKeeps, PTL DEF Spec

\* On every way out of main the render and the capture thread have ended before the
\* ring is freed, and the render thread before the volume follower (main.cpp, main
\* and RunMonitor, with the Stops of the objects).
THEOREM ThreadsEndFirst == Spec => []NothingDangles
<1>1. IInv => NothingDangles
  BY DEF IInv, Render, Capture, NothingDangles
<1> QED BY <1>1, Invariant, PTL

\* main returns with every thread joined and the ring freed, so no std::thread is
\* destroyed joinable (main.cpp, main and RunMonitor).
THEOREM EveryThreadIsJoined == Spec => []ExitIsClean
<1>1. ASSUME IInv PROVE ExitIsClean
  <2>1. SUFFICES ASSUME main = "exit" PROVE thread = NoThreads /\ ~ringAlive
    BY Zenon DEF ExitIsClean
  <2>2. ~ringAlive /\ \A t \in Threads : thread[t] = "none"
    BY <1>1, <2>1, Constructing DEF Running, Threads
  <2> QED BY <1>1, <2>2 DEF IInv, TypeOK, NoThreads
<1> QED BY <1>1, Invariant, PTL

-----------------------------------------------------------------------------
(* What main does with each thread is what the thread's object allows, and *)
(* what main counts on is what the modules of the two WASAPI threads show. *)

Joining(t) == joining /\ Head(todo) = t

Object(t) == INSTANCE OwnedThread
    WITH EndsAlone <- t = "render", running <- running[t], thread <- thread[t],
         joining <- Joining(t)

\* An object is not running before the place in main where it is started.
NotYet ==
    /\ running["render"] => main \in {"startCapture", "loop", "unwind", "exit"}
    /\ running["capture"] => main \in {"loop", "monitorLoop", "unwind", "exit"}
    /\ running["volume"] => main \in Running \cup {"unwind", "exit"}

LEMMA NotYetNext == ASSUME IInv, NotYet, [Next]_vars PROVE NotYet'
<1> USE DEF NotYet
<1>1. CASE UNCHANGED running /\ (main' = main \/ main' \in {"unwind", "exit"})
  BY <1>1
<1>2. CASE Begin
  <2>1. main = "begin" /\ UNCHANGED running
    BY <1>2, Zenon DEF Begin, objectVars
  <2> QED BY <2>1 DEF Running
<1>3. CASE InitVolume
  <2>1. main = "run" /\ main' \in {"exit", "initCapture"}
        /\ (main' = "initCapture" => \E on \in BOOLEAN : running' = [running EXCEPT !["volume"] = on])
        /\ (main' = "exit" => UNCHANGED running)
    BY <1>3, Zenon DEF InitVolume, objectVars
  <2> QED BY <2>1 DEF Running, IInv, TypeOK, Threads
<1>4. CASE InitCapture \/ InitOut
  <2>1. UNCHANGED running /\ main \in {"initCapture", "initOut"} /\ main' \in {"initOut", "startOut", "unwind"}
    BY <1>4 DEF InitCapture, InitOut, Leave, objectVars
  <2> QED BY <2>1 DEF Running
<1>5. CASE StartOut
  <2>1. PICK ok \in BOOLEAN : main = "startOut" /\ StartThread("render", ok) /\ main' \in {"startCapture", "unwind"}
    BY <1>5 DEF StartOut, Leave
  <2> QED BY <2>1, StartKeeps DEF Running, IInv, Threads
<1>6. CASE StartCapture
  <2>1. PICK ok \in BOOLEAN : main = "startCapture" /\ StartThread("capture", ok) /\ main' \in {"loop", "unwind"}
    BY <1>6 DEF StartCapture
  <2> QED BY <2>1, StartKeeps DEF Running, IInv, Threads
<1>7. CASE StartMonitor
  <2>1. main = "monitor"
    BY <1>7 DEF StartMonitor
  <2>2. CASE main' = "unwind" /\ UNCHANGED objectVars
    BY <1>1, <2>2 DEF objectVars
  <2>3. CASE \E ok \in BOOLEAN : StartThread("capture", ok) /\ main' \in {"monitorLoop", "unwind"}
    BY <2>1, <2>3, StartKeeps DEF Running, IInv, Threads
  <2> QED BY <1>7, <2>2, <2>3 DEF StartMonitor
<1>8. CASE StopObject
  <2>1. main = "unwind" /\ main' = main /\ running' = [running EXCEPT ![Head(todo)] = FALSE]
    BY <1>8 DEF StopObject
  <2> QED BY <2>1 DEF Running, IInv, TypeOK, Threads
<1>9. CASE Relaunch \/ Killed
  <2>1. running' = AllQuiet
    BY <1>9 DEF Relaunch, Killed
  <2> QED BY <2>1 DEF AllQuiet, Threads
<1>10. CASE \/ LeaveLoop \/ LeaveMonitor \/ Joined \/ Passed \/ Return
            \/ (\E t \in Threads : ThreadStops(t)) \/ RenderFails \/ CtrlC \/ EngineEnded \/ UNCHANGED vars
  <2>1. UNCHANGED running /\ (main' = main \/ main' \in {"unwind", "exit"})
    BY <1>10, Zenon DEF LeaveLoop, LeaveMonitor, Leave, Joined, Passed, Return, ThreadStops, RenderFails,
           CtrlC, EngineEnded, vars, objectVars
  <2> QED BY <1>1, <2>1
<1> QED BY <1>2, <1>3, <1>4, <1>5, <1>6, <1>7, <1>8, <1>9, <1>10, Zenon DEF Next, Main

LEMMA ObjectStays ==
    ASSUME NEW t \in Threads, UNCHANGED <<running[t], thread[t]>>, Joining(t)' = Joining(t)
    PROVE  [Object(t)!ThreadNext]_(Object(t)!threadVars)
  BY DEF Object!threadVars

\* A Start reaches the object it names and no other.
LEMMA ObjectStarts ==
    ASSUME TypeOK, NEW o \in Threads, NEW ok \in BOOLEAN, StartThread(o, ok),
           ~running[o], thread[o] = "none", ~joining, ~joining', NEW t \in Threads
    PROVE  [Object(t)!ThreadNext]_(Object(t)!threadVars)
<1>1. CASE t # o
  <2>1. UNCHANGED <<running[t], thread[t]>> /\ Joining(t)' = Joining(t)
    BY <1>1, StartKeeps DEF Joining
  <2> QED BY <2>1, ObjectStays
<1>2. CASE t = o
  <2>1. running'[t] = TRUE /\ thread'[t] \in {"none", "up"}
    BY <1>2 DEF StartThread, TypeOK
  <2>2. Object(t)!Start
    BY <1>2, <2>1 DEF Object!Start, Joining
  <2> QED BY <2>2 DEF Object!ThreadNext
<1> QED BY <1>1, <1>2

LEMMA ObjectNext ==
    ASSUME IInv, NotYet, [Next]_vars, NEW t \in Threads
    PROVE  [Object(t)!ThreadNext]_(Object(t)!threadVars)
<1>1. CASE \/ Begin \/ InitCapture \/ InitOut \/ LeaveLoop \/ LeaveMonitor \/ Passed \/ Return \/ CtrlC
           \/ EngineEnded \/ UNCHANGED vars
  <2>1. UNCHANGED <<running, thread, joining>> /\ (UNCHANGED todo \/ ~joining)
    <3>1. UNCHANGED <<running, thread, joining>> /\ (UNCHANGED todo \/ main # "unwind" \/ ~joining)
      BY <1>1, Zenon DEF Begin, InitCapture, InitOut, LeaveLoop, LeaveMonitor, Leave, Passed,
             Return, CtrlC, EngineEnded, objectVars, vars
    <3> QED BY <3>1, Zenon DEF IInv, Kept
  <2> QED BY <2>1, ObjectStays DEF Joining
<1>2. ASSUME ~joining, UNCHANGED <<running, thread, joining>>
      PROVE  [Object(t)!ThreadNext]_(Object(t)!threadVars)
  BY <1>2, ObjectStays DEF Joining
<1>3. CASE InitVolume
  <2>1. main = "run" /\ UNCHANGED joining /\ ~joining
    BY <1>3, Zenon DEF InitVolume, IInv, Kept
  <2>2. CASE UNCHANGED objectVars
    BY <1>2, <2>1, <2>2 DEF objectVars
  <2>3. ASSUME NEW on \in BOOLEAN, running' = [running EXCEPT !["volume"] = on],
               thread' = [thread EXCEPT !["volume"] = IF on THEN "up" ELSE "none"]
        PROVE  [Object(t)!ThreadNext]_(Object(t)!threadVars)
    <3>1. ~running["volume"] /\ thread["volume"] = "none"
      BY <2>1 DEF NotYet, IInv, Volume, Running
    <3>2. CASE on
      <4>1. StartThread("volume", TRUE)
        BY <2>3, <3>2 DEF StartThread
      <4> QED BY <2>1, <3>1, <4>1, ObjectStarts DEF IInv, Threads
    <3>3. CASE ~on
      <4>1. UNCHANGED <<running, thread>>
        <5>1. running["volume"] = FALSE
          BY <3>1 DEF IInv, TypeOK, Threads
        <5> QED BY <2>3, <3>1, <3>3, <5>1 DEF IInv, TypeOK
      <4> QED BY <1>2, <2>1, <4>1
    <3> QED BY <3>2, <3>3
  <2> QED BY <1>3, <2>2, <2>3 DEF InitVolume
<1>4. CASE StartOut
  <2>1. PICK ok \in BOOLEAN : main = "startOut" /\ StartThread("render", ok) /\ UNCHANGED joining
    BY <1>4 DEF StartOut
  <2>2. ~joining /\ ~running["render"] /\ thread["render"] = "none"
    BY <2>1 DEF IInv, Kept, NotYet, Render
  <2> QED BY <2>1, <2>2, ObjectStarts DEF IInv, Threads
<1>5. CASE StartCapture \/ StartMonitor
  <2>1. main \in {"startCapture", "monitor"} /\ UNCHANGED joining
    BY <1>5 DEF StartCapture, StartMonitor
  <2>2. ~joining /\ ~running["capture"] /\ thread["capture"] = "none"
    BY <2>1 DEF IInv, Kept, NotYet, Capture
  <2>3. CASE UNCHANGED objectVars
    BY <1>2, <2>1, <2>2, <2>3 DEF objectVars
  <2>4. CASE \E ok \in BOOLEAN : StartThread("capture", ok)
    BY <2>1, <2>2, <2>4, ObjectStarts DEF IInv, Threads
  <2> QED BY <1>5, <2>3, <2>4 DEF StartCapture, StartMonitor
<1>6. CASE StopObject
  <2>1. /\ Head(todo) \in Threads /\ running[Head(todo)] /\ ~joining /\ joining' = TRUE /\ UNCHANGED <<todo, thread>>
        /\ running' = [running EXCEPT ![Head(todo)] = FALSE]
    <3>1. Head(todo) \in Threads \cup {"ring"}
      BY <1>6, HeadTailProperties DEF StopObject, IInv, TypeOK
    <3> QED BY <1>6, <3>1 DEF StopObject
  <2>2. CASE t = Head(todo)
    <3>1. Object(t)!Stop
      BY <2>1, <2>2 DEF Object!Stop, Joining, IInv, TypeOK
    <3> QED BY <3>1 DEF Object!ThreadNext
  <2>3. CASE t # Head(todo)
    BY <2>1, <2>3, ObjectStays DEF Joining, IInv, TypeOK
  <2> QED BY <2>2, <2>3
<1>7. CASE Joined
  <2>1. /\ joining /\ thread[Head(todo)] # "up" /\ joining' = FALSE /\ UNCHANGED running
        /\ thread' = [thread EXCEPT ![Head(todo)] = "none"]
    BY <1>7 DEF Joined
  <2>2. CASE t = Head(todo)
    <3>1. Object(t)!Joined
      BY <2>1, <2>2 DEF Object!Joined, Joining, IInv, TypeOK
    <3> QED BY <3>1 DEF Object!ThreadNext
  <2>3. CASE t # Head(todo)
    BY <2>1, <2>3, ObjectStays DEF Joining, IInv, TypeOK
  <2> QED BY <2>2, <2>3
<1>8. CASE RenderFails \/ \E u \in Threads : ThreadStops(u)
  <2>1. PICK u \in Threads : /\ thread[u] = "up" /\ (~running[u] \/ u = "render")
                             /\ thread' = [thread EXCEPT ![u] = "left"]
                             /\ UNCHANGED <<running, joining, todo>>
    BY <1>8 DEF RenderFails, ThreadStops, Threads
  <2>2. CASE t = u
    <3>1. Object(t)!Leave
      BY <2>1, <2>2 DEF Object!Leave, Joining, IInv, TypeOK
    <3> QED BY <3>1 DEF Object!ThreadNext
  <2>3. CASE t # u
    BY <2>1, <2>3, ObjectStays DEF Joining, IInv, TypeOK
  <2> QED BY <2>2, <2>3
<1>9. CASE Relaunch \/ Killed
  <2>1. running' = AllQuiet /\ thread' = NoThreads /\ joining' = FALSE
    BY <1>9 DEF Relaunch, Killed
  <2>2. Object(t)!Vanish
    BY <2>1 DEF AllQuiet, NoThreads, Object!Vanish, Object!ThreadInit, Joining
  <2> QED BY <2>2 DEF Object!ThreadNext
<1> QED BY <1>1, <1>3, <1>4, <1>5, <1>6, <1>7, <1>8, <1>9, Zenon DEF Next, Main

\* main starts an object that is not running, stops it at most once for each Start, and
\* counts on no more than that a thread ends when told: the render thread alone may end
\* by itself (main.cpp with VolumeFollower.cpp, and the modules of the other two).
THEOREM EngineOwnsThreads == \A t \in Threads : Spec => Object(t)!ThreadSpec
<1> SUFFICES ASSUME NEW t \in Threads PROVE Spec => Object(t)!ThreadSpec
  OBVIOUS
<1>1. Init => NotYet
  BY DEF Init, NotYet, AllQuiet, Threads
<1>2. Init => Object(t)!ThreadInit
  BY DEF Init, AllQuiet, NoThreads, Object!ThreadInit, Joining
<1>3. IInv /\ NotYet /\ [Next]_vars => [Object(t)!ThreadNext]_(Object(t)!threadVars)
  BY ObjectNext
<1> QED BY <1>1, <1>2, <1>3, Invariant, NotYetNext, PTL DEF Spec, Object!ThreadSpec

-----------------------------------------------------------------------------
(* The engine with its volume                                              *)

LEMMA PlayStep == ASSUME PlayNext PROVE [Next]_vars
<1>1. CASE PlayMain
  BY <1>1, Zenon DEF PlayMain, OpenVolume, StartPassthrough, RestOfMain, Main, Next
<1>2. CASE Elsewhere
  BY <1>2, Zenon DEF Elsewhere, Next
<1>3. CASE (Killed /\ FreshProcess) \/ (Relaunch /\ FreshProcess)
  BY <1>3, Zenon DEF Next
<1>4. CASE \E t \in Threads : PlayThreadStops(t)
  BY <1>4, Zenon DEF PlayThreadStops, Next
<1>5. CASE Follower \/ EncodeAudio \/ EncodeSilence
  BY <1>5, Zenon DEF Follower, GetMute, GetLevel, StoreGain, EncodeAudio, EncodeSilence
<1>6. CASE (\E s \in Settings : MoveSlider(s)) \/ LoseEndpoint
  BY <1>6, Zenon DEF MoveSlider, LoseEndpoint
<1> QED BY <1>1, <1>2, <1>3, <1>4, <1>5, <1>6, Zenon DEF PlayNext

\* The engine with the follower's poll and the render thread's gain is the engine whose
\* ways out the theorems above are about (VolumeFollower.cpp, 74-88, and WasapiPassthrough.cpp,
\* 252-268, touch no state of main and end no thread), so these hold of it too.
THEOREM FollowedEngineIsEngine == PlaySpec => Spec /\ []NothingDangles /\ []ExitIsClean
<1>1. PlayInit => Init
  BY DEF PlayInit
<1>2. [PlayNext]_playVars => [Next]_vars
  BY PlayStep, Zenon DEF playVars
<1>3. PlaySpec => Spec
  BY <1>1, <1>2, PTL DEF PlaySpec, Spec
<1> QED BY <1>3, ThreadsEndFirst, EveryThreadIsJoined, PTL
=============================================================================
