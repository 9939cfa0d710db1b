---------------------------- MODULE VolumeFollower ----------------------------
(***************************************************************************)
(* VolumeFollower.cpp and what the render thread does with it: the engine  *)
(* of Engine, with the volume of the input device on its way into the      *)
(* packets.  A thread of its own polls the endpoint's mute and level with  *)
(* two calls, between which the user may change both, and publishes a gain.*)
(* The render thread ramps each packet from the gain of the last one to    *)
(* the gain published now.                                                 *)
(***************************************************************************)
EXTENDS Engine

CONSTANT Levels     \* levels of the endpoint, in percent of full amplitude

Unity == 100        \* 1.0f

ASSUME LevelsAssumption == Levels \subseteq Nat

VARIABLES setting,  \* the endpoint's mute and level
          lost,     \* calls on the endpoint's volume fail from now on
          poll,     \* where the follower's thread is in its loop
          read,     \* what ReadGain is about to return
          gain,     \* gain_
          lastGain, \* lastGain_ of WasapiPassthrough
          packet    \* gains at the two ends of the last packet's ramp; none: silence

followVars == <<setting, lost, poll, read, gain, lastGain, packet>>
playVars == <<vars, followVars>>

Settings == [muted : BOOLEAN, level : Levels]

\* The gain is never above 1 (Gain.h): the endpoint's level may be.
ClampGain(g) == IF g <= Unity THEN g ELSE Unity

\* The gain the user asks for.
GainOf(s) == IF s.muted THEN 0 ELSE ClampGain(s.level)

PlayInit ==
    /\ Init /\ setting \in Settings /\ lost = FALSE
    /\ poll = "wait" /\ read = Unity /\ gain = Unity /\ lastGain = Unity /\ packet = {}

-----------------------------------------------------------------------------
(* main                                                                    *)

\* Init reads the gain, then creates the thread.  A failure leaves no follower:
\* params_.volume is null then.
OpenVolume ==
    /\ InitVolume
    /\ gain' = IF running'["volume"] THEN GainOf(setting) ELSE gain
    /\ UNCHANGED <<setting, lost, poll, read, lastGain, packet>>

\* The first buffer is filled from an empty ring, if the device hands it out.
StartPassthrough ==
    /\ StartOut
    /\ lastGain' \in IF running["volume"] THEN {lastGain, gain} ELSE {lastGain}
    /\ UNCHANGED <<setting, lost, poll, read, gain, packet>>

RestOfMain == Main /\ main \notin {"run", "startOut"} /\ UNCHANGED followVars

PlayMain == OpenVolume \/ StartPassthrough \/ RestOfMain

\* Nothing of a process outlives it.
FreshProcess ==
    /\ lost' = FALSE /\ poll' = "wait" /\ read' = Unity
    /\ gain' = Unity /\ lastGain' = Unity /\ packet' = {}
    /\ UNCHANGED setting

-----------------------------------------------------------------------------
(* The follower's thread                                                   *)

\* 50 ms went by: ReadGain's first call.  A call that fails counts as not muted.
GetMute ==
    /\ thread["volume"] = "up" /\ running["volume"] /\ poll = "wait"
    /\ \/ ~lost /\ setting.muted /\ poll' = "store" /\ read' = 0
       \/ (lost \/ ~setting.muted) /\ poll' = "level" /\ UNCHANGED read
    /\ UNCHANGED <<vars, setting, lost, gain, lastGain, packet>>

\* Its second call, in decibels or, failing that, as a scalar; 1.0 if both fail.
GetLevel ==
    /\ thread["volume"] = "up" /\ poll = "level"
    /\ poll' = "store" /\ read' = IF lost THEN Unity ELSE ClampGain(setting.level)
    /\ UNCHANGED <<vars, setting, lost, gain, lastGain, packet>>

StoreGain ==
    /\ thread["volume"] = "up" /\ poll = "store"
    /\ gain' = read /\ poll' = "wait" /\ read' = Unity
    /\ UNCHANGED <<vars, setting, lost, lastGain, packet>>

Follower == GetMute \/ GetLevel \/ StoreGain

\* A thread ends where it looks at running_ or the stop event.
PlayThreadStops(t) ==
    /\ ThreadStops(t)
    /\ t = "volume" => poll = "wait"
    /\ UNCHANGED followVars

-----------------------------------------------------------------------------
(* The render thread, one packet at a time                                 *)

\* The ramp starts where it started last time.
EncodeForgetsGain ==
    /\ thread["render"] = "up"
    /\ packet' = IF running["volume"] THEN {lastGain, gain} ELSE {Unity}
    /\ UNCHANGED <<vars, setting, lost, poll, read, gain, lastGain>>

\* A packet from the ring: ramped from the last packet's gain to the present one.
EncodeAudio ==
    /\ thread["render"] = "up"
    /\ packet' = IF running["volume"] THEN {lastGain, gain} ELSE {Unity}
    /\ lastGain' = IF running["volume"] THEN gain ELSE lastGain
    /\ UNCHANGED <<vars, setting, lost, poll, read, gain>>

\* The gate is closed: nothing to fade, the next packet starts from the gain of now.
EncodeSilence ==
    /\ thread["render"] = "up"
    /\ packet' = {}
    /\ lastGain' = IF running["volume"] THEN gain ELSE lastGain
    /\ UNCHANGED <<vars, setting, lost, poll, read, gain>>

-----------------------------------------------------------------------------
(* The user and the endpoint                                               *)

MoveSlider(s) ==
    /\ s # setting /\ setting' = s
    /\ UNCHANGED <<vars, lost, poll, read, gain, lastGain, packet>>

LoseEndpoint ==
    /\ running["volume"] /\ ~lost
    /\ lost' = TRUE
    /\ UNCHANGED <<vars, setting, poll, read, gain, lastGain, packet>>

Elsewhere == (RenderFails \/ CtrlC \/ EngineEnded) /\ UNCHANGED followVars

-----------------------------------------------------------------------------
PlayNext == \/ PlayMain \/ Elsewhere
            \/ (Killed /\ FreshProcess) \/ (Relaunch /\ FreshProcess)
            \/ (\E t \in Threads : PlayThreadStops(t))
            \/ Follower \/ EncodeAudio \/ EncodeSilence
            \/ (\E s \in Settings : MoveSlider(s)) \/ LoseEndpoint

PlaySpec == PlayInit /\ [][PlayNext]_playVars

\* Besides what FairSpec of Engine assumes: the follower's thread runs, and packets of
\* audio keep being encoded, which GateReopens of WasapiPassthrough shows while there is
\* input.  Without input every packet is silence, and nothing is heard at any gain.
PlayFairSpec == /\ PlaySpec
                /\ WF_playVars(PlayMain)
                /\ \A t \in Threads : WF_playVars(PlayThreadStops(t))
                /\ WF_playVars(EngineEnded /\ UNCHANGED followVars)
                /\ WF_playVars(Relaunch /\ FreshProcess)
                /\ WF_playVars(Follower) /\ WF_playVars(EncodeAudio)

-----------------------------------------------------------------------------
(* Properties                                                              *)

\* The slider is heard: once the user leaves mute and level alone, the packets come to
\* have that gain from end to end, and no other again, however the polls and the packets
\* interleaved with the last moves, and although a poll may have read the mute of one
\* setting and the level of the next.  (While the endpoint answers; the render thread runs
\* and there is a follower.)
SliderIsHeard ==
    \A s \in Settings :
        <>[](setting = s /\ ~lost /\ main = "loop")
            => <>[](thread["render"] = "up" /\ running["volume"] => packet \subseteq {GainOf(s)})
=============================================================================
