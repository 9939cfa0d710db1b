------------------------------- MODULE Mixer -------------------------------
(***************************************************************************)
(* The volume and mute nodes of the speaker's topology filter over the     *)
(* simulated hardware: the property handlers of                            *)
(* driver/Source/Utilities/kshelper.cpp and driver/Source/Main/mintopo.cpp *)
(* and the registers of driver/Source/Utilities/hw.cpp.                    *)
(*                                                                         *)
(* A node has one register; the channel of a request is checked and then   *)
(* ignored.  A SET for all channels writes it once per channel number      *)
(* below ALL_CHANNELS_ID, the largest ULONG, and other requests get in     *)
(* between; one such SET at a time is modelled.                            *)
(*                                                                         *)
(* The filters use no other property: the handlers of peak meters, the     *)
(* mux, CPU resources and device specific controls are not in any table.   *)
(***************************************************************************)
EXTENDS Integers

CONSTANTS MinLevel,   \* VOLUME_SIGNED_MINIMUM
          MaxLevel,   \* VOLUME_SIGNED_MAXIMUM
          Step,       \* VOLUME_STEPPING_DELTA
          Channels,   \* m_DeviceMaxChannels
          Ulong,      \* 2^32: what a ULONG wraps at
          Levels      \* values a client may set

ASSUME MixerAssumption ==
    /\ Step \in Nat \ {0} /\ Ulong \in Nat \ {0} /\ Channels \in 1..(Ulong - 1)
    /\ MinLevel \in Int /\ MaxLevel \in Int /\ MinLevel <= 0 /\ MaxLevel = 0
    /\ MinLevel % Step = 0
    /\ Levels \subseteq Int

VARIABLES hw,        \* m_pHW is not NULL
          volume,    \* m_VolumeControls[KSNODE_TOPO_VOLUME]
          mute,      \* m_MuteControls[KSNODE_TOPO_MUTE]
          setting    \* the SET for all channels under way

mixerVars == <<hw, volume, mute, setting>>

Node == {"volume", "mute"}
ALL_CHANNELS_ID == Ulong - 1
NoSetting == [node |-> "none", value |-> 0, channel |-> 0]

-----------------------------------------------------------------------------
(* Sizes.  A handler answers with a status and a new ValueSize; asked with *)
(* size 0, it says what it needs.                                          *)

Answer(status, size) == [status |-> status, size |-> size]

cbUlong == 4          \* ULONG, LONG and BOOL
cbDescription == 40   \* KSPROPERTY_DESCRIPTION
cbMembersHeader == 16
cbStepping == 16      \* KSPROPERTY_STEPPING_LONG
cbMultipleItem == 8
cbJack == 28          \* KSJACK_DESCRIPTION
cbJack2 == 8

PropertyHandler_BasicSupport(size) ==
    CASE size >= cbDescription -> Answer("success", cbDescription)
      [] size \in cbUlong..(cbDescription - 1) -> Answer("success", cbUlong)
      [] OTHER -> Answer("too small", 0)

cbFullProperty == cbDescription + cbMembersHeader + cbStepping * Channels

\* Claims the ranges whether they fitted or not.
SupportAlwaysFull(size) ==
    CASE size >= cbDescription -> Answer("success", cbFullProperty)
      [] size \in cbUlong..(cbDescription - 1) -> Answer("success", cbUlong)
      [] OTHER -> Answer("too small", 0)

\* Says in DescriptionSize that cbFullProperty bytes are needed.
PropertyHandler_BasicSupportVolume(size) ==
    IF size >= cbFullProperty THEN Answer("success", cbFullProperty)
                              ELSE PropertyHandler_BasicSupport(size)

\* The same with the range of a BOOL.
PropertyHandler_BasicSupportMute(size) ==
    IF size >= cbFullProperty THEN Answer("success", cbFullProperty)
                              ELSE PropertyHandler_BasicSupport(size)

\* A request with a size has a value: PortCls passes the client's buffer with both.
ValidatePropertyParams(size, cbValue, instance, cbInstance) ==
    CASE size = 0 -> Answer("overflow", cbValue)
      [] size > 0 /\ (size < cbValue \/ instance < cbInstance) -> Answer("too small", 0)
      [] OTHER -> Answer("success", size)

ValidChannel(channel) == channel < Channels \/ channel = ALL_CHANNELS_ID

\* PropertyHandler_Volume and PropertyHandler_Mute, verb GET.
GetLevel(size, channel) ==
    LET checked == ValidatePropertyParams(size, cbUlong, cbUlong, cbUlong)
    IN  CASE checked.status # "success" -> checked
          [] checked.status = "success" /\ ~ValidChannel(channel) -> Answer("invalid", size)
          [] OTHER -> Answer("success", cbUlong)

\* The pins of the topology filter with a jack: the bridge pin to the speaker.
JackPins == {1}

\* Both jack properties, verb GET; they keep the size.
Jack(size, cb, pin) ==
    LET cbNeeded == cbMultipleItem + cb
    IN  CASE pin \notin JackPins -> Answer("invalid", size)
          [] pin \in JackPins /\ size = 0 -> Answer("overflow", cbNeeded)
          [] pin \in JackPins /\ size \in 1..(cbNeeded - 1) -> Answer("too small", size)
          [] OTHER -> Answer("success", size)

PropertyHandlerJackDescription(size, pin) == Jack(size, cbJack, pin)
PropertyHandlerJackDescription2(size, pin) == Jack(size, cbJack2, pin)

-----------------------------------------------------------------------------
(* Levels.                                                                 *)

NormalizeP(v) == ((v + Step \div 2) \div Step) * Step
Normalize(v) == IF v > 0 THEN NormalizeP(v) ELSE -NormalizeP(-v)

\* Rounds without looking at the bounds.
Unclamped(v) == Normalize(v)

NormalizeInRange(v) ==
    CASE v > MaxLevel -> MaxLevel
      [] v < MinLevel -> MinLevel
      [] OTHER -> Normalize(v)

-----------------------------------------------------------------------------
(* The registers.                                                          *)

\* All bytes 0xFF.
ResetLevel == -1

MixerReset == volume' = ResetLevel /\ mute' = 0

MixerInit == hw = FALSE /\ volume = ResetLevel /\ mute = 0 /\ setting = NoSetting

\* The hardware object is made, or not; one that goes takes its registers along.
SetHardware(made) == hw' = made /\ MixerReset /\ UNCHANGED setting

TopologyInit == MixerReset /\ UNCHANGED <<hw, setting>>

\* No channel: a node has one register.
SetMixerVolume(level) == volume' = level /\ UNCHANGED mute
SetMixerMute(on) == mute' = on /\ UNCHANGED volume

\* Without hardware a write is silent and a read answers 0.
MixerVolumeWrite(level) == IF hw THEN SetMixerVolume(level) ELSE UNCHANGED <<volume, mute>>
MixerMuteWrite(on) == IF hw THEN SetMixerMute(on) ELSE UNCHANGED <<volume, mute>>
MixerVolumeRead == IF hw THEN volume ELSE 0
MixerMuteRead == IF hw THEN mute ELSE 0

Write(node, value) ==
    /\ node = "volume" => MixerVolumeWrite(NormalizeInRange(value))
    /\ node = "mute" => MixerMuteWrite(IF value # 0 THEN 1 ELSE 0)
    /\ UNCHANGED hw

\* The first write of a loop over all channels comes with the next step.
SetLevel(node, channel, value) ==
    \/ /\ channel < Channels
       /\ Write(node, value) /\ UNCHANGED setting
    \/ /\ channel = ALL_CHANNELS_ID /\ setting = NoSetting
       /\ setting' = [node |-> node, value |-> value, channel |-> 0]
       /\ UNCHANGED <<hw, volume, mute>>

\* The last ULONG is a channel too.
SetNextInclusive ==
    /\ setting # NoSetting
    /\ IF setting.channel <= ALL_CHANNELS_ID
         THEN /\ Write(setting.node, setting.value)
              /\ setting' = [setting EXCEPT !.channel = (setting.channel + 1) % Ulong]
         ELSE setting' = NoSetting /\ UNCHANGED <<hw, volume, mute>>

SetNext ==
    /\ setting # NoSetting
    /\ IF setting.channel < ALL_CHANNELS_ID
         THEN /\ Write(setting.node, setting.value)
              /\ setting' = [setting EXCEPT !.channel = (setting.channel + 1) % Ulong]
         ELSE setting' = NoSetting /\ UNCHANGED <<hw, volume, mute>>

\* What clients do through the filter.
MixerRequest ==
    \/ \E node \in Node, value \in Levels, channel \in 0..ALL_CHANNELS_ID :
          SetLevel(node, channel, value)
    \/ SetNext

MixerNext ==
    \/ \E made \in BOOLEAN : SetHardware(made)
    \/ TopologyInit
    \/ MixerRequest

MixerSpec == MixerInit /\ [][MixerNext]_mixerVars

-----------------------------------------------------------------------------
(* Properties                                                              *)

Settings == {NoSetting}
    \cup [node : Node, value : Levels, channel : 0..ALL_CHANNELS_ID]

MixerTypeOK ==
    /\ hw \in BOOLEAN /\ volume \in Int /\ mute \in {0, 1}
    /\ setting \in Settings

(***************************************************************************)
(* Whatever clients set, a GET answers a level that basic support          *)
(* advertises: within the bounds and on a step, with rounding on both      *)
(* sides of zero.  Only a register that was reset and not set since holds  *)
(* another value.                                                          *)
(***************************************************************************)
LevelAsAdvertised ==
    /\ MixerVolumeRead # ResetLevel
         => MixerVolumeRead \in MinLevel..MaxLevel /\ MixerVolumeRead % Step = 0
    /\ MixerMuteRead \in {0, 1}

(***************************************************************************)
(* A SET for all channels comes to its end: the loop counter, as wide as   *)
(* the bound it is compared with, never wraps, and no other request sets   *)
(* the loop back.                                                          *)
(***************************************************************************)
AllChannelsReturns ==
    [][setting # NoSetting /\ setting' # setting
          => setting' = NoSetting \/ setting'.channel > setting.channel]_mixerVars
=============================================================================
