-------------------------- MODULE Endpoint_proofs ---------------------------
(***************************************************************************)
(* The mixer answers advertised levels, and a SET for all channels makes   *)
(* progress, whatever the bounds, the step, the number of channels and the *)
(* requests of clients.  The endpoint implements its parts, one of them the*)
(* mixer; and in whatever way starting fails and the device goes: streams  *)
(* and property requests find the adapter and its hardware, the miniport's *)
(* counts and pointers match its streams, and its one DRM mixture covers   *)
(* them; for any number of streams and ids.                                *)
(***************************************************************************)
EXTENDS Endpoint, FiniteSetTheorems, TLAPS

-----------------------------------------------------------------------------
(* Arithmetic                                                              *)

LEMMA DivModInt ==
    ASSUME NEW a \in Int, NEW b \in Nat \ {0}
    PROVE  a = (b * (a \div b)) + (a % b) /\ a \div b \in Int /\ a % b \in 0..b-1
  BY SMT

LEMMA MultipleMod ==
    ASSUME NEW b \in Nat \ {0}, NEW q \in Int PROVE (b * q) % b = 0
  BY SMT

LEMMA TimesInt == ASSUME NEW a \in Int, NEW b \in Int PROVE a * b \in Int
  BY SMT

LEMMA Commutes == ASSUME NEW a \in Int, NEW b \in Int PROVE a * b = b * a
  BY SMT

LEMMA TimesNegative ==
    ASSUME NEW a \in Int, NEW b \in Int PROVE -(a * b) = a * (-b)
  BY SMT

LEMMA Half == ASSUME NEW b \in Nat \ {0} PROVE b \div 2 \in Nat /\ b \div 2 < b
  BY SMT

\* Whole steps compare like their numbers.
LEMMA StepsOrdered ==
    ASSUME NEW b \in Nat \ {0}, NEW p \in Int, NEW q \in Int, NEW r \in Nat, r < b,
           b * p <= (b * q) + r
    PROVE  b * p <= b * q
<1>1. SUFFICES ASSUME p >= q + 1 PROVE FALSE
  <2>1. CASE p <= q
    BY <2>1, SMT
  <2> QED BY <1>1, <2>1
<1>2. b * p >= (b * q) + b
  BY <1>1, SMT
<1>3. PICK x \in Int, y \in Int : x = b * p /\ y = b * q
  BY TimesInt
<1> QED BY <1>2, <1>3

-----------------------------------------------------------------------------
(* Rounding                                                                *)

\* Rounding a distance from zero stays on this side of the bound and gives a multiple.
LEMMA NormalizePInRange ==
    ASSUME NEW v \in Nat, v <= -MinLevel
    PROVE  \E k \in Int : NormalizeP(v) = Step * k /\ Step * k \in 0..(-MinLevel)
<1> USE MixerAssumption
<1>1. PICK k \in Int, r \in 0..Step-1 :
        v + (Step \div 2) = (Step * k) + r /\ k = (v + (Step \div 2)) \div Step
  <2>1. v + (Step \div 2) \in Int
    BY Half
  <2> QED BY <2>1, DivModInt
<1>2. NormalizeP(v) = Step * k
  <2>1. NormalizeP(v) = k * Step
    BY <1>1 DEF NormalizeP
  <2> QED BY <2>1, Commutes
<1>3. PICK m \in Int : MinLevel = Step * m
  <2>1. PICK q \in Int, z \in Int : MinLevel = (Step * q) + z /\ z = MinLevel % Step
    <3>1. MinLevel % Step \in Int
      BY MixerAssumption
    <3> QED BY <3>1, DivModInt
  <2>2. z = 0
    BY <2>1
  <2>3. PICK x \in Int : x = Step * q
    BY TimesInt
  <2>4. MinLevel = Step * q
    <3>1. MinLevel = x + z
      BY <2>1, <2>3
    <3> QED BY ONLY <3>1, <2>2, <2>3
  <2> QED BY ONLY <2>4, q \in Int
<1>4. PICK bound \in Int, x \in Int, half \in Nat :
        bound = -MinLevel /\ x = Step * k /\ half = Step \div 2 /\ half < Step
  BY Half, TimesInt
<1>5. x >= 0
  <2>1. (Step * 0) <= (Step * k) + r
    BY <1>1, <1>4
  <2>2. Step * 0 <= Step * k
    BY ONLY <2>1, <1>1, StepsOrdered, Step \in Nat \ {0}, 0 \in Int, r \in Nat, r < Step, k \in Int
  <2> QED BY <2>2, <1>4
<1>6. x <= bound
  <2>1. bound = Step * (-m)
    BY <1>3, <1>4, TimesNegative
  <2>2. Step * k <= (Step * (-m)) + half
    BY <1>1, <1>4, <2>1
  <2>3. Step * k <= Step * (-m)
    BY <2>2, <1>4, StepsOrdered
  <2> QED BY <2>1, <2>3, <1>4
<1> QED BY <1>2, <1>4, <1>5, <1>6

Advertised(level) == level \in MinLevel..MaxLevel /\ level % Step = 0

\* NormalizeInRange yields a level that basic support advertises.
LEMMA RoundedIsAdvertised ==
    ASSUME NEW v \in Int
    PROVE  Advertised(NormalizeInRange(v))
<1> USE MixerAssumption
<1>0. 0 % Step = 0
  BY SMT
<1>1. CASE v > MaxLevel
  BY <1>0, <1>1 DEF NormalizeInRange, Advertised
<1>2. CASE v < MinLevel
  <2>1. ~(v > MaxLevel)
    BY <1>2
  <2> QED BY <1>2, <2>1 DEF NormalizeInRange, Advertised
<1>3. CASE v <= MaxLevel /\ v >= MinLevel
  <2>1. NormalizeInRange(v) = -NormalizeP(-v)
    BY <1>3 DEF NormalizeInRange, Normalize
  <2>2. PICK k \in Int : NormalizeP(-v) = Step * k /\ Step * k \in 0..(-MinLevel)
    <3>1. -v \in Nat /\ -v <= -MinLevel
      BY <1>3
    <3> QED BY <3>1, NormalizePInRange
  <2>3. PICK x \in Int : x = Step * k
    BY TimesInt
  <2>4. -x = Step * (-k) /\ -x \in MinLevel..MaxLevel
    BY <2>2, <2>3, TimesNegative
  <2>5. (Step * (-k)) % Step = 0
    <3>1. -k \in Int
      OBVIOUS
    <3> QED BY <3>1, MultipleMod
  <2> QED BY <2>1, <2>2, <2>3, <2>4, <2>5 DEF Advertised
<1> QED BY <1>1, <1>2, <1>3

-----------------------------------------------------------------------------
(* Invariants                                                              *)

\* The registers hold what was written last: a level that is advertised, or what a
\* reset leaves.
RegistersOK ==
    /\ volume = ResetLevel \/ Advertised(volume)
    /\ mute \in {0, 1}

MixerInv == MixerTypeOK /\ RegistersOK

LEMMA ResetType == ASSUME MixerReset PROVE volume' \in Int /\ mute' \in {0, 1} /\ RegistersOK'
  BY DEF MixerReset, RegistersOK, ResetLevel

LEMMA WriteKeeps ==
    ASSUME MixerInv, NEW node \in Node, NEW value \in Int, Write(node, value)
    PROVE  hw' \in BOOLEAN /\ volume' \in Int /\ mute' \in {0, 1} /\ RegistersOK'
<1> USE DEF MixerInv, MixerTypeOK
<1>0. hw' \in BOOLEAN
  BY DEF Write
<1>1. CASE node = "volume"
  <2>1. MixerVolumeWrite(NormalizeInRange(value))
    BY <1>1 DEF Write
  <2>2. \/ volume' = volume /\ mute' = mute
        \/ volume' = NormalizeInRange(value) /\ mute' = mute
    BY <2>1 DEF MixerVolumeWrite, SetMixerVolume
  <2>3. PICK level : level = NormalizeInRange(value) /\ Advertised(level)
    BY RoundedIsAdvertised
  <2>4. level \in Int
    BY <2>3, MixerAssumption DEF Advertised
  <2> QED BY <1>0, <2>2, <2>3, <2>4 DEF RegistersOK, Advertised
<1>2. CASE node = "mute"
  <2>1. MixerMuteWrite(IF value # 0 THEN 1 ELSE 0)
    BY <1>2 DEF Write
  <2>2. volume' = volume /\ mute' \in {mute, 0, 1}
    BY <2>1 DEF MixerMuteWrite, SetMixerMute
  <2> QED BY <1>0, <2>2 DEF RegistersOK, Advertised
<1> QED BY <1>1, <1>2 DEF Node

LEMMA SettingType ==
    ASSUME MixerTypeOK
    PROVE  /\ setting # NoSetting => setting \in [node : Node, value : Levels, channel : 0..ALL_CHANNELS_ID]
           /\ NoSetting \in Settings
  BY DEF MixerTypeOK, Settings

LEMMA ALL_CHANNELS_IDType == ALL_CHANNELS_ID \in Nat
  BY MixerAssumption DEF ALL_CHANNELS_ID

\* The loop counter does not wrap below its bound.
LEMMA NextChannel ==
    ASSUME NEW channel \in Nat, channel < ALL_CHANNELS_ID
    PROVE  (channel + 1) % Ulong = channel + 1 /\ channel + 1 \in 0..ALL_CHANNELS_ID
<1>1. channel + 1 \in Nat /\ channel + 1 < Ulong /\ channel + 1 \in 0..ALL_CHANNELS_ID
  BY MixerAssumption DEF ALL_CHANNELS_ID
<1>2. ASSUME NEW a \in Nat, NEW b \in Nat \ {0}, a < b PROVE a % b = a
  BY <1>2, SMT
<1> QED BY <1>1, <1>2, MixerAssumption

LEMMA SetLevelKeeps ==
    ASSUME MixerInv, NEW node \in Node, NEW value \in Levels,
           NEW channel \in 0..ALL_CHANNELS_ID, SetLevel(node, channel, value)
    PROVE  MixerInv'
<1> USE DEF MixerInv
<1>1. CASE Write(node, value) /\ UNCHANGED setting
  <2>1. value \in Int
    BY MixerAssumption
  <2> QED BY <1>1, <2>1, WriteKeeps DEF MixerTypeOK
<1>2. CASE setting' = [node |-> node, value |-> value, channel |-> 0]
           /\ UNCHANGED <<hw, volume, mute>>
  <2>1. 0 \in 0..ALL_CHANNELS_ID
    BY ALL_CHANNELS_IDType
  <2>2. setting' \in Settings
    BY <1>2, <2>1 DEF Settings
  <2>3. RegistersOK'
    BY <1>2 DEF RegistersOK, Advertised
  <2> QED BY <1>2, <2>2, <2>3 DEF MixerTypeOK
<1> QED BY <1>1, <1>2 DEF SetLevel

LEMMA SetNextKeeps == ASSUME MixerInv, SetNext PROVE MixerInv'
<1> USE DEF MixerInv
<1>1. setting \in [node : Node, value : Levels, channel : 0..ALL_CHANNELS_ID]
  BY SettingType DEF SetNext
<1>2. CASE setting.channel < ALL_CHANNELS_ID
  <2>1. Write(setting.node, setting.value)
        /\ setting' = [setting EXCEPT !.channel = (setting.channel + 1) % Ulong]
    BY <1>2 DEF SetNext
  <2>2. setting.node \in Node /\ setting.value \in Int /\ setting.channel \in Nat
    <3>1. setting.node \in Node /\ setting.value \in Levels /\ setting.channel \in 0..ALL_CHANNELS_ID
      BY <1>1
    <3>2. Levels \subseteq Int
      BY MixerAssumption
    <3>3. PICK channel \in 0..ALL_CHANNELS_ID : channel = setting.channel
      BY <3>1
    <3>4. channel \in Nat
      BY ALL_CHANNELS_IDType
    <3>5. setting.value \in Int
      BY ONLY <3>1, <3>2
    <3> QED BY ONLY <3>1, <3>3, <3>4, <3>5
  <2>3. (setting.channel + 1) % Ulong \in 0..ALL_CHANNELS_ID
    BY <1>2, <2>2, NextChannel
  <2>4. setting' \in Settings
    BY <1>1, <2>1, <2>3 DEF Settings
  <2> QED BY <2>1, <2>2, <2>4, WriteKeeps DEF MixerTypeOK
<1>3. CASE ~(setting.channel < ALL_CHANNELS_ID)
  <2>1. setting' = NoSetting /\ UNCHANGED <<hw, volume, mute>>
    BY <1>3 DEF SetNext
  <2>2. RegistersOK'
    BY <2>1 DEF RegistersOK, Advertised
  <2> QED BY <2>1, <2>2, SettingType DEF MixerTypeOK
<1> QED BY <1>2, <1>3

LEMMA MixerNextKeeps == ASSUME MixerInv, [MixerNext]_mixerVars PROVE MixerInv'
<1> USE DEF MixerInv
<1>1. CASE \E made \in BOOLEAN : SetHardware(made)
  <2>1. hw' \in BOOLEAN /\ setting' = setting /\ MixerReset
    BY <1>1 DEF SetHardware
  <2> QED BY <2>1, ResetType DEF MixerTypeOK
<1>2. CASE TopologyInit
  BY <1>2, ResetType DEF TopologyInit, MixerTypeOK
<1>3. CASE MixerRequest
  BY <1>3, SetLevelKeeps, SetNextKeeps DEF MixerRequest
<1>4. CASE UNCHANGED mixerVars
  BY <1>4 DEF mixerVars, MixerTypeOK, RegistersOK, Advertised
<1> QED BY <1>1, <1>2, <1>3, <1>4 DEF MixerNext

LEMMA MixerInvInit == MixerInit => MixerInv
<1>1. ResetLevel \in Int
  BY DEF ResetLevel
<1> QED BY <1>1, SettingType DEF MixerInit, MixerInv, MixerTypeOK, RegistersOK, Settings

LEMMA MixerInvariant == MixerSpec => []MixerInv
<1>1. MixerInit => MixerInv
  BY MixerInvInit
<1>2. MixerInv /\ [MixerNext]_mixerVars => MixerInv'
  BY MixerNextKeeps
<1> QED BY <1>1, <1>2, PTL DEF MixerSpec

\* Every request leaves the registers and the SET under way in their types
\* (hw.cpp, kshelper.cpp).
THEOREM MixerTypes == MixerSpec => []MixerTypeOK
<1>1. MixerInv => MixerTypeOK
  BY DEF MixerInv
<1> QED BY <1>1, MixerInvariant, PTL

\* A GET answers a level that basic support advertises, or what a reset left, for
\* every step, range and sequence of requests (NormalizeInRange, kshelper.cpp).
THEOREM LevelsAreAdvertised == MixerSpec => []LevelAsAdvertised
<1>1. MixerInv => LevelAsAdvertised
  <2>1. SUFFICES ASSUME MixerInv PROVE LevelAsAdvertised
    OBVIOUS
  <2>2. 0 % Step = 0 /\ 0 \in MinLevel..MaxLevel
    <3>1. ASSUME NEW b \in Nat \ {0} PROVE 0 % b = 0
      BY SMT
    <3> QED BY <3>1, MixerAssumption
  <2>3. MixerVolumeRead \in {0, volume} /\ MixerMuteRead \in {0, mute}
    BY DEF MixerVolumeRead, MixerMuteRead
  <2> QED BY <2>1, <2>2, <2>3 DEF LevelAsAdvertised, MixerInv, RegistersOK, Advertised
<1> QED BY <1>1, MixerInvariant, PTL

\* The loop of a SET for all channels moves forward until it is done, whatever other
\* requests come in between: it runs ALL_CHANNELS_ID times (kshelper.cpp, 736 and 843).
THEOREM AllChannelsAdvance == MixerSpec => AllChannelsReturns
<1>1. ASSUME MixerInv, [MixerNext]_mixerVars, setting # NoSetting, setting' # setting
      PROVE  setting' = NoSetting \/ setting'.channel > setting.channel
  <2>1. SetNext
    BY <1>1 DEF MixerNext, MixerRequest, SetHardware, TopologyInit, SetLevel, mixerVars
  <2>2. setting \in [node : Node, value : Levels, channel : 0..ALL_CHANNELS_ID]
    BY <1>1, SettingType DEF MixerInv
  <2>3. CASE setting.channel < ALL_CHANNELS_ID
    <3>1. setting' = [setting EXCEPT !.channel = (setting.channel + 1) % Ulong]
      BY <2>1, <2>3 DEF SetNext
    <3>2. setting.channel \in Nat /\ (setting.channel + 1) % Ulong = setting.channel + 1
      <4>1. setting.channel \in Nat
        BY <2>2, ALL_CHANNELS_IDType
      <4> QED BY <2>3, <4>1, NextChannel
    <3>3. setting'.channel = setting.channel + 1
      BY <2>2, <3>1, <3>2
    <3> QED BY <3>2, <3>3
  <2>4. CASE ~(setting.channel < ALL_CHANNELS_ID)
    BY <2>1, <2>4 DEF SetNext
  <2> QED BY <2>3, <2>4
<1>2. MixerInv /\ [MixerNext]_mixerVars
        => [setting # NoSetting /\ setting' # setting
              => setting' = NoSetting \/ setting'.channel > setting.channel]_mixerVars
  BY <1>1
<1> QED BY <1>2, MixerInvariant, PTL DEF MixerSpec, AllChannelsReturns

-----------------------------------------------------------------------------
(* Composition                                                             *)

\* The topology filter adds nothing to what the wave filter and the adapter may do.
THEOREM EndpointImplementsDriver == EndpointSpec => DriverSpec
<1>1. EndpointInit => DriverInit
  BY DEF EndpointInit
<1>2. ASSUME [EndpointNext]_epVars PROVE [DriverNext]_allVars
  BY <1>2, Zenon DEF EndpointNext, DeviceStep, TopologyRequest, WaveRequest, DriverNext, epVars
<1> QED BY <1>1, <1>2, PTL DEF EndpointSpec, DriverSpec

\* Nor do adapter and streams disturb the registers but by making, resetting and
\* destroying them (common.cpp, hw.cpp): all that is proved of MixerSpec holds here.
THEOREM EndpointImplementsMixer == EndpointSpec => MixerSpec
<1>1. EndpointInit => MixerInit
  BY DEF EndpointInit
<1>2. ASSUME [EndpointNext]_epVars PROVE [MixerNext]_mixerVars
  <2>1. CASE DeviceStep
    BY <2>1, Zenon DEF DeviceStep, HardwareStep, MakeHardware, MixerNext
  <2>2. CASE TopologyRequest \/ WaveRequest \/ UNCHANGED epVars
    BY <2>2, Zenon DEF TopologyRequest, WaveRequest, MixerNext, epVars
  <2> QED BY <1>2, <2>1, <2>2 DEF EndpointNext
<1> QED BY <1>1, <1>2, PTL DEF EndpointSpec, MixerSpec

-----------------------------------------------------------------------------
(* References                                                              *)

Everybody == Holder \cup Streams
References == [Object -> SUBSET Everybody]

\* Objects that release what they hold when they go.
Frees == {"topoPort", "topoMini", "adapter", "wavePort"}

LEMMA FreeKeeps ==
    ASSUME NEW r \in References, NEW x \in Frees
    PROVE  /\ Free(r, x) \in References
           /\ \A o \in Object : Free(r, x)[o] \subseteq r[o] /\ r[o] \ Frees \subseteq Free(r, x)[o]
  BY DEF Free, References, Frees

LEMMA SettleKeeps ==
    ASSUME NEW r \in References
    PROVE  /\ Settle(r) \in References
           /\ \A o \in Object : Settle(r)[o] \subseteq r[o] /\ r[o] \ Frees \subseteq Settle(r)[o]
<1>1. PICK a \in References : /\ a = Free(r, "topoPort")
        /\ \A o \in Object : a[o] \subseteq r[o] /\ r[o] \ Frees \subseteq a[o]
  BY FreeKeeps DEF Frees
<1>2. PICK b \in References : /\ b = Free(a, "topoMini")
        /\ \A o \in Object : b[o] \subseteq a[o] /\ a[o] \ Frees \subseteq b[o]
  BY FreeKeeps DEF Frees
<1>3. PICK c \in References : /\ c = Free(b, "adapter")
        /\ \A o \in Object : c[o] \subseteq b[o] /\ b[o] \ Frees \subseteq c[o]
  BY FreeKeeps DEF Frees
<1>4. PICK d \in References : /\ d = Free(c, "wavePort")
        /\ \A o \in Object : d[o] \subseteq c[o] /\ c[o] \ Frees \subseteq d[o]
  BY FreeKeeps DEF Frees
<1>5. Settle(r) = d
  BY <1>1, <1>2, <1>3, <1>4 DEF Settle
<1>6. \A o \in Object : d[o] \subseteq r[o] /\ r[o] \ Frees \subseteq d[o]
  BY <1>1, <1>2, <1>3, <1>4
<1> QED BY <1>5, <1>6

LEMMA AddType ==
    ASSUME NEW r \in References, NEW os, NEW h \in Everybody
    PROVE  /\ Add(r, os, h) \in References
           /\ \A o \in Object : Add(r, os, h)[o] = IF o \in os THEN r[o] \cup {h} ELSE r[o]
  BY DEF Add, References

LEMMA DropType ==
    ASSUME NEW r \in References, NEW os, NEW hs
    PROVE  /\ Drop(r, os, hs) \in References
           /\ \A o \in Object : Drop(r, os, hs)[o] = IF o \in os THEN r[o] \ hs ELSE r[o]
  BY DEF Drop, References

\* Streams and what PortCls and clients hold are not among the objects that free.
LEMMA Outsiders ==
    \A h \in Streams \cup {"client", "power", "unknown"} : h \in Everybody /\ h \notin Frees
  BY DriverAssumption DEF Everybody, Holder, Object, Frees

-----------------------------------------------------------------------------
(* The adapter                                                             *)

\* StartDevice is under way and holds the adapter.
Starting == {"init", "power", "topology", "wave", "connect", "finish", "interfaces", "exit"}

\* From the registration with power management to the end of the device.
Powered ==
    \/ pc \in {"topology", "wave", "connect", "finish", "interfaces", "started", "surprised"}
    \/ pc = "exit" /\ ntStatus

\* One adapter at a time, and its work items with it.
OneAdapter ==
    /\ refs \in References
    /\ instances \in {0, 1}
    /\ refs["adapter"] # {} => instances = 1
    /\ instances = 0 => pool = "none"

\* What stands at each step of StartDevice, and while the device is there.
Stages ==
    /\ pc \in Starting => "unknown" \in refs["adapter"]
    /\ pc = "init" => pool = "none"
    /\ pc = "power" => pool = "all"
    /\ Powered => "power" \in refs["adapter"] /\ pool = "all"

\* Handles are open only while the device is started or was pulled out.
Handles ==
    /\ \A p \in Port : "client" \in refs[p] => pc \in {"started", "surprised"}
    /\ irp \in {"stop", "remove"} => \A p \in Port : "client" \notin refs[p]
    /\ irp \in Requests /\ (irp # "none" => pc \in PnpStates \ {"removed"})
    /\ irp = "surprise" => pc = "started"

AdapterInv == OneAdapter /\ Stages /\ Handles

\* Giving references up: whatever is freed by it, the outsiders' stay, and while one of
\* them holds the adapter nothing happens to it.
LEMMA AdoptKeeps ==
    ASSUME OneAdapter, NEW r \in References, r["adapter"] \subseteq refs["adapter"], Adopt(r)
    PROVE  /\ OneAdapter'
           /\ \A o \in Object : refs'[o] \subseteq r[o] /\ r[o] \ Frees \subseteq refs'[o]
           /\ r["adapter"] \ Frees # {} => UNCHANGED <<instances, pool>>
<1>1. refs' = Settle(r)
  BY DEF Adopt
<1>2. /\ refs' \in References
      /\ \A o \in Object : refs'[o] \subseteq r[o] /\ r[o] \ Frees \subseteq refs'[o]
  BY <1>1, SettleKeeps
<1>3. "adapter" \in Object
  BY DEF Object
<1>4. CASE refs["adapter"] # {} /\ refs'["adapter"] = {}
  <2>1. instances' = instances - 1 /\ pool' = "none"
    BY <1>1, <1>4 DEF Adopt, Exists
  <2>2. instances' = 0
    BY <1>4, <2>1 DEF OneAdapter
  <2> QED BY <1>2, <1>3, <1>4, <2>1, <2>2 DEF OneAdapter
<1>5. CASE ~(refs["adapter"] # {} /\ refs'["adapter"] = {})
  <2>1. UNCHANGED <<instances, pool>>
    BY <1>1, <1>5 DEF Adopt, Exists
  <2>2. refs'["adapter"] \subseteq refs["adapter"]
    BY <1>2, <1>3
  <2> QED BY <1>2, <1>5, <2>1, <2>2 DEF OneAdapter
<1> QED BY <1>4, <1>5

\* What a step that gives references up leaves to be checked.
LEMMA AdoptHandles ==
    ASSUME AdapterInv, NEW r \in References, Adopt(r),
           \A o \in Object : r[o] \cap {"client", "power"} \subseteq refs[o],
           r["adapter"] \subseteq refs["adapter"]
    PROVE  /\ OneAdapter'
           /\ \A p \in Port : "client" \in refs'[p] => "client" \in refs[p]
           /\ "power" \in r["adapter"] \/ "unknown" \in r["adapter"] => UNCHANGED <<instances, pool>>
           /\ "power" \in r["adapter"] => "power" \in refs'["adapter"]
           /\ "unknown" \in r["adapter"] => "unknown" \in refs'["adapter"]
<1>1. /\ OneAdapter'
      /\ \A o \in Object : refs'[o] \subseteq r[o] /\ r[o] \ Frees \subseteq refs'[o]
      /\ r["adapter"] \ Frees # {} => UNCHANGED <<instances, pool>>
  BY AdoptKeeps DEF AdapterInv
<1>2. "power" \notin Frees /\ "unknown" \notin Frees /\ "adapter" \in Object /\ Port \subseteq Object
  BY DEF Frees, Object, Port
<1> QED BY <1>1, <1>2

\* The registrations and installations of StartDevice, which only add references.
LEMMA StartAdds ==
    ASSUME AdapterInv, NewAdapterCommon \/ InitAdapter \/ RegisterPower \/ InstallTopology
                       \/ InstallWave \/ ConnectTopologies
    PROVE  AdapterInv'
<1> USE DEF AdapterInv, Stages, Handles, Starting, Powered, PnpStates, Requests
<1>0. "adapter" \in Object /\ Port \subseteq Object
      /\ \A h \in Holder : h \in Everybody
  BY DEF Object, Port, Everybody
<1>1. ASSUME NewAdapterCommon PROVE AdapterInv'
  <2>1. pc = "removed" /\ irp = "none" /\ irp' = "none" /\ pool' = pool
    BY <1>1 DEF NewAdapterCommon
  <2>2. CASE pc' = "failed" /\ UNCHANGED refs /\ instances' \in {instances, 1}
    BY <2>1, <2>2 DEF OneAdapter
  <2>3. CASE instances = 0 /\ instances' = 1 /\ pc' = "init"
             /\ refs' = [refs EXCEPT !["adapter"] = {"unknown", "extension"}]
    <3>1. refs' \in References
      <4>1. {"unknown", "extension"} \in SUBSET Everybody
        BY <1>0 DEF Holder
      <4> QED BY <2>3, <4>1 DEF OneAdapter, References
    <3>2. refs'["adapter"] = {"unknown", "extension"}
          /\ \A p \in Port : refs'[p] = refs[p]
      BY <1>0, <2>3 DEF OneAdapter, References, Port
    <3>3. OneAdapter'
      BY <2>1, <2>3, <3>1 DEF OneAdapter
    <3>4. Stages' /\ Handles'
      BY <2>1, <2>3, <3>2 DEF OneAdapter
    <3> QED BY <3>3, <3>4
  <2> QED BY <1>1, <2>2, <2>3 DEF NewAdapterCommon
<1>2. ASSUME InitAdapter PROVE AdapterInv'
  <2>1. pc = "init" /\ UNCHANGED <<irp, instances, refs>>
        /\ pc' = (IF ntStatus' THEN "power" ELSE "exit")
    BY <1>2, Zenon DEF InitAdapter
  <2>2. ntStatus' => pool' = "all"
    BY <1>2, <2>1 DEF InitAdapter, InitializeWorkItems
  <2>3. instances' = 1
    BY <2>1 DEF OneAdapter
  <2>4. ~ntStatus' => pc' = "exit"
    BY <2>1
  <2>5. OneAdapter'
    BY <2>1, <2>3 DEF OneAdapter
  <2> QED BY <2>1, <2>2, <2>4, <2>5
<1>3. ASSUME RegisterPower PROVE AdapterInv'
  <2>1. pc = "power" /\ UNCHANGED <<irp, instances, pool>>
    BY <1>3 DEF RegisterPower
  <2>2. CASE ~ntStatus' /\ pc' = "exit" /\ UNCHANGED refs
    BY <2>1, <2>2 DEF OneAdapter
  <2>3. CASE refs' = Add(refs, {"adapter"}, "power") /\ pc' = "topology"
    <3>1. "power" \in Everybody
      BY <1>0 DEF Holder
    <3>2. /\ refs' \in References
          /\ \A o \in Object : refs'[o] = IF o = "adapter" THEN refs[o] \cup {"power"} ELSE refs[o]
      <4>1. PICK before \in References : before = refs
        BY DEF OneAdapter
      <4>2. /\ Add(before, {"adapter"}, "power") \in References
            /\ \A o \in Object : Add(before, {"adapter"}, "power")[o]
                   = IF o \in {"adapter"} THEN before[o] \cup {"power"} ELSE before[o]
        BY ONLY <3>1, AddType
      <4> QED BY <2>3, <4>1, <4>2
    <3>3. refs'["adapter"] = refs["adapter"] \cup {"power"} /\ \A p \in Port : refs'[p] = refs[p]
      BY <1>0, <3>2 DEF Port
    <3> QED BY <2>1, <2>3, <3>2, <3>3 DEF OneAdapter
  <2> QED BY <1>3, <2>2, <2>3 DEF RegisterPower
<1>4. ASSUME NEW p \in Port, NEW next \in {"wave", "connect"}, pc \in {"topology", "wave"},
             Install(p, next)
      PROVE  AdapterInv'
  <2>1. pc' = next /\ UNCHANGED <<irp, instances, pool>>
    BY <1>4 DEF Install
  <2>2. \A c \in Port : "client" \notin refs[c]
    BY <1>4
  <2>3. PICK made : made = InstallSubdevice(refs, p)
    OBVIOUS
  <2>4. /\ made \in References /\ refs["adapter"] \subseteq made["adapter"]
        /\ \A c \in Port : "client" \notin made[c]
    <3>1. PICK held : held = [refs EXCEPT ![p] = {"local", "registered"}, ![Mini(p)] = {"local", p}]
      OBVIOUS
    <3>2. Mini(p) \in Object \ (Port \cup {"adapter"}) /\ p \in Everybody /\ p # "adapter"
      BY <1>0 DEF Mini, Object, Port, Holder
    <3>3. held \in References
      BY <1>0, <3>1, <3>2 DEF OneAdapter, References, Holder
    <3>4. held["adapter"] = refs["adapter"] /\ \A c \in Port : held[c] \in {refs[c], {"local", "registered"}}
      BY <1>0, <3>1, <3>2 DEF OneAdapter, References
    <3>5. made \in {held, Add(held, {"adapter"}, "topoMini")}
      BY <2>3, <3>1 DEF InstallSubdevice
    <3>6. "topoMini" \in Everybody
      BY <1>0 DEF Holder, Object
    <3>7. /\ Add(held, {"adapter"}, "topoMini") \in References
          /\ \A o \in Object : Add(held, {"adapter"}, "topoMini")[o] \subseteq held[o] \cup {"topoMini"}
          /\ \A o \in Object : held[o] \subseteq Add(held, {"adapter"}, "topoMini")[o]
      <4>1. /\ Add(held, {"adapter"}, "topoMini") \in References
            /\ \A o \in Object : Add(held, {"adapter"}, "topoMini")[o]
                   = IF o \in {"adapter"} THEN held[o] \cup {"topoMini"} ELSE held[o]
        BY ONLY <3>3, <3>6, AddType
      <4>2. PICK added \in References : added = Add(held, {"adapter"}, "topoMini")
        BY <4>1
      <4> QED BY ONLY <4>1, <4>2
    <3> QED BY <1>0, <2>2, <3>3, <3>4, <3>5, <3>7
  <2>5. PICK cached : cached = CacheSubdevice(made, p)
    OBVIOUS
  <2>6. /\ cached \in References /\ made["adapter"] \subseteq cached["adapter"]
        /\ \A c \in Port : "client" \notin cached[c]
    <3>1. "cache" \in Everybody
      BY <1>0 DEF Holder
    <3>2. /\ cached \in References
          /\ \A o \in Object : cached[o] \in {made[o], made[o] \cup {"cache"}}
      <4>1. /\ Add(made, {p, Mini(p)}, "cache") \in References
            /\ \A o \in Object : Add(made, {p, Mini(p)}, "cache")[o]
                   = IF o \in {p, Mini(p)} THEN made[o] \cup {"cache"} ELSE made[o]
        <5>1. PICK os : os = {p, Mini(p)}
          OBVIOUS
        <5>2. /\ Add(made, os, "cache") \in References
              /\ \A o \in Object : Add(made, os, "cache")[o]
                     = IF o \in os THEN made[o] \cup {"cache"} ELSE made[o]
          BY ONLY <2>4, <3>1, AddType
        <5> QED BY ONLY <5>1, <5>2
      <4>2. cached = Add(made, {p, Mini(p)}, "cache")
        BY ONLY <2>5 DEF CacheSubdevice
      <4> QED BY ONLY <4>1, <4>2
    <3> QED BY <1>0, <2>4, <3>2
  <2>7. refs' \in {refs, made, cached}
    BY <1>4, <2>3, <2>5 DEF Install
  <2>8. refs' \in References /\ refs["adapter"] \subseteq refs'["adapter"]
        /\ \A c \in Port : "client" \notin refs'[c]
    BY <2>2, <2>4, <2>6, <2>7 DEF OneAdapter
  <2>9. instances = 1
    BY <1>4 DEF OneAdapter
  <2>10. OneAdapter'
    BY <2>1, <2>8, <2>9 DEF OneAdapter
  <2> QED BY <1>4, <2>1, <2>8, <2>10
<1>5. ASSUME ConnectTopologies PROVE AdapterInv'
  <2>1. pc = "connect" /\ pc' = "finish" /\ UNCHANGED <<irp, instances, refs, pool>>
    BY <1>5 DEF ConnectTopologies
  <2> QED BY <2>1 DEF OneAdapter
<1> QED
  <2>1. "topoPort" \in Port /\ "wavePort" \in Port
    BY DEF Port
  <2> QED BY <1>1, <1>2, <1>3, <1>4, <1>5, <2>1 DEF InstallTopology, InstallWave

\* References of clients and of power management that a step hands on, none added.
Less(r) ==
    /\ r \in References /\ r["adapter"] \subseteq refs["adapter"]
    /\ \A o \in Object : r[o] \cap {"client", "power"} \subseteq refs[o]

LEMMA DropLess ==
    ASSUME NEW r, Less(r), NEW os, NEW hs
    PROVE  /\ Less(Drop(r, os, hs))
           /\ \A h : h \notin hs /\ h \in r["adapter"] => h \in Drop(r, os, hs)["adapter"]
<1>1. PICK less : less = Drop(r, os, hs)
  OBVIOUS
<1>2. r \in References
  BY DEF Less
<1>3. /\ less \in References
      /\ \A o \in Object : less[o] = IF o \in os THEN r[o] \ hs ELSE r[o]
  BY ONLY <1>1, <1>2, DropType
<1>4. "adapter" \in Object
  BY DEF Object
<1> QED BY <1>1, <1>3, <1>4 DEF Less

LEMMA AddLess ==
    ASSUME NEW r, Less(r), NEW os, "adapter" \notin os,
           NEW h \in Everybody \ {"client", "power"}
    PROVE  Less(Add(r, os, h)) /\ Add(r, os, h)["adapter"] = r["adapter"]
<1>1. PICK more : more = Add(r, os, h)
  OBVIOUS
<1>2. r \in References
  BY DEF Less
<1>3. /\ more \in References
      /\ \A o \in Object : more[o] = IF o \in os THEN r[o] \cup {h} ELSE r[o]
  BY ONLY <1>1, <1>2, AddType
<1>4. "adapter" \in Object
  BY DEF Object
<1> QED BY <1>1, <1>3, <1>4 DEF Less

\* The steps that give references up at the end of StartDevice.
LEMMA StartReleases ==
    ASSUME AdapterInv, FinishInstall \/ WaveInterfaces \/ StartExit
    PROVE  AdapterInv'
<1> USE DEF Starting, Powered, PnpStates, Requests
<1>0. /\ "adapter" \in Object /\ "adapter" \notin Port /\ "wavePort" \in Port
      /\ {"caller", "adapter"} \subseteq Everybody \ {"client", "power"}
      /\ Less(refs)
  BY DEF Object, Port, Everybody, Holder, Less, AdapterInv, OneAdapter
<1>1. ASSUME FinishInstall PROVE AdapterInv'
  <2>1. pc = "finish" /\ pc' = "interfaces" /\ irp' = irp
    BY <1>1 DEF FinishInstall
  <2>2. "unknown" \in refs["adapter"] /\ "power" \in refs["adapter"] /\ pool = "all" /\ irp = "none"
        /\ \A p \in Port : "client" \notin refs[p]
    BY <2>1 DEF AdapterInv, Stages, Handles
  <2>3. PICK r : /\ r = (IF ntStatus THEN Add(refs, Created, "caller") ELSE RolledBack(refs))
                 /\ Adopt(Drop(r, Object, {"local"}))
    BY <1>1 DEF FinishInstall
  <2>4. Less(r) /\ {"unknown", "power"} \subseteq r["adapter"]
    <3>1. CASE ntStatus
      <4>1. PICK os : os = Created /\ "adapter" \notin os
        BY <1>0, Zenon DEF Created
      <4>2. Less(Add(refs, os, "caller")) /\ Add(refs, os, "caller")["adapter"] = refs["adapter"]
        BY <1>0, <4>1, AddLess
      <4>3. r = Add(refs, os, "caller")
        BY <2>3, <3>1, <4>1
      <4>4. Less(r) /\ r["adapter"] = refs["adapter"]
        BY ONLY <4>2, <4>3, Zenon
      <4> QED BY <2>2, <4>4
    <3>2. CASE ~ntStatus
      <4>1. PICK ps : ps = Created \cup {Mini(p) : p \in Created}
        OBVIOUS
      <4>2. PICK r1 : r1 = Drop(refs, Created, {"registered"})
        OBVIOUS
      <4>3. Less(r1) /\ {"unknown", "power"} \subseteq r1["adapter"]
        BY <1>0, <2>2, <4>2, DropLess
      <4>4. r = Drop(r1, ps, {"cache"})
        BY <2>3, <3>2, <4>1, <4>2 DEF RolledBack, RemoveCachedSubdevice, UnregisterSubdevice
      <4> QED BY <4>3, <4>4, DropLess
    <3> QED BY <3>1, <3>2
  <2>5. PICK less : less = Drop(r, Object, {"local"})
    OBVIOUS
  <2>6. Less(less) /\ {"unknown", "power"} \subseteq less["adapter"]
    BY <2>2, <2>4, <2>5, DropLess
  <2>7. /\ OneAdapter'
        /\ \A p \in Port : "client" \notin refs'[p]
        /\ pool' = pool
        /\ "power" \in refs'["adapter"] /\ "unknown" \in refs'["adapter"]
    BY <2>2, <2>3, <2>5, <2>6, AdoptHandles DEF Less
  <2> QED BY <2>1, <2>2, <2>7 DEF AdapterInv, Stages, Handles
<1>2. ASSUME WaveInterfaces PROVE AdapterInv'
  <2>1. pc = "interfaces" /\ pc' = "exit" /\ irp' = irp
    BY <1>2 DEF WaveInterfaces
  <2>2. "unknown" \in refs["adapter"] /\ "power" \in refs["adapter"] /\ pool = "all" /\ irp = "none"
        /\ \A p \in Port : "client" \notin refs[p]
    BY <2>1 DEF AdapterInv, Stages, Handles
  <2>3. CASE UNCHANGED <<ntStatus, refs, instances, pool>>
    BY <2>1, <2>2, <2>3 DEF AdapterInv, OneAdapter, Stages, Handles
  <2>4. ASSUME NEW r \in {refs, Add(refs, {"wavePort"}, "adapter")}, Adopt(Drop(r, Port, {"caller"}))
        PROVE  AdapterInv'
    <3>1. Less(r) /\ r["adapter"] = refs["adapter"]
      BY <1>0, <2>4, AddLess DEF Port
    <3>2. PICK less : less = Drop(r, Port, {"caller"})
      OBVIOUS
    <3>3. Less(less) /\ {"unknown", "power"} \subseteq less["adapter"]
      BY <2>2, <3>1, <3>2, DropLess
    <3>4. /\ OneAdapter'
          /\ \A p \in Port : "client" \notin refs'[p]
          /\ pool' = pool
          /\ "power" \in refs'["adapter"] /\ "unknown" \in refs'["adapter"]
      BY <2>2, <2>4, <3>2, <3>3, AdoptHandles DEF Less
    <3> QED BY <2>1, <2>2, <3>4 DEF AdapterInv, Stages, Handles
  <2> QED BY <1>2, <2>3, <2>4, Zenon DEF WaveInterfaces
<1>3. ASSUME StartExit PROVE AdapterInv'
  <2>1. /\ pc = "exit" /\ pc' = (IF ntStatus THEN "started" ELSE "failed") /\ irp' = irp
        /\ ntStatus' = ntStatus
    BY <1>3 DEF StartExit
  <2>2. /\ irp = "none" /\ \A p \in Port : "client" \notin refs[p]
        /\ ntStatus => "power" \in refs["adapter"] /\ pool = "all"
    BY <2>1 DEF AdapterInv, Stages, Handles
  <2>3. PICK less : less = Drop(refs, {"adapter"}, {"unknown"}) /\ Adopt(less)
    BY <1>3 DEF StartExit
  <2>4. Less(less) /\ ("power" \in refs["adapter"] => "power" \in less["adapter"])
    BY <1>0, <2>3, DropLess
  <2>5. /\ OneAdapter'
        /\ \A p \in Port : "client" \notin refs'[p]
        /\ "power" \in refs["adapter"] => pool' = pool /\ "power" \in refs'["adapter"]
    BY <2>2, <2>3, <2>4, AdoptHandles DEF Less
  <2> QED BY <2>1, <2>2, <2>5 DEF AdapterInv, Stages, Handles
<1> QED BY <1>1, <1>2, <1>3

\* PnP requests and handles.
LEMMA DeviceReleases ==
    ASSUME AdapterInv, \/ \E r \in Requests : PnpHandler(r)
                       \/ PcDispatchIrp
                       \/ \E p \in Port : Open(p) \/ Close(p)
    PROVE  AdapterInv'
<1> USE DEF Starting, Powered, PnpStates, Requests
<1>0. /\ "adapter" \in Object /\ "adapter" \notin Port /\ Port \subseteq Object
      /\ "client" \in Everybody
      /\ Less(refs)
  BY DEF Object, Port, Everybody, Holder, Less, AdapterInv, OneAdapter
<1>1. ASSUME NEW r \in Requests, PnpHandler(r) PROVE AdapterInv'
  <2>1. /\ irp = "none" /\ pc \in PnpStates \ {"removed"} /\ pc' = pc /\ irp' = r /\ r # "none"
        /\ r = "surprise" => pc = "started"
        /\ r \in {"stop", "remove"} => Clients = {}
    BY <1>1 DEF PnpHandler, Request, Requests
  <2>2. /\ pc \in {"started", "surprised"} => "power" \in refs["adapter"] /\ pool = "all"
        /\ \A p \in Port : "client" \in refs[p] => pc \in {"started", "surprised"}
    BY DEF AdapterInv, Stages, Handles
  <2>3. CASE UNCHANGED <<refs, instances, pool>>
    BY <2>1, <2>2, <2>3 DEF AdapterInv, OneAdapter, Stages, Handles, Clients
  <2>4. CASE Adopt(Drop(Cleanup(refs), {"adapter"}, {"extension"}))
    <3>1. PICK clean : clean = Cleanup(refs)
      OBVIOUS
    <3>2. Less(clean) /\ ("power" \in refs["adapter"] => "power" \in clean["adapter"])
      BY <1>0, <3>1, DropLess DEF Cleanup
    <3>3. PICK less : less = Drop(clean, {"adapter"}, {"extension"})
      OBVIOUS
    <3>4. Less(less) /\ ("power" \in refs["adapter"] => "power" \in less["adapter"])
      BY <3>2, <3>3, DropLess
    <3>5. /\ OneAdapter'
          /\ \A p \in Port : "client" \in refs'[p] => "client" \in refs[p]
          /\ "power" \in refs["adapter"] => pool' = pool /\ "power" \in refs'["adapter"]
      BY <2>4, <3>1, <3>3, <3>4, AdoptHandles DEF Less
    <3> QED BY <2>1, <2>2, <3>5 DEF AdapterInv, Stages, Handles, Clients
  <2> QED BY <1>1, <2>3, <2>4 DEF PnpHandler
<1>2. ASSUME PcDispatchIrp PROVE AdapterInv'
  <2>1. /\ irp # "none" /\ irp' = "none" /\ pc \in PnpStates \ {"removed"}
        /\ pc' = (IF irp = "surprise" THEN "surprised" ELSE "removed")
    BY <1>2 DEF PcDispatchIrp, AdapterInv, Handles
  <2>2. irp = "surprise" => pc = "started" /\ "power" \in refs["adapter"] /\ pool = "all"
    BY DEF AdapterInv, Stages, Handles
  <2>3. PICK power : power = IF irp = "surprise" THEN {} ELSE {"power"}
    OBVIOUS
  <2>4. PICK less : less = Drop(refs, Object, {"registered"} \cup power)
    OBVIOUS
  <2>5. Adopt(less)
    BY <1>2, <2>3, <2>4 DEF PcDispatchIrp
  <2>6. Less(less) /\ (irp = "surprise" => "power" \in less["adapter"])
    <3>1. PICK hs : hs = {"registered"} \cup power
      OBVIOUS
    <3>2. irp = "surprise" => "power" \notin hs
      BY <2>3, <3>1
    <3> QED BY <1>0, <2>2, <2>4, <3>1, <3>2, DropLess
  <2>7. /\ OneAdapter'
        /\ \A p \in Port : "client" \in refs'[p] => "client" \in refs[p]
        /\ irp = "surprise" => pool' = pool /\ "power" \in refs'["adapter"]
    BY <2>5, <2>6, AdoptHandles DEF Less
  <2>8. irp # "surprise" => \A p \in Port : "client" \notin refs[p]
    BY <2>1 DEF AdapterInv, Handles, Requests
  <2> QED BY <2>1, <2>2, <2>7, <2>8 DEF AdapterInv, Stages, Handles
<1>3. ASSUME NEW p \in Port, Open(p) PROVE AdapterInv'
  <2>1. pc = "started" /\ irp = "none" /\ UNCHANGED <<pc, irp, instances, pool, ntStatus>>
    BY <1>3 DEF Open
  <2>2. PICK r \in References : r = refs
    BY DEF AdapterInv, OneAdapter
  <2>3. /\ Add(r, {p}, "client") \in References
        /\ \A o \in Object : Add(r, {p}, "client")[o] = IF o \in {p} THEN r[o] \cup {"client"} ELSE r[o]
    <3>1. PICK os : os = {p}
      OBVIOUS
    <3>2. /\ Add(r, os, "client") \in References
          /\ \A o \in Object : Add(r, os, "client")[o] = IF o \in os THEN r[o] \cup {"client"} ELSE r[o]
      BY ONLY <1>0, AddType
    <3> QED BY ONLY <3>1, <3>2
  <2>4. refs' \in References /\ refs'["adapter"] = refs["adapter"]
    BY <1>0, <1>3, <2>2, <2>3 DEF Open
  <2> QED BY <2>1, <2>4 DEF AdapterInv, OneAdapter, Stages, Handles
<1>4. ASSUME NEW p \in Port, Close(p) PROVE AdapterInv'
  <2>1. "client" \in refs[p] /\ UNCHANGED <<pc, irp, ntStatus>>
    BY <1>4 DEF Close
  <2>2. pc \in {"started", "surprised"} /\ "power" \in refs["adapter"] /\ pool = "all"
    BY <2>1 DEF AdapterInv, Stages, Handles
  <2>3. PICK less : less = Drop(refs, {p}, {"client"}) /\ Adopt(less)
    BY <1>4 DEF Close
  <2>4. Less(less) /\ "power" \in less["adapter"]
    BY <1>0, <2>2, <2>3, DropLess
  <2>5. /\ OneAdapter'
        /\ \A c \in Port : "client" \in refs'[c] => "client" \in refs[c]
        /\ pool' = pool /\ "power" \in refs'["adapter"]
    BY <2>3, <2>4, AdoptHandles DEF Less
  <2> QED BY <2>1, <2>2, <2>5 DEF AdapterInv, Stages, Handles
<1> QED BY <1>1, <1>2, <1>3, <1>4

\* What streams hold of the miniport concerns neither adapter nor handles.
LEMMA StreamsSpare ==
    ASSUME AdapterInv, NEW s \in Streams, StreamStep(s)
    PROVE  AdapterInv'
<1> USE DEF Starting, Powered, PnpStates, Requests
<1>0. /\ "adapter" \in Object /\ "adapter" # "waveMini" /\ Port \subseteq Object \ {"waveMini"}
      /\ s \in Everybody \ {"client", "power", "unknown"}
      /\ Less(refs)
  BY DriverAssumption DEF Object, Port, Everybody, Holder, Less, AdapterInv, OneAdapter
<1>1. CASE UNCHANGED vars
  BY <1>1 DEF vars, AdapterInv, OneAdapter, Stages, Handles
<1>2. ASSUME NEW ok \in BOOLEAN, InitStream(s, ok) PROVE AdapterInv'
  <2>1. PICK r \in References : r = refs
    BY DEF AdapterInv, OneAdapter
  <2>2. PICK os : os = {"waveMini"}
    OBVIOUS
  <2>3. /\ Add(r, os, s) \in References
        /\ \A o \in Object : Add(r, os, s)[o] = IF o \in os THEN r[o] \cup {s} ELSE r[o]
    BY ONLY <1>0, AddType
  <2>4. refs' = Add(r, os, s) /\ UNCHANGED <<pc, irp, instances, pool, ntStatus>>
    BY <1>2, <2>1, <2>2 DEF InitStream
  <2>5. refs' \in References /\ refs'["adapter"] = refs["adapter"] /\ \A p \in Port : refs'[p] = refs[p]
    BY ONLY <1>0, <2>1, <2>2, <2>3, <2>4
  <2> QED BY <2>4, <2>5 DEF AdapterInv, OneAdapter, Stages, Handles
<1>3. ASSUME NEW ok \in BOOLEAN, DestroyStream(s, ok) PROVE AdapterInv'
  <2>1. PICK less : less = Drop(refs, {"waveMini"}, {s}) /\ Adopt(less)
    BY <1>3 DEF DestroyStream
  <2>2. UNCHANGED <<pc, irp, ntStatus>>
    BY <1>3 DEF DestroyStream
  <2>3. /\ Less(less)
        /\ "power" \in refs["adapter"] => "power" \in less["adapter"]
        /\ "unknown" \in refs["adapter"] => "unknown" \in less["adapter"]
    BY <1>0, <2>1, DropLess
  <2>4. /\ OneAdapter'
        /\ \A p \in Port : "client" \in refs'[p] => "client" \in refs[p]
        /\ "power" \in refs["adapter"] => pool' = pool /\ "power" \in refs'["adapter"]
        /\ "unknown" \in refs["adapter"] => pool' = pool /\ "unknown" \in refs'["adapter"]
    BY <2>1, <2>3, AdoptHandles DEF Less
  <2> QED BY <2>2, <2>4 DEF AdapterInv, Stages, Handles
<1> QED
  <2>1. NewStream(s) \/ InitFailsEarly(s) \/ CloseStream(s) => UNCHANGED vars
    BY DEF NewStream, InitFailsEarly, CloseStream
  <2>2. \A ok \in BOOLEAN, c \in Contents : SetContentId(s, c, ok) => UNCHANGED vars
    BY DEF SetContentId
  <2> QED BY <1>1, <1>2, <1>3, <2>1, <2>2 DEF StreamStep

LEMMA AdapterStands == DriverSpec => []AdapterInv
<1>1. DriverInit => AdapterInv
  BY DEF DriverInit, Init, AdapterInv, OneAdapter, Stages, Handles, References, Starting,
         Powered, PnpStates, Requests, Port, Object
<1>2. ASSUME AdapterInv, [DriverNext]_allVars PROVE AdapterInv'
  <2>1. CASE AdapterStep
    <3>1. StartDevice \/ PcDispatchIrp \/ (\E r \in Requests : PnpHandler(r))
          \/ (\E p \in Port : Open(p) \/ Close(p))
      BY <2>1 DEF AdapterStep, CloseUnused
    <3> QED BY <1>2, <3>1, StartAdds, StartReleases, DeviceReleases, Zenon DEF StartDevice
  <2>2. CASE UNCHANGED allVars
    BY <1>2, <2>2 DEF allVars, vars, AdapterInv, OneAdapter, Stages, Handles, Starting, Powered
  <2> QED BY <1>2, <2>1, <2>2, StreamsSpare DEF DriverNext
<1> QED BY <1>1, <1>2, PTL DEF DriverSpec

\* StreamIsServed: a handle of the wave filter is opened only when StartDevice has
\* succeeded, and until it is closed PortCls holds the adapter.
THEOREM StreamsAreServed == EndpointSpec => []StreamIsServed
<1>1. AdapterInv => StreamIsServed
  BY DEF AdapterInv, Stages, Handles, Powered, StreamIsServed, Exists, Port
<1> QED BY <1>1, AdapterStands, EndpointImplementsDriver, PTL

-----------------------------------------------------------------------------
(* Requests and the hardware                                               *)

\* The hardware object is made before the device is registered with power management,
\* and a SET under way keeps the handle it came in on.
HardwareInv ==
    /\ Powered \/ pc = "power" => hw = TRUE
    /\ setting # NoSetting => TopologyOpen

\* Where the steps of the device get "power" and Powered from.
LEMMA PowerFollows ==
    ASSUME AdapterInv, AdapterStep
    PROVE  /\ pc' = "power" => pc = "init" /\ ntStatus'
           /\ Powered' => Powered \/ pc = "power"
           /\ pc = "init" => (pc' = "power" \/ (pc' = "exit" /\ ~ntStatus'))
<1> USE DEF Powered
<1>1. CASE InitAdapter
  <2>1. pc = "init" /\ pc' = (IF ntStatus' THEN "power" ELSE "exit")
    BY <1>1 DEF InitAdapter
  <2>2. ntStatus' => pc' = "power"
    BY <2>1
  <2>3. ~ntStatus' => pc' = "exit"
    BY <2>1
  <2>4. ntStatus' => ~Powered'
    BY <2>2
  <2>5. ~ntStatus' => pc' # "power" /\ ~Powered'
    BY <2>3
  <2>6. ~Powered'
    BY ONLY <2>4, <2>5, Zenon
  <2>7. pc' = "power" => ntStatus'
    BY ONLY <2>5, Zenon
  <2>8. pc' = "power" \/ (pc' = "exit" /\ ~ntStatus')
    BY ONLY <2>2, <2>3, Zenon
  <2> QED BY ONLY <2>1, <2>6, <2>7, <2>8, Zenon
<1>2. CASE NewAdapterCommon
  BY <1>2 DEF NewAdapterCommon
<1>3. CASE RegisterPower
  BY <1>3 DEF RegisterPower
<1>4. CASE InstallTopology \/ InstallWave
  BY <1>4 DEF InstallTopology, InstallWave, Install
<1>5. CASE ConnectTopologies \/ FinishInstall \/ WaveInterfaces
  BY <1>5 DEF ConnectTopologies, FinishInstall, WaveInterfaces
<1>6. CASE StartExit
  BY <1>6 DEF StartExit
<1>7. CASE PcDispatchIrp
  BY <1>7 DEF PcDispatchIrp, AdapterInv, Handles, PnpStates
<1>8. ASSUME NEW r \in Requests, PnpHandler(r)
      PROVE  pc \in {"failed", "started", "surprised"} /\ UNCHANGED <<pc, ntStatus>>
  BY <1>8 DEF PnpHandler, Request, PnpStates
<1>9. ASSUME NEW p \in Port, Open(p) \/ CloseUnused(p)
      PROVE  pc \in {"failed", "started", "surprised"} /\ UNCHANGED <<pc, ntStatus>>
  BY <1>9 DEF Open, Close, CloseUnused, AdapterInv, Handles
<1>10. (\E r \in Requests : PnpHandler(r)) \/ (\E p \in Port : Open(p) \/ CloseUnused(p))
         => pc \in {"failed", "started", "surprised"} /\ UNCHANGED <<pc, ntStatus>>
  BY <1>8, <1>9
<1>11. CASE pc \in {"failed", "started", "surprised"} /\ UNCHANGED <<pc, ntStatus>>
  BY <1>11
<1> QED
  <2>1. \/ StartDevice \/ PcDispatchIrp
        \/ pc \in {"failed", "started", "surprised"} /\ UNCHANGED <<pc, ntStatus>>
    BY <1>10 DEF AdapterStep
  <2> QED BY <1>1, <1>2, <1>3, <1>4, <1>5, <1>6, <1>7, <1>11, <2>1, Zenon DEF StartDevice

\* A stream's step leaves the handles of the topology filter alone.
LEMMA StreamsLeaveTopology ==
    ASSUME AdapterInv, NEW s \in Streams, StreamStep(s)
    PROVE  "client" \in refs["topoPort"] => "client" \in refs'["topoPort"]
<1>0. /\ "topoPort" \in Object /\ "topoPort" # "waveMini" /\ "client" \notin Frees
      /\ refs \in References /\ Less(refs)
      /\ s \in Everybody
  BY DEF Object, Frees, AdapterInv, OneAdapter, Less, Everybody
<1>1. ASSUME NEW ok \in BOOLEAN, InitStream(s, ok)
      PROVE  refs'["topoPort"] = refs["topoPort"]
  BY <1>0, <1>1 DEF InitStream, Add
<1>2. ASSUME NEW ok \in BOOLEAN, DestroyStream(s, ok), "client" \in refs["topoPort"]
      PROVE  "client" \in refs'["topoPort"]
  <2>1. PICK less : less = Drop(refs, {"waveMini"}, {s}) /\ Adopt(less)
    BY <1>2 DEF DestroyStream
  <2>2. Less(less)
    BY <1>0, <2>1, DropLess
  <2>3. \A o \in Object : less[o] \ Frees \subseteq refs'[o]
    BY <2>1, <2>2, AdoptKeeps DEF AdapterInv, Less
  <2>4. less["topoPort"] = refs["topoPort"]
    BY <1>0, <2>1 DEF Drop
  <2> QED BY <1>0, <1>2, <2>3, <2>4
<1>3. NewStream(s) \/ InitFailsEarly(s) \/ CloseStream(s) => refs' = refs
  BY DEF NewStream, InitFailsEarly, CloseStream, vars
<1>4. \A ok \in BOOLEAN, c \in Contents : SetContentId(s, c, ok) => refs' = refs
  BY DEF SetContentId, vars
<1> QED BY <1>1, <1>2, <1>3, <1>4 DEF StreamStep

LEMMA HardwareStands == EndpointSpec => [](AdapterInv /\ HardwareInv)
<1>1. EndpointInit => HardwareInv
  BY DEF EndpointInit, DriverInit, Init, MixerInit, HardwareInv, Powered
<1>2. ASSUME AdapterInv, HardwareInv, AdapterInv', [EndpointNext]_epVars
      PROVE  HardwareInv'
  <2>1. ASSUME DeviceStep PROVE HardwareInv'
    <3>1. AdapterStep /\ HardwareStep /\ (setting # NoSetting => "client" \in refs'["topoPort"])
      BY <2>1 DEF DeviceStep, RequestKeepsHandle
    <3>2. setting' = setting
      BY <3>1 DEF HardwareStep, MakeHardware, SetHardware, TopologyInit, mixerVars
    <3>3. setting' # NoSetting => TopologyOpen'
      BY <3>1, <3>2 DEF TopologyOpen
    <3>4. ASSUME Powered' \/ pc' = "power" PROVE hw' = TRUE
      <4>1. CASE pc = "init"
        <5>1. pc' = "power" /\ ntStatus'
          <6>1. pc' = "power" \/ (pc' = "exit" /\ ~ntStatus')
            BY <1>2, <3>1, <4>1, PowerFollows
          <6>2. CASE pc' = "power"
            BY <1>2, <3>1, <6>2, PowerFollows
          <6>3. CASE pc' = "exit" /\ ~ntStatus'
            BY <3>4, <6>3, Zenon DEF Powered
          <6> QED BY <6>1, <6>2, <6>3
        <5>2. PICK made \in BOOLEAN : SetHardware(made) /\ (ntStatus' \/ pool' # pool => made)
          BY <3>1, <4>1, Zenon DEF HardwareStep, MakeHardware
        <5> QED BY <5>1, <5>2 DEF SetHardware
      <4>2. CASE pc # "init"
        <5>1. Powered' /\ hw = TRUE
          BY <1>2, <3>1, <3>4, <4>2, PowerFollows DEF HardwareInv
        <5>2. ~AdapterDies
          BY <1>2, <5>1 DEF AdapterInv, Stages, AdapterDies
        <5> QED BY <3>1, <4>2, <5>1, <5>2 DEF HardwareStep, TopologyInit, mixerVars
      <4> QED BY <4>1, <4>2
    <3> QED BY <3>3, <3>4 DEF HardwareInv
  <2>2. ASSUME TopologyRequest PROVE HardwareInv'
    <3>1. /\ TopologyOpen /\ UNCHANGED <<pc, refs, ntStatus>>
          /\ hw' = hw
      BY <2>2 DEF TopologyRequest, allVars, vars, MixerRequest, SetLevel, SetNext, Write
    <3> QED BY <1>2, <3>1 DEF HardwareInv, Powered, TopologyOpen
  <2>3. ASSUME NEW s \in Streams, StreamStep(s), UNCHANGED mixerVars PROVE HardwareInv'
    <3>1. UNCHANGED <<pc, ntStatus>>
      <4>1. NewStream(s) \/ InitFailsEarly(s) \/ CloseStream(s) => UNCHANGED <<pc, ntStatus>>
        BY DEF NewStream, InitFailsEarly, CloseStream, vars
      <4>2. \A ok \in BOOLEAN : InitStream(s, ok) \/ DestroyStream(s, ok) => UNCHANGED <<pc, ntStatus>>
        BY DEF InitStream, DestroyStream
      <4>3. \A ok \in BOOLEAN, c \in Contents : SetContentId(s, c, ok) => UNCHANGED <<pc, ntStatus>>
        BY DEF SetContentId, vars
      <4> QED BY <2>3, <4>1, <4>2, <4>3 DEF StreamStep
    <3>2. UNCHANGED <<hw, setting>>
      BY <2>3 DEF mixerVars
    <3>3. TopologyOpen => TopologyOpen'
      BY <1>2, <2>3, StreamsLeaveTopology DEF TopologyOpen
    <3> QED BY <1>2, <3>1, <3>2, <3>3 DEF HardwareInv, Powered
  <2>4. CASE UNCHANGED epVars
    BY <1>2, <2>4 DEF epVars, allVars, vars, mixerVars, HardwareInv, Powered, TopologyOpen
  <2> QED BY <1>2, <2>1, <2>2, <2>3, <2>4 DEF EndpointNext, WaveRequest
<1>3. EndpointSpec => []AdapterInv
  BY AdapterStands, EndpointImplementsDriver, PTL
<1> QED BY <1>1, <1>2, <1>3, PTL DEF EndpointSpec

\* RequestsReachHardware: no SET of the volume or the mute finds the hardware object
\* missing, which would drop it in silence (CAdapterCommon::MixerVolumeWrite).
THEOREM SettingsTakeEffect == EndpointSpec => []RequestsReachHardware
<1>1. AdapterInv /\ HardwareInv => RequestsReachHardware
  BY DEF AdapterInv, HardwareInv, Stages, Handles, Powered, TopologyOpen, Exists, Port,
         RequestsReachHardware
<1> QED BY <1>1, HardwareStands, PTL

-----------------------------------------------------------------------------
(* The DRM mixture                                                         *)

LEMMA MixSucceeds ==
    ASSUME NEW ids, Mix(ids)
    PROVE  /\ OneMixture => OneMixture'
           /\ \E from \in MadeBy(mixDrmContentId)' : from = ids
<1>1. PICK new \in MixedContents :
        /\ mixtures' = {mix \in mixtures : mix.id # mixDrmContentId} \cup {[id |-> new, from |-> ids]}
        /\ mixDrmContentId' = new
  BY DEF Mix
<1>2. PICK made : made = [id |-> new, from |-> ids]
  OBVIOUS
<1>3. made \in mixtures' /\ made.id = mixDrmContentId' /\ made.from = ids
  BY <1>1, <1>2
<1>4. made.from \in MadeBy(mixDrmContentId)'
  BY <1>3 DEF MadeBy
<1>5. ASSUME OneMixture, NEW mix \in mixtures' PROVE mix.id = mixDrmContentId'
  BY <1>1, <1>5 DEF OneMixture
<1> QED BY <1>3, <1>4, <1>5 DEF OneMixture

\* Steps of the device: the table stays, or it is that of a new miniport.
LEMMA DeviceAndDrm ==
    ASSUME AdapterStep
    PROVE  /\ UNCHANGED streamVars
           /\ UNCHANGED <<miniportVars, drmVars>> \/ (systemStreams' = {} /\ mixtures' = {})
  BY DEF AdapterStep, MiniportInit

\* OneMixture: a mixture that succeeds destroys the one before it, and one that fails
\* takes back what it created (CMiniportWaveRT::UpdateDrmRights).
THEOREM MixturesDoNotPileUp == EndpointSpec => []OneMixture
<1>1. DriverInit => OneMixture
  BY DEF DriverInit, OneMixture
<1>2. ASSUME OneMixture, [DriverNext]_allVars PROVE OneMixture'
  <2>1. CASE UNCHANGED drmVars
    BY <1>2, <2>1 DEF drmVars, OneMixture
  <2>2. CASE AdapterStep
    <3>1. CASE mixtures' = {}
      BY <3>1 DEF OneMixture
    <3> QED BY <2>1, <2>2, <3>1, DeviceAndDrm
  <2>3. ASSUME NEW ids, NEW ok \in BOOLEAN, UpdateDrmRights(ids, ok) PROVE OneMixture'
    <3>1. Mix(ids) \/ UNCHANGED <<mixDrmContentId, mixtures>>
      BY <2>3 DEF UpdateDrmRights
    <3> QED BY <1>2, <3>1, MixSucceeds DEF OneMixture
  <2>4. ASSUME NEW s \in Streams, StreamStep(s) PROVE OneMixture'
    <3>1. NewStream(s) \/ InitFailsEarly(s) \/ CloseStream(s) => UNCHANGED drmVars
      BY DEF NewStream, InitFailsEarly, CloseStream
    <3>2. \A ok \in BOOLEAN : InitStream(s, ok) => UNCHANGED drmVars
      BY DEF InitStream
    <3>3. ASSUME NEW ok \in BOOLEAN, DestroyStream(s, ok) PROVE OneMixture'
      BY <2>1, <2>3, <3>3 DEF DestroyStream, StreamClosed
    <3>4. ASSUME NEW ok \in BOOLEAN, NEW c \in Contents, SetContentId(s, c, ok) PROVE OneMixture'
      BY <2>3, <3>4 DEF SetContentId
    <3> QED BY <2>1, <2>4, <3>1, <3>2, <3>3, <3>4 DEF StreamStep
  <2> QED BY <1>2, <2>1, <2>2, <2>4 DEF DriverNext, allVars
<1> QED BY <1>1, <1>2, EndpointImplementsDriver, PTL DEF DriverSpec

Lives == {"none", "made", "open", "released"}

\* A stream gets an id only when it is open, so it enters the table without one.
CoverInv ==
    /\ contentId \in [Streams -> {0} \cup Contents] /\ life \in [Streams -> Lives]
    /\ systemStreams \subseteq Streams
    /\ \A s \in Streams : life[s] \in {"none", "made"} => contentId[s] = 0
    /\ MixtureCoversStreams

LEMMA MixCovers ==
    ASSUME CoverInv, NEW ids, NEW ok \in BOOLEAN, UpdateDrmRights(ids, ok),
           \A t \in systemStreams' : contentId'[t] # 0 => contentId'[t] \in ids,
           ok \/ (systemStreams' \subseteq systemStreams
                    /\ (~refused' => ~refused)
                    /\ \A t \in systemStreams' : contentId'[t] # 0 => contentId'[t] = contentId[t])
    PROVE  MixtureCoversStreams'
<1>1. CASE ok
  <2>1. \E from \in MadeBy(mixDrmContentId)' : from = ids
    BY <1>1, MixSucceeds DEF UpdateDrmRights
  <2> QED BY <2>1 DEF MixtureCoversStreams
<1>2. CASE ~ok
  <2>1. UNCHANGED <<mixDrmContentId, mixtures>>
    BY <1>2 DEF UpdateDrmRights
  <2>2. MadeBy(mixDrmContentId)' = MadeBy(mixDrmContentId)
    BY <2>1 DEF MadeBy
  <2> QED BY <1>2, <2>2 DEF CoverInv, MixtureCoversStreams
<1> QED BY <1>1, <1>2

LEMMA CoverKeeps ==
    ASSUME CoverInv, [DriverNext]_allVars
    PROVE  CoverInv'
<1>1. CASE UNCHANGED allVars
  BY <1>1 DEF allVars, streamVars, miniportVars, drmVars, CoverInv, MixtureCoversStreams, MadeBy
<1>2. CASE AdapterStep
  BY <1>2, DeviceAndDrm
     DEF streamVars, miniportVars, drmVars, CoverInv, MixtureCoversStreams, MadeBy
<1>3. ASSUME NEW s \in Streams, NewStream(s) \/ InitFailsEarly(s) \/ CloseStream(s)
      PROVE  CoverInv'
  <2>1. UNCHANGED <<contentId, miniportVars, drmVars>>
    BY <1>3 DEF NewStream, InitFailsEarly, CloseStream
  <2>2. MixtureCoversStreams'
    BY <2>1 DEF miniportVars, drmVars, CoverInv, MixtureCoversStreams, MadeBy
  <2>3. life' \in [Streams -> Lives] /\ \A t \in Streams : life'[t] \in {"none", "made"} => contentId[t] = 0
    BY <1>3 DEF NewStream, InitFailsEarly, CloseStream, CoverInv, Lives
  <2> QED BY <2>1, <2>2, <2>3 DEF CoverInv, miniportVars
<1>4. ASSUME NEW s \in Streams, NEW ok \in BOOLEAN, InitStream(s, ok)
      PROVE  CoverInv'
  <2>1. /\ UNCHANGED <<contentId, drmVars>> /\ contentId[s] = 0
        /\ systemStreams' \subseteq systemStreams \cup {s}
    BY <1>4 DEF InitStream, StreamCreated, miniportVars, CoverInv
  <2>2. MixtureCoversStreams'
    BY <2>1 DEF drmVars, CoverInv, MixtureCoversStreams, MadeBy
  <2>3. life' \in [Streams -> Lives] /\ \A t \in Streams : life'[t] \in {"none", "made"} => contentId[t] = 0
    BY <1>4 DEF InitStream, CoverInv, Lives
  <2> QED BY <1>4, <2>1, <2>2, <2>3 DEF CoverInv
<1>5. ASSUME NEW s \in Streams, NEW ok \in BOOLEAN, NEW c \in Contents, SetContentId(s, c, ok)
      PROVE  CoverInv'
  <2>1. PICK ids : ids = {contentId'[t] : t \in systemStreams}
    OBVIOUS
  <2>2. /\ UpdateDrmRights(ids, ok) /\ life[s] = "open"
        /\ contentId' = [contentId EXCEPT ![s] = c]
        /\ UNCHANGED <<life, systemAllocated, systemStreams>>
        /\ refused' = ~ok
    BY <1>5, <2>1 DEF SetContentId, miniportVars
  <2>3. ok \/ ~(~refused')
    BY <2>2, Zenon
  <2>4. MixtureCoversStreams'
    <3>1. CASE ok
      <4>1. \A t \in systemStreams' : contentId'[t] # 0 => contentId'[t] \in ids
        BY <2>1, <2>2
      <4> QED BY <2>2, <3>1, <4>1, MixCovers
    <3>2. CASE ~ok
      BY <2>3, <3>2, Zenon DEF MixtureCoversStreams
    <3> QED BY <3>1, <3>2
  <2>5. /\ contentId' \in [Streams -> {0} \cup Contents]
        /\ \A t \in Streams : life[t] \in {"none", "made"} => contentId'[t] = 0
    BY <2>2 DEF CoverInv
  <2> QED BY <2>2, <2>4, <2>5 DEF CoverInv
<1>6. ASSUME NEW s \in Streams, NEW ok \in BOOLEAN, DestroyStream(s, ok)
      PROVE  CoverInv'
  <2>1. /\ contentId' = [contentId EXCEPT ![s] = 0] /\ life' = [life EXCEPT ![s] = "none"]
        /\ \A t \in Streams : contentId'[t] # 0 => contentId'[t] = contentId[t]
    BY <1>6 DEF DestroyStream, CoverInv
  <2>2. /\ contentId' \in [Streams -> {0} \cup Contents] /\ life' \in [Streams -> Lives]
        /\ \A t \in Streams : life'[t] \in {"none", "made"} => contentId'[t] = 0
    BY <2>1 DEF CoverInv, Lives
  <2>3. CASE UNCHANGED <<miniportVars, drmVars>>
    <3>1. \A t : contentId'[t] # 0 /\ t \in Streams => contentId'[t] = contentId[t]
      BY <2>1
    <3>2. MixtureCoversStreams'
      BY <2>1, <2>3 DEF miniportVars, drmVars, CoverInv, MixtureCoversStreams, MadeBy
    <3> QED BY <2>2, <2>3, <3>2 DEF CoverInv, miniportVars
  <2>4. CASE StreamClosed(s, ok)
    <3>1. PICK ids : ids = {contentId[t] : t \in systemStreams'}
      OBVIOUS
    <3>2. /\ UpdateDrmRights(ids, ok) /\ systemStreams' = systemStreams \ {s}
          /\ refused' = (refused /\ ~ok)
      BY <2>4, <3>1 DEF StreamClosed
    <3>3. ok \/ (~refused' => ~refused)
      BY <3>2, Zenon
    <3>4. \A t \in systemStreams' : contentId'[t] # 0 => contentId'[t] = contentId[t]
      BY <2>1, <3>2
    <3>5. MixtureCoversStreams'
      BY <3>1, <3>2, <3>3, <3>4, MixCovers
    <3> QED BY <2>2, <3>2, <3>5 DEF CoverInv
  <2> QED BY <1>6, <2>3, <2>4, Zenon DEF DestroyStream
<1> QED
  <2>1. \A s \in Streams : StreamStep(s) => CoverInv'
    BY <1>3, <1>4, <1>5, <1>6, Zenon DEF StreamStep
  <2> QED BY <1>1, <1>2, <2>1 DEF DriverNext

\* MixtureCoversStreams: every open stream with an id is part of the mixture, unless the
\* last SetContentId was refused.
THEOREM ContentIsCovered == EndpointSpec => []MixtureCoversStreams
<1>1. DriverInit => CoverInv
  BY DEF DriverInit, CoverInv, MixtureCoversStreams, Lives
<1>2. CoverInv /\ [DriverNext]_allVars => CoverInv'
  BY CoverKeeps
<1>3. CoverInv => MixtureCoversStreams
  BY DEF CoverInv
<1> QED BY <1>1, <1>2, <1>3, EndpointImplementsDriver, PTL DEF DriverSpec

-----------------------------------------------------------------------------
(* Pins and streams                                                        *)

\* The counts of the miniport.
TableInv ==
    /\ systemStreams \subseteq Streams /\ IsFiniteSet(systemStreams)
    /\ systemAllocated = Cardinality(systemStreams)
    /\ systemAllocated <= MaxSystemStreams

\* A stream is in the table from the end of its Init to its destructor, which takes it
\* out if and only if it is in; and PortCls makes one stream at a time, with a pin free.
StreamInv ==
    /\ life \in [Streams -> Lives] /\ unregister \in [Streams -> BOOLEAN]
    /\ \A s \in Streams : unregister[s] <=> s \in systemStreams
    /\ \A s \in systemStreams : life[s] \in {"open", "released"}
    /\ \A s \in Streams : life[s] = "made" => systemAllocated < MaxSystemStreams
    /\ \A s, t \in Streams : life[s] = "made" /\ life[t] = "made" => s = t

\* Every stream has a handle, and those in the table hold their miniport.
HeldInv ==
    /\ \A s \in Streams : life[s] # "none" => "client" \in refs["wavePort"]
    /\ \A s \in systemStreams : s \in refs["waveMini"]

PinsInv == TableInv /\ StreamInv /\ HeldInv

LEMMA CountIsNat == ASSUME TableInv PROVE systemAllocated \in Nat
  BY FS_CardinalityType DEF TableInv

\* What the adapter's steps leave of the handles and of what streams hold, while there are
\* streams.
LEMMA DeviceKeepsStreams ==
    ASSUME AdapterInv, AdapterStep, "client" \in refs["wavePort"],
           NEW s \in Streams, life[s] # "none"
    PROVE  /\ "client" \in refs'["wavePort"]
           /\ \A t \in Streams : t \in refs["waveMini"] => t \in refs'["waveMini"]
<1>0. /\ "wavePort" \in Port /\ "wavePort" \in Object /\ "waveMini" \in Object
      /\ "adapter" \in Object
      /\ refs \in References /\ Less(refs)
      /\ \A h \in Streams \cup {"client", "power", "unknown"} : h \in Everybody /\ h \notin Frees
      /\ \A t \in Streams : t \notin {"cache", "extension", "registered", "power", "client"}
  BY Outsiders, DriverAssumption DEF Port, Object, AdapterInv, OneAdapter, Less, Holder
<1>1. pc \in {"started", "surprised"} /\ irp \in Requests
  BY <1>0 DEF AdapterInv, Handles
<1>2. ASSUME NEW r \in References, Adopt(r), r["adapter"] \subseteq refs["adapter"],
             "client" \in r["wavePort"],
             \A t \in Streams : t \in refs["waveMini"] => t \in r["waveMini"]
      PROVE  /\ "client" \in refs'["wavePort"]
             /\ \A t \in Streams : t \in refs["waveMini"] => t \in refs'["waveMini"]
  <2>1. \A o \in Object : r[o] \ Frees \subseteq refs'[o]
    BY <1>2, AdoptKeeps DEF AdapterInv
  <2> QED BY <1>0, <1>2, <2>1
<1>3. ASSUME NEW r, Less(r), NEW os, NEW hs, hs \cap ({"client"} \cup Streams) = {}
      PROVE  /\ Less(Drop(r, os, hs))
             /\ \A o \in Object : r[o] \cap ({"client"} \cup Streams) \subseteq Drop(r, os, hs)[o]
  <2>1. Less(Drop(r, os, hs))
    BY <1>3, DropLess
  <2>2. \A o \in Object : r[o] \cap ({"client"} \cup Streams) \subseteq Drop(r, os, hs)[o]
    BY <1>3 DEF Drop
  <2> QED BY <2>1, <2>2
<1>4. ASSUME NEW q \in Requests, PnpHandler(q)
      PROVE  /\ "client" \in refs'["wavePort"]
             /\ \A t \in Streams : t \in refs["waveMini"] => t \in refs'["waveMini"]
  <2>1. CASE UNCHANGED refs
    BY <2>1
  <2>2. CASE Adopt(Drop(Cleanup(refs), {"adapter"}, {"extension"}))
    <3>1. PICK hs : hs = {"cache"} /\ hs \cap ({"client"} \cup Streams) = {}
      BY <1>0
    <3>2. PICK clean : clean = Cleanup(refs)
      OBVIOUS
    <3>3. Less(clean) /\ \A o \in Object : refs[o] \cap ({"client"} \cup Streams) \subseteq clean[o]
      BY <1>0, <1>3, <3>1, <3>2 DEF Cleanup
    <3>4. PICK xs : xs = {"extension"} /\ xs \cap ({"client"} \cup Streams) = {}
      BY <1>0
    <3>5. PICK less : less = Drop(clean, {"adapter"}, {"extension"})
      OBVIOUS
    <3>6. Less(less) /\ \A o \in Object : clean[o] \cap ({"client"} \cup Streams) \subseteq less[o]
      BY <1>3, <3>3, <3>4, <3>5
    <3> QED BY <1>0, <1>2, <2>2, <3>2, <3>3, <3>5, <3>6 DEF Less
  <2> QED BY <1>4, <2>1, <2>2 DEF PnpHandler
<1>5. ASSUME PcDispatchIrp
      PROVE  /\ "client" \in refs'["wavePort"]
             /\ \A t \in Streams : t \in refs["waveMini"] => t \in refs'["waveMini"]
  <2>1. PICK hs : /\ hs = {"registered"} \cup (IF irp = "surprise" THEN {} ELSE {"power"})
                  /\ hs \cap ({"client"} \cup Streams) = {}
    BY <1>0
  <2>2. PICK less : less = Drop(refs, Object, hs) /\ Adopt(less)
    BY <1>5, <2>1 DEF PcDispatchIrp
  <2>3. Less(less) /\ \A o \in Object : refs[o] \cap ({"client"} \cup Streams) \subseteq less[o]
    BY <1>0, <1>3, <2>1, <2>2
  <2> QED BY <1>0, <1>2, <2>2, <2>3 DEF Less
<1>6. ASSUME NEW p \in Port, Open(p)
      PROVE  /\ "client" \in refs'["wavePort"]
             /\ \A t \in Streams : t \in refs["waveMini"] => t \in refs'["waveMini"]
  BY <1>0, <1>6 DEF Open, Add
<1>7. ASSUME NEW p \in Port, CloseUnused(p)
      PROVE  /\ "client" \in refs'["wavePort"]
             /\ \A t \in Streams : t \in refs["waveMini"] => t \in refs'["waveMini"]
  <2>1. PICK os : os = {p} /\ "wavePort" \notin os /\ "waveMini" \notin os
    BY <1>0, <1>7 DEF CloseUnused, Port
  <2>2. PICK less : less = Drop(refs, os, {"client"}) /\ Adopt(less)
    BY <1>7, <2>1 DEF CloseUnused, Close
  <2>3. Less(less)
    BY <1>0, <2>2, DropLess
  <2>4. less["wavePort"] = refs["wavePort"] /\ less["waveMini"] = refs["waveMini"]
    BY <1>0, <2>1, <2>2 DEF Drop
  <2> QED BY <1>0, <1>2, <2>2, <2>3, <2>4 DEF Less
<1>8. ~StartDevice
  BY <1>1 DEF StartDevice, NewAdapterCommon, InitAdapter, RegisterPower, InstallTopology, InstallWave,
              ConnectTopologies, FinishInstall, WaveInterfaces, StartExit
<1> QED BY <1>4, <1>5, <1>6, <1>7, <1>8, Zenon DEF AdapterStep

LEMMA PinsKeptByDevice ==
    ASSUME AdapterInv, PinsInv, AdapterStep
    PROVE  PinsInv'
<1>1. UNCHANGED <<life, unregister>>
  BY DEF AdapterStep, streamVars
<1>2. UNCHANGED <<systemAllocated, systemStreams>> \/ (systemStreams = {} /\ systemStreams' = {} /\ systemAllocated' = 0)
  <2>1. CASE "wavePort" \in refs'["waveMini"] /\ ~Exists("waveMini")
    BY <2>1 DEF AdapterStep, MiniportInit, Exists, PinsInv, HeldInv
  <2>2. CASE ~("wavePort" \in refs'["waveMini"] /\ ~Exists("waveMini"))
    BY <2>2 DEF AdapterStep, MiniportInit, miniportVars
  <2> QED BY <2>1, <2>2
<1>3. TableInv'
  BY <1>2, FS_EmptySet, DriverAssumption DEF PinsInv, TableInv
<1>4. StreamInv'
  BY <1>1, <1>2, DriverAssumption DEF PinsInv, StreamInv
<1>5. HeldInv'
  <2>1. CASE \A s \in Streams : life[s] = "none"
    <3>1. systemStreams' = {}
      BY <1>2, <2>1 DEF PinsInv, StreamInv, TableInv
    <3> QED BY <1>1, <2>1, <3>1 DEF HeldInv
  <2>2. ASSUME NEW s \in Streams, life[s] # "none" PROVE HeldInv'
    <3>1. /\ "client" \in refs'["wavePort"]
          /\ \A t \in Streams : t \in refs["waveMini"] => t \in refs'["waveMini"]
      BY <2>2, DeviceKeepsStreams DEF PinsInv, HeldInv
    <3> QED BY <1>1, <1>2, <3>1 DEF PinsInv, HeldInv, TableInv
  <2> QED BY <2>1, <2>2
<1> QED BY <1>3, <1>4, <1>5 DEF PinsInv

LEMMA PinsKeptByStream ==
    ASSUME AdapterInv, PinsInv, NEW s \in Streams, StreamStep(s)
    PROVE  PinsInv'
<1>0. /\ "wavePort" \in Object /\ "waveMini" \in Object /\ refs \in References /\ Less(refs)
      /\ s \in Everybody /\ systemAllocated \in Nat
      /\ \A h \in Streams \cup {"client"} : h \notin Frees
  BY CountIsNat, Outsiders
     DEF Object, AdapterInv, OneAdapter, Less, Everybody, PinsInv
<1>1. ASSUME NEW next \in Lives, life' = [life EXCEPT ![s] = next],
             life[s] = "none" \/ next = "released", next = "made" \/ next = "released",
             next = "made" => ~Busy /\ systemAllocated < MaxSystemStreams /\ "client" \in refs["wavePort"],
             next = "released" => life[s] # "none",
             UNCHANGED <<refs, unregister, systemAllocated, systemStreams>>
      PROVE  PinsInv'
  <2>1. TableInv'
    BY <1>1 DEF PinsInv, TableInv
  <2>2. next = "made" => s \notin systemStreams /\ \A t \in Streams : life[t] # "made"
    BY <1>1 DEF PinsInv, StreamInv, Busy, Lives
  <2>3. StreamInv'
    BY <1>1, <2>2 DEF PinsInv, StreamInv, TableInv
  <2>4. HeldInv'
    BY <1>1 DEF PinsInv, HeldInv, StreamInv, TableInv
  <2> QED BY <2>1, <2>3, <2>4 DEF PinsInv
<1>2. CASE NewStream(s)
  <2>1. /\ life' = [life EXCEPT ![s] = "made"] /\ "made" \in Lives /\ ~Busy /\ life[s] = "none"
        /\ systemAllocated < MaxSystemStreams /\ "client" \in refs["wavePort"]
        /\ UNCHANGED <<refs, unregister, systemAllocated, systemStreams>>
    BY <1>2 DEF NewStream, ValidateStreamCreate, vars, miniportVars, Lives
  <2> QED BY <1>1, <2>1
<1>3. CASE InitFailsEarly(s) \/ CloseStream(s)
  <2>1. /\ life' = [life EXCEPT ![s] = "released"] /\ "released" \in Lives
        /\ life[s] \in {"made", "open"}
        /\ UNCHANGED <<refs, unregister, systemAllocated, systemStreams>>
    BY <1>3 DEF InitFailsEarly, CloseStream, vars, miniportVars, Lives
  <2> QED BY <1>1, <2>1
<1>4. ASSUME NEW ok \in BOOLEAN, NEW c \in Contents, SetContentId(s, c, ok) PROVE PinsInv'
  BY <1>4 DEF SetContentId, vars, miniportVars, PinsInv, TableInv, StreamInv, HeldInv
<1>5. ASSUME NEW ok \in BOOLEAN, InitStream(s, ok) PROVE PinsInv'
  <2>1. /\ life[s] = "made" /\ life' = [life EXCEPT ![s] = IF ok THEN "open" ELSE "released"]
        /\ unregister' = [unregister EXCEPT ![s] = ok]
        /\ refs' = Add(refs, {"waveMini"}, s)
        /\ s \notin systemStreams /\ systemAllocated < MaxSystemStreams
    BY <1>5 DEF InitStream, Registers, PinsInv, StreamInv
  <2>2. /\ \A o \in {"wavePort", "waveMini"} : refs[o] \subseteq refs'[o]
        /\ s \in refs'["waveMini"]
    BY <1>0, <2>1 DEF Add
  <2>3. \/ ok /\ systemAllocated' = systemAllocated + 1 /\ systemStreams' = systemStreams \cup {s}
        \/ ~ok /\ UNCHANGED <<systemAllocated, systemStreams>>
    BY <1>5, Zenon DEF InitStream, StreamCreated, miniportVars
  <2>4. TableInv'
    <3>1. IsFiniteSet(systemStreams) /\ systemAllocated = Cardinality(systemStreams)
      BY DEF PinsInv, TableInv
    <3>2. /\ IsFiniteSet(systemStreams \cup {s})
          /\ Cardinality(systemStreams \cup {s}) = systemAllocated + 1
      BY <2>1, <3>1, FS_AddElement
    <3>3. systemAllocated + 1 <= MaxSystemStreams
      BY <1>0, <2>1, DriverAssumption
    <3> QED BY <2>3, <3>2, <3>3 DEF PinsInv, TableInv
  <2>5. StreamInv'
    <3>1. \A t \in Streams : life'[t] = "made" => t # s /\ life[t] = "made"
      BY <2>1 DEF PinsInv, StreamInv
    <3>2. \A t \in Streams : life'[t] # "made"
      BY <2>1, <3>1 DEF PinsInv, StreamInv
    <3>3. \A t \in Streams : unregister'[t] <=> t \in systemStreams'
      BY <2>1, <2>3 DEF PinsInv, StreamInv
    <3>4. \A t \in systemStreams' : life'[t] \in {"open", "released"}
      BY <2>1, <2>3 DEF PinsInv, StreamInv, TableInv
    <3> QED BY <2>1, <3>2, <3>3, <3>4 DEF PinsInv, StreamInv, Lives
  <2>6. HeldInv'
    BY <2>1, <2>2, <2>3 DEF PinsInv, HeldInv, StreamInv
  <2> QED BY <2>4, <2>5, <2>6 DEF PinsInv
<1>6. ASSUME NEW ok \in BOOLEAN, DestroyStream(s, ok) PROVE PinsInv'
  <2>1. /\ life[s] = "released" /\ life' = [life EXCEPT ![s] = "none"]
        /\ unregister' = [unregister EXCEPT ![s] = FALSE]
    BY <1>6 DEF DestroyStream
  <2>2. PICK less : less = Drop(refs, {"waveMini"}, {s}) /\ Adopt(less)
    BY <1>6 DEF DestroyStream
  <2>3. Less(less)
    BY <1>0, <2>2, DropLess
  <2>4. /\ less["wavePort"] = refs["wavePort"] /\ less["waveMini"] = refs["waveMini"] \ {s}
    BY <1>0, <2>2 DEF Drop
  <2>5. \A o \in Object : less[o] \ Frees \subseteq refs'[o]
    BY <2>2, <2>3, AdoptKeeps DEF AdapterInv, Less
  <2>6. /\ "client" \in refs["wavePort"] => "client" \in refs'["wavePort"]
        /\ \A t \in Streams \ {s} : t \in refs["waveMini"] => t \in refs'["waveMini"]
    BY <1>0, <2>4, <2>5
  <2>7. \/ /\ s \in systemStreams /\ systemAllocated' = systemAllocated - 1
           /\ systemStreams' = systemStreams \ {s}
        \/ s \notin systemStreams /\ UNCHANGED <<systemAllocated, systemStreams>>
    BY <1>6, Zenon DEF DestroyStream, StreamClosed, miniportVars, PinsInv, StreamInv
  <2>8. TableInv'
    <3>1. IsFiniteSet(systemStreams) /\ systemAllocated = Cardinality(systemStreams)
      BY DEF PinsInv, TableInv
    <3>2. IsFiniteSet(systemStreams \ {s})
          /\ (s \in systemStreams => Cardinality(systemStreams \ {s}) = systemAllocated - 1)
      BY <3>1, FS_RemoveElement
    <3>3. systemAllocated - 1 <= MaxSystemStreams
      BY <1>0, DriverAssumption DEF PinsInv, TableInv
    <3> QED BY <2>7, <3>2, <3>3 DEF PinsInv, TableInv
  <2>9. systemStreams' = systemStreams \ {s} /\ systemAllocated' <= systemAllocated
    BY <1>0, <2>7
  <2>10. StreamInv'
    <3>1. \A t \in Streams : life'[t] = "made" => t # s /\ life[t] = "made"
      BY <2>1 DEF PinsInv, StreamInv
    <3>2. \A t \in Streams : unregister'[t] <=> t \in systemStreams'
      BY <2>1, <2>9 DEF PinsInv, StreamInv
    <3>3. \A t \in systemStreams' : life'[t] \in {"open", "released"}
      BY <2>1, <2>9 DEF PinsInv, StreamInv, TableInv
    <3>4. systemAllocated' \in Int
      BY <1>0, <2>7
    <3>5. \A t \in Streams : life'[t] = "made" => systemAllocated' < MaxSystemStreams
      BY <1>0, <2>9, <3>1, <3>4, DriverAssumption DEF PinsInv, StreamInv
    <3> QED BY <2>1, <3>1, <3>2, <3>3, <3>5 DEF PinsInv, StreamInv, Lives
  <2>11. HeldInv'
    BY <2>1, <2>6, <2>9 DEF PinsInv, HeldInv, StreamInv, TableInv
  <2> QED BY <2>8, <2>10, <2>11 DEF PinsInv
<1> QED BY <1>2, <1>3, <1>4, <1>5, <1>6, Zenon DEF StreamStep

\* What the adapter does to counts, table and handles, and what the streams do.
LEMMA PinsStand == DriverSpec => []PinsInv
<1>1. DriverInit => PinsInv
  <2>1. IsFiniteSet({}) /\ Cardinality({}) = 0
    BY FS_EmptySet
  <2>2. DriverInit => TableInv
    BY <2>1, DriverAssumption DEF DriverInit, TableInv
  <2>3. DriverInit => StreamInv /\ HeldInv
    BY DEF DriverInit, StreamInv, HeldInv, Lives
  <2> QED BY <2>2, <2>3 DEF PinsInv
<1>2. ASSUME AdapterInv, PinsInv, [DriverNext]_allVars PROVE PinsInv'
  <2>1. CASE UNCHANGED allVars
    BY <1>2, <2>1 DEF allVars, vars, streamVars, miniportVars, PinsInv, TableInv, StreamInv, HeldInv
  <2> QED BY <1>2, <2>1, PinsKeptByDevice, PinsKeptByStream DEF DriverNext
<1> QED BY <1>1, <1>2, AdapterStands, PTL DEF DriverSpec

\* PinsMatchStreams: the count and the table of m_SystemStreams agree with the streams
\* there are, whatever failed in NewStream and however the device went away.
THEOREM PinsAreCounted == EndpointSpec => []PinsMatchStreams
<1>1. PinsInv => PinsMatchStreams
  BY DEF PinsInv, TableInv, StreamInv, HeldInv, PinsMatchStreams
<1> QED BY <1>1, PinsStand, EndpointImplementsDriver, PTL

-----------------------------------------------------------------------------
(* Leaks                                                                   *)

\* Who may hold what.
Shape(r) ==
    /\ r \in References
    /\ r["adapter"] \subseteq {"unknown", "extension", "power", "topoMini"}
    /\ r["topoPort"] \subseteq {"local", "registered", "caller", "cache", "client"}
    /\ r["topoMini"] \subseteq {"local", "cache", "topoPort"}
    /\ r["wavePort"] \subseteq {"local", "registered", "caller", "cache", "client", "adapter"}
    /\ r["waveMini"] \subseteq {"local", "cache", "wavePort"} \cup Streams

\* References end with the function whose variables hold them; the cache with the
\* device extension.
Passing ==
    /\ \A o \in Object :
         /\ "local" \in refs[o] => pc \in {"wave", "connect", "finish"}
         /\ "caller" \in refs[o] => pc = "interfaces"
         /\ "cache" \in refs[o] => "extension" \in refs["adapter"]
    /\ "unknown" \in refs["adapter"] => pc \in Starting
    /\ pc \in Starting => "extension" \in refs["adapter"]
    /\ irp # "none" => "extension" \notin refs["adapter"]
    /\ refs["adapter"] = {} => pool = "none"

Absent(p) == refs[p] = {} /\ refs[Mini(p)] = {}
Installed(p) == {"local", "registered"} \subseteq refs[p]

\* What has been installed when, and that it is the whole endpoint or nothing.
Installing ==
    /\ pc \in {"init", "power", "topology"} => Absent("topoPort")
    /\ pc \in {"init", "power", "topology", "wave"} => Absent("wavePort")
    /\ pc \in {"wave", "connect", "finish"} => Absent("topoPort") \/ Installed("topoPort")
    /\ pc \in {"connect", "finish"} => Absent("wavePort") \/ Installed("wavePort")
    /\ pc \in {"connect", "finish"} /\ ntStatus => Installed("wavePort")
    /\ pc \in {"connect", "finish"} => "adapter" \notin refs["wavePort"]
    /\ pc \in {"init", "power", "topology", "wave", "connect"} => ~connected
    /\ pc = "finish" => IF ntStatus THEN (connected <=> Installed("topoPort")) ELSE ~connected
    /\ pc = "interfaces" /\ ntStatus => "caller" \in refs["wavePort"]
    /\ pc \in {"interfaces", "exit"} /\ ntStatus =>
         "registered" \in refs["wavePort"] /\ (connected <=> "registered" \in refs["topoPort"])

StreamsHold == \A s \in Streams : s \in refs["waveMini"] => life[s] # "none"

LeakInv ==
    Shape(refs) /\ Passing /\ Installing /\ StreamsHold /\ NothingLeaks /\ WaveFilterOrNothing

LEMMA FreeIs ==
    ASSUME NEW r \in References, NEW x \in Object
    PROVE  /\ Free(r, x) \in References
           /\ \A o \in Object : Free(r, x)[o] = IF r[x] = {} THEN r[o] \ {x} ELSE r[o]
  BY DEF Free, References

\* The chain of destructors, object by object.
LEMMA SettleIs ==
    ASSUME NEW r, Shape(r)
    PROVE  LET s == Settle(r) IN
           /\ Shape(s)
           /\ s["topoPort"] = r["topoPort"]
           /\ s["topoMini"] = (IF r["topoPort"] = {} THEN r["topoMini"] \ {"topoPort"} ELSE r["topoMini"])
           /\ s["adapter"] = (IF s["topoMini"] = {} THEN r["adapter"] \ {"topoMini"} ELSE r["adapter"])
           /\ s["wavePort"] = (IF s["adapter"] = {} THEN r["wavePort"] \ {"adapter"} ELSE r["wavePort"])
           /\ s["waveMini"] = (IF s["wavePort"] = {} THEN r["waveMini"] \ {"wavePort"} ELSE r["waveMini"])
<1> DEFINE s == Settle(r)
<1>0. Object = {"adapter", "topoPort", "topoMini", "wavePort", "waveMini"} /\ Streams \cap Object = {}
  BY DriverAssumption DEF Object, Holder
<1>1. PICK a \in References : /\ a = Free(r, "topoPort")
        /\ \A o \in Object : a[o] = IF r["topoPort"] = {} THEN r[o] \ {"topoPort"} ELSE r[o]
  BY <1>0, FreeIs DEF Shape
<1>2. PICK b \in References : /\ b = Free(a, "topoMini")
        /\ \A o \in Object : b[o] = IF a["topoMini"] = {} THEN a[o] \ {"topoMini"} ELSE a[o]
  BY <1>0, FreeIs
<1>3. PICK c \in References : /\ c = Free(b, "adapter")
        /\ \A o \in Object : c[o] = IF b["adapter"] = {} THEN b[o] \ {"adapter"} ELSE b[o]
  BY <1>0, FreeIs
<1>4. PICK d \in References : /\ d = Free(c, "wavePort")
        /\ \A o \in Object : d[o] = IF c["wavePort"] = {} THEN c[o] \ {"wavePort"} ELSE c[o]
  BY <1>0, FreeIs
<1>5. s = d
  BY <1>1, <1>2, <1>3, <1>4 DEF Settle
<1>6. /\ a["topoPort"] = r["topoPort"] /\ a["adapter"] = r["adapter"]
      /\ a["wavePort"] = r["wavePort"] /\ a["waveMini"] = r["waveMini"]
      /\ a["topoMini"] = (IF r["topoPort"] = {} THEN r["topoMini"] \ {"topoPort"} ELSE r["topoMini"])
  BY <1>0, <1>1 DEF Shape
<1>7. /\ b["topoPort"] = r["topoPort"] /\ b["topoMini"] = a["topoMini"]
      /\ b["wavePort"] = r["wavePort"] /\ b["waveMini"] = r["waveMini"]
      /\ b["adapter"] = (IF a["topoMini"] = {} THEN r["adapter"] \ {"topoMini"} ELSE r["adapter"])
  BY <1>0, <1>2, <1>6 DEF Shape
<1>8. /\ c["topoPort"] = r["topoPort"] /\ c["topoMini"] = a["topoMini"]
      /\ c["adapter"] = b["adapter"] /\ c["waveMini"] = r["waveMini"]
      /\ c["wavePort"] = (IF b["adapter"] = {} THEN r["wavePort"] \ {"adapter"} ELSE r["wavePort"])
  BY <1>0, <1>3, <1>6, <1>7 DEF Shape
<1>9. /\ d["topoPort"] = r["topoPort"] /\ d["topoMini"] = a["topoMini"]
      /\ d["adapter"] = b["adapter"] /\ d["wavePort"] = c["wavePort"]
      /\ d["waveMini"] = (IF c["wavePort"] = {} THEN r["waveMini"] \ {"wavePort"} ELSE r["waveMini"])
  BY <1>0, <1>4, <1>6, <1>7, <1>8 DEF Shape
<1>10. Shape(d)
  BY <1>6, <1>7, <1>8, <1>9 DEF Shape
<1> QED BY <1>5, <1>6, <1>7, <1>8, <1>9, <1>10

\* A step that gives up references: what its function r leaves, less what is freed.
LEMMA AdoptIs ==
    ASSUME LeakInv, NEW r, Shape(r), Adopt(r)
    PROVE  /\ Shape(refs')
           /\ refs'["topoPort"] = r["topoPort"]
           /\ refs'["topoMini"] = (IF r["topoPort"] = {} THEN r["topoMini"] \ {"topoPort"} ELSE r["topoMini"])
           /\ refs'["adapter"] = (IF refs'["topoMini"] = {} THEN r["adapter"] \ {"topoMini"} ELSE r["adapter"])
           /\ refs'["wavePort"] = (IF refs'["adapter"] = {} THEN r["wavePort"] \ {"adapter"} ELSE r["wavePort"])
           /\ refs'["waveMini"] = (IF refs'["wavePort"] = {} THEN r["waveMini"] \ {"wavePort"} ELSE r["waveMini"])
           /\ \A o \in Object : refs'[o] \subseteq r[o]
           /\ refs'["adapter"] = {} => pool' = "none"
<1>1. refs' = Settle(r)
  BY DEF Adopt
<1>2. refs'["adapter"] = {} => pool' = "none"
  BY <1>1 DEF Adopt, Exists, LeakInv, Passing
<1>3. \A o \in Object : refs'[o] \subseteq r[o]
  BY <1>1, SettleKeeps DEF Shape
<1> QED BY <1>1, <1>2, <1>3, SettleIs

LEMMA Objects ==
    /\ Object = {"adapter", "topoPort", "topoMini", "wavePort", "waveMini"}
    /\ Port = {"topoPort", "wavePort"}
    /\ Mini("topoPort") = "topoMini" /\ Mini("wavePort") = "waveMini"
    /\ Holder \subseteq Everybody /\ Streams \subseteq Everybody
    /\ Streams \cap Holder = {} /\ Object \subseteq Holder
    /\ {"unknown", "local", "caller", "cache", "extension", "registered", "power", "client"}
         \subseteq Holder
  BY DriverAssumption DEF Object, Port, Mini, Everybody, Holder

LEMMA FirstStepsClean ==
    ASSUME AdapterInv, LeakInv, UNCHANGED life,
           NewAdapterCommon \/ InitAdapter \/ RegisterPower \/ ConnectTopologies
    PROVE  LeakInv'
<1> USE DEF Starting
<1>1. ASSUME NewAdapterCommon PROVE LeakInv'
  <2>1. /\ pc = "removed" /\ UNCHANGED <<irp, connected, pool>> /\ irp = "none"
        /\ \A o \in Object : refs[o] = {}
        /\ ~connected /\ pool = "none"
    BY <1>1 DEF NewAdapterCommon, LeakInv, NothingLeaks, Exists, AdapterInv, Handles
  <2>2. CASE UNCHANGED refs /\ pc' = "failed"
    BY <2>1, <2>2, Objects DEF LeakInv, Shape, Passing, Installing, StreamsHold, NothingLeaks,
                               WaveFilterOrNothing, Absent, Installed, Exists
  <2>3. CASE refs' = [refs EXCEPT !["adapter"] = {"unknown", "extension"}] /\ pc' = "init"
    <3>1. /\ refs' \in References /\ refs'["adapter"] = {"unknown", "extension"}
          /\ \A o \in Object \ {"adapter"} : refs'[o] = {}
      <4>1. {"unknown", "extension"} \in SUBSET Everybody /\ "adapter" \in Object
        BY Objects
      <4> QED BY <2>1, <2>3, <4>1 DEF LeakInv, Shape, References
    <3>2. /\ refs'["topoPort"] = {} /\ refs'["topoMini"] = {}
          /\ refs'["wavePort"] = {} /\ refs'["waveMini"] = {}
      BY <3>1, Objects
    <3>3. Shape(refs)'
      BY <3>1, <3>2 DEF Shape
    <3>4. Passing'
      BY <2>1, <2>3, <3>1, <3>2, Objects DEF Passing
    <3>5. Installing'
      BY <2>1, <2>3, <3>1, <3>2, Objects DEF Installing, Absent
    <3> QED BY <2>1, <2>3, <3>2, <3>3, <3>4, <3>5 DEF LeakInv, StreamsHold, NothingLeaks, WaveFilterOrNothing
  <2> QED BY <1>1, <2>2, <2>3 DEF NewAdapterCommon
<1>2. ASSUME InitAdapter PROVE LeakInv'
  <2>1. /\ pc = "init" /\ UNCHANGED <<irp, refs, connected>>
        /\ pc' = (IF ntStatus' THEN "power" ELSE "exit")
    BY <1>2, Zenon DEF InitAdapter
  <2>2. (pc' = "power" /\ ntStatus') \/ (pc' = "exit" /\ ~ntStatus')
    <3>1. ntStatus' => pc' = "power"
      BY <2>1
    <3>2. ~ntStatus' => pc' = "exit"
      BY <2>1
    <3> QED BY <3>1, <3>2, Zenon
  <2>3. Passing'
    BY <2>1, <2>2 DEF LeakInv, Passing, AdapterInv, Stages
  <2>4. Installing'
    <3>1. CASE pc' = "power"
      BY <2>1, <3>1 DEF LeakInv, Installing, Absent
    <3>2. CASE pc' = "exit" /\ ~ntStatus'
      BY <2>1, <3>2 DEF Installing
    <3> QED BY <2>2, <3>1, <3>2
  <2> QED BY <2>1, <2>2, <2>3, <2>4 DEF LeakInv, Shape, StreamsHold, NothingLeaks, WaveFilterOrNothing
<1>3. ASSUME RegisterPower PROVE LeakInv'
  <2>1. pc = "power" /\ UNCHANGED <<irp, connected, pool>>
    BY <1>3 DEF RegisterPower
  <2>2. CASE ~ntStatus' /\ pc' = "exit" /\ UNCHANGED refs
    <3>1. Installing'
      BY <2>2 DEF Installing
    <3> QED BY <2>1, <2>2, <3>1 DEF LeakInv, Shape, Passing, StreamsHold, NothingLeaks, WaveFilterOrNothing
  <2>3. CASE refs' = Add(refs, {"adapter"}, "power") /\ pc' = "topology"
    <3>1. /\ refs' \in References /\ refs'["adapter"] = refs["adapter"] \cup {"power"}
          /\ refs'["topoPort"] = refs["topoPort"] /\ refs'["topoMini"] = refs["topoMini"]
          /\ refs'["wavePort"] = refs["wavePort"] /\ refs'["waveMini"] = refs["waveMini"]
      <4>1. refs \in References /\ "power" \in Everybody
        BY Objects DEF LeakInv, Shape
      <4>2. refs' \in References
        BY <2>3, <4>1 DEF Add, References
      <4> QED BY <2>3, <4>2, Objects DEF Add
    <3>2. Shape(refs)'
      BY <3>1 DEF LeakInv, Shape
    <3>3. Passing'
      BY <2>1, <2>3, <3>1, Objects DEF LeakInv, Passing
    <3>4. Installing'
      BY <2>1, <2>3, <3>1, Objects DEF LeakInv, Installing, Absent
    <3> QED BY <2>1, <2>3, <3>1, <3>2, <3>3, <3>4 DEF LeakInv, StreamsHold, NothingLeaks, WaveFilterOrNothing
  <2> QED BY <1>3, <2>2, <2>3 DEF RegisterPower
<1>4. ASSUME ConnectTopologies PROVE LeakInv'
  <2>1. pc = "connect" /\ pc' = "finish" /\ UNCHANGED <<irp, refs, pool>> /\ ~connected
    BY <1>4 DEF ConnectTopologies, LeakInv, Installing
  <2>2. \/ ntStatus' /\ connected' /\ \A p \in Port : "local" \in refs[p]
        \/ ~ntStatus' /\ ~connected'
        \/ ntStatus' = ntStatus /\ connected' = connected /\ ~(\A p \in Port : "local" \in refs[p])
    BY <1>4, Zenon DEF ConnectTopologies
  <2>3. /\ Absent("topoPort") \/ Installed("topoPort")
        /\ Absent("wavePort") \/ Installed("wavePort")
        /\ ntStatus => Installed("wavePort")
        /\ "adapter" \notin refs["wavePort"]
    BY <2>1 DEF LeakInv, Installing
  <2>4. Installing'
    <3>1. CASE ntStatus' /\ connected' /\ \A p \in Port : "local" \in refs[p]
      <4>1. Installed("wavePort") /\ Installed("topoPort")
        BY <2>3, <3>1, Objects DEF Absent
      <4> QED BY <2>1, <2>3, <3>1, <4>1 DEF Installing, Absent, Installed
    <3>2. CASE ~ntStatus' /\ ~connected'
      BY <2>1, <2>3, <3>2 DEF Installing, Absent, Installed
    <3>3. CASE ntStatus' = ntStatus /\ connected' = connected /\ ~(\A p \in Port : "local" \in refs[p])
      BY <2>1, <2>3, <3>3, Objects DEF Installing, Absent, Installed
    <3> QED BY <2>2, <3>1, <3>2, <3>3
  <2> QED BY <2>1, <2>4 DEF LeakInv, Shape, Passing, StreamsHold, NothingLeaks, WaveFilterOrNothing
<1> QED BY <1>1, <1>2, <1>3, <1>4

LEMMA InstallClean ==
    ASSUME AdapterInv, LeakInv, UNCHANGED life, InstallTopology \/ InstallWave
    PROVE  LeakInv'
<1> USE DEF Starting
<1>1. ASSUME InstallTopology PROVE LeakInv'
  <2>1. /\ pc = "topology" /\ pc' = "wave" /\ UNCHANGED <<irp, connected, pool>>
        /\ Install("topoPort", "wave") /\ ~connected
        /\ Absent("topoPort") /\ "extension" \in refs["adapter"] /\ refs \in References
    BY <1>1 DEF InstallTopology, Install, LeakInv, Installing, Passing, Shape
  <2>2. PICK made : made = InstallSubdevice(refs, "topoPort")
    OBVIOUS
  <2>3. PICK cached : cached = CacheSubdevice(made, "topoPort")
    OBVIOUS
  <2>4. \/ refs' = refs /\ ~ntStatus'
        \/ refs' = made /\ ~ntStatus'
        \/ refs' = cached /\ ntStatus'
    BY <2>1, <2>2, <2>3, Zenon DEF Install
  <2>5. /\ made \in References
        /\ made["topoPort"] = {"local", "registered"} /\ made["topoMini"] = {"local", "topoPort"}
        /\ made["adapter"] = refs["adapter"] \cup {"topoMini"}
        /\ made["wavePort"] = refs["wavePort"] /\ made["waveMini"] = refs["waveMini"]
    <3>1. PICK held : held = [refs EXCEPT !["topoPort"] = {"local", "registered"}, !["topoMini"] = {"local", "topoPort"}]
      OBVIOUS
    <3>2. /\ held \in References
          /\ held["topoPort"] = {"local", "registered"} /\ held["topoMini"] = {"local", "topoPort"}
          /\ held["adapter"] = refs["adapter"]
          /\ held["wavePort"] = refs["wavePort"] /\ held["waveMini"] = refs["waveMini"]
      <4>1. {"local", "registered"} \in SUBSET Everybody /\ {"local", "topoPort"} \in SUBSET Everybody
        BY Objects
      <4> QED BY <2>1, <3>1, <4>1, Objects DEF References
    <3>3. made = Add(held, {"adapter"}, "topoMini") /\ "topoMini" \in Everybody
      BY <2>2, <3>1, Objects DEF InstallSubdevice
    <3>4. made \in References /\ \A o \in Object : made[o] = IF o \in {"adapter"} THEN held[o] \cup {"topoMini"} ELSE held[o]
      BY <3>2, <3>3 DEF Add, References
    <3> QED BY <3>2, <3>4, Objects
  <2>6. /\ cached \in References
        /\ cached["topoPort"] = made["topoPort"] \cup {"cache"} /\ cached["topoMini"] = made["topoMini"] \cup {"cache"}
        /\ cached["adapter"] = made["adapter"]
        /\ cached["wavePort"] = made["wavePort"] /\ cached["waveMini"] = made["waveMini"]
    <3>1. "cache" \in Everybody /\ Mini("topoPort") = "topoMini"
      BY Objects
    <3>2. cached \in References /\ \A o \in Object :
              cached[o] = IF o \in {"topoPort", "topoMini"} THEN made[o] \cup {"cache"} ELSE made[o]
      BY <2>3, <2>5, <3>1 DEF CacheSubdevice, Add, References
    <3> QED BY <3>2, Objects
  <2>7. ASSUME NEW r \in {made, cached}, refs' = r PROVE LeakInv'
    <3>1. Shape(refs)'
      BY <2>5, <2>6, <2>7 DEF LeakInv, Shape
    <3>2. Passing'
      BY <2>1, <2>5, <2>6, <2>7, Objects DEF LeakInv, Passing
    <3>3. StreamsHold'
      BY <2>5, <2>6, <2>7, Objects DEF LeakInv, StreamsHold
    <3>4. Installing'
      BY <2>1, <2>5, <2>6, <2>7, Objects DEF LeakInv, Installing, Absent, Installed
    <3> QED BY <2>1, <3>1, <3>2, <3>3, <3>4 DEF LeakInv, NothingLeaks, WaveFilterOrNothing
  <2>8. CASE refs' = refs /\ ~ntStatus'
    <3>1. Installing'
      BY <2>1, <2>8, Objects DEF LeakInv, Installing, Absent, Installed
    <3>2. Passing'
      BY <2>1, <2>8 DEF LeakInv, Passing
    <3> QED BY <2>1, <2>8, <3>1, <3>2 DEF LeakInv, Shape, StreamsHold, NothingLeaks, WaveFilterOrNothing
  <2> QED BY <2>4, <2>7, <2>8
<1>2. ASSUME InstallWave PROVE LeakInv'
  <2>1. /\ pc = "wave" /\ pc' = "connect" /\ UNCHANGED <<irp, connected, pool>>
        /\ Install("wavePort", "connect") /\ ~connected
        /\ Absent("wavePort") /\ "extension" \in refs["adapter"] /\ refs \in References
    BY <1>2 DEF InstallWave, Install, LeakInv, Installing, Passing, Shape
  <2>2. PICK made : made = InstallSubdevice(refs, "wavePort")
    OBVIOUS
  <2>3. PICK cached : cached = CacheSubdevice(made, "wavePort")
    OBVIOUS
  <2>4. \/ refs' = refs /\ ~ntStatus'
        \/ refs' = made /\ ~ntStatus'
        \/ refs' = cached /\ ntStatus'
    BY <2>1, <2>2, <2>3, Zenon DEF Install
  <2>5. /\ made \in References
        /\ made["wavePort"] = {"local", "registered"} /\ made["waveMini"] = {"local", "wavePort"}
        /\ made["adapter"] = refs["adapter"]
        /\ made["topoPort"] = refs["topoPort"] /\ made["topoMini"] = refs["topoMini"]
    <3>1. PICK held : held = [refs EXCEPT !["wavePort"] = {"local", "registered"}, !["waveMini"] = {"local", "wavePort"}]
      OBVIOUS
    <3>2. /\ held \in References
          /\ held["wavePort"] = {"local", "registered"} /\ held["waveMini"] = {"local", "wavePort"}
          /\ held["adapter"] = refs["adapter"]
          /\ held["topoPort"] = refs["topoPort"] /\ held["topoMini"] = refs["topoMini"]
      <4>1. {"local", "registered"} \in SUBSET Everybody /\ {"local", "wavePort"} \in SUBSET Everybody
        BY Objects
      <4> QED BY <2>1, <3>1, <4>1, Objects DEF References
    <3>3. made = held
      BY <2>2, <3>1, Objects DEF InstallSubdevice
    <3> QED BY <3>2, <3>3
  <2>6. /\ cached \in References
        /\ cached["wavePort"] = made["wavePort"] \cup {"cache"} /\ cached["waveMini"] = made["waveMini"] \cup {"cache"}
        /\ cached["adapter"] = made["adapter"]
        /\ cached["topoPort"] = made["topoPort"] /\ cached["topoMini"] = made["topoMini"]
    <3>1. "cache" \in Everybody /\ Mini("wavePort") = "waveMini"
      BY Objects
    <3>2. cached \in References /\ \A o \in Object :
              cached[o] = IF o \in {"wavePort", "waveMini"} THEN made[o] \cup {"cache"} ELSE made[o]
      BY <2>3, <2>5, <3>1 DEF CacheSubdevice, Add, References
    <3> QED BY <3>2, Objects
  <2>7. ASSUME NEW r \in {made, cached}, refs' = r PROVE LeakInv'
    <3>1. Shape(refs)'
      BY <2>5, <2>6, <2>7 DEF LeakInv, Shape
    <3>2. Passing'
      BY <2>1, <2>5, <2>6, <2>7, Objects DEF LeakInv, Passing
    <3>3. StreamsHold'
      BY <2>5, <2>6, <2>7, Objects DEF LeakInv, StreamsHold
    <3>4. Installing'
      BY <2>1, <2>5, <2>6, <2>7, Objects DEF LeakInv, Installing, Absent, Installed
    <3> QED BY <2>1, <3>1, <3>2, <3>3, <3>4 DEF LeakInv, NothingLeaks, WaveFilterOrNothing
  <2>8. CASE refs' = refs /\ ~ntStatus'
    <3>1. Installing'
      BY <2>1, <2>8, Objects DEF LeakInv, Installing, Absent, Installed
    <3>2. Passing'
      BY <2>1, <2>8 DEF LeakInv, Passing
    <3> QED BY <2>1, <2>8, <3>1, <3>2 DEF LeakInv, Shape, StreamsHold, NothingLeaks, WaveFilterOrNothing
  <2> QED BY <2>4, <2>7, <2>8
<1> QED BY <1>1, <1>2

LEMMA AddIs ==
    ASSUME NEW r, Shape(r), NEW os, os \subseteq Port,
           NEW h, h \in {"caller", "client"}
    PROVE  /\ Shape(Add(r, os, h))
           /\ \A o \in Object : Add(r, os, h)[o] = IF o \in os THEN r[o] \cup {h} ELSE r[o]
<1>1. h \in Everybody
  BY Objects
<1>2. PICK more : more = Add(r, os, h)
  OBVIOUS
<1>3. more \in References /\ \A o \in Object : more[o] = IF o \in os THEN r[o] \cup {h} ELSE r[o]
  BY <1>1, <1>2, AddType DEF Shape
<1>4. Shape(more)
  BY <1>3, Objects DEF Shape
<1> QED BY <1>2, <1>3, <1>4

LEMMA DropIs ==
    ASSUME NEW r, Shape(r), NEW os, NEW hs
    PROVE  /\ Shape(Drop(r, os, hs))
           /\ \A o \in Object : Drop(r, os, hs)[o] = IF o \in os THEN r[o] \ hs ELSE r[o]
<1>1. PICK less : less = Drop(r, os, hs)
  OBVIOUS
<1>2. less \in References /\ \A o \in Object : less[o] = IF o \in os THEN r[o] \ hs ELSE r[o]
  <2>1. r \in References
    BY DEF Shape
  <2> QED BY ONLY <1>1, <2>1, DropType
<1>3. Shape(less)
  BY <1>2, Objects DEF Shape
<1> QED BY <1>1, <1>2, <1>3

LEMMA FinishClean ==
    ASSUME AdapterInv, HeldInv, LeakInv, UNCHANGED life, FinishInstall
    PROVE  LeakInv'
<1> USE DEF Starting
<1>1. /\ pc = "finish" /\ pc' = "interfaces" /\ UNCHANGED <<irp, connected, ntStatus>>
      /\ Shape(refs) /\ irp = "none"
      /\ {"unknown", "extension"} \subseteq refs["adapter"]
      /\ \A o \in Object : "caller" \notin refs[o]
      /\ \A p \in Port : "client" \notin refs[p]
      /\ Absent("topoPort") \/ Installed("topoPort")
      /\ Absent("wavePort") \/ Installed("wavePort")
      /\ "adapter" \notin refs["wavePort"]
  BY DEF FinishInstall, AdapterInv, Stages, Handles, LeakInv, Passing, Installing
<1>2. CASE ntStatus
  <2>1. PICK os : os = Created /\ os \subseteq Port
    BY DEF Created
  <2>2. PICK more : more = Add(refs, os, "caller")
    OBVIOUS
  <2>3. Shape(more) /\ \A o \in Object : more[o] = IF o \in os THEN refs[o] \cup {"caller"} ELSE refs[o]
    <3>1. "caller" \in {"caller", "client"} /\ Shape(refs)
      BY <1>1
    <3>2. /\ Shape(Add(refs, os, "caller"))
          /\ \A o \in Object : Add(refs, os, "caller")[o] = IF o \in os THEN refs[o] \cup {"caller"} ELSE refs[o]
      BY ONLY <2>1, <3>1, AddIs
    <3> QED BY ONLY <2>2, <3>2
  <2>4. PICK less : less = Drop(more, Object, {"local"})
    OBVIOUS
  <2>5. Shape(less) /\ \A o \in Object : less[o] = more[o] \ {"local"}
    <3>1. PICK all : all = Object
      OBVIOUS
    <3>2. /\ Shape(Drop(more, all, {"local"}))
          /\ \A o \in Object : Drop(more, all, {"local"})[o] = IF o \in all THEN more[o] \ {"local"} ELSE more[o]
      BY ONLY <2>3, DropIs
    <3> QED BY ONLY <2>4, <3>1, <3>2
  <2>6. Adopt(less)
    BY <1>2, <2>1, <2>2, <2>4 DEF FinishInstall
  <2>7. /\ \A o \in Object : refs'[o] \subseteq less[o]
        /\ refs'["topoPort"] = less["topoPort"]
        /\ {"unknown", "extension"} \subseteq refs'["adapter"]
        /\ refs'["wavePort"] = less["wavePort"]
        /\ Shape(refs)'
    <3>1. /\ Shape(refs')
          /\ refs'["topoPort"] = less["topoPort"]
          /\ refs'["topoMini"] = (IF less["topoPort"] = {} THEN less["topoMini"] \ {"topoPort"} ELSE less["topoMini"])
          /\ refs'["adapter"] = (IF refs'["topoMini"] = {} THEN less["adapter"] \ {"topoMini"} ELSE less["adapter"])
          /\ refs'["wavePort"] = (IF refs'["adapter"] = {} THEN less["wavePort"] \ {"adapter"} ELSE less["wavePort"])
          /\ refs'["waveMini"] = (IF refs'["wavePort"] = {} THEN less["waveMini"] \ {"wavePort"} ELSE less["waveMini"])
      BY ONLY <2>5, <2>6, LeakInv, AdoptIs
    <3>2. {"unknown", "extension"} \subseteq less["adapter"]
      BY <1>1, <2>3, <2>5, Objects
    <3>3. {"unknown", "extension"} \subseteq refs'["adapter"]
      BY ONLY <3>1, <3>2
    <3>4. refs'["adapter"] # {}
      BY ONLY <3>3
    <3>5. refs'["wavePort"] = less["wavePort"]
      BY ONLY <3>1, <3>4
    <3>6. \A o \in Object : refs'[o] \subseteq less[o]
      BY <2>5, <2>6, AdoptIs
    <3> QED BY ONLY <3>1, <3>3, <3>5, <3>6
  <2>8. Passing'
    BY <1>1, <2>3, <2>5, <2>7, Objects DEF LeakInv, Passing
  <2>9. Installing'
    <3>1. Installed("wavePort") /\ "wavePort" \in os
      BY <1>1, <1>2, <2>1, Objects DEF LeakInv, Installing, Created, Installed
    <3>2. "caller" \in refs'["wavePort"] /\ "registered" \in refs'["wavePort"]
      BY <2>3, <2>5, <2>7, <3>1, Objects DEF Installed
    <3>3. connected' <=> "registered" \in refs'["topoPort"]
      <4>1. connected <=> Installed("topoPort")
        BY <1>1, <1>2 DEF LeakInv, Installing
      <4>2. "registered" \in refs'["topoPort"] <=> "registered" \in refs["topoPort"]
        BY <2>3, <2>5, <2>7, Objects
      <4>3. Installed("topoPort") <=> "registered" \in refs["topoPort"]
        BY <1>1 DEF Absent, Installed
      <4> QED BY <1>1, <4>1, <4>2, <4>3
    <3> QED BY <1>1, <3>2, <3>3 DEF Installing
  <2>10. StreamsHold'
    BY <2>1, <2>3, <2>5, <2>7, Objects DEF LeakInv, StreamsHold
  <2> QED BY <1>1, <1>2, <2>7, <2>8, <2>9, <2>10 DEF LeakInv, NothingLeaks, WaveFilterOrNothing
<1>3. CASE ~ntStatus
  <2>1. PICK ps : ps = Created
    OBVIOUS
  <2>2. PICK r1 : r1 = Drop(refs, ps, {"registered"})
    OBVIOUS
  <2>3. Shape(r1) /\ \A o \in Object : r1[o] = IF o \in ps THEN refs[o] \ {"registered"} ELSE refs[o]
    <3>1. /\ Shape(Drop(refs, ps, {"registered"}))
          /\ \A o \in Object : Drop(refs, ps, {"registered"})[o] = IF o \in ps THEN refs[o] \ {"registered"} ELSE refs[o]
      BY ONLY <1>1, DropIs
    <3> QED BY ONLY <2>2, <3>1
  <2>4. PICK qs : qs = ps \cup {Mini(p) : p \in ps}
    OBVIOUS
  <2>5. PICK r2 : r2 = Drop(r1, qs, {"cache"})
    OBVIOUS
  <2>6. Shape(r2) /\ \A o \in Object : r2[o] = IF o \in qs THEN r1[o] \ {"cache"} ELSE r1[o]
    BY <2>3, <2>5, DropIs
  <2>7. PICK less : less = Drop(r2, Object, {"local"})
    OBVIOUS
  <2>8. Shape(less) /\ \A o \in Object : less[o] = r2[o] \ {"local"}
    <3>1. PICK os : os = Object
      OBVIOUS
    <3>2. /\ Shape(Drop(r2, os, {"local"}))
          /\ \A o \in Object : Drop(r2, os, {"local"})[o] = IF o \in os THEN r2[o] \ {"local"} ELSE r2[o]
      BY ONLY <2>6, DropIs
    <3> QED BY ONLY <2>7, <3>1, <3>2
  <2>9. Adopt(less)
    <3>1. RolledBack(refs) = r2
      BY <2>1, <2>2, <2>4, <2>5 DEF RolledBack, RemoveCachedSubdevice, UnregisterSubdevice
    <3> QED BY <1>3, <2>7, <3>1 DEF FinishInstall
  <2>10. ASSUME NEW p \in Port PROVE less[p] = {} /\ less[Mini(p)] \subseteq {p} \cup Streams
    <3>1. p \in ps <=> "local" \in refs[p]
      BY <2>1 DEF Created
    <3>2. p \in Object /\ Mini(p) \in Object /\ Mini(p) \notin ps /\ Mini(p) # p
      BY <2>1, Objects DEF Created
    <3>3. p \in ps => p \in qs /\ Mini(p) \in qs
      BY <2>4
    <3>4. CASE p \in ps
      <4>1. refs[p] \subseteq {"local", "registered", "cache"}
        BY <1>1, Objects DEF Shape
      <4>2. refs[Mini(p)] \subseteq {"local", "cache", p} \cup Streams
        BY <1>1, Objects DEF Shape
      <4> QED BY <2>3, <2>6, <2>8, <3>2, <3>3, <3>4, <4>1, <4>2
    <3>5. CASE p \notin ps
      <4>1. Absent(p)
        BY <1>1, <3>1, <3>5, Objects DEF Installed
      <4> QED BY <2>3, <2>6, <2>8, <3>2, <4>1 DEF Absent
    <3> QED BY <3>4, <3>5
  <2>11. /\ Shape(refs)' /\ refs'["topoPort"] = {} /\ refs'["wavePort"] = {}
         /\ refs'["topoMini"] = {}
         /\ {"unknown", "extension"} \subseteq refs'["adapter"]
         /\ refs'["waveMini"] \subseteq Streams
         /\ \A o \in Object : refs'[o] \subseteq refs[o]
    <3>1. \A o \in Object : refs'[o] \subseteq less[o] /\ less[o] \subseteq refs[o]
      <4>1. \A o \in Object : less[o] \subseteq refs[o]
        BY <2>3, <2>6, <2>8
      <4>2. \A o \in Object : refs'[o] \subseteq less[o]
        BY <2>8, <2>9, AdoptIs
      <4> QED BY <4>1, <4>2
    <3>2. refs'["topoPort"] = {} /\ refs'["wavePort"] = {}
      BY <2>10, <3>1, Objects
    <3>3. refs'["topoMini"] = {}
      <4>1. less["topoMini"] \subseteq {"topoPort"}
        BY <2>8, <2>10, Objects DEF Shape
      <4>2. less["topoPort"] = {}
        BY <2>10, Objects
      <4> QED BY <2>8, <2>9, <4>1, <4>2, AdoptIs
    <3>4. refs'["waveMini"] \subseteq Streams
      <4>1. less["waveMini"] \subseteq {"wavePort"} \cup Streams
        BY <2>10, Objects
      <4> QED BY <2>8, <2>9, <3>2, <4>1, AdoptIs
    <3>5. {"unknown", "extension"} \subseteq refs'["adapter"]
      <4>1. "adapter" \notin qs /\ "adapter" \notin ps
        BY <2>1, <2>4, Objects DEF Created
      <4>2. {"unknown", "extension"} \subseteq less["adapter"]
        BY <1>1, <2>3, <2>6, <2>8, <4>1, Objects
      <4> QED BY <2>8, <2>9, <4>2, AdoptIs
    <3> QED BY <2>8, <2>9, <3>1, <3>2, <3>3, <3>4, <3>5, AdoptIs
  <2>12. refs'["waveMini"] = {}
    <3>1. \A s \in Streams : s \notin refs["waveMini"]
      BY <1>1, Objects DEF LeakInv, StreamsHold, HeldInv
    <3> QED BY <2>11, <3>1, Objects
  <2>13. Passing'
    <3>1. \A o \in Object : "local" \notin refs'[o] /\ "caller" \notin refs'[o]
      BY <1>1, <2>11, <2>12, Objects DEF Shape
    <3> QED BY <1>1, <2>11, <3>1, Objects DEF LeakInv, Passing
  <2>14. Installing'
    BY <1>1, <1>3, <2>11 DEF Installing
  <2>15. ~connected'
    BY <1>1, <1>3 DEF LeakInv, Installing
  <2>16. WaveFilterOrNothing'
    BY <1>1, <2>11, <2>12, <2>15, Objects DEF WaveFilterOrNothing, Exists
  <2> QED BY <1>1, <2>11, <2>12, <2>13, <2>14, <2>16, Objects DEF LeakInv, StreamsHold, NothingLeaks
<1> QED BY <1>2, <1>3

LEMMA LastStepsClean ==
    ASSUME AdapterInv, LeakInv, UNCHANGED life, WaveInterfaces \/ StartExit
    PROVE  LeakInv'
<1> USE DEF Starting
<1>1. ASSUME WaveInterfaces PROVE LeakInv'
  <2>1. /\ pc = "interfaces" /\ pc' = "exit" /\ UNCHANGED <<irp, connected>>
        /\ Shape(refs) /\ irp = "none"
        /\ {"unknown", "extension"} \subseteq refs["adapter"]
        /\ \A o \in Object : "local" \notin refs[o]
    BY <1>1 DEF WaveInterfaces, AdapterInv, Stages, Handles, LeakInv, Passing
  <2>2. CASE "caller" \notin refs["wavePort"]
    <3>1. UNCHANGED <<ntStatus, refs, instances, pool>> /\ ~ntStatus
      BY <1>1, <2>1, <2>2 DEF WaveInterfaces, LeakInv, Installing
    <3>2. \A o \in Object : o # "adapter" => refs[o] = {}
      BY <2>1, <3>1, Objects DEF LeakInv, WaveFilterOrNothing, Exists
    <3>3. Passing'
      BY <2>1, <3>1, <3>2, Objects DEF LeakInv, Passing, Shape
    <3>4. Installing'
      BY <2>1, <3>1 DEF Installing
    <3> QED BY <2>1, <3>1, <3>3, <3>4 DEF LeakInv, Shape, StreamsHold, NothingLeaks, WaveFilterOrNothing
  <2>3. CASE "caller" \in refs["wavePort"]
    <3>1. ntStatus
      BY <2>1, <2>3, Objects DEF LeakInv, WaveFilterOrNothing, Exists
    <3>2. "registered" \in refs["wavePort"] /\ (connected <=> "registered" \in refs["topoPort"])
      BY <2>1, <3>1 DEF LeakInv, Installing
    <3>3. PICK r : /\ r \in {refs, Add(refs, {"wavePort"}, "adapter")}
                   /\ Adopt(Drop(r, Port, {"caller"}))
      BY <1>1, <2>3, Zenon DEF WaveInterfaces
    <3>4. /\ Shape(r)
          /\ \A o \in Object : refs[o] \subseteq r[o] /\ (o # "wavePort" => r[o] = refs[o])
          /\ r["wavePort"] \subseteq refs["wavePort"] \cup {"adapter"}
      <4>1. PICK os : os = {"wavePort"} /\ os \subseteq Port /\ "topoPort" \notin os
        BY Objects
      <4>2. PICK more : more = Add(refs, os, "adapter")
        OBVIOUS
      <4>3. /\ Shape(more)
            /\ \A o \in Object : more[o] = IF o \in os THEN refs[o] \cup {"adapter"} ELSE refs[o]
        <5>1. /\ more \in References
              /\ \A o \in Object : more[o] = IF o \in os THEN refs[o] \cup {"adapter"} ELSE refs[o]
          <6>1. PICK before \in References : before = refs
            BY <2>1 DEF Shape
          <6>2. "adapter" \in Everybody
            BY Objects
          <6>3. /\ Add(before, os, "adapter") \in References
                /\ \A o \in Object : Add(before, os, "adapter")[o]
                       = IF o \in os THEN before[o] \cup {"adapter"} ELSE before[o]
            BY ONLY <6>2, AddType
          <6> QED BY ONLY <4>2, <6>1, <6>3
        <5>2. Shape(more)
          BY <2>1, <4>1, <5>1, Objects DEF Shape
        <5> QED BY <5>1, <5>2
      <4>4. r = refs \/ r = more
        BY <3>3, <4>1, <4>2
      <4>5. CASE r = refs
        BY <2>1, <4>5
      <4>6. CASE r = more
        BY ONLY <4>1, <4>3, <4>6, Objects
      <4> QED BY <4>4, <4>5, <4>6
    <3>5. PICK less : less = Drop(r, Port, {"caller"})
      OBVIOUS
    <3>6. Shape(less) /\ \A o \in Object : less[o] = IF o \in Port THEN r[o] \ {"caller"} ELSE r[o]
      <4>1. PICK os : os = Port
        OBVIOUS
      <4>2. /\ Shape(Drop(r, os, {"caller"}))
            /\ \A o \in Object : Drop(r, os, {"caller"})[o] = IF o \in os THEN r[o] \ {"caller"} ELSE r[o]
        BY ONLY <3>4, DropIs
      <4> QED BY ONLY <3>5, <4>1, <4>2
    <3>7. /\ Shape(refs)' /\ \A o \in Object : refs'[o] \subseteq less[o]
          /\ refs'["topoPort"] = less["topoPort"]
          /\ {"unknown", "extension"} \subseteq refs'["adapter"]
          /\ "registered" \in refs'["wavePort"]
      <4>1. {"unknown", "extension"} \subseteq less["adapter"] /\ "registered" \in less["wavePort"]
        BY <2>1, <3>2, <3>4, <3>6, Objects
      <4> QED BY <3>3, <3>5, <3>6, <4>1, AdoptIs
    <3>8. Passing'
      <4>1. \A o \in Object : /\ "local" \notin refs'[o] /\ "caller" \notin refs'[o]
        <5>1. \A o \in Object : "local" \notin r[o]
          BY <2>1, <3>4, Objects
        <5>2. \A o \in Object : o \notin Port => "caller" \notin r[o]
          BY <3>4, Objects DEF Shape
        <5> QED BY <3>6, <3>7, <5>1, <5>2
      <4> QED BY <2>1, <3>7, <4>1 DEF Passing
    <3>9. Installing'
      BY <2>1, <3>2, <3>4, <3>6, <3>7, Objects DEF Installing
    <3>10. StreamsHold'
      BY <3>4, <3>6, <3>7, Objects DEF LeakInv, StreamsHold
    <3> QED BY <2>1, <3>7, <3>8, <3>9, <3>10 DEF LeakInv, NothingLeaks, WaveFilterOrNothing
  <2> QED BY <2>2, <2>3
<1>2. ASSUME StartExit PROVE LeakInv'
  <2>1. /\ pc = "exit" /\ UNCHANGED <<irp, connected, ntStatus>>
        /\ pc' = (IF ntStatus THEN "started" ELSE "failed")
        /\ Shape(refs) /\ irp = "none"
        /\ "extension" \in refs["adapter"]
        /\ \A o \in Object : "local" \notin refs[o] /\ "caller" \notin refs[o]
    BY <1>2 DEF StartExit, AdapterInv, Handles, PnpStates, LeakInv, Passing
  <2>2. PICK less : less = Drop(refs, {"adapter"}, {"unknown"}) /\ Adopt(less)
    BY <1>2 DEF StartExit
  <2>3. Shape(less) /\ \A o \in Object : less[o] = IF o = "adapter" THEN refs[o] \ {"unknown"} ELSE refs[o]
    <3>1. PICK os : os = {"adapter"}
      OBVIOUS
    <3>2. /\ Shape(Drop(refs, os, {"unknown"}))
          /\ \A o \in Object : Drop(refs, os, {"unknown"})[o] = IF o \in os THEN refs[o] \ {"unknown"} ELSE refs[o]
      BY ONLY <2>1, DropIs
    <3> QED BY ONLY <2>2, <3>1, <3>2
  <2>4. /\ Shape(refs)' /\ \A o \in Object : refs'[o] \subseteq less[o]
        /\ "extension" \in refs'["adapter"] /\ "unknown" \notin refs'["adapter"]
        /\ refs'["topoPort"] = refs["topoPort"]
        /\ "registered" \in refs["wavePort"] => "registered" \in refs'["wavePort"]
    <3>1. "extension" \in less["adapter"] /\ "unknown" \notin less["adapter"]
          /\ less["topoPort"] = refs["topoPort"] /\ less["wavePort"] = refs["wavePort"]
      BY <2>1, <2>3, Objects
    <3> QED BY <2>2, <2>3, <3>1, AdoptIs
  <2>5. Passing'
    BY <2>1, <2>3, <2>4, Objects DEF Passing
  <2>6. Installing'
    BY <2>1 DEF Installing
  <2>7. WaveFilterOrNothing'
    BY <2>1, <2>4 DEF LeakInv, Installing, WaveFilterOrNothing
  <2>8. StreamsHold'
    BY <2>3, <2>4, Objects DEF LeakInv, StreamsHold
  <2> QED BY <2>1, <2>4, <2>5, <2>6, <2>7, <2>8 DEF LeakInv, NothingLeaks
<1> QED BY <1>1, <1>2

\* Giving references up while the device is there or failed to start.
LEMMA ReleaseClean ==
    ASSUME LeakInv, NEW r, Shape(r), Adopt(r), \A o \in Object : r[o] \subseteq refs[o],
           pc \in {"started", "failed", "surprised"}, pc' \in {"started", "failed", "surprised"},
           \A o \in Object : "cache" \in r[o] => "extension" \in r["adapter"],
           irp' # "none" => "extension" \notin r["adapter"],
           \A s \in Streams : s \in r["waveMini"] => life'[s] # "none",
           pc' = "started" /\ irp' = "none" =>
               "registered" \in r["wavePort"] /\ (connected' <=> "registered" \in r["topoPort"])
    PROVE  LeakInv'
<1> USE DEF Starting
<1>1. /\ Shape(refs)' /\ \A o \in Object : refs'[o] \subseteq r[o]
      /\ refs'["adapter"] = {} => pool' = "none"
      /\ refs'["topoPort"] = r["topoPort"]
      /\ refs'["adapter"] \in {r["adapter"], r["adapter"] \ {"topoMini"}}
      /\ refs'["wavePort"] \in {r["wavePort"], r["wavePort"] \ {"adapter"}}
  BY AdoptIs
<1>2. \A o \in Object : refs'[o] \subseteq refs[o]
  BY <1>1
<1>3. Passing'
  <2>1. \A o \in Object : "local" \notin refs'[o] /\ "caller" \notin refs'[o]
    BY <1>2 DEF LeakInv, Passing
  <2>2. "unknown" \notin refs'["adapter"]
    BY <1>2, Objects DEF LeakInv, Passing
  <2>3. \A o \in Object : "cache" \in refs'[o] => "extension" \in refs'["adapter"]
    BY <1>1
  <2>4. irp' # "none" => "extension" \notin refs'["adapter"]
    BY <1>1
  <2> QED BY <1>1, <2>1, <2>2, <2>3, <2>4 DEF Passing
<1>4. Installing' /\ NothingLeaks'
  BY DEF Installing, NothingLeaks
<1>5. StreamsHold'
  BY <1>1, Objects DEF StreamsHold
<1>6. WaveFilterOrNothing'
  BY <1>1 DEF WaveFilterOrNothing
<1> QED BY <1>1, <1>3, <1>4, <1>5, <1>6 DEF LeakInv

\* What a request to PnP, to PortCls and the clients of the filters do.
LEMMA DeviceClean ==
    ASSUME AdapterInv, HeldInv, LeakInv, UNCHANGED life,
           \/ \E q \in Requests : PnpHandler(q)
           \/ PcDispatchIrp
           \/ \E p \in Port : Open(p) \/ CloseUnused(p)
    PROVE  LeakInv'
<1> USE DEF PnpStates, Requests
<1>1. Shape(refs) /\ Passing /\ StreamsHold /\ WaveFilterOrNothing
  BY DEF LeakInv
<1>2. ASSUME NEW q \in Requests, PnpHandler(q) PROVE LeakInv'
  <2>1. /\ pc \in {"started", "failed", "surprised"} /\ pc' = pc
        /\ q # "none" /\ irp' = q /\ irp = "none" /\ connected' = connected
    BY <1>2 DEF PnpHandler, Request
  <2>2. CASE "extension" \notin refs["adapter"]
    <3>1. UNCHANGED <<refs, pool>>
      BY <1>2, <2>2 DEF PnpHandler
    <3>2. Passing'
      BY <1>1, <2>1, <2>2, <3>1 DEF Passing, Starting
    <3>3. Installing' /\ NothingLeaks' /\ WaveFilterOrNothing'
      BY <2>1 DEF Installing, NothingLeaks, WaveFilterOrNothing
    <3> QED BY <1>1, <3>1, <3>2, <3>3 DEF LeakInv, Shape, StreamsHold
  <2>3. CASE "extension" \in refs["adapter"]
    <3>1. PICK os : os = Object
      OBVIOUS
    <3>2. PICK clean : clean = Drop(refs, os, {"cache"})
      OBVIOUS
    <3>3. Shape(clean) /\ \A o \in Object : clean[o] = IF o \in os THEN refs[o] \ {"cache"} ELSE refs[o]
      <4>1. /\ Shape(Drop(refs, os, {"cache"}))
            /\ \A o \in Object : Drop(refs, os, {"cache"})[o] = IF o \in os THEN refs[o] \ {"cache"} ELSE refs[o]
        BY ONLY <1>1, DropIs
      <4> QED BY ONLY <3>2, <4>1
    <3>4. PICK xs : xs = {"adapter"}
      OBVIOUS
    <3>5. PICK less : less = Drop(clean, xs, {"extension"})
      OBVIOUS
    <3>6. Shape(less) /\ \A o \in Object : less[o] = IF o \in xs THEN clean[o] \ {"extension"} ELSE clean[o]
      <4>1. PICK hs : hs = {"extension"}
        OBVIOUS
      <4>2. Shape(clean)
        BY <3>3
      <4>3. /\ Shape(Drop(clean, xs, hs))
            /\ \A o \in Object : Drop(clean, xs, hs)[o] = IF o \in xs THEN clean[o] \ hs ELSE clean[o]
        BY ONLY <4>2, DropIs
      <4> QED BY ONLY <3>5, <4>1, <4>3
    <3>7. Adopt(less)
      BY <1>2, <2>3, <3>1, <3>2, <3>4, <3>5 DEF PnpHandler, Cleanup
    <3>8. /\ \A o \in Object : less[o] \subseteq refs[o] /\ "cache" \notin less[o]
          /\ "extension" \notin less["adapter"]
      BY <3>1, <3>3, <3>4, <3>6, Objects
    <3>9. \A s \in Streams : s \in less["waveMini"] => life'[s] # "none"
      BY <1>1, <3>8, Objects DEF StreamsHold
    <3> QED BY <2>1, <3>6, <3>7, <3>8, <3>9, ReleaseClean
  <2> QED BY <2>2, <2>3
<1>3. ASSUME PcDispatchIrp PROVE LeakInv'
  <2>1. PICK hs : hs = {"registered"} \cup (IF irp = "surprise" THEN {} ELSE {"power"})
    OBVIOUS
  <2>2. PICK less : less = Drop(refs, Object, hs) /\ Adopt(less)
    BY <1>3, <2>1 DEF PcDispatchIrp
  <2>3. Shape(less) /\ \A o \in Object : less[o] = refs[o] \ hs
    <3>1. PICK os : os = Object
      OBVIOUS
    <3>2. /\ Shape(Drop(refs, os, hs))
          /\ \A o \in Object : Drop(refs, os, hs)[o] = IF o \in os THEN refs[o] \ hs ELSE refs[o]
      <4>1. Shape(refs)
        BY <1>1
      <4> QED BY ONLY <4>1, DropIs
    <3> QED BY ONLY <2>2, <3>1, <3>2
  <2>4. /\ irp \in {"stop", "surprise", "remove"} /\ irp' = "none" /\ ~connected'
        /\ pc \in {"started", "failed", "surprised"}
        /\ pc' = (IF irp = "surprise" THEN "surprised" ELSE "removed")
        /\ "extension" \notin refs["adapter"]
        /\ \A o \in Object : "cache" \notin refs[o]
    BY <1>1, <1>3 DEF PcDispatchIrp, AdapterInv, Handles, Passing
  <2>5. CASE irp = "surprise"
    <3>1. \A s \in Streams : s \in less["waveMini"] => life'[s] # "none"
      BY <1>1, <2>3, Objects DEF StreamsHold
    <3> QED BY <2>2, <2>3, <2>4, <2>5, <3>1, ReleaseClean
  <2>6. CASE irp # "surprise"
    <3>1. /\ \A p \in Port : "client" \notin refs[p]
          /\ "registered" \in hs /\ "power" \in hs
          /\ \A s \in Streams : s \notin refs["waveMini"]
      BY <1>1, <2>1, <2>4, <2>6, Objects DEF AdapterInv, Handles, HeldInv, StreamsHold
    <3>2. /\ \A o \in Object : "local" \notin refs[o] /\ "caller" \notin refs[o]
          /\ "unknown" \notin refs["adapter"]
      BY <1>1, <2>4 DEF Passing, Starting
    <3>3. /\ less["topoPort"] = {} /\ less["topoMini"] \subseteq {"topoPort"}
          /\ less["adapter"] \subseteq {"topoMini"} /\ less["wavePort"] \subseteq {"adapter"}
          /\ less["waveMini"] \subseteq {"wavePort"}
      <4>1. \A o \in Object : \A h \in {"local", "caller", "cache", "registered", "power"} : h \notin less[o]
        BY <2>3, <2>4, <3>1, <3>2
      <4>2. /\ "unknown" \notin less["adapter"] /\ "extension" \notin less["adapter"]
            /\ "client" \notin less["topoPort"] /\ "client" \notin less["wavePort"]
            /\ \A s \in Streams : s \notin less["waveMini"]
        BY <2>3, <2>4, <3>1, <3>2, Objects
      <4>3. less["topoPort"] = {}
        BY <2>3, <4>1, <4>2, Objects DEF Shape
      <4>4. less["topoMini"] \subseteq {"topoPort"} /\ less["adapter"] \subseteq {"topoMini"}
        BY <2>3, <4>1, <4>2, Objects DEF Shape
      <4>5. less["wavePort"] \subseteq {"adapter"}
        BY <2>3, <4>1, <4>2, Objects DEF Shape
      <4>6. less["waveMini"] \subseteq {"wavePort"}
        BY <2>3, <4>1, <4>2, Objects DEF Shape
      <4> QED BY <4>3, <4>4, <4>5, <4>6
    <3>4. /\ Shape(refs)' /\ refs'["topoPort"] = {} /\ refs'["topoMini"] = {}
          /\ refs'["adapter"] = {} /\ refs'["wavePort"] = {} /\ refs'["waveMini"] = {}
          /\ pool' = "none"
      <4>1. /\ Shape(refs')
            /\ refs'["topoPort"] = less["topoPort"]
            /\ refs'["topoMini"] = (IF less["topoPort"] = {} THEN less["topoMini"] \ {"topoPort"} ELSE less["topoMini"])
            /\ refs'["adapter"] = (IF refs'["topoMini"] = {} THEN less["adapter"] \ {"topoMini"} ELSE less["adapter"])
            /\ refs'["wavePort"] = (IF refs'["adapter"] = {} THEN less["wavePort"] \ {"adapter"} ELSE less["wavePort"])
            /\ refs'["waveMini"] = (IF refs'["wavePort"] = {} THEN less["waveMini"] \ {"wavePort"} ELSE less["waveMini"])
            /\ refs'["adapter"] = {} => pool' = "none"
        BY <2>2, <2>3, AdoptIs
      <4>2. refs'["topoPort"] = {} /\ refs'["topoMini"] = {}
        BY ONLY <3>3, <4>1
      <4>3. refs'["adapter"] = {}
        BY ONLY <3>3, <4>1, <4>2
      <4>4. refs'["wavePort"] = {}
        BY ONLY <3>3, <4>1, <4>3
      <4>5. refs'["waveMini"] = {}
        BY ONLY <3>3, <4>1, <4>4
      <4> QED BY <4>1, <4>2, <4>3, <4>4, <4>5
    <3>5. \A o \in Object : refs'[o] = {}
      BY <3>4, Objects
    <3>6. Passing'
      BY <2>4, <2>6, <3>4, <3>5, Objects DEF Passing, Starting
    <3>7. Installing' /\ WaveFilterOrNothing'
      BY <2>4, <2>6 DEF Installing, WaveFilterOrNothing
    <3>8. StreamsHold' /\ NothingLeaks'
      BY <2>4, <3>4, <3>5, Objects DEF StreamsHold, NothingLeaks, Exists
    <3> QED BY <3>4, <3>6, <3>7, <3>8 DEF LeakInv
  <2> QED BY <2>5, <2>6
<1>4. ASSUME NEW p \in Port, Open(p) PROVE LeakInv'
  <2>1. /\ pc = "started" /\ irp = "none"
        /\ UNCHANGED <<pc, irp, instances, connected, pool, ntStatus>>
        /\ refs' = Add(refs, {p}, "client")
    BY <1>4 DEF Open
  <2>2. PICK os : os = {p} /\ os \subseteq Port
    OBVIOUS
  <2>3. /\ Shape(refs)'
        /\ \A o \in Object : refs'[o] = IF o \in os THEN refs[o] \cup {"client"} ELSE refs[o]
    <3>1. "client" \in {"caller", "client"}
      OBVIOUS
    <3>2. /\ Shape(Add(refs, os, "client"))
          /\ \A o \in Object : Add(refs, os, "client")[o] = IF o \in os THEN refs[o] \cup {"client"} ELSE refs[o]
      BY ONLY <1>1, <2>2, <3>1, AddIs
    <3> QED BY ONLY <2>1, <2>2, <3>2
  <2>4. refs'["adapter"] = refs["adapter"] /\ refs'["waveMini"] = refs["waveMini"]
    BY <2>2, <2>3, Objects
  <2>5. Passing'
    <3>1. \A o \in Object : \A h \in {"local", "caller", "cache"} : h \in refs'[o] => h \in refs[o]
      BY <2>3
    <3>2. pc \notin Starting
      BY <2>1 DEF Starting
    <3> QED BY <1>1, <2>1, <2>4, <3>1, <3>2 DEF Passing
  <2>6. Installing' /\ NothingLeaks'
    BY <2>1 DEF Installing, NothingLeaks
  <2>7. WaveFilterOrNothing'
    BY <1>1, <2>1, <2>3, Objects DEF WaveFilterOrNothing
  <2>8. StreamsHold'
    BY <1>1, <2>4 DEF StreamsHold
  <2> QED BY <2>3, <2>5, <2>6, <2>7, <2>8 DEF LeakInv
<1>5. ASSUME NEW p \in Port, CloseUnused(p) PROVE LeakInv'
  <2>1. /\ pc \in {"started", "surprised"} /\ UNCHANGED <<pc, irp, connected>>
    BY <1>5 DEF CloseUnused, Close, AdapterInv, Handles
  <2>2. PICK os : os = {p} /\ os \subseteq Port
    OBVIOUS
  <2>3. PICK less : less = Drop(refs, os, {"client"}) /\ Adopt(less)
    BY <1>5, <2>2 DEF CloseUnused, Close
  <2>4. Shape(less) /\ \A o \in Object : less[o] = IF o \in os THEN refs[o] \ {"client"} ELSE refs[o]
    BY <1>1, <2>3, DropIs
  <2>5. /\ \A o \in Object : less[o] \subseteq refs[o]
        /\ less["adapter"] = refs["adapter"] /\ less["waveMini"] = refs["waveMini"]
        /\ \A q \in Port : "registered" \in less[q] <=> "registered" \in refs[q]
    BY <2>2, <2>4, Objects
  <2>6. /\ \A o \in Object : "cache" \in less[o] => "extension" \in less["adapter"]
        /\ irp' # "none" => "extension" \notin less["adapter"]
    BY <1>1, <2>1, <2>5 DEF Passing
  <2>7. pc' = "started" /\ irp' = "none" =>
          "registered" \in less["wavePort"] /\ (connected' <=> "registered" \in less["topoPort"])
    BY <1>1, <2>1, <2>5, Objects DEF WaveFilterOrNothing
  <2>8. \A s \in Streams : s \in less["waveMini"] => life'[s] # "none"
    BY <1>1, <2>5 DEF StreamsHold
  <2> QED BY <2>1, <2>3, <2>4, <2>5, <2>6, <2>7, <2>8, ReleaseClean
<1> QED BY <1>2, <1>3, <1>4, <1>5

\* A stream holds the miniport from its Init to its destructor.
LEMMA StreamsClean ==
    ASSUME AdapterInv, PinsInv, LeakInv, NEW s \in Streams, StreamStep(s)
    PROVE  LeakInv'
<1> USE DEF Lives
<1>1. /\ Shape(refs) /\ Passing /\ StreamsHold /\ WaveFilterOrNothing
      /\ life \in [Streams -> Lives] /\ "wavePort" \in Port /\ irp \in Requests
  BY DEF LeakInv, PinsInv, StreamInv, Port, AdapterInv, Handles
<1>2. ASSUME UNCHANGED vars, \A t \in Streams : life[t] # "none" => life'[t] # "none" PROVE LeakInv'
  <2>1. UNCHANGED <<pc, irp, instances, refs, connected, pool, ntStatus>>
    BY <1>2 DEF vars
  <2>2. StreamsHold'
    BY <1>1, <1>2, <2>1 DEF StreamsHold
  <2> QED BY <2>1, <2>2 DEF LeakInv, Shape, Passing, Installing, Absent, Installed, NothingLeaks,
                            WaveFilterOrNothing, Exists, Starting
<1>3. CASE NewStream(s) \/ InitFailsEarly(s) \/ CloseStream(s)
  <2>1. UNCHANGED vars /\ life' \in {[life EXCEPT ![s] = "made"], [life EXCEPT ![s] = "released"]}
    BY <1>3 DEF NewStream, InitFailsEarly, CloseStream
  <2> QED BY <1>1, <1>2, <2>1
<1>4. ASSUME NEW ok \in BOOLEAN, NEW c \in Contents, SetContentId(s, c, ok) PROVE LeakInv'
  BY <1>2, <1>4 DEF SetContentId
<1>5. ASSUME life[s] # "none"
      PROVE  pc \in {"started", "surprised"}
  BY <1>1, <1>5 DEF PinsInv, HeldInv, AdapterInv, Handles
<1>6. ASSUME NEW ok \in BOOLEAN, InitStream(s, ok) PROVE LeakInv'
  <2>1. /\ life[s] = "made" /\ life' = [life EXCEPT ![s] = IF ok THEN "open" ELSE "released"]
        /\ UNCHANGED <<pc, irp, instances, connected, pool, ntStatus>>
        /\ refs' = Add(refs, {"waveMini"}, s)
    BY <1>6 DEF InitStream
  <2>2. PICK os : os = {"waveMini"}
    OBVIOUS
  <2>3. refs' \in References /\ \A o \in Object : refs'[o] = IF o \in os THEN refs[o] \cup {s} ELSE refs[o]
    <3>1. refs \in References /\ s \in Everybody
      BY <1>1, Objects DEF Shape
    <3>2. /\ Add(refs, os, s) \in References
          /\ \A o \in Object : Add(refs, os, s)[o] = IF o \in os THEN refs[o] \cup {s} ELSE refs[o]
      <4>1. PICK r \in References : r = refs
        BY <3>1
      <4>2. /\ Add(r, os, s) \in References
            /\ \A o \in Object : Add(r, os, s)[o] = IF o \in os THEN r[o] \cup {s} ELSE r[o]
        BY ONLY <3>1, AddType
      <4> QED BY ONLY <4>1, <4>2
    <3> QED BY ONLY <2>1, <2>2, <3>2
  <2>4. /\ refs'["adapter"] = refs["adapter"] /\ refs'["topoPort"] = refs["topoPort"]
        /\ refs'["topoMini"] = refs["topoMini"] /\ refs'["wavePort"] = refs["wavePort"]
        /\ refs'["waveMini"] = refs["waveMini"] \cup {s}
    BY <2>2, <2>3, Objects
  <2>5. Shape(refs)'
    BY <1>1, <2>3, <2>4 DEF Shape
  <2>6. /\ \A o \in Object : \A h \in {"local", "caller", "cache"} : h \in refs'[o] => h \in refs[o]
    BY <2>3, Objects
  <2>7. Passing'
    BY <1>1, <2>1, <2>4, <2>6 DEF Passing, Starting
  <2>8. Installing' /\ NothingLeaks' /\ WaveFilterOrNothing'
    BY <1>1, <1>5, <2>1, <2>4 DEF Installing, NothingLeaks, WaveFilterOrNothing
  <2>9. StreamsHold'
    BY <1>1, <2>1, <2>4 DEF StreamsHold
  <2> QED BY <2>5, <2>7, <2>8, <2>9 DEF LeakInv
<1>7. ASSUME NEW ok \in BOOLEAN, DestroyStream(s, ok) PROVE LeakInv'
  <2>1. /\ life[s] = "released" /\ life' = [life EXCEPT ![s] = "none"]
        /\ UNCHANGED <<pc, irp, connected, ntStatus>>
    BY <1>7 DEF DestroyStream
  <2>2. PICK os : os = {"waveMini"}
    OBVIOUS
  <2>3. PICK less : less = Drop(refs, os, {s}) /\ Adopt(less)
    BY <1>7, <2>2 DEF DestroyStream
  <2>4. Shape(less) /\ \A o \in Object : less[o] = IF o \in os THEN refs[o] \ {s} ELSE refs[o]
    BY <1>1, <2>3, DropIs
  <2>5. /\ \A o \in Object : less[o] \subseteq refs[o]
        /\ less["adapter"] = refs["adapter"] /\ less["topoPort"] = refs["topoPort"]
        /\ less["wavePort"] = refs["wavePort"] /\ less["waveMini"] = refs["waveMini"] \ {s}
    BY <2>2, <2>4, Objects
  <2>6. /\ \A o \in Object : "cache" \in less[o] => "extension" \in less["adapter"]
        /\ irp' # "none" => "extension" \notin less["adapter"]
    BY <1>1, <2>1, <2>5 DEF Passing
  <2>7. pc' = "started" /\ irp' = "none" =>
          "registered" \in less["wavePort"] /\ (connected' <=> "registered" \in less["topoPort"])
    BY <1>1, <2>1, <2>5 DEF WaveFilterOrNothing
  <2>8. \A t \in Streams : t \in less["waveMini"] => life'[t] # "none"
    BY <1>1, <2>1, <2>5 DEF StreamsHold
  <2> QED BY <1>5, <2>1, <2>3, <2>4, <2>5, <2>6, <2>7, <2>8, ReleaseClean
<1> QED BY <1>3, <1>4, <1>6, <1>7, Zenon DEF StreamStep

LEMMA LeaksStand == DriverSpec => []LeakInv
<1>1. DriverInit => LeakInv
  <2>1. DriverInit => Shape(refs)
    BY DEF DriverInit, Init, Shape, References, Object
  <2>2. DriverInit => Passing /\ Installing /\ StreamsHold /\ NothingLeaks /\ WaveFilterOrNothing
    BY Objects DEF DriverInit, Init, Passing, Installing, StreamsHold, NothingLeaks, WaveFilterOrNothing,
                   Exists, Starting
  <2> QED BY <2>1, <2>2 DEF LeakInv
<1>2. ASSUME AdapterInv, PinsInv, LeakInv, [DriverNext]_allVars PROVE LeakInv'
  <2>1. HeldInv
    BY <1>2 DEF PinsInv
  <2>2. CASE AdapterStep
    <3>1. UNCHANGED life
      BY <2>2 DEF AdapterStep, streamVars
    <3>2. \/ StartDevice \/ PcDispatchIrp
          \/ \E q \in Requests : PnpHandler(q)
          \/ \E p \in Port : Open(p) \/ CloseUnused(p)
      BY <2>2 DEF AdapterStep
    <3>3. CASE StartDevice
      BY <1>2, <2>1, <3>1, <3>3, FirstStepsClean, InstallClean, FinishClean, LastStepsClean, Zenon
         DEF StartDevice
    <3> QED BY <1>2, <2>1, <3>1, <3>2, <3>3, DeviceClean
  <2>3. CASE UNCHANGED allVars
    BY <1>2, <2>3 DEF allVars, vars, streamVars, LeakInv, Shape, Passing, Installing, Absent,
                      Installed, StreamsHold, NothingLeaks, WaveFilterOrNothing, Exists, Starting
  <2> QED BY <1>2, <2>2, <2>3, StreamsClean DEF DriverNext
<1> QED BY <1>1, <1>2, AdapterStands, PinsStand, PTL DEF DriverSpec

\* NothingLeaks: whichever step of StartDevice failed and whenever the device was pulled
\* out, Cleanup, the releases of PortCls and the destructors free every object.
THEOREM NothingIsLeft == EndpointSpec => []NothingLeaks
<1>1. LeakInv => NothingLeaks
  BY DEF LeakInv
<1> QED BY <1>1, LeaksStand, EndpointImplementsDriver, PTL

\* WaveFilterOrNothing: InstallEndpointFilters takes back what it installed when it
\* fails, and a device that starts has its wave filter, connected exactly if it has a
\* topology filter.
THEOREM FailedInstallLeavesNothing == EndpointSpec => []WaveFilterOrNothing
<1>1. LeakInv => WaveFilterOrNothing
  BY DEF LeakInv
<1> QED BY <1>1, LeaksStand, EndpointImplementsDriver, PTL

-----------------------------------------------------------------------------
(* Sizes, for every size of the caller's buffer                            *)

LEMMA AnswerIs ==
    ASSUME NEW st, NEW n, NEW answer, answer = [status |-> st, size |-> n]
    PROVE  answer.status = st /\ answer.size = n
  OBVIOUS

\* A GET of volume or mute, for any channel.
LEMMA LevelSizes ==
    ASSUME NEW channel
    PROVE  /\ GetLevel(0, channel) = Answer("overflow", cbUlong)
           /\ GetLevel(cbUlong, channel).status \notin {"overflow", "too small"}
           /\ \A size \in Nat : GetLevel(size, channel).status = "success"
                                  => GetLevel(size, channel).size <= size
  BY SMT DEF GetLevel, ValidatePropertyParams, Answer, cbUlong

\* A jack property, whatever its size.
LEMMA JackSizes ==
    ASSUME NEW cb \in Nat, NEW pin \in JackPins
    PROVE  /\ Jack(0, cb, pin) = Answer("overflow", cbMultipleItem + cb)
           /\ Jack(cbMultipleItem + cb, cb, pin).status \notin {"overflow", "too small"}
           /\ \A size \in Nat : Jack(size, cb, pin).size = size \/ Jack(size, cb, pin).status = "overflow"
  BY SMT DEF Jack, Answer, cbMultipleItem

\* A proposal of any format.
LEMMA ProposedFormatSizes ==
    ASSUME NEW f
    PROVE  /\ ProposedFormat(SinkPin, f, 0) = Answer("overflow", cbFormat)
           /\ ProposedFormat(SinkPin, f, cbFormat).status \notin {"overflow", "too small"}
           /\ \A size \in Nat : ProposedFormat(SinkPin, f, size).status = "success"
                                  => ProposedFormat(SinkPin, f, size).size = size
<1>1. IsSystemRenderPin(SinkPin)
  BY DEF IsSystemRenderPin
<1>2. ProposedFormat(SinkPin, f, 0) = Answer("overflow", cbFormat)
  <2>1. 0 \notin 1..(cbFormat - 1)
    BY SMT DEF cbFormat
  <2> QED BY <1>1, <2>1, Zenon DEF ProposedFormat, Answer
<1> DEFINE verdict == IF IsFormatSupported(SinkPin, f) THEN "success" ELSE "no match"
<1>3. /\ verdict \in {"success", "no match"}
      /\ \A size \in Nat : size # 0 /\ size \notin 1..(cbFormat - 1) =>
           ProposedFormat(SinkPin, f, size) = [status |-> verdict, size |-> size]
  BY <1>1, Zenon DEF ProposedFormat
<1> HIDE DEF verdict
<1>4. \A size \in 1..(cbFormat - 1) : size # 0
  BY SMT
<1>5. \A size \in 1..(cbFormat - 1) :
        ProposedFormat(SinkPin, f, size) = [status |-> "too small", size |-> size]
  BY <1>1, <1>4, Zenon DEF ProposedFormat
<1>6. cbFormat \in Nat /\ cbFormat # 0 /\ cbFormat \notin 1..(cbFormat - 1)
  BY SMT DEF cbFormat
<1>7. ProposedFormat(SinkPin, f, cbFormat).status \notin {"overflow", "too small"}
  <2>1. ProposedFormat(SinkPin, f, cbFormat) = [status |-> verdict, size |-> cbFormat]
    BY <1>3, <1>6, Zenon
  <2>2. ProposedFormat(SinkPin, f, cbFormat).status = verdict
    BY <2>1, AnswerIs, Zenon
  <2> QED BY <1>3, <2>2
<1>8. \A size \in Nat : ProposedFormat(SinkPin, f, size).status = "success"
                         => ProposedFormat(SinkPin, f, size).size = size
  <2>1. ASSUME NEW size \in Nat, ProposedFormat(SinkPin, f, size).status = "success"
        PROVE  ProposedFormat(SinkPin, f, size).size = size
    <3>1. size # 0
      BY <1>2, <2>1 DEF Answer
    <3>2. size \notin 1..(cbFormat - 1)
      <4>1. SUFFICES ASSUME size \in 1..(cbFormat - 1) PROVE FALSE
        OBVIOUS
      <4>2. ProposedFormat(SinkPin, f, size) = [status |-> "too small", size |-> size]
        BY <1>5, <4>1, Zenon
      <4>3. ProposedFormat(SinkPin, f, size).status = "too small"
        BY <4>2, AnswerIs, Zenon
      <4>4. "too small" = "success"
        BY <2>1, <4>3, Zenon
      <4> QED BY ONLY <4>4
    <3>3. ProposedFormat(SinkPin, f, size) = [status |-> verdict, size |-> size]
      BY <1>3, <3>1, <3>2, Zenon
    <3> QED BY <3>3, AnswerIs, Zenon
  <2> QED BY <2>1
<1> QED BY <1>2, <1>7, <1>8

\* A question for a format with any attributes that have one.
LEMMA ProposedFormat2Sizes ==
    ASSUME NEW list, NEW cb \in Nat, AttributesValid(list, cb), Proposals(SinkPin, list) # {}
    PROVE  LET needed == QuadAligned(cbFormat) + cb
           IN  /\ needed \in Nat
               /\ ProposedFormat2(SinkPin, list, cb, 0) = Answer("overflow", needed)
               /\ ProposedFormat2(SinkPin, list, cb, needed).status \notin {"overflow", "too small"}
               /\ \A size \in Nat : ProposedFormat2(SinkPin, list, cb, size).status = "success"
                                      => ProposedFormat2(SinkPin, list, cb, size).size <= size
<1> DEFINE needed == QuadAligned(cbFormat) + cb
<1>1. needed \in Nat /\ needed > 0
  BY SMT DEF QuadAligned, cbFormat
<1>2. ProposedFormat2(SinkPin, list, cb, 0) = Answer("overflow", needed)
  <2>1. 0 \notin 1..(needed - 1)
    BY <1>1, SMT
  <2> QED BY <2>1, Zenon DEF ProposedFormat2, Answer
<1>3. \A size \in Nat : size # 0 /\ size \notin 1..(needed - 1) =>
        ProposedFormat2(SinkPin, list, cb, size) = [status |-> "success", size |-> needed]
  BY Zenon DEF ProposedFormat2
<1>4. \A size \in 1..(needed - 1) : size # 0
  BY <1>1, SMT
<1>5. \A size \in 1..(needed - 1) :
        ProposedFormat2(SinkPin, list, cb, size) = [status |-> "too small", size |-> size]
  BY <1>4, Zenon DEF ProposedFormat2
<1> HIDE DEF needed
<1>6. needed # 0 /\ needed \notin 1..(needed - 1)
  BY <1>1, SMT
<1>7. ProposedFormat2(SinkPin, list, cb, needed).status \notin {"overflow", "too small"}
  <2>1. ProposedFormat2(SinkPin, list, cb, needed) = [status |-> "success", size |-> needed]
    BY <1>1, <1>3, <1>6, Zenon
  <2> QED BY <2>1
<1>8. ASSUME NEW size \in Nat, ProposedFormat2(SinkPin, list, cb, size).status = "success"
      PROVE  ProposedFormat2(SinkPin, list, cb, size).size <= size
  <2>1. size # 0 /\ size \notin 1..(needed - 1)
    <3>1. size # 0
      BY <1>2, <1>8 DEF Answer
    <3>2. ASSUME size \in 1..(needed - 1) PROVE FALSE
      <4>1. ProposedFormat2(SinkPin, list, cb, size) = [status |-> "too small", size |-> size]
        BY <1>5, <3>2, Zenon
      <4>2. ProposedFormat2(SinkPin, list, cb, size).status = "too small"
        BY <4>1, AnswerIs, Zenon
      <4>3. "too small" = "success"
        BY <1>8, <4>2, Zenon
      <4> QED BY ONLY <4>3
    <3> QED BY <3>1, <3>2
  <2>2. needed <= size
    BY <1>1, <2>1, SMT
  <2>3. ProposedFormat2(SinkPin, list, cb, size) = [status |-> "success", size |-> needed]
    BY <1>3, <2>1, Zenon
  <2> QED BY <2>2, <2>3
<1> QED BY <1>1, <1>2, <1>7, <1>8 DEF needed

\* Basic support of volume and mute, for any number of channels.
LEMMA SupportSizes ==
    ASSUME NEW size \in Nat
    PROVE  /\ PropertyHandler_BasicSupport(size).status = "success"
                => PropertyHandler_BasicSupport(size).size <= size
           /\ PropertyHandler_BasicSupportVolume(size).status = "success"
                => PropertyHandler_BasicSupportVolume(size).size <= size
           /\ PropertyHandler_BasicSupportMute(size).status = "success"
                => PropertyHandler_BasicSupportMute(size).size <= size
<1>1. cbFullProperty \in Nat
  BY MixerAssumption, SMT DEF cbFullProperty, cbDescription, cbMembersHeader, cbStepping
<1>2. PropertyHandler_BasicSupport(size).status = "success"
        => PropertyHandler_BasicSupport(size).size <= size
  BY SMT DEF PropertyHandler_BasicSupport, Answer, cbDescription, cbUlong
<1> QED BY <1>1, <1>2, SMT
        DEF PropertyHandler_BasicSupportVolume, PropertyHandler_BasicSupportMute, Answer

\* What SizesKept says of one handler.
Keeps(a) == /\ a[0].status = "overflow"
            /\ a[a[0].size].status \notin {"overflow", "too small"}
            /\ \A z \in Sizes : a[z].status = "success" => a[z].size <= z

LEMMA AsksAndKeeps ==
    ASSUME NEW a, NEW n, a[0] = Answer("overflow", n),
           a[n].status \notin {"overflow", "too small"},
           \A z \in Sizes : a[z].status = "success" => a[z].size <= z
    PROVE  Keeps(a)
<1>1. a[0].status = "overflow" /\ a[0].size = n
  <2>1. a[0] = [status |-> "overflow", size |-> n]
    BY DEF Answer
  <2>2. PICK answer : answer = a[0]
    OBVIOUS
  <2>3. answer = [status |-> "overflow", size |-> n]
    BY ONLY <2>1, <2>2
  <2> QED BY ONLY <2>2, <2>3, AnswerIs
<1> QED BY <1>1, Zenon DEF Keeps

LEMMA SizesAreNumbers == 0 \in Sizes /\ cbUlong \in Sizes /\ cbFormat \in Sizes /\ Sizes \subseteq Nat
  BY SMT DEF Sizes, cbUlong, cbFormat

LEMMA LevelKeeps == ASSUME NEW c PROVE Keeps([z \in Sizes |-> GetLevel(z, c)])
<1> DEFINE a == [z \in Sizes |-> GetLevel(z, c)]
<1>1. \A z \in Sizes : a[z] = GetLevel(z, c)
  OBVIOUS
<1> HIDE DEF a
<1>2. Keeps(a)
  BY <1>1, SizesAreNumbers, LevelSizes, AsksAndKeeps, Zenon
<1> QED BY <1>2 DEF a

LEMMA JackKeeps ==
    ASSUME NEW cb \in {cbJack, cbJack2}, NEW pin \in JackPins
    PROVE  Keeps([z \in Sizes |-> Jack(z, cb, pin)])
<1> DEFINE a == [z \in Sizes |-> Jack(z, cb, pin)]  n == cbMultipleItem + cb
<1>1. \A z \in Sizes : a[z] = Jack(z, cb, pin)
  OBVIOUS
<1>2. n \in Sizes /\ cb \in Nat
  BY SMT DEF Sizes, cbJack, cbJack2, cbMultipleItem
<1>3. /\ Jack(0, cb, pin) = Answer("overflow", n)
      /\ Jack(n, cb, pin).status \notin {"overflow", "too small"}
      /\ \A size \in Nat : Jack(size, cb, pin).size = size \/ Jack(size, cb, pin).status = "overflow"
  BY <1>2, JackSizes
<1> HIDE DEF a, n
<1>4. \A z \in Sizes : a[z].status = "success" => a[z].size <= z
  <2>1. ASSUME NEW z \in Sizes, a[z].status = "success" PROVE a[z].size <= z
    <3>1. z \in Nat /\ a[z] = Jack(z, cb, pin)
      BY <1>1, SizesAreNumbers
    <3>2. a[z].size = z \/ a[z].status = "overflow"
      BY <1>3, <3>1, Zenon
    <3>3. "success" # "overflow"
      OBVIOUS
    <3>4. a[z].size = z
      BY <2>1, <3>2, <3>3, Zenon
    <3> QED BY <3>1, <3>4
  <2> QED BY <2>1
<1>5. Keeps(a)
  BY <1>1, <1>2, <1>3, <1>4, SizesAreNumbers, AsksAndKeeps, Zenon
<1> QED BY <1>5 DEF a

LEMMA ProposedFormatKeeps == ASSUME NEW f PROVE Keeps([z \in Sizes |-> ProposedFormat(SinkPin, f, z)])
<1> DEFINE a == [z \in Sizes |-> ProposedFormat(SinkPin, f, z)]
<1>1. \A z \in Sizes : a[z] = ProposedFormat(SinkPin, f, z)
  OBVIOUS
<1> HIDE DEF a
<1>2. ASSUME NEW z \in Sizes, a[z].status = "success" PROVE a[z].size <= z
  <2>1. z \in Nat /\ a[z] = ProposedFormat(SinkPin, f, z)
    BY <1>1, SizesAreNumbers
  <2>2. a[z].size = z
    BY <1>2, <2>1, ProposedFormatSizes, Zenon
  <2> QED BY <2>1, <2>2
<1>3. Keeps(a)
  BY <1>1, <1>2, SizesAreNumbers, ProposedFormatSizes, AsksAndKeeps, Zenon
<1> QED BY <1>3 DEF a

LEMMA NoAttributes ==
    ASSUME NEW cb \in Nat, cb >= cbItem
    PROVE  AttributesValid(<<>>, cb) /\ Proposals(SinkPin, <<>>) # {}
<1>1. AttributesValid(<<>>, cb)
  BY SMT DEF AttributesValid
<1>2. AttributesMode(<<>>) = DEFAULT
  BY Zenon DEF AttributesMode
<1>3. [mode |-> DEFAULT, format |-> Table] \in Proposals(SinkPin, <<>>)
  BY <1>2 DEF Proposals, GetPinSupportedDeviceModes, ModeAndDefaultFormat
<1> QED BY <1>1, <1>3

LEMMA ProposedFormat2Keeps ==
    ASSUME NEW cb \in SomeSizes \ {0, 7}
    PROVE  Keeps([z \in Sizes |-> ProposedFormat2(SinkPin, <<>>, cb, z)])
<1> DEFINE a == [z \in Sizes |-> ProposedFormat2(SinkPin, <<>>, cb, z)]
           n == QuadAligned(cbFormat) + cb
<1>1. \A z \in Sizes : a[z] = ProposedFormat2(SinkPin, <<>>, cb, z)
  OBVIOUS
<1>2. cb \in Nat /\ cb >= cbItem /\ n \in Sizes
  BY SMT DEF SomeSizes, Sizes, QuadAligned, cbFormat, cbItem, cbModeAttribute
<1>3. /\ ProposedFormat2(SinkPin, <<>>, cb, 0) = Answer("overflow", n)
      /\ ProposedFormat2(SinkPin, <<>>, cb, n).status \notin {"overflow", "too small"}
      /\ \A size \in Nat : ProposedFormat2(SinkPin, <<>>, cb, size).status = "success"
                             => ProposedFormat2(SinkPin, <<>>, cb, size).size <= size
  <2>1. PICK list : list = <<>>
    OBVIOUS
  <2>2. AttributesValid(list, cb) /\ Proposals(SinkPin, list) # {} /\ cb \in Nat
    BY <1>2, <2>1, NoAttributes
  <2>3. /\ ProposedFormat2(SinkPin, list, cb, 0) = Answer("overflow", QuadAligned(cbFormat) + cb)
        /\ ProposedFormat2(SinkPin, list, cb, QuadAligned(cbFormat) + cb).status
             \notin {"overflow", "too small"}
        /\ \A size \in Nat : ProposedFormat2(SinkPin, list, cb, size).status = "success"
                               => ProposedFormat2(SinkPin, list, cb, size).size <= size
    BY ONLY <2>2, ProposedFormat2Sizes
  <2> QED BY ONLY <2>1, <2>3
<1> HIDE DEF a, n
<1>4. Keeps(a)
  BY <1>1, <1>2, <1>3, SizesAreNumbers, AsksAndKeeps, Zenon
<1> QED BY <1>4 DEF a

LEMMA AllSizesKept == SizesKept
<1>1. ASSUME NEW a \in SizedAnswers PROVE Keeps(a)
  <2>1. CASE a \in {[z \in Sizes |-> GetLevel(z, c)] : c \in {0, ALL_CHANNELS_ID}}
    BY <2>1, LevelKeeps, Zenon
  <2>2. CASE a \in {[z \in Sizes |-> PropertyHandlerJackDescription(z, p)] : p \in JackPins}
    BY <2>2, JackKeeps, Zenon DEF PropertyHandlerJackDescription
  <2>3. CASE a \in {[z \in Sizes |-> PropertyHandlerJackDescription2(z, p)] : p \in JackPins}
    BY <2>3, JackKeeps, Zenon DEF PropertyHandlerJackDescription2
  <2>4. CASE a \in {[z \in Sizes |-> ProposedFormat(SinkPin, f, z)] : f \in SomeFormats}
    BY <2>4, ProposedFormatKeeps, Zenon
  <2>5. CASE a \in {[z \in Sizes |-> ProposedFormat2(SinkPin, <<>>, cb, z)] : cb \in SomeSizes \ {0, 7}}
    BY <2>5, ProposedFormat2Keeps, Zenon
  <2> QED BY <1>1, <2>1, <2>2, <2>3, <2>4, <2>5, Zenon DEF SizedAnswers
<1>2. ASSUME NEW a \in SupportAnswers, NEW z \in Sizes, a[z].status = "success"
      PROVE  a[z].size <= z
  <2>1. z \in Nat
    BY SizesAreNumbers
  <2>2. CASE a = [y \in Sizes |-> PropertyHandler_BasicSupport(y)]
    <3>1. a[z] = PropertyHandler_BasicSupport(z)
      BY <2>2, Zenon
    <3> QED BY <1>2, <2>1, <3>1, SupportSizes, Zenon
  <2>3. CASE a = [y \in Sizes |-> PropertyHandler_BasicSupportVolume(y)]
    <3>1. a[z] = PropertyHandler_BasicSupportVolume(z)
      BY <2>3, Zenon
    <3> QED BY <1>2, <2>1, <3>1, SupportSizes, Zenon
  <2>4. CASE a = [y \in Sizes |-> PropertyHandler_BasicSupportMute(y)]
    <3>1. a[z] = PropertyHandler_BasicSupportMute(z)
      BY <2>4, Zenon
    <3> QED BY <1>2, <2>1, <3>1, SupportSizes, Zenon
  <2> QED BY <1>2, <2>2, <2>3, <2>4, Zenon DEF SupportAnswers
<1> QED BY <1>1, <1>2, Zenon DEF SizesKept, Keeps

\* SizesAsPromised: asked with size 0 each handler names a size it then takes, and none
\* says it wrote more than there was room for, for any number of channels (kshelper.cpp,
\* mintopo.cpp, minwavert.cpp).
THEOREM SizesAreKept == EndpointSpec => []SizesAsPromised
<1>1. SizesAsPromised
  BY AllSizesKept, Zenon DEF SizesAsPromised
<1> QED BY <1>1, PTL

-----------------------------------------------------------------------------
(* Offers, for every format and every list of attributes                   *)

\* A format that was proposed with success is one that NewStream takes.
LEMMA ProposedIsAccepted ==
    ASSUME NEW pin, NEW f, NEW size, ProposedFormat(pin, f, size).status = "success"
    PROVE  NewStreamAccepts(pin, f, FALSE, <<>>, 0)
<1>1. IsSystemRenderPin(pin)
  <2>1. SUFFICES ASSUME ~IsSystemRenderPin(pin) PROVE FALSE
    OBVIOUS
  <2>2. ProposedFormat(pin, f, size) = [status |-> "not supported", size |-> size]
    BY <2>1, Zenon DEF ProposedFormat
  <2>3. ProposedFormat(pin, f, size).status = "not supported"
    BY <2>2, AnswerIs, Zenon
  <2>4. "not supported" = "success"
    BY <2>3, Zenon
  <2> QED BY ONLY <2>4
<1>2. IsFormatSupported(pin, f)
  <2>1. SUFFICES ASSUME ~IsFormatSupported(pin, f) PROVE FALSE
    OBVIOUS
  <2>2. PICK st : st \in {"overflow", "too small", "no match"} /\ ProposedFormat(pin, f, size).status = st
    <3>1. CASE size = 0
      <4>1. 0 \notin 1..(cbFormat - 1)
        BY SMT DEF cbFormat
      <4>2. ProposedFormat(pin, f, size) = [status |-> "overflow", size |-> cbFormat]
        BY <1>1, <3>1, <4>1, Zenon DEF ProposedFormat
      <4> QED BY <4>2, AnswerIs, Zenon
    <3>2. CASE size # 0 /\ size \in 1..(cbFormat - 1)
      <4>1. ProposedFormat(pin, f, size) = [status |-> "too small", size |-> size]
        BY <1>1, <3>2, Zenon DEF ProposedFormat
      <4> QED BY <4>1, AnswerIs, Zenon
    <3>3. CASE size # 0 /\ size \notin 1..(cbFormat - 1)
      <4>1. ProposedFormat(pin, f, size) = [status |-> "no match", size |-> size]
        BY <1>1, <2>1, <3>3, Zenon DEF ProposedFormat
      <4> QED BY <4>1, AnswerIs, Zenon
    <3> QED BY <3>1, <3>2, <3>3, Zenon
  <2>3. "success" \in {"overflow", "too small", "no match"}
    BY <2>2, Zenon
  <2> QED BY ONLY <2>3
<1> QED BY <1>1, <1>2, Zenon DEF NewStreamAccepts

LEMMA TableIsSupported == IsFormatSupported(SinkPin, Table)
<1>1. Matches(Table, Table)
  BY SMT DEF Matches, SameWave, SameExtension, Table
<1> QED BY <1>1, SMT DEF IsFormatSupported, GetPinSupportedDeviceFormats, SinkPin, PinCount

LEMMA ClassIsSupported == IsFormatSupported(SinkPin, ClassIntersection)
<1>1. Matches(ClassIntersection, Table)
  BY SMT DEF Matches, SameWave, SameExtension, ClassIntersection, Table
<1> QED BY <1>1, SMT DEF IsFormatSupported, GetPinSupportedDeviceFormats, SinkPin, PinCount

\* A proposal comes with attributes that were read as NewStream will read them.
LEMMA ProposalHasAttributes ==
    ASSUME NEW pin, NEW list, NEW cb, NEW size,
           ProposedFormat2(pin, list, cb, size).status = "success"
    PROVE  AttributesValid(list, cb)
<1>1. SUFFICES ASSUME ~AttributesValid(list, cb) PROVE FALSE
  OBVIOUS
<1>2. ProposedFormat2(pin, list, cb, size) = [status |-> "not supported", size |-> size]
  BY <1>1, Zenon DEF ProposedFormat2
<1>3. ProposedFormat2(pin, list, cb, size).status = "not supported"
  BY <1>2, AnswerIs, Zenon
<1>4. "not supported" = "success"
  BY <1>3, Zenon
<1> QED BY ONLY <1>4

LEMMA ProposalIsAccepted ==
    ASSUME NEW pin, NEW list, NEW cb, NEW size,
           ProposedFormat2(pin, list, cb, size).status = "success",
           NEW m \in Proposals(pin, list)
    PROVE  NewStreamAccepts(pin, m.format, TRUE, list, cb)
<1>1. AttributesValid(list, cb)
  BY ProposalHasAttributes
<1>2. pin = SinkPin /\ m \in ModeAndDefaultFormat
  BY Zenon DEF Proposals, GetPinSupportedDeviceModes
<1>3. m.format = Table
  BY <1>2 DEF ModeAndDefaultFormat
<1> QED BY <1>1, <1>2, <1>3, TableIsSupported, Zenon DEF NewStreamAccepts, IsSystemRenderPin

\* One mode in the caller's list, and a buffer that is large enough.
LEMMA ModeHasProposal ==
    ASSUME NEW m \in GetPinSupportedDeviceModes(SinkPin)
    PROVE  ProposedFormat2(SinkPin, <<[id |-> "mode", size |-> cbModeAttribute, mode |-> m.mode]>>,
                           cbItem + cbModeAttribute, 256).status = "success"
<1>1. PICK list, cb : /\ list = <<[id |-> "mode", size |-> cbModeAttribute, mode |-> m.mode]>>
                      /\ cb = cbItem + cbModeAttribute
  OBVIOUS
<1>2. cb = 48 /\ cbItem = 8 /\ cbModeAttribute = 40
  BY <1>1, SMT DEF cbItem, cbModeAttribute
<1>3. Len(list) = 1 /\ DOMAIN list = {1} /\ list # <<>>
      /\ list[1] = [id |-> "mode", size |-> 40, mode |-> m.mode]
  BY <1>1, <1>2
<1>4. AttributesValid(list, cb)
  BY <1>2, <1>3, SMT DEF AttributesValid
<1>5. AttributesMode(list) = m.mode
  BY <1>3 DEF AttributesMode
<1>6. m \in Proposals(SinkPin, list)
  BY <1>5, Zenon DEF Proposals
<1>7. PICK n : n = QuadAligned(cbFormat) + cb
  OBVIOUS
<1>8. PICK size : size = 256
  OBVIOUS
<1>9. n = 152 /\ size \notin 1..(n - 1) /\ size # 0
  BY <1>2, <1>7, <1>8, SMT DEF QuadAligned, cbFormat
<1>10. ProposedFormat2(SinkPin, list, cb, size) = [status |-> "success", size |-> n]
  BY <1>4, <1>6, <1>7, <1>9, Zenon DEF ProposedFormat2
<1>11. ProposedFormat2(SinkPin, list, cb, size).status = "success"
  BY <1>10, AnswerIs, Zenon
<1> QED BY ONLY <1>1, <1>8, <1>11

\* ProposalOpens, for any format, list of attributes and sizes: while a pin is free,
\* NewStream accepts what was offered (minwavert.cpp, PropertyHandlerProposedFormat,
\* PropertyHandlerProposedFormat2, DataRangeIntersection, GetModes and NewStream).
THEOREM EveryOfferOpens ==
    ASSUME NEW pin \in 0..(PinCount - 1)
    PROVE  /\ \A f, size : ProposedFormat(pin, f, size).status = "success"
                => NewStreamAccepts(pin, f, FALSE, <<>>, 0)
           /\ \A list, cb, size : ProposedFormat2(pin, list, cb, size).status = "success"
                => \A m \in Proposals(pin, list) : NewStreamAccepts(pin, m.format, TRUE, list, cb)
           /\ IsSystemRenderPin(pin) => NewStreamAccepts(pin, ClassIntersection, FALSE, <<>>, 0)
           /\ \A m \in GetPinSupportedDeviceModes(pin) :
                ProposedFormat2(pin, <<[id |-> "mode", size |-> cbModeAttribute, mode |-> m.mode]>>,
                                cbItem + cbModeAttribute, 256).status = "success"
<1>1. IsSystemRenderPin(pin) => NewStreamAccepts(pin, ClassIntersection, FALSE, <<>>, 0)
  BY ClassIsSupported, Zenon DEF NewStreamAccepts, IsSystemRenderPin
<1>2. ASSUME NEW m \in GetPinSupportedDeviceModes(pin) PROVE pin = SinkPin
  BY <1>2, Zenon DEF GetPinSupportedDeviceModes
<1> QED BY <1>1, <1>2, ProposedIsAccepted, ProposalIsAccepted, ModeHasProposal, Zenon

\* The same of the offers that clients of the endpoint are made.
THEOREM OffersOpen == EndpointSpec => []ProposalOpens
<1>1. OffersAccepted
  BY EveryOfferOpens, Zenon DEF OffersAccepted
<1>2. ProposalOpens
  BY <1>1, Zenon DEF ProposalOpens
<1> QED BY <1>2, PTL
=============================================================================
