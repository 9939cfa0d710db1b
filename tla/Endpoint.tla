------------------------------ MODULE Endpoint ------------------------------
(***************************************************************************)
(* The speaker endpoint as its clients see it: the adapter, the wave       *)
(* filter with its streams and formats (Driver, Formats) and the topology  *)
(* filter with its volume and mute nodes over the hardware object (Mixer). *)
(*                                                                         *)
(* The hardware object lives from CAdapterCommon::Init to the destructor   *)
(* of the adapter; the topology miniport resets its registers when it is   *)
(* initialised, and reaches it through the adapter it holds.  Requests     *)
(* come in on handles of the filters, also after the device was pulled     *)
(* out, and no handle is closed while one of its requests is under way.    *)
(***************************************************************************)
EXTENDS Driver, Mixer, Formats

epVars == <<allVars, mixerVars>>

EndpointInit == DriverInit /\ MixerInit

-----------------------------------------------------------------------------
(* What the steps of the adapter do to the hardware object.                *)

AdapterDies == Exists("adapter") /\ refs'["adapter"] = {}
TopologyMade == "topoPort" \in refs'["topoMini"] /\ ~Exists("topoMini")

\* CAdapterCommon::Init goes on without the object.
MakeHardwareUnchecked == \E made \in BOOLEAN : SetHardware(made)

\* Init fails before the object is made or where it is made; or later, in
\* InitializeWorkItems, or not at all.
MakeHardware ==
    \E made \in BOOLEAN : SetHardware(made) /\ (ntStatus' \/ pool' # pool => made)

HardwareStep ==
    \/ pc = "init" /\ MakeHardware
    \/ pc # "init" /\ AdapterDies /\ SetHardware(FALSE)
    \/ pc # "init" /\ TopologyMade /\ TopologyInit
    \/ pc # "init" /\ ~AdapterDies /\ ~TopologyMade /\ UNCHANGED mixerVars

TopologyOpen == "client" \in refs["topoPort"]
WaveOpen == "client" \in refs["wavePort"]

\* The handle the request came in on stays open.
RequestKeepsHandle == setting # NoSetting => "client" \in refs'["topoPort"]

DeviceStep == AdapterStep /\ HardwareStep /\ RequestKeepsHandle

-----------------------------------------------------------------------------
(* Requests of clients.                                                    *)

TopologyRequest == TopologyOpen /\ MixerRequest /\ UNCHANGED allVars

\* A client opens a pin with a format the filter takes, or drives a stream it has.
WaveRequest ==
    \E s \in Streams :
        /\ StreamStep(s)
        /\ life'[s] = "made" => \E f \in SomeFormats : NewStreamAccepts(SinkPin, f, FALSE, <<>>, 0)
        /\ UNCHANGED mixerVars

EndpointNext == DeviceStep \/ TopologyRequest \/ WaveRequest

EndpointSpec == EndpointInit /\ [][EndpointNext]_epVars

-----------------------------------------------------------------------------
(* Properties; those of Adapter, Driver, Mixer and Formats are checked     *)
(* here as well.                                                           *)

(***************************************************************************)
(* A request to the topology filter finds the adapter and its hardware     *)
(* object, whatever failed while the device was started and however often  *)
(* it was pulled out while a SET was under way: neither volume nor mute is *)
(* dropped in silence, as MixerVolumeWrite and MixerMuteWrite do without   *)
(* hardware.                                                               *)
(***************************************************************************)
RequestsReachHardware ==
    TopologyOpen \/ setting # NoSetting => Exists("adapter") /\ hw

\* What the handlers answer to every size of the caller's buffer.
Sizes == 0..256
SizedAnswers ==
    {[z \in Sizes |-> GetLevel(z, c)] : c \in {0, ALL_CHANNELS_ID}}
      \cup {[z \in Sizes |-> PropertyHandlerJackDescription(z, p)] : p \in JackPins}
      \cup {[z \in Sizes |-> PropertyHandlerJackDescription2(z, p)] : p \in JackPins}
      \cup {[z \in Sizes |-> ProposedFormat(SinkPin, f, z)] : f \in SomeFormats}
      \cup {[z \in Sizes |-> ProposedFormat2(SinkPin, <<>>, cb, z)] : cb \in SomeSizes \ {0, 7}}
SupportAnswers ==
    {[z \in Sizes |-> PropertyHandler_BasicSupport(z)],
     [z \in Sizes |-> PropertyHandler_BasicSupportVolume(z)],
     [z \in Sizes |-> PropertyHandler_BasicSupportMute(z)]}

SizesKept ==
    /\ \A a \in SizedAnswers :
         /\ a[0].status = "overflow"
         /\ a[a[0].size].status \notin {"overflow", "too small"}
    /\ \A a \in SizedAnswers \cup SupportAnswers, z \in Sizes :
         a[z].status = "success" => a[z].size <= z

(***************************************************************************)
(* The size protocol of the properties, shared by handlers that each count *)
(* bytes for themselves: asked with size 0, a handler names a size it then *)
(* takes, and it never says it wrote more than there was room for.         *)
(***************************************************************************)
SizesAsPromised == TopologyOpen \/ WaveOpen => SizesKept

(***************************************************************************)
(* What the filter offers can be had: while a pin is free, NewStream       *)
(* accepts every format that ProposedFormat accepted, that ProposedFormat2 *)
(* proposed with the attributes it was asked with, or that the class       *)
(* handler takes from the advertised range; and every mode has a proposal. *)
(* Four functions of the miniport, and PortCls, go through the tables,     *)
(* each in its own way.                                                    *)
(***************************************************************************)
ProposalOpens == WaveOpen /\ ValidateStreamCreate => OffersAccepted
=============================================================================
