------------------------------ MODULE Formats ------------------------------
(***************************************************************************)
(* What the wave filter of the speaker says about formats and modes, and   *)
(* what NewStream then accepts: the tables of                              *)
(* driver/Source/Filters/speakerwavtable.h and the checks of               *)
(* driver/Source/Main/minwavert.cpp.  Nothing changes the tables while the *)
(* driver runs, so this is a module of operators without state.            *)
(*                                                                         *)
(* A GUID is a string; a KSDATAFORMAT is a record of the fields somebody   *)
(* compares.  nAvgBytesPerSec is none of them.                             *)
(***************************************************************************)
EXTENDS Integers, Sequences

\* KSPIN_WAVE_RENDER3_SINK_SYSTEM and KSPIN_WAVE_RENDER3_SOURCE.
SinkPin == 0
BridgePin == 1
PinCount == 2

\* The one format of the sink pin: 48 kHz, 16 bits, 5.1.
Table == [major |-> "audio", sub |-> "pcm", specifier |-> "waveformatex",
          tag |-> "extensible", channels |-> 6, rate |-> 48000, block |-> 12, bits |-> 16,
          cbSize |-> 22, valid |-> 16, mask |-> 63, extSub |-> "pcm"]

DEFAULT == "default"
ModeAndDefaultFormat == [mode : {DEFAULT}, format : {Table}]

IsSystemRenderPin(pin) == pin = SinkPin
GetPinSupportedDeviceFormats(pin) == IF pin = SinkPin THEN {Table} ELSE {}
GetPinSupportedDeviceModes(pin) == IF pin = SinkPin THEN ModeAndDefaultFormat ELSE {}

cbFormat == 104       \* KSDATAFORMAT_WAVEFORMATEXTENSIBLE
cbFormatEx == 88      \* KSDATAFORMAT_WAVEFORMATEX
cbItem == 8           \* KSMULTIPLE_ITEM
cbModeAttribute == 40 \* KSATTRIBUTE_AUDIOSIGNALPROCESSING_MODE
QuadAligned(n) == ((n + 7) \div 8) * 8

-----------------------------------------------------------------------------
(* Formats.                                                                *)

SameWave(f, t) == /\ f.channels = t.channels /\ f.rate = t.rate
                  /\ f.block = t.block /\ f.bits = t.bits

SameExtension(f, t) == /\ f.cbSize >= 22
                       /\ f.valid = t.valid /\ f.mask = t.mask /\ f.extSub = t.extSub

\* Wants the extension of every format.
MatchesExtensibleOnly(f, t) ==
    /\ f.major = t.major /\ f.sub = t.sub /\ f.specifier = t.specifier
    /\ SameWave(f, t) /\ f.tag = "extensible" /\ SameExtension(f, t)

\* A WAVEFORMATEX needs the tag of the table's sub-format and has no extension.
Matches(f, t) ==
    /\ f.major = t.major /\ f.sub = t.sub /\ f.specifier = t.specifier
    /\ SameWave(f, t)
    /\ IF f.tag = "extensible" THEN SameExtension(f, t) ELSE f.tag = t.extSub

IsFormatSupported(pin, f) ==
    pin < PinCount /\ \E t \in GetPinSupportedDeviceFormats(pin) : Matches(f, t)

\* The default handler of PortCls: the best of both ranges as a plain WAVEFORMATEX.
ClassIntersection == [Table EXCEPT !.tag = "pcm", !.cbSize = 0, !.valid = 0,
                                   !.mask = 0, !.extSub = "none"]

\* A range of the client: its specifier, its number of channels and the room for the answer.
DataRangeIntersection(specifier, channels, size) ==
    CASE specifier # Table.specifier -> [status |-> "class handler", size |-> size]
      [] specifier = Table.specifier /\ size = 0 -> [status |-> "overflow", size |-> cbFormatEx]
      [] specifier = Table.specifier /\ size \in 1..(cbFormatEx - 1)
            -> [status |-> "too small", size |-> size]
      [] specifier = Table.specifier /\ size >= cbFormatEx /\ channels # Table.channels
            -> [status |-> "no match", size |-> size]
      [] OTHER -> [status |-> "class handler", size |-> size]

-----------------------------------------------------------------------------
(* Attributes and modes.                                                   *)

\* A list of attributes in cb bytes: read from the front, every one a mode of the right
\* size and all of it within the list; the last one counts.
AttributesValid(list, cb) ==
    /\ cb >= cbItem
    /\ \A i \in DOMAIN list : /\ list[i].id = "mode" /\ list[i].size = cbModeAttribute
                              /\ cb - cbItem >= i * cbModeAttribute

AttributesMode(list) == IF list = <<>> THEN DEFAULT ELSE list[Len(list)].mode

\* The number of modes; room is that of the caller's array, or -1 without one.
GetModes(pin, room) ==
    LET numModes == IF GetPinSupportedDeviceModes(pin) = {} THEN 0 ELSE 1
    IN  CASE pin >= PinCount -> [status |-> "invalid", count |-> room]
          [] pin < PinCount /\ numModes = 0 -> [status |-> "not supported", count |-> room]
          [] numModes > 0 /\ room \in 0..(numModes - 1) -> [status |-> "too small", count |-> numModes]
          [] OTHER -> [status |-> "success", count |-> numModes]

-----------------------------------------------------------------------------
(* The two properties of the filter, and NewStream.                        *)

\* KSPROPERTY_PIN_PROPOSEDATAFORMAT, verb SET: "success" promises a stream.
ProposedFormat(pin, f, size) ==
    CASE ~IsSystemRenderPin(pin) -> [status |-> "not supported", size |-> size]
      [] IsSystemRenderPin(pin) /\ size = 0 -> [status |-> "overflow", size |-> cbFormat]
      [] IsSystemRenderPin(pin) /\ size \in 1..(cbFormat - 1)
            -> [status |-> "too small", size |-> size]
      [] OTHER -> [status |-> IF IsFormatSupported(pin, f) THEN "success" ELSE "no match",
                   size |-> size]

\* The entries of the table for a mode.
Proposals(pin, list) == {m \in GetPinSupportedDeviceModes(pin) : m.mode = AttributesMode(list)}

\* KSPROPERTY_PIN_PROPOSEDATAFORMAT2, verb GET: the default format of the mode, flagged to
\* be followed by the attributes, and these.
ProposedFormat2(pin, list, cb, size) ==
    LET cbMinSize == QuadAligned(cbFormat) + cb
    IN  CASE ~AttributesValid(list, cb) \/ Proposals(pin, list) = {}
               -> [status |-> "not supported", size |-> size]
          [] AttributesValid(list, cb) /\ Proposals(pin, list) # {} /\ size = 0
               -> [status |-> "overflow", size |-> cbMinSize]
          [] AttributesValid(list, cb) /\ Proposals(pin, list) # {} /\ size \in 1..(cbMinSize - 1)
               -> [status |-> "too small", size |-> size]
          [] OTHER -> [status |-> "success", size |-> cbMinSize]

\* ValidateStreamCreate looks at the pin and at the streams there are: see Driver.
NewStreamAccepts(pin, f, attributed, list, cb) ==
    /\ attributed => AttributesValid(list, cb)
    /\ IsSystemRenderPin(pin)
    /\ IsFormatSupported(pin, f)

-----------------------------------------------------------------------------
(* Offers, over bounded inputs: see ProposalOpens in Endpoint.             *)

\* The table's format with up to two fields changed, and the plain one.
Changed(f, field) ==
    [f EXCEPT ![field] = IF field \in {"major", "sub", "specifier", "tag", "extSub"}
                           THEN "other" ELSE 0]
SomeFormats ==
    {Table, ClassIntersection, [ClassIntersection EXCEPT !.rate = 44100]}
        \cup {Changed(Table, a) : a \in DOMAIN Table}
        \cup {Changed(Changed(Table, a), b) : a, b \in DOMAIN Table}

SomeAttributes == [id : {"mode", "other"}, size : {24, cbModeAttribute}, mode : {DEFAULT, "raw"}]
SomeLists == {<<>>} \cup {<<a>> : a \in SomeAttributes} \cup {<<a, b>> : a, b \in SomeAttributes}
SomeSizes == {0, 7, cbItem, cbItem + 24, cbItem + cbModeAttribute, cbItem + 2 * cbModeAttribute}

\* Every way to be offered a format, or a mode, and what NewStream says to it.
OffersAccepted ==
    \A pin \in 0..(PinCount - 1) :
      /\ \A f \in SomeFormats :
           ProposedFormat(pin, f, cbFormat).status = "success"
             => NewStreamAccepts(pin, f, FALSE, <<>>, 0)
      /\ \A list \in SomeLists, cb \in SomeSizes :
           ProposedFormat2(pin, list, cb, 256).status = "success"
             => \A m \in Proposals(pin, list) : NewStreamAccepts(pin, m.format, TRUE, list, cb)
      /\ DataRangeIntersection("waveformatex", 6, cbFormatEx).status = "class handler"
           /\ IsSystemRenderPin(pin) => NewStreamAccepts(pin, ClassIntersection, FALSE, <<>>, 0)
      /\ GetModes(pin, 1).status = "success"
           => \A m \in GetPinSupportedDeviceModes(pin) :
                ProposedFormat2(pin, <<[id |-> "mode", size |-> cbModeAttribute, mode |-> m.mode]>>,
                                cbItem + cbModeAttribute, 256).status = "success"
=============================================================================
