------------------------------- MODULE Driver -------------------------------
(***************************************************************************)
(* The wave miniport and its streams (minwavert.cpp, minwavertstream.cpp)  *)
(* inside the life of the adapter: streams come and go through the wave    *)
(* filter while the device is started, stopped, pulled out and restarted.  *)
(* The miniport counts the pins in use, keeps a table of weak pointers to  *)
(* its streams and mixes their DRM content ids into one.                   *)
(*                                                                         *)
(* PortCls creates and closes the pins of a filter one at a time, and a    *)
(* pin's handle keeps the handle of its filter open.  The limit of streams *)
(* is taken from the filter descriptor (one for the speaker endpoint); the *)
(* miniport is written for any.  A format, its attributes and the parts of *)
(* a stream are abstracted to whether a step fails.                        *)
(***************************************************************************)
EXTENDS Adapter

CONSTANTS Streams,           \* memory for stream objects
          MaxSystemStreams,  \* m_ulMaxSystemStreams
          Contents,          \* DRM content ids of streams
          MixedContents      \* ids that CreateContentMixed may return

\* Id 0 is unprotected content; no id is handed out twice; a stream is none of the other
\* holders of references.
ASSUME DriverAssumption ==
    /\ MaxSystemStreams \in Nat \ {0}
    /\ 0 \notin Contents /\ 0 \notin MixedContents
    /\ Contents \cap MixedContents = {}
    /\ Streams \cap Holder = {}

VARIABLES
    life,              \* each stream: "none", "made" (in NewStream), "open",
                       \* "released" (the last reference is gone)
    unregister,        \* m_bUnregisterStream
    contentId,         \* m_ulContentId of each stream
    systemAllocated,   \* m_ulSystemAllocated
    systemStreams,     \* the streams m_SystemStreams points to
    mixDrmContentId    \* m_ulMixDrmContentId

\* DRM, outside the driver: the mixed contents this miniport made and did not destroy,
\* each with the ids it was mixed from; and whether the last SetContentId failed.
VARIABLES mixtures, refused

streamVars == <<life, unregister, contentId>>
miniportVars == <<systemAllocated, systemStreams>>
drmVars == <<mixDrmContentId, mixtures, refused>>
allVars == <<vars, streamVars, miniportVars, drmVars>>

Busy == \E s \in Streams : life[s] \in {"made", "released"}
MadeBy(m) == {mix.from : mix \in {x \in mixtures : x.id = m}}

DriverInit ==
    /\ Init
    /\ life = [s \in Streams |-> "none"] /\ unregister = [s \in Streams |-> FALSE]
    /\ contentId = [s \in Streams |-> 0]
    /\ systemAllocated = 0 /\ systemStreams = {}
    /\ mixDrmContentId = 0 /\ mixtures = {} /\ refused = FALSE

-----------------------------------------------------------------------------
(* The adapter's steps.  A wave miniport that is installed is a new object *)
(* whose Init starts from nothing; the last mixture of the old one is      *)
(* never destroyed, and not looked at any more.                            *)

MiniportInit ==
    IF "wavePort" \in refs'["waveMini"] /\ ~Exists("waveMini")
    THEN /\ systemAllocated' = 0 /\ systemStreams' = {}
         /\ mixDrmContentId' = 0 /\ mixtures' = {} /\ refused' = FALSE
    ELSE UNCHANGED <<miniportVars, drmVars>>

\* A filter's handle stays while it has pins.
CloseUnused(p) == (p = "wavePort" => \A s \in Streams : life[s] = "none") /\ Close(p)

AdapterStep ==
    /\ \/ StartDevice \/ PcDispatchIrp
       \/ \E r \in Requests : PnpHandler(r)
       \/ \E p \in Port : Open(p) \/ CloseUnused(p)
    /\ MiniportInit
    /\ UNCHANGED streamVars

-----------------------------------------------------------------------------
(* UpdateDrmRights: mixes the ids of the streams in the table.             *)

\* mutant: the old mixture stays
MixKeepsOld(ids) ==
    \E new \in MixedContents \ {mix.id : mix \in mixtures} :
        /\ mixtures' = mixtures \cup {[id |-> new, from |-> ids]}
        /\ mixDrmContentId' = new
\* CreateContentMixed and GetContentRights succeed: the old mixture is destroyed
Mix(ids) ==
    \E new \in MixedContents \ {mix.id : mix \in mixtures} :
        /\ mixtures' = {mix \in mixtures : mix.id # mixDrmContentId}
                           \cup {[id |-> new, from |-> ids]}
        /\ mixDrmContentId' = new

\* no DRM port, no memory, no stream, or a call of the DRM port fails: what was
\* created is destroyed again
UpdateDrmRights(ids, ok) ==
    /\ ok => ids # {}
    /\ IF ok THEN Mix(ids) ELSE UNCHANGED <<mixDrmContentId, mixtures>>

-----------------------------------------------------------------------------
(* NewStream and CMiniportWaveRTStream::Init.                              *)

ValidateStreamCreate == systemAllocated < MaxSystemStreams

\* A stream object is made once attributes, pin and format were found good.
NewStream(s) ==
    /\ life[s] = "none" /\ ~Busy
    /\ pc = "started" /\ "client" \in refs["wavePort"]
    /\ ValidateStreamCreate
    /\ life' = [life EXCEPT ![s] = "made"]
    /\ UNCHANGED <<vars, unregister, contentId, miniportVars, drmVars>>

\* No timer, no wave format: the stream does not know its miniport yet.
InitFailsEarly(s) ==
    /\ life[s] = "made"
    /\ life' = [life EXCEPT ![s] = "released"]
    /\ UNCHANGED <<vars, unregister, contentId, miniportVars, drmVars>>

StreamCreated(s) ==
    /\ systemAllocated' = systemAllocated + 1
    /\ systemStreams' = systemStreams \cup {s}

\* mutant: the stream is to be unregistered although Init fails before StreamCreated
InitRegistersFirst(s, ok) == unregister' = [unregister EXCEPT ![s] = TRUE]
Registers(s, ok) == unregister' = [unregister EXCEPT ![s] = ok]

\* Holds the miniport, allocates its parts and its file, and registers last.
InitStream(s, ok) ==
    /\ life[s] = "made"
    /\ life' = [life EXCEPT ![s] = IF ok THEN "open" ELSE "released"]
    /\ Registers(s, ok)
    /\ refs' = Add(refs, {"waveMini"}, s)
    /\ IF ok THEN StreamCreated(s) ELSE UNCHANGED miniportVars
    /\ UNCHANGED <<pc, irp, instances, connected, pool, ntStatus, contentId, drmVars>>

-----------------------------------------------------------------------------
(* The life of an open stream.                                             *)

\* mutant: the id is stored after the update
SetContentIdLate(s, c, ok) ==
    /\ life[s] = "open" /\ ~Busy
    /\ contentId' = [contentId EXCEPT ![s] = c]
    /\ UpdateDrmRights({contentId[t] : t \in systemStreams}, ok)
    /\ refused' = ~ok
    /\ UNCHANGED <<vars, life, unregister, miniportVars>>
\* A failed update leaves the new id: what is restored is the new one too.
SetContentId(s, c, ok) ==
    /\ life[s] = "open" /\ ~Busy
    /\ contentId' = [contentId EXCEPT ![s] = c]
    /\ UpdateDrmRights({contentId'[t] : t \in systemStreams}, ok)
    /\ refused' = ~ok
    /\ UNCHANGED <<vars, life, unregister, miniportVars>>

\* The client closes the pin.
CloseStream(s) ==
    /\ life[s] = "open" /\ ~Busy
    /\ life' = [life EXCEPT ![s] = "released"]
    /\ UNCHANGED <<vars, unregister, contentId, miniportVars, drmVars>>

StreamClosed(s, ok) ==
    /\ systemAllocated' = systemAllocated - 1
    /\ systemStreams' = systemStreams \ {s}
    /\ UpdateDrmRights({contentId[t] : t \in systemStreams'}, ok)
    /\ refused' = (refused /\ ~ok)

\* ~CMiniportWaveRTStream, also of a stream whose Init failed.
DestroyStream(s, ok) ==
    /\ life[s] = "released"
    /\ IF unregister[s] THEN StreamClosed(s, ok) ELSE UNCHANGED <<miniportVars, drmVars>>
    /\ Adopt(Drop(refs, {"waveMini"}, {s}))
    /\ life' = [life EXCEPT ![s] = "none"]
    /\ unregister' = [unregister EXCEPT ![s] = FALSE]
    /\ contentId' = [contentId EXCEPT ![s] = 0]
    /\ UNCHANGED <<pc, irp, connected, ntStatus>>

StreamStep(s) ==
    \/ NewStream(s) \/ InitFailsEarly(s) \/ CloseStream(s)
    \/ \E ok \in BOOLEAN : InitStream(s, ok) \/ DestroyStream(s, ok)
    \/ \E ok \in BOOLEAN, c \in Contents : SetContentId(s, c, ok)

DriverNext == AdapterStep \/ \E s \in Streams : StreamStep(s)

DriverSpec == DriverInit /\ [][DriverNext]_allVars

-----------------------------------------------------------------------------
(* Properties; those of Adapter are checked here as well.                  *)

(***************************************************************************)
(* The pins in use are the streams the table points to, none of which is   *)
(* gone, whatever failed while a stream was made: a count that stayed too  *)
(* high would refuse every later stream, one too low would wrap below 0,   *)
(* and a pointer that stayed would be used by the next UpdateDrmRights.    *)
(***************************************************************************)
PinsMatchStreams ==
    /\ systemAllocated = Cardinality(systemStreams)
    /\ systemAllocated <= MaxSystemStreams
    /\ \A s \in systemStreams : life[s] # "none" /\ s \in refs["waveMini"]

(***************************************************************************)
(* The miniport destroys every mixture it made but the one it keeps.       *)
(***************************************************************************)
OneMixture == \A mix \in mixtures : mix.id = mixDrmContentId

(***************************************************************************)
(* The mixture contains the content of every stream, unless the last       *)
(* SetContentId was refused: no order of streams and of failed updates     *)
(* leaves a stream out.                                                    *)
(***************************************************************************)
MixtureCoversStreams ==
    ~refused => \A s \in systemStreams :
        contentId[s] # 0 => \E from \in MadeBy(mixDrmContentId) : contentId[s] \in from
=============================================================================
