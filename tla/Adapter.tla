------------------------------ MODULE Adapter ------------------------------
(***************************************************************************)
(* The life of the driver's adapter object and of the two subdevices it    *)
(* installs, the topology and the wave filter of the speaker endpoint:     *)
(* StartDevice and PnpHandler (driver/Source/Main/adapter.cpp), and        *)
(* NewAdapterCommon, Init, InstallEndpointFilters and the subdevice cache  *)
(* (driver/Source/Main/common.cpp).                                        *)
(*                                                                         *)
(* A COM reference is modelled by its holder: refs[o] is the set of those  *)
(* that hold a reference to object o, and o exists while the set is not    *)
(* empty.  The holders are other objects, the variables of a function that *)
(* runs ("unknown", "local", "caller"), the list of the adapter ("cache"), *)
(* the device extension ("extension") and PortCls ("registered", "power"). *)
(*                                                                         *)
(* The cache is searched before a subdevice is installed.  Every start     *)
(* makes a new adapter with an empty cache and installs one endpoint, so   *)
(* nothing is ever found; RemoveEndpointFilters, GetFilters and            *)
(* SetIdlePowerManagement have no caller.                                  *)
(***************************************************************************)
EXTENDS Integers, FiniteSets

Port == {"topoPort", "wavePort"}
Object == {"adapter", "topoPort", "topoMini", "wavePort", "waveMini"}
Mini(p) == IF p = "topoPort" THEN "topoMini" ELSE "waveMini"

\* Who may hold a reference, besides the streams of the next module.
Holder == Object \cup {"unknown", "local", "caller", "cache", "extension", "registered",
                       "power", "client"}

VARIABLES
    pc,          \* the next step of StartDevice or PnpHandler, or the PnP state
    irp,         \* the PnP request PnpHandler has passed on to PortCls
    instances,   \* CAdapterCommon::m_AdapterInstances
    refs,        \* the holders of every object
    connected,   \* the physical connection of the bridge pins
    pool,        \* CSaveData::m_pWorkItems: "none", "partial" or "all"
    ntStatus     \* NT_SUCCESS of the status of StartDevice

vars == <<pc, irp, instances, refs, connected, pool, ntStatus>>

PnpStates == {"removed", "failed", "started", "surprised"}
Requests == {"none", "stop", "surprise", "remove"}

Exists(o) == refs[o] # {}
Clients == {p \in Port : "client" \in refs[p]}

Init ==
    /\ pc = "removed" /\ irp = "none"
    /\ instances = 0
    /\ refs = [o \in Object |-> {}]
    /\ connected = FALSE
    /\ pool = "none"
    /\ ntStatus = TRUE

-----------------------------------------------------------------------------
(***************************************************************************)
(* The last Release of an object runs its destructor, which releases what  *)
(* the object holds.  A topology port holds its miniport, the topology     *)
(* miniport the adapter, the adapter (by its ETW helper) the wave port and *)
(* that its miniport, whose pointer to the adapter is weak.  The           *)
(* destructor of the adapter releases the helper, not the cached entries.  *)
(***************************************************************************)
Free(r, o) == IF r[o] = {} THEN [x \in Object |-> r[x] \ {o}] ELSE r
Settle(r) ==
    Free(Free(Free(Free(r, "topoPort"), "topoMini"), "adapter"), "wavePort")

Add(r, os, h) == [o \in Object |-> IF o \in os THEN r[o] \cup {h} ELSE r[o]]
Drop(r, os, hs) == [o \in Object |-> IF o \in os THEN r[o] \ hs ELSE r[o]]

\* ~CAdapterCommon frees the work items and lets another adapter be made
Adopt(r) ==
    /\ refs' = Settle(r)
    /\ IF Exists("adapter") /\ Settle(r)["adapter"] = {}
       THEN instances' = instances - 1 /\ pool' = "none"
       ELSE UNCHANGED <<instances, pool>>

-----------------------------------------------------------------------------
(* StartDevice *)

\* m_AdapterInstances is taken before the allocation and stays taken if it fails
NewAdapterCommon ==
    /\ pc = "removed"
    /\ \/ /\ instances # 0                                    \* STATUS_DEVICE_BUSY
          /\ ntStatus' = FALSE /\ pc' = "failed"
          /\ UNCHANGED <<instances, refs>>
       \/ /\ instances = 0 /\ instances' = 1                     \* no memory
          /\ ntStatus' = FALSE /\ pc' = "failed"
          /\ UNCHANGED refs
       \/ /\ instances = 0 /\ instances' = 1
          /\ refs' = [refs EXCEPT !["adapter"] = {"unknown", "extension"}]
          /\ ntStatus' = TRUE /\ pc' = "init"
    /\ UNCHANGED <<irp, connected, pool>>

\* InitializeWorkItems keeps a pool that exists, complete or not
InitializeWorkItems ==
    \/ pool' = (IF pool = "none" THEN "all" ELSE pool) /\ ntStatus' = TRUE
    \/ pool = "none" /\ pool' \in {"none", "partial"} /\ ntStatus' = FALSE

InitAdapter ==
    /\ pc = "init"
    /\ \/ ntStatus' = FALSE /\ UNCHANGED pool      \* no PDO, WDF device or HW object
       \/ InitializeWorkItems
    /\ pc' = IF ntStatus' THEN "power" ELSE "exit"
    /\ UNCHANGED <<irp, instances, refs, connected>>

\* mutant: the status of PcRegisterAdapterPowerManagement is not looked at
RegisterPowerUnchecked ==
    /\ pc = "power"
    /\ refs' \in {refs, Add(refs, {"adapter"}, "power")}
    /\ ntStatus' = TRUE /\ pc' = "topology"
    /\ UNCHANGED <<irp, instances, connected, pool>>
RegisterPower ==
    /\ pc = "power"
    /\ \/ refs' = Add(refs, {"adapter"}, "power") /\ ntStatus' = TRUE /\ pc' = "topology"
       \/ ntStatus' = FALSE /\ pc' = "exit" /\ UNCHANGED refs
    /\ UNCHANGED <<irp, instances, connected, pool>>

\* a registered port with its miniport, both held by the caller's variables too
InstallSubdevice(r, p) ==
    LET made == [r EXCEPT ![p] = {"local", "registered"}, ![Mini(p)] = {"local", p}]
    IN  IF p = "topoPort" THEN Add(made, {"adapter"}, "topoMini") ELSE made

CacheSubdevice(r, p) == Add(r, {p, Mini(p)}, "cache")
RemoveCachedSubdevice(r, ps) == Drop(r, ps \cup {Mini(p) : p \in ps}, {"cache"})
UnregisterSubdevice(r, ps) == Drop(r, ps, {"registered"})

\* any step may fail: nothing is left then, or a filter that is not in the cache
Install(p, next) ==
    /\ \/ UNCHANGED refs /\ ntStatus' = FALSE
       \/ refs' = InstallSubdevice(refs, p) /\ ntStatus' = FALSE      \* not cached
       \/ refs' = CacheSubdevice(InstallSubdevice(refs, p), p) /\ ntStatus' = TRUE
    /\ pc' = next
    /\ UNCHANGED <<irp, instances, connected, pool>>

\* the status of the topology filter is overwritten by that of the wave filter
InstallTopology == pc = "topology" /\ Install("topoPort", "wave")
InstallWave == pc = "wave" /\ Install("wavePort", "connect")

\* mutant: the status of PcRegisterPhysicalConnection is not kept
ConnectUnchecked ==
    /\ pc = "connect"
    /\ IF \A p \in Port : "local" \in refs[p]
       THEN connected' \in BOOLEAN /\ ntStatus' = TRUE
       ELSE UNCHANGED <<ntStatus, connected>>
    /\ pc' = "finish"
    /\ UNCHANGED <<irp, instances, refs, pool>>
\* on an error every connection is taken down again
ConnectTopologies ==
    /\ pc = "connect"
    /\ IF \A p \in Port : "local" \in refs[p]
       THEN ntStatus' \in BOOLEAN /\ connected' = ntStatus'
       ELSE UNCHANGED <<ntStatus, connected>>
    /\ pc' = "finish"
    /\ UNCHANGED <<irp, instances, refs, pool>>

\* what this call created: every port one of its variables points to
Created == {p \in Port : "local" \in refs[p]}
\* mutant: the filters stay registered
RolledBackCacheOnly(r) == RemoveCachedSubdevice(r, Created)
RolledBack(r) == RemoveCachedSubdevice(UnregisterSubdevice(r, Created), Created)
\* the end of InstallEndpointFilters: output parameters or clean-up
FinishInstall ==
    /\ pc = "finish"
    /\ LET r == IF ntStatus THEN Add(refs, Created, "caller") ELSE RolledBack(refs)
       IN  Adopt(Drop(r, Object, {"local"}))
    /\ pc' = "interfaces"
    /\ UNCHANGED <<irp, connected, ntStatus>>

\* InstallEndpointRenderFilters: the last interface queried decides the status
WaveInterfaces ==
    /\ pc = "interfaces"
    /\ IF "caller" \in refs["wavePort"]
       THEN \E etw \in BOOLEAN :
              /\ ntStatus' \in BOOLEAN
              /\ Adopt(Drop(IF etw THEN Add(refs, {"wavePort"}, "adapter") ELSE refs,
                            Port, {"caller"}))
       ELSE UNCHANGED <<ntStatus, refs, instances, pool>>
    /\ pc' = "exit"
    /\ UNCHANGED <<irp, connected>>

StartExit ==
    /\ pc = "exit"
    /\ Adopt(Drop(refs, {"adapter"}, {"unknown"}))
    /\ pc' = IF ntStatus THEN "started" ELSE "failed"
    /\ UNCHANGED <<irp, connected, ntStatus>>

StartDevice ==
    \/ NewAdapterCommon \/ InitAdapter \/ RegisterPower \/ InstallTopology
    \/ InstallWave \/ ConnectTopologies \/ FinishInstall \/ WaveInterfaces \/ StartExit

-----------------------------------------------------------------------------
(* PnpHandler and PortCls *)

\* handles keep a device from being stopped or removed, not from being pulled out
Request(r) ==
    /\ irp = "none"
    /\ \/ r = "stop" /\ pc = "started" /\ Clients = {}
       \/ r = "surprise" /\ pc = "started"
       \/ r = "remove" /\ pc \in PnpStates \ {"removed"} /\ Clients = {}

\* mutant: the cache is not emptied
NoCleanup(r) == r
\* Cleanup empties the cache, which breaks the cycle adapter - topology miniport
Cleanup(r) == Drop(r, Object, {"cache"})
PnpHandler(r) ==
    /\ Request(r)
    /\ IF "extension" \in refs["adapter"]
       THEN Adopt(Drop(Cleanup(refs), {"adapter"}, {"extension"}))
       ELSE UNCHANGED <<refs, instances, pool>>
    /\ irp' = r
    /\ UNCHANGED <<pc, connected, ntStatus>>

\* PortCls takes the filters away, and gives the adapter up unless handles may be open
PcDispatchIrp ==
    /\ irp # "none"
    /\ LET power == IF irp = "surprise" THEN {} ELSE {"power"}
       IN  Adopt(Drop(refs, Object, {"registered"} \cup power))
    /\ connected' = FALSE
    /\ pc' = IF irp = "surprise" THEN "surprised" ELSE "removed"
    /\ irp' = "none"
    /\ UNCHANGED ntStatus

Open(p) ==
    /\ pc = "started" /\ "registered" \in refs[p] /\ irp = "none"
    /\ refs' = Add(refs, {p}, "client")
    /\ UNCHANGED <<pc, irp, instances, connected, pool, ntStatus>>

Close(p) ==
    /\ "client" \in refs[p]
    /\ Adopt(Drop(refs, {p}, {"client"}))
    /\ UNCHANGED <<pc, irp, connected, ntStatus>>

Next ==
    \/ StartDevice
    \/ \E r \in Requests : PnpHandler(r)
    \/ PcDispatchIrp
    \/ \E p \in Port : Open(p) \/ Close(p)

Spec == Init /\ [][Next]_vars
-----------------------------------------------------------------------------
(***************************************************************************)
(* A device that was removed leaves nothing behind, whatever failed while  *)
(* it was started and whenever it was pulled out: the adapter, both ports  *)
(* and both miniports are gone, the pins are disconnected and the work     *)
(* items freed.  Adapter, cache and topology miniport hold each other in a *)
(* circle that only PnpHandler's call of Cleanup breaks.                   *)
(***************************************************************************)
NothingLeaks ==
    pc = "removed" => /\ \A o \in Object : ~Exists(o)
                      /\ ~connected /\ pool = "none"

(***************************************************************************)
(* While a stream can exist the adapter its miniport points to without a   *)
(* reference exists, and so do all work items of the pool the stream's     *)
(* file writer uses; after a surprise removal only PortCls' reference to   *)
(* the adapter keeps them.                                                 *)
(***************************************************************************)
StreamIsServed ==
    "client" \in refs["wavePort"] => Exists("adapter") /\ pool = "all"

(***************************************************************************)
(* An InstallEndpointFilters that fails leaves nothing, whichever step     *)
(* failed: no filter registered, none cached and no connection; and a      *)
(* device that has started offers its wave filter, connected exactly if it *)
(* has a topology filter too.  This is less than "Install wave+topology    *)
(* filters" (adapter.cpp, 749): the status of the topology filter is       *)
(* overwritten when the wave filter is looked for in the cache             *)
(* (common.cpp, 2183), so a device may start without it.                   *)
(***************************************************************************)
WaveFilterOrNothing ==
    /\ pc = "interfaces" /\ ~ntStatus =>
        /\ \A p \in Port : ~Exists(p) /\ ~Exists(Mini(p))
        /\ ~connected
    /\ pc = "started" /\ irp = "none" =>
        /\ "registered" \in refs["wavePort"]
        /\ connected <=> "registered" \in refs["topoPort"]
=============================================================================
