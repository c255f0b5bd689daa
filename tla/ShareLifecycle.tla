--------------------------- MODULE ShareLifecycle ---------------------------
(***************************************************************************)
(* The C ABI of crates/hyperv_virtiofs/src/lib.rs: one device host, the    *)
(* shares opened on it, and what each call leaves on the three sides that  *)
(* have state: the handles of the DLL, the HDV device instances, and the   *)
(* FlexibleIov slots of the compute system.  The host is registered        *)
(* through the COM support object of crates/hdv/src/proxy.rs, which HDV    *)
(* holds references to as long as it likes.                                *)
(*                                                                         *)
(* Threads of the embedding program call in concurrently, within the       *)
(* contract of the header: a share is removed by one call at a time, and   *)
(* the host is closed when no other call is in progress.                   *)
(*                                                                         *)
(* Each hvfs_add_share creates a device of its own.  Failing argument      *)
(* checks return an error and leave nothing, so they are no steps here.    *)
(* HCS and HDV are external: an accepted Add or Remove takes effect or is  *)
(* refused some time later, perhaps after the caller stopped waiting for   *)
(* it (30 s); once a slot is removed HDV may call the device's Teardown.   *)
(***************************************************************************)
EXTENDS Naturals, FiniteSets

CONSTANTS
  MaxRefs,    \* bound on the references HDV holds to the support object
  MaxFailures, \* bound on the queries of the runtime id that fail
  Client,     \* threads that call the ABI
  Dev,        \* devices that may be created
  NoDev

ASSUME ClientAssumption == NoDev \notin Dev /\ MaxRefs \in Nat
                           /\ MaxFailures \in Nat

VARIABLES
  cpc,        \* per thread: the call it is in
  cdev,       \* per thread: the share of that call
  registry,   \* hvfs_host.shares
  handle,     \* per device, the VirtioHdvDevice: "none", "device" (owned by
              \* the adding call), "share" (boxed in a hvfs_share), "freed"
  rearm,      \* devices whose re-arm thread runs
  ctx,        \* per device, the HDV Context with its Ops: "none", "live",
              \* "torn"
  slot,       \* per device, the FlexibleIov slot: "absent", "adding",
              \* "present", "removing", "removed"
  outcome,    \* per device: what the last call about it returned
  host,       \* hvfs_host_open: "absent", "system" (HCS handle open), "proxy"
              \* (COM support made), "proxied" (registered), then "open";
              \* hvfs_host_close: "drain", "dead" (alive is false), "down"
              \* (Arc<DeviceHost> gone), "released" (COM support), "closed"
  refs,       \* Inner.refcount of the support object; 0: none, or freed
  hdvRefs,    \* how many of them HDV holds
  runtimeId,  \* hvfs_host.runtime_id is known
  failures,   \* history: queries that failed
  linked,     \* threads whose call got an id for its device
  slow        \* devices without a WorkerLink: kicks by MMIO intercept

ids == <<runtimeId, failures, linked, slow>>
calls == <<cpc, cdev, registry, handle, rearm, ctx, outcome, ids>>
com == <<refs, hdvRefs>>
vars == <<cpc, cdev, registry, handle, rearm, ctx, slot, outcome, host, com,
          ids>>

TypeOK ==
  /\ cpc \in [Client -> {"idle", "attach", "add", "addWait", "remove",
                         "free"}]
  /\ cdev \in [Client -> Dev \cup {NoDev}]
  /\ registry \in SUBSET Dev
  /\ handle \in [Dev -> {"none", "device", "share", "freed"}]
  /\ rearm \in SUBSET Dev
  /\ ctx \in [Dev -> {"none", "live", "torn"}]
  /\ \A d \in Dev : ctx[d] = "none" <=> handle[d] = "none"
  /\ slot \in [Dev -> {"absent", "adding", "present", "removing", "removed"}]
  /\ outcome \in [Dev -> {"none", "ok", "error", "timeout", "unsupported"}]
  /\ host \in {"absent", "system", "proxy", "proxied", "open", "drain", "dead",
               "down", "released", "closed"}
  /\ refs \in Nat /\ hdvRefs \in 0 .. MaxRefs
  /\ runtimeId \in BOOLEAN /\ failures \in 0 .. MaxFailures
  /\ linked \in SUBSET Client /\ slow \in SUBSET Dev

Init ==
  /\ cpc = [c \in Client |-> "idle"]
  /\ cdev = [c \in Client |-> NoDev]
  /\ registry = {}
  /\ handle = [d \in Dev |-> "none"]
  /\ rearm = {}
  /\ ctx = [d \in Dev |-> "none"]
  /\ slot = [d \in Dev |-> "absent"]
  /\ outcome = [d \in Dev |-> "none"]
  /\ host = "absent" /\ refs = 0 /\ hdvRefs = 0
  /\ runtimeId = FALSE /\ failures = 0 /\ linked = {} /\ slow = {}

-----------------------------------------------------------------------------
(* hvfs_host_open: the HCS handle, the support object with our reference,  *)
(* then HdvInitializeDeviceHostForProxy, inside which HDV calls            *)
(* RegisterDeviceHost.  Failing calls drop what there is, in reverse.      *)

OpenSystem ==
  /\ host = "absent"
  /\ host' = "system"
  /\ UNCHANGED <<calls, slot, com>>

NewSupport ==
  /\ host = "system"
  /\ host' = "proxy"
  /\ refs' = 1
  /\ UNCHANGED <<calls, slot, hdvRefs>>

RegisterDeviceHost ==
  /\ host = "proxy" /\ hdvRefs > 0
  /\ host' = "proxied"
  /\ UNCHANGED <<calls, slot, com>>

HostOpened ==
  /\ host = "proxied"
  /\ host' = "open"
  /\ UNCHANGED <<calls, slot, com>>

OpenFails ==
  /\ host \in {"proxy", "proxied"}
  /\ host' = "down"
  /\ UNCHANGED <<calls, slot, com>>

(* HDV's references: QueryInterface or AddRef on a pointer it has, in the  *)
(* call above or by an earlier reference; Release.                         *)
MayQuery ==
  /\ host \in {"proxy", "proxied"} \/ hdvRefs > 0
  /\ hdvRefs < MaxRefs

(* A slip: hand the pointer out and not count it.                          *)
QueryInterfaceUncounted ==
  /\ MayQuery
  /\ hdvRefs' = hdvRefs + 1
  /\ UNCHANGED <<calls, slot, host, refs>>

QueryInterface ==
  /\ MayQuery
  /\ refs' = refs + 1
  /\ hdvRefs' = hdvRefs + 1
  /\ UNCHANGED <<calls, slot, host>>

Release ==
  /\ hdvRefs > 0
  /\ refs' = refs - 1
  /\ hdvRefs' = hdvRefs - 1
  /\ UNCHANGED <<calls, slot, host>>

-----------------------------------------------------------------------------
Goto(c, pc) == cpc' = [cpc EXCEPT ![c] = pc]

Finish(c, d, code) ==
  /\ cpc' = [cpc EXCEPT ![c] = "idle"]
  /\ cdev' = [cdev EXCEPT ![c] = NoDev]
  /\ outcome' = [outcome EXCEPT ![d] = code]

(* A slip: the re-arm thread is left to itself.                            *)
DropDeviceDetached(d) ==
  /\ rearm' = rearm
  /\ handle' = [handle EXCEPT ![d] = "freed"]

(* Dropping a VirtioHdvDevice joins the re-arm thread and gives up its     *)
(* Arc<DeviceHost>.  The Context stays with HDV.                           *)
DropDevice(d) ==
  /\ rearm' = rearm \ {d}
  /\ handle' = [handle EXCEPT ![d] = "freed"]

(* hvfs_add_share begins: hvfs_host::runtime_id, under its mutex.  An id   *)
(* that is known is kept, a query that fails leaves it unknown.            *)
HcsRuntimeId(ok) ==
  /\ ~runtimeId
  /\ ok \/ failures < MaxFailures
  /\ runtimeId' = ok
  /\ failures' = failures + (IF ok THEN 0 ELSE 1)

Query(c, known) ==
  /\ host = "open" /\ cpc[c] = "idle"
  /\ Goto(c, "attach")
  /\ linked' = IF known THEN linked \cup {c} ELSE linked
  /\ UNCHANGED <<cdev, registry, handle, rearm, ctx, slot, outcome, host, com,
                 slow>>

(* A slip: the outcome of the first query is kept, whatever it was.        *)
RuntimeIdOnce(c) ==
  \/ \E ok \in BOOLEAN : failures = 0 /\ HcsRuntimeId(ok) /\ Query(c, ok)
  \/ /\ runtimeId \/ failures > 0
     /\ Query(c, runtimeId)
     /\ UNCHANGED <<runtimeId, failures>>

RuntimeId(c) ==
  \/ \E ok \in BOOLEAN : HcsRuntimeId(ok) /\ Query(c, ok)
  \/ runtimeId /\ Query(c, TRUE) /\ UNCHANGED <<runtimeId, failures>>

(* Part 1: attach_shared.                                                  *)
Attach(c, d) ==
  /\ cpc[c] = "attach"
  /\ handle[d] = "none"
  /\ handle' = [handle EXCEPT ![d] = "device"]
  /\ ctx' = [ctx EXCEPT ![d] = "live"]
  /\ rearm' = rearm \cup {d}
  /\ slow' = IF c \in linked THEN slow ELSE slow \cup {d}
  /\ linked' = linked \ {c}
  /\ Goto(c, "add")
  /\ cdev' = [cdev EXCEPT ![c] = d]
  /\ UNCHANGED <<registry, slot, outcome, host, com, runtimeId, failures>>

(* It fails: no file system, no device (create_shared then reclaims the    *)
(* Context).                                                               *)
AttachFails(c) ==
  /\ cpc[c] = "attach"
  /\ linked' = linked \ {c}
  /\ Goto(c, "idle")
  /\ UNCHANGED <<cdev, registry, handle, rearm, ctx, slot, outcome, host, com,
                 runtimeId, failures, slow>>

(* Part 2: the Add request is issued...                                    *)
RequestAdd(c) ==
  /\ cpc[c] = "add"
  /\ slot' = [slot EXCEPT ![cdev[c]] = "adding"]
  /\ Goto(c, "addWait")
  /\ UNCHANGED <<cdev, registry, handle, rearm, ctx, outcome, host, com, ids>>

(* A slip: the share is handed out and not registered.                     *)
AddOkUnregistered(c) ==
  LET d == cdev[c]
  IN  /\ cpc[c] = "addWait" /\ slot[d] = "present"
      /\ handle' = [handle EXCEPT ![d] = "share"]
      /\ Finish(c, d, "ok")
      /\ UNCHANGED <<registry, rearm, ctx, slot, host, com, ids>>

(* ...and the result awaited: box the share and register it,               *)
AddOk(c) ==
  LET d == cdev[c]
  IN  /\ cpc[c] = "addWait" /\ slot[d] = "present"
      /\ handle' = [handle EXCEPT ![d] = "share"]
      /\ registry' = registry \cup {d}
      /\ Finish(c, d, "ok")
      /\ UNCHANGED <<rearm, ctx, slot, host, com, ids>>

(* A slip: a failed Add takes the Context along.                           *)
AddFailsReclaims(c) ==
  LET d == cdev[c]
  IN  /\ cpc[c] = "addWait" /\ slot[d] \in {"absent", "adding"}
      /\ DropDevice(d)
      /\ ctx' = [ctx EXCEPT ![d] = "torn"]
      /\ Finish(c, d, IF slot[d] = "absent" THEN "error" ELSE "timeout")
      /\ UNCHANGED <<registry, slot, host, com, ids>>

(* or drop the device, when the request was refused or is still pending    *)
(* after 30 s.                                                             *)
AddFails(c) ==
  LET d == cdev[c]
  IN  /\ cpc[c] = "addWait" /\ slot[d] \in {"absent", "adding"}
      /\ DropDevice(d)
      /\ Finish(c, d, IF slot[d] = "absent" THEN "error" ELSE "timeout")
      /\ UNCHANGED <<registry, ctx, slot, host, com, ids>>

-----------------------------------------------------------------------------
(* hvfs_remove_share: issue the Remove and wait.                           *)
RequestRemove(c, d) ==
  /\ host = "open" /\ cpc[c] = "idle"
  /\ handle[d] = "share"
  /\ \A b \in Client : cdev[b] # d
  /\ slot' = [slot EXCEPT ![d] = IF @ = "present" THEN "removing" ELSE @]
  /\ Goto(c, "remove")
  /\ cdev' = [cdev EXCEPT ![c] = d]
  /\ UNCHANGED <<registry, handle, rearm, ctx, outcome, host, com, ids>>

(* A slip: the handle is freed on every error.                             *)
RemoveFailsFrees(c) ==
  LET d == cdev[c]
  IN  /\ cpc[c] = "remove"
      /\ registry' = registry \ {d}
      /\ DropDevice(d)
      /\ Finish(c, d, IF slot[d] = "removing" THEN "timeout" ELSE "error")
      /\ UNCHANGED <<ctx, slot, host, com, ids>>

(* A real error, or no answer within 30 s: the handle stays valid.         *)
RemoveFails(c) ==
  LET d == cdev[c]
  IN  /\ cpc[c] = "remove"
      /\ Finish(c, d, IF slot[d] = "removing" THEN "timeout" ELSE "error")
      /\ UNCHANGED <<registry, handle, rearm, ctx, slot, host, com, ids>>

(* Done, or refused as unsupported: take the share off the registry...     *)
Deregister(c) ==
  LET d == cdev[c]
  IN  /\ cpc[c] = "remove" /\ slot[d] \in {"removed", "present"}
      /\ registry' = registry \ {d}
      /\ outcome' = [outcome EXCEPT ![d] = IF slot[d] = "removed"
                                             THEN "ok" ELSE "unsupported"]
      /\ Goto(c, "free")
      /\ UNCHANGED <<cdev, handle, rearm, ctx, slot, host, com, ids>>

(* ...and, with the lock released, free it.                                *)
FreeShare(c) ==
  LET d == cdev[c]
  IN  /\ cpc[c] = "free"
      /\ DropDevice(d)
      /\ Finish(c, d, outcome[d])
      /\ UNCHANGED <<registry, ctx, slot, host, com, ids>>

-----------------------------------------------------------------------------
(* hvfs_host_close: free what is registered, then drop the fields of       *)
(* hvfs_host in their order.                                               *)

Close ==
  /\ host = "open" /\ \A c \in Client : cpc[c] = "idle"
  /\ host' = "drain"
  /\ UNCHANGED <<calls, slot, com>>

DrainShare(d) ==
  /\ host = "drain" /\ d \in registry
  /\ registry' = registry \ {d}
  /\ DropDevice(d)
  /\ UNCHANGED <<cpc, cdev, ctx, slot, outcome, host, com, ids>>

(* hvfs_host's Arc<DeviceHost> goes.  If it is the last one, DeviceHost's  *)
(* drop clears the liveness flag, then calls HdvTeardownDeviceHost, which  *)
(* calls Teardown for every device; otherwise the host stays up.           *)
DropHostArc ==
  /\ host = "drain" /\ registry = {}
  /\ host' = IF \E d \in Dev : handle[d] \in {"device", "share"}
               THEN "down" ELSE "dead"
  /\ UNCHANGED <<calls, slot, com>>

TeardownHost ==
  /\ host = "dead"
  /\ host' = "down"
  /\ ctx' = [d \in Dev |-> IF ctx[d] = "live" THEN "torn" ELSE ctx[d]]
  /\ UNCHANGED <<cpc, cdev, registry, handle, rearm, slot, outcome, com, ids>>

ReleaseSupport ==
  /\ host = "down"
  /\ host' = "released"
  /\ refs' = refs - 1
  /\ UNCHANGED <<calls, slot, hdvRefs>>

CloseSystem ==
  /\ host = "released"
  /\ host' = "closed"
  /\ UNCHANGED <<calls, slot, com>>

-----------------------------------------------------------------------------
(* HCS and HDV (external).                                                 *)

Platform(d) ==
  \/ /\ slot[d] = "adding"
     /\ \E r \in {"present", "absent"} : slot' = [slot EXCEPT ![d] = r]
     /\ UNCHANGED ctx
  \/ /\ slot[d] = "removing"
     /\ \E r \in {"present", "removed"} : slot' = [slot EXCEPT ![d] = r]
     /\ UNCHANGED ctx
  \/ /\ slot[d] = "removed" /\ ctx[d] = "live"
     /\ ctx' = [ctx EXCEPT ![d] = "torn"]
     /\ UNCHANGED slot

PlatformStep(d) ==
  /\ Platform(d)
  /\ UNCHANGED <<cpc, cdev, registry, handle, rearm, outcome, host, com, ids>>

Closed ==
  /\ host = "closed"
  /\ UNCHANGED vars

Call(c) ==
  \/ \E d \in Dev : Attach(c, d) \/ RequestRemove(c, d)
  \/ RuntimeId(c) \/ AttachFails(c) \/ RequestAdd(c) \/ AddOk(c) \/ AddFails(c)
  \/ RemoveFails(c) \/ Deregister(c) \/ FreeShare(c)

CloseStep ==
  \/ \E d \in Dev : DrainShare(d)
  \/ DropHostArc \/ TeardownHost \/ ReleaseSupport \/ CloseSystem

OpenStep ==
  \/ OpenSystem \/ NewSupport \/ RegisterDeviceHost
  \/ HostOpened \/ OpenFails

Next ==
  \/ OpenStep
  \/ QueryInterface \/ Release
  \/ \E c \in Client : Call(c)
  \/ Close \/ CloseStep
  \/ \E d \in Dev : PlatformStep(d)
  \/ Closed

Spec == Init /\ [][Next]_vars

-----------------------------------------------------------------------------
(* The registry holds exactly the shares whose handle is valid, except one *)
(* a remove is about to free: so hvfs_host_close frees every share that    *)
(* was not removed, none twice, and a failed remove stays reclaimable      *)
(* (lib.rs, hvfs_add_share, hvfs_remove_share, hvfs_host_close).           *)
RegistryExact ==
  registry = {d \in Dev : handle[d] = "share"}
               \ {cdev[c] : c \in {b \in Client : cpc[b] = "free"}}

(* The device host is torn down before the COM support object it was       *)
(* registered through is released and the HCS handle closed: no share      *)
(* still holds it, no device of it is left (field order of hvfs_host); and *)
(* no re-arm thread is left to inject interrupts when it goes, as every    *)
(* VirtioHdvDevice joined its own before it gave up the host.              *)
TeardownOrder ==
  /\ host \in {"dead", "down", "released", "closed"} => rearm = {}
  /\ host \in {"down", "released", "closed"} =>
       \A d \in Dev : ctx[d] # "live" /\ handle[d] \in {"none", "freed"}

(* The support object is there as long as anybody may call it: HDV with a  *)
(* reference, or this DLL, from before the device host is registered until *)
(* after it is torn down ("ours is the backstop", DeviceHostSupport).      *)
SupportHeld ==
  hdvRefs > 0 \/ host \notin {"absent", "system", "released", "closed"}
    => refs > 0

(* A slot the guest can see has a live device behind it until the host is  *)
(* closed: it is added after the device, and failing or removing calls     *)
(* never take the device from under it.                                    *)
SlotBacked ==
  \A d \in Dev :
    slot[d] \in {"present", "removing"} /\ host \in {"open", "drain"}
      => ctx[d] = "live"

(* While the host is open, a device the guest sees but nobody has a handle *)
(* of comes from a live remove the platform does not support, or from an   *)
(* Add that was answered after the 30 s wait.                              *)
NoOrphan ==
  \A d \in Dev :
    slot[d] = "present" /\ handle[d] = "freed" /\ host = "open"
      => outcome[d] \in {"unsupported", "timeout"}

(* A query of the runtime id that fails costs one share its worker link,   *)
(* not the host: "transient HCS errors shouldn't pin a host to the slow    *)
(* kick path forever" (runtime_id).                                        *)
SlowPathNotSticky == Cardinality(slow) <= failures
=============================================================================
