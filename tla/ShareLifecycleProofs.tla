------------------------ MODULE ShareLifecycleProofs ------------------------
(***************************************************************************)
(* The safety properties of ShareLifecycle, for any number of calling      *)
(* threads and devices.                                                    *)
(*                                                                         *)
(* None of them is inductive alone: RegistryExact depends on which call    *)
(* owns which device, TeardownOrder on the registry having been exact when *)
(* hvfs_host_close drained it, NoOrphan on the order in which a call reads *)
(* the answer of HCS and gives up its handle.  IInv below says what each   *)
(* call owns, and what a slot says about the device behind it.             *)
(***************************************************************************)
EXTENDS ShareLifecycle, FiniteSetTheorems, TLAPS

(* What each calling thread owns: a call names a device, two calls never   *)
(* the same one, an add owns the VirtioHdvDevice, a remove a boxed share;  *)
(* and a VirtioHdvDevice not boxed yet is owned by some add.               *)
Ownership ==
  /\ \A c \in Client : cpc[c] \in {"idle", "attach"} <=> cdev[c] = NoDev
  /\ \A b, c \in Client : cdev[b] = cdev[c] /\ cdev[c] # NoDev => b = c
  /\ \A c \in Client :
       /\ cpc[c] \in {"add", "addWait"} => handle[cdev[c]] = "device"
       /\ cpc[c] \in {"remove", "free"} => handle[cdev[c]] = "share"
  /\ \A d \in Dev : handle[d] = "device" =>
       \E c \in Client : cdev[c] = d /\ cpc[c] \in {"add", "addWait"}

(* No call is in progress once the host is being closed, the registry is   *)
(* empty once it was drained, and the re-arm threads are those of the      *)
(* devices not dropped yet.                                                *)
Closing ==
  /\ host # "open" => \A c \in Client : cpc[c] = "idle"
  /\ host \notin {"open", "drain"} => registry = {}
  /\ rearm = {d \in Dev : handle[d] \in {"device", "share"}}
  /\ host \in {"down", "released", "closed"} => \A d \in Dev : ctx[d] # "live"

(* Who holds the support object: HDV, and this DLL while it has one; and   *)
(* before the host is open there is no device.                             *)
Support ==
  /\ refs = hdvRefs + (IF host \in {"absent", "system", "released", "closed"}
                         THEN 0 ELSE 1)
  /\ host \in {"absent", "system"} => hdvRefs = 0
  /\ host \in {"absent", "system", "proxy", "proxied"} =>
       \A d \in Dev : handle[d] = "none"

(* What a slot says about its device: none without a device, and until the *)
(* host goes down a torn Context means a removed slot.                     *)
Slots ==
  /\ \A d \in Dev : handle[d] = "none" => slot[d] = "absent"
  /\ \A c \in Client : cpc[c] = "add" => slot[cdev[c]] = "absent"
  /\ \A d \in Dev :
       ctx[d] = "torn" /\ host \in {"open", "drain", "dead"}
         => slot[d] = "removed"

(* What the guest may still see of a device nobody has a handle of.        *)
Orphans ==
  /\ \A c \in Client : cpc[c] = "free" =>
       \/ slot[cdev[c]] = "removed"
       \/ slot[cdev[c]] = "present" /\ outcome[cdev[c]] = "unsupported"
  /\ host = "open" => \A d \in Dev : handle[d] = "freed" =>
       /\ slot[d] # "removing"
       /\ slot[d] \in {"present", "adding"}
            => outcome[d] \in {"unsupported", "timeout"}

IInv ==
  /\ TypeOK
  /\ Ownership
  /\ RegistryExact
  /\ Closing
  /\ Slots
  /\ Orphans
  /\ Support

-----------------------------------------------------------------------------
(* Before hvfs_host_open there is nothing, and IInv holds.                 *)
LEMMA InitIInv == Init => IInv
<1> SUFFICES ASSUME Init PROVE IInv
  OBVIOUS
<1>0. runtimeId \in BOOLEAN
  BY Zenon DEF Init
<1>1. TypeOK
  BY <1>0, ClientAssumption DEF Init, TypeOK
<1>2. Ownership /\ RegistryExact /\ Closing /\ Slots /\ Orphans /\ Support
  BY ClientAssumption
  DEF Init, Ownership, RegistryExact, Closing, Slots, Orphans, Support
<1> QED  BY <1>1, <1>2 DEF IInv

(* hvfs_add_share, the runtime id: the call has no device yet.             *)
LEMMA RuntimeIdStep ==
  ASSUME IInv, NEW c \in Client, RuntimeId(c)
  PROVE  IInv'
<1> USE ClientAssumption DEF IInv, RuntimeId, HcsRuntimeId, Query, Goto
<1>1. TypeOK'
  BY DEF TypeOK, Ownership, Slots, com, ids
<1>2. Ownership'
  BY DEF TypeOK, Ownership
<1>3. RegistryExact'
  BY DEF TypeOK, Ownership, RegistryExact
<1>4. Closing'
  BY DEF TypeOK, Ownership, RegistryExact, Closing
<1>5. Slots'
  BY DEF TypeOK, Ownership, Closing, Slots
<1>6. Orphans'
  BY DEF TypeOK, Ownership, Closing, Slots, Orphans
<1>7. Support'
  BY DEF TypeOK, Ownership, RegistryExact, Support, com
<1> QED  BY <1>1, <1>2, <1>3, <1>4, <1>5, <1>6, <1>7

(* hvfs_add_share, no device: the call ends with nothing changed.          *)
LEMMA AttachFailsStep ==
  ASSUME IInv, NEW c \in Client, AttachFails(c)
  PROVE  IInv'
<1> USE ClientAssumption DEF IInv, AttachFails, Goto
<1>1. TypeOK'
  BY DEF TypeOK, Ownership, Slots, com, ids
<1>2. Ownership'
  BY DEF TypeOK, Ownership
<1>3. RegistryExact'
  BY DEF TypeOK, Ownership, RegistryExact
<1>4. Closing'
  BY DEF TypeOK, Ownership, RegistryExact, Closing
<1>5. Slots'
  BY DEF TypeOK, Ownership, Closing, Slots
<1>6. Orphans'
  BY DEF TypeOK, Ownership, Closing, Slots, Orphans
<1>7. Support'
  BY DEF TypeOK, Ownership, RegistryExact, Support, com
<1> QED  BY <1>1, <1>2, <1>3, <1>4, <1>5, <1>6, <1>7

(* hvfs_add_share, the device: the new device is owned by the call.        *)
LEMMA AttachStep ==
  ASSUME IInv, NEW c \in Client, NEW d \in Dev, Attach(c, d)
  PROVE  IInv'
<1> USE ClientAssumption DEF IInv, Attach, Goto
<1>1. TypeOK'
  BY DEF TypeOK, Ownership, Slots, com, ids
<1>2. Ownership'
  BY DEF TypeOK, Ownership
<1>3. RegistryExact'
  BY DEF TypeOK, Ownership, RegistryExact
<1>4. Closing'
  BY DEF TypeOK, Ownership, RegistryExact, Closing
<1>5. Slots'
  BY DEF TypeOK, Ownership, Closing, Slots
<1>6. Orphans'
  BY DEF TypeOK, Ownership, Closing, Slots, Orphans
<1>7. Support'
  BY DEF TypeOK, Closing, Support, com
<1> QED  BY <1>1, <1>2, <1>3, <1>4, <1>5, <1>6, <1>7

(* hvfs_add_share, the request: the slot of the call's own device.         *)
LEMMA RequestAddStep ==
  ASSUME IInv, NEW c \in Client, RequestAdd(c)
  PROVE  IInv'
<1> USE ClientAssumption DEF IInv, RequestAdd, Goto
<1>1. TypeOK'
  BY DEF TypeOK, Ownership, Slots, com, ids
<1>2. Ownership'
  BY DEF TypeOK, Ownership
<1>3. RegistryExact'
  BY DEF TypeOK, Ownership, RegistryExact
<1>4. Closing'
  BY DEF TypeOK, Ownership, RegistryExact, Closing
<1>5. Slots'
  BY DEF TypeOK, Ownership, Closing, Slots
<1>6. Orphans'
  BY DEF TypeOK, Ownership, Closing, Slots, Orphans
<1>7. Support'
  BY DEF TypeOK, Ownership, RegistryExact, Support, com
<1> QED  BY <1>1, <1>2, <1>3, <1>4, <1>5, <1>6, <1>7

(* hvfs_add_share, accepted: the device becomes a registered share.        *)
LEMMA AddOkStep ==
  ASSUME IInv, NEW c \in Client, AddOk(c)
  PROVE  IInv'
<1> USE ClientAssumption DEF IInv, AddOk, Finish
<1>1. TypeOK'
  BY DEF TypeOK, Ownership, Slots, com, ids
<1>2. Ownership'
  BY DEF TypeOK, Ownership
<1>3. RegistryExact'
  BY DEF TypeOK, Ownership, RegistryExact
<1>4. Closing'
  BY DEF TypeOK, Ownership, RegistryExact, Closing
<1>5. Slots'
  BY DEF TypeOK, Ownership, Closing, Slots
<1>6. Orphans'
  BY DEF TypeOK, Ownership, Closing, Slots, Orphans
<1>7. Support'
  BY DEF TypeOK, Ownership, RegistryExact, Support, com
<1> QED  BY <1>1, <1>2, <1>3, <1>4, <1>5, <1>6, <1>7

(* hvfs_add_share, refused or late: the device is dropped.                 *)
LEMMA AddFailsStep ==
  ASSUME IInv, NEW c \in Client, AddFails(c)
  PROVE  IInv'
<1> USE ClientAssumption DEF IInv, AddFails, DropDevice, Finish
<1>1. TypeOK'
  BY DEF TypeOK, Ownership, Slots, com, ids
<1>2. Ownership'
  BY DEF TypeOK, Ownership
<1>3. RegistryExact'
  BY DEF TypeOK, Ownership, RegistryExact
<1>4. Closing'
  BY DEF TypeOK, Ownership, RegistryExact, Closing
<1>5. Slots'
  BY DEF TypeOK, Ownership, Closing, Slots
<1>6. Orphans'
  BY DEF TypeOK, Ownership, Closing, Slots, Orphans
<1>7. Support'
  BY DEF TypeOK, Ownership, RegistryExact, Support, com
<1> QED  BY <1>1, <1>2, <1>3, <1>4, <1>5, <1>6, <1>7

(* hvfs_remove_share takes a share no other call works on.                 *)
LEMMA RequestRemoveStep ==
  ASSUME IInv, NEW c \in Client, NEW d \in Dev, RequestRemove(c, d)
  PROVE  IInv'
<1> USE ClientAssumption DEF IInv, RequestRemove, Goto
<1>1. TypeOK'
  BY DEF TypeOK, Ownership, Slots, com, ids
<1>2. Ownership'
  BY DEF TypeOK, Ownership
<1>3. RegistryExact'
  BY DEF TypeOK, Ownership, RegistryExact
<1>4. Closing'
  BY DEF TypeOK, Ownership, RegistryExact, Closing
<1>5. Slots'
  BY DEF TypeOK, Ownership, Closing, Slots
<1>6. Orphans'
  BY DEF TypeOK, Ownership, Closing, Slots, Orphans
<1>7. Support'
  BY DEF TypeOK, Ownership, RegistryExact, Support, com
<1> QED  BY <1>1, <1>2, <1>3, <1>4, <1>5, <1>6, <1>7

(* hvfs_remove_share, failed: nothing but the call itself ends.            *)
LEMMA RemoveFailsStep ==
  ASSUME IInv, NEW c \in Client, RemoveFails(c)
  PROVE  IInv'
<1> USE ClientAssumption DEF IInv, RemoveFails, Finish
<1>1. TypeOK'
  BY DEF TypeOK, Ownership, Slots, com, ids
<1>2. Ownership'
  BY DEF TypeOK, Ownership
<1>3. RegistryExact'
  BY DEF TypeOK, Ownership, RegistryExact
<1>4. Closing'
  BY DEF TypeOK, Ownership, RegistryExact, Closing
<1>5. Slots'
  BY DEF TypeOK, Ownership, Closing, Slots
<1>6. Orphans'
  BY DEF TypeOK, Ownership, Closing, Slots, Orphans
<1>7. Support'
  BY DEF TypeOK, Ownership, RegistryExact, Support, com
<1> QED  BY <1>1, <1>2, <1>3, <1>4, <1>5, <1>6, <1>7

(* hvfs_remove_share, answered: the share leaves the registry first.       *)
LEMMA DeregisterStep ==
  ASSUME IInv, NEW c \in Client, Deregister(c)
  PROVE  IInv'
<1> USE ClientAssumption DEF IInv, Deregister, Goto
<1>1. TypeOK'
  BY DEF TypeOK, Ownership, Slots, com, ids
<1>2. Ownership'
  BY DEF TypeOK, Ownership
<1>3. RegistryExact'
  BY DEF TypeOK, Ownership, RegistryExact
<1>4. Closing'
  BY DEF TypeOK, Ownership, RegistryExact, Closing
<1>5. Slots'
  BY DEF TypeOK, Ownership, Closing, Slots
<1>6. Orphans'
  BY DEF TypeOK, Ownership, Closing, Slots, Orphans
<1>7. Support'
  BY DEF TypeOK, Ownership, RegistryExact, Support, com
<1> QED  BY <1>1, <1>2, <1>3, <1>4, <1>5, <1>6, <1>7

(* hvfs_remove_share, the end: the share is freed.                         *)
LEMMA FreeShareStep ==
  ASSUME IInv, NEW c \in Client, FreeShare(c)
  PROVE  IInv'
<1> USE ClientAssumption DEF IInv, FreeShare, DropDevice, Finish
<1>1. TypeOK'
  BY DEF TypeOK, Ownership, Slots, com, ids
<1>2. Ownership'
  BY DEF TypeOK, Ownership
<1>3. RegistryExact'
  BY DEF TypeOK, Ownership, RegistryExact
<1>4. Closing'
  BY DEF TypeOK, Ownership, RegistryExact, Closing
<1>5. Slots'
  BY DEF TypeOK, Ownership, Closing, Slots
<1>6. Orphans'
  BY DEF TypeOK, Ownership, Closing, Slots, Orphans
<1>7. Support'
  BY DEF TypeOK, Ownership, RegistryExact, Support, com
<1> QED  BY <1>1, <1>2, <1>3, <1>4, <1>5, <1>6, <1>7

(* hvfs_host_close, one share of the drain.                                *)
LEMMA DrainShareStep ==
  ASSUME IInv, NEW d \in Dev, DrainShare(d)
  PROVE  IInv'
<1> USE ClientAssumption DEF IInv, DrainShare, DropDevice
<1>0. handle[d] = "share" /\ \A c \in Client : cpc[c] = "idle"
  BY DEF RegistryExact, Closing
<1>1. TypeOK'
  BY <1>0 DEF TypeOK, com, ids
<1>2. Ownership'
  BY <1>0 DEF TypeOK, Ownership
<1>3. RegistryExact'
  BY DEF TypeOK, Ownership, RegistryExact
<1>4. Closing'
  BY DEF TypeOK, Ownership, RegistryExact, Closing
<1>5. Slots'
  BY DEF TypeOK, Ownership, Closing, Slots
<1>6. Orphans'
  BY DEF TypeOK, Ownership, Closing, Slots, Orphans
<1>7. Support'
  BY DEF TypeOK, Ownership, RegistryExact, Support, com
<1> QED  BY <1>1, <1>2, <1>3, <1>4, <1>5, <1>6, <1>7

(* HCS answers, or HDV takes a removed device away.                        *)
LEMMA PlatformStepStep ==
  ASSUME IInv, NEW d \in Dev, PlatformStep(d)
  PROVE  IInv'
<1> USE ClientAssumption DEF IInv, PlatformStep, Platform
<1>1. TypeOK'
  BY DEF TypeOK, Ownership, Slots, com, ids
<1>2. Ownership'
  BY DEF TypeOK, Ownership
<1>3. RegistryExact'
  BY DEF TypeOK, Ownership, RegistryExact
<1>4. Closing'
  BY DEF TypeOK, Ownership, RegistryExact, Closing
<1>5. Slots'
  BY DEF TypeOK, Ownership, Closing, Slots
<1>6. Orphans'
  BY DEF TypeOK, Ownership, Closing, Slots, Orphans
<1>7. Support'
  BY DEF TypeOK, Ownership, RegistryExact, Support, com
<1> QED  BY <1>1, <1>2, <1>3, <1>4, <1>5, <1>6, <1>7

(* hvfs_host_close outside the drain: the close begins with no call in     *)
(* progress, and the Arc it drops after the drain is the last one.         *)
LEMMA CloseHostStep ==
  ASSUME IInv,
         Close \/ DropHostArc \/ TeardownHost \/ ReleaseSupport \/ CloseSystem
  PROVE  IInv'
<1> USE ClientAssumption
    DEF IInv, TypeOK, Ownership, RegistryExact, Closing, Slots, Orphans,
        Support, calls, com, ids
<1>1. CASE Close
  BY <1>1 DEF Close
<1>2. CASE DropHostArc
  <2>1. \A d \in Dev : handle[d] \notin {"device", "share"}
    BY <1>2 DEF DropHostArc
  <2>2. host' = "dead"
    BY <1>2, <2>1 DEF DropHostArc
  <2> QED  BY <1>2, <2>2 DEF DropHostArc
<1>3. CASE TeardownHost
  BY <1>3 DEF TeardownHost
<1>4. CASE ReleaseSupport
  BY <1>4 DEF ReleaseSupport
<1>5. CASE CloseSystem
  BY <1>5 DEF CloseSystem
<1> HIDE ClientAssumption
    DEF IInv, TypeOK, Ownership, RegistryExact, Closing, Slots, Orphans,
        Support, calls, com, ids
<1> QED  BY <1>1, <1>2, <1>3, <1>4, <1>5

(* hvfs_host_open: no device yet, and our reference counted from the start.*)
LEMMA OpenHostStep ==
  ASSUME IInv, OpenStep
  PROVE  IInv'
<1> USE ClientAssumption
    DEF IInv, TypeOK, Ownership, RegistryExact, Closing, Slots, Orphans,
        Support, calls, com, ids
<1>1. CASE OpenSystem
  BY <1>1 DEF OpenSystem
<1>2. CASE NewSupport
  BY <1>2 DEF NewSupport
<1>3. CASE RegisterDeviceHost
  BY <1>3 DEF RegisterDeviceHost
<1>4. CASE HostOpened
  BY <1>4 DEF HostOpened
<1>5. CASE OpenFails
  BY <1>5 DEF OpenFails
<1> HIDE ClientAssumption
    DEF IInv, TypeOK, Ownership, RegistryExact, Closing, Slots, Orphans,
        Support, calls, com, ids
<1> QED  BY <1>1, <1>2, <1>3, <1>4, <1>5 DEF OpenStep

(* HDV takes or gives back a reference.                                    *)
LEMMA ComStep ==
  ASSUME IInv, QueryInterface \/ Release
  PROVE  IInv'
  BY ClientAssumption
  DEF IInv, TypeOK, Ownership, RegistryExact, Closing, Slots, Orphans, Support,
      calls, ids, QueryInterface, MayQuery, Release

(* A step that changes nothing.                                            *)
LEMMA StutterStep ==
  ASSUME IInv, UNCHANGED vars
  PROVE  IInv'
  BY DEF vars, com, ids, IInv, TypeOK, Ownership, RegistryExact, Closing, Slots,
         Orphans, Support

(* IInv is an invariant: every call of the ABI, every step of              *)
(* hvfs_host_close and every answer of the platform preserves it.          *)
THEOREM Invariance == Spec => []IInv
<1>1. IInv /\ [Next]_vars => IInv'
  <2> SUFFICES ASSUME IInv, [Next]_vars PROVE IInv'
    OBVIOUS
  <2>1. ASSUME NEW c \in Client, Call(c) PROVE IInv'
    BY <2>1, RuntimeIdStep, AttachStep, AttachFailsStep, RequestAddStep, AddOkStep, AddFailsStep,
       RequestRemoveStep, RemoveFailsStep, DeregisterStep, FreeShareStep
    DEF Call
  <2>2. CASE Close \/ CloseStep
    BY <2>2, DrainShareStep, CloseHostStep DEF CloseStep
  <2>3. ASSUME NEW d \in Dev, PlatformStep(d) PROVE IInv'
    BY <2>3, PlatformStepStep
  <2>4. CASE OpenStep \/ QueryInterface \/ Release
    BY <2>4, OpenHostStep, ComStep
  <2>5. CASE Closed \/ UNCHANGED vars
    BY <2>5, StutterStep DEF Closed
  <2> QED  BY <2>1, <2>2, <2>3, <2>4, <2>5 DEF Next
<1> QED  BY InitIInv, <1>1, PTL DEF Spec

-----------------------------------------------------------------------------
(* Type correctness of the DLL's and the platform's state.                 *)
THEOREM TypeCorrect == Spec => []TypeOK
<1>1. IInv => TypeOK
  BY DEF IInv
<1> QED  BY Invariance, <1>1, PTL

(* The registry of hvfs_host is exactly the set of shares with a valid     *)
(* handle that no remove is about to free: however calls interleave,       *)
(* hvfs_host_close frees each remaining share once.                        *)
THEOREM RegistryIsExact == Spec => []RegistryExact
<1>1. IInv => RegistryExact
  BY DEF IInv
<1> QED  BY Invariance, <1>1, PTL

(* hvfs_host_close tears the device host down before it releases the COM   *)
(* support and closes the HCS handle, and after every re-arm thread was    *)
(* joined: its Arc<DeviceHost> is the last one.                            *)
THEOREM TeardownInOrder == Spec => []TeardownOrder
<1>1. IInv => TeardownOrder
  BY DEF IInv, TypeOK, Ownership, RegistryExact, Closing, TeardownOrder
<1> QED  BY Invariance, <1>1, PTL

(* The COM support object outlives the device host and every reference HDV *)
(* has to it.                                                              *)
THEOREM SupportIsHeld == Spec => []SupportHeld
<1>1. IInv => SupportHeld
  BY ClientAssumption DEF IInv, TypeOK, Support, SupportHeld
<1> QED  BY Invariance, <1>1, PTL

(* A slot the guest can see has a live Context behind it until the host is *)
(* closed.                                                                 *)
THEOREM SlotsAreBacked == Spec => []SlotBacked
<1>1. IInv => SlotBacked
  BY DEF IInv, TypeOK, Slots, SlotBacked
<1> QED  BY Invariance, <1>1, PTL

(* A device the guest sees and nobody can remove comes from an unsupported *)
(* live remove or from an Add answered after the wait, from nothing else.  *)
THEOREM OrphansExplained == Spec => []NoOrphan
<1>1. IInv => NoOrphan
  BY DEF IInv, Orphans, NoOrphan
<1> QED  BY Invariance, <1>1, PTL

-----------------------------------------------------------------------------
(* The calls that got no id and have no device yet: each failed query is   *)
(* behind one of them, or behind one device without a worker link.         *)
Unlinked == {c \in Client : cpc[c] = "attach"} \ linked

SlowInv ==
  /\ linked \subseteq {c \in Client : cpc[c] = "attach"}
  /\ IsFiniteSet(slow) /\ IsFiniteSet(Unlinked)
  /\ Cardinality(slow) + Cardinality(Unlinked) <= failures

(* The query: a failed one adds a call without an id.                      *)
LEMMA QuerySlow ==
  ASSUME TypeOK, SlowInv, NEW c \in Client, RuntimeId(c)
  PROVE  SlowInv'
<1> USE DEF RuntimeId, HcsRuntimeId, Query, Goto, SlowInv, TypeOK
<1>1. linked' \subseteq {b \in Client : cpc'[b] = "attach"}
  OBVIOUS
<1>2. c \notin linked /\ slow' = slow
  OBVIOUS
<1>3. CASE linked' = linked \cup {c} /\ failures' = failures
  <2>1. Unlinked' = Unlinked
    BY <1>3 DEF Unlinked
  <2> QED  BY <1>1, <1>2, <1>3, <2>1
<1>4. CASE linked' = linked /\ failures' = failures + 1
  <2>1. Unlinked' = Unlinked \cup {c} /\ c \notin Unlinked
    BY <1>2, <1>4 DEF Unlinked
  <2>2. IsFiniteSet(Unlinked') /\ Cardinality(Unlinked') = Cardinality(Unlinked) + 1
    BY <2>1, FS_AddElement
  <2>3. Cardinality(slow) \in Nat /\ Cardinality(Unlinked) \in Nat
    BY FS_CardinalityType
  <2> QED  BY <1>1, <1>2, <1>4, <2>2, <2>3
<1> QED  BY <1>3, <1>4

(* The attach: a call without an id becomes a device without a link.       *)
LEMMA AttachSlow ==
  ASSUME TypeOK, SlowInv, NEW c \in Client,
         AttachFails(c) \/ \E d \in Dev : Attach(c, d)
  PROVE  SlowInv'
<1> USE DEF SlowInv, TypeOK
<1>1. /\ linked' \subseteq {b \in Client : cpc'[b] = "attach"}
      /\ failures' = failures
      /\ Unlinked' = Unlinked \ {c}
      /\ c \notin linked => c \in Unlinked
  BY DEF AttachFails, Attach, Goto, Unlinked
<1>2. /\ Cardinality(slow) \in Nat /\ Cardinality(Unlinked) \in Nat
      /\ IsFiniteSet(Unlinked')
      /\ Cardinality(Unlinked') =
           IF c \in Unlinked THEN Cardinality(Unlinked) - 1
                             ELSE Cardinality(Unlinked)
  BY <1>1, FS_CardinalityType, FS_RemoveElement
<1>3. CASE slow' = slow
  BY <1>1, <1>2, <1>3
<1>4. ASSUME NEW d \in Dev, Attach(c, d), c \notin linked PROVE SlowInv'
  <2>1. slow' = slow \cup {d}
    BY <1>4 DEF Attach
  <2>2. /\ IsFiniteSet(slow')
        /\ Cardinality(slow') \in {Cardinality(slow), Cardinality(slow) + 1}
    BY <2>1, FS_AddElement
  <2> QED  BY <1>1, <1>2, <1>4, <2>2
<1> QED  BY <1>3, <1>4 DEF Attach, AttachFails

(* No other step begins or ends an attach, or touches the devices' links.  *)
LEMMA OtherSlow ==
  ASSUME TypeOK, SlowInv, UNCHANGED ids,
         \A c \in Client : cpc[c] = "attach" <=> cpc'[c] = "attach"
  PROVE  SlowInv'
<1>1. Unlinked' = Unlinked
  BY DEF Unlinked, ids
<1> QED  BY <1>1 DEF SlowInv, ids

(* However many shares are added, no more of them are without a worker     *)
(* link than queries of the runtime id failed.                             *)
THEOREM SlowPathBounded == Spec => []SlowPathNotSticky
<1>1. Init => SlowInv
  <2> SUFFICES ASSUME Init PROVE SlowInv
    OBVIOUS
  <2>1. Unlinked = {} /\ slow = {} /\ failures = 0 /\ linked = {}
    BY DEF Init, Unlinked
  <2> QED  BY <2>1, FS_EmptySet DEF SlowInv
<1>2. TypeOK /\ SlowInv /\ [Next]_vars => SlowInv'
  <2> SUFFICES ASSUME TypeOK, SlowInv, [Next]_vars PROVE SlowInv'
    OBVIOUS
  <2>1. ASSUME NEW c \in Client, RuntimeId(c) PROVE SlowInv'
    BY <2>1, QuerySlow
  <2>2. ASSUME NEW c \in Client, AttachFails(c) \/ \E d \in Dev : Attach(c, d)
        PROVE  SlowInv'
    BY <2>2, AttachSlow
  <2>3. ASSUME NEW c \in Client,
               \/ \E d \in Dev : RequestRemove(c, d)
               \/ RequestAdd(c) \/ AddOk(c) \/ AddFails(c)
               \/ RemoveFails(c) \/ Deregister(c) \/ FreeShare(c)
        PROVE  SlowInv'
    <3>1. UNCHANGED ids
          /\ \A b \in Client : cpc[b] = "attach" <=> cpc'[b] = "attach"
      BY <2>3 DEF TypeOK, RequestRemove, RequestAdd, AddOk, AddFails,
         RemoveFails, Deregister, FreeShare, Goto, Finish
    <3> QED  BY <3>1, OtherSlow
  <2>4. CASE \/ OpenStep \/ QueryInterface \/ Release \/ Close \/ CloseStep
             \/ \E d \in Dev : PlatformStep(d)
             \/ Closed \/ UNCHANGED vars
    <3>1. UNCHANGED ids /\ UNCHANGED cpc
      BY <2>4, Zenon DEF OpenStep, OpenSystem, NewSupport, RegisterDeviceHost,
         HostOpened, OpenFails, QueryInterface, Release, Close, CloseStep,
         DrainShare, DropHostArc, TeardownHost, ReleaseSupport, CloseSystem,
         PlatformStep, Closed, vars, calls, ids
    <3> QED  BY <3>1, OtherSlow
  <2> QED  BY <2>1, <2>2, <2>3, <2>4 DEF Next, Call
<1>3. TypeOK /\ SlowInv => SlowPathNotSticky
  <2> SUFFICES ASSUME TypeOK, SlowInv PROVE SlowPathNotSticky
    OBVIOUS
  <2>1. Cardinality(slow) \in Nat /\ Cardinality(Unlinked) \in Nat
    BY FS_CardinalityType DEF SlowInv
  <2> QED  BY <2>1 DEF TypeOK, SlowInv, SlowPathNotSticky
<1> QED  BY TypeCorrect, <1>1, <1>2, <1>3, PTL DEF Spec
=============================================================================
