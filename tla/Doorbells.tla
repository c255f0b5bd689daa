------------------------------ MODULE Doorbells -----------------------------
(***************************************************************************)
(* Queue kicks by doorbell: crates/virtio-hdv/src/doorbell.rs over the two *)
(* routes of crates/hdv (Device::register_doorbell and the VM worker's     *)
(* FiovDoorbells).                                                         *)
(*                                                                         *)
(* The transport (external) registers a doorbell for each queue when the   *)
(* guest sets DRIVER_OK and drops the guards at a reset and at its own     *)
(* end.  Ops and the poll task share the transport, so when the Teardown   *)
(* callback drops Ops it is the executor that drops the transport, once it *)
(* gets to the cancelled task.  Nothing keeps Teardown apart from the poll *)
(* task: it may come in the middle of a walk over the queues, which the    *)
(* task then finishes first, as a poll is not interrupted.                 *)
(*                                                                         *)
(* HDV and the worker (external) grant or refuse a registration as they    *)
(* like, HDV grants none for a device it has freed, and the worker can     *)
(* resolve the device only while its slot is there; taking back a          *)
(* registration that exists succeeds.                                      *)
(***************************************************************************)
CONSTANTS Queue, NoQueue

ASSUME QueueAssumption == NoQueue \notin Queue

VARIABLES
  bound,      \* DeviceHandle::set was called
  worker,     \* the WorkerLink exists: the runtime id was known at attach
  conn,       \* WorkerLink.conn holds a connection
  guard,      \* per queue: the route of its DoorbellGuard, or "none"
  registered, \* per queue, platform: routes with a live registration
  asking,     \* the queue HDV refused, on its way to the worker, or NoQueue
  held,       \* references FiovDoorbells::connect holds meanwhile
  todo,       \* queues the transport still has to register or let go of
  transport,  \* "idle", "install", "running", "reset", "dropping", "dropped"
  device,     \* HDV device: "live", "teardown" (in the callback), "gone"
  slot        \* FlexibleIov slot: "absent", "present", "removed"

doorbellVars == <<bound, worker, conn, guard, registered, asking, held, todo,
                  transport, device, slot>>
connect == <<asking, held>>

Route == {"hdv", "worker"}

DoorbellTypeOK ==
  /\ bound \in BOOLEAN /\ worker \in BOOLEAN /\ conn \in BOOLEAN
  /\ guard \in [Queue -> Route \cup {"none"}]
  /\ registered \in [Queue -> SUBSET Route]
  /\ asking \in todo \cup {NoQueue}
  /\ held \in SUBSET {"access", "device"} /\ (held # {} => ~conn)
  /\ todo \in SUBSET Queue
  /\ transport \in {"idle", "install", "running", "reset", "dropping",
                    "dropped"}
  /\ device \in {"live", "teardown", "gone"}
  /\ slot \in {"absent", "present", "removed"}
  /\ transport \in {"idle", "running", "dropped"} => todo = {}
  /\ \A q \in Queue : guard[q] = "worker" /\ transport # "dropping" => conn

(* Whether hcs_runtime_id found the id: the query or its parse may fail.   *)
RuntimeIdKnown == BOOLEAN

DoorbellInit ==
  /\ bound = FALSE /\ worker \in RuntimeIdKnown /\ conn = FALSE
  /\ guard = [q \in Queue |-> "none"]
  /\ registered = [q \in Queue |-> {}]
  /\ asking = NoQueue /\ held = {}
  /\ todo = {} /\ transport = "idle"
  /\ device = "live" /\ slot = "absent"

-----------------------------------------------------------------------------
(* The end of attach_shared, then the Add of the slot.                     *)
Bind ==
  /\ ~bound
  /\ bound' = TRUE
  /\ UNCHANGED <<worker, conn, guard, registered, connect, todo, transport,
                 device, slot>>

AddSlot ==
  /\ bound /\ slot = "absent" /\ device = "live"
  /\ slot' = "present"
  /\ UNCHANGED <<bound, worker, conn, guard, registered, connect, todo,
                 transport, device>>

(* The guest sets DRIVER_OK: install_doorbells goes through the queues.    *)
DriverOk ==
  /\ slot = "present" /\ transport = "idle" /\ device = "live"
  /\ transport' = "install"
  /\ todo' = Queue
  /\ UNCHANGED <<bound, worker, conn, guard, registered, connect, device,
                 slot>>

(* What the next queue of the walk leaves.                                 *)
Step(q, next) ==
  /\ todo' = todo \ {q}
  /\ transport' = IF todo = {q} THEN next ELSE transport

(* The platform's side of a registration.                                  *)
HdvRegisterDoorbell(q) ==
  registered' = [registered EXCEPT ![q] = @ \cup {"hdv"}]

FiovRegisterDoorbell(q) ==
  registered' = [registered EXCEPT ![q] = @ \cup {"worker"}]

UnregisterDoorbell(q, r) ==
  registered' = [registered EXCEPT ![q] = @ \ {r}]

(* register_doorbell.  Route 1, granted or refused.  The handle was bound  *)
(* before the guest could see the device.                                  *)
RegisterHdv(q) ==
  /\ transport = "install" /\ asking = NoQueue /\ q \in todo /\ bound
  /\ device # "gone"
  /\ HdvRegisterDoorbell(q)
  /\ guard' = [guard EXCEPT ![q] = "hdv"]
  /\ Step(q, "running")
  /\ UNCHANGED <<bound, worker, conn, connect, device, slot>>

RefusedByHdv(q) ==
  /\ transport = "install" /\ asking = NoQueue /\ q \in todo /\ bound
  /\ asking' = q
  /\ UNCHANGED <<bound, worker, conn, guard, registered, held, todo, transport,
                 device, slot>>

(* Route 2, the connection: the worker, the device in it (only while its   *)
(* slot is there), its notification interface.  It is kept once made.      *)
Connecting == asking # NoQueue /\ worker /\ ~conn

GetVmWorkerProcess ==
  /\ Connecting /\ held = {}
  /\ held' = {"access"}
  /\ UNCHANGED <<bound, worker, conn, guard, registered, asking, todo,
                 transport, device, slot>>

GetDevice ==
  /\ Connecting /\ held = {"access"} /\ slot = "present"
  /\ held' = {"access", "device"}
  /\ UNCHANGED <<bound, worker, conn, guard, registered, asking, todo,
                 transport, device, slot>>

QueryNotification ==
  /\ Connecting /\ held = {"access", "device"}
  /\ held' = {}
  /\ conn' = TRUE
  /\ UNCHANGED <<bound, worker, guard, registered, asking, todo, transport,
                 device, slot>>

(* Route 2, over the connection.                                           *)
RegisterWorker(q) ==
  /\ asking = q /\ q \in todo /\ worker /\ conn
  /\ FiovRegisterDoorbell(q)
  /\ guard' = [guard EXCEPT ![q] = "worker"]
  /\ asking' = NoQueue
  /\ Step(q, "running")
  /\ UNCHANGED <<bound, worker, conn, held, device, slot>>

(* No worker link, a connect that fails at any of its calls, or a refusal: *)
(* the queue stays on the MMIO intercept.                                  *)
RegisterNone(q) ==
  /\ asking = q /\ q \in todo
  /\ asking' = NoQueue /\ held' = {}
  /\ Step(q, "running")
  /\ UNCHANGED <<bound, worker, conn, guard, registered, device, slot>>

-----------------------------------------------------------------------------
Reset ==
  /\ transport = "running" /\ device = "live"
  /\ transport' = "reset"
  /\ todo' = Queue
  /\ UNCHANGED <<bound, worker, conn, guard, registered, connect, device,
                 slot>>

AfterDrop(q) == Step(q, IF transport = "reset" THEN "idle" ELSE "dropped")

(* Slips: unregister through the device handle, whatever the route; look   *)
(* the device up in the worker again.                                      *)
DropGuardHdv(q) ==
  /\ transport \in {"reset", "dropping"} /\ q \in todo
  /\ guard' = [guard EXCEPT ![q] = "none"]
  /\ UnregisterDoorbell(q, "hdv")
  /\ AfterDrop(q)
  /\ UNCHANGED <<bound, worker, conn, connect, device, slot>>

DropGuardReconnects(q) ==
  /\ transport \in {"reset", "dropping"} /\ q \in todo
  /\ guard' = [guard EXCEPT ![q] = "none"]
  /\ registered' = [registered EXCEPT ![q] =
                      IF guard[q] = "worker" /\ slot # "present"
                        THEN @ ELSE @ \ {guard[q]}]
  /\ AfterDrop(q)
  /\ UNCHANGED <<bound, worker, conn, connect, device, slot>>

(* DoorbellGuard::drop, by the route of the registration.                  *)
DropGuard(q) ==
  /\ transport \in {"reset", "dropping"} /\ q \in todo
  /\ guard' = [guard EXCEPT ![q] = "none"]
  /\ UnregisterDoorbell(q, guard[q])
  /\ AfterDrop(q)
  /\ UNCHANGED <<bound, worker, conn, connect, device, slot>>

-----------------------------------------------------------------------------
(* The slot is removed; HDV calls Teardown, then frees the device; the     *)
(* executor drops the transport, its seams (the cached connection among    *)
(* them) and the guards.                                                   *)

RemoveSlot ==
  /\ slot = "present"
  /\ slot' = "removed"
  /\ UNCHANGED <<bound, worker, conn, guard, registered, connect, todo,
                 transport, device>>

Teardown ==
  /\ device = "live"
  /\ device' = "teardown"
  /\ UNCHANGED <<bound, worker, conn, guard, registered, connect, todo,
                 transport, slot>>

FreeDevice ==
  /\ device = "teardown"
  /\ device' = "gone"
  /\ registered' = [q \in Queue |-> registered[q] \ {"hdv"}]
  /\ UNCHANGED <<bound, worker, conn, guard, connect, todo, transport, slot>>

DropTransport ==
  /\ device # "live" /\ transport \in {"idle", "running"}
  /\ transport' = "dropping"
  /\ todo' = Queue
  /\ conn' = FALSE
  /\ UNCHANGED <<bound, worker, guard, registered, connect, device, slot>>

Ended ==
  /\ transport = "dropped" /\ device = "gone"
  /\ UNCHANGED doorbellVars

Install ==
  \/ \E q \in Queue :
       \/ RegisterHdv(q) \/ RefusedByHdv(q)
       \/ RegisterWorker(q) \/ RegisterNone(q)
  \/ GetVmWorkerProcess \/ GetDevice \/ QueryNotification

DoorbellNext ==
  \/ Bind \/ AddSlot \/ DriverOk \/ Reset
  \/ Install
  \/ \E q \in Queue : DropGuard(q)
  \/ RemoveSlot \/ Teardown \/ FreeDevice \/ DropTransport
  \/ Ended

(* A task goes on with the walk it is in, calls to the platform return,    *)
(* and the executor gets to the cancelled task.                            *)
DoorbellFairness ==
  /\ WF_doorbellVars(Install) /\ WF_doorbellVars(DropTransport)
  /\ WF_doorbellVars(\E q \in Queue : DropGuard(q))

DoorbellSpec ==
  DoorbellInit /\ [][DoorbellNext]_doorbellVars /\ DoorbellFairness

-----------------------------------------------------------------------------
(* A queue has one registration, on the route of its guard, and none       *)
(* without a guard, over any number of resets and whether or not the slot  *)
(* was removed before the guard went: "unregistration must take the same   *)
(* one" (Route), through an interface that cannot be fetched again.        *)
RegisteredAsGuarded ==
  \A q \in Queue :
    registered[q] = IF device = "gone" THEN {guard[q]} \ {"none", "hdv"}
                                       ELSE {guard[q]} \ {"none"}

(* A doorbell registered with HDV is taken back while HDV has the device:  *)
(* "Guards drop at device reset (device alive) or transport teardown       *)
(* (inside HDV's Teardown callback" (DoorbellGuard::drop).                 *)
UnregisterInWindow ==
  \A q \in Queue : guard[q] = "hdv" => device # "gone"

(* Once the device is torn down every doorbell is eventually taken back,   *)
(* the worker's too.                                                       *)
DoorbellsGo ==
  (device = "teardown") ~> \A q \in Queue : registered[q] = {}
=============================================================================
