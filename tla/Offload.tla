------------------------------ MODULE Offload -------------------------------
(***************************************************************************)
(* One started queue of the offload device (crates/virtio-hdv/src/         *)
(* offload.rs): the Dispatcher task that owns the VirtioQueue, the worker  *)
(* pool it fans requests out to, the completion channel back, and the      *)
(* device operations that stop, restart and drop the queue.                *)
(*                                                                         *)
(* A request is the descriptor chain it occupies.  The guest makes it      *)
(* available, the dispatcher pops it, it is served on the dispatcher       *)
(* itself or on a pool thread, and the dispatcher completes it into the    *)
(* used ring; then the guest may use the chain again.  What a request asks *)
(* for and how many bytes are returned is left out.  dispatch_one returns  *)
(* or panics; contained by catch_unwind, a panic completes the request     *)
(* with 0 bytes.                                                           *)
(*                                                                         *)
(* The VirtioQueue and the futures runtime are external and modelled from  *)
(* the way offload.rs uses them:                                           *)
(*   - try_next returns the oldest available chain and asks the guest not  *)
(*     to notify; when there is none it asks for a notification, and an    *)
(*     addition after that signals the queue event (kick);                 *)
(*   - try_next may fail at any time (a corrupt ring);                     *)
(*   - polling a source that is not ready stores the task's waker there,   *)
(*     and the next event of that source wakes the task, once.             *)
(***************************************************************************)
EXTENDS WorkerPool

CONSTANT Req             \* the descriptor chains of the queue

ASSUME ReqAssumption == Job = Req

VARIABLES
  free,       \* chains the guest's driver owns
  avail,      \* available ring: chains published and not popped, in order
  used,       \* used ring: chains completed and not yet taken by the guest
  notifyOn,   \* whether the guest is asked to notify additions
  kick,       \* the queue event is signalled
  pc,         \* where Dispatcher::run stands
  batch,      \* batch
  inflight,   \* inflight
  stopping,   \* stopping
  failed,     \* failed
  progressed, \* progressed, local to one pass of poll_fn
  done,       \* the completion channel
  stopSent,   \* the stop oneshot was fired (or its sender dropped)
  wakers,     \* sources that hold the task's waker
  woken,      \* the task is scheduled to be polled again
  device      \* the OffloadVirtioFsDevice around the queue

guestVars == <<free, avail, used, notifyOn, kick>>
taskVars  == <<pc, batch, inflight, stopping, failed, progressed>>
wakeVars  == <<wakers, woken>>
vars == <<poolVars, guestVars, taskVars, done, stopSent, wakeVars, device>>

(***************************************************************************)
(* pc of the dispatcher:                                                   *)
(*   "spawned"   the task was spawned and not polled yet                   *)
(*   "drain"     inside the try_next loop                                  *)
(*   "choose"    after it, at the adaptive-inline test                     *)
(*   "inline"    running dispatch_one itself                               *)
(*   "fanout"    in the batch.drain loop                                   *)
(*   "notify"    inside submit, lock released, before notify_one           *)
(*   "pollDone", "pollStop", "pollKick"   inside one pass of poll_fn       *)
(*   "parked"    poll_fn returned Pending                                  *)
(*   "returned"  run() gave the queue back                                 *)
(*   "cancelled" the task was dropped before it returned                   *)
(* device: "started", "stopping" (stop_queue or reset awaits the task),    *)
(*   "stopped" (slot empty), "dropped" (the device is gone), and then      *)
(*   "notify", "join", "joined" inside WorkerPool::drop.                   *)
(***************************************************************************)
PC == {"spawned", "drain", "choose", "inline", "fanout", "notify", "pollDone",
       "pollStop", "pollKick", "parked", "returned", "cancelled"}

TypeOK ==
  /\ PoolTypeOK
  /\ free \in SUBSET Req /\ avail \in Seq(Req) /\ used \in Seq(Req)
  /\ notifyOn \in BOOLEAN /\ kick \in BOOLEAN
  /\ pc \in PC
  /\ batch \in Seq(Req)
  /\ inflight \in Nat
  /\ stopping \in BOOLEAN /\ failed \in BOOLEAN /\ progressed \in BOOLEAN
  /\ done \in Seq(Req)
  /\ stopSent \in BOOLEAN
  /\ wakers \in SUBSET {"done", "stop", "kick"} /\ woken \in BOOLEAN
  /\ device \in {"started", "stopping", "stopped", "dropped",
                 "notify", "join", "joined"}

Init ==
  /\ PoolInit
  /\ free = Req /\ avail = <<>> /\ used = <<>>
  /\ notifyOn = TRUE /\ kick = FALSE
  /\ pc = "spawned" /\ batch = <<>> /\ inflight = 0
  /\ stopping = FALSE /\ failed = FALSE /\ progressed = FALSE
  /\ done = <<>>
  /\ stopSent = FALSE
  /\ wakers = {} /\ woken = FALSE
  /\ device = "started"

Elems(s) == {s[i] : i \in DOMAIN s}

(* An event of source x: wakes the task if x holds its waker.              *)
Signal(x) ==
  /\ woken' = (woken \/ x \in wakers)
  /\ wakers' = wakers \ {x}

-----------------------------------------------------------------------------
(* The guest's driver (external).                                          *)

(* The driver publishes a chain it owns, and notifies if it was asked to.  *)
GuestAdd(r) ==
  /\ device \in {"started", "stopping"}
  /\ r \in free
  /\ free' = free \ {r}
  /\ avail' = Append(avail, r)
  /\ IF notifyOn
       THEN kick' = TRUE /\ Signal("kick")
       ELSE UNCHANGED <<kick, wakeVars>>
  /\ UNCHANGED <<poolVars, used, notifyOn, taskVars, done, stopSent, device>>

(* The driver takes the oldest completed chain back.                       *)
GuestReap ==
  /\ used # <<>>
  /\ used' = Tail(used)
  /\ free' = free \cup {Head(used)}
  /\ UNCHANGED <<poolVars, avail, notifyOn, kick, taskVars, done, stopSent,
                 wakeVars, device>>

-----------------------------------------------------------------------------
(* Dispatcher::run, step 1: drain everything available.                    *)

FirstPoll ==
  /\ pc = "spawned"
  /\ pc' = "drain"
  /\ UNCHANGED <<poolVars, guestVars, batch, inflight, stopping, failed,
                 progressed, done, stopSent, wakeVars, device>>

DrainPop ==
  /\ pc = "drain" /\ ~stopping /\ ~failed
  /\ avail # <<>>
  /\ batch' = Append(batch, Head(avail))
  /\ avail' = Tail(avail)
  /\ notifyOn' = FALSE
  /\ UNCHANGED <<poolVars, free, used, kick, pc, inflight, stopping, failed,
                 progressed, done, stopSent, wakeVars, device>>

DrainEmpty ==
  /\ pc = "drain" /\ ~stopping /\ ~failed
  /\ avail = <<>>
  /\ notifyOn' = TRUE
  /\ pc' = "choose"
  /\ UNCHANGED <<poolVars, free, avail, used, kick, batch, inflight, stopping,
                 failed, progressed, done, stopSent, wakeVars, device>>

(* A slip: the error path gives up the chains it already popped.           *)
DrainErrorDropsBatch ==
  /\ pc = "drain" /\ ~stopping /\ ~failed
  /\ failed' = TRUE
  /\ pc' = "choose"
  /\ batch' = <<>>
  /\ UNCHANGED <<poolVars, guestVars, inflight, stopping, progressed, done,
                 stopSent, wakeVars, device>>

(* A corrupt ring: nothing more is popped, what was popped is served.      *)
DrainError ==
  /\ pc = "drain" /\ ~stopping /\ ~failed
  /\ failed' = TRUE
  /\ pc' = "choose"
  /\ UNCHANGED <<poolVars, guestVars, batch, inflight, stopping, progressed,
                 done, stopSent, wakeVars, device>>

DrainSkip ==
  /\ pc = "drain" /\ (stopping \/ failed)
  /\ pc' = "choose"
  /\ UNCHANGED <<poolVars, guestVars, batch, inflight, stopping, failed,
                 progressed, done, stopSent, wakeVars, device>>

-----------------------------------------------------------------------------
(* Steps 2a and 2b: a lone request on an idle queue runs on the task, any  *)
(* other batch goes to the pool.                                           *)

ChooseInline ==
  /\ pc = "choose"
  /\ inflight = 0 /\ Len(batch) = 1
  /\ pc' = "inline"
  /\ UNCHANGED <<poolVars, guestVars, batch, inflight, stopping, failed,
                 progressed, done, stopSent, wakeVars, device>>

(* The task has a catch_unwind of its own around dispatch_one; it is taken *)
(* as given here, and spelled out on the pool path.                        *)
InlineComplete ==
  /\ pc = "inline"
  /\ used' = Append(used, Head(batch))
  /\ batch' = <<>>
  /\ pc' = "drain"
  /\ UNCHANGED <<poolVars, free, avail, notifyOn, kick, inflight, stopping,
                 failed, progressed, done, stopSent, wakeVars, device>>

ChoosePool ==
  /\ pc = "choose"
  /\ ~(inflight = 0 /\ Len(batch) = 1)
  /\ pc' = "fanout"
  /\ UNCHANGED <<poolVars, guestVars, batch, inflight, stopping, failed,
                 progressed, done, stopSent, wakeVars, device>>

(* A slip: the request is submitted without being counted.                 *)
FanOutUncounted ==
  /\ pc = "fanout" /\ batch # <<>>
  /\ Push(Head(batch))
  /\ batch' = Tail(batch)
  /\ pc' = "notify"
  /\ UNCHANGED <<guestVars, inflight, stopping, failed, progressed, done,
                 stopSent, wakeVars, device>>

FanOut ==
  /\ pc = "fanout" /\ batch # <<>>
  /\ inflight' = inflight + 1
  /\ Push(Head(batch))
  /\ batch' = Tail(batch)
  /\ pc' = "notify"
  /\ UNCHANGED <<guestVars, stopping, failed, progressed, done, stopSent,
                 wakeVars, device>>

FanOutNotify ==
  /\ pc = "notify"
  /\ NotifyOne
  /\ pc' = "fanout"
  /\ UNCHANGED <<guestVars, batch, inflight, stopping, failed, progressed,
                 done, stopSent, wakeVars, device>>

(* A slip: return on the stop signal without waiting for the pool.         *)
ReturnAtOnce ==
  /\ pc = "fanout" /\ batch = <<>>
  /\ stopping
  /\ pc' = "returned"
  /\ UNCHANGED <<poolVars, guestVars, batch, inflight, stopping, failed,
                 progressed, done, stopSent, wakeVars, device>>

(* Quiesced and stopping: run() returns the queue.                         *)
Return ==
  /\ pc = "fanout" /\ batch = <<>>
  /\ stopping /\ inflight = 0
  /\ pc' = "returned"
  /\ UNCHANGED <<poolVars, guestVars, batch, inflight, stopping, failed,
                 progressed, done, stopSent, wakeVars, device>>

BeginPoll ==
  /\ pc = "fanout" /\ batch = <<>>
  /\ ~(stopping /\ inflight = 0)
  /\ pc' = "pollDone"
  /\ progressed' = FALSE
  /\ UNCHANGED <<poolVars, guestVars, batch, inflight, stopping, failed, done,
                 stopSent, wakeVars, device>>

-----------------------------------------------------------------------------
(* One pass of poll_fn: completions, then stop, then the queue event.      *)

PollComplete ==
  /\ pc = "pollDone" /\ done # <<>>
  /\ used' = Append(used, Head(done))
  /\ done' = Tail(done)
  /\ inflight' = inflight - 1
  /\ progressed' = TRUE
  /\ UNCHANGED <<poolVars, free, avail, notifyOn, kick, pc, batch, stopping,
                 failed, stopSent, wakeVars, device>>

PollDoneEmpty ==
  /\ pc = "pollDone" /\ done = <<>>
  /\ wakers' = wakers \cup {"done"}
  /\ pc' = "pollStop"
  /\ UNCHANGED <<poolVars, guestVars, batch, inflight, stopping, failed,
                 progressed, done, stopSent, woken, device>>

(* A slip: a failed queue is parked without looking at the stop signal.    *)
PollStopUnlessFailed ==
  /\ pc = "pollStop"
  /\ \/ /\ stopping \/ failed
        /\ UNCHANGED <<stopping, progressed, wakers>>
     \/ /\ ~stopping /\ ~failed /\ stopSent
        /\ stopping' = TRUE /\ progressed' = TRUE
        /\ UNCHANGED wakers
     \/ /\ ~stopping /\ ~failed /\ ~stopSent
        /\ wakers' = wakers \cup {"stop"}
        /\ UNCHANGED <<stopping, progressed>>
  /\ pc' = "pollKick"
  /\ UNCHANGED <<poolVars, guestVars, batch, inflight, failed, done, stopSent,
                 woken, device>>

(* The oneshot is not polled again once it resolved.                       *)
PollStop ==
  /\ pc = "pollStop"
  /\ \/ /\ stopping
        /\ UNCHANGED <<stopping, progressed, wakers>>
     \/ /\ ~stopping /\ stopSent
        /\ stopping' = TRUE /\ progressed' = TRUE
        /\ UNCHANGED wakers
     \/ /\ ~stopping /\ ~stopSent
        /\ wakers' = wakers \cup {"stop"}
        /\ UNCHANGED <<stopping, progressed>>
  /\ pc' = "pollKick"
  /\ UNCHANGED <<poolVars, guestVars, batch, inflight, failed, done, stopSent,
                 woken, device>>

ReadyIf(b) == pc' = IF b THEN "drain" ELSE "parked"

(* A slip: a consumed kick counts only if something was completed too.     *)
PollKickSwallowed ==
  /\ pc = "pollKick"
  /\ \/ /\ stopping \/ failed
        /\ UNCHANGED <<kick, wakers>>
     \/ /\ ~(stopping \/ failed) /\ kick
        /\ kick' = FALSE
        /\ UNCHANGED wakers
     \/ /\ ~(stopping \/ failed) /\ ~kick
        /\ wakers' = wakers \cup {"kick"}
        /\ UNCHANGED kick
  /\ ReadyIf(progressed)
  /\ UNCHANGED <<poolVars, free, avail, used, notifyOn, batch, inflight,
                 stopping, failed, progressed, done, stopSent, woken, device>>

(* While stopping or failed the queue event is not looked at.              *)
PollKick ==
  /\ pc = "pollKick"
  /\ \/ /\ stopping \/ failed
        /\ ReadyIf(progressed)
        /\ UNCHANGED <<kick, wakers>>
     \/ /\ ~(stopping \/ failed) /\ kick
        /\ kick' = FALSE
        /\ ReadyIf(TRUE)
        /\ UNCHANGED wakers
     \/ /\ ~(stopping \/ failed) /\ ~kick
        /\ wakers' = wakers \cup {"kick"}
        /\ ReadyIf(progressed)
        /\ UNCHANGED kick
  /\ UNCHANGED <<poolVars, free, avail, used, notifyOn, batch, inflight,
                 stopping, failed, progressed, done, stopSent, woken, device>>

(* The executor polls a woken task again: a new pass of poll_fn.           *)
Repoll ==
  /\ pc = "parked" /\ woken
  /\ woken' = FALSE
  /\ pc' = "pollDone"
  /\ progressed' = FALSE
  /\ UNCHANGED <<poolVars, guestVars, batch, inflight, stopping, failed, done,
                 stopSent, wakers, device>>

-----------------------------------------------------------------------------
(* Pool threads.  The job serves the request under a catch_unwind of its   *)
(* own and sends the request back, which a panic that got through would    *)
(* skip; the send fails silently once the receiver is gone.                *)

WorkerServe(w) ==
  /\ \E o \in Outcome :
       /\ RunJob(w, catch_unwind(o))
       /\ IF catch_unwind(o) = "panic"
            THEN UNCHANGED <<done, wakeVars>>
            ELSE /\ done' = IF pc \in {"returned", "cancelled"}
                              THEN done
                              ELSE Append(done, holds[w])
                 /\ Signal("done")
  /\ UNCHANGED <<guestVars, taskVars, stopSent, device>>

WorkerLoop(w) ==
  /\ PopJob(w) \/ ExitOnShutdown(w) \/ Sleep(w)
  /\ UNCHANGED <<guestVars, taskVars, done, stopSent, wakeVars, device>>

WorkerWakes(w) ==
  /\ SpuriousWakeup(w)
  /\ UNCHANGED <<guestVars, taskVars, done, stopSent, wakeVars, device>>

-----------------------------------------------------------------------------
(* The device around the queue.                                            *)

(* stop_queue, and reset for a straggler: take the slot, fire the stop     *)
(* oneshot, await the task.                                                *)
StopQueue ==
  /\ device = "started"
  /\ device' = "stopping"
  /\ stopSent' = TRUE
  /\ Signal("stop")
  /\ UNCHANGED <<poolVars, guestVars, taskVars, done>>

StopDone ==
  /\ device = "stopping" /\ pc = "returned"
  /\ device' = "stopped"
  /\ UNCHANGED <<poolVars, guestVars, taskVars, done, stopSent, wakeVars>>

(* start_queue: a new dispatcher, channel and oneshot.  Either the ring    *)
(* goes on from the queue_state() that stop_queue returned, or the guest   *)
(* reset the device and set up an empty ring.                              *)
StartQueue ==
  /\ device = "stopped"
  /\ device' = "started"
  /\ pc' = "spawned" /\ batch' = <<>> /\ inflight' = 0
  /\ stopping' = FALSE /\ failed' = FALSE /\ progressed' = FALSE
  /\ done' = <<>>
  /\ stopSent' = FALSE
  /\ wakers' = {} /\ woken' = FALSE
  /\ \/ UNCHANGED <<free, avail, used>>
     \/ free' = Req /\ avail' = <<>> /\ used' = <<>>
  /\ UNCHANGED <<poolVars, notifyOn, kick>>

(* The device is dropped.  A started queue loses its QueueWorker: the      *)
(* oneshot's sender goes first, which reads as a stop, then the task.  A   *)
(* stop that is awaited has taken the QueueWorker and fired the oneshot;   *)
(* its future goes before the device does, and the task with it.           *)
DropDevice ==
  /\ device \in {"started", "stopping", "stopped"}
  /\ device' = "dropped"
  /\ IF device = "started"
       THEN stopSent' = TRUE /\ Signal("stop")
       ELSE UNCHANGED <<stopSent, wakeVars>>
  /\ UNCHANGED <<poolVars, guestVars, taskVars, done>>

(* A dropped task is cancelled between two polls: the queue, the receiver  *)
(* and the dispatcher's Arc of the pool go away with the future.           *)
CancelTask ==
  /\ device = "dropped" /\ pc \in {"spawned", "parked"}
  /\ pc' = "cancelled"
  /\ done' = <<>>
  /\ UNCHANGED <<poolVars, guestVars, batch, inflight, stopping, failed,
                 progressed, stopSent, wakeVars, device>>

(* The last Arc of the pool is gone: WorkerPool::drop.                     *)
PoolShutdown ==
  /\ device = "dropped" /\ pc \in {"returned", "cancelled"}
  /\ SetShutdown
  /\ device' = "notify"
  /\ UNCHANGED <<guestVars, taskVars, done, stopSent, wakeVars>>

PoolNotifyAll ==
  /\ device = "notify"
  /\ NotifyAll
  /\ device' = "join"
  /\ UNCHANGED <<guestVars, taskVars, done, stopSent, wakeVars>>

PoolJoin ==
  /\ device = "join" /\ AllExited
  /\ device' = "joined"
  /\ UNCHANGED <<poolVars, guestVars, taskVars, done, stopSent, wakeVars>>

Gone ==
  /\ device = "joined"
  /\ UNCHANGED vars

-----------------------------------------------------------------------------
Guest == (\E r \in Req : GuestAdd(r)) \/ GuestReap

Drain == DrainPop \/ DrainEmpty \/ DrainSkip
Serve == ChooseInline \/ InlineComplete \/ ChoosePool \/ FanOut \/ FanOutNotify
Poll  == PollComplete \/ PollDoneEmpty \/ PollStop \/ PollKick \/ Repoll

Dispatcher == FirstPoll \/ Drain \/ Serve \/ Return \/ BeginPoll \/ Poll

PoolDrop == PoolShutdown \/ PoolNotifyAll \/ PoolJoin

Next ==
  \/ Guest
  \/ Dispatcher \/ DrainError
  \/ \E w \in Worker : WorkerServe(w) \/ WorkerLoop(w) \/ WorkerWakes(w)
  \/ StopQueue \/ StopDone \/ StartQueue \/ DropDevice \/ CancelTask
  \/ PoolDrop
  \/ Gone

(***************************************************************************)
(* The executor runs a scheduled task and the OS runs every thread: the    *)
(* dispatcher moves whenever it is not parked, a worker ends its job and   *)
(* looks at the queue again, whoever awaits the task sees it return, and a *)
(* dropped task is cancelled.  The guest owes nothing, a ring need not be  *)
(* corrupt, and nobody is obliged to stop, restart or drop the queue.      *)
(***************************************************************************)
Fairness ==
  /\ WF_vars(Dispatcher) /\ WF_vars(StopDone) /\ WF_vars(CancelTask)
  /\ \A w \in Worker : WF_vars(WorkerServe(w)) /\ WF_vars(WorkerLoop(w))
  /\ WF_vars(PoolDrop)

Spec == Init /\ [][Next]_vars /\ Fairness

-----------------------------------------------------------------------------
Live == pc \notin {"returned", "cancelled"}

(* Requests popped from the ring and not completed, with multiplicity.     *)
Popped == batch \o jobs \o done

(* inflight counts exactly the requests that are queued in the pool, in    *)
(* the hands of a worker, or on their way back in the channel.  Counting   *)
(* one too few ends a stop early, one too many never ends it               *)
(* (offload.rs run: inflight, submit, poll_fn).                            *)
InflightExact ==
  Live => inflight = Len(jobs) + Cardinality(Busy) + Len(done)

(* A chain is in one place at a time: with the guest, in one ring, in the  *)
(* batch, queued, with one worker, or in the channel.  So none is served   *)
(* twice, completed twice or lost.  A cancelled dispatcher is the          *)
(* exception: what it popped is never completed.                           *)
OwnedOnce ==
  LET places(r) ==
        LET in(s) == Cardinality({i \in DOMAIN s : s[i] = r})
        IN  (IF r \in free THEN 1 ELSE 0)
            + in(avail) + in(batch) + in(jobs) + in(done) + in(used)
            + Cardinality({w \in Worker : holds[w] = r})
  IN  \A r \in Req : places(r) = 1 \/ (places(r) = 0 /\ pc = "cancelled")

(* run() gives the queue back only when nothing is popped and uncompleted: *)
(* the queue_state() that stop_queue captures loses no descriptor          *)
(* (offload.rs:33-37).                                                     *)
QuiescedReturn ==
  pc = "returned" => Popped = <<>> /\ Busy = {}

(* The dispatcher sleeps only when nothing waits for it, or the event that *)
(* will wake it is still to come: no completion in the channel, no stop    *)
(* unseen, and, unless it no longer pops, nothing in the available ring.   *)
NoLostWakeup ==
  pc = "parked" /\ ~woken =>
    /\ done = <<>>
    /\ stopping \/ ~stopSent
    /\ stopping \/ failed \/ avail = <<>>

(* A published chain is popped and completed, unless the ring is corrupt   *)
(* or the queue stops first; a popped one is completed even then, and only *)
(* dropping the device abandons it.                                        *)
RequestServed ==
  \A r \in Req :
    /\ (r \in Elems(avail)) ~> (r \in Elems(used) \cup free
                                \/ failed \/ device # "started")
    /\ (r \in Elems(Popped)) ~> (r \in Elems(used) \cup free
                                 \/ pc = "cancelled")

(* stop_queue returns once the guest goes quiet, unless the device is      *)
(* dropped while the stop is awaited.  A guest that keeps one request      *)
(* coming keeps the dispatcher on the inline path, which never looks at    *)
(* the stop signal, so without the premise this does not hold.             *)
StopQuiesces ==
  <>[][\A r \in Req : ~GuestAdd(r)]_vars =>
    ((device = "stopping") ~> (device \in {"stopped", "dropped"}))

-----------------------------------------------------------------------------
(* Offload implements RequestQueue: a chain is with the device from the    *)
(* pop to the completion.                                                  *)

Owner(r) ==
  CASE r \in free -> "guest"
    [] r \in Elems(avail) -> "avail"
    [] r \in Elems(used) -> "used"
    [] OTHER -> "device"

Phase ==
  CASE device \in {"started", "stopping"} -> "running"
    [] device = "stopped" -> "stopped"
    [] OTHER -> "dropped"

Abstract == INSTANCE RequestQueue WITH
  owner <- [r \in Req |-> Owner(r)],
  phase <- Phase

(* Whatever the dispatcher, the pool and the device operations do, the     *)
(* guest and the transport see a queue that behaves like RequestQueue: in  *)
(* particular no chain moves while the queue is stopped, and stop_queue    *)
(* captures a state with nothing in flight.                                *)
ImplementsRequestQueue == Abstract!Spec
=============================================================================
