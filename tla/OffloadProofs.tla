---------------------------- MODULE OffloadProofs ---------------------------
(***************************************************************************)
(* Safety of the offload queue for any number of workers and chains: the   *)
(* in-flight count is exact, run() returns only when quiesced, and no      *)
(* wakeup of the dispatcher is lost.                                       *)
(*                                                                         *)
(* The count needs to know that a stopped queue has returned (Counting);   *)
(* the wakeups need to know, source by source, from where in a pass on the *)
(* waker is armed or the task already woken, and that a chain published    *)
(* after the last look at the ring leaves a kick behind (Waking).          *)
(***************************************************************************)
EXTENDS Offload, FiniteSetTheorems, SequenceTheorems, TLAPS

(* TypeOK without the flags, and with what the count needs of it.          *)
DataOK ==
  /\ jobs \in Seq(Req)
  /\ wpc \in [Worker -> {"ready", "run", "wait", "exited"}]
  /\ holds \in [Worker -> Req \cup {NoJob}]
  /\ \A w \in Worker : holds[w] # NoJob <=> wpc[w] = "run"
  /\ free \in SUBSET Req /\ avail \in Seq(Req) /\ used \in Seq(Req)
  /\ pc \in PC
  /\ batch \in Seq(Req) /\ done \in Seq(Req)
  /\ inflight \in Nat
  /\ wakers \in SUBSET {"done", "stop", "kick"}
  /\ device \in {"started", "stopping", "stopped", "dropped",
                 "notify", "join", "joined"}

Counting ==
  /\ InflightExact
  /\ QuiescedReturn
  /\ device = "stopped" => pc = "returned"
  /\ pc = "inline" => Len(batch) = 1

(* The dispatcher is past its last look at the ring in this round.         *)
Looked == pc \notin {"spawned", "drain", "returned", "cancelled"}

Waking ==
  /\ pc \in {"pollStop", "pollKick", "parked"} /\ ~woken =>
       "done" \in wakers /\ done = <<>>
  /\ pc \in {"pollKick", "parked"} /\ ~woken =>
       stopping \/ (~stopSent /\ "stop" \in wakers)
  /\ pc = "parked" /\ ~woken =>
       stopping \/ failed \/ (~kick /\ "kick" \in wakers)
  /\ Looked /\ ~stopping /\ ~failed => notifyOn /\ (avail = <<>> \/ kick)

-----------------------------------------------------------------------------
(* Threads that run a job can be counted.                                  *)
LEMMA BusyFinite ==
  /\ IsFiniteSet(Busy) /\ Cardinality(Busy) \in Nat
  /\ Cardinality(Busy) = 0 <=> Busy = {}
<1>1. Busy \subseteq Worker
  BY DEF Busy
<1>2. IsFiniteSet(Busy)
  BY <1>1, PoolAssumption, FS_Subset
<1> QED  BY <1>2, FS_CardinalityType, FS_EmptySet

(* The count is in place at the start.                                     *)
LEMMA InitCounts == Init => DataOK /\ Counting
<1> SUFFICES ASSUME Init PROVE DataOK /\ Counting
  OBVIOUS
<1>1. DataOK
  BY PoolAssumption DEF Init, PoolInit, DataOK, PC
<1>2. Busy = {}
  BY DEF Init, PoolInit, Busy
<1>3. Cardinality(Busy) = 0
  BY <1>2, FS_EmptySet
<1> QED  BY <1>1, <1>3 DEF Init, PoolInit, Counting, InflightExact,
         QuiescedReturn, Live

(* A step of neither the pool nor the dispatcher's counters.               *)
LEMMA FrameCounts ==
  ASSUME Counting, DataOK, UNCHANGED <<poolVars, batch, inflight, done>>,
         pc' = pc \/ (Live /\ pc' \in PC \ {"inline", "returned"}),
         device' = "stopped" => pc' = "returned"
  PROVE  Counting'
<1>1. Busy' = Busy
  BY DEF poolVars, Busy
<1> QED  BY <1>1 DEF DataOK, poolVars, Counting, InflightExact, QuiescedReturn,
         Live, Popped

(* The guest moves chains only between its own hands and the rings.        *)
LEMMA GuestCounts ==
  ASSUME DataOK, Counting, Guest
  PROVE  DataOK' /\ Counting'
<1> USE DEF poolVars, guestVars, taskVars, wakeVars
<1>1. ASSUME NEW r \in Req, GuestAdd(r) PROVE DataOK'
  <2>1. avail' \in Seq(Req) /\ free' \in SUBSET Req
    BY <1>1 DEF GuestAdd, DataOK
  <2>2. wakers' \in SUBSET {"done", "stop", "kick"}
    BY <1>1, Zenon DEF GuestAdd, DataOK, Signal
  <2> QED  BY <1>1, <2>1, <2>2 DEF GuestAdd, DataOK
<1>2. ASSUME GuestReap PROVE DataOK'
  BY <1>2 DEF GuestReap, DataOK
<1>3. /\ UNCHANGED <<poolVars, batch, inflight, done, pc>>
      /\ device' = device
  BY DEF Guest, GuestAdd, GuestReap
<1> QED  BY <1>1, <1>2, <1>3, FrameCounts DEF Guest, Counting

(* The drain loop takes chains from the ring into the batch.               *)
LEMMA DrainCounts ==
  ASSUME DataOK, Counting, FirstPoll \/ Drain \/ DrainError
  PROVE  DataOK' /\ Counting'
<1> USE DEF poolVars, guestVars, taskVars, wakeVars
<1>1. CASE DrainPop
  <2>1. Busy' = Busy
    BY <1>1 DEF DrainPop, Busy
  <2>2. DataOK'
    BY <1>1 DEF DrainPop, DataOK
  <2> QED  BY <1>1, <2>1, <2>2 DEF DrainPop, DataOK, Counting, InflightExact,
           QuiescedReturn, Live
<1>2. CASE FirstPoll \/ DrainEmpty \/ DrainSkip \/ DrainError
  <2>1. DataOK'
    BY <1>2, Zenon DEF FirstPoll, DrainEmpty, DrainSkip, DrainError, DataOK, PC
  <2>2. /\ UNCHANGED <<poolVars, batch, inflight, done, device>>
        /\ Live /\ pc' \in PC \ {"inline", "returned"} /\ pc # "returned"
    BY <1>2 DEF FirstPoll, DrainEmpty, DrainSkip, DrainError, Live, PC
  <2> QED  BY <2>1, <2>2, FrameCounts DEF Counting
<1> QED  BY <1>1, <1>2 DEF Drain

(* The batch is served on the task or counted and queued.                  *)
LEMMA ServeCounts ==
  ASSUME DataOK, Counting, Serve
  PROVE  DataOK' /\ Counting'
<1> USE DEF poolVars, guestVars, taskVars, wakeVars
<1>1. CASE ChooseInline
  <2>1. Busy' = Busy /\ DataOK'
    BY <1>1 DEF ChooseInline, Busy, DataOK, PC
  <2> QED  BY <1>1, <2>1 DEF ChooseInline, Counting, InflightExact,
           QuiescedReturn, Live
<1>2. CASE InlineComplete
  <2>0. Len(batch) = 1
    BY <1>2 DEF InlineComplete, Counting
  <2>1. batch # <<>>
    BY <2>0
  <2>2. Head(batch) \in Req
    BY <2>1 DEF DataOK
  <2>3. Busy' = Busy /\ DataOK'
    BY <1>2, <2>2 DEF InlineComplete, Busy, DataOK, PC
  <2> QED  BY <1>2, <2>3 DEF InlineComplete, Counting, InflightExact,
           QuiescedReturn, Live
<1>3. CASE ChoosePool
  <2>1. Busy' = Busy /\ DataOK'
    BY <1>3 DEF ChoosePool, Busy, DataOK, PC
  <2> QED  BY <1>3, <2>1 DEF ChoosePool, Counting, InflightExact,
           QuiescedReturn, Live
<1>4. CASE FanOut
  <2>1. Head(batch) \in Req /\ batch' \in Seq(Req)
    BY <1>4 DEF FanOut, DataOK
  <2>2. jobs' \in Seq(Req) /\ Len(jobs') = Len(jobs) + 1
    BY <1>4, <2>1 DEF FanOut, Push, DataOK
  <2>3. Busy' = Busy
    BY <1>4 DEF FanOut, Push, Busy
  <2>4. DataOK'
    BY <1>4, <2>1, <2>2 DEF FanOut, Push, DataOK, PC
  <2>5. Len(jobs) \in Nat /\ Len(done) \in Nat
    BY DEF DataOK
  <2> QED  BY <1>4, <2>2, <2>3, <2>4, <2>5, BusyFinite, SMTT(30)
           DEF FanOut, DataOK, Counting, InflightExact, QuiescedReturn, Live
<1>5. CASE FanOutNotify
  <2>1. /\ wpc' \in [Worker -> {"ready", "run", "wait", "exited"}]
        /\ \A w \in Worker : wpc'[w] = "run" <=> wpc[w] = "run"
    BY <1>5, SMTT(30) DEF FanOutNotify, NotifyOne, Sleepers, DataOK
  <2>2. Busy' = Busy
    BY <2>1 DEF Busy
  <2>3. DataOK'
    BY <1>5, <2>1 DEF FanOutNotify, NotifyOne, DataOK, PC
  <2> QED  BY <1>5, <2>2, <2>3 DEF FanOutNotify, NotifyOne, Counting,
           InflightExact, QuiescedReturn, Live
<1> QED  BY <1>1, <1>2, <1>3, <1>4, <1>5 DEF Serve

(* run() returns only with nothing counted, hence nothing outstanding; a   *)
(* pass of poll_fn completes what the channel holds.                       *)
LEMMA PollCounts ==
  ASSUME DataOK, Counting, Return \/ BeginPoll \/ Poll
  PROVE  DataOK' /\ Counting'
<1> USE DEF poolVars, guestVars, taskVars, wakeVars
<1>1. CASE Return
  <2>1. Len(jobs) \in Nat /\ Len(done) \in Nat
    BY DEF DataOK
  <2>2. Len(jobs) = 0 /\ Len(done) = 0 /\ Cardinality(Busy) = 0
    BY <1>1, <2>1, BusyFinite DEF Return, Counting, InflightExact, Live
  <2>3. jobs = <<>> /\ done = <<>> /\ batch = <<>> /\ Busy = {}
    BY <1>1, <2>2, BusyFinite, EmptySeq DEF Return, DataOK
  <2>4. Busy' = Busy /\ DataOK'
    BY <1>1 DEF Return, Busy, DataOK, PC
  <2> QED  BY <1>1, <2>3, <2>4 DEF Return, Counting, InflightExact,
           QuiescedReturn, Live, Popped
<1>2. CASE BeginPoll \/ PollDoneEmpty \/ PollStop \/ PollKick \/ Repoll
  <2>1. DataOK'
    BY <1>2, ZenonT(60)
    DEF BeginPoll, PollDoneEmpty, PollStop, PollKick, Repoll, ReadyIf,
       DataOK, PC
  <2>2. /\ UNCHANGED <<poolVars, batch, inflight, done, device>>
        /\ Live /\ pc' \in PC \ {"inline", "returned"} /\ pc # "returned"
    BY <1>2 DEF BeginPoll, PollDoneEmpty, PollStop, PollKick, Repoll, ReadyIf,
       Live, PC
  <2> QED  BY <2>1, <2>2, FrameCounts DEF Counting
<1>3. CASE PollComplete
  <2>1. /\ Head(done) \in Req /\ done' \in Seq(Req)
        /\ Len(done') = Len(done) - 1 /\ Len(done) \in Nat \ {0}
        /\ Len(jobs) \in Nat
    BY <1>3 DEF PollComplete, DataOK
  <2>2. Live /\ inflight = Len(jobs) + Cardinality(Busy) + Len(done)
    BY <1>3 DEF PollComplete, Live, Counting, InflightExact
  <2>3. inflight' \in Nat
    BY <1>3, <2>1, <2>2, BusyFinite DEF PollComplete
  <2>4. Busy' = Busy /\ DataOK'
    BY <1>3, <2>1, <2>3 DEF PollComplete, Busy, DataOK
  <2> QED  BY <1>3, <2>1, <2>2, <2>4, BusyFinite
           DEF PollComplete, Counting, InflightExact, QuiescedReturn, Live
<1> QED  BY <1>1, <1>2, <1>3 DEF Poll

(* A pool thread survives the job it runs and sends the request back,      *)
(* however dispatch_one ended: both catch_unwind contain a panic.          *)
Served(w) ==
  /\ wpc[w] = "run"
  /\ holds' = [holds EXCEPT ![w] = NoJob]
  /\ wpc' = [wpc EXCEPT ![w] = "ready"]
  /\ UNCHANGED <<jobs, shutdown>>
  /\ done' = IF pc \in {"returned", "cancelled"}
               THEN done
               ELSE Append(done, holds[w])
  /\ Signal("done")
  /\ UNCHANGED <<guestVars, taskVars, stopSent, device>>

LEMMA PanicContained ==
  ASSUME NEW w \in Worker, WorkerServe(w)
  PROVE  Served(w)
<1>1. \A o : catch_unwind(o) # "panic"
  BY DEF catch_unwind
<1> QED  BY <1>1, Zenon DEF WorkerServe, RunJob, Served

(* A worker takes a job from the queue and gives it to the channel; the    *)
(* rest of worker_loop moves no job.                                       *)
LEMMA WorkerCounts ==
  ASSUME DataOK, Counting, NEW w \in Worker,
         WorkerServe(w) \/ WorkerLoop(w) \/ WorkerWakes(w)
  PROVE  DataOK' /\ Counting'
<1> USE DEF poolVars, guestVars, taskVars, wakeVars
<1>1. CASE WorkerServe(w)
  <2>0. Served(w)
    BY <1>1, PanicContained
  <2>1. holds[w] \in Req /\ w \in Busy /\ Busy' = Busy \ {w}
    BY <2>0 DEF Served, DataOK, Busy
  <2>2. Cardinality(Busy') = Cardinality(Busy) - 1
    BY <2>1, BusyFinite, FS_RemoveElement, SMTT(30)
  <2>3. done' \in Seq(Req) /\ (Live => Len(done') = Len(done) + 1)
    BY <2>0, <2>1 DEF Served, DataOK, Live
  <2>4. DataOK'
    BY <2>0, <2>3 DEF Served, Signal, DataOK
  <2>5. Len(jobs) \in Nat /\ Len(done) \in Nat
    BY DEF DataOK
  <2>6. InflightExact'
    <3>1. UNCHANGED <<pc, inflight, jobs>>
      BY <2>0 DEF Served
    <3>2. Live' <=> Live
      BY <3>1 DEF Live
    <3>3. Live => inflight = Len(jobs) + Cardinality(Busy) + Len(done)
      BY DEF Counting, InflightExact
    <3> QED  BY <2>2, <2>3, <2>5, <3>1, <3>2, <3>3, BusyFinite
             DEF InflightExact
  <2> QED  BY <2>0, <2>1, <2>4, <2>6 DEF Served, Counting, QuiescedReturn
<1>2. CASE PopJob(w) /\ WorkerLoop(w)
  <2>1. /\ Head(jobs) \in Req /\ jobs' \in Seq(Req)
        /\ Len(jobs') = Len(jobs) - 1 /\ Len(jobs) \in Nat
    BY <1>2 DEF PopJob, DataOK
  <2>2. w \notin Busy /\ Busy' = Busy \cup {w}
    BY <1>2 DEF PopJob, DataOK, Busy
  <2>3. Cardinality(Busy') = Cardinality(Busy) + 1
    BY <2>2, BusyFinite, FS_AddElement
  <2>4. Head(jobs) # NoJob
    BY <2>1, PoolAssumption, ReqAssumption
  <2>5. DataOK'
    BY <1>2, <2>1, <2>4 DEF PopJob, WorkerLoop, DataOK
  <2>6. Len(done) \in Nat
    BY DEF DataOK
  <2>7. InflightExact'
    BY <1>2, <2>1, <2>3, <2>6, BusyFinite
    DEF PopJob, WorkerLoop, Counting, InflightExact, Live
  <2>8. pc # "returned"
    <3> SUFFICES ASSUME pc = "returned" PROVE FALSE
      OBVIOUS
    <3>1. batch \o jobs \o done = <<>>
      BY DEF Counting, QuiescedReturn, Popped
    <3>2. Len(jobs) = 0
      BY <3>1, <2>1, <2>6 DEF DataOK
    <3> QED  BY <1>2, <3>2, EmptySeq DEF PopJob, DataOK
  <2> QED  BY <1>2, <2>5, <2>7, <2>8
           DEF WorkerLoop, Counting, QuiescedReturn
<1>3. CASE /\ ExitOnShutdown(w) \/ Sleep(w) \/ SpuriousWakeup(w)
           /\ WorkerLoop(w) \/ WorkerWakes(w)
  <2>1. /\ wpc' \in [Worker -> {"ready", "run", "wait", "exited"}]
        /\ \A v \in Worker : wpc'[v] = "run" <=> wpc[v] = "run"
        /\ jobs' = jobs /\ holds' = holds
    BY <1>3 DEF ExitOnShutdown, Sleep, SpuriousWakeup, DataOK
  <2>2. Busy' = Busy
    BY <2>1 DEF Busy
  <2>3. UNCHANGED <<guestVars, taskVars, done, stopSent, wakeVars, device>>
    BY <1>3 DEF WorkerLoop, WorkerWakes
  <2>4. DataOK'
    BY <2>1, <2>3 DEF DataOK
  <2> QED  BY <2>1, <2>2, <2>3, <2>4
           DEF Counting, InflightExact, QuiescedReturn, Live, Popped
<1> QED  BY <1>1, <1>2, <1>3 DEF WorkerLoop, WorkerWakes

(* The device operations: a new dispatcher starts on a pool with nothing   *)
(* of the old one's in it.                                                 *)
LEMMA DeviceCounts ==
  ASSUME DataOK, Counting,
         \/ StopQueue \/ StopDone \/ StartQueue \/ DropDevice \/ CancelTask
         \/ PoolDrop
  PROVE  DataOK' /\ Counting'
<1> USE DEF poolVars, guestVars, taskVars, wakeVars
<1>1. CASE StopQueue \/ StopDone \/ DropDevice
  <2>1. DataOK'
    BY <1>1, Zenon DEF StopQueue, StopDone, DropDevice, Signal, DataOK
  <2>2. /\ UNCHANGED <<poolVars, batch, inflight, done, pc>>
        /\ device' = "stopped" => pc = "returned"
    BY <1>1 DEF StopQueue, StopDone, DropDevice
  <2> QED  BY <2>1, <2>2, FrameCounts
<1>2. CASE StartQueue
  <2>1. batch \o jobs \o done = <<>> /\ Busy = {}
    BY <1>2 DEF StartQueue, Counting, QuiescedReturn, Popped
  <2>2. Len(jobs) = 0
    BY <2>1 DEF DataOK
  <2>3. Busy' = Busy /\ DataOK'
    <3>1. free' \in SUBSET Req /\ avail' \in Seq(Req) /\ used' \in Seq(Req)
      <4>1. CASE UNCHANGED <<free, avail, used>>
        BY <4>1 DEF DataOK
      <4>2. CASE free' = Req /\ avail' = <<>> /\ used' = <<>>
        BY <4>2
      <4> QED  BY <1>2, <4>1, <4>2 DEF StartQueue
    <3> QED  BY <1>2, <3>1 DEF StartQueue, Busy, DataOK, PC
  <2>4. Cardinality(Busy') = 0
    BY <2>1, <2>3, FS_EmptySet
  <2> QED  BY <1>2, <2>2, <2>3, <2>4 DEF StartQueue, Counting, InflightExact,
           QuiescedReturn, Live
<1>3. CASE CancelTask
  <2>1. DataOK'
    BY <1>3 DEF CancelTask, DataOK, PC
  <2> QED  BY <1>3, <2>1 DEF CancelTask, Counting, InflightExact,
           QuiescedReturn, Live
<1>4. CASE PoolDrop
  <2>1. /\ wpc' \in [Worker -> {"ready", "run", "wait", "exited"}]
        /\ \A w \in Worker : wpc'[w] = "run" <=> wpc[w] = "run"
        /\ jobs' = jobs /\ holds' = holds
    BY <1>4 DEF PoolDrop, PoolShutdown, PoolNotifyAll, PoolJoin, SetShutdown,
       NotifyAll, Sleepers, DataOK
  <2>2. Busy' = Busy
    BY <2>1 DEF Busy
  <2>3. /\ UNCHANGED <<guestVars, taskVars, done, wakeVars>>
        /\ device' \in {"notify", "join", "joined"}
    BY <1>4 DEF PoolDrop, PoolShutdown, PoolNotifyAll, PoolJoin
  <2>4. DataOK'
    BY <2>1, <2>3 DEF DataOK
  <2> QED  BY <2>1, <2>2, <2>3, <2>4
           DEF Counting, InflightExact, QuiescedReturn, Live, Popped
<1> QED  BY <1>1, <1>2, <1>3, <1>4

(* A step that changes nothing.                                            *)
LEMMA StutterCounts ==
  ASSUME DataOK, Counting, UNCHANGED vars
  PROVE  DataOK' /\ Counting'
  BY DEF vars, poolVars, guestVars, taskVars, wakeVars, DataOK, Counting,
     InflightExact, QuiescedReturn, Live, Popped, Busy

(* The count, over every step.                                             *)
THEOREM CountingHolds == Spec => [](DataOK /\ Counting)
<1>1. DataOK /\ Counting /\ [Next]_vars => (DataOK /\ Counting)'
  <2> SUFFICES ASSUME DataOK, Counting, [Next]_vars
               PROVE  (DataOK /\ Counting)'
    OBVIOUS
  <2>1. CASE Guest
    BY <2>1, GuestCounts
  <2>2. CASE Dispatcher \/ DrainError
    BY <2>2, DrainCounts, ServeCounts, PollCounts DEF Dispatcher
  <2>3. ASSUME NEW w \in Worker,
               WorkerServe(w) \/ WorkerLoop(w) \/ WorkerWakes(w)
        PROVE  (DataOK /\ Counting)'
    BY <2>3, WorkerCounts
  <2>4. CASE \/ StopQueue \/ StopDone \/ StartQueue \/ DropDevice
             \/ CancelTask \/ PoolDrop
    BY <2>4, DeviceCounts
  <2>5. CASE Gone \/ UNCHANGED vars
    BY <2>5, StutterCounts DEF Gone
  <2> QED  BY <2>1, <2>2, <2>3, <2>4, <2>5 DEF Next
<1> QED  BY InitCounts, <1>1, PTL DEF Spec

(* inflight is exactly what is queued, with a worker, or in the channel,   *)
(* for any number of workers and chains.                                   *)
THEOREM InflightIsExact == Spec => []InflightExact
<1>1. Counting => InflightExact
  BY DEF Counting
<1> QED  BY CountingHolds, <1>1, PTL

(* run() hands the queue back with no chain popped and uncompleted.        *)
THEOREM ReturnsQuiesced == Spec => []QuiescedReturn
<1>1. Counting => QuiescedReturn
  BY DEF Counting
<1> QED  BY CountingHolds, <1>1, PTL

-----------------------------------------------------------------------------
(* Steps that leave the task, its wakers and their sources alone.          *)
LEMMA FrameWakes ==
  ASSUME Waking,
         UNCHANGED <<pc, stopping, failed, done, stopSent, wakeVars, avail,
                     notifyOn, kick>>
  PROVE  Waking'
  BY DEF Waking, Looked, wakeVars

(* The guest: a chain published after the last look leaves a kick, and     *)
(* wakes a task that sleeps on it.                                         *)
LEMMA GuestWakes ==
  ASSUME DataOK, Waking, Guest
  PROVE  Waking'
<1> USE DEF poolVars, guestVars, taskVars, wakeVars
<1>1. CASE GuestReap
  BY <1>1, FrameWakes DEF GuestReap
<1>2. ASSUME NEW r \in Req, GuestAdd(r), notifyOn PROVE Waking'
  BY <1>2, Zenon DEF GuestAdd, Signal, Waking, Looked
<1>3. ASSUME NEW r \in Req, GuestAdd(r), ~notifyOn PROVE Waking'
  BY <1>3 DEF GuestAdd, Signal, Waking, Looked
<1> QED  BY <1>1, <1>2, <1>3 DEF Guest

(* The drain, the batch and the return: the last look asks the guest to    *)
(* notify.                                                                 *)
LEMMA DrainWakes ==
  ASSUME DataOK, Waking,
         FirstPoll \/ Drain \/ DrainError \/ Serve \/ Return \/ BeginPoll
  PROVE  Waking'
<1> USE DEF poolVars, guestVars, taskVars, wakeVars
<1>1. CASE FirstPoll \/ DrainPop \/ InlineComplete \/ Return
  BY <1>1 DEF FirstPoll, DrainPop, InlineComplete, Return, Waking, Looked
<1>2. CASE DrainEmpty
  BY <1>2 DEF DrainEmpty, Waking, Looked
<1>3. CASE DrainError \/ DrainSkip
  BY <1>3 DEF DrainError, DrainSkip, Waking, Looked
<1>4. CASE ChooseInline \/ ChoosePool \/ BeginPoll
  BY <1>4 DEF ChooseInline, ChoosePool, BeginPoll, Waking, Looked
<1>5. CASE FanOut \/ FanOutNotify
  BY <1>5 DEF FanOut, FanOutNotify, Waking, Looked
<1> QED  BY <1>1, <1>2, <1>3, <1>4, <1>5 DEF Drain, Serve

(* A pass of poll_fn arms each source it found not ready.                  *)
LEMMA PollWakes ==
  ASSUME DataOK, Waking, Poll
  PROVE  Waking'
<1> USE DEF poolVars, guestVars, taskVars, wakeVars
<1>1. CASE PollComplete
  BY <1>1 DEF PollComplete, Waking, Looked
<1>2. CASE PollDoneEmpty
  BY <1>2 DEF PollDoneEmpty, Waking, Looked
<1>3. CASE PollStop
  BY <1>3 DEF PollStop, Waking, Looked
<1>4. CASE PollKick
  BY <1>4 DEF PollKick, ReadyIf, Waking, Looked
<1>5. CASE Repoll
  BY <1>5 DEF Repoll, Waking, Looked
<1> QED  BY <1>1, <1>2, <1>3, <1>4, <1>5 DEF Poll

(* A completion wakes the task if it may be asleep.                        *)
LEMMA WorkerWaking ==
  ASSUME DataOK, Waking, NEW w \in Worker,
         WorkerServe(w) \/ WorkerLoop(w) \/ WorkerWakes(w)
  PROVE  Waking'
<1> USE DEF poolVars, guestVars, taskVars, wakeVars
<1>1. CASE WorkerServe(w)
  BY <1>1, PanicContained, Zenon DEF Served, Signal, Waking, Looked
<1>2. CASE WorkerLoop(w) \/ WorkerWakes(w)
  BY <1>2, FrameWakes DEF WorkerLoop, WorkerWakes
<1> QED  BY <1>1, <1>2

(* So does a stop, or the drop of its sender.                              *)
LEMMA DeviceWakes ==
  ASSUME DataOK, Waking,
         \/ StopQueue \/ StopDone \/ StartQueue \/ DropDevice \/ CancelTask
         \/ PoolDrop
  PROVE  Waking'
<1> USE DEF poolVars, guestVars, taskVars, wakeVars
<1>1. CASE StopQueue
  BY <1>1, Zenon DEF StopQueue, Signal, Waking, Looked
<1>2. CASE DropDevice
  <2>1. CASE device = "started"
    BY <1>2, <2>1, ZenonT(60) DEF DropDevice, Signal, Waking, Looked
  <2>2. CASE device # "started"
    BY <1>2, <2>2, FrameWakes DEF DropDevice
  <2> QED  BY <2>1, <2>2
<1>3. CASE StartQueue \/ CancelTask
  BY <1>3 DEF StartQueue, CancelTask, Waking, Looked
<1>4. CASE StopDone \/ PoolDrop
  BY <1>4, FrameWakes DEF StopDone, PoolDrop, PoolShutdown, PoolNotifyAll,
     PoolJoin
<1> QED  BY <1>1, <1>2, <1>3, <1>4

(* The dispatcher never sleeps on a completion, a stop or a published      *)
(* chain, whatever arrives between its last look and its sleep.            *)
THEOREM WakeupsAreKept == Spec => []NoLostWakeup
<1>1. Init => Waking
  BY DEF Init, Waking, Looked
<1>2. DataOK /\ Waking /\ [Next]_vars => Waking'
  <2> SUFFICES ASSUME DataOK, Waking, [Next]_vars PROVE Waking'
    OBVIOUS
  <2>1. CASE Guest
    BY <2>1, GuestWakes
  <2>2. CASE Dispatcher \/ DrainError
    BY <2>2, DrainWakes, PollWakes DEF Dispatcher
  <2>3. ASSUME NEW w \in Worker,
               WorkerServe(w) \/ WorkerLoop(w) \/ WorkerWakes(w)
        PROVE  Waking'
    BY <2>3, WorkerWaking
  <2>4. CASE \/ StopQueue \/ StopDone \/ StartQueue \/ DropDevice
             \/ CancelTask \/ PoolDrop
    BY <2>4, DeviceWakes
  <2>5. CASE Gone \/ UNCHANGED vars
    BY <2>5, FrameWakes DEF Gone, vars, guestVars, taskVars
  <2> QED  BY <2>1, <2>2, <2>3, <2>4, <2>5 DEF Next
<1>3. Waking => NoLostWakeup
  BY DEF Waking, Looked, NoLostWakeup
<1> QED  BY CountingHolds, <1>1, <1>2, <1>3, PTL DEF Spec
=============================================================================
