-------------------------- MODULE SharedPoolProofs --------------------------
(***************************************************************************)
(* The safety properties of SharedPool, for any number of workers, owners  *)
(* and jobs.                                                               *)
(*                                                                         *)
(* That a drop of the pool loses no job needs to know where a job is at    *)
(* any time (Placed), and why nothing can come after the shutdown flag is  *)
(* seen with an empty queue: the flag is set by the last owner (Shutdown). *)
(***************************************************************************)
EXTENDS SharedPool, FiniteSetTheorems, SequenceTheorems, TLAPS

Queued == {jobs[i] : i \in 1 .. Len(jobs)}

Held == {holds[w] : w \in Busy}

(* A submitted job is queued once, or held by one worker, or has been run  *)
(* once; no other job was run.                                             *)
Placed ==
  /\ Queued \cup Held \subseteq submitted
  /\ Queued \cap Held = {}
  /\ \A i, k \in 1 .. Len(jobs) : jobs[i] = jobs[k] => i = k
  /\ \A v, w \in Busy : holds[v] = holds[w] => v = w
  /\ \A j \in Job :
       ran[j] = IF j \in submitted \ (Queued \cup Held) THEN 1 ELSE 0

(* The shutdown flag is up exactly when WorkerPool::drop was entered, and  *)
(* then no owner is left; a worker that exited left an empty queue; drop   *)
(* returns when all have.                                                  *)
Shutdown ==
  /\ shutdown <=> dropPc # "none"
  /\ shutdown => \A s \in Submitter : spc[s] = "gone"
  /\ \A w \in Worker : wpc[w] = "exited" => shutdown /\ jobs = <<>>
  /\ dropPc = "joined" => AllExited

IInv == TypeOK /\ Placed /\ Shutdown

-----------------------------------------------------------------------------
(* A push adds the job at the end of the queue.                            *)
LEMMA PushQueues ==
  ASSUME jobs \in Seq(Job), NEW j \in Job, jobs' = Append(jobs, j)
  PROVE  /\ jobs' \in Seq(Job)
         /\ Len(jobs') = Len(jobs) + 1
         /\ \A i \in 1 .. Len(jobs) : jobs'[i] = jobs[i]
         /\ jobs'[Len(jobs) + 1] = j
         /\ Queued' = Queued \cup {j}
<1>1. /\ jobs' \in Seq(Job) /\ Len(jobs') = Len(jobs) + 1
      /\ \A i \in 1 .. Len(jobs) : jobs'[i] = jobs[i]
      /\ jobs'[Len(jobs) + 1] = j
  BY AppendProperties
<1>2. Len(jobs) \in Nat
  OBVIOUS
<1> QED  BY <1>1, <1>2 DEF Queued

(* A pop takes the first job and leaves the others in order.               *)
LEMMA PopDequeues ==
  ASSUME jobs \in Seq(Job), jobs # <<>>, jobs' = Tail(jobs),
         \A i, k \in 1 .. Len(jobs) : jobs[i] = jobs[k] => i = k
  PROVE  /\ jobs' \in Seq(Job)
         /\ Len(jobs') = Len(jobs) - 1
         /\ \A i \in 1 .. Len(jobs') : jobs'[i] = jobs[i + 1]
         /\ Head(jobs) \in Queued
         /\ Queued' = Queued \ {Head(jobs)}
         /\ Head(jobs) \in Job
<1>1. /\ jobs' \in Seq(Job) /\ Len(jobs') = Len(jobs) - 1
      /\ \A i \in 1 .. Len(jobs') : jobs'[i] = jobs[i + 1]
      /\ Head(jobs) \in Job
  BY HeadTailProperties
<1>2. Len(jobs) \in Nat /\ Len(jobs) # 0 /\ Head(jobs) = jobs[1]
  OBVIOUS
<1>3. Head(jobs) \in Queued
  BY <1>2 DEF Queued
<1>4. ASSUME NEW j \in Queued' PROVE j \in Queued \ {Head(jobs)}
  <2>1. PICK i \in 1 .. Len(jobs') : j = jobs'[i]
    BY Zenon DEF Queued
  <2>2. j = jobs[i + 1] /\ i + 1 \in 1 .. Len(jobs) /\ i + 1 # 1
    BY <1>1, <1>2, <2>1
  <2> QED  BY <1>2, <2>2 DEF Queued
<1>5. ASSUME NEW j \in Queued \ {Head(jobs)} PROVE j \in Queued'
  <2>1. PICK i \in 1 .. Len(jobs) : j = jobs[i]
    BY DEF Queued
  <2>2. i - 1 \in 1 .. Len(jobs')
    BY <1>1, <1>2, <2>1
  <2>3. jobs'[i - 1] = j
    BY <1>1, <2>1, <2>2
  <2> QED  BY <2>2, <2>3, Zenon DEF Queued
<1> QED  BY <1>1, <1>3, <1>4, <1>5

-----------------------------------------------------------------------------
(* WorkerPool::new: an empty queue and workers about to look at it.        *)
LEMMA InitIInv == Init => IInv
<1> SUFFICES ASSUME Init PROVE IInv
  OBVIOUS
<1> USE DEF Init, PoolInit
<1>1. TypeOK
  <2>1. jobs \in Seq(Job) /\ ran \in [Job -> Nat]
    OBVIOUS
  <2>2. /\ wpc \in [Worker -> {"ready", "run", "wait", "exited"}]
        /\ holds \in [Worker -> Job \cup {NoJob}]
        /\ \A w \in Worker : holds[w] # NoJob <=> wpc[w] = "run"
        /\ spc \in [Submitter -> {"live", "notify", "gone"}]
    OBVIOUS
  <2> QED  BY <2>1, <2>2, Zenon DEF TypeOK, PoolTypeOK
<1>2. Queued = {} /\ Held = {} /\ Busy = {}
  <2>1. 1 .. Len(jobs) = {}
    OBVIOUS
  <2>2. Busy = {}
    BY DEF Busy
  <2> QED  BY <2>1, <2>2 DEF Queued, Held
<1>3. Placed
  BY <1>2 DEF Placed
<1>4. Shutdown
  BY DEF Shutdown
<1> QED  BY <1>1, <1>3, <1>4 DEF IInv

(* submit, under the lock: the new job is queued, and runs nowhere.        *)
LEMMA SubmitStep ==
  ASSUME IInv, NEW s \in Submitter, NEW j \in Job, Submit(s, j)
  PROVE  IInv'
<1> USE DEF Submit, Push
<1>1. TypeOK' 
  BY PushQueues DEF IInv, TypeOK, PoolTypeOK
<1>2. /\ Queued' = Queued \cup {j} /\ Held' = Held /\ Busy' = Busy
      /\ Len(jobs') = Len(jobs) + 1 /\ jobs'[Len(jobs) + 1] = j
      /\ \A i \in 1 .. Len(jobs) : jobs'[i] = jobs[i]
  BY PushQueues DEF IInv, TypeOK, PoolTypeOK, Held, Busy
<1>3. j \notin Queued \cup Held
  BY DEF IInv, Placed
<1>4. \A i, k \in 1 .. Len(jobs') : jobs'[i] = jobs'[k] => i = k
  <2> SUFFICES ASSUME NEW i \in 1 .. Len(jobs'), NEW k \in 1 .. Len(jobs'),
                      jobs'[i] = jobs'[k]
               PROVE  i = k
    OBVIOUS
  <2>1. Len(jobs) \in Nat
    BY DEF IInv, TypeOK, PoolTypeOK
  <2>2. \A n \in 1 .. Len(jobs) : jobs[n] # j
    BY <1>3 DEF Queued
  <2>3. i = Len(jobs) + 1 \/ i \in 1 .. Len(jobs)
    BY <1>2, <2>1
  <2>4. k = Len(jobs) + 1 \/ k \in 1 .. Len(jobs)
    BY <1>2, <2>1
  <2> QED  BY <1>2, <2>2, <2>3, <2>4 DEF IInv, Placed
<1>5. Placed'
  BY <1>2, <1>3, <1>4 DEF IInv, Placed
<1>6. Shutdown'
  BY DEF IInv, TypeOK, Shutdown, AllExited
<1> QED  BY <1>1, <1>5, <1>6 DEF IInv

(* worker_loop takes the oldest job: it is held instead of queued.         *)
LEMMA PopStep ==
  ASSUME IInv, NEW w \in Worker, PopJob(w),
         UNCHANGED <<spc, dropPc, submitted, ran>>
  PROVE  IInv'
<1> USE PoolAssumption DEF PopJob
<1>1. /\ jobs' \in Seq(Job) /\ Len(jobs') = Len(jobs) - 1
      /\ \A i \in 1 .. Len(jobs') : jobs'[i] = jobs[i + 1]
      /\ Head(jobs) \in Queued /\ Head(jobs) \in Job
      /\ Queued' = Queued \ {Head(jobs)}
  BY PopDequeues DEF IInv, TypeOK, PoolTypeOK, Placed
<1>2. TypeOK'
  BY <1>1 DEF IInv, TypeOK, PoolTypeOK
<1>3. /\ Busy' = Busy \cup {w} /\ w \notin Busy
      /\ holds'[w] = Head(jobs) /\ \A v \in Busy : holds'[v] = holds[v]
  BY DEF IInv, TypeOK, PoolTypeOK, Busy
<1>4. Held' = Held \cup {Head(jobs)}
  BY <1>3 DEF Held
<1>5. \A u, v \in Busy' : holds'[u] = holds'[v] => u = v
  BY <1>1, <1>3 DEF IInv, Placed, Held
<1>6. \A i, k \in 1 .. Len(jobs') : jobs'[i] = jobs'[k] => i = k
  <2> SUFFICES ASSUME NEW i \in 1 .. Len(jobs'), NEW k \in 1 .. Len(jobs'),
                      jobs'[i] = jobs'[k]
               PROVE  i = k
    OBVIOUS
  <2>1. Len(jobs) \in Nat
    BY DEF IInv, TypeOK, PoolTypeOK
  <2>2. i + 1 \in 1 .. Len(jobs) /\ k + 1 \in 1 .. Len(jobs)
    BY <1>1, <2>1
  <2>3. i + 1 = k + 1
    BY <1>1, <2>2 DEF IInv, Placed
  <2> QED  BY <2>3
<1>7. Placed'
  BY <1>1, <1>4, <1>5, <1>6 DEF IInv, Placed
<1>8. Shutdown'
  BY DEF IInv, TypeOK, PoolTypeOK, Shutdown, AllExited
<1> QED  BY <1>2, <1>7, <1>8 DEF IInv

(* run_job ends: the job has been run, once.                               *)
LEMMA RunStep ==
  ASSUME IInv, NEW w \in Worker, WorkerRun(w)
  PROVE  IInv'
<1> USE PoolAssumption DEF WorkerRun, RunJob, catch_unwind
<1>1. holds[w] \in Job /\ w \in Busy
  BY DEF IInv, TypeOK, PoolTypeOK, Busy
<1>2. /\ Busy' = Busy \ {w} /\ \A v \in Busy' : holds'[v] = holds[v]
      /\ Queued' = Queued
  BY DEF IInv, TypeOK, PoolTypeOK, Busy, Queued
<1>3. Held' = Held \ {holds[w]} /\ holds[w] \in Held
  BY <1>1, <1>2 DEF IInv, Placed, Held
<1>4. TypeOK'
  BY <1>1 DEF IInv, TypeOK, PoolTypeOK
<1>5. ran[holds[w]] = 0 /\ holds[w] \in submitted
  BY <1>1, <1>3 DEF IInv, Placed
<1>6. Placed'
  BY <1>1, <1>2, <1>3, <1>5 DEF IInv, TypeOK, Placed
<1>7. Shutdown'
  BY DEF IInv, TypeOK, PoolTypeOK, Shutdown, AllExited
<1> QED  BY <1>4, <1>6, <1>7 DEF IInv

(* The steps that leave the jobs where they are: notifying, sleeping,      *)
(* waking, exiting, releasing an Arc, the parts of WorkerPool::drop.       *)
LEMMA KeepsPlaces ==
  ASSUME IInv, UNCHANGED <<jobs, holds, submitted, ran>>, Busy' = Busy
  PROVE  Placed'
<1>1. Queued' = Queued /\ Held' = Held
  BY DEF Queued, Held
<1> QED  BY <1>1 DEF IInv, Placed

(* An owner signals, or gives up its Arc; the last one sets the flag.      *)
LEMMA OwnerStep ==
  ASSUME IInv, NEW s \in Submitter, SubmitNotify(s) \/ Release(s)
  PROVE  IInv'
<1> USE DEF IInv, TypeOK, PoolTypeOK
<1>1. CASE SubmitNotify(s)
  <2>1. TypeOK' /\ Busy' = Busy
    BY <1>1 DEF SubmitNotify, NotifyOne, Sleepers, Busy
  <2>2. Shutdown'
    BY <1>1 DEF SubmitNotify, NotifyOne, Sleepers, Shutdown, AllExited
  <2> QED  BY <1>1, <2>1, <2>2, KeepsPlaces DEF SubmitNotify, NotifyOne
<1>2. CASE Release(s)
  <2>1. TypeOK' /\ Busy' = Busy /\ UNCHANGED <<jobs, holds>>
    BY <1>2, Zenon DEF Release, SetShutdown, poolVars, Busy
  <2>2. Shutdown'
    BY <1>2 DEF Release, SetShutdown, poolVars, Shutdown, AllExited
  <2> QED  BY <1>2, <2>1, <2>2, KeepsPlaces DEF Release
<1> QED  BY <1>1, <1>2

(* WorkerPool::drop wakes everybody, and returns when all have exited.     *)
LEMMA DropStep ==
  ASSUME IInv, DropNotify \/ DropJoin
  PROVE  IInv'
<1> USE DEF IInv, TypeOK, PoolTypeOK
<1>1. CASE DropNotify
  <2>1. TypeOK' /\ Busy' = Busy
    BY <1>1 DEF DropNotify, NotifyAll, Sleepers, Busy
  <2>2. Shutdown'
    BY <1>1 DEF DropNotify, NotifyAll, Sleepers, Shutdown, AllExited
  <2> QED  BY <1>1, <2>1, <2>2, KeepsPlaces DEF DropNotify, NotifyAll
<1>2. CASE DropJoin
  <2>1. TypeOK' /\ Busy' = Busy
    BY <1>2 DEF DropJoin, poolVars, Busy
  <2>2. Shutdown'
    BY <1>2 DEF DropJoin, poolVars, Shutdown, AllExited
  <2> QED  BY <1>2, <2>1, <2>2, KeepsPlaces DEF DropJoin, poolVars
<1> QED  BY <1>1, <1>2

(* A worker with nothing to run exits, sleeps or wakes.                    *)
LEMMA IdleStep ==
  ASSUME IInv, NEW w \in Worker, UNCHANGED <<spc, dropPc, submitted, ran>>,
         ExitOnShutdown(w) \/ Sleep(w) \/ SpuriousWakeup(w)
  PROVE  IInv'
<1> USE DEF IInv, TypeOK, PoolTypeOK, ExitOnShutdown, Sleep, SpuriousWakeup
<1>1. TypeOK' /\ Busy' = Busy
  BY DEF Busy
<1>2. Shutdown'
  BY DEF Shutdown, AllExited
<1> QED  BY <1>1, <1>2, KeepsPlaces

(* IInv is an invariant of the pool.                                       *)
THEOREM Invariance == Spec => []IInv
<1>1. IInv /\ [Next]_vars => IInv'
  <2> SUFFICES ASSUME IInv, [Next]_vars PROVE IInv'
    OBVIOUS
  <2>1. ASSUME NEW s \in Submitter, SubmitNotify(s) \/ Release(s) PROVE IInv'
    BY <2>1, OwnerStep
  <2>2. CASE DropNotify \/ DropJoin
    BY <2>2, DropStep
  <2>3. ASSUME NEW w \in Worker, WorkerLoop(w) \/ WorkerWakes(w) PROVE IInv'
    BY <2>3, PopStep, IdleStep DEF WorkerLoop, WorkerWakes
  <2>4. CASE Done \/ UNCHANGED vars
    <3> USE DEF Done, vars, poolVars
    <3>1. TypeOK' /\ Shutdown' /\ Busy' = Busy
      BY <2>4 DEF IInv, TypeOK, PoolTypeOK, Shutdown, AllExited, Busy
    <3> QED  BY <2>4, <3>1, KeepsPlaces DEF IInv
  <2> QED  BY <2>1, <2>2, <2>3, <2>4, SubmitStep, RunStep DEF Next
<1> QED  BY InitIInv, <1>1, PTL DEF Spec

-----------------------------------------------------------------------------
(* Type correctness of the pool and of its owners.                         *)
THEOREM TypeCorrect == Spec => []TypeOK
<1>1. IInv => TypeOK
  BY DEF IInv
<1> QED  BY Invariance, <1>1, PTL

(* WorkerPool::drop returns with every submitted job run exactly once, for *)
(* any number of workers, owners and jobs.                                 *)
THEOREM NoJobLost == Spec => []DrainedOnJoin
<1>1. IInv => DrainedOnJoin
  <2> SUFFICES ASSUME IInv, dropPc = "joined", NEW j \in submitted
               PROVE  ran[j] = 1
    BY DEF DrainedOnJoin
  <2>1. AllExited
    BY DEF IInv, Shutdown
  <2>2. Busy = {} /\ jobs = <<>>
    BY <2>1, PoolAssumption DEF AllExited, Busy, IInv, Shutdown
  <2>3. Queued = {} /\ Held = {}
    BY <2>2 DEF Queued, Held
  <2> QED  BY <2>3 DEF IInv, TypeOK, Placed
<1> QED  BY Invariance, <1>1, PTL

-----------------------------------------------------------------------------
(* The threads awake and the signals pending are finitely many.            *)
LEMMA Counts ==
  ASSUME TypeOK
  PROVE  /\ IsFiniteSet(Ready) /\ Cardinality(Ready) \in Nat
         /\ IsFiniteSet(Notifying) /\ Cardinality(Notifying) \in Nat
         /\ Len(jobs) \in Nat
<1>1. Ready \in SUBSET Worker /\ Notifying \in SUBSET Submitter
  BY DEF Ready, Notifying
<1>2. IsFiniteSet(Ready) /\ IsFiniteSet(Notifying)
  BY <1>1, FS_Subset, PoolAssumption, SubmitterAssumption
<1>3. Len(jobs) \in Nat
  BY DEF TypeOK, PoolTypeOK
<1> QED  BY <1>2, <1>3, FS_CardinalityType

(* submit brings one job and one signal.                                   *)
LEMMA SubmitConserves ==
  ASSUME TypeOK, WorkConserving, NEW s \in Submitter, NEW j \in Job,
         Submit(s, j)
  PROVE  WorkConserving'
<1> USE DEF Submit, Push
<1>1. Sleepers' = Sleepers /\ Ready' = Ready
  BY DEF Sleepers, Ready
<1>2. Notifying' = Notifying \cup {s} /\ s \notin Notifying
  BY DEF TypeOK, Notifying
<1>3. Cardinality(Notifying') = Cardinality(Notifying) + 1
  BY <1>2, Counts, FS_AddElement, Zenon
<1>4. Len(jobs') = Len(jobs) + 1
  BY PushQueues DEF TypeOK, PoolTypeOK
<1> QED  BY <1>1, <1>3, <1>4, Counts DEF WorkConserving

(* notify_one turns a signal into a thread awake, if any sleeps.           *)
LEMMA NotifyConserves ==
  ASSUME TypeOK, WorkConserving, NEW s \in Submitter, SubmitNotify(s)
  PROVE  WorkConserving'
<1> USE DEF SubmitNotify, NotifyOne
<1>1. CASE Sleepers = {}
  BY <1>1 DEF WorkConserving, Sleepers
<1>2. CASE Sleepers # {}
  <2>1. PICK w \in Sleepers : wpc' = [wpc EXCEPT ![w] = "ready"]
    BY <1>2
  <2>2. Ready' = Ready \cup {w} /\ w \notin Ready
    BY <2>1 DEF Ready, Sleepers, TypeOK, PoolTypeOK
  <2>3. Notifying' = Notifying \ {s} /\ s \in Notifying
    BY DEF TypeOK, Notifying
  <2>4. /\ Cardinality(Ready') = Cardinality(Ready) + 1
        /\ Cardinality(Notifying') = Cardinality(Notifying) - 1
    BY <2>2, <2>3, Counts, FS_AddElement, FS_RemoveElement, Zenon
  <2> QED  BY <1>2, <2>4, Counts DEF WorkConserving
<1> QED  BY <1>1, <1>2

(* A worker takes one job and is no longer ready.                          *)
LEMMA PopConserves ==
  ASSUME TypeOK, WorkConserving, NEW w \in Worker, PopJob(w), UNCHANGED spc
  PROVE  WorkConserving'
<1> USE DEF PopJob
<1>1. Sleepers' = Sleepers /\ Notifying' = Notifying
  BY DEF Sleepers, Notifying, TypeOK, PoolTypeOK
<1>2. Ready' = Ready \ {w} /\ w \in Ready
  BY DEF Ready, TypeOK, PoolTypeOK
<1>3. Cardinality(Ready') = Cardinality(Ready) - 1
  BY <1>2, Counts, FS_RemoveElement, Zenon
<1>4. Len(jobs') = Len(jobs) - 1
  BY HeadTailProperties DEF TypeOK, PoolTypeOK
<1> QED  BY <1>1, <1>3, <1>4, Counts DEF WorkConserving

(* A worker comes back from its job, or from its sleep.                    *)
LEMMA ReadyConserves ==
  ASSUME TypeOK, TypeOK', WorkConserving, NEW w \in Worker,
         wpc' = [wpc EXCEPT ![w] = "ready"], UNCHANGED <<jobs, spc>>
  PROVE  WorkConserving'
<1>1. Sleepers' \subseteq Sleepers /\ Notifying' = Notifying
  BY DEF Sleepers, Notifying, TypeOK, PoolTypeOK
<1>2. Ready' = Ready \cup {w}
  BY DEF Ready, TypeOK, PoolTypeOK
<1>3. Cardinality(Ready') = IF w \in Ready THEN Cardinality(Ready)
                                            ELSE Cardinality(Ready) + 1
  <2>1. IsFiniteSet(Ready)
    BY Counts
  <2> QED  BY <1>2, <2>1, FS_AddElement, Zenon
<1> QED  BY <1>1, <1>3, Counts DEF WorkConserving

(* With an empty queue there is nothing to conserve.                       *)
LEMMA EmptyConserves ==
  ASSUME TypeOK', jobs' = <<>>
  PROVE  WorkConserving'
<1>1. /\ IsFiniteSet(Ready') /\ IsFiniteSet(Notifying')
  <2>1. Ready' \in SUBSET Worker /\ Notifying' \in SUBSET Submitter
    BY DEF Ready, Notifying
  <2> QED  BY <2>1, FS_Subset, PoolAssumption, SubmitterAssumption
<1>2. Cardinality(Ready') \in Nat /\ Cardinality(Notifying') \in Nat
  BY <1>1, FS_CardinalityType
<1>3. Len(jobs') = 0
  OBVIOUS
<1> QED  BY <1>2, <1>3 DEF WorkConserving

(* The pool conserves work, for any number of workers, owners and jobs:    *)
(* submit's notify_one after the unlock, and a worker that looks at the    *)
(* queue again before it sleeps, leave no queued job to a busy thread      *)
(* while another one sleeps unsignalled.                                   *)
THEOREM PoolConservesWork == Spec => []WorkConserving
<1>1. Init => WorkConserving
  BY DEF Init, PoolInit, WorkConserving, Sleepers
<1>2. TypeOK /\ TypeOK' /\ WorkConserving /\ [Next]_vars => WorkConserving'
  <2> SUFFICES ASSUME TypeOK, TypeOK', WorkConserving, [Next]_vars
               PROVE  WorkConserving'
    OBVIOUS
  <2>1. ASSUME NEW s \in Submitter, Release(s) PROVE WorkConserving'
    <3>1. Sleepers' = Sleepers /\ Ready' = Ready /\ UNCHANGED jobs
      BY <2>1 DEF Release, SetShutdown, poolVars, Sleepers, Ready
    <3>2. Notifying' = Notifying
      BY <2>1 DEF Release, Notifying, TypeOK
    <3> QED  BY <3>1, <3>2 DEF WorkConserving
  <2>2. CASE DropNotify
    <3>1. Sleepers' = {}
      BY <2>2 DEF DropNotify, NotifyAll, Sleepers
    <3> QED  BY <3>1 DEF WorkConserving
  <2>3. CASE DropJoin \/ Done \/ UNCHANGED vars
    BY <2>3, Zenon
    DEF DropJoin, Done, vars, poolVars, WorkConserving, Sleepers, Ready,
                Notifying
  <2>4. ASSUME NEW w \in Worker, WorkerRun(w) PROVE WorkConserving'
    <3>1. PICK o \in Outcome : RunJob(w, o)
      BY <2>4 DEF WorkerRun
    <3>2. catch_unwind(o) # "panic"
      BY DEF catch_unwind
    <3> QED  BY <2>4, <3>1, <3>2, ReadyConserves, Zenon DEF WorkerRun, RunJob
  <2>5. ASSUME NEW w \in Worker, WorkerLoop(w) PROVE WorkConserving'
    BY <2>5, PopConserves, EmptyConserves
    DEF WorkerLoop, ExitOnShutdown, Sleep
  <2>6. ASSUME NEW w \in Worker, WorkerWakes(w) PROVE WorkConserving'
    BY <2>6, ReadyConserves, Zenon DEF WorkerWakes, SpuriousWakeup
  <2> QED
    BY <2>1, <2>2, <2>3, <2>4, <2>5, <2>6, SubmitConserves, NotifyConserves
    DEF Next
<1> QED  BY <1>1, <1>2, TypeCorrect, PTL DEF Spec
=============================================================================
