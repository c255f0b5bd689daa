----------------------------- MODULE SharedPool -----------------------------
(***************************************************************************)
(* The worker pool with the threads that share it: the device and the      *)
(* dispatchers of its queues each own an Arc<WorkerPool>, submit jobs, and *)
(* finally release their Arc.  Whoever releases the last one runs          *)
(* WorkerPool::drop and joins the workers.                                 *)
(***************************************************************************)
EXTENDS WorkerPool

CONSTANT Submitter     \* the owners of an Arc<WorkerPool>

ASSUME SubmitterAssumption == IsFiniteSet(Submitter)

VARIABLES
  spc,         \* each owner: "live", "notify" (pushed, lock dropped), "gone"
  dropPc,      \* WorkerPool::drop: "none", "notify", "join", "joined"
  submitted,   \* history: the jobs given to submit()
  ran          \* history: how often each job was run

vars == <<poolVars, spc, dropPc, submitted, ran>>

TypeOK ==
  /\ PoolTypeOK
  /\ spc \in [Submitter -> {"live", "notify", "gone"}]
  /\ dropPc \in {"none", "notify", "join", "joined"}
  /\ submitted \in SUBSET Job
  /\ ran \in [Job -> Nat]

Init ==
  /\ PoolInit
  /\ spc = [s \in Submitter |-> "live"]
  /\ dropPc = "none"
  /\ submitted = {}
  /\ ran = [j \in Job |-> 0]

-----------------------------------------------------------------------------
(* A plausible slip: signal only when the queue was empty before the push. *)
SubmitNotifyIfEmpty(s, j) ==
  /\ spc[s] = "live"
  /\ j \notin submitted
  /\ Push(j)
  /\ submitted' = submitted \cup {j}
  /\ spc' = [spc EXCEPT ![s] = IF jobs = <<>> THEN "notify" ELSE "live"]
  /\ UNCHANGED <<dropPc, ran>>

(* A job is a FnOnce: it is moved into submit() and cannot be given twice. *)
Submit(s, j) ==
  /\ spc[s] = "live"
  /\ j \notin submitted
  /\ Push(j)
  /\ submitted' = submitted \cup {j}
  /\ spc' = [spc EXCEPT ![s] = "notify"]
  /\ UNCHANGED <<dropPc, ran>>

SubmitNotify(s) ==
  /\ spc[s] = "notify"
  /\ NotifyOne
  /\ spc' = [spc EXCEPT ![s] = "live"]
  /\ UNCHANGED <<dropPc, submitted, ran>>

(* Arc<WorkerPool>::drop; the last one enters WorkerPool::drop. *)
Release(s) ==
  /\ spc[s] = "live"
  /\ spc' = [spc EXCEPT ![s] = "gone"]
  /\ IF \A t \in Submitter \ {s} : spc[t] = "gone"
       THEN SetShutdown /\ dropPc' = "notify"
       ELSE UNCHANGED <<poolVars, dropPc>>
  /\ UNCHANGED <<submitted, ran>>

(* A slip: wake one thread instead of all. *)
DropNotifyOne ==
  /\ dropPc = "notify"
  /\ NotifyOne
  /\ dropPc' = "join"
  /\ UNCHANGED <<spc, submitted, ran>>

DropNotify ==
  /\ dropPc = "notify"
  /\ NotifyAll
  /\ dropPc' = "join"
  /\ UNCHANGED <<spc, submitted, ran>>

(* A slip: go on when some thread of the pool has exited. *)
DropJoinFirst ==
  /\ dropPc = "join"
  /\ \E w \in Worker : wpc[w] = "exited"
  /\ dropPc' = "joined"
  /\ UNCHANGED <<poolVars, spc, submitted, ran>>

DropJoin ==
  /\ dropPc = "join"
  /\ AllExited
  /\ dropPc' = "joined"
  /\ UNCHANGED <<poolVars, spc, submitted, ran>>

WorkerRun(w) ==
  /\ \E o \in Outcome : RunJob(w, o)
  /\ ran' = [ran EXCEPT ![holds[w]] = @ + 1]
  /\ UNCHANGED <<spc, dropPc, submitted>>

WorkerLoop(w) ==
  /\ PopJob(w) \/ ExitOnShutdown(w) \/ Sleep(w)
  /\ UNCHANGED <<spc, dropPc, submitted, ran>>

WorkerWakes(w) ==
  /\ SpuriousWakeup(w)
  /\ UNCHANGED <<spc, dropPc, submitted, ran>>

(* The joined pool is gone: the process goes on without it. *)
Done ==
  /\ dropPc = "joined"
  /\ UNCHANGED vars

Next ==
  \/ \E s \in Submitter, j \in Job : Submit(s, j)
  \/ \E s \in Submitter : SubmitNotify(s) \/ Release(s)
  \/ DropNotify \/ DropJoin
  \/ \E w \in Worker : WorkerRun(w) \/ WorkerLoop(w) \/ WorkerWakes(w)
  \/ Done

(***************************************************************************)
(* The OS schedules every runnable thread: a worker that holds a job ends  *)
(* it, a worker that is ready looks at the queue, an owner inside submit   *)
(* or drop goes on.  Nobody is obliged to submit, to release its Arc, or   *)
(* to wake up spuriously.                                                  *)
(***************************************************************************)
Fairness ==
  /\ \A w \in Worker : WF_vars(WorkerRun(w)) /\ WF_vars(WorkerLoop(w))
  /\ \A s \in Submitter : WF_vars(SubmitNotify(s))
  /\ WF_vars(DropNotify) /\ WF_vars(DropJoin)

Spec == Init /\ [][Next]_vars /\ Fairness

-----------------------------------------------------------------------------
Ready == {w \in Worker : wpc[w] = "ready"}
Notifying == {s \in Submitter : spc[s] = "notify"}

(* While a thread of the pool sleeps, every queued job has a thread coming *)
(* for it: one already awake and about to take the lock, or one that a     *)
(* pending notify_one will wake.  So submit never leaves two requests to   *)
(* one thread while another one idles (pool.rs submit, worker_loop).       *)
WorkConserving ==
  Sleepers # {} => Len(jobs) <= Cardinality(Ready) + Cardinality(Notifying)

(* WorkerPool::drop returns only when everything ever submitted was run,   *)
(* exactly once: "a submitted job is never lost" (pool.rs:12-15).          *)
DrainedOnJoin ==
  dropPc = "joined" => \A j \in submitted : ran[j] = 1

(* A drop of the pool always gets to the end of its joins.                 *)
DropReturns == (dropPc = "notify") ~> (dropPc = "joined")
=============================================================================
