----------------------------- MODULE WorkerPool -----------------------------
(***************************************************************************)
(* The blocking worker pool of crates/virtio-hdv/src/pool.rs: N OS threads *)
(* over one Mutex<PoolState> and one Condvar.                              *)
(*                                                                         *)
(* Every critical section of the mutex is one step: what a thread does     *)
(* between lock() and unlock(), or between lock() and the atomic           *)
(* release-and-sleep of Condvar::wait, touches nothing but the state under *)
(* the lock.  What the code does AFTER dropping the lock (notify_one,      *)
(* notify_all, join, running the job) is a step of its own, so every other *)
(* thread may move in between.                                             *)
(*                                                                         *)
(* The operations only speak about the pool's own variables.  SharedPool   *)
(* closes them with the threads that share the pool, Offload composes them *)
(* with the dispatcher of a queue.                                         *)
(*                                                                         *)
(* A pool without threads runs its jobs on the caller; lib.rs builds the   *)
(* offload device only for a positive worker count, so Worker # {}.        *)
(***************************************************************************)
EXTENDS Naturals, Sequences, FiniteSets

CONSTANTS
  Worker,     \* the OS threads of the pool (virtio-hdv-fuse-i)
  Job,        \* units of blocking work
  NoJob       \* "this thread runs nothing"

ASSUME PoolAssumption ==
  /\ Worker # {}
  /\ IsFiniteSet(Worker)
  /\ NoJob \notin Job

VARIABLES
  jobs,       \* PoolState.jobs, a FIFO
  shutdown,   \* PoolState.shutdown
  wpc,        \* where each worker_loop stands
  holds       \* the job each worker popped and has not finished

poolVars == <<jobs, shutdown, wpc, holds>>

(***************************************************************************)
(* A worker is "ready" when it is about to look at the queue under the     *)
(* lock, "run" while it runs a job outside the lock, "wait" while it       *)
(* sleeps on the condition variable, "exited" once worker_loop returned.   *)
(***************************************************************************)
PoolTypeOK ==
  /\ jobs \in Seq(Job)
  /\ shutdown \in BOOLEAN
  /\ wpc \in [Worker -> {"ready", "run", "wait", "exited"}]
  /\ holds \in [Worker -> Job \cup {NoJob}]
  /\ \A w \in Worker : holds[w] # NoJob <=> wpc[w] = "run"

PoolInit ==
  /\ jobs = <<>>
  /\ shutdown = FALSE
  /\ wpc = [w \in Worker |-> "ready"]
  /\ holds = [w \in Worker |-> NoJob]

Sleepers == {w \in Worker : wpc[w] = "wait"}
Busy == {w \in Worker : wpc[w] = "run"}

-----------------------------------------------------------------------------
(* submit: push under the lock, then notify_one with the lock released. *)

Push(j) ==
  /\ jobs' = Append(jobs, j)
  /\ UNCHANGED <<shutdown, wpc, holds>>

NotifyOne ==
  /\ IF Sleepers = {}
       THEN wpc' = wpc
       ELSE \E w \in Sleepers : wpc' = [wpc EXCEPT ![w] = "ready"]
  /\ UNCHANGED <<jobs, shutdown, holds>>

(* WorkerPool::drop: set the flag under the lock, notify_all, join. *)

SetShutdown ==
  /\ shutdown' = TRUE
  /\ UNCHANGED <<jobs, wpc, holds>>

NotifyAll ==
  /\ wpc' = [w \in Worker |-> IF w \in Sleepers THEN "ready" ELSE wpc[w]]
  /\ UNCHANGED <<jobs, shutdown, holds>>

AllExited == \A w \in Worker : wpc[w] = "exited"

-----------------------------------------------------------------------------
(* worker_loop: pop before looking at the shutdown flag, sleep otherwise. *)

PopJob(w) ==
  /\ wpc[w] = "ready"
  /\ jobs # <<>>
  /\ jobs' = Tail(jobs)
  /\ holds' = [holds EXCEPT ![w] = Head(jobs)]
  /\ wpc' = [wpc EXCEPT ![w] = "run"]
  /\ UNCHANGED shutdown

ExitOnShutdown(w) ==
  /\ wpc[w] = "ready"
  /\ jobs = <<>>
  /\ shutdown
  /\ wpc' = [wpc EXCEPT ![w] = "exited"]
  /\ UNCHANGED <<jobs, shutdown, holds>>

Sleep(w) ==
  /\ wpc[w] = "ready"
  /\ jobs = <<>>
  /\ ~shutdown
  /\ wpc' = [wpc EXCEPT ![w] = "wait"]
  /\ UNCHANGED <<jobs, shutdown, holds>>

(* Condvar::wait may return without a notification. *)
SpuriousWakeup(w) ==
  /\ wpc[w] = "wait"
  /\ wpc' = [wpc EXCEPT ![w] = "ready"]
  /\ UNCHANGED <<jobs, shutdown, holds>>

(* How a piece of work ends: with a result or in a panic.                  *)
Outcome == {"value", "panic"}

(* A slip: the work is called bare.                                        *)
Uncaught(o) == o

(* std::panic::catch_unwind turns a panic into an Err; without it the      *)
(* panic unwinds the caller too.                                           *)
catch_unwind(o) == IF o = "panic" THEN "error" ELSE o

(* run_job, for a job that ends with o.  A panic that got through would    *)
(* unwind worker_loop and end the thread; contained, the thread goes back  *)
(* to the queue.                                                           *)
RunJob(w, o) ==
  /\ wpc[w] = "run"
  /\ holds' = [holds EXCEPT ![w] = NoJob]
  /\ wpc' = [wpc EXCEPT ![w] = IF catch_unwind(o) = "panic" THEN "exited"
                                                            ELSE "ready"]
  /\ UNCHANGED <<jobs, shutdown>>
=============================================================================
