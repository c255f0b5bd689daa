------------------------------ MODULE RearmNet ------------------------------
(***************************************************************************)
(* Completion interrupts and the re-arm net: InterruptLog and signal_msi   *)
(* of crates/virtio-hdv/src/interrupt.rs, the RearmNet thread and its drop *)
(* in crates/virtio-hdv/src/lib.rs.                                        *)
(*                                                                         *)
(* A queue that completes a request signals the MSI (address, data) pair   *)
(* the guest programmed for it.  The signal can be lost: the device reads  *)
(* a stale used_event and suppresses it, or the injection fails.  The net  *)
(* wakes every TickActive or TickIdle and delivers every pair in the log   *)
(* again.                                                                  *)
(*                                                                         *)
(* Time is discrete and passes only while the net sleeps: a round of the   *)
(* net takes no time compared with a tick (5 and 50 ms).  Queues may take  *)
(* any time over a signal.  Idle time is counted only up to where it makes *)
(* no difference.                                                          *)
(*                                                                         *)
(* Dropping the net does not stop the device: Ops stay with HDV, and the   *)
(* queues complete and signal during the join and after it.                *)
(*                                                                         *)
(* Re-delivery by the net is taken to succeed; a failing one waits for the *)
(* next tick.  The handle is bound before the guest runs, so it is not     *)
(* modelled here.                                                          *)
(***************************************************************************)
EXTENDS Naturals

CONSTANTS
  VirtQueue,       \* the queues of a device
  Pair,            \* MSI (address, data) pairs
  TickActive, TickIdle, ActiveWindow,   \* REARM_* constants, in time units
  NoPair

ASSUME RearmAssumption ==
  /\ TickActive \in Nat /\ TickIdle \in Nat /\ ActiveWindow \in Nat
  /\ 0 < TickActive /\ TickActive <= TickIdle
  /\ NoPair \notin Pair

VARIABLES
  msix,       \* per queue: the pair in the guest's MSI-X table
  started,    \* queues that completed a request
  waiting,    \* queues with a completion the guest was not interrupted for
  age,        \* per queue: how long, while its pair is in the log
  signal,     \* per queue: the pair signal_msi is working on
  recorded,   \* queues whose signal_msi is past record()
  pairs,      \* InterruptLog.pairs
  idle,       \* idle_ms(), saturating above ActiveWindow
  net,        \* the thread: "gate", "sleep", "deliver", "exited"
  tick,       \* the sleep it chose
  left,       \* what is left of it
  snapshot,   \* pairs still to deliver in this round
  stop,       \* RearmNet.stop
  owner       \* the net's owner: "up", "joining" (RearmNet::drop), "joined"

netVars == <<net, tick, left, snapshot>>
sigVars == <<signal, recorded>>
rearmVars == <<msix, started, waiting, age, sigVars, pairs, idle, netVars,
               stop, owner>>

RearmTypeOK ==
  /\ msix \in [VirtQueue -> Pair]
  /\ started \in SUBSET VirtQueue
  /\ waiting \in SUBSET VirtQueue
  /\ age \in [VirtQueue -> 0 .. TickIdle + 1]
  /\ signal \in [VirtQueue -> Pair \cup {NoPair}]
  /\ recorded \in SUBSET VirtQueue
  /\ pairs \in SUBSET Pair
  /\ idle \in 0 .. ActiveWindow + 1
  /\ net \in {"gate", "sleep", "deliver", "exited"}
  /\ tick \in 0 .. TickIdle /\ left \in 0 .. tick
  /\ snapshot \in SUBSET Pair
  /\ stop \in BOOLEAN
  /\ owner \in {"up", "joining", "joined"}

(* The log's clock starts with the device: nothing was delivered, and      *)
(* last_activity_ms is 0.                                                  *)
RearmInit ==
  /\ msix \in [VirtQueue -> Pair]
  /\ started = {} /\ waiting = {}
  /\ age = [q \in VirtQueue |-> 0]
  /\ signal = [q \in VirtQueue |-> NoPair]
  /\ recorded = {}
  /\ pairs = {}
  /\ idle = 0
  /\ net = "gate" /\ tick = 0 /\ left = 0 /\ snapshot = {}
  /\ stop = FALSE
  /\ owner = "up"

-----------------------------------------------------------------------------
(* A queue completes a request; its interrupt is signalled or suppressed.  *)
(* The first is always signalled: a ring starts with used_event 0, and a   *)
(* stale copy of 0 is 0.                                                   *)
Complete(q) ==
  /\ signal[q] = NoPair
  /\ waiting' = waiting \cup {q}
  /\ started' = started \cup {q}
  /\ \/ signal' = [signal EXCEPT ![q] = msix[q]]
     \/ q \in started /\ UNCHANGED signal
  /\ UNCHANGED <<msix, age, recorded, pairs, idle, netVars, stop, owner>>

(* signal_msi: record the pair and stamp the activity...                   *)
Record(q) ==
  /\ signal[q] # NoPair /\ q \notin recorded
  /\ pairs' = pairs \cup {signal[q]}
  /\ idle' = 0
  /\ recorded' = recorded \cup {q}
  /\ UNCHANGED <<msix, started, waiting, age, signal, netVars, stop, owner>>

(* An interrupt on pair p: the guest scans the rings that use it.          *)
Interrupted(p) == {q \in VirtQueue : msix[q] = p}

Delivered(p) ==
  /\ waiting' = waiting \ Interrupted(p)
  /\ age' = [q \in VirtQueue |-> IF q \in Interrupted(p) THEN 0 ELSE age[q]]

(* ...then inject it, which may fail unnoticed.                            *)
Deliver(q) ==
  /\ q \in recorded
  /\ \/ Delivered(signal[q])
     \/ UNCHANGED <<waiting, age>>
  /\ signal' = [signal EXCEPT ![q] = NoPair]
  /\ recorded' = recorded \ {q}
  /\ UNCHANGED <<msix, started, pairs, idle, netVars, stop, owner>>

(* The guest moves a queue's interrupt to another pair.  If this round of  *)
(* the net will not reach the new pair (it is not logged, or was delivered *)
(* already), the queue has to wait for the next, and its age starts anew.  *)
Reached(p) == p \in IF net = "deliver" THEN snapshot ELSE pairs

Reprogram(q, p) ==
  /\ p # msix[q]
  /\ msix' = [msix EXCEPT ![q] = p]
  /\ age' = [age EXCEPT ![q] = IF Reached(p) THEN @ ELSE 0]
  /\ UNCHANGED <<started, waiting, sigVars, pairs, idle, netVars, stop,
                 owner>>

-----------------------------------------------------------------------------
(* The thread: check stop, choose a tick, sleep, deliver the whole log.    *)

(* A slip: never look at stop.                                             *)
GateUnstoppable ==
  /\ net = "gate"
  /\ net' = "sleep"
  /\ tick' = IF idle <= ActiveWindow THEN TickActive ELSE TickIdle
  /\ left' = tick'
  /\ UNCHANGED <<msix, started, waiting, age, sigVars, pairs, idle, snapshot,
                 stop, owner>>

Gate ==
  /\ net = "gate"
  /\ IF stop
       THEN net' = "exited" /\ UNCHANGED <<tick, left>>
       ELSE /\ net' = "sleep"
            /\ tick' = IF idle <= ActiveWindow THEN TickActive ELSE TickIdle
            /\ left' = tick'
  /\ UNCHANGED <<msix, started, waiting, age, sigVars, pairs, idle, snapshot,
                 stop, owner>>

(* A slip: skip the round while completions flow.                          *)
SnapshotIfIdle ==
  /\ net = "sleep" /\ left = 0
  /\ snapshot' = IF idle <= ActiveWindow THEN {} ELSE pairs
  /\ net' = "deliver"
  /\ UNCHANGED <<msix, started, waiting, age, sigVars, pairs, idle, tick, left,
                 stop, owner>>

Snapshot ==
  /\ net = "sleep" /\ left = 0
  /\ snapshot' = pairs
  /\ net' = "deliver"
  /\ UNCHANGED <<msix, started, waiting, age, sigVars, pairs, idle, tick,
                 left, stop, owner>>

Redeliver(p) ==
  /\ net = "deliver" /\ p \in snapshot
  /\ snapshot' = snapshot \ {p}
  /\ Delivered(p)
  /\ UNCHANGED <<msix, started, sigVars, pairs, idle, net, tick, left, stop,
                 owner>>

EndRound ==
  /\ net = "deliver" /\ snapshot = {}
  /\ net' = "gate"
  /\ UNCHANGED <<msix, started, waiting, age, sigVars, pairs, idle, tick,
                 left, snapshot, stop, owner>>

(* RearmNet::drop: raise the flag and join.                                *)
Stop ==
  /\ owner = "up"
  /\ stop' = TRUE
  /\ owner' = "joining"
  /\ UNCHANGED <<msix, started, waiting, age, sigVars, pairs, idle, netVars>>

Join ==
  /\ owner = "joining" /\ net = "exited"
  /\ owner' = "joined"
  /\ UNCHANGED <<msix, started, waiting, age, sigVars, pairs, idle, netVars,
                 stop>>

(* A unit of time passes.                                                  *)
Elapse ==
  /\ net = "sleep" /\ left > 0
  /\ left' = left - 1
  /\ idle' = IF idle > ActiveWindow THEN idle ELSE idle + 1
  /\ age' = [q \in VirtQueue |->
               IF q \in waiting /\ msix[q] \in pairs /\ age[q] <= TickIdle
                 THEN age[q] + 1 ELSE age[q]]
  /\ UNCHANGED <<msix, started, waiting, sigVars, pairs, net, tick, snapshot,
                 stop, owner>>

Net ==
  \/ Gate \/ Snapshot \/ EndRound
  \/ \E p \in Pair : Redeliver(p)

RearmNext ==
  \/ \E q \in VirtQueue : Complete(q) \/ Record(q) \/ Deliver(q)
  \/ \E q \in VirtQueue, p \in Pair : Reprogram(q, p)
  \/ Net
  \/ Stop \/ Join
  \/ Elapse

(* The thread is scheduled, time passes, and a drop that waits for the     *)
(* thread sees it exit.  Queues owe nothing.                               *)
RearmFairness ==
  WF_rearmVars(Net) /\ WF_rearmVars(Elapse) /\ WF_rearmVars(Join)

RearmSpec == RearmInit /\ [][RearmNext]_rearmVars /\ RearmFairness

-----------------------------------------------------------------------------
(* A lost interrupt whose pair is in the log is made good within the idle  *)
(* tick, whenever in the net's round it was lost, and within the tick the  *)
(* net chose: a pair logged after the snapshot waits one sleep, not two    *)
(* (lib.rs, RearmNet and REARM_TICK_IDLE).  For a queue moved to a pair    *)
(* the round under way will not reach, it counts from the move.            *)
RecoveryBound ==
  owner = "up" => \A q \in VirtQueue : age[q] <= tick

(* RearmNet::drop returns: the flag is seen within one round, even if the  *)
(* log grows and requests complete meanwhile without end.                  *)
DropReturns == (owner = "joining") ~> (owner = "joined")
=============================================================================
