------------------------------ MODULE PciDevice -----------------------------
(***************************************************************************)
(* The device behind the PCI callbacks of HDV: the trampolines of          *)
(* crates/hdv/src/pci.rs, read_bar and write_bar and the poll pump of      *)
(* crates/virtio-hdv/src/lib.rs, over the config space of PciConfig.       *)
(*                                                                         *)
(* HDV calls on threads of its own.  A callback takes the device lock; an  *)
(* MMIO access the transport (external) cannot answer at once is deferred: *)
(* the thread gives the lock back and blocks until the pump, which takes   *)
(* the same lock, has polled the device to an answer.                      *)
(*                                                                         *)
(* The transport may panic in an access.  The panic ends at the trampoline *)
(* as E_FAIL and leaves the lock poisoned: callbacks panic on it from then *)
(* on, the pump and attach_shared do not mind.                             *)
(***************************************************************************)
EXTENDS PciConfig

CONSTANT Thread    \* HDV's threads

VARIABLES
  call,      \* per thread: "idle", "locked" (holds the device lock) or
             \* "deferred" (blocks on its token)
  stalled,   \* transport: threads whose access it has not answered
  ready,     \* transport: those it could answer when polled
  woken,     \* the waker of the poll task fired since its last poll
  poisoned   \* a panic went through the device lock

barVars == <<call, stalled, ready, woken, poisoned>>
allVars == <<vars, barVars>>

BarTypeOK ==
  /\ TypeOK
  /\ call \in [Thread -> {"idle", "locked", "deferred"}]
  /\ stalled \in SUBSET Thread /\ ready \in SUBSET stalled
  /\ woken \in BOOLEAN /\ poisoned \in BOOLEAN

DeviceInit ==
  /\ Init
  /\ call = [t \in Thread |-> "idle"]
  /\ stalled = {} /\ ready = {}
  /\ woken = TRUE /\ poisoned = FALSE

-----------------------------------------------------------------------------
(* The lock is held by the probe, or by a thread in an access.             *)
Unlocked == probe = "none" /\ \A t \in Thread : call[t] # "locked"

(* The base that bar_base knows for a BAR selector, and whether the        *)
(* emulator finds the region there.                                        *)
HasBase(b) == b \in {0, 2}
Resolves(b) == "mem" \in command /\ decoded[b] = "base"

(* A trampoline calls read_bar or write_bar, which unwrap the lock: a call *)
(* that meets a poisoned one is E_FAIL, and changes nothing.               *)
EnterBar(t) ==
  /\ pc \in {"created", "live"} /\ call[t] = "idle"
  /\ Unlocked /\ ~poisoned
  /\ call' = [call EXCEPT ![t] = "locked"]
  /\ UNCHANGED <<vars, stalled, ready, woken, poisoned>>

Return(t) == call' = [call EXCEPT ![t] = "idle"]

(* No base for the BAR (a read is all ones), or answered by the transport. *)
AccessAnswered(t) ==
  /\ call[t] = "locked"
  /\ Return(t)
  /\ UNCHANGED <<vars, stalled, ready, woken, poisoned>>

(* Defer: the token is kept, the lock dropped.                             *)
AccessDeferred(t, b) ==
  /\ call[t] = "locked" /\ HasBase(b) /\ Resolves(b)
  /\ call' = [call EXCEPT ![t] = "deferred"]
  /\ stalled' = stalled \cup {t}
  /\ UNCHANGED <<vars, ready, woken, poisoned>>

(* guard_hr: the transport panics, HDV gets E_FAIL.                        *)
AccessPanics(t, b) ==
  /\ call[t] = "locked" /\ HasBase(b) /\ Resolves(b)
  /\ Return(t)
  /\ poisoned' = TRUE
  /\ UNCHANGED <<vars, stalled, ready, woken>>

(* block_on returns: with the data, or all ones for a dropped token.       *)
Unblock(t) ==
  /\ call[t] = "deferred" /\ t \notin stalled
  /\ Return(t)
  /\ UNCHANGED <<vars, stalled, ready, woken, poisoned>>

-----------------------------------------------------------------------------
(* The transport comes to an answer and wakes the poll task (external).    *)
TransportReady(t) ==
  /\ t \in stalled \ ready
  /\ ready' = ready \cup {t}
  /\ woken' = TRUE
  /\ UNCHANGED <<vars, call, stalled, poisoned>>

(* The pump polls the device under its lock.  A slip: unwrap the lock.     *)
PollUnwraps ==
  /\ woken /\ Unlocked /\ ~poisoned
  /\ woken' = FALSE
  /\ stalled' = stalled \ ready
  /\ ready' = {}
  /\ UNCHANGED <<vars, call, poisoned>>

PollDevice ==
  /\ woken /\ Unlocked
  /\ woken' = FALSE
  /\ stalled' = stalled \ ready
  /\ ready' = {}
  /\ UNCHANGED <<vars, call, poisoned>>

-----------------------------------------------------------------------------
(* The config space under the lock.  Its callbacks unwrap the lock,        *)
(* attach_shared does not.                                                 *)
ConfigStep ==
  /\ \/ Unlocked /\ AttachStep
     \/ Unlocked /\ ~poisoned /\ ConfigCallback
     \/ ProbeStep
     \/ \E s \in StatusBit : SetStatus(s)
  /\ UNCHANGED barVars

BarStep(t) ==
  \/ AccessAnswered(t) \/ Unblock(t)
  \/ \E b \in Bar : AccessDeferred(t, b) \/ AccessPanics(t, b)

DeviceNext ==
  \/ ConfigStep
  \/ \E t \in Thread : EnterBar(t) \/ BarStep(t) \/ TransportReady(t)
  \/ PollDevice

(* A call under way goes on, the executor polls a woken task, and the      *)
(* transport answers what it deferred.                                     *)
Fairness ==
  /\ WF_allVars(ProbeStep /\ UNCHANGED barVars)
  /\ WF_allVars(PollDevice)
  /\ \A t \in Thread : WF_allVars(BarStep(t)) /\ WF_allVars(TransportReady(t))

DeviceSpec == DeviceInit /\ [][DeviceNext]_allVars /\ Fairness

-----------------------------------------------------------------------------
(* A deferred access returns, whatever other threads do in the meantime,   *)
(* panics of theirs included, if HDV's calls leave the lock free at some   *)
(* time (locks are not fair): the thread does not hold the lock the pump   *)
(* needs, and "an un-guarded executor task must not unwind on a poisoned   *)
(* device lock" (attach_shared, read_bar, write_bar).                      *)
DeferredReturns ==
  <>[][/\ \A t \in Thread : ~EnterBar(t)
       /\ ~(ConfigCallback /\ UNCHANGED barVars)]_allVars =>
    \A t \in Thread : (t \in stalled) ~> (call[t] = "idle")
=============================================================================
