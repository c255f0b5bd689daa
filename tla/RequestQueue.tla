---------------------------- MODULE RequestQueue ----------------------------
(***************************************************************************)
(* What a virtio queue promises to the guest and to the transport, however *)
(* the device serves it: every chain is with the guest, available, taken   *)
(* by the device, or used; the device takes and completes chains only      *)
(* while the queue runs; and the queue is handed back, so that its state   *)
(* may be saved, only when the device has taken nothing it has not         *)
(* completed.  A dropped device goes on until its task is cancelled, and   *)
(* may leave what it took uncompleted.                                     *)
(*                                                                         *)
(* Offload implements this specification.                                  *)
(***************************************************************************)
CONSTANT Req

VARIABLES
  owner,     \* who has each chain
  phase      \* "running", "stopped", "dropped"

vars == <<owner, phase>>

Init ==
  /\ owner = [r \in Req |-> "guest"]
  /\ phase = "running"

Move(r, from, to) ==
  /\ owner[r] = from
  /\ owner' = [owner EXCEPT ![r] = to]
  /\ UNCHANGED phase

Publish(r)  == phase = "running" /\ Move(r, "guest", "avail")
Take(r)     == phase # "stopped" /\ Move(r, "avail", "device")
Complete(r) == phase # "stopped" /\ Move(r, "device", "used")
Reap(r)     == Move(r, "used", "guest")

HandBack ==
  /\ phase = "running"
  /\ \A r \in Req : owner[r] # "device"
  /\ phase' = "stopped"
  /\ UNCHANGED owner

(* The queue goes on where it was handed back, or on a ring set up anew.   *)
Restart ==
  /\ phase = "stopped"
  /\ phase' = "running"
  /\ \/ UNCHANGED owner
     \/ owner' = [r \in Req |-> "guest"]

DropQueue ==
  /\ phase # "dropped"
  /\ phase' = "dropped"
  /\ UNCHANGED owner

Next ==
  \/ \E r \in Req : Publish(r) \/ Take(r) \/ Complete(r) \/ Reap(r)
  \/ HandBack \/ Restart \/ DropQueue

Spec == Init /\ [][Next]_vars
=============================================================================
