----------------------------- MODULE MCGuestData ----------------------------
(***************************************************************************)
(* The two sequential parts of a request's way through guest memory, the   *)
(* descriptor chain and the range mapped for an access, checked together:  *)
(* every chain of the instance, and every access for every size of RAM.    *)
(* Pages of 4 bytes, 8 bytes of low memory, 6-bit addresses and 5-bit      *)
(* lengths.                                                                *)
(***************************************************************************)
EXTENDS Payload, ApertureRange

MCRam == 0 .. 12 \cup 50 .. 63
MCLength == 0 .. 40

GuestDataInit == Init /\ RangeInit /\ (chain = <<>> \/ ram = 0)

GuestDataNext ==
  \/ ram = 0 /\ Next /\ UNCHANGED rangeVars
  \/ chain = <<>> /\ RangeNext /\ UNCHANGED vars

GuestDataSpec == GuestDataInit /\ [][GuestDataNext]_<<vars, rangeVars>>
=============================================================================
