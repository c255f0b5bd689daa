------------------------------ MODULE PciConfig -----------------------------
(***************************************************************************)
(* The internal PCI config space of a device: how attach_shared, details   *)
(* and the BAR accessors of crates/virtio-hdv/src/lib.rs use OpenVMM's     *)
(* config emulator (external).                                             *)
(*                                                                         *)
(* Of a BAR register only what it was last written matters: nothing, the   *)
(* internal base, or all-ones, which reads back as the size mask.  The     *)
(* emulator ignores BAR writes while memory decode is on, routes MMIO by   *)
(* the bases it had when decode was turned on, and clears the status bits  *)
(* that are written as ones.                                               *)
(*                                                                         *)
(* HDV asks for the details at create and may ask again later.  The probe  *)
(* holds the device lock, so the steps of it are not interleaved; they are *)
(* separate steps because each one is an access the emulator may ignore.   *)
(*                                                                         *)
(* write_config forwards a write of any register.  Only those of the       *)
(* command and status register are modelled: as lib.rs:290-294 records,    *)
(* HDV answers the guest's BAR accesses itself and never forwards one.     *)
(* That nobody but attach and the probe writes a BAR register is an        *)
(* assumption about the platform, and RoutedByInternalBases and            *)
(* ProbeTransparent rest on it.                                            *)
(***************************************************************************)
EXTENDS Naturals

CONSTANTS
  StatusBit    \* the write-1-to-clear bits of the status register

VARIABLES
  bars,      \* config 0x10-0x24: "unset", "base" or "ones"
  command,   \* config 0x04, low half: subset of {"mem", "master"}
  status,    \* config 0x04, high half
  wanted,    \* history: the command last written by attach or by HDV
  decoded,   \* the bases the emulator routes MMIO by
  pc,        \* attach: "new", "programmed", "created", "live"; with a probe
             \* under way, the place it returns to
  probe,     \* the probe: "none", "clear", then "read", "size", "restore" of
             \* BAR i, and "command"
  i,         \* BAR under probe
  orig,      \* its register before
  cmd,       \* the saved command register
  probed     \* the size masks found

vars == <<bars, command, status, decoded, wanted, pc, probe, i, orig, cmd,
          probed>>
emulator == <<bars, command, status, decoded>>

Bar == 0 .. 5
\* BAR0 and BAR2 are 64-bit: two registers each.
Used == {0, 1, 2, 3}
Value == {"unset", "base", "ones"}
Command == SUBSET {"mem", "master"}

TypeOK ==
  /\ bars \in [Bar -> Value] /\ decoded \in [Bar -> Value]
  /\ command \in Command /\ wanted \in Command /\ status \in SUBSET StatusBit
  /\ pc \in {"new", "programmed", "created", "live"}
  /\ probe \in {"none", "clear", "read", "size", "restore", "command"}
  /\ i \in 0 .. 6 /\ (probe \in {"read", "size", "restore"} => i \in Bar)
  /\ orig \in Value /\ cmd \in Command
  /\ probed \in [Bar -> Value]

Init ==
  /\ bars = [b \in Bar |-> "unset"] /\ decoded = bars
  /\ command = {} /\ wanted = {} /\ status = {}
  /\ pc = "new" /\ probe = "none"
  /\ i = 0 /\ orig = "unset" /\ cmd = {}
  /\ probed = [b \in Bar |-> "unset"]

-----------------------------------------------------------------------------
(* The emulator.                                                           *)

\* A register the device does not implement reads as 0 whatever is written.
WriteBar(b, v) ==
  bars' = IF "mem" \in command \/ b \notin Used THEN bars
                                                ELSE [bars EXCEPT ![b] = v]

\* A write of offset 4: the command, and ones to the status bits s.
WriteCommand(c, s) ==
  /\ command' = c
  /\ status' = status \ s
  /\ decoded' = IF "mem" \in c /\ "mem" \notin command THEN bars ELSE decoded

(* The device reports something in its status register.                    *)
SetStatus(s) ==
  /\ pc # "new" /\ probe = "none"
  /\ status' = status \cup {s}
  /\ UNCHANGED <<bars, command, decoded, wanted, pc, probe, i, orig, cmd,
                 probed>>

-----------------------------------------------------------------------------
(* attach_shared: the internal bases, HdvCreateDeviceInstance, decode.     *)

ProgramInternalBars ==
  /\ pc = "new"
  /\ bars' = [b \in Bar |-> IF b \in Used THEN "base" ELSE bars[b]]
  /\ pc' = "programmed"
  /\ UNCHANGED <<command, status, decoded, wanted, probe, i, orig, cmd,
                 probed>>

Create ==
  /\ pc = "programmed" /\ probe = "none"
  /\ pc' = "created"
  /\ UNCHANGED <<emulator, wanted, probe, i, orig, cmd, probed>>

EnableDecode ==
  /\ pc = "created" /\ probe = "none"
  /\ WriteCommand({"mem"}, {})
  /\ wanted' = {"mem"}
  /\ pc' = "live"
  /\ UNCHANGED <<bars, probe, i, orig, cmd, probed>>

(* write_config of the command and status register, the only one HDV is    *)
(* assumed to write.                                                       *)
WriteConfig(c, s) ==
  /\ pc = "live" /\ probe = "none"
  /\ WriteCommand(c, s)
  /\ wanted' = c
  /\ UNCHANGED <<bars, pc, probe, i, orig, cmd, probed>>

-----------------------------------------------------------------------------
(* details: save and clear the command register; size each BAR; restore.   *)

BeginDetails ==
  /\ pc # "new" /\ probe = "none"
  /\ cmd' = command
  /\ probe' = "clear"
  /\ UNCHANGED <<emulator, wanted, pc, i, orig, probed>>

(* A slip: the probe leaves decode as it is.                               *)
ClearCommandSkipped ==
  /\ probe = "clear"
  /\ i' = 0 /\ probe' = "read"
  /\ UNCHANGED <<emulator, wanted, pc, orig, cmd, probed>>

ClearCommand ==
  /\ probe = "clear"
  /\ WriteCommand({}, {})
  /\ i' = 0 /\ probe' = "read"
  /\ UNCHANGED <<bars, wanted, pc, orig, cmd, probed>>

SaveBar ==
  /\ probe = "read"
  /\ orig' = bars[i]
  /\ WriteBar(i, "ones")
  /\ probe' = "size"
  /\ UNCHANGED <<command, status, decoded, wanted, pc, i, cmd, probed>>

SizeBar ==
  /\ probe = "size"
  /\ probed' = [probed EXCEPT ![i] = bars[i]]
  /\ probe' = "restore"
  /\ UNCHANGED <<emulator, wanted, pc, i, orig, cmd>>

NextBar ==
  /\ i' = i + 1
  /\ probe' = IF i = 5 THEN "command" ELSE "read"

(* A slip: the register keeps the probe pattern.                           *)
RestoreBarSkipped ==
  /\ probe = "restore"
  /\ NextBar
  /\ UNCHANGED <<emulator, wanted, pc, orig, cmd, probed>>

RestoreBar ==
  /\ probe = "restore"
  /\ WriteBar(i, orig)
  /\ NextBar
  /\ UNCHANGED <<command, status, decoded, wanted, pc, orig, cmd, probed>>

(* Slips: decode stays off; the whole register is echoed, the status bits  *)
(* read before included.                                                   *)
RestoreCommandSkipped ==
  /\ probe = "command"
  /\ probe' = "none" /\ i' = 0
  /\ UNCHANGED <<emulator, wanted, pc, orig, cmd, probed>>

RestoreCommandEchoes ==
  /\ probe = "command"
  /\ WriteCommand(cmd, status)
  /\ probe' = "none" /\ i' = 0
  /\ UNCHANGED <<bars, wanted, pc, orig, cmd, probed>>

RestoreCommand ==
  /\ probe = "command"
  /\ WriteCommand(cmd, {})
  /\ probe' = "none" /\ i' = 0
  /\ UNCHANGED <<bars, wanted, pc, orig, cmd, probed>>

AttachStep == ProgramInternalBars \/ Create \/ EnableDecode

ConfigCallback ==
  \/ \E c \in Command, s \in SUBSET StatusBit : WriteConfig(c, s)
  \/ BeginDetails

ProbeStep ==
  \/ ClearCommand
  \/ SaveBar \/ SizeBar \/ RestoreBar
  \/ RestoreCommand

Next ==
  \/ AttachStep \/ ConfigCallback \/ ProbeStep
  \/ \E s \in StatusBit : SetStatus(s)

Spec == Init /\ [][Next]_vars

-----------------------------------------------------------------------------
(* The probe finds the size of every BAR whether decode was on or off when *)
(* HDV asked: "The probe only works with memory-space decode OFF", and "the*)
(* VID can call GetDetails again later" (details).                         *)
ProbeFindsSizes ==
  probe = "command" =>
    probed = [b \in Bar |-> IF b \in Used THEN "ones" ELSE "unset"]

(* Between probes the registers are what attach and HDV made them: every   *)
(* base in place, the command register as last written.                    *)
ProbeTransparent ==
  pc # "new" /\ probe = "none" =>
    command = wanted /\ \A b \in Used : bars[b] = "base"

(* Whenever memory decode is on, the emulator routes by the internal bases *)
(* that bar_base and bar_and_offset rebuild addresses from: a BAR access   *)
(* resolves, and a doorbell is registered where the guest writes.          *)
RoutedByInternalBases ==
  "mem" \in command => \A b \in Used : decoded[b] = "base"

(* No probe acknowledges a status bit: "write-1-to-clear bits must not be  *)
(* echoed back" (details).                                                 *)
StatusKept == [][probe # "none" => status' = status]_vars
=============================================================================
