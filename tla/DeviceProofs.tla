---------------------------- MODULE DeviceProofs ----------------------------
(***************************************************************************)
(* Proofs about a device as HDV and the guest see it: the config space and *)
(* the probe of its BARs (in the device whole, with its MMIO), doorbell    *)
(* registration, interrupts with the re-arm net, and the ranges of guest   *)
(* memory it maps.  For any status bits, threads, queues, MSI pairs, ticks *)
(* and page sizes.                                                         *)
(*                                                                         *)
(* ProbeInv says where a probe is.  Registers before the one under probe   *)
(* are restored and sized, the one under probe holds the pattern and orig  *)
(* what it held, the command register is off with its value in cmd.  No    *)
(* config access of the probe can be ignored because decode is off         *)
(* throughout.                                                             *)
(*                                                                         *)
(* That a queue is registered exactly by the route of its guard is not     *)
(* inductive: a registration must find no guard in place.  Walk says which *)
(* guards there are in each phase of the transport.                        *)
(*                                                                         *)
(* How long a lost interrupt waits depends on where the net is (Waits).    *)
(* The ranges are arithmetic: rounding to pages widens an access, and the  *)
(* cut at the ceiling takes nothing of it away.                            *)
(***************************************************************************)
EXTENDS PciDevice, Doorbells, RearmNet, ApertureRange, Integers, TLAPS

Home(b) == IF b \in Used THEN "base" ELSE "unset"
Size(b) == IF b \in Used THEN "ones" ELSE "unset"

InLoop == probe \in {"read", "size", "restore"}

Decode ==
  /\ probe # "none" => cmd = wanted
  /\ probe \in {"none", "clear"} => command = wanted
  /\ InLoop \/ probe = "command" => command = {}
  /\ pc = "new" => probe = "none" /\ command = {}

Registers ==
  /\ \A b \in Bar : bars[b] =
       IF pc = "new" THEN "unset"
       ELSE IF probe \in {"size", "restore"} /\ b = i THEN Size(b)
       ELSE Home(b)
  /\ probe \in {"size", "restore"} => orig = Home(i)
  /\ probe = "command" => i = 6

Sized ==
  InLoop \/ probe = "command" =>
    \A b \in Bar : b < i \/ (b = i /\ probe = "restore") => probed[b] = Size(b)

ProbeInv == TypeOK /\ Decode /\ Registers /\ Sized /\ RoutedByInternalBases

-----------------------------------------------------------------------------
(* A new device satisfies the invariant.                                   *)
LEMMA InitProbeInv == Init => ProbeInv
  BY DEF Init, ProbeInv, TypeOK, Decode, Registers, Sized, RoutedByInternalBases,
         InLoop, Bar, Used, Value, Command

(* The steps of attach_shared keep it.                                     *)
LEMMA AttachKeeps == ASSUME ProbeInv, AttachStep PROVE ProbeInv'
  <1>1. CASE ProgramInternalBars
    BY <1>1 DEF ProbeInv, TypeOK, Decode, Registers, Sized, RoutedByInternalBases,
         InLoop, Bar, Used, Value, Command, Home, Size, ProgramInternalBars
  <1>2. CASE Create
    BY <1>2 DEF ProbeInv, TypeOK, Decode, Registers, Sized, RoutedByInternalBases,
         InLoop, Bar, Used, Value, Command, Home, Size, Create, emulator
  <1>3. CASE EnableDecode
    BY <1>3 DEF ProbeInv, TypeOK, Decode, Registers, Sized, RoutedByInternalBases,
         InLoop, Bar, Used, Value, Command, Home, Size, EnableDecode, WriteCommand
  <1> QED BY <1>1, <1>2, <1>3 DEF AttachStep

(* Config callbacks of HDV keep it: they meet no probe.                    *)
LEMMA CallbackKeeps == ASSUME ProbeInv, ConfigCallback PROVE ProbeInv'
  <1>1. ASSUME NEW c \in Command, NEW s \in SUBSET StatusBit, WriteConfig(c, s)
        PROVE  ProbeInv'
    BY <1>1 DEF ProbeInv, TypeOK, Decode, Registers, Sized, RoutedByInternalBases,
         InLoop, Bar, Used, Value, Command, Home, Size,
         WriteConfig, WriteCommand
  <1>2. CASE BeginDetails
    BY <1>2 DEF ProbeInv, TypeOK, Decode, Registers, Sized, RoutedByInternalBases,
         InLoop, Bar, Used, Value, Command, Home, Size,
         BeginDetails, emulator
  <1> QED BY <1>1, <1>2 DEF ConfigCallback

(* The probe keeps it, access by access.                                   *)
LEMMA ProbeKeeps == ASSUME ProbeInv, ProbeStep PROVE ProbeInv'
  <1>1. CASE ClearCommand
    BY <1>1 DEF ProbeInv, TypeOK, Decode, Registers, Sized, RoutedByInternalBases,
         InLoop, Bar, Used, Value, Command, Home, Size,
         ClearCommand, WriteCommand
  <1>2. CASE SaveBar
    BY <1>2 DEF ProbeInv, TypeOK, Decode, Registers, Sized, RoutedByInternalBases,
         InLoop, Bar, Used, Value, Command, Home, Size,
         SaveBar, WriteBar
  <1>3. CASE SizeBar
    BY <1>3 DEF ProbeInv, TypeOK, Decode, Registers, Sized, RoutedByInternalBases,
         InLoop, Bar, Used, Value, Command, Home, Size,
         SizeBar, emulator
  <1>4. CASE RestoreBar
    BY <1>4 DEF ProbeInv, TypeOK, Decode, Registers, Sized, RoutedByInternalBases,
         InLoop, Bar, Used, Value, Command, Home, Size,
         RestoreBar, WriteBar, NextBar
  <1>5. CASE RestoreCommand
    BY <1>5 DEF ProbeInv, TypeOK, Decode, Registers, Sized, RoutedByInternalBases,
         InLoop, Bar, Used, Value, Command, Home, Size,
         RestoreCommand, WriteCommand
  <1> QED BY <1>1, <1>2, <1>3, <1>4, <1>5 DEF ProbeStep

(* Every step of the config space keeps it.                                *)
LEMMA ConfigKeeps == ASSUME ProbeInv, [Next]_vars PROVE ProbeInv'
  <1>1. ASSUME NEW s \in StatusBit, SetStatus(s) PROVE ProbeInv'
    BY <1>1 DEF ProbeInv, TypeOK, Decode, Registers, Sized, RoutedByInternalBases,
         InLoop, Bar, Used, Value, Command, Home, Size,
         SetStatus
  <1>2. CASE UNCHANGED vars
    BY <1>2 DEF ProbeInv, TypeOK, Decode, Registers, Sized, RoutedByInternalBases,
         InLoop, Bar, Used, Value, Command, Home, Size,
         vars
  <1> QED BY <1>1, <1>2, AttachKeeps, CallbackKeeps, ProbeKeeps DEF Next

-----------------------------------------------------------------------------
(* The device whole implements the config space alone: MMIO accesses, the  *)
(* poll pump and panics leave the registers and the probe as they are.     *)
THEOREM DeviceImplementsConfig == DeviceSpec => Spec
  <1>1. DeviceInit => Init
    BY DEF DeviceInit
  <1>2. [DeviceNext]_allVars => [Next]_vars
    <2> SUFFICES ASSUME [DeviceNext]_allVars PROVE [Next]_vars
      OBVIOUS
    <2>1. CASE ConfigStep
      BY <2>1 DEF ConfigStep, Next
    <2>2. ASSUME NEW t \in Thread, EnterBar(t) \/ BarStep(t) \/ TransportReady(t)
          PROVE  UNCHANGED vars
      BY <2>2 DEF EnterBar, BarStep, AccessAnswered, Unblock, AccessDeferred,
           AccessPanics, TransportReady
    <2>3. CASE PollDevice
      BY <2>3 DEF PollDevice
    <2>4. CASE UNCHANGED allVars
      BY <2>4 DEF allVars
    <2> QED BY <2>1, <2>2, <2>3, <2>4 DEF DeviceNext
  <1> QED BY <1>1, <1>2, PTL DEF DeviceSpec, Spec

(* The invariant holds in every state of a device.                         *)
THEOREM ProbeInvariance == DeviceSpec => []ProbeInv
  <1>1. Spec => []ProbeInv
    BY InitProbeInv, ConfigKeeps, PTL DEF Spec
  <1> QED BY <1>1, DeviceImplementsConfig, PTL

(* Type correctness of the config space and the probe.                     *)
THEOREM ConfigTypeCorrect == DeviceSpec => []TypeOK
  BY ProbeInvariance, PTL DEF ProbeInv

(* Type correctness of the device: the transport answers only accesses it  *)
(* deferred.                                                               *)
THEOREM DeviceTypeCorrect == DeviceSpec => []BarTypeOK
  <1>1. DeviceInit /\ TypeOK => BarTypeOK
    BY Zenon DEF DeviceInit, BarTypeOK
  <1>2. BarTypeOK /\ TypeOK' /\ [DeviceNext]_allVars => BarTypeOK'
    <2> SUFFICES ASSUME BarTypeOK, TypeOK', [DeviceNext]_allVars PROVE BarTypeOK'
      OBVIOUS
    <2>1. CASE ConfigStep \/ UNCHANGED allVars
      BY <2>1 DEF BarTypeOK, ConfigStep, allVars, barVars
    <2>2. ASSUME NEW t \in Thread, EnterBar(t) \/ BarStep(t) \/ TransportReady(t)
          PROVE  BarTypeOK'
      BY <2>2, Zenon DEF BarTypeOK, EnterBar, BarStep, AccessAnswered, Unblock,
           AccessDeferred, AccessPanics, TransportReady, Return
    <2>3. CASE PollDevice
      BY <2>3, Zenon DEF BarTypeOK, PollDevice
    <2> QED BY <2>1, <2>2, <2>3 DEF DeviceNext
  <1> QED BY <1>1, <1>2, ConfigTypeCorrect, PTL DEF DeviceSpec

(* Every probe finds the size of every BAR (details).                      *)
THEOREM ProbeSizes == DeviceSpec => []ProbeFindsSizes
  <1>1. ProbeInv => ProbeFindsSizes
    BY DEF ProbeInv, TypeOK, Registers, Sized, ProbeFindsSizes, InLoop, Size, Bar,
         Used, Value
  <1> QED BY <1>1, ProbeInvariance, PTL

(* Between probes the registers are as attach_shared and HDV left them.    *)
THEOREM ProbeRestores == DeviceSpec => []ProbeTransparent
  <1>1. ProbeInv => ProbeTransparent
    BY DEF ProbeInv, Decode, Registers, ProbeTransparent, Home, Bar, Used
  <1> QED BY <1>1, ProbeInvariance, PTL

(* With decode on, MMIO is routed by the internal bases.                   *)
THEOREM RoutesInternally == DeviceSpec => []RoutedByInternalBases
  BY ProbeInvariance, PTL DEF ProbeInv

(* No probe acknowledges a status bit, whoever else uses the device.       *)
THEOREM ProbeKeepsStatus == DeviceSpec => StatusKept
  <1>1. [Next]_vars => [probe # "none" => status' = status]_vars
    BY DEF Next, AttachStep, ConfigCallback, ProbeStep, ProgramInternalBars,
         Create, EnableDecode, WriteConfig, BeginDetails, ClearCommand, SaveBar,
         SizeBar, RestoreBar, RestoreCommand, SetStatus, WriteCommand, emulator,
         vars
  <1> QED BY <1>1, DeviceImplementsConfig, PTL DEF Spec, StatusKept

-----------------------------------------------------------------------------
Walk ==
  /\ transport = "idle" => \A q \in Queue : guard[q] = "none"
  /\ transport = "install" => \A q \in todo : guard[q] = "none"
  /\ transport \in {"reset", "dropping", "dropped"} =>
       \A q \in Queue \ todo : guard[q] = "none"
  /\ transport \in {"dropping", "dropped"} => device # "live"
  /\ asking # NoQueue => transport = "install"
  /\ held # {} => asking # NoQueue

DoorbellInv == DoorbellTypeOK /\ Walk /\ RegisteredAsGuarded

-----------------------------------------------------------------------------
(* A device just attached satisfies the invariant.                         *)
LEMMA InitDoorbellInv == DoorbellInit => DoorbellInv
  BY QueueAssumption, Zenon
    DEF DoorbellInit, DoorbellInv, DoorbellTypeOK, Walk, RegisteredAsGuarded, Route,
     RuntimeIdKnown

(* Registering a doorbell, refusing it and dropping its guard keep it.     *)
LEMMA QueueKeeps ==
  ASSUME DoorbellInv, NEW q \in Queue,
         \/ RegisterHdv(q) \/ RefusedByHdv(q)
         \/ RegisterWorker(q) \/ RegisterNone(q)
         \/ DropGuard(q)
  PROVE  DoorbellInv'
  <1>1. CASE RegisterHdv(q)
    BY <1>1, QueueAssumption DEF DoorbellInv, DoorbellTypeOK, Walk, RegisteredAsGuarded, Route, connect,
       RegisterHdv, HdvRegisterDoorbell, Step
  <1>2. CASE RefusedByHdv(q)
    BY <1>2, QueueAssumption DEF DoorbellInv, DoorbellTypeOK, Walk, RegisteredAsGuarded, Route, connect,
       RefusedByHdv
  <1>3. CASE RegisterWorker(q)
    BY <1>3, QueueAssumption, Zenon
    DEF DoorbellInv, DoorbellTypeOK, Walk, RegisteredAsGuarded, Route, connect,
       RegisterWorker, FiovRegisterDoorbell, Step
  <1>4. CASE RegisterNone(q)
    BY <1>4, QueueAssumption DEF DoorbellInv, DoorbellTypeOK, Walk, RegisteredAsGuarded, Route, connect,
       RegisterNone, Step
  <1>5. CASE DropGuard(q)
    BY <1>5, QueueAssumption, SMTT(30)
    DEF DoorbellInv, DoorbellTypeOK, Walk, RegisteredAsGuarded, Route, connect,
       DropGuard, UnregisterDoorbell, AfterDrop, Step
  <1> QED BY <1>1, <1>2, <1>3, <1>4, <1>5

(* The other steps keep it: the connection to the worker, what the guest,  *)
(* HDV and HCS do, and the end of the transport.                           *)
LEMMA OtherKeeps ==
  ASSUME DoorbellInv,
         \/ Bind \/ AddSlot \/ DriverOk \/ Reset
         \/ GetVmWorkerProcess \/ GetDevice \/ QueryNotification
         \/ RemoveSlot \/ Teardown \/ FreeDevice \/ DropTransport
         \/ UNCHANGED doorbellVars
  PROVE  DoorbellInv'
  <1>1. CASE Bind
    BY <1>1, QueueAssumption DEF DoorbellInv, DoorbellTypeOK, Walk, RegisteredAsGuarded, Route, connect,
       Bind
  <1>2. CASE AddSlot
    BY <1>2, QueueAssumption DEF DoorbellInv, DoorbellTypeOK, Walk, RegisteredAsGuarded, Route, connect,
       AddSlot
  <1>3. CASE DriverOk
    BY <1>3, QueueAssumption DEF DoorbellInv, DoorbellTypeOK, Walk, RegisteredAsGuarded, Route, connect,
       DriverOk
  <1>4. CASE GetVmWorkerProcess
    BY <1>4, QueueAssumption DEF DoorbellInv, DoorbellTypeOK, Walk, RegisteredAsGuarded, Route, connect,
       GetVmWorkerProcess, Connecting
  <1>5. CASE GetDevice
    BY <1>5, QueueAssumption DEF DoorbellInv, DoorbellTypeOK, Walk, RegisteredAsGuarded, Route, connect,
       GetDevice, Connecting
  <1>6. CASE QueryNotification
    BY <1>6, QueueAssumption DEF DoorbellInv, DoorbellTypeOK, Walk, RegisteredAsGuarded, Route, connect,
       QueryNotification, Connecting
  <1>7. CASE Reset
    BY <1>7, QueueAssumption DEF DoorbellInv, DoorbellTypeOK, Walk, RegisteredAsGuarded, Route, connect,
       Reset
  <1>8. CASE RemoveSlot
    BY <1>8, QueueAssumption DEF DoorbellInv, DoorbellTypeOK, Walk, RegisteredAsGuarded, Route, connect,
       RemoveSlot
  <1>9. CASE Teardown
    BY <1>9, QueueAssumption DEF DoorbellInv, DoorbellTypeOK, Walk, RegisteredAsGuarded, Route, connect,
       Teardown
  <1>10. CASE FreeDevice
    BY <1>10, QueueAssumption DEF DoorbellInv, DoorbellTypeOK, Walk, RegisteredAsGuarded, Route, connect,
       FreeDevice
  <1>11. CASE DropTransport
    BY <1>11, QueueAssumption, Zenon
    DEF DoorbellInv, DoorbellTypeOK, Walk, RegisteredAsGuarded, Route, connect,
       DropTransport
  <1>12. CASE UNCHANGED doorbellVars
    BY <1>12, QueueAssumption DEF DoorbellInv, DoorbellTypeOK, Walk, RegisteredAsGuarded, Route, connect,
       doorbellVars
  <1> QED BY <1>1, <1>2, <1>3, <1>4, <1>5, <1>6, <1>7, <1>8, <1>9, <1>10, <1>11, <1>12

(* The invariant holds in every state.                                     *)
THEOREM DoorbellInvariance == DoorbellSpec => []DoorbellInv
  <1>1. DoorbellInv /\ [DoorbellNext]_doorbellVars => DoorbellInv'
    BY QueueKeeps, OtherKeeps DEF DoorbellNext, Install, Ended
  <1> QED BY InitDoorbellInv, <1>1, PTL DEF DoorbellSpec

(* Type correctness; a guard of the worker route always has a connection   *)
(* until the transport is dropped.                                         *)
THEOREM DoorbellTypeCorrect == DoorbellSpec => []DoorbellTypeOK
  BY DoorbellInvariance, PTL DEF DoorbellInv

(* A queue has one registration, on the route of its guard, and none       *)
(* without a guard (DoorbellGuard, register_doorbell).                     *)
THEOREM GuardsMatch == DoorbellSpec => []RegisteredAsGuarded
  BY DoorbellInvariance, PTL DEF DoorbellInv

-----------------------------------------------------------------------------
(* How long a queue has waited for a lost interrupt, by where the net is.  *)
(* The pair of a queue that waits is logged.  In a sleep the wait so far   *)
(* and the rest of the sleep fit into the tick; during a round only pairs  *)
(* still to be delivered leave a queue waiting; after the round none does. *)
Waits ==
  /\ snapshot \subseteq pairs
  /\ \A q \in VirtQueue :
       /\ age[q] > 0 => msix[q] \in pairs
       /\ net = "sleep" => age[q] + left <= tick
       /\ net = "deliver" => age[q] <= tick
       /\ net = "deliver" /\ age[q] > 0 => msix[q] \in snapshot
       /\ net \in {"gate", "exited"} => age[q] = 0

(* A signal under way has a pair, and is recorded before it is delivered.  *)
Signals ==
  \A q \in recorded : signal[q] \in pairs

Joined ==
  /\ owner = "up" <=> ~stop
  /\ net = "exited" => stop
  /\ owner = "joined" => net = "exited"

RearmInv == RearmTypeOK /\ Waits /\ Signals /\ Joined

-----------------------------------------------------------------------------
(* A net just spawned satisfies it.                                        *)
LEMMA InitRearmInv == RearmInit => RearmInv
  <1> SUFFICES ASSUME RearmInit PROVE RearmInv
    OBVIOUS
  <1>1. RearmTypeOK
    <2>1. /\ 0 \in 0 .. TickIdle + 1 /\ 0 \in 0 .. ActiveWindow + 1
          /\ 0 \in 0 .. TickIdle /\ 0 \in 0 .. 0
      BY RearmAssumption
    <2> QED  BY <2>1, Zenon DEF RearmInit, RearmTypeOK
  <1>2. Waits
    BY DEF RearmInit, Waits
  <1>3. Signals /\ Joined
    BY Zenon DEF RearmInit, Signals, Joined
  <1> QED  BY <1>1, <1>2, <1>3 DEF RearmInv

(* An interrupt, whoever delivers it, ends waits and starts none.          *)
LEMMA DeliveredAges ==
  ASSUME RearmTypeOK, NEW p, Delivered(p)
  PROVE  /\ waiting' \in SUBSET VirtQueue
         /\ age' \in [VirtQueue -> 0 .. TickIdle + 1]
         /\ \A q \in VirtQueue :
              age'[q] = IF msix[q] = p THEN 0 ELSE age[q]
  BY RearmAssumption DEF RearmTypeOK, Delivered, Interrupted

(* What the queues and the guest do.                                       *)
LEMMA QueueKeepsRearm ==
  ASSUME RearmInv, NEW q \in VirtQueue,
         \/ Complete(q) \/ Record(q) \/ Deliver(q)
         \/ \E p \in Pair : Reprogram(q, p)
  PROVE  RearmInv'
  <1> USE RearmAssumption DEF RearmInv, RearmTypeOK, Waits, Signals, Joined,
          netVars, sigVars
  <1>1. CASE Complete(q)
    BY <1>1 DEF Complete
  <1>2. CASE Record(q)
    BY <1>2 DEF Record
  <1>3. CASE Deliver(q)
    <2>1. CASE Delivered(signal[q])
      BY <1>3, <2>1, DeliveredAges DEF Deliver
    <2>2. CASE UNCHANGED <<waiting, age>>
      BY <1>3, <2>2 DEF Deliver
    <2> QED  BY <1>3, <2>1, <2>2 DEF Deliver
  <1>4. ASSUME NEW p \in Pair, Reprogram(q, p) PROVE RearmInv'
    BY <1>4 DEF Reprogram, Reached
  <1> QED  BY <1>1, <1>2, <1>3, <1>4

(* What the net does.                                                      *)
LEMMA NetKeepsRearm == ASSUME RearmInv, Net PROVE RearmInv'
  <1> USE RearmAssumption DEF RearmInv, RearmTypeOK, Waits, Signals, Joined,
          netVars, sigVars
  <1>1. CASE Gate
    BY <1>1 DEF Gate
  <1>2. CASE Snapshot
    BY <1>2 DEF Snapshot
  <1>3. ASSUME NEW p \in Pair, Redeliver(p) PROVE RearmInv'
    BY <1>3, DeliveredAges DEF Redeliver
  <1>4. CASE EndRound
    BY <1>4 DEF EndRound
  <1> QED  BY <1>1, <1>2, <1>3, <1>4 DEF Net

(* The drop of the net, and time.                                          *)
LEMMA OtherKeepsRearm ==
  ASSUME RearmInv, Stop \/ Join \/ Elapse \/ UNCHANGED rearmVars
  PROVE  RearmInv'
  <1> USE RearmAssumption DEF RearmInv, RearmTypeOK, Waits, Signals, Joined,
          netVars, sigVars
  <1>1. CASE Stop \/ Join
    BY <1>1, Zenon DEF Stop, Join
  <1>2. CASE UNCHANGED rearmVars
    BY <1>2 DEF rearmVars
  <1>3. CASE Elapse
    BY <1>3 DEF Elapse
  <1> QED  BY <1>1, <1>2, <1>3

(* The invariant holds in every state.                                     *)
THEOREM RearmInvariance == RearmSpec => []RearmInv
  <1>1. RearmInv /\ [RearmNext]_rearmVars => RearmInv'
    BY QueueKeepsRearm, NetKeepsRearm, OtherKeepsRearm DEF RearmNext
  <1> QED  BY InitRearmInv, <1>1, PTL DEF RearmSpec

(* Type correctness of the log, the signals and the net.                   *)
THEOREM RearmTypeCorrect == RearmSpec => []RearmTypeOK
  BY RearmInvariance, PTL DEF RearmInv

(* A lost interrupt whose pair is in the log is made good within the tick  *)
(* the net chose, for any ticks, queues and pairs (RearmNet::spawn).       *)
THEOREM LossesAreRecovered == RearmSpec => []RecoveryBound
  <1>1. RearmInv => RecoveryBound
    BY RearmAssumption DEF RearmInv, RearmTypeOK, Waits, RecoveryBound
  <1> QED  BY <1>1, RearmInvariance, PTL
-----------------------------------------------------------------------------
(* Division rounds down, by less than the divisor.                         *)
LEMMA DivMod ==
  ASSUME NEW x \in Nat, NEW n \in Nat \ {0}
  PROVE  /\ x \div n \in Nat /\ (x \div n) * n \in Nat
         /\ (x \div n) * n <= x /\ x < (x \div n) * n + n
  OBVIOUS

(* A remainder is below the divisor, and nothing is lost of a number that  *)
(* is: a length that fits the u32 survives the conversion.                 *)
LEMMA Remainder ==
  ASSUME NEW x \in Nat, NEW n \in Nat \ {0}
  PROVE  x % n \in 0 .. n - 1 /\ (x < n => x % n = x)
  OBVIOUS

(* The page an address is on.                                              *)
LEMMA BaseBelow ==
  ASSUME NEW addr \in Nat
  PROVE  Base(addr) \in Nat /\ Base(addr) <= addr /\ addr < Base(addr) + PAGE
  BY DivMod, RangeAssumption DEF Base

(* Whole pages, from the page of the address on, that hold the access.     *)
LEMMA PagesCover ==
  ASSUME NEW addr \in Nat, NEW len \in Nat
  PROVE  /\ Pages(addr, len) \in Nat
         /\ addr + len <= Base(addr) + Pages(addr, len)
<1> DEFINE x == addr + len - Base(addr) + PAGE - 1
<1>1. x \in Nat /\ PAGE \in Nat \ {0}
  BY BaseBelow, RangeAssumption
<1>2. (x \div PAGE) * PAGE \in Nat /\ x < (x \div PAGE) * PAGE + PAGE
  <2> HIDE DEF x
  <2> QED  BY <1>1, DivMod
<1>3. Pages(addr, len) = (x \div PAGE) * PAGE
  BY DEF Pages
<1> QED  BY <1>1, <1>2, <1>3, BaseBelow

(* The ceiling is an address, and the RAM above the hole ends below it.    *)
LEMMA Ceiling ==
  ASSUME ram \in Ram
  PROVE  /\ max_address \in 0 .. U64 - 1 /\ ram \in Nat
         /\ max_address = HIGH_RAM_BASE + ram \/ max_address = U64 - 1
  BY RangeAssumption DEF max_address, ram_size_to_max_gpa, Least

(* The range mapped for an access below the ceiling begins at its page,    *)
(* and with_mapping's "addr..end lies within [base, base+span)".           *)
LEMMA SpanCovers ==
  ASSUME NEW addr \in Nat, NEW len \in Nat, NEW max \in Nat,
         InRange(addr, len, max)
  PROVE  /\ Span(addr, len, max) \in Nat
         /\ Span(addr, len, max) <= Pages(addr, len)
         /\ addr + len <= Base(addr) + Span(addr, len, max)
         /\ Base(addr) + Span(addr, len, max) <= max
<1>1. Base(addr) <= addr /\ Base(addr) \in Nat
  BY BaseBelow
<1>2. Pages(addr, len) \in Nat /\ addr + len <= Base(addr) + Pages(addr, len)
  BY PagesCover
<1>3. addr + len <= max
  BY DEF InRange
<1> QED  BY <1>1, <1>2, <1>3 DEF Span, Least

(* The access under way is one that with_mapping let through.              *)
Chosen ==
  /\ ram \in Ram
  /\ \/ access = NoAccess
     \/ \E addr \in 0 .. U64 - 1, len \in Length :
          /\ InRange(addr, len, max_address)
          /\ access = [addr |-> addr, len |-> len, base |-> Base(addr),
                       mapped |-> MappedLen(addr, len, max_address),
                       shard |-> shard(addr)]

(* It stays so.                                                            *)
THEOREM RangeInvariance == RangeSpec => []Chosen
<1>1. RangeInit => Chosen
  BY DEF RangeInit, Chosen
<1>2. Chosen /\ [RangeNext]_rangeVars => Chosen'
  <2> SUFFICES ASSUME Chosen, [RangeNext]_rangeVars PROVE Chosen'
    OBVIOUS
  <2>1. ASSUME NEW addr \in 0 .. U64 - 1, NEW len \in Length, Access(addr, len)
        PROVE  Chosen'
    BY <2>1, Zenon DEF Access, Chosen, max_address
  <2>2. CASE NotMapped
    BY <2>2, Zenon DEF NotMapped, Chosen
  <2>3. CASE UNCHANGED rangeVars
    BY <2>3, Zenon DEF rangeVars, Chosen, max_address
  <2> QED  BY <2>1, <2>2, <2>3 DEF RangeNext
<1> QED  BY <1>1, <1>2, PTL DEF RangeSpec

(* The fields keep their widths, and the shard is one of the shards.       *)
THEOREM RangeTypeCorrect == RangeSpec => []RangeTypeOK
<1>1. Chosen => RangeTypeOK
  <2> SUFFICES ASSUME Chosen PROVE RangeTypeOK
    OBVIOUS
  <2> USE RangeAssumption
  <2>1. CASE access = NoAccess
    BY <2>1 DEF Chosen, RangeTypeOK, NoAccess
  <2>2. ASSUME NEW addr \in 0 .. U64 - 1, NEW len \in Length,
               InRange(addr, len, max_address),
               access = [addr |-> addr, len |-> len, base |-> Base(addr),
                         mapped |-> MappedLen(addr, len, max_address),
                         shard |-> shard(addr)]
        PROVE  RangeTypeOK
    <3>1. addr \in Nat /\ len \in Nat /\ max_address \in Nat
      BY Ceiling DEF Chosen
    <3>2. Base(addr) \in 0 .. U64 - 1
      BY <3>1, BaseBelow
    <3>3. MappedLen(addr, len, max_address) \in 0 .. U32 - 1
      BY <2>2, <3>1, SpanCovers, Remainder DEF MappedLen
    <3>4. shard(addr) \in 0 .. SHARDS - 1
      <4>1. Base(addr) \div PAGE \in Nat
        BY <3>2, DivMod
      <4> QED  BY <4>1, Remainder DEF shard
    <3> QED  BY <2>2, <3>2, <3>3, <3>4, Zenon DEF Chosen, RangeTypeOK
  <2> QED  BY <2>1, <2>2, Zenon DEF Chosen
<1> QED  BY <1>1, RangeInvariance, PTL

(* The range handed to HDV covers the access and stays below the ceiling,  *)
(* for any page size, RAM size, address and length (with_mapping).         *)
THEOREM MappingsCover == RangeSpec => []AccessCovered
<1>1. Chosen => AccessCovered
  <2> SUFFICES ASSUME Chosen, Pages(access.addr, access.len) < U32
               PROVE  /\ access.base <= access.addr
                      /\ access.addr + access.len <= access.base + access.mapped
                      /\ access.base + access.mapped <= max_address
    BY DEF AccessCovered
  <2> USE RangeAssumption
  <2>1. CASE access = NoAccess
    BY <2>1, Ceiling DEF Chosen, NoAccess
  <2>2. ASSUME NEW addr \in 0 .. U64 - 1, NEW len \in Length,
               InRange(addr, len, max_address),
               access = [addr |-> addr, len |-> len, base |-> Base(addr),
                         mapped |-> MappedLen(addr, len, max_address),
                         shard |-> shard(addr)]
        PROVE  /\ access.base <= access.addr
               /\ access.addr + access.len <= access.base + access.mapped
               /\ access.base + access.mapped <= max_address
    <3>1. addr \in Nat /\ len \in Nat /\ max_address \in Nat
      BY Ceiling DEF Chosen
    <3>2. Span(addr, len, max_address) \in Nat
          /\ Span(addr, len, max_address) < U32
      <4>1. Pages(addr, len) < U32
        BY <2>2
      <4>2. /\ Span(addr, len, max_address) \in Nat
            /\ Span(addr, len, max_address) <= Pages(addr, len)
        BY <2>2, <3>1, SpanCovers
      <4>3. Pages(addr, len) \in Nat
        BY <3>1, PagesCover
      <4> QED  BY <4>1, <4>2, <4>3
    <3>3. MappedLen(addr, len, max_address) = Span(addr, len, max_address)
      BY <3>2, Remainder DEF MappedLen
    <3> QED  BY <2>2, <3>1, <3>3, SpanCovers, BaseBelow
  <2> QED  BY <2>1, <2>2, Zenon DEF Chosen
<1> QED  BY <1>1, RangeInvariance, PTL

(* Wherever Hyper-V splits the RAM around the hole below 4 GiB, the        *)
(* ceiling admits all of it (ram_size_to_max_gpa).                         *)
THEOREM RamIsAdmitted == RangeSpec => []RamAdmitted
<1>1. Chosen => RamAdmitted
  BY Ceiling, RangeAssumption DEF Chosen, RamAdmitted, Least
<1> QED  BY <1>1, RangeInvariance, PTL
=============================================================================
