# A TLA+ model of hyperv-virtiofs

hyperv-virtiofs is a DLL that attaches OpenVMM's virtio-fs device to a Hyper-V
guest through the host device virtualization interface (HDV).  An embedding
program opens a host, adds shares to it, removes them and closes the host.  Per
share the DLL runs a PCI device whose queues are served by an async dispatcher
and a pool of threads, reaches guest memory through apertures, and interrupts
the guest by MSI.

This directory models the parts that have state and concurrency, checks them
with TLC on small instances, and proves every safety property of the passing
runs with TLAPS for every value of the constants.  `PROJECT.json` has the details: the source
lines behind every definition (`map`), the hazards and the properties aimed at
them, and for every property a mutation of the code's model that breaks it.

Paths below are relative to `src/crates/`.

## 1. The system and its parts

| part | source | module | status |
|---|---|---|---|
| worker pool | `virtio-hdv/src/pool.rs` | WorkerPool, SharedPool | modelled, safety proved |
| queue dispatcher | `virtio-hdv/src/offload.rs` | Offload, RequestQueue | modelled (one queue), safety and refinement proved |
| guest memory | `virtio-hdv/src/mem.rs`, `hdv/src/lib.rs` | ApertureCache, ApertureRange | modelled, proved |
| share and host ABI | `hyperv_virtiofs/src/lib.rs` | ShareLifecycle | modelled, proved |
| COM support object | `hdv/src/proxy.rs` | ShareLifecycle | modelled, proved |
| interrupts, re-arm net | `virtio-hdv/src/interrupt.rs`, `lib.rs` | RearmNet | modelled, safety proved |
| doorbells, worker channel | `virtio-hdv/src/doorbell.rs`, `handle.rs`, `hdv/src/vmworker.rs` | Doorbells | modelled, safety proved |
| config space, BAR probe | `virtio-hdv/src/lib.rs` | PciConfig | modelled, proved |
| PCI callbacks, deferred MMIO | `hdv/src/pci.rs`, `virtio-hdv/src/lib.rs` | PciDevice | modelled, safety proved |
| descriptor payloads | `virtio-hdv/src/payload.rs` | Payload | modelled, proved |
| request dispatch | `virtio-hdv/src/offload.rs` (`dispatch_one`) | Payload, Offload | partly |
| logging bridge | `hyperv_virtiofs/src/logging.rs` | Logging | modelled, safety proved |
| rate limiter, statistics | `virtio-hdv/src/ratelimit.rs`, `reqstats.rs`, `mem.rs` | EmitGate | modelled, proved |
| FUSE session, virtio transport, config emulator, HDV, HCS | outside the repository | external actions | from their use |
| raw bindings, test rig | `*-sys`, `hcs-testvm` | - | not modelled |

How they meet at run time.  `hvfs_host_open` registers a device host with HDV
through a COM support object; `hvfs_add_share` attaches a device to it
(`attach_shared`: config space, re-arm net, worker pool, guest memory) and asks
HCS for a slot.  HDV then calls the device on threads of its own (config and
MMIO callbacks).  At DRIVER_OK the transport registers doorbells and starts the
queues; each queue has a `Dispatcher` task that pops descriptor chains, serves
a lone one itself and hands several to the `WorkerPool`.  A worker reads the
request and writes the reply through `payload.rs`, over guest memory mapped by
the aperture cache, and sends the result back to the dispatcher, which
completes it and signals the guest; the re-arm net re-delivers the interrupts
the guest may have missed.  Removal and close undo all this while some of those
threads still run.  All of them emit tracing events, which the logging bridge
hands to the logger the embedding program installed with `hvfs_set_logger`.

## 2. Modules

**WorkerPool** is the pool itself: `jobs`, `shutdown`, and where each
`worker_loop` stands.  A critical section of the mutex is one step; what the
code does after dropping the lock (`notify_one`, running the job, `join`) is a
step of its own.  A condvar is a set of sleeping threads, of which a notify
wakes any one, and threads may wake spuriously.  A job returns or panics;
`catch_unwind` stands between a panic and the end of the thread, and in Offload
between it and the loss of the request.  **SharedPool** closes the pool with
the owners of an `Arc<WorkerPool>` that submit and release; the last one runs
`drop`.

**Offload** composes WorkerPool with the dispatcher of one queue: the rings as
`offload.rs` sees them through `VirtioQueue`, the steps of `Dispatcher::run` at
its await points and around calls that another thread can race, wakers (`poll`
of a source that is not ready arms it, its next event wakes the task once), the
completion channel, and `stop_queue`, restart, and the drop of the device, also
while a stop is awaited, which cancels the task.  **RequestQueue** is the abstract specification: a
chain belongs to the guest, is available, with the device, or used, and the
queue is handed back only when the device holds none.  Offload implements it
under the mapping at the end of `Offload.tla`.

**ApertureCache** is `with_mapping` and everything under it: hit, miss under
the write lock, eviction at the cap, eviction and retry on quota, the copy, the
`Arc` counts (as who holds what), the finalisation of the cache, and
`DeviceHost::drop` with its liveness flag against `Aperture::drop`.
**ApertureRange** is the arithmetic that module takes as given: page rounding,
the u64 and u32 widths, the RAM ceiling with the gap below 4 GiB.

**ShareLifecycle** has the four calls of the C ABI on any number of client
threads, with the handles and the registry, the device instances of HDV, the
slots of HCS with their late and refused answers, the runtime id that is
queried until a query succeeds and then remembered, and the reference count of
the support object.

**RearmNet** has `signal_msi`, the log, the net's thread with its two tick
lengths, and its drop, in discrete time.  The queues complete requests and
signal at any time, during the join too.  A history variable counts how long a
queue has waited; when the guest moves a waiting queue to another pair, the
count goes on if the round in progress still reaches that pair and starts again
if it does not.  **Doorbells** has
`register_doorbell` over its two routes with the lazy connection of
`FiovDoorbells::connect` step by step, and the guards' drops.  HDV's Teardown
may come at any time, between two steps of a registration too: the callback
takes no lock that would keep it out.

**PciConfig** has `attach_shared`'s programming of the config space, the
`details()` probe one register access at a time, and HDV's writes of the command
register (section 4 has the assumption on the others).
**PciDevice** extends it with the MMIO callbacks, their deferral and the poll
pump, the device lock and its poisoning.

**Payload** has `PayloadReader`, `PayloadWriter` and the reply sender over
chains of buffers, against the byte strings they stand for, and the way
`dispatch_one` ends on a message that is no request.  Payload and ApertureRange
are sequential; **MCGuestData** puts them side by side for one run.

**EmitGate** has the three versions of "may I write to the log now":
`should_emit`, `maybe_emit_stats`, `maybe_emit`.  **Logging** has what happens
to an event that is written: the sink with its lock, `init` under `Once` with
the filter it builds from the environment, and `on_event`, on any number of
threads.

MC modules give sets and symmetry to the instances.  Modules named `...Proofs`
and OffloadRefinement hold the theorems.  Definitions introduced as "a slip" are
the mutations; no specification uses them.

## 3. What is checked

| run | instance | states | what it shows |
|---|---|---|---|
| shared_pool | 3 workers, 2 owners, 3 jobs | 6,580 | `WorkConserving`: queued jobs never wait while a thread sleeps with no signal on the way; `DrainedOnJoin`: when drop returns every job was run exactly once; `DropReturns` |
| offload | 2 workers, 2 requests | 79,752 | `InflightExact`; `OwnedOnce`: a request is in one place; `QuiescedReturn`: a stopped queue holds none; `NoLostWakeup`: a parked dispatcher with work has a wake-up coming; `RequestServed`; `StopQuiesces`; and the refinement `ImplementsRequestQueue` |
| aperture_cache | 2 threads, 3 ranges in a shard of cap 2, 5 accesses | 202,644 | `CopyMapped`: no copy through an unmapped aperture while the host is up; `EveryMappingOwned`: none is leaked or destroyed twice; `MappedBound`; `RetryEndsByEmptying`; `NeverRemapped` |
| aperture_destroy | 2 shards of cap 1 | - | violation, see section 6 |
| share_lifecycle | 2 callers, 3 devices, 2 COM references, 2 failed queries | 542,807 | `RegistryExact`, `TeardownOrder`, `SlotBacked`, `NoOrphan`, `SupportHeld`, and `SlowPathNotSticky`: a failed query of the runtime id costs one share its fast kicks, not the host |
| rearm_net | 2 queues, 2 MSI pairs, ticks 1 and 3 | 222,616 | `RecoveryBound`: an interrupt that was lost and whose pair is logged is made good within the tick in force; `DropReturns`, also while requests go on completing |
| doorbells | 2 queues | 744 | `RegisteredAsGuarded`: unregistration takes the route of registration; `DoorbellsGo` |
| doorbell_teardown | 2 queues | - | violation, see section 6 |
| pci_config | 1 status bit, 2 HDV threads | 6,890 | `ProbeFindsSizes`, `ProbeTransparent`, `RoutedByInternalBases`, `StatusKept`, `DeferredReturns` |
| emit_gate | 3 threads, 4 operations, time 0..4 | 847,140 | `StampsApart`, `NeverSilenced`, `OneReportPerCount`, in each of the three schemes |
| guest_data | pages of 4 bytes, 6-bit addresses; chains of up to 3 buffers of 1 or 2 bytes | 2,095,397 | `AccessCovered`, `RamAdmitted` for every access and RAM size; `ReadsTheRequest`, `ReplyExact` for every chain |
| logging | 3 threads, 2 loggers, 6 environments | 21,894 | `CallbackIsCurrent`: a replaced logger is not called; `LoggerInEffect`: after init the levels are those the environment asks for; `LoggingReturns` |

Type invariants are proved and so are not part of a listed run (section 5); of
Offload's most is (`DataOK`).

### Bounds, and why they are enough

- Pool and dispatcher: what goes wrong with signals needs a thread that sleeps,
  one that is busy and one that is about to sleep, hence three workers; the
  dispatcher takes its inline path for one request and its pool path for two,
  and a chain that comes back can arrive again while the other is out.  Chains
  are reused by the guest without limit, so sequences of requests are
  unbounded.
- Apertures: a shard at its cap of two with a third range makes every further
  miss evict; two threads make the race of two misses and of an eviction with
  a copy.  `MaxAccesses` bounds the stamps; five accesses fill the shard, evict
  and come back to an evicted range.  Addresses of mappings are reused, and
  there is one more of them than `MappedBound` needs, so the only quota is the
  platform's, which refuses at any time.
- Lifecycle: two callers make every pair of concurrent calls; three devices
  allow one that is being added, one that is removed and one that stays.
  `MaxRefs` bounds how many references HDV holds at a time, not how often;
  `MaxFailures` bounds the failed queries of the runtime id: two, so that one
  can fail after another and still leave a share that must be fast.
- Re-arm net: two queues that may share a pair or change it.  The ticks 1 and 3
  with a window of 2 keep the order of the code's 5 ms, 50 ms and its activity
  window.
- Address arithmetic: small moduli keep every relation the code relies on (page
  divides the widths, low memory is whole pages), stated in `RangeAssumption`.
- Payload: three buffers put a boundary on either side of a buffer; reads of up
  to 3 bytes are shorter, equal and longer than a buffer.  `BufferLen` excludes
  empty readable descriptors, see section 6.
- Logging: three threads make one that writes the sink, one that reads it and
  one that wants to; the six environments have each variable alone, one of them
  with a quiet `RUST_LOG`, and a quiet, a loud and no `RUST_LOG` without them.

Symmetry is used for threads, requests, devices and mapping addresses in runs
of invariants and of one action property, never with liveness.

### Fairness, and why the code justifies it

All fairness is weak, and on steps of threads that are running:

- SharedPool, Offload: the OS runs a thread that can run, so a worker finishes
  its job (`dispatch_one` returns or panics, and panics are contained) and looks
  at the queue again, and a thread inside `submit` or `drop` goes on.  The
  executor polls a task that was woken and drops one that was cancelled.
  Nobody has to submit, stop, restart, drop, or wake up spuriously, and the guest
  need not publish anything.
- RearmNet: the net's thread is scheduled, time passes, and whoever joins the
  thread sees it end.  Nothing is assumed of the calls that signal.
- Doorbells: a registration that was begun goes on (the platform's calls
  return), and the executor gets to the task whose device was torn down.
- PciDevice: a callback goes on, a woken poll task is polled, and the transport
  answers, at some time, an access it deferred.  The last is an assumption about
  OpenVMM; without it `DeferredReturns` cannot hold.
- Logging: the OS runs every thread, and the host's callback returns.
- ApertureCache, ShareLifecycle, PciConfig, EmitGate, ApertureRange and Payload
  have no fairness and no liveness property.

`StopQuiesces` says that a stop ends, or the device is dropped while the stop is
awaited.  It has a premise: the guest stops publishing at some time.  While a
guest always has exactly one request pending, the dispatcher stays on its
inline path, which does not look at the stop channel, so a stop waits until the
stream pauses.  `LoggingReturns` has one too: the host stops setting loggers.
Events queue behind every writer of the sink, so loggers set without end could
keep one waiting; events without end do not hold up a writer.

## 4. External parts

HDV, HCS, the VM worker's RPC objects, the `tracing` crate, OpenVMM's `VirtioQueue`, virtio PCI
transport, config emulator and FUSE session are not in the repository.  They
are modelled from the way the code uses them, with all the freedom the code
allows for: registrations and maps are granted or refused, answers come late,
rings report errors, an access is answered at once, later, or panics.  They are
marked external in the map.  A claim below therefore holds as far as these
parts behave like their actions.

Two assumptions go beyond that and carry weight.

- HDV writes no BAR register.  `write_config` forwards a write of any register to
  the emulator; the comment at `virtio-hdv/src/lib.rs:290-294` says the guest
  never reads or writes the BAR registers of the config space, because HDV
  answers for them, and the model has only writes of the command and status
  register.  `RoutedByInternalBases`, `ProbeTransparent` and their theorems rest
  on this: a BAR write that came through would move the base the emulator routes
  by away from the one `bar_base` rebuilds.
- The transport answers every access it deferred (section 3, fairness).

## 5. What is proved

All theorems are of the form `Spec => []Inv`, `Spec => [][A]_vars` or an
implementation, for every value of the constants that satisfies the named
assumption.  Each inductive invariant also holds in TLC on the instance of the
run, or, for EmitGate and Payload, on smaller ones.

| module | assumption | theorems |
|---|---|---|
| SharedPoolProofs | workers finite and not empty, owners finite | `TypeCorrect`, `NoJobLost` (DrainedOnJoin), `PoolConservesWork` (WorkConserving) |
| OffloadProofs | workers finite and not empty; a job of the pool is a chain | `InflightIsExact`, `ReturnsQuiesced`, `WakeupsAreKept` (NoLostWakeup) |
| OffloadRefinement | as above | `ChainsOwnedOnce` (OwnedOnce), `OffloadImplements` (ImplementsRequestQueue) |
| ApertureCacheProofs | threads, ranges and addresses finite, cap positive; shards finite and a thread (`SizeAssumption`) | `CopiesAreMapped`, `MappingsAreOwned` (EveryMappingOwned), `RangesMappedOnce` (NeverRemapped), `RetriesEmptyTheShard` (RetryEndsByEmptying), `MappingsAreBounded` (MappedBound) |
| ShareLifecycleProofs | `NoDev` is no device, `MaxRefs` and `MaxFailures` naturals | `TypeCorrect`, `RegistryIsExact`, `TeardownInOrder`, `SlotsAreBacked`, `OrphansExplained`, `SupportIsHeld`, `SlowPathBounded` (SlowPathNotSticky) |
| DeviceProofs | PciDevice: none | `DeviceImplementsConfig`, `ConfigTypeCorrect`, `DeviceTypeCorrect`, `ProbeSizes`, `ProbeRestores`, `RoutesInternally`, `ProbeKeepsStatus` |
| | Doorbells: `NoQueue` is no queue | `DoorbellTypeCorrect`, `GuardsMatch` (RegisteredAsGuarded) |
| | RearmNet: ticks positive, the active one no longer than the idle one | `RearmTypeCorrect`, `LossesAreRecovered` (RecoveryBound) |
| | ApertureRange: page, shards and widths positive, the page divides the hole's end and the address width | `RangeTypeCorrect`, `MappingsCover` (AccessCovered), `RamIsAdmitted` (RamAdmitted) |
| PayloadProofs | `Nul` is a byte and `Stale` none, bounds and lengths naturals | `PayloadTypeCorrect`, `RequestInOrder`, `ReplyIsWhole`; for buffers that are not empty `RequestIsRead` (ReadsTheRequest), `ReplyIsExact` (ReplyExact) |
| DiagnosticsProofs | EmitGate: interval and period positive; Logging: the environment sets known variables and levels | `TypeCorrect`, `EmissionsApart`, `NobodySilenced`, `ReportsExact`; `CallbacksAreCurrent`, `LoggersTakeEffect` |

The arguments:

- **SharedPool.**  That a drop loses no job needs to know where a job is at any
  time: submitted jobs are queued once, held by one worker, or have been run
  once (`Placed`).  And nothing can be pushed after a worker saw the flag with
  an empty queue, because the flag is set by the last owner (`Shutdown`).  Work
  conservation is a cardinality argument: queued jobs do not outnumber the
  ready threads and pending signals together while a thread sleeps.
- **Offload.**  The count is inductive once it is known which places of the task
  go with an empty batch and that a returned task has counted to zero
  (`Counting`, over the types in `DataOK`).  That no wake-up is lost needs, for
  each of the three things the task polls, from which place in a pass on its
  waker is armed or the task already woken, and that a chain published after the
  last look at the ring leaves a kick behind (`Waking`).  `PanicContained` is the
  lemma that a pool thread survives its job and sends the request back however
  the job ended.  `Placed` says that the
  rings, the batch, the queue of the pool, the workers and the channel hold
  every chain once: `OwnedOnce` is its count, and it tells the refinement which
  chain a step moves.  A step of the abstract queue is the move of one chain, a
  stop or a restart; everything else the dispatcher, the pool and the device do
  is a stutter.
- **ApertureCache.**  Who owns an address: the cache, copying threads, or one
  thread that runs its drop, and never the last together with another (`Owned`).
  That needs what the locks give: nothing leaves a shard while a reader is
  between its look-up and its clone, and the holder of the write lock finds its
  range still absent (`Locked`), and where a thread without a range can be
  (`Phases`).  The retry loop is arithmetic on top: no shard exceeds its cap, and
  whoever has the lock has made room for one and counted every eviction
  (`Room`).  `MappedBound` is strict, and for that needs one more invariant:
  when no shard has room, some thread holds no mapping but one of the cache
  (`Slack`; the thread that filled the last shard).  The count then maps the
  mappings in the cache one to one into shards times entries, and the others
  one to one into threads, with a place left over on one side or the other.
- **ShareLifecycle.**  `RegistryExact` needs that a call in progress owns its
  device and no other call has it (`Ownership`).  The teardown order follows
  from what each stage of the close has already released (`Closing`).  What
  the guest may see of a device without a handle is tied to the outcome of the
  call that freed it (`Slots`, `Orphans`).  `Support` is the balance of the
  reference count: what HDV holds, plus one while the DLL has its own.  For
  `SlowPathNotSticky` the shares that are slow, and the adds that will be, are
  counted against the failed queries.
- **PciDevice.**  The device implements PciConfig step by step: an MMIO step
  leaves the config space alone, a config callback takes a step of it.  The
  invariant says where a probe is: registers before the current one are sized
  and restored, the current one holds the pattern and `orig` what it held, the
  command is off with its value in `cmd`.  Decode is off throughout, so the
  emulator ignores none of the writes.
- **Doorbells.**  A registration must find no guard in place; `Walk` says which
  guards exist in each phase of the transport.
- **RearmNet.**  How long a queue can have waited depends on where the net is
  (`Waits`): during a sleep the wait and the rest of the sleep fit into the tick,
  during a round only pairs of the snapshot still to be delivered leave a queue
  waiting, and after it none does.  A pair that is logged after the snapshot
  was signalled then, and has not waited at all.
- **ApertureRange.**  Rounding down to a page and the length up widens an access,
  and the cut at the ceiling takes nothing of it away; the ceiling itself is the
  end of any split of the RAM or the largest address.
- **Payload.**  A place in the chain is related to an offset in the string of all
  buffers of a kind by where each buffer begins (`Starts`, `Offset`).  The
  invariant is that the reference cursor is the offset of the reader, that what
  the call returned so far is the string from where it began (`Reading`), and
  that the writeable bytes before the writer begin the reply, those behind it
  are untouched and the slices left are the rest (`Writing`).  `Starts` and the
  joined string are recursive over the buffers.  What they compute is shown by
  induction on the number of buffers, as membership of every natural number in
  the set of those for which the claim holds (`Induct`, from the least-number
  principle), because the induction theorems of the library cannot be used here.
  Two clauses hold only if no buffer is empty, and those theorems say so: an
  empty readable buffer reads as the end of the request, an empty writeable one
  ends the reply early (section 6).  The rest, `RequestInOrder` and
  `ReplyIsWhole`, holds for any buffers.
- **EmitGate.**  A thread at its compare-exchange found an interval between the
  stamp it loaded and its time.  If that stamp is still there the new one is an
  interval later; if it is not, somebody stamped after this thread read the
  clock.  A count is carried by at most one thread and reported when it is done.
- **Logging.**  A thread in a callback holds the read guard and uses the sink
  that is installed (`Guarded`); `Once` is done only after a subscriber was found
  or installed, and ours has the filter of the environment (`Installed`).

Only model-checked: the liveness properties, that is `DropReturns` of the pool
and of the net, `RequestServed`, `StopQuiesces`, `DoorbellsGo`,
`DeferredReturns` and `LoggingReturns`.  Liveness under fairness is outside what
the prover handles.

## 6. Where comments and code differ

Two are shown by runs.  **aperture_destroy**: the comment at
`hdv/src/lib.rs:160-163` says the flag is cleared first so that an unmap that
races behind skips `HdvDestroyGuestMemoryAperture`.  `Aperture::drop` loads the
flag at line 303 and makes the call at line 310; the host can go down in
between, and TLC finds a destroy after the teardown.

**doorbell_teardown**: the comment at `virtio-hdv/src/doorbell.rs:173-176` says
guards drop at a device reset or inside HDV's Teardown callback, so that the
device handle is valid.  The poll pump shares the transport and may be the last
to let go of it, after Teardown returned, as may a registration that Teardown
overtook; TLC finds a guard of an HDV registration that outlives the device.

Others met while modelling; they are noted with their hazards and have no run:

- `virtio-hdv/src/mem.rs:525-528`: the `Arc` keeps the aperture object across
  the copy and so protects it from eviction; it does not keep the mapping when
  the host is torn down.  `CopyMapped` is stated for a host that is up.
- `hyperv_virtiofs/src/lib.rs:566-568`: after an unsupported live remove the
  context with the FUSE session stays with HDV until the host is closed.
- `virtio-hdv/src/lib.rs:89-90`: after a successful live remove HDV may have torn
  the device down while its net runs, until the share is freed.
- `virtio-hdv/src/lib.rs:97-100`: a queue the guest moved to another vector has
  no logged pair until its first signal, so a first interrupt that is
  suppressed is not re-delivered.  `RecoveryBound` is about logged pairs.
- `virtio-hdv/src/interrupt.rs:67-68`: "nothing delivered" reads as recent
  activity at the start of the clock, not as long idle; it costs wake-ups only.
- `virtio-hdv/src/reqstats.rs:176-177`: the counter is loaded again after it was
  incremented, so two completers may both report a multiple or both miss it.
- `virtio-hdv/src/payload.rs:60-61`: a readable descriptor of length zero is
  taken as the current payload, and the reader reports the end with data to
  come.  The run uses buffers of at least one byte.
- `virtio-hdv/src/payload.rs:127`: `read_until` takes back the offset it read too
  far and not `position`, so `remaining_len` comes out too small.  The reads
  themselves do not use it; its caller is the FUSE session.
- `hyperv_virtiofs/src/lib.rs:180`: `hcs_modify` never frees the result document
  of its operation, unlike `hcs_runtime_id`.
- `hyperv_virtiofs/src/logging.rs:134-137`: the statistics variables are said to
  raise a level; with `RUST_LOG=trace` their directive lowers the transport crate
  to debug.  `LoggerInEffect` asks for the statistics only.
- `hyperv_virtiofs/src/logging.rs:118`: a callback that calls `hvfs_set_logger`
  waits for its own read guard.  The model takes callbacks not to re-enter.

## 7. Not modelled, and why

- The FUSE session and the file system behind it, the virtio transport and the
  emulators of OpenVMM: other repositories, environment here.
- A pool of zero threads (the device is not built with one), queue resume after
  a save, config reads of the virtio device, traits.
- Argument checks and JSON parsing of the ABI: they return before any state
  changes.  `last_error`: a text per thread, written and read by that thread.
- The counters of the statistics and the means and maxima a report makes of them:
  independent relaxed atomics nothing else reads.  The text of log lines.
- The conversion of GUIDs and of device names: no state, and no property tells
  one from another.
- Raw bindings (declarations) and the test rig (drives test VMs).
- The memory orderings of single atomics: every atomic is sequentially
  consistent here.

## 8. What could follow

1. Two queues over one pool: a composition of two dispatchers, for stops of one
   queue while the other keeps the pool busy.
2. An abstract specification of guest memory ("a copy reads and writes the guest's
   bytes or fails") that ApertureCache with ApertureRange implements.
3. Queue resume in Offload, once the transport saves queues.

## 9. Running it

From this directory, for a run of the table with its module and configuration
(`PROJECT.json`, `runs`):

    tlc -workers 2 -config MCOffload.cfg Offload

and for the proofs:

    tlapm OffloadRefinement.tla

Every run takes about a minute at most.  The proofs together take about
half an hour, PayloadProofs and ApertureCacheProofs eight or nine minutes each.
