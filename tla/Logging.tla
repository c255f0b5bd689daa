------------------------------- MODULE Logging ------------------------------
(***************************************************************************)
(* The bridge from the tracing events of the DLL to the host's logger:     *)
(* crates/hyperv_virtiofs/src/logging.rs, hvfs_set_logger and the init at  *)
(* the top of every other entry of the C ABI.                              *)
(*                                                                         *)
(* Any thread of the process may install a logger, enter the ABI or emit   *)
(* an event, at any time.  What an event says is left out: it is the crate *)
(* it comes from and its level.  Its line may hold a NUL and be dropped.   *)
(*                                                                         *)
(* External: Once lets later callers wait for the closure to end; a writer *)
(* that waits for the RwLock keeps new readers out; EnvFilter lets the     *)
(* directive of a crate win over the default, and a later one for the same *)
(* crate replace an earlier one; a callback returns and does not come back *)
(* into the ABI.                                                           *)
(***************************************************************************)
EXTENDS Naturals

CONSTANTS
  Caller,        \* threads of the process
  Logger,        \* (callback, ctx) pairs a host installs
  Off,           \* a sink whose callback is NULL
  NoLogger,      \* no sink yet
  Env            \* environments the process may run in

ASSUME LoggingAssumption ==
  /\ Off # NoLogger /\ {Off, NoLogger} \cap Logger = {}
  /\ Env \subseteq [vars : SUBSET {"TRACE", "APERTURE_STATS", "REQ_STATS"},
                    RUST_LOG : 0 .. 6]

VARIABLES
  env,         \* the environment
  once,        \* INIT: "new", "running", "done"
  subscriber,  \* the process's subscriber: "none", "ours", "host"
  filter,      \* the levels our subscriber lets through, per crate
  ready,       \* history: an init has returned
  sink,        \* SINK
  readers,     \* threads that hold a read guard of SINK
  at,          \* where each thread is
  using        \* the sink a thread is about to store, or calls

initVars == <<env, once, subscriber, filter, ready>>
sinkVars == <<sink, readers, using>>
logVars == <<initVars, sinkVars, at>>

(* The levels of tracing; 6 is an unset RUST_LOG.                          *)
INFO == 3
DEBUG == 4
TRACE == 5
Unset == 6

Crate == {"virtio_hdv", "hyperv_virtiofs", "openvmm"}
Sink == Logger \cup {Off, NoLogger}

(* Something went wrong; the periodic statistics; each access.             *)
Event == [crate : Crate, level : {INFO}]
           \cup [crate : {"virtio_hdv"}, level : {DEBUG, TRACE}]

LoggingTypeOK ==
  /\ env \in Env
  /\ once \in {"new", "running", "done"}
  /\ subscriber \in {"none", "ours", "host"}
  /\ filter \in [Crate -> 0 .. TRACE] /\ ready \in BOOLEAN
  /\ sink \in Sink /\ readers \in SUBSET Caller
  /\ at \in [Caller -> {"idle", "write", "init", "install", "entry", "event",
                        "call"}]
  /\ using \in [Caller -> Sink]

LoggingInit ==
  /\ env \in Env
  /\ once = "new" /\ subscriber = "none" /\ ready = FALSE
  /\ filter = [c \in Crate |-> 0]
  /\ sink = NoLogger /\ readers = {}
  /\ at = [t \in Caller |-> "idle"]
  /\ using = [t \in Caller |-> NoLogger]

Go(t, from, to) == at[t] = from /\ at' = [at EXCEPT ![t] = to]

-----------------------------------------------------------------------------
(* hvfs_set_logger: set_sink, then init.                                   *)
hvfs_set_logger(t, l) ==
  /\ Go(t, "idle", "write")
  /\ using' = [using EXCEPT ![t] = l]
  /\ UNCHANGED <<initVars, sink, readers>>

set_sink(t) ==
  /\ Go(t, "write", "init")
  /\ readers = {}
  /\ sink' = using[t]
  /\ using' = [using EXCEPT ![t] = NoLogger]
  /\ UNCHANGED <<initVars, readers>>

(* Any other entry starts with init.                                       *)
EnterAbi(t) ==
  /\ Go(t, "idle", "init")
  /\ UNCHANGED <<initVars, sinkVars>>

(* The level a crate has in RUST_LOG, INFO without it.                     *)
Base == IF env.RUST_LOG = Unset THEN INFO ELSE env.RUST_LOG

build_filter ==
  LET trace == "TRACE" \in env.vars
      stats == env.vars # {} /\ ~trace
  IN  [c \in Crate |->
         CASE trace /\ c \in {"virtio_hdv", "hyperv_virtiofs"} -> TRACE
           [] stats /\ c = "virtio_hdv" -> DEBUG
           [] OTHER -> Base]

(* init: the first caller runs the closure ...                             *)
CallOnce(t) ==
  /\ Go(t, "init", "install")
  /\ once = "new"
  /\ once' = "running"
  /\ UNCHANGED <<env, subscriber, filter, ready, sinkVars>>

(* ... which leaves a subscriber of the host's alone ...                   *)
TryInit(t) ==
  /\ Go(t, "install", "entry")
  /\ IF subscriber = "none"
       THEN subscriber' = "ours" /\ filter' = build_filter
       ELSE UNCHANGED <<subscriber, filter>>
  /\ once' = "done" /\ ready' = TRUE
  /\ UNCHANGED <<env, sinkVars>>

(* A slip: a flag, set by whoever comes first, in place of Once.           *)
InitAgainFlag(t) ==
  /\ Go(t, "init", "entry")
  /\ once # "new"
  /\ ready' = TRUE
  /\ UNCHANGED <<env, once, subscriber, filter, sinkVars>>

(* ... and the others wait for it.                                         *)
InitAgain(t) ==
  /\ Go(t, "init", "entry")
  /\ once = "done"
  /\ ready' = TRUE
  /\ UNCHANGED <<env, once, subscriber, filter, sinkVars>>

ReturnFromAbi(t) ==
  /\ Go(t, "entry", "idle")
  /\ UNCHANGED <<initVars, sinkVars>>

(* The host process sets up a subscriber of its own (external).            *)
HostSubscriber ==
  /\ subscriber = "none"
  /\ subscriber' = "host"
  /\ UNCHANGED <<env, once, filter, ready, sinkVars, at>>

-----------------------------------------------------------------------------
(* An event that passes the filter, on a device thread or in the ABI.      *)
TraceEvent(t, e) ==
  /\ Go(t, "idle", "event") \/ Go(t, "entry", "event")
  /\ subscriber = "ours" /\ e.level <= filter[e.crate]
  /\ UNCHANGED <<initVars, sinkVars>>

(* A slip: a writer that polls (try_write), and keeps no reader out.        *)
WriterPolls == FALSE

(* Behind a writer that waits for SINK, readers wait.                      *)
WriterWaits == \E u \in Caller : at[u] = "write"

(* A slip: the pair is copied out of the lock.                             *)
OnEventUnlocked(t) ==
  /\ sink \in Logger
  /\ ~WriterWaits
  /\ Go(t, "event", "call")
  /\ using' = [using EXCEPT ![t] = sink]
  /\ UNCHANGED <<initVars, sink, readers>>

(* CallbackLayer::on_event: the callback runs under the read guard.        *)
OnEvent(t) ==
  /\ sink \in Logger
  /\ ~WriterWaits
  /\ Go(t, "event", "call")
  /\ readers' = readers \cup {t}
  /\ using' = [using EXCEPT ![t] = sink]
  /\ UNCHANGED <<initVars, sink>>

(* No sink, no callback, or a line with a NUL in it.                       *)
OnEventSkips(t) ==
  /\ ~WriterWaits
  /\ Go(t, "event", "idle")
  /\ UNCHANGED <<initVars, sinkVars>>

CallbackReturns(t) ==
  /\ Go(t, "call", "idle")
  /\ readers' = readers \ {t}
  /\ using' = [using EXCEPT ![t] = NoLogger]
  /\ UNCHANGED <<initVars, sink>>

-----------------------------------------------------------------------------
(* A call or an event that has begun goes on.                              *)
Continue(t) ==
  \/ set_sink(t) \/ CallOnce(t) \/ TryInit(t) \/ InitAgain(t)
  \/ ReturnFromAbi(t)
  \/ OnEvent(t) \/ OnEventSkips(t) \/ CallbackReturns(t)

LoggingNext ==
  \/ \E t \in Caller :
       \/ \E l \in Logger \cup {Off} : hvfs_set_logger(t, l)
       \/ EnterAbi(t)
       \/ \E e \in Event : TraceEvent(t, e)
       \/ Continue(t)
  \/ HostSubscriber

(* The OS runs every thread, and the host's callback returns.              *)
LoggingFairness == \A t \in Caller : WF_logVars(Continue(t))

LoggingSpec == LoggingInit /\ [][LoggingNext]_logVars /\ LoggingFairness

-----------------------------------------------------------------------------
(* A callback is under way only with the sink installed now: once          *)
(* hvfs_set_logger returned, the logger it replaced, and its ctx, are not  *)
(* used again by any thread ("ctx ... must outlive any logging").          *)
CallbackIsCurrent ==
  \A t \in Caller : at[t] = "call" => using[t] = sink

(* Whoever returned from init finds a subscriber, also when another thread *)
(* was installing it; ours lets through what the environment asks for: the *)
(* statistics if either of their variables is set, everything of the       *)
(* transport crates with VIRTIO_HDV_TRACE, RUST_LOG or INFO without them.  *)
LoggerInEffect ==
  ready =>
    /\ subscriber # "none"
    /\ subscriber = "ours" => \A e \in Event :
         \/ "TRACE" \in env.vars /\ e.crate # "openvmm"
         \/ env.vars \cap {"APERTURE_STATS", "REQ_STATS"} # {}
            /\ e = [crate |-> "virtio_hdv", level |-> DEBUG]
         \/ env.vars = {} /\ e.level <= Base
         => e.level <= filter[e.crate]

(* Every call of hvfs_set_logger, every init and every event comes to an   *)
(* end: the stream of events does not starve a writer, nor a logger that   *)
(* is replaced the events.  Loggers set without end would: readers queue   *)
(* behind every writer.                                                    *)
LoggingReturns ==
  <>[][\A t \in Caller, l \in Logger \cup {Off} :
         ~hvfs_set_logger(t, l)]_logVars
    => \A t \in Caller : (at[t] # "idle") ~> (at[t] = "idle")
=============================================================================
