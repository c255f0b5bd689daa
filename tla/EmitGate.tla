------------------------------ MODULE EmitGate ------------------------------
(***************************************************************************)
(* Who may write to the log, and when: should_emit behind warn_ratelimited!*)
(* (crates/virtio-hdv/src/ratelimit.rs), maybe_emit_stats of the aperture  *)
(* cache (mem.rs) and maybe_emit of the request path (reqstats.rs).        *)
(*                                                                         *)
(* All three read the clock, load the time of the last emission, and try   *)
(* to replace it by a compare-exchange; a thread may be held up between    *)
(* any two of these for any time.  They differ in the meaning of 0 ("warn":*)
(* never emitted), and in the operation count that makes a report due as   *)
(* well: "aperture" goes by what its own fetch_add returned, "request"     *)
(* loads the counter again.  scheme says which of the three is modelled.   *)
(***************************************************************************)
EXTENDS Naturals, Sequences

CONSTANTS
  Thread,
  INTERVAL_MS,     \* WINDOW_MS, STATS_EVERY_MS
  STATS_EVERY,
  MaxOps, MaxTime  \* bounds: operations counted, time

ASSUME IntervalAssumption ==
  /\ INTERVAL_MS \in Nat \ {0} /\ STATS_EVERY \in Nat \ {0}
  /\ MaxOps \in Nat /\ MaxTime \in Nat \ {0}

VARIABLES
  scheme,
  ops,        \* operations counted
  clock,      \* time since the counters, or the limiter, were first used
  last,       \* the shared stamp: LAST_MS of a call site, last_emit_ms
  pc,         \* per thread: "idle", "count", "load", "cas", "decide"
  n,          \* per thread: the operation count it goes by
  now,        \* per thread: the time it read
  prev,       \* per thread: the stamp it loaded
  won,        \* per thread: it replaced the stamp
  stamps,     \* history: the values last was set to
  stampedAt,  \* history: when it was set for the last time
  byOps       \* history: reports made for each operation count

vars == <<scheme, ops, clock, last, pc, n, now, prev, won, stamps, stampedAt,
          byOps>>

TypeOK ==
  /\ scheme \in {"warn", "aperture", "request"}
  /\ ops \in 0 .. MaxOps
  /\ clock \in 0 .. MaxTime
  /\ last \in 0 .. MaxTime
  /\ pc \in [Thread -> {"idle", "count", "load", "cas", "decide"}]
  /\ n \in [Thread -> 0 .. MaxOps]
  /\ now \in [Thread -> 0 .. MaxTime]
  /\ prev \in [Thread -> 0 .. MaxTime]
  /\ won \in [Thread -> BOOLEAN]
  /\ stamps \in Seq(1 .. MaxTime)
  /\ stampedAt \in 0 .. MaxTime
  /\ byOps \in [0 .. MaxOps -> Nat]

Init ==
  /\ scheme \in {"warn", "aperture", "request"}
  /\ ops = 0 /\ clock = 0 /\ last = 0
  /\ pc = [t \in Thread |-> "idle"]
  /\ n = [t \in Thread |-> 0]
  /\ now = [t \in Thread |-> 0]
  /\ prev = [t \in Thread |-> 0]
  /\ won = [t \in Thread |-> FALSE]
  /\ stamps = <<>> /\ stampedAt = 0
  /\ byOps = [k \in 0 .. MaxOps |-> 0]

-----------------------------------------------------------------------------
Goto(t, place) == pc' = [pc EXCEPT ![t] = place]

(* A slip: go by the count before the operation.                           *)
CountBefore(t) ==
  /\ scheme # "warn" /\ pc[t] = "idle" /\ ops < MaxOps
  /\ ops' = ops + 1
  /\ n' = [n EXCEPT ![t] = ops]
  /\ Goto(t, "count")
  /\ UNCHANGED <<scheme, clock, last, now, prev, won, stamps, stampedAt, byOps>>

(* fetch_add returns the count before this operation; a report is due when *)
(* that plus one is a multiple of STATS_EVERY.                             *)
Count(t) ==
  /\ scheme # "warn" /\ pc[t] = "idle" /\ ops < MaxOps
  /\ ops' = ops + 1
  /\ n' = [n EXCEPT ![t] = ops + 1]
  /\ Goto(t, "count")
  /\ UNCHANGED <<scheme, clock, last, now, prev, won, stamps, stampedAt, byOps>>

(* count_now(), a second load of the counter.                              *)
CountNow(t) == IF scheme = "request" THEN [n EXCEPT ![t] = ops] ELSE n

(* now_ms().max(1), 0 being reserved; or the time elapsed.                 *)
Now == IF scheme = "warn" /\ clock = 0 THEN 1 ELSE clock

ReadClock(t) ==
  /\ pc[t] = IF scheme = "warn" THEN "idle" ELSE "count"
  /\ n' = CountNow(t)
  /\ now' = [now EXCEPT ![t] = Now]
  /\ Goto(t, "load")
  /\ UNCHANGED <<scheme, ops, clock, last, prev, won, stamps, stampedAt, byOps>>

Saturating(a, b) == IF a >= b THEN a - b ELSE 0

(* A slip: a limiter never used is taken for one used at time 0.           *)
DueIgnoringNever(t) == Saturating(now[t], last) >= INTERVAL_MS

Due(t) ==
  \/ scheme = "warn" /\ last = 0
  \/ Saturating(now[t], last) >= INTERVAL_MS

Load(t) ==
  /\ pc[t] = "load"
  /\ prev' = [prev EXCEPT ![t] = last]
  /\ won' = [won EXCEPT ![t] = FALSE]
  /\ Goto(t, IF Due(t) THEN "cas" ELSE "decide")
  /\ UNCHANGED <<scheme, ops, clock, last, n, now, stamps, stampedAt, byOps>>

Stamp(t) ==
  /\ last' = now[t]
  /\ stamps' = Append(stamps, now[t])
  /\ stampedAt' = Now

(* A slip: store instead of compare-exchange.                              *)
StoreBlindly(t) ==
  /\ pc[t] = "cas"
  /\ Stamp(t)
  /\ won' = [won EXCEPT ![t] = TRUE]
  /\ Goto(t, "decide")
  /\ UNCHANGED <<scheme, ops, clock, n, now, prev, byOps>>

CompareExchange(t) ==
  /\ pc[t] = "cas"
  /\ IF last = prev[t] THEN Stamp(t) ELSE UNCHANGED <<last, stamps, stampedAt>>
  /\ won' = [won EXCEPT ![t] = last = prev[t]]
  /\ Goto(t, "decide")
  /\ UNCHANGED <<scheme, ops, clock, n, now, prev, byOps>>

(* The warning or the report is written, or not.                           *)
Emit(t) ==
  /\ pc[t] = "decide"
  /\ byOps' = IF scheme # "warn" /\ n[t] % STATS_EVERY = 0
                THEN [byOps EXCEPT ![n[t]] = @ + 1] ELSE byOps
  /\ Goto(t, "idle")
  /\ UNCHANGED <<scheme, ops, clock, last, n, now, prev, won, stamps,
                 stampedAt>>

Tick ==
  /\ clock < MaxTime
  /\ clock' = clock + 1
  /\ UNCHANGED <<scheme, ops, last, pc, n, now, prev, won, stamps, stampedAt,
                 byOps>>

Finished ==
  /\ ops = MaxOps /\ clock = MaxTime
  /\ \A t \in Thread : pc[t] = "idle"
  /\ UNCHANGED vars

Next ==
  \/ \E t \in Thread :
       Count(t) \/ ReadClock(t) \/ Load(t) \/ CompareExchange(t) \/ Emit(t)
  \/ Tick
  \/ Finished

Spec == Init /\ [][Next]_vars

-----------------------------------------------------------------------------
(* Emissions by the clock carry times at least an interval apart, in       *)
(* increasing order, whatever the order in which threads that read the     *)
(* clock earlier or later get to their compare-exchange: "The CAS makes a  *)
(* single winner under concurrency" (should_emit).                         *)
StampsApart ==
  \A k \in 1 .. Len(stamps) - 1 : stamps[k] + INTERVAL_MS <= stamps[k + 1]

(* A thread that does not win is suppressed in favour of an emission made  *)
(* less than an interval before it asked, or since; for a report, also in  *)
(* the first interval.  A call site is never silenced altogether.          *)
NeverSilenced ==
  \A t \in Thread : pc[t] = "decide" /\ ~won[t] =>
    /\ stampedAt + INTERVAL_MS > now[t]
    /\ scheme = "warn" => stamps # <<>>

(* In the aperture cache every STATS_EVERY operations make exactly one     *)
(* report by count, without a lock.  (The request path loads the counter a *)
(* second time: two completers may both find a multiple, or both miss it.) *)
OneReportPerCount ==
  scheme = "aperture" /\ (\A t \in Thread : pc[t] = "idle") =>
    \A k \in 1 .. ops : byOps[k] = IF k % STATS_EVERY = 0 THEN 1 ELSE 0
=============================================================================
