------------------------- MODULE DiagnosticsProofs --------------------------
(***************************************************************************)
(* What reaches the log: proofs about the three emission gates (EmitGate), *)
(* for any threads, interval, report period and bounds, and about the      *)
(* bridge to the host's logger (Logging), for any threads and loggers and  *)
(* for every environment.                                                  *)
(*                                                                         *)
(* Stamping: a thread at its compare-exchange found an interval between    *)
(* what it loaded and its own time, so if what it loaded is still there,   *)
(* the new stamp is an interval after the last; if not, somebody stamped   *)
(* after this thread read the clock.  Counting: an operation count is      *)
(* carried by at most one thread, and reported when that thread is done.   *)
(*                                                                         *)
(* The bridge: a callback runs under the read guard (Guarded), and Once is *)
(* done only after a subscriber was found or installed (Installed).        *)
(***************************************************************************)
EXTENDS EmitGate, Logging, TLAPS

Active(t) == pc[t] # "idle"

Stamped ==
  /\ last = IF stamps = <<>> THEN 0 ELSE stamps[Len(stamps)]
  /\ last <= stampedAt /\ stampedAt <= Now

Timed(t) ==
  /\ now[t] <= Now
  /\ scheme = "warn" /\ Active(t) => now[t] > 0
  /\ pc[t] = "cas" =>
       \/ scheme = "warn" /\ prev[t] = 0
       \/ now[t] >= prev[t] + INTERVAL_MS
  /\ pc[t] = "cas" /\ last # prev[t] => stampedAt >= now[t] /\ stamps # <<>>

Suppressed(t) ==
  pc[t] = "decide" /\ ~won[t] =>
    /\ stampedAt + INTERVAL_MS > now[t]
    /\ scheme = "warn" => stamps # <<>>

Counted(t) == Active(t) => n[t] \in 1 .. ops /\ byOps[n[t]] = 0

DueAt(k) == k % STATS_EVERY = 0

Reported(k) ==
  \/ byOps[k] = 0 /\ (k \notin 1 .. ops \/ ~DueAt(k))
  \/ byOps[k] = 1 /\ k \in 1 .. ops /\ DueAt(k)
  \/ byOps[k] = 0 /\ \E t \in Thread : Active(t) /\ n[t] = k

Counting ==
  scheme = "aperture" =>
    /\ \A t \in Thread : Counted(t)
    /\ \A t, u \in Thread : Active(t) /\ Active(u) /\ n[t] = n[u] => t = u
    /\ \A k \in 0 .. MaxOps : Reported(k)

IInv ==
  /\ TypeOK
  /\ Stamped /\ StampsApart
  /\ \A t \in Thread : Timed(t) /\ Suppressed(t)
  /\ Counting

-----------------------------------------------------------------------------
(* A gate not used yet satisfies the invariant.                            *)
LEMMA InitIInv == Init => IInv
  <1> SUFFICES ASSUME Init PROVE IInv
    OBVIOUS
  <1>1. TypeOK
    BY IntervalAssumption DEF Init, TypeOK
  <1>2. Stamped /\ StampsApart
    BY IntervalAssumption DEF Init, Stamped, StampsApart, Now
  <1>3. \A t \in Thread : Timed(t) /\ Suppressed(t)
    <2>1. 0 <= Now /\ \A t \in Thread : pc[t] = "idle" /\ now[t] = 0
      BY DEF Init, Now
    <2> QED BY <2>1, Zenon DEF Timed, Suppressed, Active
  <1>4. \A k \in 0 .. MaxOps : Reported(k)
    BY IntervalAssumption DEF Init, Reported
  <1>5. Counting
    BY <1>4 DEF Init, Counting, Counted, Active
  <1> QED BY <1>1, <1>2, <1>3, <1>5 DEF IInv

(* fetch_add hands every thread a count of its own.                        *)
LEMMA CountKeeps == ASSUME IInv, NEW t \in Thread, Count(t) PROVE IInv'
  <1>1. TypeOK'
    BY IntervalAssumption, SMTT(30) DEF IInv, TypeOK, Count, Goto
  <1>2. Stamped' /\ StampsApart'
    BY DEF IInv, Stamped, StampsApart, Now, Count
  <1>3. ASSUME NEW u \in Thread PROVE Timed(u)' /\ Suppressed(u)'
    BY DEF IInv, TypeOK, Timed, Suppressed, Active, Now, Count, Goto
  <1>4. ASSUME scheme = "aperture"
        PROVE  /\ \A u \in Thread : Counted(u)'
               /\ \A u, v \in Thread :
                    (Active(u) /\ Active(v) /\ n[u] = n[v])' => u = v
    <2>1. \A u \in Thread : Counted(u)
      BY <1>4 DEF IInv, Counting
    <2>2. ops + 1 \in 0 .. MaxOps /\ Reported(ops + 1)
      BY <1>4, IntervalAssumption DEF IInv, TypeOK, Counting, Count
    <2>3. byOps[ops + 1] = 0
      BY <2>2 DEF IInv, TypeOK, Reported
    <2>4. \A u \in Thread : Counted(u)'
      BY <2>1, <2>3 DEF IInv, TypeOK, Counted, Active, Count, Goto
    <2>5. \A u, v \in Thread : Active(u) /\ Active(v) /\ n[u] = n[v] => u = v
      BY <1>4 DEF IInv, Counting
    <2>6. \A u, v \in Thread :
            (Active(u) /\ Active(v) /\ n[u] = n[v])' => u = v
      <3>1. \A u \in Thread \ {t} :
              (Active(u)' <=> Active(u)) /\ n'[u] = n[u]
        BY DEF IInv, TypeOK, Active, Count, Goto
      <3>2. n'[t] = ops + 1 /\ ops \in Nat
        BY DEF IInv, TypeOK, Count
      <3>3. \A u \in Thread \ {t} : Active(u)' => n'[u] # n'[t]
        BY <2>1, <3>1, <3>2 DEF Counted
      <3> QED BY <2>5, <3>1, <3>3 DEF Active
    <2> QED BY <2>4, <2>6
  <1>5. ASSUME scheme = "aperture", NEW k \in 0 .. MaxOps PROVE Reported(k)'
    <2>1. CASE k = ops + 1
      <3>1. n'[t] = k /\ Active(t)' /\ byOps'[k] = byOps[k]
        BY <2>1 DEF IInv, TypeOK, Active, Count, Goto
      <3>2. byOps[k] = 0
        BY <1>5, <2>1 DEF IInv, TypeOK, Counting, Counted, Reported, Count
      <3> QED BY <3>1, <3>2 DEF Reported
    <2>2. CASE k # ops + 1
      <3>1. Reported(k)
        BY <1>5 DEF IInv, Counting
      <3>2. k \in 1 .. ops <=> k \in 1 .. ops'
        BY <2>2 DEF IInv, TypeOK, Count
      <3>3. \A u \in Thread : Active(u) => Active(u)' /\ n'[u] = n[u]
        BY DEF IInv, TypeOK, Active, Count, Goto
      <3> QED BY <3>1, <3>2, <3>3 DEF Reported, DueAt, Count
    <2> QED BY <2>1, <2>2
  <1>6. Counting'
    BY <1>4, <1>5 DEF Counting, Count
  <1> QED BY <1>1, <1>2, <1>3, <1>6 DEF IInv

(* Reading the clock keeps it.                                             *)
LEMMA ReadKeeps == ASSUME IInv, NEW t \in Thread, ReadClock(t) PROVE IInv'
  <1>1. TypeOK'
    <2>1. Now \in 0 .. MaxTime
      BY IntervalAssumption DEF IInv, TypeOK, Now
    <2>2. CountNow(t) \in [Thread -> 0 .. MaxOps]
      BY DEF IInv, TypeOK, CountNow
    <2> QED BY <2>1, <2>2, Zenon DEF IInv, TypeOK, ReadClock, Goto
  <1>2. Stamped' /\ StampsApart'
    BY DEF IInv, Stamped, StampsApart, Now, ReadClock
  <1>3. ASSUME NEW u \in Thread PROVE Timed(u)' /\ Suppressed(u)'
    <2>1. CASE u = t
      BY <2>1, IntervalAssumption DEF IInv, TypeOK, Stamped, Timed, Suppressed,
         Active, Now, ReadClock,
         CountNow, Goto
    <2>2. CASE u # t
      BY <2>2 DEF IInv, TypeOK, Timed, Suppressed, Active, Now, ReadClock,
         CountNow, Goto
    <2> QED BY <2>1, <2>2
  <1>4. Counting'
    BY ZenonT(60)
    DEF IInv, TypeOK, Counting, Counted, Reported, DueAt, Active, ReadClock,
       CountNow, Goto
  <1> QED BY <1>1, <1>2, <1>3, <1>4 DEF IInv

(* Loading the stamp keeps it: what is not due is within an interval.      *)
LEMMA LoadKeeps == ASSUME IInv, NEW t \in Thread, Load(t) PROVE IInv'
  <1>1. TypeOK'
    BY IntervalAssumption DEF IInv, TypeOK, Load, Due, Saturating, Goto
  <1>2. Stamped' /\ StampsApart'
    BY DEF IInv, Stamped, StampsApart, Now, Load
  <1>3. ASSUME NEW u \in Thread PROVE Timed(u)' /\ Suppressed(u)'
    <2>1. CASE u = t
      <3>1. /\ now' = now /\ Now' = Now /\ scheme' = scheme
            /\ last' = last /\ stampedAt' = stampedAt /\ stamps' = stamps
            /\ prev'[t] = last /\ Active(t) /\ Timed(t)
        BY DEF IInv, TypeOK, Now, Load, Active
      <3>2. /\ last \in Nat /\ now[t] \in Nat /\ stampedAt \in Nat
            /\ INTERVAL_MS \in Nat \ {0} /\ last <= stampedAt
        BY IntervalAssumption, SMTT(30) DEF IInv, TypeOK, Stamped
      <3>3. CASE Due(t)
        <4>1. pc'[t] = "cas"
          BY <3>3 DEF IInv, TypeOK, Load, Goto
        <4> QED
          BY <2>1, <3>1, <3>2, <3>3, <4>1 DEF Timed, Suppressed, Active, Due,
             Saturating
      <3>4. CASE ~Due(t)
        <4>1. pc'[t] = "decide"
          BY <3>4 DEF IInv, TypeOK, Load, Goto
        <4>2. now[t] < last + INTERVAL_MS /\ (scheme = "warn" => last # 0)
          BY <3>2, <3>4 DEF Due, Saturating
        <4>3. scheme = "warn" => stamps # <<>>
          BY <4>2 DEF IInv, Stamped
        <4> QED
          BY <2>1, <3>1, <3>2, <4>1, <4>2, <4>3 DEF Timed, Suppressed, Active
      <3> QED BY <3>3, <3>4
    <2>2. CASE u # t
      BY <2>2 DEF IInv, TypeOK, Timed, Suppressed, Active, Now, Load, Due,
         Saturating, Goto
    <2> QED BY <2>1, <2>2
  <1>4. Counting'
    BY ZenonT(60)
    DEF IInv, TypeOK, Counting, Counted, Reported, DueAt, Active, Load, Goto
  <1> QED BY <1>1, <1>2, <1>3, <1>4 DEF IInv

(* The compare-exchange keeps it: the winner stamps an interval after the  *)
(* last, and a loser finds a stamp newer than its own time.                *)
LEMMA CasKeeps ==
  ASSUME IInv, NEW t \in Thread, CompareExchange(t) PROVE IInv'
  <1>1. /\ INTERVAL_MS \in Nat \ {0} /\ now[t] \in 0 .. MaxTime
        /\ last \in Nat /\ stampedAt \in Nat /\ Now \in 0 .. MaxTime
        /\ pc'[t] = "decide" /\ Timed(t) /\ pc[t] = "cas"
        /\ Now' = Now /\ now' = now /\ prev' = prev /\ scheme' = scheme
    BY IntervalAssumption
       DEF IInv, TypeOK, Now, CompareExchange, Goto
  <1>2. \A u \in Thread \ {t} : pc'[u] = pc[u]
    BY DEF IInv, TypeOK, CompareExchange, Goto
  <1>3. Counting'
    BY ZenonT(60) DEF IInv, TypeOK, Counting, Counted, Reported, DueAt, Active,
       CompareExchange, Goto
  <1>4. CASE last = prev[t]
    <2>1. /\ last' = now[t] /\ stamps' = Append(stamps, now[t])
          /\ stampedAt' = Now /\ won' = [won EXCEPT ![t] = TRUE]
      BY <1>4, Zenon DEF CompareExchange, Stamp
    <2>2. now[t] > 0 /\ now[t] <= Now
      BY <1>1, <1>4 DEF Timed, Active
    <2>3. TypeOK'
      BY <1>1, <2>1, <2>2 DEF IInv, TypeOK, CompareExchange, Goto
    <2>4. /\ Len(stamps') = Len(stamps) + 1 /\ stamps' # <<>>
          /\ stamps'[Len(stamps')] = now[t]
          /\ \A k \in 1 .. Len(stamps) : stamps'[k] = stamps[k]
      BY <2>1 DEF IInv, TypeOK
    <2>5. Stamped'
      BY <1>1, <2>1, <2>2, <2>4 DEF Stamped
    <2>6. stamps # <<>> => stamps[Len(stamps)] + INTERVAL_MS <= now[t]
      <3>1. stamps # <<>> => last = stamps[Len(stamps)] /\ last > 0
        <4>1. stamps # <<>> => Len(stamps) \in 1 .. Len(stamps)
          BY DEF IInv, TypeOK
        <4>2. ASSUME NEW S, NEW q \in Seq(S), NEW i \in 1 .. Len(q)
              PROVE  q[i] \in S
          OBVIOUS
        <4>3. stamps \in Seq(1 .. MaxTime) /\ MaxTime \in Nat
          BY IntervalAssumption DEF IInv, TypeOK
        <4>4. stamps # <<>> => stamps[Len(stamps)] \in 1 .. MaxTime
          BY <4>1, <4>2, <4>3
        <4> QED BY <4>3, <4>4 DEF IInv, Stamped
      <3> QED BY <1>1, <1>4, <3>1 DEF Timed
    <2>7. StampsApart'
      <3> SUFFICES ASSUME NEW k \in 1 .. Len(stamps') - 1
                   PROVE  stamps'[k] + INTERVAL_MS <= stamps'[k + 1]
        BY <1>1 DEF StampsApart
      <3>1. Len(stamps) \in Nat /\ (stamps = <<>> <=> Len(stamps) = 0)
        BY DEF IInv, TypeOK
      <3>2. CASE k = Len(stamps)
        BY <2>4, <2>6, <3>1, <3>2
      <3>3. CASE k < Len(stamps)
        BY <2>4, <3>1, <3>3 DEF IInv, StampsApart
      <3> QED BY <2>4, <3>1, <3>2, <3>3
    <2>8. ASSUME NEW u \in Thread PROVE Timed(u)' /\ Suppressed(u)'
      <3>1. Timed(u) /\ now[u] \in Nat /\ prev[u] \in Nat
        BY DEF IInv, TypeOK
      <3>2. Timed(u)'
        BY <1>1, <1>2, <2>1, <2>2, <2>4, <3>1 DEF Timed, Active
      <3>3. CASE u = t
        <4>1. won'[t]
          BY <2>1 DEF IInv, TypeOK
        <4> QED BY <3>2, <3>3, <4>1 DEF Suppressed
      <3>4. CASE u # t
        BY <1>1, <2>1, <2>4, <3>1, <3>2, SMTT(30) DEF Suppressed, Timed
      <3> QED BY <3>3, <3>4
    <2> QED BY <1>3, <2>3, <2>5, <2>7, <2>8 DEF IInv
  <1>5. CASE last # prev[t]
    <2>1. /\ last' = last /\ stamps' = stamps /\ stampedAt' = stampedAt
          /\ won' = [won EXCEPT ![t] = FALSE]
      BY <1>5, Zenon DEF CompareExchange
    <2>2. TypeOK'
      BY <2>1 DEF IInv, TypeOK, CompareExchange, Goto
    <2>3. Stamped' /\ StampsApart'
      BY <1>1, <2>1 DEF IInv, Stamped, StampsApart
    <2>4. ASSUME NEW u \in Thread PROVE Timed(u)' /\ Suppressed(u)'
      <3>1. CASE u = t
        BY <1>1, <1>5, <2>1, <3>1 DEF Timed, Suppressed, Active
      <3>2. CASE u # t
        <4>1. Timed(u) /\ Suppressed(u) /\ won'[u] = won[u]
          BY <2>1, <3>2 DEF IInv, TypeOK
        <4> QED BY <1>1, <1>2, <2>1, <3>2, <4>1 DEF Timed, Suppressed, Active
      <3> QED BY <3>1, <3>2
    <2> QED BY <1>3, <2>2, <2>3, <2>4 DEF IInv
  <1> QED BY <1>4, <1>5

(* Reporting keeps it: the count of the thread is done with.               *)
LEMMA EmitKeeps == ASSUME IInv, NEW t \in Thread, Emit(t) PROVE IInv'
  <1>1. /\ pc' = [pc EXCEPT ![t] = "idle"] /\ Active(t)
        /\ UNCHANGED <<scheme, ops, clock, last, n, now, prev, won, stamps,
                       stampedAt>>
    BY DEF Emit, Goto, Active
  <1>2. \A u \in Thread \ {t} : pc'[u] = pc[u]
    BY <1>1 DEF IInv, TypeOK
  <1>3. pc'[t] = "idle" /\ n[t] \in 0 .. MaxOps
    BY <1>1 DEF IInv, TypeOK
  <1>4. byOps' \in [0 .. MaxOps -> Nat]
    BY DEF IInv, TypeOK, Emit
  <1>5. TypeOK'
    BY <1>1, <1>4 DEF IInv, TypeOK
  <1>6. Stamped' /\ StampsApart'
    BY <1>1 DEF IInv, Stamped, StampsApart, Now
  <1>7. \A u \in Thread : Timed(u)' /\ Suppressed(u)'
    BY <1>1, <1>2, <1>3 DEF IInv, Timed, Suppressed, Active, Now
  <1>8. ASSUME scheme = "aperture" PROVE Counting'
    <2>1. /\ \A u \in Thread : Counted(u)
          /\ \A u, v \in Thread : Active(u) /\ Active(v) /\ n[u] = n[v] => u = v
          /\ \A k \in 0 .. MaxOps : Reported(k)
      BY <1>8 DEF IInv, Counting
    <2>2. \A k \in 0 .. MaxOps \ {n[t]} : byOps'[k] = byOps[k]
      BY <1>3 DEF IInv, TypeOK, Emit
    <2>3. byOps'[n[t]] = IF DueAt(n[t]) THEN 1 ELSE 0
      <3>1. byOps[n[t]] = 0
        BY <1>1, <2>1 DEF Counted
      <3> QED BY <1>3, <1>8, <3>1 DEF IInv, TypeOK, Emit, DueAt
    <2>4. \A u \in Thread \ {t} : Active(u)' => n[u] # n[t] /\ Active(u)
      BY <1>1, <1>2, <2>1 DEF Active
    <2>5. \A u \in Thread : Counted(u)'
      BY <1>1, <1>3, <2>1, <2>2, <2>4 DEF IInv, TypeOK, Counted, Active
    <2>6. ASSUME NEW k \in 0 .. MaxOps PROVE Reported(k)'
      <3>1. CASE k = n[t]
        BY <1>1, <2>1, <2>3, <3>1 DEF Reported, Counted, DueAt
      <3>2. CASE k # n[t]
        <4>1. \A u \in Thread : Active(u) /\ n[u] = k => Active(u)'
          BY <1>2, <3>2 DEF Active
        <4> QED BY <1>1, <2>1, <2>2, <3>2, <4>1 DEF Reported, DueAt
      <3> QED BY <3>1, <3>2
    <2>7. \A u, v \in Thread : (Active(u) /\ Active(v) /\ n[u] = n[v])' => u = v
      BY <1>1, <1>3, <2>1, <2>4 DEF Active
    <2> QED BY <2>5, <2>6, <2>7 DEF Counting
  <1>9. Counting'
    BY <1>1, <1>8 DEF Counting
  <1> QED BY <1>5, <1>6, <1>7, <1>9 DEF IInv

(* The passing of time, and the end, keep it.                              *)
LEMMA OtherKeeps == ASSUME IInv, Tick \/ UNCHANGED vars PROVE IInv'
  <1>1. CASE Tick
    <2>1. TypeOK'
      BY <1>1, IntervalAssumption DEF IInv, TypeOK, Tick
    <2>2. Now <= Now' /\ Now \in Nat /\ Now' \in Nat
      BY <1>1 DEF IInv, TypeOK, Now, Tick
    <2>3. Stamped' /\ StampsApart'
      BY <1>1, <2>2 DEF IInv, TypeOK, Stamped, StampsApart, Tick
    <2>4. \A t \in Thread : Timed(t)' /\ Suppressed(t)'
      BY <1>1, <2>2 DEF IInv, TypeOK, Timed, Suppressed, Active, Tick
    <2>5. Counting'
      BY <1>1 DEF IInv, Counting, Counted, Reported, DueAt, Active, Tick
    <2> QED BY <2>1, <2>3, <2>4, <2>5 DEF IInv
  <1>2. CASE UNCHANGED vars
    BY <1>2 DEF IInv, TypeOK, Stamped, StampsApart, Timed, Suppressed, Counting,
       Counted, Reported, DueAt, Active, Now, vars
  <1> QED BY <1>1, <1>2

(* The invariant holds in every state.                                     *)
THEOREM Invariance == Spec => []IInv
  <1>1. IInv /\ [Next]_vars => IInv'
    BY CountKeeps, ReadKeeps, LoadKeeps, CasKeeps, EmitKeeps, OtherKeeps
       DEF Next, Finished
  <1> QED BY InitIInv, <1>1, PTL DEF Spec

(* Type correctness.                                                       *)
THEOREM TypeCorrect == Spec => []TypeOK
  BY Invariance, PTL DEF IInv

(* Emissions by the clock are an interval apart (should_emit,              *)
(* maybe_emit_stats, maybe_emit).                                          *)
THEOREM EmissionsApart == Spec => []StampsApart
  BY Invariance, PTL DEF IInv

(* A call site is suppressed only in favour of a recent emission.          *)
THEOREM NobodySilenced == Spec => []NeverSilenced
  <1>1. IInv => NeverSilenced
    BY DEF IInv, Suppressed, NeverSilenced
  <1> QED BY <1>1, Invariance, PTL

(* Every STATS_EVERY operations of the aperture cache make one report.     *)
THEOREM ReportsExact == Spec => []OneReportPerCount
  <1>1. ASSUME IInv, scheme = "aperture", \A t \in Thread : pc[t] = "idle",
               NEW k \in 1 .. ops
        PROVE  byOps[k] = IF k % STATS_EVERY = 0 THEN 1 ELSE 0
    <2>1. k \in 0 .. MaxOps /\ k \in 1 .. ops
      BY <1>1, IntervalAssumption DEF IInv, TypeOK
    <2> QED BY <1>1, <2>1 DEF IInv, Counting, Reported, Active, DueAt
  <1>2. IInv => OneReportPerCount
    BY <1>1 DEF OneReportPerCount
  <1> QED BY <1>2, Invariance, PTL

-----------------------------------------------------------------------------
(* The callback runs under the read guard, which keeps set_sink out.       *)
Guarded ==
  \A t \in Caller : at[t] = "call" => t \in readers /\ using[t] = sink

(* Once is done only after a subscriber was found or installed.            *)
Installed ==
  /\ ready => once = "done"
  /\ once = "done" => subscriber # "none"
  /\ subscriber = "ours" => filter = build_filter

BridgeInv == LoggingTypeOK /\ Guarded /\ Installed

-----------------------------------------------------------------------------
(* No event yet, and no subscriber.                                        *)
LEMMA BridgeInit == LoggingInit => BridgeInv
<1> SUFFICES ASSUME LoggingInit PROVE BridgeInv
  OBVIOUS
<1>1. ready \in BOOLEAN
  BY Zenon DEF LoggingInit
<1>2. LoggingTypeOK
  BY <1>1 DEF LoggingInit, LoggingTypeOK, Sink, TRACE
<1> QED  BY <1>2 DEF LoggingInit, BridgeInv, Guarded, Installed

(* The filter has a level for every crate.                                 *)
LEMMA FilterType == LoggingTypeOK => build_filter \in [Crate -> 0 .. TRACE]
<1> SUFFICES ASSUME LoggingTypeOK PROVE build_filter \in [Crate -> 0 .. TRACE]
  OBVIOUS
<1>1. env.RUST_LOG \in 0 .. 6
  BY LoggingAssumption DEF LoggingTypeOK
<1>2. Base \in 0 .. TRACE
  BY <1>1 DEF Base, Unset, INFO, TRACE
<1> QED  BY <1>2 DEF build_filter, TRACE, DEBUG

(* The entries of the ABI and the steps of init.                           *)
LEMMA InitSteps ==
  ASSUME BridgeInv, NEW t \in Caller,
         EnterAbi(t) \/ CallOnce(t) \/ TryInit(t) \/ InitAgain(t)
           \/ ReturnFromAbi(t)
  PROVE  BridgeInv'
<1> USE DEF BridgeInv, Go, sinkVars, initVars
<1>1. ready' \in BOOLEAN /\ env' = env
  <2>1. ready' = ready \/ ready' = TRUE
    BY DEF EnterAbi, CallOnce, TryInit, InitAgain, ReturnFromAbi
  <2>2. ready \in BOOLEAN
    BY DEF LoggingTypeOK
  <2>3. ready' \in BOOLEAN
    BY <2>1, <2>2, Zenon
  <2> QED
    BY <2>3 DEF EnterAbi, CallOnce, TryInit, InitAgain, ReturnFromAbi
<1>2. build_filter' = build_filter
  BY <1>1 DEF build_filter, Base
<1>3. CASE TryInit(t)
  <2>1. filter' \in [Crate -> 0 .. TRACE]
    BY <1>3, FilterType DEF TryInit, LoggingTypeOK
  <2>2. LoggingTypeOK'
    BY <1>1, <1>3, <2>1 DEF TryInit, LoggingTypeOK
  <2>3. Guarded' /\ Installed'
    BY <1>2, <1>3 DEF TryInit, Guarded, Installed, LoggingTypeOK
  <2> QED  BY <2>2, <2>3
<1>4. CASE EnterAbi(t) \/ CallOnce(t) \/ InitAgain(t) \/ ReturnFromAbi(t)
  <2> USE DEF EnterAbi, CallOnce, InitAgain, ReturnFromAbi
  <2>1. LoggingTypeOK'
    BY <1>1, <1>4 DEF LoggingTypeOK
  <2>2. Guarded'
    BY <1>4 DEF Guarded, LoggingTypeOK
  <2>3. Installed'
    BY <1>2, <1>4 DEF Installed
  <2> QED  BY <2>1, <2>2, <2>3
<1> QED  BY <1>3, <1>4

(* The steps that read or write the sink.                                  *)
LEMMA SinkSteps ==
  ASSUME BridgeInv, NEW t \in Caller,
         \/ \E l \in Logger \cup {Off} : hvfs_set_logger(t, l)
         \/ set_sink(t)
         \/ \E e \in Event : TraceEvent(t, e)
         \/ OnEvent(t) \/ OnEventSkips(t) \/ CallbackReturns(t)
  PROVE  BridgeInv'
<1> USE DEF BridgeInv, Go, sinkVars, initVars, hvfs_set_logger, set_sink,
        TraceEvent, OnEvent, OnEventSkips, CallbackReturns
<1>1. UNCHANGED initVars
  OBVIOUS
<1>2. LoggingTypeOK'
  BY <1>1 DEF LoggingTypeOK, Sink
<1>3. Installed'
  BY <1>1 DEF Installed, build_filter, Base
<1>4. Guarded'
  BY DEF Guarded, LoggingTypeOK
<1> HIDE DEF hvfs_set_logger, set_sink, TraceEvent, OnEvent, OnEventSkips,
             CallbackReturns
<1> QED  BY <1>2, <1>3, <1>4

(* Every step preserves the invariant.                                     *)
LEMMA BridgeStep == BridgeInv /\ [LoggingNext]_logVars => BridgeInv'
<1> SUFFICES ASSUME BridgeInv, [LoggingNext]_logVars PROVE BridgeInv'
  OBVIOUS
<1>1. CASE UNCHANGED logVars
  BY <1>1
  DEF logVars, initVars, sinkVars, BridgeInv, LoggingTypeOK, Guarded,
      Installed, build_filter, Base
<1>2. CASE HostSubscriber
  <2>1. build_filter' = build_filter
    BY <1>2 DEF HostSubscriber, build_filter, Base
  <2> QED
    BY <1>2, <2>1 DEF HostSubscriber, sinkVars, BridgeInv,
       LoggingTypeOK, Guarded, Installed
<1> QED  BY <1>1, <1>2, InitSteps, SinkSteps DEF LoggingNext, Continue

(* The bridge keeps its invariant.                                         *)
THEOREM BridgeHolds == LoggingSpec => []BridgeInv
  BY BridgeInit, BridgeStep, PTL DEF LoggingSpec

(* on_event and set_sink: for any number of threads, a replaced logger and *)
(* its ctx are not used after hvfs_set_logger returned.                    *)
THEOREM CallbacksAreCurrent == LoggingSpec => []CallbackIsCurrent
<1>1. BridgeInv => CallbackIsCurrent
  BY DEF BridgeInv, Guarded, CallbackIsCurrent
<1> QED  BY <1>1, BridgeHolds, PTL

(* init and build_filter: in every environment, and however many threads   *)
(* enter at once, whoever returned finds the subscriber asked for.         *)
THEOREM LoggersTakeEffect == LoggingSpec => []LoggerInEffect
<1>1. BridgeInv => LoggerInEffect
  <2> SUFFICES ASSUME BridgeInv, ready, subscriber = "ours", NEW e \in Event,
                      \/ "TRACE" \in env.vars /\ e.crate # "openvmm"
                      \/ /\ env.vars \cap {"APERTURE_STATS", "REQ_STATS"} # {}
                         /\ e = [crate |-> "virtio_hdv", level |-> DEBUG]
                      \/ env.vars = {} /\ e.level <= Base
               PROVE  e.level <= filter[e.crate]
    BY DEF BridgeInv, Installed, LoggerInEffect
  <2>1. filter[e.crate] = build_filter[e.crate] /\ e.crate \in Crate
    BY DEF BridgeInv, Installed, Event, Crate
  <2>2. e.level \in 0 .. TRACE
    BY DEF Event, INFO, DEBUG, TRACE
  <2>3. CASE "TRACE" \in env.vars /\ e.crate # "openvmm"
    BY <2>1, <2>2, <2>3 DEF build_filter, Crate, TRACE
  <2>4. CASE /\ env.vars \cap {"APERTURE_STATS", "REQ_STATS"} # {}
             /\ e = [crate |-> "virtio_hdv", level |-> DEBUG]
    BY <2>1, <2>4 DEF build_filter, DEBUG, TRACE
  <2>5. CASE env.vars = {} /\ e.level <= Base
    BY <2>1, <2>5 DEF build_filter
  <2> QED  BY <2>3, <2>4, <2>5
<1> QED  BY <1>1, BridgeHolds, PTL
=============================================================================
