--------------------------- MODULE ApertureCache ----------------------------
(***************************************************************************)
(* The on-demand aperture cache of crates/virtio-hdv/src/mem.rs, with the  *)
(* Aperture and DeviceHost destructors of crates/hdv/src/lib.rs.           *)
(*                                                                         *)
(* Threads of the device (dispatcher task, pool workers) access guest      *)
(* memory through apertures.  A hit restamps and clones the cached Arc     *)
(* under the shard's read lock, a miss maps the range under its write      *)
(* lock, evicting the least recently stamped entry at the cap or when the  *)
(* platform is out of quota.  The copy runs without a lock; the aperture   *)
(* is unmapped by whoever drops its last Arc.  Meanwhile the share may be  *)
(* dropped (the cache is finalised on whatever thread drops the last       *)
(* GuestMemory) and the device host torn down.                             *)
(*                                                                         *)
(* A key stands for the (base, span) of an access; ApertureRange is about  *)
(* how it is computed.  The HDV platform is external: it maps a range,     *)
(* fails for want of a quota it shares with others or for reasons of its   *)
(* own (an unbacked range), unmaps, and reclaims every mapping when the    *)
(* host is torn down.  A poisoned lock is entered like a healthy one       *)
(* (into_inner), so poisoning changes nothing here.                        *)
(***************************************************************************)
EXTENDS Naturals, FiniteSets

CONSTANTS
  Thread,         \* threads that access guest memory
  Key,            \* page-aligned ranges
  Shard,          \* SHARDS
  ShardOf,        \* the shard of a range
  PER_SHARD_MAX,
  Ap,             \* addresses a mapping may get (reused once unmapped)
  MaxAccesses,    \* bound: how many accesses are explored
  None

ASSUME CacheAssumption ==
  /\ IsFiniteSet(Thread) /\ IsFiniteSet(Key) /\ IsFiniteSet(Ap)
  /\ ShardOf \in [Key -> Shard]
  /\ PER_SHARD_MAX \in Nat \ {0} /\ MaxAccesses \in Nat
  /\ None \notin Thread \cup Key \cup Ap

ASSUME SizeAssumption == IsFiniteSet(Shard) /\ Thread # {}

VARIABLES
  cache,      \* per range: the cached aperture
  stamp,      \* per range: last_used
  clock,      \* per shard: the recency clock
  writer,     \* per shard: the thread that has the write lock
  pc,         \* per thread, see below
  key,        \* per thread: the range it accesses
  arc,        \* per thread: the Arc<Aperture> clone it holds
  now,        \* per thread: the clock value it took
  evictions,  \* per thread: evictions of its retry loop
  dying,      \* per thread: the aperture whose Drop it runs
  mapping,    \* platform: the range each mapped address shows
  host,       \* DeviceHost: "up", "dead" (alive is false), "down"
  accesses    \* accesses started so far

threadVars == <<pc, key, arc, now, evictions, dying>>
shardVars  == <<cache, stamp, clock, writer>>
vars == <<shardVars, threadVars, mapping, host, accesses>>

(***************************************************************************)
(* pc of a thread:                                                         *)
(*   "idle"                                                                *)
(*   "hit"      has the read lock, took a clock value, not yet stamped     *)
(*   "miss"     released the read lock, will ask for the write lock        *)
(*   "create"   has the write lock, about to call create_aperture          *)
(*   "copy"     copies through its aperture, no lock held                  *)
(*   "drop"     in Aperture::drop, before it loads the liveness flag       *)
(*   "destroy"  saw it set, about to call HdvDestroyGuestMemoryAperture    *)
(*   "finalise" dropping the cache with the last GuestMemory               *)
(*   "closed"   the cache is gone                                          *)
(***************************************************************************)
TypeOK ==
  /\ cache \in [Key -> Ap \cup {None}]
  /\ stamp \in [Key -> Nat]
  /\ clock \in [Shard -> Nat]
  /\ writer \in [Shard -> Thread \cup {None}]
  /\ pc \in [Thread -> {"idle", "hit", "miss", "create", "copy", "drop",
                        "destroy", "finalise", "closed"}]
  /\ key \in [Thread -> Key \cup {None}]
  /\ arc \in [Thread -> Ap \cup {None}]
  /\ now \in [Thread -> Nat]
  /\ evictions \in [Thread -> Nat]
  /\ dying \in [Thread -> Ap \cup {None}]
  /\ \A t \in Thread :
       /\ arc[t] # None <=> pc[t] = "copy"
       /\ dying[t] # None <=> pc[t] \in {"drop", "destroy"}
       /\ pc[t] = "create" => writer[ShardOf[key[t]]] = t
  /\ mapping \in [Ap -> Key \cup {None}]
  /\ host \in {"up", "dead", "down"}
  /\ accesses \in 0 .. MaxAccesses

Init ==
  /\ cache = [k \in Key |-> None]
  /\ stamp = [k \in Key |-> 0]
  /\ clock = [s \in Shard |-> 0]
  /\ writer = [s \in Shard |-> None]
  /\ pc = [t \in Thread |-> "idle"]
  /\ key = [t \in Thread |-> None]
  /\ arc = [t \in Thread |-> None]
  /\ now = [t \in Thread |-> 0]
  /\ evictions = [t \in Thread |-> 0]
  /\ dying = [t \in Thread |-> None]
  /\ mapping = [a \in Ap |-> None]
  /\ host = "up"
  /\ accesses = 0

-----------------------------------------------------------------------------
Cached(s) == {k \in Key : ShardOf[k] = s /\ cache[k] # None}
Readers(s) == {t \in Thread : pc[t] = "hit" /\ ShardOf[key[t]] = s}
Mapped == {a \in Ap : mapping[a] # None}

(* The entries evict_one may pick: least last_used.                        *)
Oldest(s) == {k \in Cached(s) : \A l \in Cached(s) : stamp[k] <= stamp[l]}

(* Whether an Arc of aperture a exists besides the one thread t drops.     *)
HeldElsewhere(a, t) == \E u \in Thread \ {t} : arc[u] = a
InCache(a) == \E k \in Key : cache[k] = a

(* Only the finalising thread leaves "idle" without a range to access.     *)
Closing == \E t \in Thread : pc[t] # "idle" /\ key[t] = None

(* A slip: unmap on eviction, whoever still copies.                        *)
RemoveEntryUnmaps(t, k, next) ==
  /\ cache' = [cache EXCEPT ![k] = None]
  /\ pc' = [pc EXCEPT ![t] = "drop"]
  /\ dying' = [dying EXCEPT ![t] = cache[k]]

(* Thread t takes range k out of the map, which drops the cache's Arc:     *)
(* either Aperture::drop runs now, or it is left to the last holder.       *)
RemoveEntry(t, k, next) ==
  /\ cache' = [cache EXCEPT ![k] = None]
  /\ IF HeldElsewhere(cache[k], t)
       THEN /\ pc' = [pc EXCEPT ![t] = next]
            /\ UNCHANGED dying
       ELSE /\ pc' = [pc EXCEPT ![t] = "drop"]
            /\ dying' = [dying EXCEPT ![t] = cache[k]]

-----------------------------------------------------------------------------
(* with_mapping, first half: look the range up under the read lock.  The   *)
(* clock is ticked and the stamp stored by two atomic operations, and      *)
(* other readers may come in between.                                      *)

Begin(t, k) ==
  /\ pc[t] = "idle" /\ ~Closing
  /\ accesses < MaxAccesses
  /\ accesses' = accesses + 1
  /\ writer[ShardOf[k]] = None
  /\ key' = [key EXCEPT ![t] = k]

LookupHit(t, k) ==
  /\ Begin(t, k)
  /\ cache[k] # None
  /\ clock' = [clock EXCEPT ![ShardOf[k]] = @ + 1]
  /\ now' = [now EXCEPT ![t] = clock[ShardOf[k]] + 1]
  /\ pc' = [pc EXCEPT ![t] = "hit"]
  /\ UNCHANGED <<cache, stamp, writer, arc, evictions, dying, mapping, host>>

LookupMiss(t, k) ==
  /\ Begin(t, k)
  /\ cache[k] = None
  /\ pc' = [pc EXCEPT ![t] = "miss"]
  /\ UNCHANGED <<shardVars, arc, now, evictions, dying, mapping, host>>

(* Store the stamp, clone the Arc, release the read lock.                  *)
Restamp(t) ==
  /\ pc[t] = "hit"
  /\ stamp' = [stamp EXCEPT ![key[t]] = now[t]]
  /\ arc' = [arc EXCEPT ![t] = cache[key[t]]]
  /\ pc' = [pc EXCEPT ![t] = "copy"]
  /\ UNCHANGED <<cache, clock, writer, key, now, evictions, dying, mapping,
                 host, accesses>>

-----------------------------------------------------------------------------
(* get_or_create: take the write lock and a clock value; adopt the entry   *)
(* of a concurrent miss, or make room and go on to map the range.          *)

Lock(t) ==
  LET s == ShardOf[key[t]]
  IN  /\ pc[t] = "miss"
      /\ writer[s] = None /\ Readers(s) = {}
      /\ clock' = [clock EXCEPT ![s] = @ + 1]

Adopt(t) ==
  LET k == key[t]
  IN  /\ Lock(t)
      /\ cache[k] # None
      /\ stamp' = [stamp EXCEPT ![k] = clock[ShardOf[k]] + 1]
      /\ arc' = [arc EXCEPT ![t] = cache[k]]
      /\ pc' = [pc EXCEPT ![t] = "copy"]
      /\ UNCHANGED <<cache, writer, key, now, evictions, dying, mapping, host,
                     accesses>>

(* Slips: evict beyond the cap instead of at it; map without looking again *)
(* under the write lock.                                                   *)
EnterCreateOffByOne(t) ==
  LET s == ShardOf[key[t]]
  IN  /\ Lock(t)
      /\ cache[key[t]] = None
      /\ writer' = [writer EXCEPT ![s] = t]
      /\ now' = [now EXCEPT ![t] = clock[s] + 1]
      /\ \/ /\ Cardinality(Cached(s)) <= PER_SHARD_MAX
            /\ pc' = [pc EXCEPT ![t] = "create"]
            /\ UNCHANGED <<cache, dying>>
         \/ /\ Cardinality(Cached(s)) > PER_SHARD_MAX
            /\ \E k \in Oldest(s) : RemoveEntry(t, k, "create")
      /\ UNCHANGED <<stamp, key, arc, evictions, mapping, host, accesses>>

EnterCreateNoRecheck(t) ==
  LET s == ShardOf[key[t]]
  IN  /\ Lock(t)
      /\ writer' = [writer EXCEPT ![s] = t]
      /\ now' = [now EXCEPT ![t] = clock[s] + 1]
      /\ pc' = [pc EXCEPT ![t] = "create"]
      /\ UNCHANGED <<cache, stamp, key, arc, evictions, dying, mapping, host,
                     accesses>>

EnterCreate(t) ==
  LET s == ShardOf[key[t]]
  IN  /\ Lock(t)
      /\ cache[key[t]] = None
      /\ writer' = [writer EXCEPT ![s] = t]
      /\ now' = [now EXCEPT ![t] = clock[s] + 1]
      /\ \/ /\ Cardinality(Cached(s)) < PER_SHARD_MAX
            /\ pc' = [pc EXCEPT ![t] = "create"]
            /\ UNCHANGED <<cache, dying>>
         \/ /\ Cardinality(Cached(s)) >= PER_SHARD_MAX
            /\ \E k \in Oldest(s) : RemoveEntry(t, k, "create")
      /\ UNCHANGED <<stamp, key, arc, evictions, mapping, host, accesses>>

(* create_aperture succeeds; stamp the liveness flag, insert, unlock.      *)
Create(t) ==
  LET k == key[t]
  IN  /\ pc[t] = "create"
      /\ host # "down"
      /\ \E a \in Ap \ Mapped :
           /\ mapping' = [mapping EXCEPT ![a] = k]
           /\ cache' = [cache EXCEPT ![k] = a]
           /\ arc' = [arc EXCEPT ![t] = a]
      /\ stamp' = [stamp EXCEPT ![k] = now[t]]
      /\ writer' = [writer EXCEPT ![ShardOf[k]] = None]
      /\ pc' = [pc EXCEPT ![t] = "copy"]
      /\ UNCHANGED <<clock, key, now, evictions, dying, host, accesses>>

(* Out of quota with something left to evict: evict and try again.         *)
QuotaRetry(t) ==
  LET s == ShardOf[key[t]]
  IN  /\ pc[t] = "create"
      /\ host # "down"
      /\ Cached(s) # {} /\ evictions[t] < PER_SHARD_MAX
      /\ \E k \in Oldest(s) : RemoveEntry(t, k, "create")
      /\ evictions' = [evictions EXCEPT ![t] = @ + 1]
      /\ UNCHANGED <<stamp, clock, writer, key, arc, now, mapping, host,
                     accesses>>

GoIdle(t) ==
  /\ key' = [key EXCEPT ![t] = None]
  /\ now' = [now EXCEPT ![t] = 0]
  /\ evictions' = [evictions EXCEPT ![t] = 0]

(* Out of quota with nothing left to evict, or any other failure.          *)
CreateFails(t) ==
  LET s == ShardOf[key[t]]
  IN  /\ pc[t] = "create"
      /\ writer' = [writer EXCEPT ![s] = None]
      /\ pc' = [pc EXCEPT ![t] = "idle"]
      /\ GoIdle(t)
      /\ UNCHANGED <<cache, stamp, clock, arc, dying, mapping, host, accesses>>

-----------------------------------------------------------------------------
(* with_mapping, second half: the copy is over, the Arc clone is dropped.  *)

(* A slip: free the clone without running Aperture::drop.                  *)
EndCopyForgets(t) ==
  /\ pc[t] = "copy"
  /\ arc' = [arc EXCEPT ![t] = None]
  /\ pc' = [pc EXCEPT ![t] = "idle"]
  /\ GoIdle(t)
  /\ UNCHANGED <<shardVars, dying, mapping, host, accesses>>

EndCopy(t) ==
  /\ pc[t] = "copy"
  /\ arc' = [arc EXCEPT ![t] = None]
  /\ IF InCache(arc[t]) \/ HeldElsewhere(arc[t], t)
       THEN /\ pc' = [pc EXCEPT ![t] = "idle"]
            /\ GoIdle(t)
            /\ UNCHANGED dying
       ELSE /\ pc' = [pc EXCEPT ![t] = "drop"]
            /\ dying' = [dying EXCEPT ![t] = arc[t]]
            /\ UNCHANGED <<key, now, evictions>>
  /\ UNCHANGED <<shardVars, mapping, host, accesses>>

(* Aperture::drop: load the flag, then call into the device.               *)

AfterDrop(t) ==
  /\ dying' = [dying EXCEPT ![t] = None]
  /\ CASE key[t] = None ->
            /\ pc' = [pc EXCEPT ![t] = "finalise"]
            /\ UNCHANGED <<key, now, evictions>>
       [] key[t] # None /\ writer[ShardOf[key[t]]] = t ->
            /\ pc' = [pc EXCEPT ![t] = "create"]
            /\ UNCHANGED <<key, now, evictions>>
       [] OTHER ->
            /\ pc' = [pc EXCEPT ![t] = "idle"]
            /\ GoIdle(t)

SkipDestroy(t) ==
  /\ pc[t] = "drop" /\ host # "up"
  /\ AfterDrop(t)
  /\ UNCHANGED <<shardVars, arc, mapping, host, accesses>>

LoadAlive(t) ==
  /\ pc[t] = "drop" /\ host = "up"
  /\ pc' = [pc EXCEPT ![t] = "destroy"]
  /\ UNCHANGED <<shardVars, key, arc, now, evictions, dying, mapping, host,
                 accesses>>

Destroy(t) ==
  /\ pc[t] = "destroy"
  /\ mapping' = [mapping EXCEPT ![dying[t]] = None]
  /\ AfterDrop(t)
  /\ UNCHANGED <<shardVars, arc, host, accesses>>

-----------------------------------------------------------------------------
(* The last GuestMemory goes away on thread t, and the shards with it.     *)

BeginFinalise(t) ==
  /\ \A u \in Thread : pc[u] = "idle"
  /\ pc' = [pc EXCEPT ![t] = "finalise"]
  /\ UNCHANGED <<shardVars, key, arc, now, evictions, dying, mapping, host,
                 accesses>>

FinaliseEntry(t) ==
  /\ pc[t] = "finalise"
  /\ \E k \in Key : cache[k] # None /\ RemoveEntry(t, k, "finalise")
  /\ UNCHANGED <<stamp, clock, writer, key, arc, now, evictions, mapping, host,
                 accesses>>

EndFinalise(t) ==
  /\ pc[t] = "finalise"
  /\ \A k \in Key : cache[k] = None
  /\ pc' = [pc EXCEPT ![t] = "closed"]
  /\ UNCHANGED <<shardVars, key, arc, now, evictions, dying, mapping, host,
                 accesses>>

(* DeviceHost::drop: clear the flag, then HdvTeardownDeviceHost, with      *)
(* which the platform reclaims every mapping.                              *)

MarkDead ==
  /\ host = "up"
  /\ host' = "dead"
  /\ UNCHANGED <<shardVars, threadVars, mapping, accesses>>

TeardownHost ==
  /\ host = "dead"
  /\ host' = "down"
  /\ mapping' = [a \in Ap |-> None]
  /\ UNCHANGED <<shardVars, threadVars, accesses>>

(* The cache is gone and so is the host.                                   *)
Finished ==
  /\ host = "down"
  /\ \E t \in Thread : pc[t] = "closed"
  /\ UNCHANGED vars

Access(t) ==
  \/ \E k \in Key : LookupHit(t, k) \/ LookupMiss(t, k)
  \/ Restamp(t)
  \/ Adopt(t) \/ EnterCreate(t) \/ Create(t) \/ QuotaRetry(t) \/ CreateFails(t)
  \/ EndCopy(t)

Drop(t) == SkipDestroy(t) \/ LoadAlive(t) \/ Destroy(t)

Finalise(t) == BeginFinalise(t) \/ FinaliseEntry(t) \/ EndFinalise(t)

Next ==
  \/ \E t \in Thread : Access(t) \/ Drop(t) \/ Finalise(t)
  \/ MarkDead \/ TeardownHost
  \/ Finished

Spec == Init /\ [][Next]_vars

-----------------------------------------------------------------------------
(* Until the host is torn down, a copy in progress goes through a mapping  *)
(* that still shows the accessed range: neither an eviction, nor another   *)
(* holder's drop, nor the finalisation unmaps it, and its address is not   *)
(* reused (mem.rs:474-480 and the SAFETY comment of with_mapping).         *)
CopyMapped ==
  \A t \in Thread :
    pc[t] = "copy" /\ host # "down" => mapping[arc[t]] = key[t]

(* While the host lives no mapping is forgotten: the cache or a thread has *)
(* an Arc of it, or a thread is about to destroy it.  Nothing is destroyed *)
(* twice.                                                                  *)
EveryMappingOwned ==
  host = "up" =>
    \A a \in Mapped :
      /\ InCache(a) \/ \E t \in Thread : a \in {arc[t], dying[t]}
      /\ \A t, u \in Thread :
           dying[t] = a => ~InCache(a) /\ arc[u] # a /\ (t # u => dying[u] # a)

(* The mappings alive exceed the cap of the cache by less than one per     *)
(* thread: an evicted mapping lives on while a thread copies through it or *)
(* is about to destroy it, but whoever filled the shard last holds none.   *)
MappedBound ==
  host = "up" =>
    Cardinality(Mapped)
      < PER_SHARD_MAX * Cardinality(Shard) + Cardinality(Thread)

(* The retry loop of get_or_create ends by running out of entries to       *)
(* evict: the cap on evictions is never what stops it.                     *)
RetryEndsByEmptying ==
  \A t \in Thread :
    pc[t] = "create" =>
      evictions[t] + Cardinality(Cached(ShardOf[key[t]])) < PER_SHARD_MAX

(* A cached aperture is never replaced in place by a second mapping of the *)
(* same range, however many threads miss on it at once: "we must adopt     *)
(* that entry, not map a duplicate" (get_or_create).                       *)
NeverRemapped ==
  [][\A k \in Key : cache[k] # None /\ cache'[k] # None
                      => cache'[k] = cache[k]]_vars

(* HdvDestroyGuestMemoryAperture is never called once the host is torn     *)
(* down: "any aperture unmap that races behind us ... skips" it            *)
(* (hdv/src/lib.rs, DeviceHost::drop).  It does not hold: the flag is      *)
(* loaded first and acted upon later.                                      *)
NoDestroyAfterTeardown ==
  \A t \in Thread : pc[t] = "destroy" => host # "down"
=============================================================================
