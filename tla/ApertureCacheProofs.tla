------------------------- MODULE ApertureCacheProofs ------------------------
(***************************************************************************)
(* The aperture cache for any number of threads, ranges, shards and        *)
(* addresses: a copy goes through a mapping of its range, no mapping is    *)
(* forgotten or destroyed twice, no cached range is mapped again, and the  *)
(* mappings alive are fewer than a full cache and one per thread.          *)
(*                                                                         *)
(* The argument is who owns an address: the cache, copying threads, or one *)
(* thread that runs its Drop, and never the last together with another     *)
(* (Owned).  It needs what the locks give: nothing is removed from a shard *)
(* while a reader is between its look-up and its clone, and the thread     *)
(* with the write lock finds its range still absent (Locked).              *)
(*                                                                         *)
(* Cardinalities come on top of it: whoever has the write lock has made    *)
(* room (Room), and when no shard has room some thread holds no mapping    *)
(* beyond those of the cache (Slack).                                      *)
(***************************************************************************)
EXTENDS ApertureCache, FiniteSetTheorems, TLAPS

(* A thread accesses a range, or is the only one left and finalises.       *)
Phases ==
  \A t \in Thread :
    /\ pc[t] \in {"hit", "miss", "create", "copy"} => key[t] \in Key
    /\ pc[t] \in {"idle", "finalise", "closed"} => key[t] = None
    /\ pc[t] # "idle" /\ key[t] = None =>
         \A u \in Thread \ {t} : pc[u] = "idle"

Locked ==
  \A t \in Thread :
    /\ pc[t] = "hit" =>
         cache[key[t]] # None /\ writer[ShardOf[key[t]]] = None
    /\ \A s \in Shard : writer[s] = t =>
         /\ key[t] \in Key /\ ShardOf[key[t]] = s /\ cache[key[t]] = None
         /\ pc[t] \in {"create", "drop", "destroy"}

Owned ==
  host # "down" =>
    /\ \A k \in Key : cache[k] # None => mapping[cache[k]] = k
    /\ \A t \in Thread : arc[t] # None => mapping[arc[t]] = key[t]
    /\ \A t \in Thread : dying[t] # None =>
         /\ mapping[dying[t]] # None
         /\ \A k \in Key : cache[k] # dying[t]
         /\ \A u \in Thread : arc[u] # dying[t]
         /\ \A u \in Thread : u # t => dying[u] # dying[t]
    /\ host = "up" => \A a \in Ap : mapping[a] # None =>
         \/ \E k \in Key : cache[k] = a
         \/ \E t \in Thread : arc[t] = a \/ dying[t] = a

IInv == TypeOK /\ Phases /\ Locked /\ Owned

(* The arithmetic of the retry loop: a shard is never beyond its cap, and  *)
(* whoever has its write lock has made room and counted what it evicted.   *)
WithinCap == \A s \in Shard : Cardinality(Cached(s)) <= PER_SHARD_MAX

RoomMade ==
  \A t \in Thread, s \in Shard :
    writer[s] = t => evictions[t] + Cardinality(Cached(s)) < PER_SHARD_MAX

NoneEvicted ==
  \A t \in Thread : pc[t] \in {"idle", "hit", "miss"} => evictions[t] = 0

Room == WithinCap /\ RoomMade /\ NoneEvicted

-----------------------------------------------------------------------------
(* An empty cache satisfies it.                                            *)
LEMMA InitIInv == Init => IInv
  BY CacheAssumption DEF Init, IInv, TypeOK, Phases, Locked, Owned

(* The look-up under the read lock.                                        *)
LEMMA LookupStep ==
  ASSUME IInv, NEW t \in Thread, NEW k \in Key,
         LookupHit(t, k) \/ LookupMiss(t, k)
  PROVE  IInv'
<1> USE CacheAssumption DEF IInv, LookupHit, LookupMiss, Begin, shardVars
<1>1. TypeOK'
  BY DEF TypeOK
<1>2. Phases'
  BY DEF TypeOK, Phases, Closing
<1>3. Locked'
  BY DEF TypeOK, Phases, Locked
<1>4. Owned'
  BY DEF TypeOK, Phases, Owned
<1> QED  BY <1>1, <1>2, <1>3, <1>4

(* The clone of a cached Arc, by a reader or under the write lock.         *)
LEMMA CloneStep ==
  ASSUME IInv, NEW t \in Thread, Restamp(t) \/ Adopt(t)
  PROVE  IInv'
<1> USE CacheAssumption DEF IInv, Restamp, Adopt, Lock
<1>0. key[t] \in Key /\ cache[key[t]] # None
  BY DEF TypeOK, Phases, Locked
<1>1. TypeOK'
  BY <1>0 DEF TypeOK
<1>2. Phases'
  BY <1>0 DEF TypeOK, Phases
<1>3. Locked'
  BY <1>0 DEF TypeOK, Phases, Locked
<1>4. Owned'
  BY <1>0 DEF TypeOK, Phases, Owned
<1> QED  BY <1>1, <1>2, <1>3, <1>4

(* A removal from the map, on any of its three paths: the thread goes on   *)
(* at "next" or owns the aperture alone.                                   *)
LEMMA RemoveOwned ==
  ASSUME TypeOK, Owned, NEW t \in Thread, NEW k \in Key, NEW next,
         pc[t] \in {"miss", "create", "finalise"}, cache[k] # None,
         RemoveEntry(t, k, next), UNCHANGED <<arc, key, mapping, host>>
  PROVE  Owned'
<1> USE DEF RemoveEntry
<1>1. CASE HeldElsewhere(cache[k], t)
  BY <1>1 DEF TypeOK, Owned, HeldElsewhere
<1>2. CASE ~HeldElsewhere(cache[k], t)
  <2> SUFFICES ASSUME host # "down" PROVE Owned'
    BY DEF Owned
  <2>1. dying' = [dying EXCEPT ![t] = cache[k]] /\ dying[t] = None
    BY <1>2 DEF TypeOK
  <2>2. \A l \in Key : cache'[l] # None => l # k /\ cache'[l] = cache[l]
    BY DEF TypeOK
  <2>3. \A u \in Thread : arc[u] # cache[k]
    BY <1>2 DEF HeldElsewhere, TypeOK
  <2>4. (\A l \in Key : cache[l] # None => mapping[cache[l]] = l)'
    BY <2>2 DEF Owned
  <2>5. (\A u \in Thread : dying[u] # None =>
           /\ mapping[dying[u]] # None
           /\ \A l \in Key : cache[l] # dying[u]
           /\ \A v \in Thread : arc[v] # dying[u]
           /\ \A v \in Thread : v # u => dying[v] # dying[u])'
    BY <2>1, <2>2, <2>3, CacheAssumption DEF TypeOK, Owned
  <2>6. (host = "up" => \A a \in Ap : mapping[a] # None =>
           \/ \E l \in Key : cache[l] = a
           \/ \E u \in Thread : arc[u] = a \/ dying[u] = a)'
    BY <2>1 DEF TypeOK, Owned
  <2> QED  BY <2>4, <2>5, <2>6 DEF Owned
<1> QED  BY <1>1, <1>2

(* The write lock is taken and room is made.                               *)
LEMMA EnterCreateStep ==
  ASSUME IInv, NEW t \in Thread, EnterCreate(t)
  PROVE  IInv'
<1> DEFINE s == ShardOf[key[t]]
<1> USE CacheAssumption DEF IInv, EnterCreate, Lock
<1>1. CASE pc' = [pc EXCEPT ![t] = "create"] /\ UNCHANGED <<cache, dying>>
  <2>1. TypeOK'
    BY <1>1 DEF TypeOK, Phases
  <2>2. Phases' /\ Locked'
    BY <1>1 DEF TypeOK, Phases, Locked, Readers
  <2>3. Owned'
    BY <1>1 DEF TypeOK, Owned
  <2> QED  BY <2>1, <2>2, <2>3
<1>2. CASE \E k \in Oldest(s) : RemoveEntry(t, k, "create")
  <2>1. PICK k \in Key : /\ cache[k] # None /\ ShardOf[k] = s
                         /\ RemoveEntry(t, k, "create")
    BY <1>2 DEF Oldest, Cached
  <2>2. TypeOK'
    BY <2>1 DEF TypeOK, Phases, RemoveEntry
  <2>3. Phases'
    BY <2>1 DEF TypeOK, Phases, RemoveEntry
  <2>4. Locked'
    BY <2>1 DEF TypeOK, Phases, Locked, RemoveEntry, Readers
  <2>5. Owned'
    BY <2>1, RemoveOwned
  <2> QED  BY <2>2, <2>3, <2>4, <2>5
<1> QED  BY <1>1, <1>2

(* An eviction of the retry loop.                                          *)
LEMMA QuotaRetryStep ==
  ASSUME IInv, NEW t \in Thread, QuotaRetry(t)
  PROVE  IInv'
<1> DEFINE s == ShardOf[key[t]]
<1> USE CacheAssumption DEF IInv, QuotaRetry
<1>1. PICK k \in Key : /\ cache[k] # None /\ ShardOf[k] = s
                       /\ RemoveEntry(t, k, "create")
  BY DEF Oldest, Cached
<1>2. TypeOK'
  BY <1>1 DEF TypeOK, Phases, RemoveEntry
<1>3. Phases'
  BY <1>1 DEF TypeOK, Phases, RemoveEntry
<1>4. Locked'
  BY <1>1 DEF TypeOK, Phases, Locked, RemoveEntry
<1>5. Owned'
  BY <1>1, RemoveOwned
<1> QED  BY <1>2, <1>3, <1>4, <1>5

(* The new mapping is inserted, at an address nobody owns.                 *)
LEMMA CreateStep ==
  ASSUME IInv, NEW t \in Thread, Create(t)
  PROVE  IInv'
<1> USE CacheAssumption DEF IInv
<1>1. PICK a \in Ap : /\ mapping[a] = None
                      /\ mapping' = [mapping EXCEPT ![a] = key[t]]
                      /\ cache' = [cache EXCEPT ![key[t]] = a]
                      /\ arc' = [arc EXCEPT ![t] = a]
  BY Zenon DEF Create, Mapped
<1>2. /\ pc[t] = "create" /\ host # "down"
      /\ stamp' = [stamp EXCEPT ![key[t]] = now[t]]
      /\ writer' = [writer EXCEPT ![ShardOf[key[t]]] = None]
      /\ pc' = [pc EXCEPT ![t] = "copy"]
      /\ UNCHANGED <<clock, key, now, evictions, dying, host, accesses>>
  BY DEF Create
<1>3. key[t] \in Key /\ writer[ShardOf[key[t]]] = t
  BY <1>2 DEF TypeOK, Phases
<1>4. TypeOK'
  <2>1. \A u \in Thread :
          pc'[u] = "create" => u # t /\ writer[ShardOf[key[u]]] = u
    BY <1>2 DEF TypeOK
  <2>2. (\A u \in Thread :
           pc[u] = "create" => writer[ShardOf[key[u]]] = u)'
    BY <1>2, <1>3, <2>1 DEF TypeOK, Phases
  <2>3. (\A u \in Thread :
           /\ arc[u] # None <=> pc[u] = "copy"
           /\ dying[u] # None <=> pc[u] \in {"drop", "destroy"})'
    BY <1>1, <1>2 DEF TypeOK
  <2> QED  BY <1>1, <1>2, <1>3, <2>2, <2>3 DEF TypeOK
<1>5. Phases'
  BY <1>2, <1>3 DEF TypeOK, Phases
<1>6. Locked'
  BY <1>1, <1>2, <1>3, SMTT(30) DEF TypeOK, Phases, Locked
<1>7. Owned'
  <2>1. \A u \in Thread :
          /\ dying[u] # None => dying[u] # a /\ mapping'[dying[u]] # None
          /\ arc[u] # None => arc[u] # a /\ mapping'[arc[u]] = key[u]
    BY <1>1, <1>2, <1>3 DEF TypeOK, Phases, Owned
  <2>2. \A k \in Key :
          cache[k] # None => cache[k] # a /\ mapping'[cache[k]] = k
    BY <1>1, <1>2 DEF TypeOK, Owned
  <2>3. (\A k \in Key : cache[k] # None => mapping[cache[k]] = k)'
    BY <1>1, <1>3, <2>2 DEF TypeOK
  <2>4. (\A u \in Thread : arc[u] # None => mapping[arc[u]] = key[u])'
    BY <1>1, <1>2, <1>3, <2>1 DEF TypeOK
  <2>5. (\A u \in Thread : dying[u] # None =>
           /\ mapping[dying[u]] # None
           /\ \A k \in Key : cache[k] # dying[u]
           /\ \A v \in Thread : arc[v] # dying[u]
           /\ \A v \in Thread : v # u => dying[v] # dying[u])'
    BY <1>1, <1>2, <1>3, <2>1 DEF TypeOK, Owned
  <2>6. (host = "up" => \A b \in Ap : mapping[b] # None =>
           \/ \E k \in Key : cache[k] = b
           \/ \E u \in Thread : arc[u] = b \/ dying[u] = b)'
    <3> SUFFICES ASSUME host' = "up", NEW b \in Ap, mapping'[b] # None
                 PROVE  \/ \E k \in Key : cache'[k] = b
                        \/ \E u \in Thread : arc'[u] = b \/ dying'[u] = b
      OBVIOUS
    <3>1. CASE b = a
      BY <1>1, <1>3, <3>1 DEF TypeOK
    <3>2. CASE b # a
      <4>1. mapping[b] # None /\ host = "up"
        BY <1>1, <1>2, <3>2 DEF TypeOK
      <4>2. cache[key[t]] = None /\ arc[t] = None
        BY <1>2, <1>3 DEF TypeOK, Locked
      <4> QED  BY <1>1, <1>2, <1>3, <3>2, <4>1, <4>2 DEF TypeOK, Owned
    <3> QED  BY <3>1, <3>2
  <2> QED  BY <2>3, <2>4, <2>5, <2>6 DEF Owned
<1> QED  BY <1>4, <1>5, <1>6, <1>7

(* The mapping failed for good.                                            *)
LEMMA CreateFailsStep ==
  ASSUME IInv, NEW t \in Thread, CreateFails(t)
  PROVE  IInv'
<1> USE CacheAssumption DEF IInv, CreateFails, GoIdle
<1>1. key[t] \in Key /\ writer[ShardOf[key[t]]] = t
  BY DEF TypeOK, Phases
<1>2. TypeOK'
  BY <1>1 DEF TypeOK, Phases
<1>3. Phases'
  BY <1>1 DEF TypeOK, Phases
<1>4. Locked'
  BY <1>1 DEF TypeOK, Phases, Locked
<1>5. Owned'
  BY <1>1, SMTT(30) DEF TypeOK, Owned
<1> QED  BY <1>2, <1>3, <1>4, <1>5

(* The copy is over: the aperture stays with its other owners, or the      *)
(* thread drops it alone.                                                  *)
LEMMA EndCopyStep ==
  ASSUME IInv, NEW t \in Thread, EndCopy(t)
  PROVE  IInv'
<1> USE CacheAssumption DEF IInv, EndCopy, GoIdle, shardVars
<1>1. key[t] \in Key /\ arc[t] \in Ap
  BY DEF TypeOK, Phases
<1>2. TypeOK'
  BY <1>1 DEF TypeOK, Phases
<1>3. Phases'
  BY <1>1 DEF TypeOK, Phases
<1>4. Locked'
  BY <1>1 DEF TypeOK, Phases, Locked
<1>5. CASE InCache(arc[t]) \/ HeldElsewhere(arc[t], t)
  <2>1. Owned'
    BY <1>1, <1>5 DEF TypeOK, Owned, InCache, HeldElsewhere
  <2> QED  BY <1>2, <1>3, <1>4, <2>1
<1>6. CASE ~(InCache(arc[t]) \/ HeldElsewhere(arc[t], t))
  <2>1. Owned'
    BY <1>1, <1>6 DEF TypeOK, Phases, Owned, InCache, HeldElsewhere
  <2> QED  BY <1>2, <1>3, <1>4, <2>1
<1> QED  BY <1>5, <1>6

(* Where a destructor returns to.                                          *)
LEMMA AfterDropStep ==
  ASSUME IInv, NEW t \in Thread, pc[t] \in {"drop", "destroy"},
         AfterDrop(t), UNCHANGED <<shardVars, arc, host, accesses>>,
         mapping' \in [Ap -> Key \cup {None}]
  PROVE  TypeOK' /\ Phases' /\ Locked'
<1> USE CacheAssumption DEF IInv, shardVars
<1>1. CASE key[t] = None
  <2>1. /\ dying' = [dying EXCEPT ![t] = None]
        /\ pc' = [pc EXCEPT ![t] = "finalise"]
        /\ UNCHANGED <<key, now, evictions>>
    BY <1>1 DEF AfterDrop
  <2> QED  BY <1>1, <2>1 DEF TypeOK, Phases, Locked
<1>2. CASE key[t] # None /\ writer[ShardOf[key[t]]] = t
  <2>1. /\ dying' = [dying EXCEPT ![t] = None]
        /\ pc' = [pc EXCEPT ![t] = "create"]
        /\ UNCHANGED <<key, now, evictions>>
    BY <1>2 DEF AfterDrop
  <2> QED  BY <1>2, <2>1 DEF TypeOK, Phases, Locked
<1>3. CASE key[t] # None /\ writer[ShardOf[key[t]]] # t
  <2>1. /\ dying' = [dying EXCEPT ![t] = None]
        /\ pc' = [pc EXCEPT ![t] = "idle"]
        /\ GoIdle(t)
    BY <1>3 DEF AfterDrop
  <2>2. TypeOK'
    BY <1>3, <2>1 DEF TypeOK, Phases, GoIdle
  <2>3. Phases' /\ Locked'
    BY <1>3, <2>1 DEF TypeOK, Phases, Locked, GoIdle
  <2> QED  BY <2>2, <2>3
<1> QED  BY <1>1, <1>2, <1>3

(* Aperture::drop.                                                         *)
LEMMA DropStep ==
  ASSUME IInv, NEW t \in Thread, Drop(t)
  PROVE  IInv'
<1> USE CacheAssumption DEF IInv
<1>0. ASSUME AfterDrop(t)
      PROVE  /\ dying' = [dying EXCEPT ![t] = None]
             /\ \A u \in Thread \ {t} : key'[u] = key[u]
  BY <1>0 DEF AfterDrop, GoIdle, TypeOK
<1>1. CASE SkipDestroy(t)
  <2>1. TypeOK' /\ Phases' /\ Locked'
    BY <1>1, AfterDropStep DEF SkipDestroy, TypeOK
  <2>2. Owned'
    BY <1>0, <1>1 DEF SkipDestroy, shardVars, TypeOK, Owned
  <2> QED  BY <2>1, <2>2
<1>2. CASE LoadAlive(t)
  BY <1>2 DEF LoadAlive, shardVars, TypeOK, Phases, Locked, Owned
<1>3. CASE Destroy(t)
  <2>1. dying[t] \in Ap /\ mapping' = [mapping EXCEPT ![dying[t]] = None]
    BY <1>3 DEF Destroy, TypeOK
  <2>2. TypeOK' /\ Phases' /\ Locked'
    BY <1>3, <2>1, AfterDropStep DEF Destroy, TypeOK
  <2>3. Owned'
    <3>0. host' = host
      BY <1>3, Zenon DEF Destroy
    <3> SUFFICES ASSUME host # "down" PROVE Owned'
      BY <3>0, Zenon DEF Owned
    <3>1. /\ UNCHANGED <<cache, arc, host>> /\ arc[t] = None
          /\ dying[t] # None /\ dying' = [dying EXCEPT ![t] = None]
          /\ \A u \in Thread \ {t} : key'[u] = key[u]
      <4>1. AfterDrop(t) /\ UNCHANGED <<cache, arc, host>> /\ pc[t] = "destroy"
        BY <1>3, Zenon DEF Destroy, shardVars
      <4>2. arc[t] = None /\ dying[t] # None
        BY <4>1 DEF TypeOK
      <4> QED  BY <1>0, <4>1, <4>2, Zenon
    <3>2. \A a \in Ap \ {dying[t]} : mapping'[a] = mapping[a]
      BY <2>1 DEF TypeOK
    <3>3. /\ \A k \in Key : cache[k] # dying[t]
          /\ \A u \in Thread : arc[u] # dying[t]
          /\ \A u \in Thread : u # t => dying[u] # dying[t]
      BY <3>1 DEF Owned
    <3>4. (\A k \in Key : cache[k] # None => mapping[cache[k]] = k)'
      BY <3>1, <3>2, <3>3 DEF TypeOK, Owned
    <3>5. (\A u \in Thread : arc[u] # None => mapping[arc[u]] = key[u])'
      BY <3>1, <3>2, <3>3 DEF TypeOK, Owned
    <3>6. (\A u \in Thread : dying[u] # None =>
             /\ mapping[dying[u]] # None
             /\ \A k \in Key : cache[k] # dying[u]
             /\ \A v \in Thread : arc[v] # dying[u]
             /\ \A v \in Thread : v # u => dying[v] # dying[u])'
      BY <3>1, <3>2, <3>3 DEF TypeOK, Owned
    <3>7. (host = "up" => \A a \in Ap : mapping[a] # None =>
             \/ \E k \in Key : cache[k] = a
             \/ \E u \in Thread : arc[u] = a \/ dying[u] = a)'
      BY <2>1, <3>1, <3>2 DEF TypeOK, Owned
    <3> QED  BY <3>4, <3>5, <3>6, <3>7, Zenon DEF Owned
  <2> QED  BY <2>2, <2>3
<1> QED  BY <1>1, <1>2, <1>3 DEF Drop

(* The cache is dropped with the last GuestMemory.                         *)
LEMMA FinaliseStep ==
  ASSUME IInv, NEW t \in Thread, Finalise(t)
  PROVE  IInv'
<1> USE CacheAssumption DEF IInv
<1>1. CASE BeginFinalise(t)
  BY <1>1 DEF BeginFinalise, shardVars, TypeOK, Phases, Locked, Owned
<1>2. CASE FinaliseEntry(t)
  <2>1. PICK k \in Key : cache[k] # None /\ RemoveEntry(t, k, "finalise")
    BY <1>2, Zenon DEF FinaliseEntry
  <2>2. TypeOK'
    BY <1>2, <2>1 DEF FinaliseEntry, RemoveEntry, TypeOK, Phases
  <2>3. Phases' /\ Locked'
    BY <1>2, <2>1 DEF FinaliseEntry, RemoveEntry, TypeOK, Phases, Locked
  <2>4. Owned'
    <3>1. pc[t] = "finalise" /\ UNCHANGED <<arc, key, mapping, host>>
      BY <1>2, Zenon DEF FinaliseEntry
    <3> QED  BY <2>1, <3>1, RemoveOwned, Zenon
  <2> QED  BY <2>2, <2>3, <2>4
<1>3. CASE EndFinalise(t)
  BY <1>3 DEF EndFinalise, shardVars, TypeOK, Phases, Locked, Owned
<1> QED  BY <1>1, <1>2, <1>3 DEF Finalise

(* Every step preserves it.                                                *)
LEMMA NextIInv == IInv /\ [Next]_vars => IInv'
<1> SUFFICES ASSUME IInv, [Next]_vars PROVE IInv'
  OBVIOUS
<1>1. ASSUME NEW t \in Thread, Access(t) PROVE IInv'
  BY <1>1, LookupStep, CloneStep, EnterCreateStep, CreateStep, QuotaRetryStep,
     CreateFailsStep, EndCopyStep DEF Access
<1>2. CASE MarkDead
  BY <1>2 DEF MarkDead, shardVars, threadVars, IInv, TypeOK, Phases, Locked,
              Owned
<1>3. CASE TeardownHost
  BY <1>3, CacheAssumption, SMTT(30) DEF TeardownHost, shardVars, threadVars, IInv,
              TypeOK, Phases, Locked, Owned
<1>4. CASE UNCHANGED vars
  BY <1>4 DEF vars, shardVars, threadVars, IInv, TypeOK, Phases, Locked, Owned
<1> QED  BY <1>1, <1>2, <1>3, <1>4, DropStep, FinaliseStep DEF Next, Finished

(* The ownership argument holds throughout.                                *)
THEOREM OwnershipHolds == Spec => []IInv
  BY InitIInv, NextIInv, PTL DEF Spec

(* mem.rs, with_mapping: for any number of threads, until the host is torn *)
(* down a copy goes through a mapping of the range it accesses.            *)
THEOREM CopiesAreMapped == Spec => []CopyMapped
<1>1. IInv => CopyMapped
  BY CacheAssumption DEF IInv, TypeOK, Owned, CopyMapped
<1> QED  BY <1>1, OwnershipHolds, PTL

(* mem.rs and Aperture::drop: while the host lives every mapping has an    *)
(* owner, and the thread that destroys one is its only owner.              *)
THEOREM MappingsAreOwned == Spec => []EveryMappingOwned
<1>1. IInv => EveryMappingOwned
  BY CacheAssumption, SMTT(30)
  DEF IInv, TypeOK, Owned, EveryMappingOwned, Mapped, InCache
<1> QED  BY <1>1, OwnershipHolds, PTL

(* get_or_create: the second look under the write lock is enough for no    *)
(* cached range to be mapped again.                                        *)
THEOREM RangesMappedOnce == Spec => NeverRemapped
<1>1. IInv /\ [Next]_vars =>
        [\A k \in Key : cache[k] # None /\ cache'[k] # None
                          => cache'[k] = cache[k]]_vars
  <2> SUFFICES ASSUME IInv, Next, NEW k \in Key,
                      cache[k] # None, cache'[k] # None
               PROVE  cache'[k] = cache[k]
    OBVIOUS
  <2> USE DEF IInv, TypeOK
  <2>1. ASSUME NEW t \in Thread, NEW l \in Key, NEW next,
               RemoveEntry(t, l, next)
        PROVE  cache'[k] = cache[k]
    BY <2>1 DEF RemoveEntry
  <2>2. ASSUME NEW t \in Thread, Create(t) PROVE cache'[k] = cache[k]
    <3>1. /\ pc[t] = "create"
          /\ \E a \in Ap : cache' = [cache EXCEPT ![key[t]] = a]
      BY <2>2, Zenon DEF Create
    <3>2. key[t] \in Key /\ writer[ShardOf[key[t]]] = t
      BY <3>1 DEF Phases
    <3>3. cache[key[t]] = None
      BY <3>2, CacheAssumption DEF Locked
    <3> QED  BY <3>1, <3>2, <3>3
  <2>3. ASSUME NEW t \in Thread, EnterCreate(t) PROVE cache'[k] = cache[k]
    BY <2>1, <2>3 DEF EnterCreate, Oldest, Cached
  <2>4. ASSUME NEW t \in Thread, QuotaRetry(t) PROVE cache'[k] = cache[k]
    BY <2>1, <2>4 DEF QuotaRetry, Oldest, Cached
  <2>5. ASSUME NEW t \in Thread, FinaliseEntry(t) PROVE cache'[k] = cache[k]
    BY <2>1, <2>5 DEF FinaliseEntry
  <2>6. ASSUME NEW t \in Thread, Access(t) PROVE cache'[k] = cache[k]
    <3>1. CASE \/ \E l \in Key : LookupHit(t, l) \/ LookupMiss(t, l)
               \/ Restamp(t) \/ Adopt(t) \/ CreateFails(t) \/ EndCopy(t)
      <4>1. cache' = cache
        BY <3>1, Zenon DEF LookupHit, LookupMiss, Restamp, Adopt, CreateFails,
           EndCopy, shardVars
      <4> QED  BY <4>1
    <3> QED  BY <2>2, <2>3, <2>4, <2>6, <3>1, Zenon DEF Access
  <2>7. ASSUME NEW t \in Thread, Drop(t) PROVE cache'[k] = cache[k]
    BY <2>7 DEF Drop, SkipDestroy, LoadAlive, Destroy, shardVars
  <2>8. ASSUME NEW t \in Thread, Finalise(t) PROVE cache'[k] = cache[k]
    BY <2>5, <2>8 DEF Finalise, BeginFinalise, EndFinalise, shardVars
  <2>9. CASE MarkDead \/ TeardownHost \/ Finished
    BY <2>9 DEF MarkDead, TeardownHost, Finished, vars, shardVars
  <2> QED  BY <2>6, <2>7, <2>8, <2>9 DEF Next
<1> QED  BY <1>1, OwnershipHolds, PTL DEF Spec, NeverRemapped

-----------------------------------------------------------------------------
(* What a removal does to the number of entries of a shard.                *)
LEMMA RemoveCount ==
  ASSUME TypeOK, NEW t, NEW next, NEW k \in Key, cache[k] # None,
         RemoveEntry(t, k, next)
  PROVE  /\ \A s \in Shard : Cardinality(Cached(s)') \in Nat
         /\ \A s \in Shard \ {ShardOf[k]} : Cached(s)' = Cached(s)
         /\ Cardinality(Cached(ShardOf[k])') = Cardinality(Cached(ShardOf[k])) - 1
<1> USE CacheAssumption
<1>1. cache' = [cache EXCEPT ![k] = None]
  BY DEF RemoveEntry
<1>2. \A s \in Shard : Cached(s)' = Cached(s) \ {k}
  BY <1>1, SMTT(30) DEF TypeOK, Cached
<1>3. \A s \in Shard : IsFiniteSet(Cached(s))
  BY FS_Subset DEF Cached
<1>4. k \in Cached(ShardOf[k]) /\ ShardOf[k] \in Shard
  BY DEF Cached
<1>5. \A s \in Shard \ {ShardOf[k]} : k \notin Cached(s)
  BY DEF Cached
<1>6. \A s \in Shard : IsFiniteSet(Cached(s)')
  BY <1>2, <1>3, FS_RemoveElement
<1>7. Cardinality(Cached(ShardOf[k])') = Cardinality(Cached(ShardOf[k])) - 1
  BY <1>2, <1>3, <1>4, FS_RemoveElement
<1>8. \A s \in Shard : Cardinality(Cached(s)') \in Nat
  BY <1>6, FS_CardinalityType, Zenon
<1>9. ASSUME NEW s \in Shard \ {ShardOf[k]} PROVE Cached(s)' = Cached(s)
  <2>1. Cached(s)' = Cached(s) \ {k} /\ k \notin Cached(s)
    BY <1>2, <1>5
  <2> QED  BY <2>1, Zenon
<1> QED  BY <1>7, <1>8, <1>9, Zenon

(* Cardinalities are numbers.                                              *)
LEMMA CountType == \A s \in Shard : Cardinality(Cached(s)) \in Nat
  BY CacheAssumption, FS_Subset, FS_CardinalityType DEF Cached

(* Nothing is cached, and the cap is not zero.                             *)
LEMMA InitRoom == Init => Room
<1> SUFFICES ASSUME Init PROVE Room
  OBVIOUS
<1>1. \A s \in Shard : Cached(s) = {}
  BY DEF Init, Cached
<1>2. \A s \in Shard : Cardinality(Cached(s)) = 0
  BY <1>1, FS_EmptySet
<1>3. \A t \in Thread, s \in Shard : writer[s] # t
  BY CacheAssumption DEF Init
<1> QED  BY <1>2, <1>3, CacheAssumption DEF Init, Room, WithinCap,
         RoomMade, NoneEvicted

(* The steps that add no entry, take no lock and count no eviction.        *)
LEMMA QuietRoom ==
  ASSUME TypeOK, Room,
         \A s \in Shard : \/ Cached(s)' = Cached(s)
                          \/ Cardinality(Cached(s)') = Cardinality(Cached(s)) - 1,
         \A t \in Thread, s \in Shard : writer'[s] = t => writer[s] = t,
         \A t \in Thread :
           \/ evictions'[t] = 0
           \/ /\ evictions'[t] = evictions[t]
              /\ pc'[t] \in {"idle", "hit", "miss"} =>
                   pc[t] \in {"idle", "hit", "miss"}
  PROVE  Room'
<1> USE CacheAssumption, CountType
<1>1. \A s \in Shard : Cardinality(Cached(s)') <= Cardinality(Cached(s))
  OBVIOUS
<1>2. \A s \in Shard : Cardinality(Cached(s)') \in Int
  OBVIOUS
<1>3. \A t \in Thread : evictions'[t] \in Nat /\ evictions'[t] <= evictions[t]
  BY DEF TypeOK
<1>4. WithinCap'
  BY <1>1, <1>2, SMTT(30) DEF Room, WithinCap
<1>5. RoomMade'
  BY <1>1, <1>2, <1>3, SMTT(30) DEF Room, RoomMade, TypeOK
<1>6. NoneEvicted'
  BY DEF Room, NoneEvicted
<1> QED  BY <1>4, <1>5, <1>6 DEF Room

(* An eviction of the retry loop counts one more and leaves one entry less. *)
LEMMA QuotaRetryRoom ==
  ASSUME IInv, Room, NEW t \in Thread, QuotaRetry(t)
  PROVE  Room'
<1> USE CacheAssumption DEF IInv, TypeOK, QuotaRetry
<1>1. PICK k \in Key : /\ cache[k] # None /\ ShardOf[k] = ShardOf[key[t]]
                       /\ RemoveEntry(t, k, "create")
  BY DEF Oldest, Cached
<1>2. writer[ShardOf[k]] = t /\ ShardOf[k] \in Shard
  BY <1>1
<1>3. \A s \in Shard : writer[s] = t => s = ShardOf[k]
  BY <1>1 DEF Locked
<1>4. /\ evictions' = [evictions EXCEPT ![t] = @ + 1] /\ UNCHANGED writer
      /\ evictions \in [Thread -> Nat]
  OBVIOUS
<1>5. \A u \in Thread : pc'[u] \in {"idle", "hit", "miss"} =>
        u # t /\ pc[u] = pc'[u]
  BY <1>1 DEF RemoveEntry
<1> HIDE DEF IInv, TypeOK, QuotaRetry
<1>9. /\ \A s \in Shard \ {ShardOf[k]} : Cached(s)' = Cached(s)
      /\ Cardinality(Cached(ShardOf[k])') = Cardinality(Cached(ShardOf[k])) - 1
  <2> HIDE CacheAssumption
  <2>1. TypeOK
    BY Zenon DEF IInv
  <2> QED  BY <1>1, <2>1, RemoveCount, Zenon
<1>10. PER_SHARD_MAX \in Nat
  OBVIOUS
<1> HIDE CacheAssumption
<1>6. WithinCap'
  <2> SUFFICES ASSUME NEW s \in Shard
               PROVE  Cardinality(Cached(s)') <= PER_SHARD_MAX
    BY Zenon DEF WithinCap
  <2>1. Cardinality(Cached(s)) \in Nat /\ Cardinality(Cached(s)) <= PER_SHARD_MAX
    BY CountType, Zenon DEF Room, WithinCap
  <2>2. CASE s = ShardOf[k]
    BY <1>9, <1>10, <2>1, <2>2
  <2>3. CASE s # ShardOf[k]
    BY <1>9, <2>1, <2>3
  <2> QED  BY <2>2, <2>3, Zenon
<1>7. RoomMade'
  <2> SUFFICES ASSUME NEW u \in Thread, NEW s \in Shard, writer'[s] = u
               PROVE  evictions'[u] + Cardinality(Cached(s)') < PER_SHARD_MAX
    BY Zenon DEF RoomMade
  <2>1. /\ Cardinality(Cached(s)) \in Nat /\ writer[s] = u
        /\ evictions[u] + Cardinality(Cached(s)) < PER_SHARD_MAX
    BY <1>4, CountType, Zenon DEF Room, RoomMade
  <2>2. CASE s = ShardOf[k]
    <3>1. u = t /\ evictions'[u] = evictions[u] + 1 /\ evictions[u] \in Nat
      BY <1>2, <1>4, <2>1, <2>2
    <3> QED  BY <1>9, <1>10, <2>1, <2>2, <3>1
  <2>3. CASE s # ShardOf[k]
    <3>1. u # t
      BY <1>3, <2>1, <2>3, Zenon
    <3>2. evictions'[u] = evictions[u]
      BY <1>4, <3>1
    <3>3. Cached(s)' = Cached(s)
      BY <1>9, <2>3, Zenon
    <3> QED  BY <2>1, <3>2, <3>3
  <2> QED  BY <2>2, <2>3, Zenon
<1>8. NoneEvicted'
  BY <1>4, <1>5 DEF Room, NoneEvicted
<1> QED  BY <1>6, <1>7, <1>8, Zenon DEF Room

(* Whoever takes the write lock has evicted nothing yet and makes room.    *)
LEMMA EnterCreateRoom ==
  ASSUME IInv, Room, NEW t \in Thread, EnterCreate(t)
  PROVE  Room'
<1> USE CacheAssumption, CountType
<1>0. PICK s \in Shard : s = ShardOf[key[t]]
  BY DEF IInv, TypeOK, Phases, EnterCreate, Lock
<1>1. /\ evictions[t] = 0
      /\ writer' = [writer EXCEPT ![s] = t] /\ UNCHANGED evictions
      /\ writer \in [Shard -> Thread \cup {None}]
      /\ \A q \in Shard : writer[q] # t
      /\ evictions \in [Thread -> Nat]
  BY <1>0 DEF IInv, TypeOK, Phases, Locked, Room, NoneEvicted,
     EnterCreate, Lock
<1>2. /\ \A q \in Shard \ {s} : Cached(q)' = Cached(q)
      /\ \/ Cached(s)' = Cached(s) /\ Cardinality(Cached(s)) < PER_SHARD_MAX
         \/ Cardinality(Cached(s)') = Cardinality(Cached(s)) - 1
      /\ \A u \in Thread : pc'[u] \in {"idle", "hit", "miss"} => pc[u] = pc'[u]
  <2>1. CASE /\ Cardinality(Cached(s)) < PER_SHARD_MAX
             /\ pc' = [pc EXCEPT ![t] = "create"] /\ UNCHANGED cache
    BY <2>1 DEF Cached, IInv, TypeOK
  <2>2. CASE \E k \in Oldest(s) : RemoveEntry(t, k, "create")
    <3>1. PICK k \in Key : /\ cache[k] # None /\ ShardOf[k] = s
                           /\ RemoveEntry(t, k, "create")
      BY <2>2, Zenon DEF Oldest, Cached
    <3>2. \A u \in Thread : pc'[u] \in {"idle", "hit", "miss"} => pc[u] = pc'[u]
      BY <3>1 DEF RemoveEntry, IInv, TypeOK
    <3>3. /\ \A q \in Shard \ {s} : Cached(q)' = Cached(q)
          /\ Cardinality(Cached(s)') = Cardinality(Cached(s)) - 1
      <4> HIDE CacheAssumption, CountType
      <4>1. TypeOK
        BY DEF IInv
      <4> QED  BY <3>1, <4>1, RemoveCount, Zenon
    <3> QED  BY <3>2, <3>3, Zenon
  <2> QED  BY <1>0, <2>1, <2>2 DEF EnterCreate
<1>3. WithinCap'
  BY <1>1, <1>2 DEF Room, WithinCap
<1>4. RoomMade'
  <2> SUFFICES ASSUME NEW u \in Thread, NEW q \in Shard, writer'[q] = u
               PROVE  evictions'[u] + Cardinality(Cached(q)') < PER_SHARD_MAX
    BY DEF RoomMade
  <2>1. CASE q = s
    <3>1. u = t /\ evictions'[u] = 0
      BY <1>1, <2>1
    <3>2. Cardinality(Cached(s)') \in Int /\ Cardinality(Cached(s)') < PER_SHARD_MAX
      BY <1>1, <1>2 DEF Room, WithinCap
    <3> QED  BY <2>1, <3>1, <3>2
  <2>2. CASE q # s
    BY <1>1, <1>2, <2>2 DEF Room, RoomMade
  <2> QED  BY <2>1, <2>2
<1>5. NoneEvicted'
  BY <1>1, <1>2 DEF Room, NoneEvicted
<1> QED  BY <1>3, <1>4, <1>5, Zenon DEF Room

(* The new entry takes the room there was.                                 *)
LEMMA CreateRoom ==
  ASSUME IInv, Room, NEW t \in Thread, Create(t)
  PROVE  Room'
<1> USE CacheAssumption, CountType
<1>0. PICK s \in Shard : s = ShardOf[key[t]]
  <2>1. pc[t] = "create"
    BY Zenon DEF Create
  <2> QED  BY <2>1 DEF IInv, TypeOK, Phases
<1>1. PICK a \in Ap : cache' = [cache EXCEPT ![key[t]] = a]
  BY Zenon DEF Create
<1>2. /\ key[t] \in Key /\ writer[s] = t
      /\ writer' = [writer EXCEPT ![s] = None] /\ UNCHANGED evictions
      /\ writer \in [Shard -> Thread \cup {None}]
      /\ evictions \in [Thread -> Nat]
      /\ \A u \in Thread : pc'[u] \in {"idle", "hit", "miss"} => pc[u] = pc'[u]
  BY <1>0 DEF IInv, TypeOK, Phases, Create
<1>3. \A q \in Shard \ {s} : Cached(q)' = Cached(q)
  BY <1>0, <1>1, <1>2 DEF Cached, IInv, TypeOK
<1>10. PICK k \in Key : k = key[t]
  BY <1>2
<1>4. Cached(s)' = Cached(s) \cup {k}
  BY <1>10, <1>0, <1>1, <1>2 DEF Cached, IInv, TypeOK
<1>5. IsFiniteSet(Cached(s))
  BY FS_Subset DEF Cached
<1>6. Cardinality(Cached(s)') <= Cardinality(Cached(s)) + 1
      /\ Cardinality(Cached(s)') \in Nat
  <2>1. Cardinality(Cached(s)) \in Nat
    BY <1>5, FS_CardinalityType
  <2>2. Cardinality(Cached(s) \cup {k}) \in
          {Cardinality(Cached(s)), Cardinality(Cached(s)) + 1}
    <3> HIDE CacheAssumption, CountType
    <3>1. CASE k \in Cached(s)
      BY <1>5, <3>1, FS_AddElement, Zenon
    <3>2. CASE k \notin Cached(s)
      BY <1>5, <3>2, FS_AddElement, Zenon
    <3> QED  BY <3>1, <3>2
  <2>3. Cardinality(Cached(s)') = Cardinality(Cached(s) \cup {k})
    BY <1>4
  <2> QED  BY <2>1, <2>2, <2>3
<1>7. WithinCap'
  BY <1>2, <1>3, <1>6, SMTT(30) DEF Room, WithinCap, RoomMade
<1>8. RoomMade'
  BY <1>2, <1>3, SMTT(30) DEF Room, RoomMade
<1>9. NoneEvicted'
  BY <1>2 DEF Room, NoneEvicted
<1> QED  BY <1>7, <1>8, <1>9, Zenon DEF Room

(* Every step keeps the room it found or made.                             *)
LEMMA NextRoom == IInv /\ Room /\ [Next]_vars => Room'
<1> SUFFICES ASSUME IInv, Room, [Next]_vars PROVE Room'
  OBVIOUS
<1>0. TypeOK
  BY DEF IInv
<1>1. ASSUME UNCHANGED <<cache, writer, evictions>>,
             \A t \in Thread : pc'[t] \in {"idle", "hit", "miss"} =>
                                 pc[t] \in {"idle", "hit", "miss"}
      PROVE  Room'
  <2>1. \A s \in Shard : Cached(s)' = Cached(s)
    BY <1>1 DEF Cached
  <2> QED  BY <1>0, <1>1, <2>1, QuietRoom
<1>2. ASSUME NEW t \in Thread, NEW k \in Key,
             LookupHit(t, k) \/ LookupMiss(t, k)
      PROVE  Room'
  BY <1>0, <1>1, <1>2
  DEF LookupHit, LookupMiss, Begin, shardVars, TypeOK
<1>3. ASSUME NEW t \in Thread, Restamp(t) \/ Adopt(t) PROVE Room'
  <2>1. /\ UNCHANGED <<cache, writer, evictions>>
        /\ pc' = [pc EXCEPT ![t] = "copy"]
    BY <1>3, Zenon DEF Restamp, Adopt
  <2> QED  BY <1>0, <1>1, <2>1 DEF TypeOK
<1>4. ASSUME UNCHANGED cache, NEW t \in Thread,
             pc' = [pc EXCEPT ![t] = "idle"], GoIdle(t),
             \A u \in Thread, s \in Shard : writer'[s] = u => writer[s] = u
      PROVE  Room'
  <2>1. \A s \in Shard : Cached(s)' = Cached(s)
    BY <1>4 DEF Cached
  <2>2. \A u \in Thread :
          \/ evictions'[u] = 0
          \/ /\ evictions'[u] = evictions[u]
             /\ pc'[u] = pc[u]
    BY <1>0, <1>4 DEF GoIdle, TypeOK
  <2> QED  BY <1>0, <1>4, <2>1, <2>2, QuietRoom
<1>5. ASSUME NEW t \in Thread, CreateFails(t) PROVE Room'
  <2>1. \A u \in Thread, s \in Shard : writer'[s] = u => writer[s] = u
    BY <1>0, <1>5, CacheAssumption DEF CreateFails, TypeOK
  <2> QED  BY <1>4, <1>5, <2>1, Zenon DEF CreateFails
<1>6. ASSUME NEW t \in Thread, EndCopy(t) PROVE Room'
  <2>1. UNCHANGED <<cache, writer>>
    BY <1>6 DEF EndCopy, shardVars
  <2>2. CASE pc' = [pc EXCEPT ![t] = "idle"] /\ GoIdle(t)
    BY <1>4, <2>1, <2>2, Zenon
  <2>3. CASE pc' = [pc EXCEPT ![t] = "drop"] /\ UNCHANGED evictions
    BY <1>0, <1>1, <2>1, <2>3 DEF TypeOK
  <2> QED  BY <1>6, <2>2, <2>3, Zenon DEF EndCopy
<1>7. ASSUME NEW t \in Thread, Access(t) PROVE Room'
  BY <1>2, <1>3, <1>5, <1>6, <1>7, EnterCreateRoom, CreateRoom, QuotaRetryRoom
  DEF Access
<1>8. ASSUME NEW t \in Thread, Drop(t) PROVE Room'
  <2>1. UNCHANGED <<cache, writer>>
    BY <1>8 DEF Drop, SkipDestroy, LoadAlive, Destroy, shardVars
  <2>2. CASE pc' = [pc EXCEPT ![t] = "idle"] /\ GoIdle(t)
    BY <1>4, <2>1, <2>2, Zenon
  <2>3. CASE /\ UNCHANGED evictions
             /\ \E p \in {"destroy", "finalise", "create"} :
                  pc' = [pc EXCEPT ![t] = p]
    BY <1>0, <1>1, <2>1, <2>3 DEF TypeOK
  <2>4. CASE LoadAlive(t)
    BY <2>3, <2>4 DEF LoadAlive
  <2>5. CASE AfterDrop(t)
    BY <2>2, <2>3, <2>5 DEF AfterDrop
  <2> QED  BY <1>8, <2>4, <2>5 DEF Drop, SkipDestroy, Destroy
<1>9. ASSUME NEW t \in Thread, FinaliseEntry(t) PROVE Room'
  <2>1. PICK k \in Key : cache[k] # None /\ RemoveEntry(t, k, "finalise")
    BY <1>9 DEF FinaliseEntry
  <2>2. \A s \in Shard : \/ Cached(s)' = Cached(s)
                         \/ Cardinality(Cached(s)') = Cardinality(Cached(s)) - 1
    BY <1>0, <2>1, RemoveCount
  <2>3. \A u \in Thread : pc'[u] \in {"idle", "hit", "miss"} =>
                            pc[u] \in {"idle", "hit", "miss"}
    BY <1>0, <2>1 DEF RemoveEntry, TypeOK
  <2>4. UNCHANGED <<writer, evictions>>
    BY <1>9 DEF FinaliseEntry
  <2> QED  BY <1>0, <2>2, <2>3, <2>4, QuietRoom
<1>10. ASSUME NEW t \in Thread, BeginFinalise(t) \/ EndFinalise(t) PROVE Room'
  BY <1>0, <1>1, <1>10 DEF BeginFinalise, EndFinalise, shardVars, TypeOK
<1>11. CASE MarkDead \/ TeardownHost \/ UNCHANGED vars
  BY <1>1, <1>11 DEF MarkDead, TeardownHost, vars, shardVars, threadVars
<1> QED
  BY <1>7, <1>8, <1>9, <1>10, <1>11 DEF Next, Finalise, Finished

(* get_or_create: whatever PER_SHARD_MAX is, the retry loop stops for want *)
(* of entries and never because of its own cap.                            *)
THEOREM RetriesEmptyTheShard == Spec => []RetryEndsByEmptying
<1>1. IInv /\ Room => RetryEndsByEmptying
  BY CacheAssumption DEF IInv, TypeOK, Phases, Room, RoomMade,
     RetryEndsByEmptying
<1>2. Spec => []Room
  BY InitRoom, NextRoom, OwnershipHolds, PTL DEF Spec
<1> QED  BY <1>1, <1>2, OwnershipHolds, PTL

-----------------------------------------------------------------------------
(* The bound on the mappings is strict because of the thread that filled   *)
(* the last shard: when no shard has room, some thread holds no mapping    *)
(* but one of the cache.                                                   *)
Full == \A s \in Shard : Cardinality(Cached(s)) = PER_SHARD_MAX

HoldsNoExtra(t) == dying[t] = None /\ (arc[t] = None \/ InCache(arc[t]))

Slack == Full => \E t \in Thread : HoldsNoExtra(t)

(* At first no thread holds anything.                                      *)
LEMMA InitSlack == Init => Slack
  BY SizeAssumption DEF Init, Slack, HoldsNoExtra

(* A removal leaves room in a shard.                                       *)
LEMMA RemoveSlack ==
  ASSUME TypeOK, Room, NEW t, NEW k \in Key, NEW next, cache[k] # None,
         RemoveEntry(t, k, next)
  PROVE  Slack'
<1>1. ShardOf[k] \in Shard /\ PER_SHARD_MAX \in Nat
  BY CacheAssumption
<1>2. Cardinality(Cached(ShardOf[k])') = Cardinality(Cached(ShardOf[k])) - 1
  BY RemoveCount, Zenon
<1>3. /\ Cardinality(Cached(ShardOf[k])) \in Nat
      /\ Cardinality(Cached(ShardOf[k])) <= PER_SHARD_MAX
  BY <1>1, CountType, Zenon DEF Room, WithinCap
<1>4. Cardinality(Cached(ShardOf[k])') # PER_SHARD_MAX
  BY <1>1, <1>2, <1>3
<1> QED  BY <1>1, <1>4, Zenon DEF Slack, Full

(* A step that leaves the cache alone, and lets every thread that held     *)
(* nothing extra hold nothing extra.                                       *)
LEMMA QuietSlack ==
  ASSUME Slack, UNCHANGED cache,
         \A t \in Thread : HoldsNoExtra(t) => HoldsNoExtra(t)'
  PROVE  Slack'
<1>1. \A s \in Shard : Cached(s)' = Cached(s)
  BY DEF Cached
<1>2. Full' => Full
  BY <1>1, Zenon DEF Full
<1> QED  BY <1>2, Zenon DEF Slack

(* Every step keeps the slack.                                             *)
LEMMA NextSlack == IInv /\ Room /\ Slack /\ [Next]_vars => Slack'
<1> SUFFICES ASSUME IInv, Room, Slack, [Next]_vars PROVE Slack'
  OBVIOUS
<1>1. TypeOK
  BY DEF IInv
<1>2. ASSUME UNCHANGED <<cache, arc, dying>> PROVE Slack'
  <2>1. \A t \in Thread : HoldsNoExtra(t) => HoldsNoExtra(t)'
    BY <1>2 DEF HoldsNoExtra, InCache
  <2> QED  BY <1>2, <2>1, QuietSlack
<1>3. ASSUME NEW t \in Thread, NEW k \in Key,
             LookupHit(t, k) \/ LookupMiss(t, k)
      PROVE  Slack'
  BY <1>2, <1>3, Zenon DEF LookupHit, LookupMiss, shardVars
<1>4. ASSUME NEW t \in Thread, Restamp(t) \/ Adopt(t) PROVE Slack'
  <2>1. /\ key[t] \in Key /\ UNCHANGED <<cache, dying>>
        /\ arc' = [arc EXCEPT ![t] = cache[key[t]]]
    BY <1>4 DEF IInv, Phases, Restamp, Adopt, Lock
  <2>2. \A u \in Thread : HoldsNoExtra(u) => HoldsNoExtra(u)'
    BY <1>1, <2>1 DEF HoldsNoExtra, InCache, TypeOK
  <2> QED  BY <2>1, <2>2, QuietSlack
<1>5. ASSUME NEW t \in Thread, EnterCreate(t) \/ QuotaRetry(t) PROVE Slack'
  <2>1. CASE UNCHANGED <<cache, arc, dying>>
    BY <1>2, <2>1
  <2>2. CASE \E s \in Shard : \E k \in Oldest(s) : RemoveEntry(t, k, "create")
    <3>1. PICK k \in Key : cache[k] # None /\ RemoveEntry(t, k, "create")
      BY <2>2, Zenon DEF Oldest, Cached
    <3> QED  BY <1>1, <3>1, RemoveSlack, Zenon
  <2>3. key[t] \in Key
    <3>1. pc[t] \in {"miss", "create"}
      BY <1>5, Zenon DEF EnterCreate, QuotaRetry, Lock
    <3> QED  BY <3>1 DEF IInv, Phases
  <2>4. ShardOf[key[t]] \in Shard
    BY <2>3, CacheAssumption
  <2> QED  BY <1>5, <2>1, <2>2, <2>4, Zenon DEF EnterCreate, QuotaRetry
<1>6. ASSUME NEW t \in Thread, Create(t) PROVE Slack'
  <2>1. key[t] \in Key /\ dying[t] = None
    BY <1>1, <1>6 DEF IInv, TypeOK, Phases, Create
  <2>2. PICK a \in Ap : /\ cache' = [cache EXCEPT ![key[t]] = a]
                        /\ arc' = [arc EXCEPT ![t] = a] /\ dying' = dying
    BY <1>6, Zenon DEF Create
  <2>3. HoldsNoExtra(t)'
    BY <1>1, <2>1, <2>2 DEF HoldsNoExtra, InCache, TypeOK
  <2> QED  BY <2>3, Zenon DEF Slack
<1>7. ASSUME NEW t \in Thread, CreateFails(t) PROVE Slack'
  BY <1>2, <1>7, Zenon DEF CreateFails
<1>8. ASSUME NEW t \in Thread, EndCopy(t) PROVE Slack'
  <2>1. /\ UNCHANGED cache /\ arc[t] # None
        /\ arc' = [arc EXCEPT ![t] = None]
        /\ \/ UNCHANGED dying
           \/ ~InCache(arc[t]) /\ dying' = [dying EXCEPT ![t] = arc[t]]
    BY <1>1, <1>8 DEF EndCopy, shardVars, TypeOK
  <2>2. \A u \in Thread : HoldsNoExtra(u) => HoldsNoExtra(u)'
    BY <1>1, <2>1 DEF HoldsNoExtra, InCache, TypeOK
  <2> QED  BY <2>1, <2>2, QuietSlack
<1>9. ASSUME NEW t \in Thread, Drop(t) PROVE Slack'
  <2>1. /\ UNCHANGED <<cache, arc>>
        /\ UNCHANGED dying \/ dying' = [dying EXCEPT ![t] = None]
    BY <1>9 DEF Drop, SkipDestroy, LoadAlive, Destroy, AfterDrop, shardVars
  <2>2. \A u \in Thread : HoldsNoExtra(u) => HoldsNoExtra(u)'
    BY <1>1, <2>1 DEF HoldsNoExtra, InCache, TypeOK
  <2> QED  BY <2>1, <2>2, QuietSlack
<1>10. ASSUME NEW t \in Thread, Finalise(t) PROVE Slack'
  <2>1. CASE BeginFinalise(t) \/ EndFinalise(t)
    BY <1>2, <2>1, Zenon DEF BeginFinalise, EndFinalise, shardVars
  <2>2. CASE FinaliseEntry(t)
    BY <1>1, <2>2, RemoveSlack, Zenon DEF FinaliseEntry
  <2> QED  BY <1>10, <2>1, <2>2 DEF Finalise
<1>11. CASE MarkDead \/ TeardownHost \/ UNCHANGED vars
  BY <1>2, <1>11 DEF MarkDead, TeardownHost, vars, shardVars, threadVars
<1>12. ASSUME NEW t \in Thread, Access(t) PROVE Slack'
  BY <1>3, <1>4, <1>5, <1>6, <1>7, <1>8, <1>12 DEF Access
<1> QED  BY <1>9, <1>10, <1>11, <1>12 DEF Next, Finished

(* The apertures in the cache are at most a full cache of every shard, and *)
(* fewer if a shard has room: number the entries of each shard.            *)
LEMMA CachedCount ==
  ASSUME IInv, Room, host = "up",
         NEW A, A = {a \in Ap : InCache(a)}
  PROVE  /\ IsFiniteSet(A) /\ Cardinality(A) \in Nat
         /\ Cardinality(A) <= PER_SHARD_MAX * Cardinality(Shard)
         /\ ~Full => Cardinality(A) < PER_SHARD_MAX * Cardinality(Shard)
<1> DEFINE Place == Shard \X (1 .. PER_SHARD_MAX)
           Size(s) == Cardinality(Cached(s))
           Lists(c, s) ==
             \A k \in Cached(s) : \E i \in 1 .. Size(s) : c[i] = k
           list == [s \in Shard |-> CHOOSE c : Lists(c, s)]
           index(k) == CHOOSE i \in 1 .. Size(ShardOf[k]) :
                         list[ShardOf[k]][i] = k
           place == [a \in A |-> <<ShardOf[mapping[a]], index(mapping[a])>>]
<1>1. ASSUME NEW k \in Key, k \in Cached(ShardOf[k])
      PROVE  /\ index(k) \in 1 .. Size(ShardOf[k])
             /\ list[ShardOf[k]][index(k)] = k
  <2> DEFINE s == ShardOf[k]
  <2>1. s \in Shard /\ IsFiniteSet(Cached(s))
    BY CacheAssumption, FS_Subset DEF Cached
  <2>2. Bijection(1 .. Size(s), Cached(s)) # {}
    BY <2>1, FS_CardinalityType, Zenon DEF ExistsBijection
  <2>3. \E c : Lists(c, s)
    BY <2>2, Zenon DEF Bijection, Surjection
  <2>4. Lists(list[s], s)
    BY <2>1, <2>3, Zenon
  <2> HIDE DEF list
  <2> QED  BY <2>4, <1>1, Zenon
<1> HIDE DEF list, index
<1>2. ASSUME NEW a \in A
      PROVE  /\ mapping[a] \in Key /\ cache[mapping[a]] = a /\ a # None
             /\ ShardOf[mapping[a]] \in Shard
             /\ mapping[a] \in Cached(ShardOf[mapping[a]])
  BY CacheAssumption DEF IInv, TypeOK, Owned, InCache, Cached
<1>3. ASSUME NEW s \in Shard
      PROVE  /\ Cardinality(Cached(s)) \in Nat
             /\ Cardinality(Cached(s)) <= PER_SHARD_MAX
             /\ PER_SHARD_MAX \in Nat \ {0}
  BY CountType, CacheAssumption DEF Room, WithinCap
<1>4. ASSUME NEW a \in A
      PROVE  /\ place[a] \in Place /\ place[a][1] = ShardOf[mapping[a]]
             /\ place[a][2] = index(mapping[a])
             /\ place[a][2] \in 1 .. Size(ShardOf[mapping[a]])
  <2>1. index(mapping[a]) \in 1 .. Size(ShardOf[mapping[a]])
    BY <1>1, <1>2, Zenon
  <2>2. 1 .. Size(ShardOf[mapping[a]]) \subseteq 1 .. PER_SHARD_MAX
    BY <1>2, <1>3
  <2> QED  BY <1>2, <2>1, <2>2, Zenon
<1>5. ASSUME NEW a \in A, NEW b \in A, place[a] = place[b] PROVE a = b
  <2>1. /\ ShardOf[mapping[a]] = ShardOf[mapping[b]]
        /\ index(mapping[a]) = index(mapping[b])
    BY <1>4, <1>5, Zenon
  <2>2. /\ list[ShardOf[mapping[a]]][index(mapping[a])] = mapping[a]
        /\ list[ShardOf[mapping[b]]][index(mapping[b])] = mapping[b]
    BY <1>1, <1>2, Zenon
  <2> QED  BY <1>2, <2>1, <2>2, Zenon
<1>6. /\ IsFiniteSet(Place)
      /\ Cardinality(Place) = PER_SHARD_MAX * Cardinality(Shard)
      /\ Cardinality(Place) \in Nat
  <2>1. IsFiniteSet(1 .. PER_SHARD_MAX)
        /\ Cardinality(1 .. PER_SHARD_MAX) = PER_SHARD_MAX
    BY CacheAssumption, FS_Interval
  <2>2. IsFiniteSet(Shard) /\ Cardinality(Shard) \in Nat
    BY SizeAssumption, CacheAssumption, FS_CardinalityType
  <2>3. /\ IsFiniteSet(Place)
        /\ Cardinality(Place)
             = Cardinality(Shard) * Cardinality(1 .. PER_SHARD_MAX)
    BY <2>1, <2>2, FS_Product, Zenon
  <2>4. Cardinality(Shard) * PER_SHARD_MAX = PER_SHARD_MAX * Cardinality(Shard)
    BY <2>2, CacheAssumption
  <2>5. Cardinality(Place) \in Nat
    BY <2>3, FS_CardinalityType, Zenon
  <2> QED  BY <2>1, <2>3, <2>4, <2>5, Zenon
<1> HIDE DEF place, Place
<1>7. place \in Injection(A, Place)
  <2>1. place \in [A -> Place] /\ DOMAIN place = A
    BY <1>4, Zenon DEF place
  <2> QED  BY <2>1, <1>5, Zenon DEF Injection, IsInjective
<1>8. /\ IsFiniteSet(A) /\ Cardinality(A) \in Nat
      /\ Cardinality(A) <= Cardinality(Place)
  BY <1>6, <1>7, FS_Injection, FS_CardinalityType, Zenon
<1>9. ASSUME NEW s \in Shard, Cardinality(Cached(s)) # PER_SHARD_MAX
      PROVE  Cardinality(A) < Cardinality(Place)
  <2> DEFINE p == <<s, PER_SHARD_MAX>>
  <2>1. p \in Place /\ p[1] = s /\ p[2] = PER_SHARD_MAX
    BY CacheAssumption DEF Place
  <2>2. ASSUME NEW a \in A PROVE place[a] # p
    <3>1. PER_SHARD_MAX \notin 1 .. Cardinality(Cached(s))
      BY <1>3, <1>9
    <3> QED  BY <1>4, <2>1, <3>1, Zenon
  <2> HIDE DEF p
  <2>3. place \notin Surjection(A, Place)
    BY <2>1, <2>2, Zenon DEF Surjection
  <2>4. Cardinality(A) # Cardinality(Place)
    BY <1>6, <1>7, <2>3, FS_Injection, Zenon
  <2> QED  BY <1>6, <1>8, <2>4
<1>10. ~Full => Cardinality(A) < Cardinality(Place)
  BY <1>9, Zenon DEF Full
<1> QED  BY <1>6, <1>8, <1>10, Zenon

(* The others are at most one per thread, and fewer if a thread holds      *)
(* none: a thread that copies is not in a Drop.                            *)
LEMMA ExtraCount ==
  ASSUME IInv, host = "up", NEW E, E = {a \in Mapped : ~InCache(a)}
  PROVE  /\ IsFiniteSet(E) /\ Cardinality(E) \in Nat
         /\ Cardinality(Thread) \in Nat
         /\ Cardinality(E) <= Cardinality(Thread)
         /\ (\E t \in Thread : HoldsNoExtra(t)) =>
              Cardinality(E) < Cardinality(Thread)
<1> DEFINE Holds(t, a) == arc[t] = a \/ dying[t] = a
           holder == [a \in E |-> CHOOSE t \in Thread : Holds(t, a)]
<1>1. ASSUME NEW a \in E
      PROVE  /\ holder[a] \in Thread /\ Holds(holder[a], a)
             /\ a # None /\ ~InCache(a)
  <2>1. a \in Ap /\ mapping[a] # None /\ ~InCache(a) /\ a # None
    BY CacheAssumption DEF Mapped
  <2>2. \E t \in Thread : Holds(t, a)
    BY <2>1, Zenon DEF IInv, Owned, InCache
  <2> QED  BY <2>1, <2>2, Zenon
<1> HIDE DEF holder
<1>2. ASSUME NEW t \in Thread PROVE arc[t] = None \/ dying[t] = None
  BY DEF IInv, TypeOK
<1>3. ASSUME NEW a \in E, NEW b \in E, holder[a] = holder[b] PROVE a = b
  <2>1. PICK t \in Thread :
          Holds(t, a) /\ Holds(t, b) /\ a # None /\ b # None
    BY <1>1, <1>3, Zenon
  <2> QED  BY <1>2, <2>1, Zenon
<1>4. IsFiniteSet(Thread) /\ Cardinality(Thread) \in Nat
  BY CacheAssumption, FS_CardinalityType
<1>5. holder \in Injection(E, Thread)
  <2>1. holder \in [E -> Thread] /\ DOMAIN holder = E
    BY <1>1, Zenon DEF holder
  <2> QED  BY <2>1, <1>3, Zenon DEF Injection, IsInjective
<1>6. /\ IsFiniteSet(E) /\ Cardinality(E) \in Nat
      /\ Cardinality(E) <= Cardinality(Thread)
  BY <1>4, <1>5, FS_Injection, FS_CardinalityType, Zenon
<1>7. ASSUME NEW t \in Thread, HoldsNoExtra(t)
      PROVE  Cardinality(E) < Cardinality(Thread)
  <2>1. ASSUME NEW a \in E PROVE holder[a] # t
    BY <1>1, <1>7, Zenon DEF HoldsNoExtra
  <2>2. holder \notin Surjection(E, Thread)
    BY <2>1, Zenon DEF Surjection
  <2>3. Cardinality(E) # Cardinality(Thread)
    BY <1>4, <1>5, <2>2, FS_Injection, Zenon
  <2> QED  BY <1>4, <1>6, <2>3
<1> QED  BY <1>4, <1>6, <1>7, Zenon

(* with_mapping and get_or_create: for any cap, and any number of threads  *)
(* and shards, the mappings alive are fewer than a full cache and one for  *)
(* every thread.                                                           *)
THEOREM MappingsAreBounded == Spec => []MappedBound
<1>1. IInv /\ Room /\ Slack => MappedBound
  <2> SUFFICES ASSUME IInv, Room, Slack, host = "up"
               PROVE  Cardinality(Mapped)
                        < PER_SHARD_MAX * Cardinality(Shard)
                            + Cardinality(Thread)
    BY Zenon DEF MappedBound
  <2> DEFINE A == {a \in Ap : InCache(a)}
             E == {a \in Mapped : ~InCache(a)}
             p == PER_SHARD_MAX * Cardinality(Shard)
             n == Cardinality(Thread)
  <2>1. /\ IsFiniteSet(A) /\ Cardinality(A) \in Nat /\ Cardinality(A) <= p
        /\ ~Full => Cardinality(A) < p
    BY CachedCount, Zenon
  <2>2. /\ IsFiniteSet(E) /\ Cardinality(E) \in Nat /\ n \in Nat
        /\ Cardinality(E) <= n
        /\ Full => Cardinality(E) < n
    BY ExtraCount, Zenon DEF Slack
  <2>3. p \in Nat
    <3>1. Cardinality(Shard) \in Nat /\ PER_SHARD_MAX \in Nat
      BY SizeAssumption, CacheAssumption, FS_CardinalityType
    <3> QED  BY <3>1
  <2>4. Mapped \subseteq A \cup E
    BY DEF Mapped
  <2> HIDE DEF A, E, p, n
  <2>5. IsFiniteSet(A \cup E) /\ Cardinality(A \cup E) \in Nat
        /\ Cardinality(A \cup E) <= Cardinality(A) + Cardinality(E)
    <3>1. IsFiniteSet(A \cap E) /\ Cardinality(A \cap E) \in Nat
      BY <2>1, FS_Intersection, FS_CardinalityType
    <3>2. IsFiniteSet(A \cup E)
          /\ Cardinality(A \cup E)
               = Cardinality(A) + Cardinality(E) - Cardinality(A \cap E)
      BY <2>1, <2>2, FS_Union, Zenon
    <3>3. Cardinality(A \cup E) \in Nat
      BY <3>2, FS_CardinalityType, Zenon
    <3> QED  BY <2>1, <2>2, <3>1, <3>2, <3>3
  <2>6. /\ Cardinality(Mapped) \in Nat
        /\ Cardinality(Mapped) <= Cardinality(A \cup E)
    BY <2>4, <2>5, FS_Subset, FS_CardinalityType
  <2>7. Cardinality(A) < p \/ Cardinality(E) < n
    BY <2>1, <2>2, Zenon
  <2>8. Cardinality(Mapped) < p + n
    BY <2>1, <2>2, <2>3, <2>5, <2>6, <2>7
  <2> QED  BY <2>8, Zenon DEF p, n
<1>2. Spec => [](IInv /\ Room)
  BY InitRoom, NextRoom, OwnershipHolds, PTL DEF Spec
<1>3. Spec => []Slack
  BY <1>2, InitSlack, NextSlack, PTL DEF Spec
<1> QED  BY <1>1, <1>2, <1>3, PTL
=============================================================================
