------------------------- MODULE OffloadRefinement --------------------------
(***************************************************************************)
(* Every chain is in one place, and the offload queue implements           *)
(* RequestQueue, for any number of workers and chains.                     *)
(*                                                                         *)
(* Placed says where the chains are.  It goes along with the invariant of  *)
(* OffloadProofs, which knows that a stopped queue has returned; the       *)
(* refinement needs it to know which chain a step hands on.                *)
(***************************************************************************)
EXTENDS OffloadProofs

(* Where the chains are: each in at most one place, and in some place      *)
(* unless a cancelled dispatcher lost it.                                  *)
Inj(s) == \A i, j \in DOMAIN s : s[i] = s[j] => i = j

Held == {holds[w] : w \in Busy}

Sequences ==
  /\ avail \in Seq(Req) /\ Inj(avail) /\ batch \in Seq(Req) /\ Inj(batch)
  /\ jobs \in Seq(Req) /\ Inj(jobs) /\ done \in Seq(Req) /\ Inj(done)
  /\ used \in Seq(Req) /\ Inj(used)

Apart ==
  /\ \A v, w \in Busy : holds[v] = holds[w] => v = w
  /\ \A r \in free : r \notin Elems(avail)
  /\ \A r \in Elems(batch) : r \notin free \cup Elems(avail)
  /\ \A r \in Elems(jobs) : r \notin free \cup Elems(avail) \cup Elems(batch)
  /\ \A r \in Held :
       r \notin free \cup Elems(avail) \cup Elems(batch) \cup Elems(jobs)
  /\ \A r \in Elems(done) :
       r \notin free \cup Elems(avail) \cup Elems(batch) \cup Elems(jobs)
                  \cup Held
  /\ \A r \in Elems(used) :
       r \notin free \cup Elems(avail) \cup Elems(batch) \cup Elems(jobs)
                  \cup Held \cup Elems(done)

Somewhere ==
  pc # "cancelled" =>
    \A r \in Req :
      r \in free \cup Elems(avail) \cup Elems(batch) \cup Elems(jobs)
              \cup Held \cup Elems(done) \cup Elems(used)

Placed == Sequences /\ Apart /\ Somewhere

(* A chain put at the end of a sequence it is not in.                      *)
LEMMA AppendPlaces ==
  ASSUME NEW S, NEW s \in Seq(S), NEW x \in S, Inj(s), x \notin Elems(s)
  PROVE  /\ Append(s, x) \in Seq(S) /\ Inj(Append(s, x))
         /\ Elems(Append(s, x)) = Elems(s) \cup {x}
<1>1. /\ Append(s, x) \in Seq(S) /\ Len(Append(s, x)) = Len(s) + 1
      /\ Append(s, x)[Len(s) + 1] = x
      /\ \A i \in 1 .. Len(s) : Append(s, x)[i] = s[i]
      /\ Len(s) \in Nat
  OBVIOUS
<1>2. DOMAIN s = 1 .. Len(s) /\ DOMAIN Append(s, x) = 1 .. Len(s) + 1
  BY <1>1
<1>3. \A i \in 1 .. Len(s) : s[i] \in Elems(s)
  BY <1>2 DEF Elems
<1>4. Inj(Append(s, x))
  <2> SUFFICES ASSUME NEW i \in 1 .. Len(s) + 1, NEW j \in 1 .. Len(s) + 1,
                      Append(s, x)[i] = Append(s, x)[j]
               PROVE  i = j
    BY <1>2 DEF Inj
  <2>1. CASE i \in 1 .. Len(s) /\ j \in 1 .. Len(s)
    BY <1>1, <1>2, <2>1 DEF Inj
  <2>2. CASE i \in 1 .. Len(s) /\ j = Len(s) + 1
    BY <1>1, <1>3, <2>2
  <2>3. CASE j \in 1 .. Len(s) /\ i = Len(s) + 1
    BY <1>1, <1>3, <2>3
  <2> QED  BY <1>1, <2>1, <2>2, <2>3
<1>5. ASSUME NEW y PROVE y \in Elems(Append(s, x)) <=> y \in Elems(s) \cup {x}
  <2>1. y \in Elems(Append(s, x)) <=>
          \E i \in 1 .. Len(s) + 1 : y = Append(s, x)[i]
    BY <1>2 DEF Elems
  <2>2. y \in Elems(s) <=> \E i \in 1 .. Len(s) : y = s[i]
    BY <1>2 DEF Elems
  <2> QED  BY <1>1, <2>1, <2>2
<1> QED  BY <1>1, <1>4, <1>5

(* The head taken from a sequence.                                         *)
LEMMA TailPlaces ==
  ASSUME NEW S, NEW s \in Seq(S), s # <<>>, Inj(s)
  PROVE  /\ Head(s) \in Elems(s) /\ Head(s) \in S
         /\ Tail(s) \in Seq(S) /\ Inj(Tail(s))
         /\ Elems(Tail(s)) = Elems(s) \ {Head(s)}
<1>1. /\ Len(s) \in Nat \ {0} /\ Head(s) = s[1] /\ Head(s) \in S
      /\ Tail(s) \in Seq(S) /\ Len(Tail(s)) = Len(s) - 1
      /\ \A i \in 1 .. Len(s) - 1 : Tail(s)[i] = s[i + 1]
  OBVIOUS
<1>2. DOMAIN s = 1 .. Len(s) /\ DOMAIN Tail(s) = 1 .. Len(s) - 1
  BY <1>1
<1>3. Head(s) \in Elems(s)
  BY <1>1, <1>2 DEF Elems
<1>4. Inj(Tail(s))
  <2> SUFFICES ASSUME NEW i \in 1 .. Len(s) - 1, NEW j \in 1 .. Len(s) - 1,
                      Tail(s)[i] = Tail(s)[j]
               PROVE  i = j
    BY <1>2 DEF Inj
  <2>1. s[i + 1] = s[j + 1] /\ i + 1 \in 1 .. Len(s) /\ j + 1 \in 1 .. Len(s)
    BY <1>1
  <2> QED  BY <1>1, <1>2, <2>1 DEF Inj
<1>5. ASSUME NEW y PROVE y \in Elems(Tail(s)) <=> y \in Elems(s) \ {Head(s)}
  <2>1. y \in Elems(Tail(s)) <=> \E i \in 1 .. Len(s) - 1 : y = Tail(s)[i]
    BY <1>2, Zenon DEF Elems
  <2>2. y \in Elems(s) <=> \E i \in 1 .. Len(s) : y = s[i]
    BY <1>2 DEF Elems
  <2>3. ASSUME NEW i \in 1 .. Len(s) - 1, y = Tail(s)[i]
        PROVE  y \in Elems(s) /\ y # Head(s)
    <3>1. y = s[i + 1] /\ i + 1 \in 1 .. Len(s) /\ i + 1 # 1
          /\ 1 \in 1 .. Len(s)
      BY <1>1, <2>3
    <3> QED  BY <1>1, <1>2, <2>2, <3>1 DEF Inj
  <2>4. ASSUME NEW i \in 1 .. Len(s), y = s[i], y # Head(s)
        PROVE  \E j \in 1 .. Len(s) - 1 : y = Tail(s)[j]
    <3>1. i - 1 \in 1 .. Len(s) - 1 /\ (i - 1) + 1 = i
      BY <1>1, <2>4
    <3> QED  BY <1>1, <2>4, <3>1
  <2> QED  BY <2>1, <2>2, <2>3, <2>4
<1> QED  BY <1>1, <1>3, <1>4, <1>5
(* What the abstract queue sees of a step: one of its own, or nothing.     *)
Seen == Abstract!Next \/ UNCHANGED Abstract!vars

(* A step that moves one chain.                                            *)
LEMMA MovesOne ==
  ASSUME NEW r \in Req, NEW from, NEW to, Owner(r) = from, Owner(r)' = to,
         \A q \in Req \ {r} : Owner(q)' = Owner(q), Phase' = Phase
  PROVE  Abstract!Move(r, from, to)
  BY Zenon DEF Abstract!Move

(* A step that moves none.                                                 *)
LEMMA MovesNone ==
  ASSUME UNCHANGED <<free, avail, used>>
  PROVE  [r \in Req |-> Owner(r)]' = [r \in Req |-> Owner(r)]
  BY DEF Owner, Elems

(* A chain goes from the guest into the available ring ...                 *)
LEMMA Publishes ==
  ASSUME NEW r \in Req, r \in free, r \notin Elems(avail) \cup Elems(used),
         free' = free \ {r}, Elems(avail') = Elems(avail) \cup {r},
         used' = used, device' = device, Phase = "running"
  PROVE  Seen
<1>1. /\ Owner(r) = "guest" /\ Owner(r)' = "avail"
      /\ \A q \in Req \ {r} : Owner(q)' = Owner(q)
  BY DEF Owner
<1>2. Phase' = Phase
  BY DEF Phase
<1> QED  BY <1>1, <1>2, MovesOne DEF Seen, Abstract!Publish, Abstract!Next

(* ... from the used ring back to the guest ...                            *)
LEMMA Reaps ==
  ASSUME NEW r \in Req, r \in Elems(used), r \notin free \cup Elems(avail),
         free' = free \cup {r}, Elems(used') = Elems(used) \ {r},
         avail' = avail, device' = device
  PROVE  Seen
<1>1. /\ Owner(r) = "used" /\ Owner(r)' = "guest"
      /\ \A q \in Req \ {r} : Owner(q)' = Owner(q)
  BY DEF Owner
<1>2. Phase' = Phase
  BY DEF Phase
<1> QED  BY <1>1, <1>2, MovesOne DEF Seen, Abstract!Reap, Abstract!Next

(* ... from the available ring into the device ...                         *)
LEMMA Takes ==
  ASSUME NEW r \in Req, r \in Elems(avail), r \notin free \cup Elems(used),
         Elems(avail') = Elems(avail) \ {r}, UNCHANGED <<free, used, device>>,
         device # "stopped"
  PROVE  Seen
<1>1. /\ Owner(r) = "avail" /\ Owner(r)' = "device"
      /\ \A q \in Req \ {r} : Owner(q)' = Owner(q)
  BY DEF Owner
<1>2. Phase' = Phase /\ Phase # "stopped"
  BY DEF Phase
<1> QED  BY <1>1, <1>2, MovesOne DEF Seen, Abstract!Take, Abstract!Next

(* ... and from the device into the used ring.                             *)
LEMMA Completes ==
  ASSUME NEW r \in Req, r \notin free \cup Elems(avail) \cup Elems(used),
         Elems(used') = Elems(used) \cup {r}, UNCHANGED <<free, avail, device>>,
         device # "stopped"
  PROVE  Seen
<1>1. /\ Owner(r) = "device" /\ Owner(r)' = "used"
      /\ \A q \in Req \ {r} : Owner(q)' = Owner(q)
  BY DEF Owner
<1>2. Phase' = Phase /\ Phase # "stopped"
  BY DEF Phase
<1> QED  BY <1>1, <1>2, MovesOne DEF Seen, Abstract!Complete, Abstract!Next

(* A step that moves no chain at all.                                      *)
LEMMA FramePlaces ==
  ASSUME Placed, UNCHANGED <<free, avail, batch, jobs, holds, done, used>>,
         Busy' = Busy, pc # "cancelled" \/ pc' = "cancelled"
  PROVE  Placed'
<1>1. Held' = Held
  BY DEF Held
<1>2. /\ Elems(avail)' = Elems(avail) /\ Elems(batch)' = Elems(batch)
      /\ Elems(jobs)' = Elems(jobs) /\ Elems(done)' = Elems(done)
      /\ Elems(used)' = Elems(used)
  BY DEF Elems
<1>3. Sequences'
  BY DEF Placed, Sequences, Inj
<1>4. Apart' /\ Somewhere'
  BY <1>1, <1>2 DEF Placed, Apart, Somewhere
<1> QED  BY <1>3, <1>4 DEF Placed

(* The rings and the phase stay, whatever the device does inside.          *)
LEMMA FrameSeen ==
  ASSUME UNCHANGED <<free, avail, used>>, Phase' = Phase
  PROVE  Seen
  BY MovesNone DEF Seen, Abstract!vars

(* The guest moves a chain into the available ring or out of the used one. *)
LEMMA GuestPlaces ==
  ASSUME DataOK, Placed, Guest
  PROVE  Placed' /\ Seen
<1> USE DEF Placed
<1>1. ASSUME NEW r \in Req, GuestAdd(r) PROVE Placed' /\ Seen
  <2>1. /\ r \in free /\ free' = free \ {r} /\ avail' = Append(avail, r)
        /\ UNCHANGED <<batch, jobs, holds, wpc, done, used, pc, device>>
    BY <1>1 DEF GuestAdd, poolVars, taskVars
  <2>2. r \notin Elems(avail) \cup Elems(used)
    BY <2>1 DEF Apart
  <2>3. /\ avail' \in Seq(Req) /\ Inj(avail')
        /\ Elems(avail') = Elems(avail) \cup {r}
    BY <2>1, <2>2, AppendPlaces DEF Sequences
  <2>4. Busy' = Busy /\ Held' = Held
    BY <2>1 DEF Busy, Held
  <2>5. Phase = "running"
    BY <1>1 DEF GuestAdd, Phase
  <2>6. Apart' /\ Somewhere'
    BY <2>1, <2>2, <2>3, <2>4 DEF Apart, Somewhere
  <2> QED  BY <2>1, <2>2, <2>3, <2>5, <2>6, Publishes DEF Sequences
<1>2. ASSUME GuestReap PROVE Placed' /\ Seen
  <2>1. PICK r : r = Head(used)
    OBVIOUS
  <2>2. /\ used # <<>> /\ used' = Tail(used) /\ free' = free \cup {r}
        /\ UNCHANGED <<avail, batch, jobs, holds, wpc, done, pc, device>>
    BY <1>2, <2>1 DEF GuestReap, poolVars, taskVars
  <2>3. /\ r \in Elems(used) /\ r \in Req
        /\ used' \in Seq(Req) /\ Inj(used') /\ Elems(used') = Elems(used) \ {r}
    BY <2>1, <2>2, TailPlaces DEF Sequences
  <2>4. Busy' = Busy /\ Held' = Held
    BY <2>2 DEF Busy, Held
  <2>5. r \notin free \cup Elems(avail)
    BY <2>3 DEF Apart
  <2>6. Apart' /\ Somewhere'
    BY <2>2, <2>3, <2>4 DEF Apart, Somewhere
  <2> QED  BY <2>2, <2>3, <2>5, <2>6, Reaps DEF Sequences
<1> QED  BY <1>1, <1>2 DEF Guest

(* The drain takes a chain from the ring into the batch.                   *)
LEMMA PopPlaces ==
  ASSUME DataOK, Counting, Placed, DrainPop
  PROVE  Placed' /\ Seen
<1> USE DEF Placed
<1>1. PICK r : r = Head(avail)
  OBVIOUS
<1>2. /\ avail # <<>> /\ avail' = Tail(avail) /\ batch' = Append(batch, r)
      /\ UNCHANGED <<free, jobs, holds, wpc, done, used, pc, device>>
      /\ device # "stopped"
  BY <1>1 DEF DrainPop, poolVars, Counting
<1>3. /\ r \in Elems(avail) /\ r \in Req
      /\ avail' \in Seq(Req) /\ Inj(avail')
      /\ Elems(avail') = Elems(avail) \ {r}
  BY <1>1, <1>2, TailPlaces DEF Sequences
<1>4. r \notin free \cup Elems(batch) \cup Elems(used)
  BY <1>3 DEF Apart
<1>5. /\ batch' \in Seq(Req) /\ Inj(batch')
      /\ Elems(batch') = Elems(batch) \cup {r}
  BY <1>2, <1>3, <1>4, AppendPlaces DEF Sequences
<1>6. Busy' = Busy /\ Held' = Held
  BY <1>2 DEF Busy, Held
<1>7. Apart' /\ Somewhere'
  BY <1>2, <1>3, <1>5, <1>6 DEF Apart, Somewhere
<1> QED  BY <1>2, <1>3, <1>4, <1>5, <1>7, Takes DEF Sequences

(* The batch is served on the task ...                                     *)
LEMMA InlinePlaces ==
  ASSUME DataOK, Counting, Placed, InlineComplete
  PROVE  Placed' /\ Seen
<1> USE DEF Placed
<1>1. PICK r : r = Head(batch)
  OBVIOUS
<1>2. /\ used' = Append(used, r) /\ batch' = <<>>
      /\ UNCHANGED <<free, avail, jobs, holds, wpc, done, device>>
      /\ pc # "cancelled" /\ device # "stopped"
  BY <1>1 DEF InlineComplete, poolVars, Counting
<1>3. Len(batch) = 1 /\ batch # <<>>
  <2>1. Len(batch) = 1
    BY DEF InlineComplete, Counting
  <2>2. batch # <<>>
    BY <2>1
  <2> QED  BY <2>1, <2>2
<1>4. /\ r \in Elems(batch) /\ r \in Req
      /\ Elems(Tail(batch)) = Elems(batch) \ {r} /\ Tail(batch) \in Seq(Req)
  BY <1>1, <1>3, TailPlaces DEF Sequences
<1>5. Len(Tail(batch)) = 0
  BY <1>3 DEF Sequences
<1>6. Elems(batch) \ {r} = {} /\ Inj(batch') /\ Elems(batch') = {}
  <2>1. Tail(batch) = <<>>
    BY <1>4, <1>5, EmptySeq, Zenon
  <2>2. Inj(<<>>) /\ Elems(<<>>) = {}
    BY DEF Elems, Inj
  <2> QED  BY <1>2, <1>4, <2>1, <2>2, Zenon
<1>7. r \notin free \cup Elems(avail) \cup Elems(used)
  BY <1>4 DEF Apart
<1>8. /\ used' \in Seq(Req) /\ Inj(used') /\ Elems(used') = Elems(used) \cup {r}
  BY <1>2, <1>4, <1>7, AppendPlaces DEF Sequences
<1>9. Busy' = Busy /\ Held' = Held
  BY <1>2 DEF Busy, Held
<1>10. Apart' /\ Somewhere'
  BY <1>2, <1>4, <1>6, <1>8, <1>9 DEF Apart, Somewhere
<1>11. batch' \in Seq(Req)
  BY <1>2
<1> QED  BY <1>2, <1>4, <1>6, <1>7, <1>8, <1>10, <1>11, Completes DEF Sequences

(* ... or queued in the pool.                                              *)
LEMMA FanOutPlaces ==
  ASSUME DataOK, Placed, FanOut
  PROVE  Placed' /\ Seen
<1> USE DEF Placed
<1>1. PICK r : r = Head(batch)
  OBVIOUS
<1>2. /\ batch # <<>> /\ batch' = Tail(batch) /\ jobs' = Append(jobs, r)
      /\ UNCHANGED <<free, avail, holds, wpc, done, used, device>>
      /\ pc # "cancelled"
  BY <1>1 DEF FanOut, Push, guestVars
<1>3. /\ r \in Elems(batch) /\ r \in Req
      /\ batch' \in Seq(Req) /\ Inj(batch')
      /\ Elems(batch') = Elems(batch) \ {r}
  BY <1>1, <1>2, TailPlaces DEF Sequences
<1>4. r \notin Elems(jobs)
  BY <1>3 DEF Apart
<1>5. /\ jobs' \in Seq(Req) /\ Inj(jobs')
      /\ Elems(jobs') = Elems(jobs) \cup {r}
  BY <1>2, <1>3, <1>4, AppendPlaces DEF Sequences
<1>6. Busy' = Busy /\ Held' = Held
  BY <1>2 DEF Busy, Held
<1>7. Apart' /\ Somewhere'
  BY <1>2, <1>3, <1>5, <1>6 DEF Apart, Somewhere
<1>8. Phase' = Phase
  BY <1>2 DEF Phase
<1> QED  BY <1>2, <1>3, <1>5, <1>7, <1>8, FrameSeen DEF Sequences

(* A completion goes from the channel into the used ring.                  *)
LEMMA CompletePlaces ==
  ASSUME DataOK, Counting, Placed, PollComplete
  PROVE  Placed' /\ Seen
<1> USE DEF Placed
<1>1. PICK r : r = Head(done)
  OBVIOUS
<1>2. /\ done # <<>> /\ done' = Tail(done) /\ used' = Append(used, r)
      /\ UNCHANGED <<free, avail, batch, jobs, holds, wpc, pc, device>>
      /\ device # "stopped"
  BY <1>1 DEF PollComplete, poolVars, Counting
<1>3. /\ r \in Elems(done) /\ r \in Req
      /\ done' \in Seq(Req) /\ Inj(done') /\ Elems(done') = Elems(done) \ {r}
  BY <1>1, <1>2, TailPlaces DEF Sequences
<1>4. r \notin free \cup Elems(avail) \cup Elems(used)
  BY <1>3 DEF Apart
<1>5. /\ used' \in Seq(Req) /\ Inj(used') /\ Elems(used') = Elems(used) \cup {r}
  BY <1>2, <1>3, <1>4, AppendPlaces DEF Sequences
<1>6. Busy' = Busy /\ Held' = Held
  BY <1>2 DEF Busy, Held
<1>7. Apart' /\ Somewhere'
  BY <1>2, <1>3, <1>5, <1>6 DEF Apart, Somewhere
<1> QED  BY <1>2, <1>3, <1>4, <1>5, <1>7, Completes DEF Sequences
(* The dispatcher: the steps above, and those that move no chain.          *)
LEMMA DispatcherPlaces ==
  ASSUME DataOK, Counting, Placed, Dispatcher \/ DrainError
  PROVE  Placed' /\ Seen
<1>1. CASE FanOutNotify
  <2>1. \A w \in Worker : wpc'[w] = "run" <=> wpc[w] = "run"
    BY <1>1 DEF FanOutNotify, NotifyOne, Sleepers, DataOK
  <2>2. Busy' = Busy
    BY <2>1 DEF Busy
  <2>3. /\ UNCHANGED <<free, avail, batch, jobs, holds, done, used, device>>
        /\ pc # "cancelled"
    BY <1>1 DEF FanOutNotify, NotifyOne, guestVars
  <2>4. Phase' = Phase
    BY <2>3 DEF Phase
  <2> QED  BY <2>2, <2>3, <2>4, FramePlaces, FrameSeen
<1>2. ASSUME UNCHANGED <<poolVars, free, avail, batch, done, used, device>>,
             pc # "cancelled"
      PROVE  Placed' /\ Seen
  <2>1. Busy' = Busy /\ Phase' = Phase /\ jobs' = jobs /\ holds' = holds
    BY <1>2 DEF Busy, Phase, poolVars
  <2> QED  BY <1>2, <2>1, FramePlaces, FrameSeen
<1>3. CASE FirstPoll \/ DrainEmpty \/ DrainSkip \/ DrainError
  BY <1>2, <1>3 DEF FirstPoll, DrainEmpty, DrainSkip, DrainError, guestVars
<1>4. CASE ChooseInline \/ ChoosePool \/ Return \/ BeginPoll
  BY <1>2, <1>4 DEF ChooseInline, ChoosePool, Return, BeginPoll, guestVars
<1>5. CASE PollDoneEmpty \/ PollStop \/ PollKick \/ Repoll
  BY <1>2, <1>5, Zenon DEF PollDoneEmpty, PollStop, PollKick, Repoll, guestVars
<1> QED  BY <1>1, <1>3, <1>4, <1>5, PopPlaces, InlinePlaces, FanOutPlaces,
         CompletePlaces DEF Dispatcher, Drain, Serve, Poll

(* A worker has the job it popped until it sends it back; a send to a      *)
(* channel that is gone loses it.                                          *)
LEMMA ServePlaces ==
  ASSUME DataOK, Counting, Placed, NEW w \in Worker, WorkerServe(w)
  PROVE  Placed'
<1> USE DEF Placed
<1>0. Served(w)
  BY PanicContained
<1>1. /\ holds[w] \in Req /\ w \in Busy /\ Busy' = Busy \ {w}
      /\ \A v \in Busy' : holds'[v] = holds[v]
  BY <1>0 DEF Served, DataOK, Busy
<1>2. /\ holds[w] \in Held /\ Held' = Held \ {holds[w]}
      /\ \A u, v \in Busy' : holds'[u] = holds'[v] => u = v
  BY <1>1 DEF Held, Apart
<1>3. UNCHANGED <<free, avail, batch, jobs, used, pc>>
  BY <1>0 DEF Served, guestVars, taskVars
<1>4. pc # "returned"
  BY <1>1 DEF Counting, QuiescedReturn
<1>5. CASE pc = "cancelled"
  <2>1. done' = done
    BY <1>0, <1>5 DEF Served
  <2>2. Apart' /\ Somewhere'
    BY <1>2, <1>3, <1>5, <2>1 DEF Apart, Somewhere
  <2> QED  BY <1>3, <2>1, <2>2 DEF Sequences
<1>6. CASE pc # "cancelled"
  <2>1. done' = Append(done, holds[w])
    BY <1>0, <1>4, <1>6 DEF Served
  <2>2. holds[w] \notin Elems(done)
    BY <1>2 DEF Apart
  <2>3. /\ done' \in Seq(Req) /\ Inj(done')
        /\ Elems(done') = Elems(done) \cup {holds[w]}
    BY <1>1, <2>1, <2>2, AppendPlaces DEF Sequences
  <2>4. Apart' /\ Somewhere'
    BY <1>2, <1>3, <2>3 DEF Apart, Somewhere
  <2> QED  BY <1>3, <2>3, <2>4 DEF Sequences
<1> QED  BY <1>5, <1>6

(* It takes the job from the queue.                                        *)
LEMMA PopJobPlaces ==
  ASSUME DataOK, Placed, NEW w \in Worker, PopJob(w), WorkerLoop(w)
  PROVE  Placed'
<1> USE DEF Placed
<1>1. PICK r : r = Head(jobs)
  OBVIOUS
<1>2. /\ jobs # <<>> /\ jobs' = Tail(jobs)
      /\ UNCHANGED <<free, avail, batch, done, used, pc>>
  BY DEF PopJob, WorkerLoop, guestVars, taskVars
<1>3. /\ r \in Elems(jobs) /\ r \in Req
      /\ jobs' \in Seq(Req) /\ Inj(jobs') /\ Elems(jobs') = Elems(jobs) \ {r}
  BY <1>1, <1>2, TailPlaces DEF Sequences
<1>4. /\ w \notin Busy /\ Busy' = Busy \cup {w} /\ holds'[w] = r
      /\ \A v \in Busy : holds'[v] = holds[v]
  BY <1>1 DEF PopJob, DataOK, Busy
<1>5. Held' = Held \cup {r} /\ \A v \in Busy : holds[v] # r
  BY <1>3, <1>4 DEF Held, Apart
<1>6. \A u, v \in Busy' : holds'[u] = holds'[v] => u = v
  BY <1>4, <1>5 DEF Apart
<1>7. Apart' /\ Somewhere'
  BY <1>2, <1>3, <1>5, <1>6 DEF Apart, Somewhere
<1> QED  BY <1>2, <1>3, <1>7 DEF Sequences

(* The worker threads, whose steps the abstract queue does not see.        *)
LEMMA WorkerPlaces ==
  ASSUME DataOK, Counting, Placed, NEW w \in Worker,
         WorkerServe(w) \/ WorkerLoop(w) \/ WorkerWakes(w)
  PROVE  Placed' /\ Seen
<1>1. /\ UNCHANGED <<free, avail, batch, used, pc, device>>
      /\ ~WorkerServe(w) => done' = done
  BY DEF WorkerServe, WorkerLoop, WorkerWakes, guestVars, taskVars
<1>2. Seen
  <2>1. Phase' = Phase
    BY <1>1 DEF Phase
  <2> QED  BY <1>1, <2>1, FrameSeen
<1>3. CASE /\ ExitOnShutdown(w) \/ Sleep(w) \/ SpuriousWakeup(w)
           /\ WorkerLoop(w) \/ WorkerWakes(w)
  <2>1. /\ \A v \in Worker : wpc'[v] = "run" <=> wpc[v] = "run"
        /\ jobs' = jobs /\ holds' = holds
    BY <1>3 DEF ExitOnShutdown, Sleep, SpuriousWakeup, DataOK
  <2>2. Busy' = Busy
    BY <2>1 DEF Busy
  <2>3. done' = done
    BY <1>3 DEF WorkerLoop, WorkerWakes
  <2> QED  BY <1>1, <1>2, <2>1, <2>2, <2>3, FramePlaces
<1> QED  BY <1>2, <1>3, ServePlaces, PopJobPlaces DEF WorkerLoop, WorkerWakes

(* A queue given back has no chain in the device, so a ring set up anew    *)
(* loses none.                                                             *)
LEMMA ReturnedHoldsNone ==
  ASSUME DataOK, Counting, pc = "returned"
  PROVE  /\ batch = <<>> /\ jobs = <<>> /\ done = <<>> /\ Busy = {}
         /\ Elems(batch) = {} /\ Elems(jobs) = {} /\ Elems(done) = {}
         /\ Held = {}
<1>1. batch \o jobs \o done = <<>> /\ Busy = {}
  BY DEF Counting, QuiescedReturn, Popped
<1>2. Len(batch) = 0 /\ Len(jobs) = 0 /\ Len(done) = 0
  BY <1>1 DEF DataOK
<1>3. batch = <<>> /\ jobs = <<>> /\ done = <<>>
  BY <1>2, EmptySeq DEF DataOK
<1> QED  BY <1>1, <1>3 DEF Elems, Held
(* The device operations: a stop hands back a queue of which the device    *)
(* has no chain.                                                           *)
LEMMA DevicePlaces ==
  ASSUME DataOK, Counting, Placed,
         \/ StopQueue \/ StopDone \/ StartQueue \/ DropDevice \/ CancelTask
         \/ PoolDrop
  PROVE  Placed' /\ Seen
<1>1. CASE StopQueue \/ StopDone \/ DropDevice
  <2>1. UNCHANGED <<free, avail, batch, jobs, holds, wpc, done, used, pc>>
    BY <1>1 DEF StopQueue, StopDone, DropDevice, poolVars, guestVars, taskVars
  <2>2. Busy' = Busy
    BY <2>1 DEF Busy
  <2>3. Seen
    <3>1. CASE StopQueue
      BY <2>1, <3>1, FrameSeen DEF StopQueue, Phase
    <3>2. CASE DropDevice
      <4>1. Phase # "dropped" /\ Phase' = "dropped"
        BY <3>2 DEF DropDevice, Phase
      <4> QED  BY <2>1, <4>1, MovesNone
               DEF Seen, Abstract!DropQueue, Abstract!Next
    <3>3. CASE StopDone
      <4>1. Phase = "running" /\ Phase' = "stopped" /\ pc = "returned"
        BY <3>3 DEF StopDone, Phase
      <4>2. \A r \in Req : r \in free \cup Elems(avail) \cup Elems(used)
        BY <4>1, ReturnedHoldsNone DEF Placed, Somewhere
      <4>3. \A r \in Req : Owner(r) # "device"
        BY <4>2 DEF Owner
      <4> QED  BY <2>1, <4>1, <4>3, MovesNone
               DEF Seen, Abstract!HandBack, Abstract!Next
    <3> QED  BY <1>1, <3>1, <3>2, <3>3
  <2> QED  BY <2>1, <2>2, <2>3, FramePlaces
<1>2. CASE StartQueue
  <2>1. pc = "returned"
    BY <1>2 DEF StartQueue, Counting
  <2>2. /\ batch = <<>> /\ jobs = <<>> /\ done = <<>> /\ Busy = {}
        /\ Elems(batch) = {} /\ Elems(jobs) = {} /\ Elems(done) = {}
        /\ Held = {}
    BY <2>1, ReturnedHoldsNone
  <2>3. UNCHANGED <<batch, jobs, holds, wpc, done>>
    BY <1>2, <2>2 DEF StartQueue, poolVars
  <2>4. Busy' = Busy /\ Held' = Held
    BY <2>3 DEF Busy, Held
  <2>5. Phase = "stopped" /\ Phase' = "running"
    BY <1>2 DEF StartQueue, Phase
  <2>6. CASE UNCHANGED <<free, avail, used>>
    <3>1. Seen
      BY <2>5, <2>6, MovesNone DEF Seen, Abstract!Restart, Abstract!Next
    <3> QED  BY <2>1, <2>3, <2>4, <2>6, <3>1, FramePlaces
  <2>7. CASE free' = Req /\ avail' = <<>> /\ used' = <<>>
    <3>1. /\ Elems(avail') = {} /\ Elems(used') = {}
          /\ Inj(avail') /\ Inj(used')
      BY <2>7 DEF Elems, Inj
    <3>2. avail' \in Seq(Req) /\ used' \in Seq(Req)
      BY <2>7
    <3>3. Sequences'
      BY <2>3, <3>1, <3>2 DEF Placed, Sequences
    <3>4. Apart' /\ Somewhere'
      BY <2>2, <2>3, <2>4, <2>7, <3>1 DEF Apart, Somewhere
    <3>5. \A r \in Req : Owner(r)' = "guest"
      BY <2>7, <3>1 DEF Owner
    <3>6. Seen
      BY <2>5, <3>5 DEF Seen, Abstract!Restart, Abstract!Next
    <3> QED  BY <3>3, <3>4, <3>6 DEF Placed
  <2> QED  BY <1>2, <2>6, <2>7 DEF StartQueue
<1>3. CASE CancelTask
  <2>1. /\ UNCHANGED <<free, avail, batch, jobs, holds, wpc, used, device>>
        /\ pc' = "cancelled" /\ done' = <<>>
    BY <1>3 DEF CancelTask, poolVars, guestVars
  <2>2. Busy' = Busy /\ Held' = Held /\ Phase' = Phase
    BY <2>1 DEF Busy, Held, Phase
  <2>3. Inj(done') /\ Elems(done') = {}
    BY <2>1 DEF Inj, Elems
  <2>4. Sequences'
    BY <2>1, <2>3 DEF Placed, Sequences
  <2>5. Apart' /\ Somewhere'
    BY <2>1, <2>2, <2>3, SMTT(30) DEF Placed, Apart, Somewhere
  <2> QED  BY <2>1, <2>2, <2>4, <2>5, FrameSeen DEF Placed
<1>4. CASE PoolDrop
  <2>1. /\ \A w \in Worker : wpc'[w] = "run" <=> wpc[w] = "run"
        /\ jobs' = jobs /\ holds' = holds
    BY <1>4, SMTT(30) DEF PoolDrop, PoolShutdown, PoolNotifyAll, PoolJoin, SetShutdown,
       NotifyAll, Sleepers, DataOK, poolVars
  <2>2. Busy' = Busy
    BY <2>1 DEF Busy
  <2>3. UNCHANGED <<free, avail, batch, done, used, pc>> /\ Phase' = Phase
    BY <1>4 DEF PoolDrop, PoolShutdown, PoolNotifyAll, PoolJoin, guestVars,
       taskVars, Phase
  <2> QED  BY <2>1, <2>2, <2>3, FramePlaces, FrameSeen
<1> QED  BY <1>1, <1>2, <1>3, <1>4

(* Every step keeps the places, and is seen as one of the abstract queue.  *)
LEMMA StepPlaces ==
  ASSUME DataOK, Counting, Placed, [Next]_vars
  PROVE  Placed' /\ Seen
<1>1. CASE Guest
  BY <1>1, GuestPlaces
<1>2. CASE Dispatcher \/ DrainError
  BY <1>2, DispatcherPlaces
<1>3. ASSUME NEW w \in Worker,
             WorkerServe(w) \/ WorkerLoop(w) \/ WorkerWakes(w)
      PROVE  Placed' /\ Seen
  BY <1>3, WorkerPlaces
<1>4. CASE \/ StopQueue \/ StopDone \/ StartQueue \/ DropDevice
           \/ CancelTask \/ PoolDrop
  BY <1>4, DevicePlaces
<1>5. CASE Gone \/ UNCHANGED vars
  <2>1. /\ UNCHANGED <<free, avail, batch, jobs, holds, wpc, done, used, pc>>
        /\ device' = device
    BY <1>5 DEF Gone, vars, poolVars, guestVars, taskVars
  <2>2. Busy' = Busy /\ Phase' = Phase
    BY <2>1 DEF Busy, Phase
  <2> QED  BY <2>1, <2>2, FramePlaces, FrameSeen
<1> QED  BY <1>1, <1>2, <1>3, <1>4, <1>5 DEF Next

(* The places, over every step.                                            *)
THEOREM PlacesHold == Spec => []Placed
<1>1. Init => Placed
  <2> SUFFICES ASSUME Init PROVE Placed
    OBVIOUS
  <2>1. Busy = {} /\ Held = {}
    BY DEF Init, PoolInit, Busy, Held
  <2>2. /\ Elems(avail) = {} /\ Elems(batch) = {} /\ Elems(jobs) = {}
        /\ Elems(done) = {} /\ Elems(used) = {}
    BY DEF Init, PoolInit, Elems
  <2>3. Inj(avail) /\ Inj(batch) /\ Inj(jobs) /\ Inj(done) /\ Inj(used)
    BY DEF Init, PoolInit, Inj
  <2>4. Sequences
    BY <2>3 DEF Init, PoolInit, Sequences
  <2> QED  BY <2>1, <2>2, <2>4 DEF Init, Placed, Apart, Somewhere
<1>2. DataOK /\ Counting /\ Placed /\ [Next]_vars => Placed'
  BY StepPlaces
<1> QED  BY CountingHolds, <1>1, <1>2, PTL DEF Spec

(* How often a chain occurs in a sequence without repetitions.             *)
LEMMA Occurrences ==
  ASSUME NEW s, Inj(s), NEW r
  PROVE  Cardinality({i \in DOMAIN s : s[i] = r})
           = IF r \in Elems(s) THEN 1 ELSE 0
<1>1. CASE r \in Elems(s)
  <2>1. PICK k \in DOMAIN s : s[k] = r
    BY <1>1 DEF Elems
  <2>2. {i \in DOMAIN s : s[i] = r} = {k}
    BY <2>1 DEF Inj
  <2> QED  BY <1>1, <2>2, FS_Singleton, Zenon
<1>2. CASE r \notin Elems(s)
  <2>1. {i \in DOMAIN s : s[i] = r} = {}
    BY <1>2 DEF Elems
  <2> QED  BY <1>2, <2>1, FS_EmptySet
<1> QED  BY <1>1, <1>2

(* How many workers hold a chain.                                          *)
LEMMA Holders ==
  ASSUME DataOK, Placed, NEW r \in Req
  PROVE  Cardinality({w \in Worker : holds[w] = r})
           = IF r \in Held THEN 1 ELSE 0
<1>1. \A w \in Worker : holds[w] = r => w \in Busy
  BY PoolAssumption, ReqAssumption DEF DataOK, Busy
<1>2. CASE r \in Held
  <2>1. PICK v \in Busy : holds[v] = r
    BY <1>2 DEF Held
  <2>2. {w \in Worker : holds[w] = r} = {v}
    BY <1>1, <2>1 DEF Placed, Apart, Busy
  <2> QED  BY <1>2, <2>2, FS_Singleton
<1>3. CASE r \notin Held
  <2>1. {w \in Worker : holds[w] = r} = {}
    BY <1>1, <1>3 DEF Held
  <2> QED  BY <1>3, <2>1, FS_EmptySet
<1> QED  BY <1>2, <1>3

(* A chain is in one place at a time, for any number of workers and        *)
(* chains: none is served or completed twice, and none is lost but by the  *)
(* cancellation of the dispatcher.                                         *)
THEOREM ChainsOwnedOnce == Spec => []OwnedOnce
<1>1. DataOK /\ Placed => OwnedOnce
  <2> SUFFICES ASSUME DataOK, Placed PROVE OwnedOnce
    OBVIOUS
  <2> DEFINE in(s, r) == Cardinality({i \in DOMAIN s : s[i] = r})
             is(b) == IF b THEN 1 ELSE 0
  <2> SUFFICES ASSUME NEW r \in Req
               PROVE  LET n == is(r \in free) + in(avail, r) + in(batch, r)
                               + in(jobs, r) + in(done, r) + in(used, r)
                               + Cardinality({w \in Worker : holds[w] = r})
                      IN  n = 1 \/ (n = 0 /\ pc = "cancelled")
    BY Zenon DEF OwnedOnce
  <2>1. /\ in(avail, r) = is(r \in Elems(avail))
        /\ in(batch, r) = is(r \in Elems(batch))
        /\ in(jobs, r) = is(r \in Elems(jobs))
        /\ in(done, r) = is(r \in Elems(done))
        /\ in(used, r) = is(r \in Elems(used))
    BY Occurrences DEF Placed, Sequences
  <2>2. Cardinality({w \in Worker : holds[w] = r}) = is(r \in Held)
    BY Holders
  <2> HIDE DEF in
  <2> QED  BY <2>1, <2>2 DEF Placed, Apart, Somewhere
<1> QED  BY CountingHolds, PlacesHold, <1>1, PTL
(* The dispatcher with its pool implements the request queue, for any      *)
(* number of workers and chains: chains go from the guest to the device    *)
(* and back one at a time and in this order, none moves while the queue is *)
(* stopped, and a stop finds none with the device.                         *)
THEOREM OffloadImplements == Spec => ImplementsRequestQueue
<1>1. Init => Abstract!Init
  <2> SUFFICES ASSUME Init PROVE Abstract!Init
    OBVIOUS
  <2>0. Elems(avail) = {} /\ Elems(used) = {}
    BY DEF Init, Elems
  <2>1. \A r \in Req : Owner(r) = "guest"
    BY <2>0 DEF Init, Owner
  <2>2. Phase = "running"
    BY DEF Init, Phase
  <2> QED  BY <2>1, <2>2 DEF Abstract!Init
<1>2. DataOK /\ Counting /\ Placed /\ [Next]_vars
        => [Abstract!Next]_(Abstract!vars)
  BY StepPlaces DEF Seen
<1> QED  BY CountingHolds, PlacesHold, <1>1, <1>2, PTL
         DEF Spec, ImplementsRequestQueue, Abstract!Spec
=============================================================================
