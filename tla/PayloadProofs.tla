--------------------------- MODULE PayloadProofs ----------------------------
(***************************************************************************)
(* Proofs about a request and its reply in a descriptor chain, for chains  *)
(* of any length, buffers of any lengths, and reads and replies of any     *)
(* size.                                                                   *)
(*                                                                         *)
(* The walk of PayloadReader and PayloadWriter is related to the byte      *)
(* string it stands for by where each buffer begins in that string         *)
(* (Starts): a place in the chain is then an offset in the string          *)
(* (Offset).  Reading says that the reference cursor is the offset of the  *)
(* reader, and that what a call has returned so far is the string from     *)
(* where the call began.  Writing says that the bytes before the writer    *)
(* are the beginning of the reply, that those behind it are untouched, and *)
(* that the slices left are the rest of the reply.                         *)
(*                                                                         *)
(* Starts and Flatten are recursive over the buffers.  What they compute   *)
(* is proved by induction on the number of buffers, stated as membership   *)
(* in a set of numbers (Induct).                                           *)
(***************************************************************************)
EXTENDS Payload, Integers, WellFoundedInduction, TLAPS

-----------------------------------------------------------------------------
(* What a sequence is: its length, its elements, none of them, the first,  *)
(* the rest, one of them replaced.                                         *)
LEMMA SeqShape ==
  ASSUME NEW S, NEW s \in Seq(S)
  PROVE  /\ Len(s) \in Nat /\ DOMAIN s = 1 .. Len(s)
         /\ s \in [1 .. Len(s) -> S]
  OBVIOUS

(* An element is in the set.                                               *)
LEMMA SeqElement ==
  ASSUME NEW S, NEW s \in Seq(S), NEW n \in 1 .. Len(s)
  PROVE  s[n] \in S
  OBVIOUS

(* The empty sequence.                                                     *)
LEMMA SeqNone ==
  ASSUME NEW S
  PROVE  /\ <<>> \in Seq(S) /\ Len(<<>>) = 0
         /\ \A s \in Seq(S) : s # <<>> => Len(s) \in Nat \ {0}
         /\ \A s \in Seq(S) : <<>> \o s = s
  OBVIOUS

(* All but the first element.                                              *)
LEMMA SeqTail ==
  ASSUME NEW S, NEW s \in Seq(S), s # <<>>
  PROVE  /\ Tail(s) \in Seq(S) /\ Len(Tail(s)) = Len(s) - 1
         /\ \A i \in 1 .. Len(Tail(s)) : Tail(s)[i] = s[i + 1]
  OBVIOUS

-----------------------------------------------------------------------------
(* The least-number principle, from the well-foundedness of < on Nat.      *)
LEMMA NatLeast ==
  ASSUME NEW S \in SUBSET Nat, S # {}
  PROVE \E m \in S : \A n \in S : m <= n
<1> DEFINE L == {p \in Nat \X Nat : p[1] < p[2]}
<1>1. IsWellFoundedOn(L, Nat)
  BY NatLessThanWellFounded, Zenon DEF OpToRel
<1>2. \E m \in S : \A n \in S : <<n, m>> \notin L
  BY <1>1, WFMin, Zenon
<1>3. \A m, n \in Nat : <<n, m>> \notin L => m <= n
  <2> SUFFICES ASSUME NEW m \in Nat, NEW n \in Nat, <<n, m>> \notin L
               PROVE  m <= n
    BY Zenon
  <2>1. ~(n < m)
    BY Zenon
  <2> QED BY <2>1
<1> QED BY <1>2, <1>3, Zenon

(* Induction over a set of numbers, as the absence of a least one outside. *)
LEMMA Induct ==
  ASSUME NEW S, 0 \in S, \A n \in Nat : n \in S => n + 1 \in S
  PROVE Nat \subseteq S
<1> SUFFICES ASSUME Nat \ S # {} PROVE FALSE
  OBVIOUS
<1>1. PICK m \in Nat \ S : \A n \in Nat \ S : m <= n
  BY NatLeast, Zenon
<1>2. m - 1 \in Nat /\ m - 1 \in S
  BY <1>1
<1> QED BY <1>1, <1>2

(* Flatten is defined by recursion over the parts; the recursion has a  *)
(* solution for sequences of every length.                                 *)
LEMMA FlattenFcn ==
  ASSUME NEW n \in Nat, NEW s
  PROVE \E f : f = [i \in 1..n |-> IF i = 1 THEN s[i] ELSE f[i-1] \o s[i]]
<1> DEFINE Def(f, m) == [i \in 1..m |-> IF i = 1 THEN s[i] ELSE f[i-1] \o s[i]]
           OK == {m \in Nat : \E f : f = Def(f, m)}
<1>1. 0 \in OK
  <2> DEFINE e == [i \in {} |-> s]
  <2>1. 1..0 = {}
    OBVIOUS
  <2>2. e = Def(e, 0)
    BY <2>1, Zenon
  <2> QED BY <2>2, Zenon
<1>2. ASSUME NEW m \in Nat, m \in OK PROVE m + 1 \in OK
  <2>1. PICK f : f = Def(f, m)
    BY <1>2, Zenon
  <2> DEFINE g == [i \in 1..m+1 |-> IF i = 1 THEN s[i] ELSE f[i-1] \o s[i]]
  <2>2. ASSUME NEW i \in 1 .. m PROVE g[i] = f[i]
    <3>1. i \in 1 .. m + 1
      OBVIOUS
    <3>2. f[i] = IF i = 1 THEN s[i] ELSE f[i-1] \o s[i]
      BY <2>1, Zenon
    <3> QED BY <3>1, <3>2, Zenon
  <2>3. g = Def(g, m + 1)
    <3>1. ASSUME NEW i \in 1..m+1, i # 1 PROVE g[i-1] = f[i-1]
      <4>1. i - 1 \in 1 .. m
        BY <3>1
      <4> QED BY <4>1, <2>2, Zenon
    <3>2. ASSUME NEW i \in 1..m+1
          PROVE  g[i] = IF i = 1 THEN s[i] ELSE g[i-1] \o s[i]
      BY <3>1, Zenon
    <3> QED BY <3>2, Zenon
  <2>4. m + 1 \in Nat
    OBVIOUS
  <2> QED BY <2>3, <2>4, Zenon
<1> HIDE DEF OK
<1>3. n \in OK
  BY <1>1, <1>2, Induct
<1> QED BY <1>3, Zenon DEF OK

(* Flatten is the last value of that solution.                          *)
LEMMA FlattenStep ==
  ASSUME NEW n \in Nat \ {0}, NEW s, Len(s) = n
  PROVE \E f : f = [i \in 1..n |-> IF i = 1 THEN s[i] ELSE f[i-1] \o s[i]]
        /\ Flatten(s) = f[n]
<1> DEFINE F == CHOOSE f :
                  f = [i \in 1..n |-> IF i = 1 THEN s[i] ELSE f[i-1] \o s[i]]
<1>1. s # <<>>
  <2>1. Len(<<>>) = 0
    OBVIOUS
  <2> QED  BY <2>1, Zenon
<1>2. Flatten(s) = F[n]
  BY <1>1, Zenon DEF Flatten
<1>3. F = [i \in 1..n |-> IF i = 1 THEN s[i] ELSE F[i-1] \o s[i]]
  BY FlattenFcn, Zenon
<1> QED BY <1>2, <1>3, Zenon
-----------------------------------------------------------------------------
(* Where the parts of a sequence begin, laid end to end: part k has length *)
(* lens[k].                                                                *)
Laid(st, n, lens) ==
  /\ st \in [1 .. n + 1 -> Nat] /\ st[1] = 0
  /\ \A k \in 1 .. n : st[k + 1] = st[k] + lens[k]

StartsOf(n, lens) == CHOOSE st : Laid(st, n, lens)

(* u begins with the n elements of s after the first o; u is them.         *)
Agrees(u, s, o, n) == \A i \in 1 .. n : u[i] = s[o + i]
Cut(u, s, o, n) == Len(u) = n /\ Agrees(u, s, o, n)

(* The lengths of the buffers of one kind, and where each begins among the *)
(* bytes of that kind.                                                     *)
Lens(w) ==
  [k \in 1 .. Len(chain) |->
     IF chain[k].writeable = w THEN Len(chain[k].data) ELSE 0]

Starts(w) == StartsOf(Len(chain), Lens(w))

(* A place in the chain, and how many bytes of its kind lie before it.     *)
Offset(p, w) == Starts(w)[p.at] + p.offset

(* A reader or writer is on a buffer of its kind, within its bounds, or    *)
(* behind the chain.                                                       *)
Placed(p, w) ==
  /\ p \in [at : 1 .. Len(chain) + 1, offset : Nat]
  /\ \/ p.at = Len(chain) + 1 /\ p.offset = 0
     \/ /\ p.at \in 1 .. Len(chain) /\ chain[p.at].writeable = w
        /\ p.offset <= Len(chain[p.at].data)

(* The buffers: what is to be read are bytes, and whether a buffer is      *)
(* empty is as the driver posted it.                                       *)
Chained ==
  /\ chain \in Seq([writeable : BOOLEAN, data : Seq(Byte \cup {Stale})])
  /\ Len(chain) <= MaxBuffers
  /\ \A k \in 1 .. Len(chain) :
       /\ Len(chain[k].data) \in BufferLen
       /\ ~chain[k].writeable => chain[k].data \in Seq(Byte)

(* No byte that read_until is asked for.                                   *)
NulFree(u) == \A i \in 1 .. Len(u) : u[i] # Nul

(* The reader: the reference cursor is where it stands, and what a call    *)
(* has returned so far is the request from where the call began.           *)
Reading ==
  /\ Placed(reader, FALSE) /\ cursor = Offset(reader, FALSE)
  /\ position \in Nat /\ from \in Nat /\ got \in Seq(Byte)
  /\ from + Len(got) <= cursor
  /\ \A i \in 1 .. Len(got) : got[i] = Request[from + i]
  /\ call = "until" =>
       /\ result = "none" /\ cursor = from + Len(got)
       /\ NulFree(got)
  /\ result = "until" =>
       /\ cursor = from + Len(got) + 1 /\ Request[cursor] = Nul
       /\ NulFree(got)
  /\ 0 \notin BufferLen =>
       ((result = "read" /\ got = <<>>) \/ result = "einval" => AtEnd(reader))

(* The writer: the bytes before it are the beginning of the reply, those   *)
(* behind it are as they were, and the slices are the rest of the reply.   *)
Writing ==
  /\ Placed(writer, TRUE)
  /\ slices \in Seq(Seq(Byte)) /\ Len(slices) <= 2 /\ reply \in Seq(Byte)
  /\ Offset(writer, TRUE) <= Len(reply)
  /\ Cut(Flatten(slices), reply, Offset(writer, TRUE),
         Len(reply) - Offset(writer, TRUE))
  /\ \A k \in 1 .. Offset(writer, TRUE) : Joined(TRUE)[k] = reply[k]
  /\ \A k \in Offset(writer, TRUE) + 1 .. Len(Joined(TRUE)) :
       Joined(TRUE)[k] = Stale
  /\ call # "send" /\ sent = "no" => Offset(writer, TRUE) = 0
  /\ call # "none" => sent = "no"
  /\ sent = "ok" => slices = <<>> /\ bytes_written = Len(reply)
  /\ sent # "ok" => bytes_written = 0
  /\ sent = "error" =>
       /\ slices # <<>> /\ slices[1] # <<>>
       /\ 0 \notin BufferLen => AtEnd(writer)

PayloadInv ==
  /\ call \in {"none", "until", "send"}
  /\ result \in {"none", "read", "until", "einval", "fault"}
  /\ sent \in {"no", "ok", "error", "fault", "invalid"}
  /\ Chained /\ Reading /\ Writing
(* Parts can be laid end to end.                                           *)
LEMMA LaidExists ==
  ASSUME NEW n \in Nat, NEW lens \in [1 .. n -> Nat]
  PROVE  \E st : Laid(st, n, lens)
<1> DEFINE OK == {m \in Nat : m <= n => \E st : Laid(st, m, lens)}
<1>1. 0 \in OK
  <2>1. Laid([k \in 1 .. 1 |-> 0], 0, lens)
    BY DEF Laid
  <2> QED  BY <2>1
<1>2. ASSUME NEW m \in Nat, m \in OK PROVE m + 1 \in OK
  <2> SUFFICES ASSUME m + 1 <= n PROVE \E st : Laid(st, m + 1, lens)
    OBVIOUS
  <2>1. PICK st : Laid(st, m, lens)
    BY <1>2
  <2> DEFINE new == [k \in 1 .. m + 2 |->
                       IF k = m + 2 THEN st[m + 1] + lens[m + 1] ELSE st[k]]
  <2>2. st \in [1 .. m + 1 -> Nat] /\ lens[m + 1] \in Nat
    BY <2>1 DEF Laid
  <2>3. new \in [1 .. (m + 1) + 1 -> Nat] /\ new[1] = 0
    BY <2>1, <2>2 DEF Laid
  <2>4. ASSUME NEW k \in 1 .. m + 1 PROVE new[k + 1] = new[k] + lens[k]
    BY <2>1, <2>2 DEF Laid
  <2>5. Laid(new, m + 1, lens)
    BY <2>3, <2>4, Zenon DEF Laid
  <2> QED  BY <2>5, Zenon
<1> HIDE DEF OK
<1>3. n \in OK
  BY <1>1, <1>2, Induct, Zenon
<1> QED  BY <1>3 DEF OK

(* A part that comes later begins no earlier, and no later than that if    *)
(* there is nothing between.                                               *)
LEMMA LaidInOrder ==
  ASSUME NEW n \in Nat, NEW lens \in [1 .. n -> Nat], NEW st,
         Laid(st, n, lens), NEW j \in 1 .. n + 1, NEW k \in j .. n + 1
  PROVE  /\ st[j] <= st[k]
         /\ (\A i \in j .. k - 1 : lens[i] = 0) => st[j] = st[k]
<1> DEFINE OK == {d \in Nat : j + d <= n + 1 =>
                     /\ st[j] <= st[j + d]
                     /\ (\A i \in j .. j + d - 1 : lens[i] = 0)
                          => st[j] = st[j + d]}
<1>1. st \in [1 .. n + 1 -> Nat]
  BY DEF Laid
<1>2. 0 \in OK
  BY <1>1
<1>3. ASSUME NEW d \in Nat, d \in OK PROVE d + 1 \in OK
  <2> SUFFICES ASSUME j + (d + 1) <= n + 1
               PROVE  /\ st[j] <= st[j + (d + 1)]
                      /\ (\A i \in j .. j + (d + 1) - 1 : lens[i] = 0)
                           => st[j] = st[j + (d + 1)]
    OBVIOUS
  <2>1. /\ st[j] <= st[j + d]
        /\ (\A i \in j .. j + d - 1 : lens[i] = 0) => st[j] = st[j + d]
    BY <1>3
  <2>2. j + d \in 1 .. n /\ j + (d + 1) = (j + d) + 1
    OBVIOUS
  <2>3. st[(j + d) + 1] = st[j + d] + lens[j + d]
    BY <2>2 DEF Laid
  <2>4. st[j] \in Nat /\ st[j + d] \in Nat /\ lens[j + d] \in Nat
    BY <1>1, <2>2
  <2> QED  BY <2>1, <2>2, <2>3, <2>4
<1> HIDE DEF OK
<1>4. k - j \in Nat /\ j + (k - j) = k
  OBVIOUS
<1>5. k - j \in OK
  BY <1>2, <1>3, <1>4, Induct, Zenon
<1> QED  BY <1>4, <1>5 DEF OK

(* x is a place of one of the parts.                                       *)
InPart(x, st, n, lens) ==
  \E k \in 1 .. n : \E i \in 1 .. lens[k] : x = st[k] + i

(* Every place before the end is.                                          *)
LEMMA LaidCovers ==
  ASSUME NEW n \in Nat, NEW lens \in [1 .. n -> Nat], NEW st,
         Laid(st, n, lens), NEW x \in 1 .. st[n + 1]
  PROVE  InPart(x, st, n, lens)
<1>1. st \in [1 .. n + 1 -> Nat] /\ st[1] = 0
  BY DEF Laid
<1> DEFINE S == {k \in 1 .. n + 1 : x <= st[k]}
<1>2. S \in SUBSET Nat /\ n + 1 \in S
  BY <1>1
<1> HIDE DEF S
<1>3. PICK m \in S : \A k \in S : m <= k
  BY <1>2, NatLeast, Zenon
<1>4. m \in 1 .. n + 1 /\ x <= st[m]
  BY <1>3 DEF S
<1>5. m # 1
  BY <1>1, <1>4
<1>6. m - 1 \in 1 .. n /\ m - 1 \notin S
  BY <1>3, <1>4, <1>5
<1>7. ~(x <= st[m - 1])
  BY <1>6 DEF S
<1>8. st[m] = st[m - 1] + lens[m - 1]
  <2>1. (m - 1) + 1 = m
    BY <1>4
  <2>2. st[(m - 1) + 1] = st[m - 1] + lens[m - 1]
    BY <1>6, Zenon DEF Laid
  <2> QED  BY <2>1, <2>2
<1>9. st[m - 1] \in Nat /\ lens[m - 1] \in Nat /\ x \in Nat
  BY <1>1, <1>6
<1>10. x - st[m - 1] \in 1 .. lens[m - 1] /\ x = st[m - 1] + (x - st[m - 1])
  BY <1>4, <1>7, <1>8, <1>9
<1> QED  BY <1>6, <1>10, Zenon DEF InPart

(* What is where in u, if u is s and t joined.                             *)
Joins(u, s, t) ==
  /\ Len(u) = Len(s) + Len(t)
  /\ \A i \in 1 .. Len(s) : u[i] = s[i]
  /\ \A i \in 1 .. Len(t) : u[Len(s) + i] = t[i]

(* That is what \o does.                                                   *)
LEMMA ConcatAt ==
  ASSUME NEW A, NEW s \in Seq(A), NEW t \in Seq(A), NEW u, u = s \o t
  PROVE  u \in Seq(A) /\ Joins(u, s, t)
  BY DEF Joins

(* A place in a part that ends by c is one up to c.                        *)
LEMMA Within ==
  ASSUME NEW a \in Nat, NEW b \in Nat, NEW c \in Nat, a + b <= c,
         NEW i \in 1 .. b
  PROVE  a + i \in 1 .. c
  OBVIOUS

(* The parts are in u, each from where it begins.                          *)
Spread(u, st, parts) ==
  /\ Len(u) = st[Len(parts) + 1]
  /\ \A k \in 1 .. Len(parts) : \A i \in 1 .. Len(parts[k]) :
       u[st[k] + i] = parts[k][i]

(* Flatten lays its parts end to end.                                   *)
LEMMA FlattenLays ==
  ASSUME NEW A, NEW parts \in Seq(Seq(A)), NEW st,
         Laid(st, Len(parts), [k \in 1 .. Len(parts) |-> Len(parts[k])])
  PROVE  Flatten(parts) \in Seq(A) /\ Spread(Flatten(parts), st, parts)
<1> DEFINE n == Len(parts)
<1>1. /\ n \in Nat /\ \A k \in 1 .. n : parts[k] \in Seq(A)
      /\ \A k \in 1 .. n : Len(parts[k]) \in Nat
  OBVIOUS
<1>2. /\ st \in [1 .. n + 1 -> Nat] /\ st[1] = 0
      /\ \A k \in 1 .. n : st[k + 1] = st[k] + Len(parts[k])
  BY DEF Laid
<1>3. CASE n = 0
  <2>1. parts = << >>
    BY <1>3
  <2>2. Flatten(parts) = << >>
    BY <2>1, Zenon DEF Flatten
  <2>3. 1 .. 0 = {} /\ Len(<<>>) = 0 /\ 0 + 1 = 1
    OBVIOUS
  <2> QED  BY <1>2, <1>3, <2>1, <2>2, <2>3, SeqNone, Zenon DEF Spread
<1>4. CASE n # 0
  <2>1. PICK f : /\ f = [i \in 1 .. n |-> IF i = 1 THEN parts[i]
                                          ELSE f[i-1] \o parts[i]]
                 /\ Flatten(parts) = f[n]
    BY <1>1, <1>4, FlattenStep, Zenon
  <2> DEFINE Upto(m) ==
               /\ f[m] \in Seq(A) /\ Len(f[m]) = st[m + 1]
               /\ \A k \in 1 .. m : \A i \in 1 .. Len(parts[k]) :
                    f[m][st[k] + i] = parts[k][i]
             OK == {d \in Nat : d + 1 <= n => Upto(d + 1)}
  <2> HIDE DEF n
  <2>2. 0 \in OK
    <3>1. f[1] = parts[1]
      <4>1. 1 \in 1 .. n
        BY <1>1, <1>4
      <4> QED  BY <2>1, <4>1, Zenon
    <3>2. Upto(1)
      BY <3>1, <1>1, <1>2, <1>4
    <3> QED  BY <3>2
  <2>3. ASSUME NEW m \in Nat, m \in 1 .. n, m + 1 \in 1 .. n, Upto(m)
        PROVE  Upto(m + 1)
    <3>1. PICK q \in 1 .. n : q = m + 1 /\ q - 1 = m /\ q # 1
      BY <2>3
    <3>2. /\ f[m] \in Seq(A) /\ Len(f[m]) = st[q]
          /\ \A k \in 1 .. m : \A i \in 1 .. Len(parts[k]) :
               f[m][st[k] + i] = parts[k][i]
      BY <2>3, <3>1
    <3>3. f[q] = f[m] \o parts[q]
      BY <2>1, <3>1, Zenon
    <3>4. /\ parts[q] \in Seq(A) /\ st[q + 1] = st[q] + Len(parts[q])
          /\ st[q] \in Nat
      BY <1>1, <1>2
    <3>5. f[q] \in Seq(A) /\ Joins(f[q], f[m], parts[q])
      <4>1. f[m] \in Seq(A) /\ parts[q] \in Seq(A)
        BY <3>2, <3>4, Zenon
      <4> QED  BY <3>3, <4>1, ConcatAt, Zenon
    <3>6. ASSUME NEW k \in 1 .. q, NEW i \in 1 .. Len(parts[k])
          PROVE  f[q][st[k] + i] = parts[k][i]
      <4>1. CASE k = q
        BY <3>2, <3>5, <4>1, Zenon DEF Joins
      <4>2. CASE k # q
        <5>1. k \in 1 .. m /\ k \in 1 .. n
              /\ k + 1 \in 1 .. n + 1 /\ q \in k + 1 .. n + 1
          BY <4>2, <1>1, <3>1
        <5>2. st[k + 1] <= st[q]
          <6> DEFINE lens == [j \in 1 .. n |-> Len(parts[j])]
          <6>1. lens \in [1 .. n -> Nat] /\ Laid(st, n, lens)
            BY <1>1 DEF n
          <6> HIDE DEF lens
          <6> QED  BY <6>1, <5>1, <1>1, LaidInOrder, Zenon
        <5>3. /\ st[k] \in Nat /\ st[k + 1] = st[k] + Len(parts[k])
              /\ Len(parts[k]) \in Nat
          BY <5>1, <1>1, <1>2
        <5>4. st[k] + i \in 1 .. st[q]
          <6>1. st[k] + Len(parts[k]) <= st[q]
            BY <5>2, <5>3, Zenon
          <6> QED  BY <6>1, <5>3, <3>4, Within, Zenon
        <5> QED  BY <5>1, <5>4, <3>2, <3>5, Zenon DEF Joins
      <4> QED  BY <4>1, <4>2
    <3>7. f[q] \in Seq(A) /\ Len(f[q]) = st[q + 1]
      BY <3>2, <3>4, <3>5, Zenon DEF Joins
    <3>8. Upto(q)
      BY <3>6, <3>7, Zenon
    <3> QED  BY <3>8, <3>1, Zenon
  <2> HIDE DEF Upto
  <2>4. ASSUME NEW d \in Nat, d \in OK PROVE d + 1 \in OK
    BY <2>3, <2>4, <1>1
  <2> HIDE DEF OK
  <2>5. n - 1 \in Nat /\ (n - 1) + 1 = n
    BY <1>1, <1>4
  <2>6. n - 1 \in OK
    BY <2>2, <2>4, <2>5, Induct, Zenon
  <2>7. Upto(n)
    BY <2>5, <2>6, <1>1 DEF OK
  <2> QED  BY <2>1, <2>7, Zenon DEF n, Upto, Spread
<1> QED  BY <1>3, <1>4
-----------------------------------------------------------------------------
(* A buffer of the chain.                                                  *)
LEMMA BufferAt ==
  ASSUME Chained, NEW k \in 1 .. Len(chain)
  PROVE  /\ chain[k].writeable \in BOOLEAN
         /\ chain[k].data \in Seq(Byte \cup {Stale})
         /\ chain[k].writeable = FALSE => chain[k].data \in Seq(Byte)
         /\ Len(chain[k].data) \in BufferLen /\ Len(chain[k].data) \in Nat
<1>1. chain[k] \in [writeable : BOOLEAN, data : Seq(Byte \cup {Stale})]
  BY SeqElement, Zenon DEF Chained
<1>2. /\ chain[k].writeable \in BOOLEAN
      /\ chain[k].data \in Seq(Byte \cup {Stale})
  BY <1>1, Zenon
<1>3. /\ ~chain[k].writeable => chain[k].data \in Seq(Byte)
      /\ Len(chain[k].data) \in BufferLen
  BY Zenon DEF Chained
<1> QED  BY <1>2, <1>3, PayloadAssumption, Zenon

(* The buffers of one kind are laid end to end.                            *)
LEMMA StartsLaid ==
  ASSUME Chained, NEW w \in BOOLEAN
  PROVE  /\ Len(chain) \in Nat /\ Lens(w) \in [1 .. Len(chain) -> Nat]
         /\ Laid(Starts(w), Len(chain), Lens(w))
<1>1. /\ Len(chain) \in Nat
      /\ \A k \in 1 .. Len(chain) : Len(chain[k].data) \in Nat
  BY BufferAt DEF Chained
<1>2. Lens(w) \in [1 .. Len(chain) -> Nat]
  BY <1>1 DEF Lens
<1>3. \E st : Laid(st, Len(chain), Lens(w))
  BY <1>1, <1>2, LaidExists, Zenon
<1> QED  BY <1>1, <1>2, <1>3, Zenon DEF Starts, StartsOf

(* Joined holds the bytes of each buffer where that buffer begins.         *)
LEMMA JoinedAt ==
  ASSUME Chained, NEW w \in BOOLEAN, NEW A,
         \A k \in 1 .. Len(chain) :
           chain[k].writeable = w => chain[k].data \in Seq(A)
  PROVE  /\ Joined(w) \in Seq(A)
         /\ Len(Joined(w)) = Starts(w)[Len(chain) + 1]
         /\ \A k \in 1 .. Len(chain) : chain[k].writeable = w =>
              \A i \in 1 .. Len(chain[k].data) :
                Joined(w)[Starts(w)[k] + i] = chain[k].data[i]
<1> DEFINE parts == [k \in DOMAIN chain |->
                       IF chain[k].writeable = w THEN chain[k].data ELSE <<>>]
<1>1. DOMAIN chain = 1 .. Len(chain) /\ Len(chain) \in Nat
  BY DEF Chained
<1>2. parts \in Seq(Seq(A)) /\ Len(parts) = Len(chain)
  <2>1. \A k \in 1 .. Len(chain) : parts[k] \in Seq(A)
    BY <1>1
  <2>2. parts = [k \in 1 .. Len(chain) |-> parts[k]]
    BY <1>1, Zenon
  <2> HIDE DEF parts
  <2>3. parts \in [1 .. Len(chain) -> Seq(A)]
    BY <2>1, <2>2, Zenon
  <2> QED  BY <2>3, <1>1
<1>3. ASSUME NEW k \in 1 .. Len(chain)
      PROVE  parts[k] = IF chain[k].writeable = w THEN chain[k].data ELSE <<>>
  BY <1>1, Zenon
<1>4. Len(<<>>) = 0
  OBVIOUS
<1>5. [k \in 1 .. Len(parts) |-> Len(parts[k])] = Lens(w)
  <2> HIDE DEF parts
  <2>1. ASSUME NEW k \in 1 .. Len(chain)
        PROVE  Len(parts[k]) = IF chain[k].writeable = w
                                 THEN Len(chain[k].data) ELSE 0
    <3>1. CASE chain[k].writeable = w
      BY <1>3, <3>1, Zenon
    <3>2. CASE chain[k].writeable # w
      BY <1>3, <1>4, <3>2, Zenon
    <3> QED  BY <3>1, <3>2
  <2> QED  BY <1>2, <2>1, Zenon DEF Lens
<1>6. Joined(w) = Flatten(parts)
  BY Zenon DEF Joined
<1> HIDE DEF parts
<1>7. Laid(Starts(w), Len(parts), [k \in 1 .. Len(parts) |-> Len(parts[k])])
  BY <1>2, <1>5, StartsLaid, Zenon
<1>8. /\ Joined(w) \in Seq(A)
      /\ Spread(Joined(w), Starts(w), parts)
  BY <1>2, <1>6, <1>7, FlattenLays, Zenon
<1>9. ASSUME NEW k \in 1 .. Len(chain), chain[k].writeable = w,
             NEW i \in 1 .. Len(chain[k].data)
      PROVE  Joined(w)[Starts(w)[k] + i] = chain[k].data[i]
  <2>1. parts[k] = chain[k].data
    BY <1>3, <1>9, Zenon
  <2> QED  BY <1>2, <1>8, <2>1, Zenon DEF Spread
<1>10. Len(Joined(w)) = Starts(w)[Len(chain) + 1]
  BY <1>2, <1>8, Zenon DEF Spread
<1> QED  BY <1>8, <1>9, <1>10, Zenon

(* So the request is made of bytes, and a reply's memory of bytes or what  *)
(* was there before.                                                       *)
LEMMA JoinedBytes ==
  ASSUME Chained
  PROVE  Request \in Seq(Byte) /\ Joined(TRUE) \in Seq(Byte \cup {Stale})
<1>1. \A k \in 1 .. Len(chain) :
        /\ chain[k].writeable = FALSE => chain[k].data \in Seq(Byte)
        /\ chain[k].data \in Seq(Byte \cup {Stale})
  BY BufferAt, Zenon
<1>2. FALSE \in BOOLEAN /\ TRUE \in BOOLEAN
  OBVIOUS
<1> QED  BY <1>1, <1>2, JoinedAt, Zenon DEF Request

(* A place on a buffer: the bytes left there are those that follow in the  *)
(* joined bytes.  Behind the chain nothing follows.                        *)
LEMMA PlacedAt ==
  ASSUME Chained, NEW w \in BOOLEAN, NEW p, Placed(p, w)
  PROVE  /\ Offset(p, w) \in Nat /\ Len(Joined(w)) \in Nat
         /\ AtEnd(p) => Offset(p, w) = Len(Joined(w))
         /\ ~AtEnd(p) =>
              /\ p.at \in 1 .. Len(chain) /\ chain[p.at].writeable = w
              /\ Remaining(p) \in Nat
              /\ Remaining(p) + p.offset = Len(chain[p.at].data)
              /\ Offset(p, w) + Remaining(p) <= Len(Joined(w))
              /\ \A i \in 1 .. Remaining(p) :
                   Joined(w)[Offset(p, w) + i]
                     = chain[p.at].data[p.offset + i]
<1> DEFINE n == Len(chain)
           st == Starts(w)
<1>1. /\ n \in Nat /\ Lens(w) \in [1 .. n -> Nat] /\ Laid(st, n, Lens(w))
      /\ st \in [1 .. n + 1 -> Nat]
  BY StartsLaid, Zenon DEF Laid
<1>2. \A k \in 1 .. n : chain[k].data \in Seq(Byte \cup {Stale})
  BY BufferAt, Zenon
<1>3. /\ Joined(w) \in Seq(Byte \cup {Stale}) /\ Len(Joined(w)) = st[n + 1]
      /\ \A k \in 1 .. n : chain[k].writeable = w =>
           \A i \in 1 .. Len(chain[k].data) :
             Joined(w)[st[k] + i] = chain[k].data[i]
  BY <1>2, JoinedAt, Zenon
<1> HIDE DEF n, st
<1>4. /\ p.at \in 1 .. n + 1 /\ p.offset \in Nat
      /\ Offset(p, w) = st[p.at] + p.offset
  BY DEF Placed, Offset, n, st
<1>5. st[p.at] \in Nat /\ st[n + 1] \in Nat
  BY <1>1, <1>4
<1>6. CASE AtEnd(p)
  <2>1. p.at = n + 1 /\ p.offset = 0
    BY <1>6, <1>1, <1>4 DEF AtEnd, Placed, n
  <2> QED  BY <2>1, <1>3, <1>4, <1>5, <1>6
<1>7. CASE ~AtEnd(p)
  <2>1. /\ p.at \in 1 .. n /\ chain[p.at].writeable = w
        /\ p.offset <= Len(chain[p.at].data) /\ Len(chain[p.at].data) \in Nat
    BY <1>7, <1>1, <1>2, <1>4 DEF AtEnd, Placed, n
  <2>2. Remaining(p) \in Nat /\ Remaining(p) + p.offset = Len(chain[p.at].data)
    BY <2>1, <1>4 DEF Remaining
  <2>3. st[p.at + 1] = st[p.at] + Len(chain[p.at].data)
    <3>1. st[p.at + 1] = st[p.at] + Lens(w)[p.at]
      BY <2>1, <1>1, Zenon DEF Laid
    <3> QED  BY <3>1, <2>1, Zenon DEF Lens, n
  <2>4. st[p.at + 1] <= st[n + 1]
    <3>1. p.at + 1 \in 1 .. n + 1 /\ n + 1 \in p.at + 1 .. n + 1
      BY <2>1, <1>1
    <3> QED  BY <3>1, <1>1, LaidInOrder, Zenon
  <2>5. Offset(p, w) + Remaining(p) = st[p.at + 1]
    <3>1. /\ Offset(p, w) = st[p.at] + p.offset
          /\ st[p.at + 1] = st[p.at] + (Remaining(p) + p.offset)
      BY <2>2, <2>3, <1>4, Zenon
    <3> HIDE DEF Remaining, Offset
    <3> QED  BY <3>1, <2>2, <1>4, <1>5
  <2>6. ASSUME NEW i \in 1 .. Remaining(p)
        PROVE  Joined(w)[Offset(p, w) + i] = chain[p.at].data[p.offset + i]
    <3>1. p.offset + i \in 1 .. Len(chain[p.at].data)
      BY <2>2, <1>4
    <3>2. Offset(p, w) + i = st[p.at] + (p.offset + i)
      BY <1>4, <1>5, <2>2
    <3> QED  BY <3>1, <3>2, <2>1, <1>3, Zenon
  <2>7. Offset(p, w) \in Nat
    BY <1>4, <1>5
  <2>8. Offset(p, w) + Remaining(p) <= Len(Joined(w)) /\ Len(Joined(w)) \in Nat
    BY <2>4, <2>5, <1>3, <1>5, Zenon
  <2> QED  BY <2>1, <2>2, <2>6, <2>7, <2>8, <1>7, Zenon DEF n
<1> QED  BY <1>6, <1>7

(* next_payload goes to the next byte of the kind: what it skips holds     *)
(* none.                                                                   *)
LEMMA NextPlaced ==
  ASSUME Chained, NEW w \in BOOLEAN, NEW k \in 0 .. Len(chain)
  PROVE  /\ Placed([at |-> NextPayload(k, w), offset |-> 0], w)
         /\ Offset([at |-> NextPayload(k, w), offset |-> 0], w)
              = Starts(w)[k + 1]
<1> DEFINE n == Len(chain)
           S == {j \in k + 1 .. n : chain[j].writeable = w} \cup {n + 1}
           m == NextPayload(k, w)
           st == Starts(w)
<1>1. /\ n \in Nat /\ Lens(w) \in [1 .. n -> Nat] /\ Laid(st, n, Lens(w))
      /\ st \in [1 .. n + 1 -> Nat]
  BY StartsLaid, Zenon DEF Laid
<1>2. S \in SUBSET Nat /\ S # {}
  BY <1>1
<1>3. m \in S /\ \A j \in S : m <= j
  <2>1. \E j \in S : \A i \in S : j <= i
    BY <1>2, NatLeast, Zenon
  <2>2. m = Min(S)
    BY Zenon DEF NextPayload
  <2> HIDE DEF S, m
  <2> QED  BY <2>1, <2>2, Zenon DEF Min
<1> HIDE DEF m
<1>4. /\ m \in k + 1 .. n + 1
      /\ m = n + 1 \/ (m \in 1 .. n /\ chain[m].writeable = w)
  BY <1>1, <1>3
<1>5. \A j \in k + 1 .. m - 1 : Lens(w)[j] = 0
  <2> SUFFICES ASSUME NEW j \in k + 1 .. m - 1 PROVE Lens(w)[j] = 0
    OBVIOUS
  <2>1. j \in k + 1 .. n /\ j \in 1 .. n /\ ~(m <= j)
    BY <1>1, <1>4
  <2>2. chain[j].writeable # w
    BY <1>3, <2>1, Zenon
  <2> QED  BY <2>1, <2>2, Zenon DEF Lens
<1>6. st[k + 1] = st[m]
  <2>1. k + 1 \in 1 .. n + 1 /\ m \in k + 1 .. n + 1
    BY <1>1, <1>4
  <2> HIDE DEF n, st
  <2> QED  BY <2>1, <1>1, <1>5, LaidInOrder, Zenon
<1>7. m \in 1 .. n + 1 /\ st[m] \in Nat
  BY <1>1, <1>4
<1>8. Offset([at |-> m, offset |-> 0], w) = st[m] + 0 /\ st[m] + 0 = st[m]
  BY <1>7 DEF Offset
<1>9. Placed([at |-> m, offset |-> 0], w)
  <2>1. m # n + 1 => Len(chain[m].data) \in Nat
    BY <1>4, BufferAt, Zenon
  <2> QED  BY <1>4, <1>7, <2>1 DEF Placed
<1> QED  BY <1>6, <1>8, <1>9 DEF m

(* get_payload does not skip a byte, nor give one twice; and unless there  *)
(* are empty buffers, it finds a byte if one is left.                      *)
LEMMA GetPayloadKeeps ==
  ASSUME Chained, NEW w \in BOOLEAN, NEW p, Placed(p, w)
  PROVE  LET q == GetPayload(p, w)
         IN  /\ Placed(q, w) /\ Offset(q, w) = Offset(p, w)
             /\ 0 \notin BufferLen /\ ~AtEnd(q) => Remaining(q) # 0
<1> DEFINE q == GetPayload(p, w)
<1>1. CASE ~AtEnd(p) /\ Remaining(p) = 0
  <2>1. /\ p.at \in 1 .. Len(chain) /\ chain[p.at].writeable = w
        /\ Remaining(p) + p.offset = Len(chain[p.at].data)
    BY <1>1, PlacedAt, Zenon
  <2>2. p.at \in 0 .. Len(chain) /\ p.offset = Len(chain[p.at].data)
    BY <1>1, <2>1 DEF Placed
  <2>3. q = [at |-> NextPayload(p.at, w), offset |-> 0]
    BY <1>1, Zenon DEF GetPayload
  <2>4. Placed(q, w) /\ Offset(q, w) = Starts(w)[p.at + 1]
    BY <2>2, <2>3, NextPlaced, Zenon
  <2>5. Starts(w)[p.at + 1] = Starts(w)[p.at] + Lens(w)[p.at]
    BY <2>1, StartsLaid, Zenon DEF Laid
  <2>6. Lens(w)[p.at] = p.offset
    BY <2>1, <2>2, Zenon DEF Lens
  <2>7. 0 \notin BufferLen /\ ~AtEnd(q) => Remaining(q) # 0
    <3> SUFFICES ASSUME 0 \notin BufferLen, ~AtEnd(q) PROVE Remaining(q) # 0
      BY Zenon
    <3>1. /\ q.at \in 1 .. Len(chain)
          /\ Remaining(q) + q.offset = Len(chain[q.at].data)
      BY <2>4, PlacedAt, Zenon
    <3>2. q.offset = 0 /\ Len(chain[q.at].data) \in BufferLen
      <4>1. q.offset = 0
        BY <2>3
      <4> HIDE DEF q
      <4> QED  BY <3>1, <4>1, BufferAt, Zenon
    <3> QED  BY <3>1, <3>2
  <2> QED  BY <2>4, <2>5, <2>6, <2>7, Zenon DEF Offset
<1>2. CASE ~(~AtEnd(p) /\ Remaining(p) = 0)
  BY <1>2, Zenon DEF GetPayload
<1> QED  BY <1>1, <1>2, Zenon

(* Moving within a buffer.                                                 *)
LEMMA AdvanceKeeps ==
  ASSUME Chained, NEW w \in BOOLEAN, NEW p, Placed(p, w), NEW n \in Nat,
         IF AtEnd(p) THEN n = 0 ELSE n <= Remaining(p)
  PROVE  /\ Placed(Advance(p, n), w)
         /\ Offset(Advance(p, n), w) = Offset(p, w) + n
         /\ AtEnd(Advance(p, n)) <=> AtEnd(p)
<1> DEFINE q == Advance(p, n)
<1>1. p.offset \in Nat /\ p.at \in 1 .. Len(chain) + 1 /\ Len(chain) \in Nat
  BY StartsLaid DEF Placed
<1>2. q = [at |-> p.at, offset |-> p.offset + n]
  BY DEF Advance, Placed
<1> HIDE DEF q
<1>3. q.at = p.at /\ q.offset = p.offset + n
  BY <1>2
<1>4. Starts(w)[p.at] \in Nat
  BY <1>1, StartsLaid DEF Laid
<1>5. Offset(q, w) = Offset(p, w) + n
  BY <1>1, <1>3, <1>4 DEF Offset
<1>6. AtEnd(q) <=> AtEnd(p)
  BY <1>3, Zenon DEF AtEnd
<1>7. Placed(q, w)
  <2>1. CASE AtEnd(p)
    BY <2>1, <1>1, <1>2, <1>3 DEF AtEnd, Placed
  <2>2. CASE ~AtEnd(p)
    <3>1. /\ p.at \in 1 .. Len(chain) /\ chain[p.at].writeable = w
          /\ Remaining(p) \in Nat
          /\ Remaining(p) + p.offset = Len(chain[p.at].data)
      BY <2>2, PlacedAt, Zenon
    <3>2. p.offset + n <= Len(chain[p.at].data)
      BY <2>2, <3>1, <1>1
    <3> QED  BY <3>1, <3>2, <1>1, <1>2, <1>3 DEF Placed
  <2> QED  BY <2>1, <2>2
<1> QED  BY <1>5, <1>6, <1>7 DEF q
-----------------------------------------------------------------------------
(* That is what SubSeq returns.                                            *)
LEMMA SubSeqCuts ==
  ASSUME NEW A, NEW s \in Seq(A), NEW o \in Nat, NEW n \in Nat,
         o + n <= Len(s), NEW u, u = SubSeq(s, o + 1, o + n)
  PROVE  u \in Seq(A) /\ Cut(u, s, o, n)
<1>1. u \in Seq(A) /\ Len(u) = n
  OBVIOUS
<1>2. ASSUME NEW i \in 1 .. n PROVE u[i] = s[o + i]
  OBVIOUS
<1> QED  BY <1>1, <1>2, Zenon DEF Cut, Agrees

(* Two sequences with the same elements are the same.                      *)
LEMMA SameCut ==
  ASSUME NEW A, NEW u \in Seq(A), NEW v \in Seq(A), NEW s, NEW o, NEW n,
         Cut(u, s, o, n), Cut(v, s, o, n)
  PROVE  u = v
  BY DEF Cut, Agrees

(* The smaller of two numbers.                                             *)
LEMMA MinOfTwo ==
  ASSUME NEW a \in Nat, NEW b \in Nat
  PROVE  /\ Min({a, b}) \in Nat /\ Min({a, b}) <= a /\ Min({a, b}) <= b
         /\ Min({a, b}) \in {a, b}
<1>1. \E x \in {a, b} : \A y \in {a, b} : x <= y
  OBVIOUS
<1>2. Min({a, b}) \in {a, b} /\ \A y \in {a, b} : Min({a, b}) <= y
  BY <1>1, Zenon DEF Min
<1> QED  BY <1>2, Zenon

(* The first place of the byte looked for.                                 *)
LEMMA FoundFirst ==
  ASSUME NEW A, NEW r \in Seq(A), Nul \in Range(r)
  PROVE  /\ Found(r) \in 1 .. Len(r) /\ r[Found(r)] = Nul
         /\ \A i \in 1 .. Found(r) - 1 : r[i] # Nul
<1> DEFINE S == {k \in DOMAIN r : r[k] = Nul}
<1>1. DOMAIN r = 1 .. Len(r) /\ Len(r) \in Nat
  OBVIOUS
<1>2. S \in SUBSET Nat /\ S # {}
  <2>1. \E k \in DOMAIN r : r[k] = Nul
    BY Zenon DEF Range
  <2> QED  BY <1>1, <2>1
<1>3. \E x \in S : \A y \in S : x <= y
  BY <1>2, NatLeast, Zenon
<1>4. Found(r) \in S /\ \A y \in S : Found(r) <= y
  <2>1. Found(r) = Min(S)
    BY Zenon DEF Found
  <2> HIDE DEF S
  <2> QED  BY <1>3, <2>1, Zenon DEF Min
<1>5. Found(r) \in 1 .. Len(r) /\ r[Found(r)] = Nul
  BY <1>1, <1>4, Zenon
<1>6. ASSUME NEW i \in 1 .. Found(r) - 1 PROVE r[i] # Nul
  <2>1. i \in 1 .. Len(r) /\ ~(Found(r) <= i)
    BY <1>1, <1>5
  <2> QED  BY <2>1, <1>1, <1>4, Zenon
<1> QED  BY <1>5, <1>6, Zenon

(* What depends on the chain alone stays as long as the chain does.        *)
LEMMA ChainKept ==
  ASSUME UNCHANGED chain
  PROVE  /\ Chained' <=> Chained
         /\ \A w : Starts(w)' = Starts(w) /\ Joined(w)' = Joined(w)
         /\ Request' = Request /\ Len(chain)' = Len(chain)
  BY Zenon DEF Chained, Starts, Lens, Joined, Request

(* Reading leaves the writer's half alone.                                 *)
LEMMA WritingKept ==
  ASSUME Writing, UNCHANGED <<chain, sendVars>>, call # "send",
         call' # "send", call' # "none" => sent = "no"
  PROVE  Writing'
<1>1. chain' = chain /\ writer' = writer /\ slices' = slices /\ reply' = reply
      /\ sent' = sent /\ bytes_written' = bytes_written
  BY Zenon DEF sendVars
<1>2. Starts(TRUE)' = Starts(TRUE) /\ Joined(TRUE)' = Joined(TRUE)
  BY <1>1, ChainKept, Zenon
<1>3. Offset(writer, TRUE)' = Offset(writer, TRUE)
  BY <1>1, <1>2, Zenon DEF Offset
<1>4. Placed(writer, TRUE)' <=> Placed(writer, TRUE)
  BY <1>1, Zenon DEF Placed
<1>5. AtEnd(writer)' <=> AtEnd(writer)
  BY <1>1, Zenon DEF AtEnd
<1> QED  BY <1>1, <1>2, <1>3, <1>4, <1>5, Zenon DEF Writing

(* A new place for the reader.                                             *)
LEMMA ReaderMoved ==
  ASSUME UNCHANGED chain, Placed(reader', FALSE)
  PROVE  /\ Placed(reader, FALSE)'
         /\ AtEnd(reader)' <=> AtEnd(reader')
         /\ Offset(reader, FALSE)' = Offset(reader', FALSE)
  BY ChainKept, Zenon DEF Placed, AtEnd, Offset

(* What is read of a buffer is what follows in the request.                *)
LEMMA RestCut ==
  ASSUME Chained, NEW p, Placed(p, FALSE), ~AtEnd(p),
         NEW n \in Nat, n <= Remaining(p), NEW u,
         u = SubSeq(chain[p.at].data, p.offset + 1, p.offset + n)
  PROVE  u \in Seq(Byte) /\ Cut(u, Request, Offset(p, FALSE), n)
<1>1. FALSE \in BOOLEAN
  OBVIOUS
<1>2. /\ p.at \in 1 .. Len(chain) /\ chain[p.at].writeable = FALSE
      /\ Remaining(p) \in Nat
      /\ Remaining(p) + p.offset = Len(chain[p.at].data)
      /\ \A i \in 1 .. Remaining(p) :
           Request[Offset(p, FALSE) + i] = chain[p.at].data[p.offset + i]
  BY <1>1, PlacedAt, Zenon DEF Request
<1>3. chain[p.at].data \in Seq(Byte) /\ p.offset \in Nat
  BY <1>2, BufferAt, Zenon DEF Placed
<1>4. p.offset + n <= Len(chain[p.at].data)
  BY <1>2, <1>3
<1>5. u \in Seq(Byte) /\ Cut(u, chain[p.at].data, p.offset, n)
  BY <1>3, <1>4, SubSeqCuts, Zenon
<1>6. ASSUME NEW i \in 1 .. n PROVE i \in 1 .. Remaining(p)
  BY <1>2
<1> QED  BY <1>2, <1>5, <1>6, Zenon DEF Cut, Agrees

(* A call begins on the reader: nothing has been returned yet.             *)
LEMMA BeginReadUntilKeeps ==
  ASSUME PayloadInv, BeginReadUntil
  PROVE  PayloadInv'
<1>1. /\ call = "none" /\ sent = "no" /\ call' = "until" /\ from' = cursor
      /\ got' = <<>> /\ result' = "none" /\ chain' = chain
      /\ reader' = reader /\ position' = position /\ cursor' = cursor
      /\ UNCHANGED sendVars /\ sent' = sent
  BY Zenon DEF BeginReadUntil, sendVars
<1>2. Chained /\ Reading /\ Writing
  BY Zenon DEF PayloadInv
<1>3. Writing'
  BY <1>1, <1>2, WritingKept, Zenon
<1>4. Placed(reader, FALSE) /\ cursor = Offset(reader, FALSE)
  BY <1>2, Zenon DEF Reading
<1>5. Placed(reader, FALSE)' /\ Offset(reader, FALSE)' = Offset(reader, FALSE)
  BY <1>1, <1>4, ReaderMoved, Zenon
<1>6. cursor \in Nat /\ position \in Nat
  BY <1>2, <1>4, PlacedAt, Zenon DEF Reading
<1>7. /\ got' \in Seq(Byte) /\ from' + Len(got') = cursor' /\ from' \in Nat
      /\ from' + Len(got') <= cursor' /\ 1 .. Len(got') = {}
  BY <1>1, <1>6
<1>8. Reading'
  BY <1>1, <1>4, <1>5, <1>6, <1>7, Zenon DEF Reading, NulFree
<1> QED  BY <1>1, <1>2, <1>3, <1>8, ChainKept, Zenon DEF PayloadInv

(* read returns the next bytes of the request, and none only at its end.   *)
LEMMA ReadKeeps ==
  ASSUME PayloadInv, NEW n \in 1 .. MaxRead, Read(n)
  PROVE  PayloadInv'
<1> DEFINE p == GetPayload(reader, FALSE)
           size == IF AtEnd(p) THEN 0 ELSE Min({Remaining(p), n})
<1>1. /\ call = "none" /\ sent = "no" /\ call' = call /\ from' = cursor
      /\ reader' = Advance(p, size) /\ position' = position + size
      /\ cursor' = cursor + size /\ result' = "read" /\ chain' = chain
      /\ got' = IF AtEnd(p) THEN <<>>
                ELSE SubSeq(chain[p.at].data, p.offset + 1, p.offset + size)
      /\ UNCHANGED sendVars /\ sent' = sent
  BY Zenon DEF Read, sendVars
<1>2. Chained /\ Reading /\ Writing
  BY Zenon DEF PayloadInv
<1>3. Writing'
  BY <1>1, <1>2, WritingKept, Zenon
<1>4. /\ Placed(reader, FALSE) /\ cursor = Offset(reader, FALSE)
      /\ position \in Nat /\ FALSE \in BOOLEAN
  BY <1>2, Zenon DEF Reading
<1>5. /\ Placed(p, FALSE) /\ Offset(p, FALSE) = cursor
      /\ 0 \notin BufferLen /\ ~AtEnd(p) => Remaining(p) # 0
  BY <1>2, <1>4, GetPayloadKeeps, Zenon
<1> HIDE DEF p
<1>6. cursor \in Nat
  BY <1>2, <1>5, <1>4, PlacedAt, Zenon
<1>7. n \in Nat /\ n # 0
  BY PayloadAssumption
<1>8. /\ size \in Nat
      /\ AtEnd(p) => size = 0
      /\ ~AtEnd(p) => size <= Remaining(p) /\ size \in {Remaining(p), n}
  <2>1. CASE AtEnd(p)
    BY <2>1
  <2>2. CASE ~AtEnd(p)
    <3>1. Remaining(p) \in Nat
      BY <2>2, <1>2, <1>4, <1>5, PlacedAt, Zenon
    <3> QED  BY <2>2, <3>1, <1>7, MinOfTwo, Zenon
  <2> QED  BY <2>1, <2>2
<1> HIDE DEF size
<1>9. /\ Placed(Advance(p, size), FALSE)
      /\ Offset(Advance(p, size), FALSE) = cursor + size
      /\ AtEnd(Advance(p, size)) <=> AtEnd(p)
  BY <1>2, <1>4, <1>5, <1>8, AdvanceKeeps, Zenon
<1>10. /\ Placed(reader, FALSE)' /\ Offset(reader, FALSE)' = cursor'
       /\ AtEnd(reader)' <=> AtEnd(p)
  BY <1>1, <1>9, ReaderMoved, Zenon
<1>11. got' \in Seq(Byte) /\ Cut(got', Request, cursor, size)
  <2>1. CASE AtEnd(p)
    <3>1. got' = <<>> /\ size = 0
      BY <1>1, <1>8, <2>1, Zenon
    <3> QED  BY <3>1 DEF Cut, Agrees
  <2>2. CASE ~AtEnd(p)
    BY <2>2, <1>1, <1>2, <1>5, <1>8, RestCut, Zenon
  <2> QED  BY <2>1, <2>2
<1>12. /\ Len(got') = size
       /\ \A i \in 1 .. Len(got') : got'[i] = Request[from' + i]
  BY <1>1, <1>11, Zenon DEF Cut, Agrees
<1>13. from' \in Nat /\ position' \in Nat /\ from' + Len(got') <= cursor'
  <2>1. /\ from' = cursor /\ position' = position + size
        /\ cursor' = cursor + size /\ Len(got') = size
    BY <1>1, <1>12, Zenon
  <2>2. size \in Nat /\ position \in Nat
    BY <1>4, <1>8, Zenon
  <2>3. cursor + size <= cursor + size /\ position + size \in Nat
    BY <2>2, <1>6
  <2> QED  BY <2>1, <2>3, <1>6, Zenon
<1>14. 0 \notin BufferLen /\ got' = <<>> => AtEnd(reader)'
  <2>1. got' = <<>> => size = 0
    BY <1>12
  <2> QED  BY <2>1, <1>5, <1>7, <1>8, <1>10, Zenon
<1>15. Reading'
  <2>1. call' # "until" /\ result' # "until" /\ result' # "einval"
    BY <1>1
  <2> QED  BY <2>1, <1>1, <1>10, <1>11, <1>12, <1>13, <1>14, ChainKept, Zenon
           DEF Reading
<1> QED  BY <1>1, <1>2, <1>3, <1>15, ChainKept, Zenon DEF PayloadInv
(* A failed read leaves the reader on the same byte.                       *)
LEMMA ReadFaultKeeps ==
  ASSUME PayloadInv, ReadFault
  PROVE  PayloadInv'
<1> DEFINE p == GetPayload(reader, FALSE)
<1>1. /\ call \in {"none", "until"} /\ sent = "no" /\ call' = "none"
      /\ from' = cursor /\ got' = <<>> /\ result' = "fault" /\ chain' = chain
      /\ reader' = p /\ position' = position /\ cursor' = cursor
      /\ UNCHANGED sendVars /\ sent' = sent
  BY Zenon DEF ReadFault, sendVars
<1>2. Chained /\ Reading /\ Writing
  BY Zenon DEF PayloadInv
<1>3. Writing'
  <2>1. call # "send" /\ call' # "send"
    BY <1>1
  <2> QED  BY <2>1, <1>1, <1>2, WritingKept, Zenon
<1>4. /\ Placed(reader, FALSE) /\ cursor = Offset(reader, FALSE)
      /\ FALSE \in BOOLEAN
  BY <1>2, Zenon DEF Reading
<1>5. Placed(p, FALSE) /\ Offset(p, FALSE) = cursor
  BY <1>2, <1>4, GetPayloadKeeps, Zenon
<1> HIDE DEF p
<1>6. Placed(reader, FALSE)' /\ Offset(reader, FALSE)' = cursor'
  BY <1>1, <1>5, ReaderMoved, Zenon
<1>7. cursor \in Nat /\ position \in Nat
  BY <1>2, <1>4, PlacedAt, Zenon DEF Reading
<1>8. /\ got' \in Seq(Byte) /\ from' + Len(got') = cursor' /\ from' \in Nat
      /\ from' + Len(got') <= cursor' /\ 1 .. Len(got') = {}
  BY <1>1, <1>7
<1>9. Reading'
  <2>1. /\ call' # "until" /\ result' # "until"
        /\ result' # "einval" /\ result' # "read"
    BY <1>1
  <2> QED  BY <2>1, <1>1, <1>6, <1>7, <1>8, Zenon DEF Reading
<1> QED  BY <1>1, <1>2, <1>3, <1>9, ChainKept, Zenon DEF PayloadInv

(* What a round of read_until appends continues what it had.               *)
LEMMA CutGrows ==
  ASSUME NEW A, NEW g \in Seq(A), NEW r \in Seq(A), NEW s, NEW o \in Nat,
         NEW a \in Nat, NEW b \in Nat, Cut(g, s, o, a), Cut(r, s, o + a, b)
  PROVE  g \o r \in Seq(A) /\ Cut(g \o r, s, o, a + b)
<1>1. Len(g) = a /\ Len(r) = b
  BY DEF Cut, Agrees
<1>2. g \o r \in Seq(A) /\ Len(g \o r) = a + b
  BY <1>1
<1>3. ASSUME NEW i \in 1 .. a + b PROVE (g \o r)[i] = s[o + i]
  <2>1. Joins(g \o r, g, r)
    BY ConcatAt, Zenon
  <2>2. CASE i \in 1 .. a
    BY <1>1, <2>1, <2>2, Zenon DEF Cut, Agrees, Joins
  <2>3. CASE i \notin 1 .. a
    <3>1. PICK j \in 1 .. b : i = a + j /\ o + i = (o + a) + j
      <4>1. i - a \in 1 .. b /\ i = a + (i - a) /\ o + i = (o + a) + (i - a)
        BY <2>3
      <4> QED  BY <4>1, Zenon
    <3> QED  BY <1>1, <2>1, <3>1, Zenon DEF Cut, Agrees, Joins
  <2> QED  BY <2>2, <2>3, Zenon
<1> QED  BY <1>2, <1>3, Zenon DEF Cut, Agrees

(* A part of a cut is a cut.                                               *)
LEMMA CutCut ==
  ASSUME NEW A, NEW r \in Seq(A), NEW s, NEW o, NEW b \in Nat,
         Cut(r, s, o, b), NEW c \in 0 .. b
  PROVE  /\ SubSeq(r, 1, c) \in Seq(A) /\ Cut(SubSeq(r, 1, c), s, o, c)
         /\ \A i \in 1 .. c : SubSeq(r, 1, c)[i] = r[i]
<1>1. Len(r) = b
  BY DEF Cut, Agrees
<1>2. /\ SubSeq(r, 1, c) \in Seq(A) /\ Len(SubSeq(r, 1, c)) = c
      /\ \A i \in 1 .. c : SubSeq(r, 1, c)[i] = r[i]
  BY <1>1
<1>3. ASSUME NEW i \in 1 .. c PROVE i \in 1 .. b
  OBVIOUS
<1> QED  BY <1>2, <1>3, Zenon DEF Cut, Agrees

(* Two sequences without the byte looked for have none of it joined.       *)
LEMMA NoNul ==
  ASSUME NEW A, NEW g \in Seq(A), NEW r \in Seq(A), NulFree(g), NulFree(r)
  PROVE  NulFree(g \o r)
<1> SUFFICES ASSUME NEW i \in 1 .. Len(g \o r) PROVE (g \o r)[i] # Nul
  BY Zenon DEF NulFree
<1>1. CASE i <= Len(g)
  <2>1. (g \o r)[i] = g[i] /\ i \in 1 .. Len(g)
    BY <1>1
  <2> QED  BY <2>1, Zenon DEF NulFree
<1>2. CASE ~(i <= Len(g))
  <2>1. (g \o r)[i] = r[i - Len(g)] /\ i - Len(g) \in 1 .. Len(r)
    BY <1>2
  <2> QED  BY <2>1, Zenon DEF NulFree
<1> QED  BY <1>1, <1>2

(* One round of read_until: to the byte looked for, or to the end of the   *)
(* buffer; it gives up only at the end of the request.                     *)
LEMMA ReadUntilKeeps ==
  ASSUME PayloadInv, ReadUntil
  PROVE  PayloadInv'
<1> DEFINE p == GetPayload(reader, FALSE)
           r == IF AtEnd(p) THEN <<>>
                ELSE SubSeq(chain[p.at].data, p.offset + 1,
                            Len(chain[p.at].data))
<1>1. /\ call = "until" /\ chain' = chain /\ from' = from
      /\ UNCHANGED sendVars /\ sent' = sent
  BY Zenon DEF ReadUntil, sendVars
<1>2. Chained /\ Reading /\ Writing
  BY Zenon DEF PayloadInv
<1>3. /\ Placed(reader, FALSE) /\ cursor = Offset(reader, FALSE)
      /\ position \in Nat /\ from \in Nat /\ got \in Seq(Byte)
      /\ \A i \in 1 .. Len(got) : got[i] = Request[from + i]
      /\ result = "none" /\ cursor = from + Len(got)
      /\ NulFree(got)
      /\ FALSE \in BOOLEAN
  BY <1>1, <1>2, Zenon DEF Reading
<1>4. sent = "no"
  <2>1. call # "none"
    BY <1>1
  <2> QED  BY <2>1, <1>2, Zenon DEF Writing
<1>5. /\ Placed(p, FALSE) /\ Offset(p, FALSE) = cursor
      /\ 0 \notin BufferLen /\ ~AtEnd(p) => Remaining(p) # 0
  BY <1>2, <1>3, GetPayloadKeeps, Zenon
<1>6. \/ /\ r = <<>> /\ call' = "none" /\ result' = "einval" /\ reader' = p
         /\ position' = position /\ cursor' = cursor /\ got' = got
      \/ /\ r # <<>> /\ Nul \in Range(r) /\ call' = "none" /\ result' = "until"
         /\ reader' = Advance(p, Found(r)) /\ position' = position + Len(r)
         /\ cursor' = cursor + Found(r)
         /\ got' = got \o SubSeq(r, 1, Found(r) - 1)
      \/ /\ r # <<>> /\ Nul \notin Range(r)
         /\ call' = call /\ result' = result
         /\ reader' = Advance(p, Len(r)) /\ position' = position + Len(r)
         /\ cursor' = cursor + Len(r) /\ got' = got \o r
  BY Zenon DEF ReadUntil
<1> HIDE DEF p
<1>7. Len(got) \in Nat /\ cursor \in Nat /\ Cut(got, Request, from, Len(got))
  BY <1>2, <1>3, SeqShape, PlacedAt, Zenon DEF Cut, Agrees
<1>8. from \in Nat /\ Len(got) \in Nat /\ cursor = from + Len(got)
  BY <1>3, <1>7, Zenon
<1>9. /\ r \in Seq(Byte) /\ Len(r) \in Nat /\ Cut(r, Request, cursor, Len(r))
      /\ IF AtEnd(p) THEN Len(r) = 0 ELSE Len(r) = Remaining(p)
  <2>1. CASE AtEnd(p)
    <3>1. r = <<>>
      BY <2>1
    <3> QED  BY <2>1, <3>1 DEF Cut, Agrees
  <2>2. CASE ~AtEnd(p)
    <3>1. /\ Remaining(p) \in Nat /\ p.offset \in Nat
          /\ Remaining(p) + p.offset = Len(chain[p.at].data)
      BY <2>2, <1>2, <1>3, <1>5, PlacedAt, Zenon DEF Placed
    <3>2. /\ Len(chain[p.at].data) = p.offset + Remaining(p)
          /\ Remaining(p) <= Remaining(p)
      BY <3>1
    <3>3. r = SubSeq(chain[p.at].data, p.offset + 1, p.offset + Remaining(p))
      BY <2>2, <3>2, Zenon
    <3> HIDE DEF r
    <3>4. r \in Seq(Byte) /\ Cut(r, Request, cursor, Remaining(p))
      BY <2>2, <3>1, <3>2, <3>3, <1>2, <1>5, RestCut, Zenon
    <3> QED  BY <2>2, <3>1, <3>4, Zenon DEF Cut, Agrees
  <2> QED  BY <2>1, <2>2
<1> HIDE DEF r
<1>10. Writing'
  <2>1. call # "send" /\ call' # "send"
    BY <1>1, <1>6
  <2> QED  BY <2>1, <1>1, <1>2, <1>4, WritingKept, Zenon
<1>11. CASE /\ r = <<>> /\ call' = "none" /\ result' = "einval" /\ reader' = p
            /\ position' = position /\ cursor' = cursor /\ got' = got
  <2>1. Placed(reader, FALSE)' /\ Offset(reader, FALSE)' = cursor'
        /\ (AtEnd(reader)' <=> AtEnd(p))
    BY <1>1, <1>5, <1>11, ReaderMoved, Zenon
  <2>2. Len(r) = 0
    BY <1>11
  <2>3. 0 \notin BufferLen => AtEnd(reader)'
    BY <2>1, <2>2, <1>5, <1>9, Zenon
  <2>4. call' # "until" /\ result' # "until"
    BY <1>11
  <2>5. from + Len(got) <= cursor
    BY <1>8
  <2>6. Reading'
    BY <2>1, <2>3, <2>4, <2>5, <1>1, <1>3, <1>11, ChainKept, Zenon DEF Reading
  <2> QED  BY <2>6, <1>1, <1>2, <1>4, <1>10, <1>11, ChainKept, Zenon
           DEF PayloadInv
<1>12. CASE /\ r # <<>> /\ Nul \in Range(r) /\ call' = "none"
            /\ result' = "until" /\ reader' = Advance(p, Found(r))
            /\ position' = position + Len(r) /\ cursor' = cursor + Found(r)
            /\ got' = got \o SubSeq(r, 1, Found(r) - 1)
  <2> DEFINE f == Found(r)
             t == SubSeq(r, 1, f - 1)
  <2>1. /\ f \in 1 .. Len(r) /\ r[f] = Nul
        /\ \A i \in 1 .. f - 1 : r[i] # Nul
    BY <1>9, <1>12, FoundFirst, Zenon
  <2>2. reader' = Advance(p, f) /\ cursor' = cursor + f /\ got' = got \o t
    BY <1>12
  <2> HIDE DEF f
  <2>3. f \in Nat /\ f - 1 \in 0 .. Len(r) /\ f - 1 \in Nat /\ f <= Len(r)
    BY <2>1, <1>9
  <2>4. /\ t \in Seq(Byte) /\ Cut(t, Request, cursor, f - 1)
        /\ \A i \in 1 .. f - 1 : t[i] = r[i]
    BY <2>3, <1>9, CutCut, Zenon
  <2> HIDE DEF t
  <2>5. got' \in Seq(Byte) /\ Cut(got', Request, from, Len(got) + (f - 1))
    BY <2>3, <2>4, <2>2, <1>3, <1>7, CutGrows, Zenon
  <2>6. NulFree(t)
    BY <2>1, <2>4, Zenon DEF Cut, Agrees, NulFree
  <2>7. NulFree(got')
    BY <2>4, <2>6, <2>2, <1>3, NoNul, Zenon
  <2>8. Request[cursor + f] = Nul
    BY <2>1, <1>9, Zenon DEF Cut, Agrees
  <2>9. IF AtEnd(p) THEN f = 0 ELSE f <= Remaining(p)
    BY <2>1, <2>3, <1>9
  <2>10. /\ Placed(Advance(p, f), FALSE)
        /\ Offset(Advance(p, f), FALSE) = cursor + f
    BY <2>3, <2>9, <1>2, <1>3, <1>5, AdvanceKeeps, Zenon
  <2>11. Placed(reader, FALSE)' /\ Offset(reader, FALSE)' = cursor'
    BY <2>10, <2>2, <1>1, ReaderMoved, Zenon
  <2>12. Len(got') = Len(got) + (f - 1)
    BY <2>5, Zenon DEF Cut, Agrees
  <2>13. /\ cursor' = from + Len(got') + 1 /\ from + Len(got') <= cursor'
    <3>1. cursor' = cursor + f
      BY <2>2, Zenon
    <3> QED  BY <3>1, <2>3, <2>12, <1>8
  <2>14. \A i \in 1 .. Len(got') : got'[i] = Request[from + i]
    BY <2>5, <2>12, Zenon DEF Cut, Agrees
  <2>15. position' \in Nat
    BY <1>3, <1>9, <1>12
  <2>16. Reading'
    <3>1. call' # "until" /\ result' # "einval" /\ result' # "read"
      BY <1>12
    <3>2. Request'[cursor'] = Nul
      BY <2>8, <2>2, <1>1, ChainKept, Zenon
    <3> QED  BY <3>1, <3>2, <2>5, <2>7, <2>11, <2>13, <2>14, <2>15,
                <1>1, <1>3, ChainKept, Zenon DEF Reading
  <2> QED  BY <2>16, <1>1, <1>2, <1>4, <1>10, <1>12, ChainKept, Zenon
           DEF PayloadInv
<1>13. CASE /\ r # <<>> /\ Nul \notin Range(r) /\ call' = call
            /\ result' = result /\ reader' = Advance(p, Len(r))
            /\ position' = position + Len(r) /\ cursor' = cursor + Len(r)
            /\ got' = got \o r
  <2>1. NulFree(r)
    <3>1. DOMAIN r = 1 .. Len(r)
      BY <1>9, SeqShape, Zenon
    <3> QED  BY <3>1, <1>13, Zenon DEF Range, NulFree
  <2>2. got' \in Seq(Byte) /\ Cut(got', Request, from, Len(got) + Len(r))
    BY <1>3, <1>7, <1>9, <1>13, CutGrows, Zenon
  <2>3. NulFree(got')
    BY <2>1, <1>3, <1>9, <1>13, NoNul, Zenon
  <2>4. IF AtEnd(p) THEN Len(r) = 0 ELSE Len(r) <= Remaining(p)
    BY <1>9
  <2>5. /\ Placed(Advance(p, Len(r)), FALSE)
        /\ Offset(Advance(p, Len(r)), FALSE) = cursor + Len(r)
    BY <2>4, <1>2, <1>3, <1>5, <1>9, AdvanceKeeps, Zenon
  <2>6. Placed(reader, FALSE)' /\ Offset(reader, FALSE)' = cursor'
    BY <2>5, <1>1, <1>13, ReaderMoved, Zenon
  <2>7. Len(got') = Len(got) + Len(r)
    BY <2>2, Zenon DEF Cut, Agrees
  <2>8. /\ cursor' = from + Len(got') /\ from + Len(got') <= cursor'
    <3>1. cursor' = cursor + Len(r)
      BY <1>13, Zenon
    <3>2. Len(r) \in Nat
      BY <1>9, Zenon
    <3> QED  BY <3>1, <3>2, <2>7, <1>8
  <2>9. \A i \in 1 .. Len(got') : got'[i] = Request[from + i]
    BY <2>2, <2>7, Zenon DEF Cut, Agrees
  <2>10. position' \in Nat
    BY <1>3, <1>9, <1>13
  <2>11. Reading'
    <3>1. result' = "none" /\ result' # "until" /\ result' # "einval"
          /\ result' # "read"
      BY <1>3, <1>13
    <3> QED  BY <3>1, <2>2, <2>3, <2>6, <2>8, <2>9, <2>10,
                <1>1, <1>3, ChainKept, Zenon DEF Reading
  <2> QED  BY <2>11, <1>1, <1>2, <1>4, <1>10, <1>13, ChainKept, Zenon
           DEF PayloadInv
<1> QED  BY <1>6, <1>11, <1>12, <1>13, Zenon

-----------------------------------------------------------------------------
(* The elements of a sequence of one or two.                               *)
LEMMA OneOrTwo ==
  ASSUME NEW S, NEW s \in Seq(S), Len(s) <= 2, s # <<>>
  PROVE  /\ Len(s) \in {1, 2} /\ s[1] \in S /\ Tail(s) \in Seq(S)
         /\ Len(Tail(s)) = Len(s) - 1
         /\ Len(s) = 2 => s[2] \in S /\ Tail(s)[1] = s[2]
<1>1. Len(s) \in Nat /\ Len(s) # 0
  OBVIOUS
<1>2. s[1] \in S /\ (Len(s) = 2 => s[2] \in S)
  BY <1>1
<1>3. /\ Tail(s) \in Seq(S) /\ Len(Tail(s)) = Len(s) - 1
      /\ \A i \in 1 .. Len(Tail(s)) : Tail(s)[i] = s[i + 1]
  BY SeqTail
<1>4. Len(s) = 2 => Tail(s)[1] = s[2]
  BY <1>1, <1>3
<1> QED  BY <1>1, <1>2, <1>3, <1>4

(* One or two slices joined: the first, then the rest.                     *)
LEMMA FlattenHead ==
  ASSUME NEW A, NEW s \in Seq(Seq(A)), Len(s) <= 2, s # <<>>
  PROVE  /\ s[1] \in Seq(A) /\ Tail(s) \in Seq(Seq(A))
         /\ Len(Tail(s)) <= 2 /\ Flatten(Tail(s)) \in Seq(A)
         /\ Flatten(s) = s[1] \o Flatten(Tail(s))
<1>1. ASSUME NEW t \in Seq(Seq(A)), Len(t) = 0
      PROVE  Flatten(t) = <<>>
  <2>1. t = <<>>
    BY <1>1
  <2> QED  BY <2>1, Zenon DEF Flatten
<1>2. ASSUME NEW t \in Seq(Seq(A)), Len(t) = 1
      PROVE  Flatten(t) = t[1]
  <2>1. 1 \in Nat \ {0} /\ 1 \in 1 .. 1
    OBVIOUS
  <2>2. PICK f : /\ f = [i \in 1 .. 1 |-> IF i = 1 THEN t[i]
                                          ELSE f[i-1] \o t[i]]
                 /\ Flatten(t) = f[1]
    BY <2>1, <1>2, FlattenStep, Zenon
  <2> QED  BY <2>1, <2>2, Zenon
<1>3. ASSUME NEW t \in Seq(Seq(A)), Len(t) = 2
      PROVE  Flatten(t) = t[1] \o t[2]
  <2>1. /\ 2 \in Nat \ {0} /\ 1 \in 1 .. 2 /\ 2 \in 1 .. 2 /\ 2 # 1
        /\ 2 - 1 = 1
    OBVIOUS
  <2>2. PICK f : /\ f = [i \in 1 .. 2 |-> IF i = 1 THEN t[i]
                                          ELSE f[i-1] \o t[i]]
                 /\ Flatten(t) = f[2]
    BY <2>1, <1>3, FlattenStep, Zenon
  <2>3. f[1] = t[1] /\ f[2] = f[2-1] \o t[2]
    BY <2>1, <2>2, Zenon
  <2> QED  BY <2>1, <2>2, <2>3, Zenon
<1>4. /\ Len(s) \in {1, 2} /\ s[1] \in Seq(A) /\ Tail(s) \in Seq(Seq(A))
      /\ Len(Tail(s)) = Len(s) - 1
      /\ Len(s) = 2 => s[2] \in Seq(A) /\ Tail(s)[1] = s[2]
  BY OneOrTwo, Zenon
<1>5. CASE Len(s) = 1
  <2>1. Len(Tail(s)) = 0
    BY <1>4, <1>5
  <2>2. Flatten(Tail(s)) = <<>> /\ Flatten(s) = s[1]
    BY <1>1, <1>2, <1>4, <1>5, <2>1, Zenon
  <2>3. \A t \in Seq(A) : t \o <<>> = t
    OBVIOUS
  <2>4. <<>> \in Seq(A) /\ 0 <= 2
    OBVIOUS
  <2> QED  BY <1>4, <2>1, <2>2, <2>3, <2>4, Zenon
<1>6. CASE Len(s) = 2
  <2>1. Len(Tail(s)) = 1 /\ 1 <= 2
    BY <1>4, <1>6
  <2>2. Flatten(Tail(s)) = s[2] /\ Flatten(s) = s[1] \o s[2]
    BY <1>2, <1>3, <1>4, <1>6, <2>1, Zenon
  <2> QED  BY <1>4, <1>6, <2>1, <2>2, Zenon
<1> QED  BY <1>4, <1>5, <1>6

(* A beginning of u dropped.                                               *)
LEMMA CutDrop ==
  ASSUME NEW A, NEW h \in Seq(A), NEW t \in Seq(A), NEW u, NEW o \in Nat,
         NEW m \in Int, Cut(h \o t, u, o, m), NEW n \in 0 .. Len(h)
  PROVE  /\ m \in Nat /\ n <= m
         /\ SubSeq(h, n + 1, Len(h)) \in Seq(A)
         /\ Cut(SubSeq(h, n + 1, Len(h)) \o t, u, o + n, m - n)
         /\ Agrees(h, u, o, n)
<1> DEFINE g == SubSeq(h, n + 1, Len(h))
<1>1. Len(h \o t) = m
  BY DEF Cut, Agrees
<1>2. m \in Nat /\ n <= m /\ m = Len(h) + Len(t) /\ n \in Nat
  BY <1>1
<1>3. /\ g \in Seq(A) /\ Len(g) = Len(h) - n
      /\ \A i \in 1 .. Len(g) : g[i] = h[n + i]
  OBVIOUS
<1> HIDE DEF g
<1>4. Joins(g \o t, g, t) /\ Joins(h \o t, h, t)
  BY <1>3, ConcatAt, Zenon
<1>5. Len(g) \in Nat /\ Len(h) \in Nat /\ Len(t) \in Nat
  BY <1>3
<1>6. Len(g \o t) = m - n
  <2>1. Len(g \o t) = Len(g) + Len(t) /\ Len(g) = Len(h) - n
    BY <1>3, <1>4, Zenon DEF Joins
  <2> QED  BY <2>1, <1>2, <1>5
<1>7. ASSUME NEW i \in 1 .. m - n PROVE (g \o t)[i] = (h \o t)[n + i]
  <2>1. Len(g) = Len(h) - n
    BY <1>3, Zenon
  <2>2. CASE i <= Len(g)
    <3>1. i \in 1 .. Len(g) /\ n + i \in 1 .. Len(h)
      BY <1>2, <1>5, <2>1, <2>2
    <3> QED  BY <3>1, <1>3, <1>4, Zenon DEF Joins
  <2>3. CASE ~(i <= Len(g))
    <3>1. PICK j \in 1 .. Len(t) : i = Len(g) + j /\ n + i = Len(h) + j
      <4>1. /\ i - Len(g) \in 1 .. Len(t) /\ i = Len(g) + (i - Len(g))
            /\ n + i = Len(h) + (i - Len(g))
        BY <1>2, <1>5, <2>1, <2>3
      <4> QED  BY <4>1, Zenon
    <3> QED  BY <3>1, <1>4, Zenon DEF Joins
  <2> QED  BY <2>2, <2>3, Zenon
<1>8. ASSUME NEW i \in 1 .. m - n PROVE (g \o t)[i] = u[(o + n) + i]
  <2>1. n + i \in 1 .. m /\ o + (n + i) = (o + n) + i
    BY <1>2
  <2>2. (h \o t)[n + i] = u[o + (n + i)]
    BY <2>1, Zenon DEF Cut, Agrees
  <2> QED  BY <2>1, <2>2, <1>7, Zenon
<1>9. ASSUME NEW i \in 1 .. n PROVE h[i] = u[o + i]
  <2>1. i \in 1 .. m /\ (h \o t)[i] = h[i]
    BY <1>2
  <2> QED  BY <2>1, Zenon DEF Cut, Agrees
<1> QED  BY <1>2, <1>3, <1>6, <1>8, <1>9, Zenon DEF Cut, Agrees, g

(* The slices without the first n bytes.                                   *)
Dropped(s, n) == [s EXCEPT ![1] = SubSeq(@, n + 1, Len(@))]

(* A round of write_all: what is written are the next bytes of the reply,  *)
(* and the slices left are what comes after.                               *)
LEMMA SliceWritten ==
  ASSUME NEW A, NEW s \in Seq(Seq(A)), Len(s) <= 2, s # <<>>,
         NEW u, NEW o \in Nat, NEW m \in Int, Cut(Flatten(s), u, o, m),
         NEW n \in 0 .. Len(s[1]), NEW new,
         new = Dropped(s, n)
  PROVE  /\ m \in Nat /\ n <= m
         /\ new \in Seq(Seq(A)) /\ Len(new) <= 2
         /\ Cut(Flatten(new), u, o + n, m - n)
         /\ Agrees(s[1], u, o, n)
<1>1. /\ s[1] \in Seq(A) /\ Flatten(Tail(s)) \in Seq(A)
      /\ Flatten(s) = s[1] \o Flatten(Tail(s))
  BY FlattenHead, Zenon
<1>2. Cut(s[1] \o Flatten(Tail(s)), u, o, m)
  BY <1>1, Zenon
<1> DEFINE g == SubSeq(s[1], n + 1, Len(s[1]))
<1>3. /\ m \in Nat /\ n <= m /\ g \in Seq(A)
      /\ Cut(g \o Flatten(Tail(s)), u, o + n, m - n)
      /\ Agrees(s[1], u, o, n)
  BY <1>1, <1>2, CutDrop, Zenon
<1>4. new = [s EXCEPT ![1] = g]
  BY Zenon DEF Dropped
<1> HIDE DEF g
<1>5. /\ new \in Seq(Seq(A)) /\ Len(new) = Len(s) /\ new # <<>>
      /\ new[1] = g /\ Tail(new) = Tail(s)
  BY <1>3, <1>4
<1>6. Flatten(new) = g \o Flatten(Tail(s))
  BY <1>5, FlattenHead, Zenon
<1> QED  BY <1>3, <1>5, <1>6, Zenon

(* A step that writes leaves the buffers where they are, and those to be   *)
(* read as they are.                                                       *)
SameShape ==
  /\ Len(chain)' = Len(chain)
  /\ \A k \in 1 .. Len(chain) :
       /\ chain'[k].writeable = chain[k].writeable
       /\ Len(chain'[k].data) = Len(chain[k].data)
       /\ chain[k].writeable = FALSE => chain'[k].data = chain[k].data

(* Then every buffer begins where it did, and the request is the same.     *)
LEMMA ShapeKept ==
  ASSUME Chained, Chained', SameShape
  PROVE  /\ \A w : Starts(w)' = Starts(w)
         /\ Request' = Request
<1>1. ASSUME NEW w PROVE Starts(w)' = Starts(w)
  <2>1. ASSUME NEW k \in 1 .. Len(chain)
        PROVE  (IF chain'[k].writeable = w THEN Len(chain'[k].data) ELSE 0)
                 = (IF chain[k].writeable = w THEN Len(chain[k].data) ELSE 0)
    BY Zenon DEF SameShape
  <2>2. Len(chain') = Len(chain)
    BY Zenon DEF SameShape
  <2>3. Lens(w)' = Lens(w)
    BY <2>1, <2>2, Zenon DEF Lens
  <2> QED  BY <2>2, <2>3, Zenon DEF Starts
<1>2. DOMAIN chain = 1 .. Len(chain) /\ DOMAIN chain' = 1 .. Len(chain)
  BY SeqShape, Zenon DEF Chained, SameShape
<1>3. ASSUME NEW k \in 1 .. Len(chain)
      PROVE  (IF chain'[k].writeable = FALSE THEN chain'[k].data ELSE <<>>)
               = (IF chain[k].writeable = FALSE THEN chain[k].data ELSE <<>>)
  BY Zenon DEF SameShape
<1>4. [k \in DOMAIN chain' |->
         IF chain'[k].writeable = FALSE THEN chain'[k].data ELSE <<>>]
        = [k \in DOMAIN chain |->
             IF chain[k].writeable = FALSE THEN chain[k].data ELSE <<>>]
  BY <1>2, <1>3, Zenon
<1>5. Request' = Request
  BY <1>4, Zenon DEF Request, Joined
<1> QED  BY <1>1, <1>5, Zenon

(* A step of send leaves the reader's half alone.                          *)
LEMMA ReadingKept ==
  ASSUME Chained, Chained', Reading, SameShape, UNCHANGED readVars,
         call' # "until"
  PROVE  Reading'
<1>1. /\ reader' = reader /\ position' = position /\ cursor' = cursor
      /\ from' = from /\ got' = got /\ result' = result
  BY Zenon DEF readVars
<1>2. Starts(FALSE)' = Starts(FALSE) /\ Request' = Request
  BY ShapeKept, Zenon
<1>3. Len(chain') = Len(chain)
  BY Zenon DEF SameShape
<1>4. Offset(reader, FALSE)' = Offset(reader, FALSE)
  BY <1>1, <1>2, Zenon DEF Offset
<1>5. AtEnd(reader)' <=> AtEnd(reader)
  BY <1>1, <1>3, Zenon DEF AtEnd
<1>6. Placed(reader, FALSE) => Placed(reader, FALSE)'
  BY <1>1, <1>3, Zenon DEF Placed, SameShape
<1> QED  BY <1>1, <1>2, <1>4, <1>5, <1>6, Zenon DEF Reading

(* An unchanged chain has the same shape.                                  *)
LEMMA UnchangedShape ==
  ASSUME UNCHANGED chain
  PROVE  SameShape
  BY Zenon DEF SameShape

(* A new place for the writer.                                             *)
LEMMA WriterMoved ==
  ASSUME UNCHANGED chain, Placed(writer', TRUE)
  PROVE  /\ Placed(writer, TRUE)'
         /\ AtEnd(writer)' <=> AtEnd(writer')
         /\ Offset(writer, TRUE)' = Offset(writer', TRUE)
  BY ChainKept, Zenon DEF Placed, AtEnd, Offset

(* Steps of send, and of dispatch_one, that write nothing.                 *)
LEMMA NothingWritten ==
  ASSUME PayloadInv,
         \/ Invalid \/ EndSend \/ NextSlice \/ WriteFault
         \/ \E a, b \in Bytes : BeginSend(<<a, b>>)
  PROVE  PayloadInv'
<1>1. Chained /\ Reading /\ Writing
  BY Zenon DEF PayloadInv
<1>2. chain' = chain /\ UNCHANGED readVars
  BY Zenon DEF Invalid, EndSend, NextSlice, WriteFault, BeginSend
<1>3. call' # "until"
  BY Zenon DEF Invalid, EndSend, NextSlice, WriteFault, BeginSend
<1>4. Chained' /\ Reading'
  BY <1>1, <1>2, <1>3, ChainKept, UnchangedShape, ReadingKept, Zenon
<1> DEFINE W == Offset(writer, TRUE)
<1>5. /\ Placed(writer, TRUE) /\ slices \in Seq(Seq(Byte)) /\ Len(slices) <= 2
      /\ reply \in Seq(Byte) /\ W <= Len(reply)
      /\ Cut(Flatten(slices), reply, W, Len(reply) - W)
      /\ \A k \in 1 .. W : Joined(TRUE)[k] = reply[k]
      /\ \A k \in W + 1 .. Len(Joined(TRUE)) : Joined(TRUE)[k] = Stale
      /\ TRUE \in BOOLEAN
  BY <1>1, Zenon DEF Writing
<1>6. Joined(TRUE)' = Joined(TRUE) /\ result' = result
  BY <1>2, ChainKept, Zenon DEF readVars
<1>7. writer' = writer => /\ Placed(writer, TRUE)' /\ Offset(writer, TRUE)' = W
                          /\ AtEnd(writer)' <=> AtEnd(writer)
  BY <1>2, <1>5, WriterMoved, Zenon
<1>8. CASE Invalid
  <2>1. /\ call = "none" /\ sent = "no" /\ sent' = "invalid" /\ call' = call
        /\ writer' = writer /\ slices' = slices /\ reply' = reply
        /\ bytes_written' = bytes_written
    BY <1>8, Zenon DEF Invalid
  <2>2. sent' # "no" /\ sent' # "ok" /\ sent' # "error" /\ sent # "ok"
        /\ call' = "none"
    BY <2>1
  <2>3. Writing'
    BY <2>1, <2>2, <1>1, <1>5, <1>6, <1>7, Zenon DEF Writing
  <2> QED  BY <2>1, <2>3, <1>4, <1>6, Zenon DEF PayloadInv
<1>9. CASE EndSend
  <2>1. /\ call = "send" /\ slices = <<>> /\ call' = "none" /\ sent' = "ok"
        /\ bytes_written' = Len(reply)
        /\ writer' = writer /\ slices' = slices /\ reply' = reply
    BY <1>9, Zenon DEF EndSend
  <2>2. sent' # "no" /\ sent' # "error"
    BY <2>1
  <2>3. Writing'
    BY <2>1, <2>2, <1>5, <1>6, <1>7, Zenon DEF Writing
  <2> QED  BY <2>1, <2>3, <1>4, <1>6, Zenon DEF PayloadInv
<1>10. CASE NextSlice
  <2>1. /\ call = "send" /\ slices # <<>> /\ Head(slices) = <<>>
        /\ slices' = Tail(slices) /\ call' = call /\ writer' = writer
        /\ reply' = reply /\ sent' = sent /\ bytes_written' = bytes_written
    BY <1>10, Zenon DEF NextSlice
  <2>2. call # "none" /\ sent = "no"
    <3>1. call # "none"
      BY <2>1
    <3> QED  BY <3>1, <1>1, Zenon DEF Writing
  <2>3. /\ slices[1] \in Seq(Byte) /\ Tail(slices) \in Seq(Seq(Byte))
        /\ Len(Tail(slices)) <= 2 /\ Flatten(Tail(slices)) \in Seq(Byte)
        /\ Flatten(slices) = slices[1] \o Flatten(Tail(slices))
    BY <2>1, <1>5, FlattenHead, Zenon
  <2>4. slices[1] = <<>>
    <3>1. Head(slices) = slices[1]
      OBVIOUS
    <3> QED  BY <2>1, <3>1, Zenon
  <2>5. Flatten(slices') = Flatten(slices)
    BY <2>1, <2>3, <2>4, SeqNone, Zenon
  <2>6. call' = "send" /\ sent' # "ok" /\ sent' # "error" /\ sent # "ok"
    BY <2>1, <2>2
  <2>7. Writing'
    BY <2>1, <2>2, <2>3, <2>5, <2>6, <1>1, <1>5, <1>6, <1>7, Zenon DEF Writing
  <2> QED  BY <2>1, <2>2, <2>7, <1>4, <1>6, Zenon DEF PayloadInv
<1>11. CASE WriteFault
  <2>1. /\ call = "send" /\ writer' = GetPayload(writer, TRUE)
        /\ call' = "none" /\ sent' = "fault" /\ slices' = slices
        /\ reply' = reply /\ bytes_written' = bytes_written
    BY <1>11, Zenon DEF WriteFault
  <2>2. sent # "ok" /\ sent' # "ok" /\ sent' # "error" /\ sent' # "no"
    <3>1. call # "none"
      BY <2>1
    <3>2. sent = "no"
      BY <3>1, <1>1, Zenon DEF Writing
    <3> QED  BY <2>1, <3>2
  <2>3. Placed(writer', TRUE) /\ Offset(writer', TRUE) = W
    BY <2>1, <1>1, <1>5, GetPayloadKeeps, Zenon
  <2>4. Placed(writer, TRUE)' /\ Offset(writer, TRUE)' = W
    BY <2>3, <1>2, WriterMoved, Zenon
  <2>5. Writing'
    BY <2>1, <2>2, <2>4, <1>1, <1>5, <1>6, Zenon DEF Writing
  <2> QED  BY <2>1, <2>5, <1>4, <1>6, Zenon DEF PayloadInv
<1>12. ASSUME NEW a \in Bytes, NEW b \in Bytes, BeginSend(<<a, b>>)
       PROVE  PayloadInv'
  <2>1. /\ call = "none" /\ sent = "no" /\ call' = "send"
        /\ slices' = <<a, b>> /\ reply' = Flatten(<<a, b>>)
        /\ writer' = writer /\ sent' = sent /\ bytes_written' = bytes_written
    BY <1>12, Zenon DEF BeginSend
  <2>2. W = 0
    <3>1. call # "send"
      BY <2>1
    <3> QED  BY <2>1, <3>1, <1>1, Zenon DEF Writing
  <2>3. a \in Seq(Byte) /\ b \in Seq(Byte)
    BY DEF Bytes, UpTo
  <2>4. slices' \in Seq(Seq(Byte)) /\ Len(slices') = 2 /\ slices' # <<>>
        /\ 2 <= 2
    BY <2>1, <2>3
  <2>5. reply' \in Seq(Byte)
    <3>1. /\ slices'[1] \in Seq(Byte) /\ Flatten(Tail(slices')) \in Seq(Byte)
          /\ Flatten(slices') = slices'[1] \o Flatten(Tail(slices'))
      BY <2>4, FlattenHead, Zenon
    <3>2. Flatten(slices') \in Seq(Byte)
      BY <3>1, ConcatAt, Zenon
    <3> QED  BY <2>1, <3>2, Zenon
  <2>6. /\ 0 <= Len(reply') /\ Len(reply') - 0 = Len(reply') /\ 1 .. 0 = {}
        /\ \A i \in 1 .. Len(reply') : 0 + i = i
    BY <2>5
  <2>7. Cut(Flatten(slices'), reply', 0, Len(reply') - 0)
    BY <2>1, <2>6, Zenon DEF Cut, Agrees
  <2>8. sent' # "ok" /\ sent' # "error" /\ sent # "ok"
    BY <2>1
  <2>9. Writing'
    BY <2>1, <2>2, <2>4, <2>5, <2>6, <2>7, <2>8, <1>1, <1>5, <1>6, <1>7, Zenon
       DEF Writing
  <2> QED  BY <2>1, <2>9, <1>4, <1>6, Zenon DEF PayloadInv
<1> QED  BY <1>8, <1>9, <1>10, <1>11, <1>12, Zenon

(* A sequence with one element replaced.                                   *)
LEMMA SeqUpdate ==
  ASSUME NEW S, NEW s \in Seq(S), NEW i \in 1 .. Len(s), NEW v \in S
  PROVE  [s EXCEPT ![i] = v] \in Seq(S)
  OBVIOUS

(* A place is in a range if both are moved by a.                           *)
LEMMA Shifted ==
  ASSUME NEW a \in Nat, NEW o \in Nat, NEW n \in Nat, NEW i \in Nat,
         a + i \notin (a + o) + 1 .. (a + o) + n
  PROVE  i \notin o + 1 .. o + n
  OBVIOUS

(* The memory of the reply is the writable buffers, laid end to end.       *)
Remembered ==
  /\ Len(chain) \in Nat /\ Lens(TRUE) \in [1 .. Len(chain) -> Nat]
  /\ Laid(Starts(TRUE), Len(chain), Lens(TRUE))
  /\ Len(Joined(TRUE)) = Starts(TRUE)[Len(chain) + 1]
  /\ Len(Joined(TRUE)) \in Nat
  /\ \A k \in 1 .. Len(chain) : chain[k].writeable = TRUE =>
       \A i \in 1 .. Len(chain[k].data) :
         Joined(TRUE)[Starts(TRUE)[k] + i] = chain[k].data[i]

(* That holds of every chain.                                              *)
LEMMA Remembers == Chained => Remembered
<1> SUFFICES ASSUME Chained PROVE Remembered
  OBVIOUS
<1>1. TRUE \in BOOLEAN
  OBVIOUS
<1>2. \A k \in 1 .. Len(chain) : chain[k].data \in Seq(Byte \cup {Stale})
  BY BufferAt, Zenon
<1>3. Joined(TRUE) \in Seq(Byte \cup {Stale})
  BY JoinedBytes, Zenon
<1> QED  BY <1>1, <1>2, <1>3, StartsLaid, JoinedAt, SeqShape, Zenon
         DEF Remembered

(* The bytes of a buffer after n of buf are written from o on.             *)
Overwritten(data, o, n, buf) ==
  [k \in DOMAIN data |->
     IF k \in o + 1 .. o + n THEN buf[k - o] ELSE data[k]]

(* Outside of them new is as old.                                          *)
Elsewhere(new, old, o, n) ==
  \A k \in 1 .. Len(old) : k \notin o + 1 .. o + n => new[k] = old[k]

(* Writing replaces those bytes and no others, and not their number.       *)
Patched(new, old, o, n, buf) ==
  /\ new \in Seq(Byte \cup {Stale}) /\ Len(new) = Len(old)
  /\ Agrees(buf, new, o, n) /\ Elsewhere(new, old, o, n)

LEMMA OverwrittenAt ==
  ASSUME NEW data \in Seq(Byte \cup {Stale}), NEW buf \in Seq(Byte),
         NEW o \in Nat, NEW n \in Nat, o + n <= Len(data), n <= Len(buf)
  PROVE  Patched(Overwritten(data, o, n, buf), data, o, n, buf)
<1> DEFINE A == Byte \cup {Stale}
           new == Overwritten(data, o, n, buf)
<1>1. /\ DOMAIN data = 1 .. Len(data) /\ Len(data) \in Nat /\ Len(buf) \in Nat
      /\ \A k \in 1 .. Len(data) : data[k] \in A
      /\ \A k \in 1 .. Len(buf) : buf[k] \in A
  OBVIOUS
<1>2. /\ DOMAIN new = 1 .. Len(data)
      /\ \A k \in 1 .. Len(data) :
           new[k] = IF k \in o + 1 .. o + n THEN buf[k - o] ELSE data[k]
      /\ new = [k \in 1 .. Len(data) |-> new[k]]
  BY <1>1, Zenon DEF Overwritten
<1> HIDE DEF new
<1>3. ASSUME NEW i \in 1 .. n PROVE buf[i] = new[o + i]
  <2>1. o + i \in 1 .. Len(data) /\ o + i \in o + 1 .. o + n /\ (o + i) - o = i
    BY <1>1
  <2> QED  BY <2>1, <1>2, Zenon
<1>4. ASSUME NEW k \in 1 .. Len(data) PROVE new[k] \in A
  <2>1. CASE k \in o + 1 .. o + n
    <3>1. k - o \in 1 .. Len(buf)
      BY <1>1, <2>1
    <3> QED  BY <3>1, <2>1, <1>1, <1>2, Zenon
  <2>2. CASE k \notin o + 1 .. o + n
    BY <2>2, <1>1, <1>2, Zenon
  <2> QED  BY <2>1, <2>2
<1>5. new \in [1 .. Len(data) -> A]
  BY <1>2, <1>4, Zenon
<1>6. new \in Seq(A) /\ Len(new) = Len(data)
  BY <1>1, <1>5
<1>7. Patched(new, data, o, n, buf)
  BY <1>2, <1>3, <1>6, Zenon DEF Patched, Agrees, Elsewhere
<1> QED  BY <1>7 DEF new

(* One write of write_all puts the next bytes of the reply behind those    *)
(* already there, in one buffer, and touches nothing else.                 *)
LEMMA WriteKeeps ==
  ASSUME PayloadInv, Write
  PROVE  PayloadInv'
<1> DEFINE p == GetPayload(writer, TRUE)
           buf == Head(slices)
           size == IF AtEnd(p) THEN 0 ELSE Min({Remaining(p), Len(buf)})
           W == Offset(writer, TRUE)
           M == Joined(TRUE)
<1>1. Chained /\ Reading /\ Writing
  BY Zenon DEF PayloadInv
<1>2. /\ call = "send" /\ slices # <<>> /\ Head(slices) # <<>>
      /\ writer' = Advance(p, size) /\ UNCHANGED readVars /\ reply' = reply
      /\ bytes_written' = bytes_written /\ result' = result
  BY Zenon DEF Write, readVars
<1>3. \/ /\ size = 0 /\ call' = "none" /\ sent' = "error" /\ chain' = chain
         /\ slices' = slices
      \/ /\ size # 0 /\ call' = call /\ sent' = sent
         /\ chain' = [chain EXCEPT ![p.at].data =
                        Overwritten(@, p.offset, size, buf)]
         /\ slices' = Dropped(slices, size)
  BY Zenon DEF Write, Overwritten, Dropped
<1>4. /\ Placed(writer, TRUE) /\ slices \in Seq(Seq(Byte)) /\ Len(slices) <= 2
      /\ reply \in Seq(Byte) /\ W <= Len(reply)
      /\ Cut(Flatten(slices), reply, W, Len(reply) - W)
      /\ \A k \in 1 .. W : M[k] = reply[k]
      /\ \A k \in W + 1 .. Len(M) : M[k] = Stale
      /\ sent # "ok" => bytes_written = 0
      /\ call # "none" => sent = "no"
      /\ TRUE \in BOOLEAN
  BY <1>1, Zenon DEF Writing
<1>5. sent = "no" /\ bytes_written = 0
  <2>1. call # "none"
    BY <1>2
  <2>2. sent = "no"
    BY <2>1, <1>4, Zenon
  <2>3. sent # "ok"
    BY <2>2
  <2> QED  BY <2>2, <2>3, <1>4, Zenon
<1>6. buf = slices[1] /\ buf \in Seq(Byte) /\ Len(buf) \in Nat /\ Len(buf) # 0
  <2>1. Head(slices) = slices[1]
    OBVIOUS
  <2>2. slices[1] \in Seq(Byte) /\ slices[1] # <<>>
    BY <2>1, <1>2, <1>4, FlattenHead, Zenon
  <2>3. Len(slices[1]) \in Nat \ {0}
    BY <2>2, SeqNone, Zenon
  <2>4. Len(slices[1]) \in Nat /\ Len(slices[1]) # 0
    BY <2>3
  <2> QED  BY <2>1, <2>2, <2>4, Zenon
<1>7. /\ Placed(p, TRUE) /\ Offset(p, TRUE) = W
      /\ 0 \notin BufferLen /\ ~AtEnd(p) => Remaining(p) # 0
  BY <1>1, <1>4, GetPayloadKeeps, Zenon
<1> HIDE DEF p, buf
<1>8. /\ W \in Nat /\ Len(M) \in Nat
      /\ ~AtEnd(p) =>
              /\ p.at \in 1 .. Len(chain) /\ chain[p.at].writeable = TRUE
              /\ Remaining(p) \in Nat
              /\ Remaining(p) + p.offset = Len(chain[p.at].data)
              /\ W + Remaining(p) <= Len(M)
  BY <1>1, <1>4, <1>7, PlacedAt, Zenon
<1>9. /\ size \in Nat
      /\ AtEnd(p) => size = 0
      /\ ~AtEnd(p) => /\ size <= Remaining(p) /\ size <= Len(buf)
                      /\ size \in {Remaining(p), Len(buf)}
  <2>1. CASE AtEnd(p)
    BY <2>1
  <2>2. CASE ~AtEnd(p)
    BY <2>2, <1>6, <1>8, MinOfTwo, Zenon
  <2> QED  BY <2>1, <2>2
<1> HIDE DEF size
<1>10. /\ Placed(Advance(p, size), TRUE)
       /\ Offset(Advance(p, size), TRUE) = W + size
       /\ AtEnd(Advance(p, size)) <=> AtEnd(p)
  BY <1>1, <1>4, <1>7, <1>9, AdvanceKeeps, Zenon
<1>11. call' # "until"
  BY <1>2, <1>3
<1>12. CASE /\ size = 0 /\ call' = "none" /\ sent' = "error" /\ chain' = chain
            /\ slices' = slices
  <2>1. Chained' /\ Reading'
    BY <1>1, <1>2, <1>11, <1>12, ChainKept, UnchangedShape, ReadingKept, Zenon
  <2>2. /\ Placed(writer, TRUE)' /\ Offset(writer, TRUE)' = W + size
        /\ AtEnd(writer)' <=> AtEnd(p)
    BY <1>2, <1>10, <1>12, WriterMoved, Zenon
  <2>3. W + size = W
    <3>1. W \in Nat /\ size = 0
      BY <1>8, <1>12, Zenon
    <3> HIDE DEF W
    <3> QED  BY <3>1
  <2>4. 0 \notin BufferLen => AtEnd(p)
    BY <1>6, <1>7, <1>9, <1>12, Zenon
  <2>5. sent' # "no" /\ sent' # "ok"
    BY <1>12
  <2>6. Joined(TRUE)' = M
    BY <1>12, ChainKept, Zenon
  <2>7. slices'[1] # <<>>
    BY <1>2, <1>6, <1>12, Zenon DEF buf
  <2>8. Writing'
    BY <2>2, <2>3, <2>4, <2>5, <2>6, <2>7, <1>2, <1>4, <1>5, <1>12, Zenon
       DEF Writing
  <2> QED  BY <2>1, <2>8, <1>2, <1>12, Zenon DEF PayloadInv
<1>13. CASE /\ size # 0 /\ call' = call /\ sent' = sent
            /\ chain' = [chain EXCEPT ![p.at].data =
                           Overwritten(@, p.offset, size, buf)]
            /\ slices' = Dropped(slices, size)
  <2> DEFINE old == chain[p.at].data
             new == Overwritten(old, p.offset, size, buf)
  <2>1. /\ ~AtEnd(p) /\ size <= Remaining(p) /\ size <= Len(buf)
        /\ p.at \in 1 .. Len(chain) /\ chain[p.at].writeable = TRUE
        /\ Remaining(p) \in Nat /\ Remaining(p) + p.offset = Len(old)
        /\ W + Remaining(p) <= Len(M)
    BY <1>8, <1>9, <1>13, Zenon
  <2>2. p.offset \in Nat /\ p.offset + size <= Len(old) /\ W + size <= Len(M)
    <3>1. p.offset \in Nat
      BY <1>7, Zenon DEF Placed
    <3> HIDE DEF M, W, old
    <3> QED  BY <3>1, <2>1, <1>8, <1>9
  <2>3. /\ new \in Seq(Byte \cup {Stale}) /\ Len(new) = Len(old)
        /\ Agrees(buf, new, p.offset, size)
        /\ Elsewhere(new, old, p.offset, size)
    <3>1. old \in Seq(Byte \cup {Stale})
      BY <2>1, <1>1, BufferAt, Zenon
    <3>2. new = Overwritten(old, p.offset, size, buf)
      OBVIOUS
    <3>3. size <= Len(buf) /\ size \in Nat /\ buf \in Seq(Byte)
      BY <2>1, <1>6, <1>9, Zenon
    <3>4. /\ old \in Seq(Byte \cup {Stale}) /\ buf \in Seq(Byte)
          /\ p.offset \in Nat /\ size \in Nat
          /\ p.offset + size <= Len(old) /\ size <= Len(buf)
          /\ new = Overwritten(old, p.offset, size, buf)
      BY <3>1, <3>2, <3>3, <2>2, Zenon
    <3>5. Patched(Overwritten(old, p.offset, size, buf), old, p.offset, size,
                  buf)
      <4> HIDE DEF old, p, buf, size
      <4> QED  BY <3>4, OverwrittenAt, Zenon
    <3> HIDE DEF old, p, buf, size
    <3> QED  BY <3>5, Zenon DEF Patched
  <2>4. /\ Len(chain') = Len(chain) /\ chain'[p.at].data = new
        /\ chain'[p.at].writeable = TRUE
        /\ \A k \in 1 .. Len(chain) : k # p.at => chain'[k] = chain[k]
    <3> HIDE DEF new
    <3> QED  BY <1>1, <1>13, <2>1 DEF Chained, new
  <2> HIDE DEF new
  <2>5. SameShape
    BY <2>1, <2>3, <2>4, Zenon DEF SameShape
  <2>6. Chained'
    <3>1. chain' \in Seq([writeable : BOOLEAN, data : Seq(Byte \cup {Stale})])
      <4> DEFINE R == [writeable : BOOLEAN, data : Seq(Byte \cup {Stale})]
      <4>1. chain \in Seq(R)
        BY <1>1, Zenon DEF Chained
      <4>2. chain[p.at] \in R
        BY <4>1, <2>1, SeqElement, Zenon
      <4>3. [chain[p.at] EXCEPT !.data = new] \in R
        BY <4>2, <2>3
      <4>4. chain' = [chain EXCEPT ![p.at] = [chain[p.at] EXCEPT !.data = new]]
        BY <1>13 DEF new
      <4> HIDE DEF R
      <4>5. [chain EXCEPT ![p.at] = [chain[p.at] EXCEPT !.data = new]]
              \in Seq(R)
        BY <4>1, <4>3, <2>1, SeqUpdate
      <4> QED  BY <4>4, <4>5 DEF R
    <3>2. Len(chain) <= MaxBuffers
      BY <1>1, Zenon DEF Chained
    <3>3. ASSUME NEW k \in 1 .. Len(chain)
          PROVE  /\ Len(chain'[k].data) \in BufferLen
                 /\ ~chain'[k].writeable => chain'[k].data \in Seq(Byte)
      BY <2>3, <2>4, <1>1, Zenon DEF Chained
    <3> QED  BY <3>1, <3>2, <3>3, <2>4, Zenon DEF Chained
  <2>7. Reading'
    BY <2>5, <2>6, <1>1, <1>2, <1>11, ReadingKept, Zenon
  <2>8. Starts(TRUE)' = Starts(TRUE)
    BY <2>5, <2>6, <1>1, ShapeKept, Zenon
  <2>9. Remembered /\ Remembered'
    <3>1. Chained' => Remembered'
      BY Remembers, PTL
    <3> QED  BY <3>1, <2>6, <1>1, Remembers, Zenon
  <2> DEFINE st == Starts(TRUE)
             N == Joined(TRUE)'
  <2>10. Len(N) = Len(M)
    BY <2>4, <2>8, <2>9, Zenon DEF Remembered
  <2>11. W = st[p.at] + p.offset /\ st[p.at] \in Nat
    <3>1. W = st[p.at] + p.offset
      BY <1>7, Zenon DEF Offset
    <3>2. st \in [1 .. Len(chain) + 1 -> Nat] /\ Len(chain) \in Nat
      BY <2>9, Zenon DEF Remembered, Laid
    <3>3. p.at \in 1 .. Len(chain) + 1
      BY <3>2, <2>1
    <3> QED  BY <3>1, <3>2, <3>3, Zenon
  <2>12. ASSUME NEW k \in 1 .. Len(chain), chain[k].writeable = TRUE,
                NEW i \in 1 .. Len(chain[k].data)
         PROVE  /\ M[st[k] + i] = chain[k].data[i]
                /\ N[st[k] + i] = chain'[k].data[i]
    <3>1. M[st[k] + i] = chain[k].data[i]
      BY <2>9, <2>12, Zenon DEF Remembered
    <3>2. /\ k \in 1 .. Len(chain') /\ chain'[k].writeable = TRUE
          /\ i \in 1 .. Len(chain'[k].data)
      BY <2>4, <2>5, <2>12, Zenon DEF SameShape
    <3>3. N[Starts(TRUE)'[k] + i] = chain'[k].data[i]
      BY <3>2, <2>9, Zenon DEF Remembered
    <3> QED  BY <3>1, <3>3, <2>8, Zenon
  <2>13. ASSUME NEW x \in 1 .. Len(M)
         PROVE  \E k \in 1 .. Len(chain) :
                  /\ chain[k].writeable = TRUE
                  /\ \E i \in 1 .. Len(chain[k].data) : x = st[k] + i
    <3>1. x \in 1 .. st[Len(chain) + 1]
      BY <2>9, Zenon DEF Remembered
    <3>2. PICK k \in 1 .. Len(chain) :
            \E i \in 1 .. Lens(TRUE)[k] : x = st[k] + i
      <4>1. InPart(x, st, Len(chain), Lens(TRUE))
        BY <3>1, <2>9, LaidCovers, Zenon DEF Remembered
      <4> QED  BY <4>1, Zenon DEF InPart
    <3>3. Lens(TRUE)[k] = IF chain[k].writeable = TRUE
                            THEN Len(chain[k].data) ELSE 0
      BY Zenon DEF Lens
    <3>4. 1 .. 0 = {}
      OBVIOUS
    <3> QED  BY <3>2, <3>3, <3>4, Zenon
  <2> HIDE DEF M, N, st, W, old
  <2>14. p.offset \in Nat /\ size \in Nat /\ W = st[p.at] + p.offset
        /\ st[p.at] \in Nat
    BY <2>2, <2>11, <1>9, Zenon
  <2>15. Agrees(buf, N, W, size)
    <3> SUFFICES ASSUME NEW i \in 1 .. size PROVE buf[i] = N[W + i]
      BY Zenon DEF Agrees
    <3>1. /\ p.offset + i \in 1 .. Len(old)
          /\ W + i = st[p.at] + (p.offset + i)
      <4>1. Len(old) \in Nat
        BY <2>6, <2>1, BufferAt, <1>1, SeqShape, Zenon DEF old
      <4>2. p.offset + i \in 1 .. Len(old)
        <5>1. /\ p.offset \in Nat /\ size \in Nat
              /\ p.offset + size <= Len(old)
          BY <2>2, <2>14, Zenon
        <5> HIDE DEF p, size
        <5> QED  BY <5>1, <4>1, Within, Zenon
      <4>3. /\ \A a, o, j \in Nat : (a + o) + j = a + (o + j)
            /\ \A n \in Nat : 1 .. n \subseteq Nat
        OBVIOUS
      <4> QED  BY <4>2, <4>3, <2>14, Zenon
    <3>2. N[st[p.at] + (p.offset + i)] = new[p.offset + i]
      BY <3>1, <2>1, <2>4, <2>12, Zenon DEF old
    <3>3. buf[i] = new[p.offset + i]
      BY <2>3, Zenon DEF Agrees
    <3> QED  BY <3>1, <3>2, <3>3, Zenon
  <2>16. Elsewhere(N, M, W, size)
    <3> SUFFICES ASSUME NEW x \in 1 .. Len(M), x \notin W + 1 .. W + size
                 PROVE  N[x] = M[x]
      BY Zenon DEF Elsewhere
    <3>1. PICK k \in 1 .. Len(chain) :
            /\ chain[k].writeable = TRUE
            /\ \E i \in 1 .. Len(chain[k].data) : x = st[k] + i
      BY <2>13, Zenon
    <3>2. PICK i \in 1 .. Len(chain[k].data) : x = st[k] + i
      BY <3>1, Zenon
    <3>3. N[x] = chain'[k].data[i] /\ M[x] = chain[k].data[i]
      BY <3>1, <3>2, <2>12, Zenon
    <3>4. CASE k # p.at
      BY <3>3, <3>4, <2>4, Zenon
    <3>5. CASE k = p.at
      <4>1. x = st[p.at] + i /\ i \in 1 .. Len(old)
        BY <3>2, <3>5, Zenon DEF old
      <4>2. i \notin p.offset + 1 .. p.offset + size
        <5>1. i \in Nat /\ st[p.at] + i \notin W + 1 .. W + size
          BY <4>1
        <5> QED  BY <5>1, <2>14, Shifted, Zenon
      <4>3. new[i] = old[i]
        BY <4>1, <4>2, <2>3, Zenon DEF Elsewhere
      <4> QED  BY <3>3, <3>5, <4>3, <2>4, Zenon DEF old
    <3> QED  BY <3>4, <3>5
  <2>17. /\ Len(reply) - W \in Int /\ W \in Nat /\ size \in 0 .. Len(slices[1])
    <3>1. Len(reply) \in Nat /\ W \in Nat /\ Len(buf) \in Nat
          /\ slices[1] = buf /\ size \in Nat /\ size <= Len(buf)
      BY <1>4, <1>6, <1>8, <1>9, <2>1, SeqShape, Zenon
    <3> QED  BY <3>1
  <2>18. /\ Len(reply) - W \in Nat /\ size <= Len(reply) - W
         /\ slices' \in Seq(Seq(Byte)) /\ Len(slices') <= 2
         /\ Cut(Flatten(slices'), reply, W + size, (Len(reply) - W) - size)
         /\ Agrees(slices[1], reply, W, size)
    <3>1. /\ slices \in Seq(Seq(Byte)) /\ Len(slices) <= 2 /\ slices # <<>>
          /\ Cut(Flatten(slices), reply, W, Len(reply) - W)
          /\ slices' = Dropped(slices, size)
      BY <1>2, <1>4, <1>13, Zenon DEF W
    <3> QED  BY <3>1, <2>17, SliceWritten, Zenon
  <2>19. /\ Placed(writer, TRUE)' /\ Offset(writer, TRUE)' = W + size
    <3>1. Placed(writer, TRUE)'
      BY <2>4, <2>5, <1>2, <1>10, Zenon DEF Placed, SameShape
    <3>2. Offset(writer, TRUE)' = Starts(TRUE)[writer'.at] + writer'.offset
      BY <2>8, Zenon DEF Offset
    <3>3. Offset(Advance(p, size), TRUE)
            = Starts(TRUE)[Advance(p, size).at] + Advance(p, size).offset
      BY Zenon DEF Offset
    <3> QED  BY <3>1, <3>2, <3>3, <1>2, <1>10, Zenon
  <2>20. /\ (Len(reply) - W) - size = Len(reply) - (W + size)
         /\ W + size <= Len(reply) /\ W \in Nat /\ size \in Nat
    <3>1. Len(reply) \in Nat /\ W \in Nat /\ size \in Nat
      BY <1>4, <1>8, <1>9, SeqShape, Zenon
    <3>2. size <= Len(reply) - W
      BY <2>18, Zenon
    <3> QED  BY <3>1, <3>2
  <2>21. ASSUME NEW k \in 1 .. W + size PROVE N[k] = reply[k]
    <3>1. k \in 1 .. Len(M) /\ W \in Nat /\ size \in Nat
      BY <2>2, <2>20, <1>8
    <3>2. CASE k <= W
      <4>1. k \in 1 .. W /\ k \notin W + 1 .. W + size
        BY <3>1, <3>2
      <4> QED  BY <4>1, <3>1, <2>16, <1>4, Zenon DEF Elsewhere, M, W
    <3>3. CASE ~(k <= W)
      <4>1. PICK i \in 1 .. size : k = W + i
        <5>1. k - W \in 1 .. size /\ k = W + (k - W)
          BY <3>1, <3>3
        <5> QED  BY <5>1, Zenon
      <4> QED  BY <4>1, <2>15, <2>18, <1>6, Zenon DEF Agrees
    <3> QED  BY <3>2, <3>3
  <2>22. ASSUME NEW k \in (W + size) + 1 .. Len(N) PROVE N[k] = Stale
    <3>1. /\ k \in W + 1 .. Len(M) /\ k \in 1 .. Len(M)
          /\ k \notin W + 1 .. W + size
      BY <2>10, <2>20, <1>8
    <3> QED  BY <3>1, <2>16, <1>4, Zenon DEF Elsewhere, M, W
  <2>23. Writing'
    <3>1. call' = "send" /\ sent' # "ok" /\ sent' # "error" /\ sent' = "no"
      BY <1>2, <1>5, <1>13
    <3> QED  BY <3>1, <2>18, <2>19, <2>20, <2>21, <2>22, <1>2, <1>4, <1>5,
             Zenon DEF Writing, N
  <2> QED  BY <2>6, <2>7, <2>23, <1>2, <1>5, <1>13, Zenon DEF PayloadInv
<1> QED  BY <1>3, <1>12, <1>13, Zenon

(* The chain as the driver posted it: every byte to be written is stale.   *)
LEMMA InitPayloadInv == Init => PayloadInv
<1> SUFFICES ASSUME Init PROVE PayloadInv
  OBVIOUS
<1>1. /\ reader = [at |-> NextPayload(0, FALSE), offset |-> 0]
      /\ position = 0 /\ cursor = 0 /\ call = "none" /\ from = 0
      /\ got = <<>> /\ result = "none"
      /\ writer = [at |-> NextPayload(0, TRUE), offset |-> 0]
      /\ slices = <<>> /\ reply = <<>> /\ sent = "no" /\ bytes_written = 0
  BY Zenon DEF Init
<1>2. PICK m \in 0 .. MaxBuffers : chain \in [1 .. m -> Buffer]
  BY DEF Init, UpTo
<1>3. ASSUME NEW k \in 1 .. m
      PROVE  /\ chain[k] \in [writeable : BOOLEAN,
                               data : Seq(Byte \cup {Stale})]
             /\ Len(chain[k].data) \in BufferLen
             /\ chain[k].writeable = FALSE => chain[k].data \in Seq(Byte)
             /\ chain[k].writeable = TRUE =>
                  \A i \in 1 .. Len(chain[k].data) : chain[k].data[i] = Stale
  <2> DEFINE c == chain[k]
  <2>1. c \in Buffer
    BY <1>2, Zenon
  <2> HIDE DEF c
  <2>2. CASE c \in [writeable : {FALSE},
                    data : UNION {[1 .. n -> Byte] : n \in BufferLen}]
    <3>1. PICK n \in BufferLen : c.data \in [1 .. n -> Byte]
      BY <2>2
    <3>2. n \in Nat
      BY PayloadAssumption
    <3>3. c.data \in Seq(Byte) /\ Len(c.data) = n
      BY <3>1, <3>2
    <3>4. c.data \in Seq(Byte \cup {Stale})
      BY <3>1, <3>2
    <3>5. /\ c.writeable = FALSE
          /\ c = [writeable |-> c.writeable, data |-> c.data]
      BY <2>2, Zenon
    <3>6. c \in [writeable : BOOLEAN, data : Seq(Byte \cup {Stale})]
      BY <3>4, <3>5, Zenon
    <3>7. c.writeable # TRUE
      BY <3>5, Zenon
    <3> QED  BY <3>3, <3>5, <3>6, <3>7, Zenon DEF c
  <2>3. CASE c \in [writeable : {TRUE},
                    data : {[j \in 1 .. n |-> Stale] : n \in BufferLen}]
    <3>1. PICK n \in BufferLen : c.data = [j \in 1 .. n |-> Stale]
      BY <2>3
    <3>2. n \in Nat
      BY PayloadAssumption
    <3>3. /\ c.data \in Seq(Byte \cup {Stale}) /\ Len(c.data) = n
          /\ \A i \in 1 .. n : c.data[i] = Stale
      BY <3>1, <3>2
    <3>4. /\ c.writeable = TRUE
          /\ c = [writeable |-> c.writeable, data |-> c.data]
      BY <2>3, Zenon
    <3>5. c \in [writeable : BOOLEAN, data : Seq(Byte \cup {Stale})]
      BY <3>3, <3>4, Zenon
    <3>6. c.writeable # FALSE
      BY <3>4, Zenon
    <3> QED  BY <3>3, <3>4, <3>5, <3>6, Zenon DEF c
  <2> QED  BY <2>1, <2>2, <2>3, Zenon DEF Buffer
<1>4. Len(chain) = m /\ DOMAIN chain = 1 .. m /\ m <= MaxBuffers /\ m \in Nat
  BY <1>2, PayloadAssumption
<1>5. Chained
  <2> DEFINE R == [writeable : BOOLEAN, data : Seq(Byte \cup {Stale})]
  <2>1. \A k \in 1 .. m : chain[k] \in R
    BY <1>3, Zenon
  <2>2. chain = [k \in 1 .. m |-> chain[k]]
    BY <1>2, Zenon
  <2> HIDE DEF R
  <2>3. chain \in [1 .. m -> R]
    BY <2>1, <2>2, Zenon
  <2>4. chain \in Seq(R)
    BY <2>3, <1>4
  <2>5. ASSUME NEW k \in 1 .. m, ~chain[k].writeable
        PROVE  chain[k].data \in Seq(Byte)
    BY <1>3, <2>1, <2>5, Zenon DEF R
  <2> QED  BY <2>4, <2>5, <1>3, <1>4, Zenon DEF Chained, R
<1>6. /\ FALSE \in BOOLEAN /\ TRUE \in BOOLEAN /\ 0 \in 0 .. Len(chain)
      /\ 0 + 1 = 1
  BY <1>4
<1>7. ASSUME NEW w \in BOOLEAN PROVE Starts(w)[1] = 0
  BY <1>5, StartsLaid, Zenon DEF Laid
<1>8. /\ Placed(reader, FALSE) /\ Offset(reader, FALSE) = 0
      /\ Placed(writer, TRUE) /\ Offset(writer, TRUE) = 0
  BY <1>1, <1>5, <1>6, <1>7, NextPlaced, Zenon
<1>9. /\ 0 \in Nat /\ <<>> \in Seq(Byte) /\ Len(<<>>) = 0 /\ 0 + 0 <= 0
      /\ 1 .. 0 = {} /\ <<>> \in Seq(Seq(Byte)) /\ 0 <= 2 /\ 0 <= 0
      /\ 0 - 0 = 0 /\ 0 + 0 = 0
  OBVIOUS
<1>10. Reading
  <2>1. /\ call # "until" /\ result # "until" /\ result # "read"
        /\ result # "einval"
    BY <1>1
  <2> QED  BY <2>1, <1>1, <1>8, <1>9, Zenon DEF Reading
<1>11. ASSUME NEW x \in 1 .. Len(Joined(TRUE)) PROVE Joined(TRUE)[x] = Stale
  <2>1. Remembered
    BY <1>5, Remembers, Zenon
  <2>2. InPart(x, Starts(TRUE), Len(chain), Lens(TRUE))
    BY <2>1, LaidCovers, Zenon DEF Remembered
  <2>3. PICK k \in 1 .. Len(chain), i \in Nat :
          i \in 1 .. Lens(TRUE)[k] /\ x = Starts(TRUE)[k] + i
    <3>1. ASSUME NEW j, NEW i \in 1 .. j PROVE i \in Nat
      OBVIOUS
    <3> QED  BY <2>2, <3>1, Zenon DEF InPart
  <2>4. Lens(TRUE)[k] = IF chain[k].writeable = TRUE
                          THEN Len(chain[k].data) ELSE 0
    BY Zenon DEF Lens
  <2>5. chain[k].writeable = TRUE /\ i \in 1 .. Len(chain[k].data)
    BY <2>3, <2>4, <1>9, Zenon
  <2>6. Joined(TRUE)[x] = chain[k].data[i]
    BY <2>1, <2>3, <2>5, Zenon DEF Remembered
  <2> QED  BY <2>5, <2>6, <1>3, <1>4, Zenon
<1>12. Flatten(slices) = <<>>
  BY <1>1, Zenon DEF Flatten
<1>13. Writing
  <2>1. sent # "ok" /\ sent # "error"
    BY <1>1
  <2> QED  BY <2>1, <1>1, <1>6, <1>8, <1>9, <1>11, <1>12, Zenon
           DEF Writing, Cut, Agrees
<1> QED  BY <1>1, <1>5, <1>10, <1>13, Zenon DEF PayloadInv

(* The invariant holds of every chain, and of every mixture of the calls.  *)
THEOREM PayloadInvariance == Spec => []PayloadInv
<1>1. PayloadInv /\ [Next]_vars => PayloadInv'
  <2> SUFFICES ASSUME PayloadInv, [Next]_vars PROVE PayloadInv'
    OBVIOUS
  <2>1. ASSUME NEW n \in 1 .. MaxRead, Read(n) PROVE PayloadInv'
    BY <2>1, ReadKeeps
  <2>2. CASE BeginReadUntil
    BY <2>2, BeginReadUntilKeeps
  <2>3. CASE ReadUntil
    BY <2>3, ReadUntilKeeps
  <2>4. CASE ReadFault
    BY <2>4, ReadFaultKeeps
  <2>5. CASE Write
    BY <2>5, WriteKeeps
  <2>6. CASE \/ Invalid \/ EndSend \/ NextSlice \/ WriteFault
             \/ \E a, b \in Bytes : BeginSend(<<a, b>>)
    BY <2>6, NothingWritten, Zenon
  <2>7. CASE UNCHANGED vars
    <3>1. /\ chain' = chain /\ call' = call /\ UNCHANGED readVars
          /\ UNCHANGED sendVars
      BY <2>7, Zenon DEF vars
    <3>2. UNCHANGED <<chain, call, reader, position, cursor, from, got, result,
                      writer, slices, reply, sent, bytes_written>>
      BY <3>1, Zenon DEF readVars, sendVars
    <3>3. Chained /\ Reading /\ Writing
      BY Zenon DEF PayloadInv
    <3>4. /\ Chained' /\ Joined(TRUE)' = Joined(TRUE) /\ Request' = Request
          /\ Starts(TRUE)' = Starts(TRUE) /\ Starts(FALSE)' = Starts(FALSE)
      BY <3>1, <3>3, ChainKept, Zenon
    <3>5. /\ Placed(reader, FALSE)' <=> Placed(reader, FALSE)
          /\ Placed(writer, TRUE)' <=> Placed(writer, TRUE)
          /\ AtEnd(reader)' <=> AtEnd(reader)
          /\ AtEnd(writer)' <=> AtEnd(writer)
      BY <3>2, Zenon DEF Placed, AtEnd
    <3>6. /\ Offset(reader, FALSE)' = Offset(reader, FALSE)
          /\ Offset(writer, TRUE)' = Offset(writer, TRUE)
      BY <3>2, <3>4, Zenon DEF Offset
    <3>7. Reading'
      BY <3>2, <3>3, <3>4, <3>5, <3>6, Zenon DEF Reading
    <3>8. Writing'
      BY <3>2, <3>3, <3>4, <3>5, <3>6, Zenon DEF Writing
    <3> QED  BY <3>2, <3>4, <3>7, <3>8, Zenon DEF PayloadInv
  <2> QED  BY <2>1, <2>2, <2>3, <2>4, <2>5, <2>6, <2>7, Zenon DEF Next, Done
<1> QED  BY <1>1, InitPayloadInv, PTL DEF Spec

(* The types, and that the reader and the writer stay within the chain.    *)
THEOREM PayloadTypeCorrect == Spec => []TypeOK
<1>1. PayloadInv => TypeOK
  <2> SUFFICES ASSUME PayloadInv PROVE TypeOK
    OBVIOUS
  <2>1. Chained /\ Reading /\ Writing /\ FALSE \in BOOLEAN /\ TRUE \in BOOLEAN
    BY Zenon DEF PayloadInv
  <2>2. Len(chain) \in Nat /\ Len(chain) <= MaxBuffers
    BY <2>1, StartsLaid, Zenon DEF Chained
  <2>3. Placed(reader, FALSE) /\ Placed(writer, TRUE)
    BY <2>1, Zenon DEF Reading, Writing
  <2>4. ASSUME NEW p, NEW w, Placed(p, w)
        PROVE  /\ p \in Place
               /\ p.at <= Len(chain) => p.offset <= Len(chain[p.at].data)
    <3>1. 1 .. Len(chain) + 1 \subseteq 1 .. MaxBuffers + 1
      BY <2>2, PayloadAssumption
    <3>2. p \in Place
      BY <2>4, <3>1, Zenon DEF Placed, Place
    <3>3. ~(Len(chain) + 1 <= Len(chain))
      BY <2>2
    <3> QED  BY <2>4, <3>2, <3>3, Zenon DEF Placed
  <2>5. /\ cursor \in Nat /\ Len(Request) \in Nat /\ cursor <= Len(Request)
    <3>1. cursor = Offset(reader, FALSE)
      BY <2>1, Zenon DEF Reading
    <3>2. /\ Offset(reader, FALSE) \in Nat /\ Len(Request) \in Nat
          /\ AtEnd(reader) => Offset(reader, FALSE) = Len(Request)
          /\ ~AtEnd(reader) => /\ Remaining(reader) \in Nat
                               /\ Offset(reader, FALSE) + Remaining(reader)
                                    <= Len(Request)
      BY <2>1, <2>3, PlacedAt, Zenon DEF Request
    <3>3. CASE AtEnd(reader)
      <4>1. cursor \in Nat /\ cursor = Len(Request)
        BY <3>1, <3>2, <3>3, Zenon
      <4> QED  BY <4>1
    <3>4. CASE ~AtEnd(reader)
      <4>1. /\ cursor \in Nat /\ Len(Request) \in Nat
            /\ Remaining(reader) \in Nat
            /\ cursor + Remaining(reader) <= Len(Request)
        BY <3>1, <3>2, <3>4, Zenon
      <4> QED  BY <4>1
    <3> QED  BY <3>3, <3>4
  <2>6. /\ position \in Nat /\ from \in Nat /\ got \in Seq(Byte)
        /\ from + Len(got) <= cursor
    BY <2>1, Zenon DEF Reading
  <2>7. cursor \in 0 .. Len(Request) /\ from \in 0 .. cursor
    <3>1. Len(got) \in Nat
      BY <2>6
    <3> QED  BY <3>1, <2>5, <2>6
  <2>8. bytes_written \in Nat
    <3>1. bytes_written = 0 \/ bytes_written = Len(reply)
      BY <2>1, Zenon DEF Writing
    <3>2. Len(reply) \in Nat
      BY <2>1, SeqShape, Zenon DEF Writing
    <3> QED  BY <3>1, <3>2
  <2>9. slices \in Seq(Seq(Byte)) /\ reply \in Seq(Byte)
    BY <2>1, Zenon DEF Writing
  <2> QED  BY <2>2, <2>3, <2>4, <2>6, <2>7, <2>8, <2>9, Zenon
           DEF TypeOK, PayloadInv
<1> QED  BY <1>1, PayloadInvariance, PTL

(* A sequence that agrees with another is the part of it SubSeq gives.     *)
LEMMA AgreeingSubSeq ==
  ASSUME NEW A, NEW u \in Seq(A), NEW s \in Seq(A), NEW o \in Nat,
         o + Len(u) <= Len(s), Agrees(u, s, o, Len(u))
  PROVE  u = SubSeq(s, o + 1, o + Len(u))
<1> DEFINE v == SubSeq(s, o + 1, o + Len(u))
<1>1. Len(u) \in Nat /\ Cut(u, s, o, Len(u))
  BY SeqShape, Zenon DEF Cut
<1>2. v \in Seq(A) /\ Cut(v, s, o, Len(u))
  BY <1>1, SubSeqCuts, Zenon
<1> HIDE DEF v
<1>3. u = v
  BY <1>1, <1>2, SameCut
<1> QED  BY <1>3 DEF v

(* What read and read_until return is the request, byte for byte and in    *)
(* order, over any buffers, empty ones included, and any mixture of calls; *)
(* read_until stops before the first byte it looks for and leaves the      *)
(* reader behind it.                                                       *)
ReadsInOrder ==
  /\ got = SubSeq(Request, from + 1, from + Len(got))
  /\ result = "until" =>
       /\ cursor = from + Len(got) + 1
       /\ Request[cursor] = Nul /\ Nul \notin Range(got)

(* PayloadReader gives the request in order, for chains of any length.     *)
THEOREM RequestInOrder == Spec => []ReadsInOrder
<1>1. PayloadInv /\ TypeOK => ReadsInOrder
  <2> SUFFICES ASSUME PayloadInv, TypeOK PROVE ReadsInOrder
    OBVIOUS
  <2>1. Chained /\ Reading
    BY Zenon DEF PayloadInv
  <2>2. /\ from \in Nat /\ got \in Seq(Byte) /\ from + Len(got) <= cursor
        /\ Agrees(got, Request, from, Len(got))
    BY <2>1, Zenon DEF Reading, Agrees
  <2>3. Request \in Seq(Byte)
    BY <2>1, JoinedBytes, Zenon
  <2>4. from + Len(got) <= Len(Request)
    <3>1. cursor \in 0 .. Len(Request)
      BY Zenon DEF TypeOK
    <3>2. Len(got) \in Nat /\ Len(Request) \in Nat /\ from \in Nat
          /\ from + Len(got) <= cursor
      BY <2>2, <2>3, SeqShape, Zenon
    <3> QED  BY <3>1, <3>2
  <2>5. got = SubSeq(Request, from + 1, from + Len(got))
    BY <2>2, <2>3, <2>4, AgreeingSubSeq, Zenon
  <2>6. ASSUME result = "until"
        PROVE  /\ cursor = from + Len(got) + 1
               /\ Request[cursor] = Nul /\ Nul \notin Range(got)
    <3>1. DOMAIN got = 1 .. Len(got)
      BY <2>2, SeqShape, Zenon
    <3> QED  BY <2>1, <2>6, <3>1, Zenon DEF Reading, NulFree, Range
  <2> QED  BY <2>5, <2>6, Zenon DEF ReadsInOrder
<1> QED  BY <1>1, PayloadInvariance, PayloadTypeCorrect, PTL

(* And where no buffer is empty, it says that the request is used up only  *)
(* when it is.                                                             *)
THEOREM RequestIsRead ==
  ASSUME 0 \notin BufferLen
  PROVE  Spec => []ReadsTheRequest
<1>1. PayloadInv /\ ReadsInOrder => ReadsTheRequest
  <2> SUFFICES ASSUME PayloadInv, ReadsInOrder PROVE ReadsTheRequest
    OBVIOUS
  <2>1. Chained /\ Reading /\ FALSE \in BOOLEAN
    BY Zenon DEF PayloadInv
  <2>2. AtEnd(reader) => cursor = Len(Request)
    BY <2>1, PlacedAt, Zenon DEF Reading, Request
  <2>3. (result = "read" /\ got = <<>>) \/ result = "einval" => AtEnd(reader)
    BY <2>1, Zenon DEF Reading
  <2> QED  BY <2>2, <2>3, Zenon DEF ReadsTheRequest, ReadsInOrder
<1> QED  BY <1>1, PayloadInvariance, RequestInOrder, PTL

(* The used ring is told of exactly the bytes of a whole reply, which are  *)
(* in the writable buffers from their beginning with nothing behind them   *)
(* touched; of a reply that failed, or of none, it is told nothing.        *)
ReplyWhole ==
  LET memory == Joined(TRUE)
  IN  /\ sent = "ok" =>
           /\ bytes_written = Len(reply) /\ bytes_written <= Len(memory)
           /\ reply = SubSeq(memory, 1, bytes_written)
           /\ \A k \in bytes_written + 1 .. Len(memory) : memory[k] = Stale
      /\ sent # "ok" => bytes_written = 0

(* PayloadReplySender writes the reply and nothing else, for chains of any *)
(* length, empty buffers included.                                         *)
THEOREM ReplyIsWhole == Spec => []ReplyWhole
<1>1. PayloadInv => ReplyWhole
  <2> SUFFICES ASSUME PayloadInv PROVE ReplyWhole
    OBVIOUS
  <2> DEFINE M == Joined(TRUE)
             W == Offset(writer, TRUE)
  <2>1. Chained /\ Writing /\ TRUE \in BOOLEAN
    BY Zenon DEF PayloadInv
  <2>2. sent # "ok" => bytes_written = 0
    BY <2>1, Zenon DEF Writing
  <2>3. ASSUME sent = "ok"
        PROVE  /\ bytes_written = Len(reply) /\ bytes_written <= Len(M)
               /\ reply = SubSeq(M, 1, bytes_written)
               /\ \A k \in bytes_written + 1 .. Len(M) : M[k] = Stale
    <3>1. /\ slices = <<>> /\ bytes_written = Len(reply) /\ reply \in Seq(Byte)
          /\ Placed(writer, TRUE) /\ W <= Len(reply)
          /\ Cut(Flatten(slices), reply, W, Len(reply) - W)
          /\ \A k \in 1 .. W : M[k] = reply[k]
          /\ \A k \in W + 1 .. Len(M) : M[k] = Stale
      BY <2>1, <2>3, Zenon DEF Writing
    <3>2. /\ W \in Nat /\ Len(M) \in Nat
          /\ AtEnd(writer) => W = Len(M)
          /\ ~AtEnd(writer) => Remaining(writer) \in Nat
                               /\ W + Remaining(writer) <= Len(M)
      BY <3>1, <2>1, PlacedAt, Zenon
    <3>3. Len(<<>>) = 0 /\ Len(reply) \in Nat
      BY <3>1
    <3>4. Flatten(slices) = <<>>
      BY <3>1, <3>3, Zenon DEF Flatten
    <3>5. 0 = Len(reply) - W
      BY <3>1, <3>3, <3>4, Zenon DEF Cut
    <3> HIDE DEF W
    <3>6. W = Len(reply)
      BY <3>2, <3>3, <3>5
    <3>7. Len(reply) <= Len(M)
      <4>1. CASE AtEnd(writer)
        <5>1. Len(reply) = Len(M)
          BY <3>2, <3>6, <4>1, Zenon
        <5> QED  BY <5>1, <3>3
      <4>2. CASE ~AtEnd(writer)
        <5>1. /\ Remaining(writer) \in Nat /\ Len(M) \in Nat
              /\ Len(reply) + Remaining(writer) <= Len(M)
          BY <3>2, <3>6, <4>2, Zenon
        <5> HIDE DEF M
        <5> QED  BY <5>1, <3>3
      <4> QED  BY <4>1, <4>2, Zenon
    <3>8. M \in Seq(Byte \cup {Stale}) /\ reply \in Seq(Byte \cup {Stale})
      <4>1. reply \in Seq(Byte \cup {Stale})
        BY <3>1
      <4> QED  BY <4>1, <2>1, JoinedBytes, Zenon
    <3> HIDE DEF M
    <3>9. reply = SubSeq(M, 1, Len(reply))
      <4>1. \A k \in 1 .. Len(reply) : M[k] = reply[k]
        BY <3>1, <3>6, Zenon
      <4>2. reply = SubSeq(M, 1, Len(reply))
        BY <4>1, <3>3, <3>7, <3>8
      <4> QED  BY <4>2
    <3> QED  BY <3>1, <3>6, <3>7, <3>9, Zenon
  <2> QED  BY <2>2, <2>3, Zenon DEF ReplyWhole
<1> QED  BY <1>1, PayloadInvariance, PTL

(* And where no buffer is empty, send runs out of buffers only if the      *)
(* reply does not fit.                                                     *)
THEOREM ReplyIsExact ==
  ASSUME 0 \notin BufferLen
  PROVE  Spec => []ReplyExact
<1>1. PayloadInv /\ ReplyWhole => ReplyExact
  <2> SUFFICES ASSUME PayloadInv, ReplyWhole, sent = "error"
               PROVE  Len(reply) > Len(Joined(TRUE))
    BY Zenon DEF ReplyWhole, ReplyExact
  <2>1. Chained /\ Writing /\ TRUE \in BOOLEAN
    BY Zenon DEF PayloadInv
  <2> DEFINE W == Offset(writer, TRUE)
  <2>2. /\ Placed(writer, TRUE) /\ slices # <<>> /\ slices[1] # <<>>
        /\ AtEnd(writer) /\ slices \in Seq(Seq(Byte)) /\ Len(slices) <= 2
        /\ reply \in Seq(Byte)
        /\ Cut(Flatten(slices), reply, W, Len(reply) - W)
    BY <2>1, Zenon DEF Writing
  <2>3. W = Len(Joined(TRUE)) /\ W \in Nat
    BY <2>1, <2>2, PlacedAt, Zenon
  <2>4. /\ slices[1] \in Seq(Byte) /\ Flatten(Tail(slices)) \in Seq(Byte)
        /\ Flatten(slices) = slices[1] \o Flatten(Tail(slices))
    BY <2>2, FlattenHead, Zenon
  <2>5. Len(slices[1]) \in Nat \ {0} /\ Len(Flatten(Tail(slices))) \in Nat
    BY <2>2, <2>4, SeqNone, SeqShape, Zenon
  <2>6. Len(Flatten(slices))
          = Len(slices[1]) + Len(Flatten(Tail(slices)))
    <3>1. Joins(Flatten(slices), slices[1], Flatten(Tail(slices)))
      BY <2>4, ConcatAt, Zenon
    <3> QED  BY <3>1, Zenon DEF Joins
  <2>7. Len(reply) - W = Len(Flatten(slices)) /\ Len(reply) \in Nat
    BY <2>2, SeqShape, Zenon DEF Cut
  <2> HIDE DEF W
  <2>8. Len(reply) > W
    <3>1. PICK a \in Nat \ {0}, b \in Nat : Len(reply) - W = a + b
      BY <2>5, <2>6, <2>7, Zenon
    <3>2. Len(reply) \in Nat /\ W \in Nat
      BY <2>3, <2>7, Zenon
    <3> QED  BY <3>1, <3>2
  <2> QED  BY <2>3, <2>8, Zenon
<1> QED  BY <1>1, PayloadInvariance, ReplyIsWhole, PTL
=============================================================================
