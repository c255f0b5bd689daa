------------------------------- MODULE Payload ------------------------------
(***************************************************************************)
(* A FUSE request and its reply in a descriptor chain: PayloadReader,      *)
(* PayloadWriter and PayloadReplySender of crates/virtio-hdv/src/          *)
(* payload.rs, used by dispatch_one of offload.rs.                         *)
(*                                                                         *)
(* The chain is a sequence of buffers, some for the device to read, some   *)
(* for it to write.  A reader and a writer each walk the buffers of their  *)
(* kind, one buffer per call; read_until and write_all are loops over such *)
(* calls.  The reference is the plain byte string a walk stands for.       *)
(***************************************************************************)
EXTENDS Naturals, Sequences, FiniteSetsExt, Functions

CONSTANTS
  Byte,
  Nul,           \* the byte read_until is asked for
  MaxBuffers,    \* bound: buffers in a chain
  BufferLen,     \* lengths of a buffer
  MaxRead,       \* bound: bytes asked of one read
  MaxReply,      \* bound: bytes in a slice of the reply
  Stale          \* what a reply buffer holds before it is written

ASSUME PayloadAssumption ==
  /\ Nul \in Byte /\ Stale \notin Byte
  /\ MaxBuffers \in Nat /\ MaxRead \in Nat /\ MaxReply \in Nat
  /\ BufferLen \subseteq Nat

VARIABLES
  chain,      \* the buffers: [writeable, data]
  reader,     \* PayloadReader: [at, offset], its buffer and the place in it
  position,   \* PayloadReader.position
  cursor,     \* reference: bytes of the request consumed
  call,       \* the call under way: "none", "until" or "send"
  from,       \* where the last call on the reader began
  got,        \* what the last call on the reader returned (so far)
  result,     \* how it ended: "none", "read", "until", "einval", "fault"
  writer,     \* PayloadWriter, as the reader
  slices,     \* send: the slices still to write
  reply,      \* send: all of them, joined
  sent,       \* how it ended: "no", "ok", "error", "fault" or "invalid"
  bytes_written  \* what dispatch_one returns for the used ring

readVars == <<reader, position, cursor, from, got, result>>
sendVars == <<writer, slices, reply, sent, bytes_written>>
vars == <<chain, call, readVars, sendVars>>

-----------------------------------------------------------------------------
(* Sequences of at most n members of S; parts laid end to end.             *)
UpTo(n, S) == UNION {[1 .. m -> S] : m \in 0 .. n}

Flatten(parts) ==
  LET upto[k \in 1 .. Len(parts)] ==
        IF k = 1 THEN parts[k] ELSE upto[k - 1] \o parts[k]
  IN  IF parts = <<>> THEN <<>> ELSE upto[Len(parts)]

Buffer ==
  [writeable : {FALSE}, data : UNION {[1 .. n -> Byte] : n \in BufferLen}]
    \cup [writeable : {TRUE},
          data : {[k \in 1 .. n |-> Stale] : n \in BufferLen}]

(* The buffers of one kind, joined.                                        *)
Joined(w) ==
  Flatten([k \in DOMAIN chain |->
             IF chain[k].writeable = w THEN chain[k].data ELSE <<>>])
Request == Joined(FALSE)

Place == [at : 1 .. MaxBuffers + 1, offset : Nat]

TypeOK ==
  /\ Len(chain) <= MaxBuffers
  /\ reader \in Place /\ writer \in Place
  /\ reader.at <= Len(chain) => reader.offset <= Len(chain[reader.at].data)
  /\ writer.at <= Len(chain) => writer.offset <= Len(chain[writer.at].data)
  /\ position \in Nat /\ cursor \in 0 .. Len(Request) /\ from \in 0 .. cursor
  /\ call \in {"none", "until", "send"}
  /\ got \in Seq(Byte)
  /\ result \in {"none", "read", "until", "einval", "fault"}
  /\ slices \in Seq(Seq(Byte)) /\ reply \in Seq(Byte)
  /\ sent \in {"no", "ok", "error", "fault", "invalid"}
  /\ bytes_written \in Nat

-----------------------------------------------------------------------------
(* next_payload: the next buffer of the kind after index k.                *)
NextPayload(k, w) ==
  Min({j \in k + 1 .. Len(chain) : chain[j].writeable = w}
        \cup {Len(chain) + 1})

AtEnd(p) == p.at > Len(chain)
Remaining(p) == Len(chain[p.at].data) - p.offset

GetPayload(p, w) ==
  IF ~AtEnd(p) /\ Remaining(p) = 0
    THEN [at |-> NextPayload(p.at, w), offset |-> 0]
    ELSE p

Advance(p, n) == [p EXCEPT !.offset = @ + n]

Init ==
  /\ chain \in UpTo(MaxBuffers, Buffer)
  /\ reader = [at |-> NextPayload(0, FALSE), offset |-> 0]
  /\ position = 0 /\ cursor = 0
  /\ call = "none" /\ from = 0
  /\ got = <<>> /\ result = "none"
  /\ writer = [at |-> NextPayload(0, TRUE), offset |-> 0]
  /\ slices = <<>> /\ reply = <<>> /\ sent = "no" /\ bytes_written = 0

-----------------------------------------------------------------------------
(* read: at most what is left of one buffer.  The session reads the        *)
(* request before it sends its reply.                                      *)
Read(n) ==
  LET p == GetPayload(reader, FALSE)
      size == IF AtEnd(p) THEN 0 ELSE Min({Remaining(p), n})
  IN  /\ call = "none" /\ sent = "no"
      /\ reader' = Advance(p, size)
      /\ position' = position + size
      /\ cursor' = cursor + size
      /\ from' = cursor
      /\ got' = IF AtEnd(p) THEN <<>>
                ELSE SubSeq(chain[p.at].data, p.offset + 1, p.offset + size)
      /\ result' = "read"
      /\ UNCHANGED <<chain, call, sendVars>>

BeginReadUntil ==
  /\ call = "none" /\ sent = "no"
  /\ call' = "until"
  /\ from' = cursor
  /\ got' = <<>> /\ result' = "none"
  /\ UNCHANGED <<chain, reader, position, cursor, sendVars>>

(* A slip: rewind to the byte itself, not past it.                         *)
FoundBefore(r) == Min({k \in DOMAIN r : r[k] = Nul}) - 1

(* How many bytes of the rest r up to and including the byte looked for.   *)
Found(r) == Min({k \in DOMAIN r : r[k] = Nul})

(* One round of read_until: read the rest of the buffer, look, rewind.     *)
ReadUntil ==
  LET p == GetPayload(reader, FALSE)
      r == IF AtEnd(p) THEN <<>> ELSE SubSeq(chain[p.at].data, p.offset + 1,
                                             Len(chain[p.at].data))
  IN  /\ call = "until"
      /\ IF r = <<>>
           THEN /\ call' = "none" /\ result' = "einval"
                /\ reader' = p
                /\ UNCHANGED <<position, cursor, got>>
         ELSE IF Nul \in Range(r)
           THEN /\ call' = "none" /\ result' = "until"
                /\ reader' = Advance(p, Found(r))
                /\ position' = position + Len(r)
                /\ cursor' = cursor + Found(r)
                /\ got' = got \o SubSeq(r, 1, Found(r) - 1)
           ELSE /\ reader' = Advance(p, Len(r))
                /\ position' = position + Len(r)
                /\ cursor' = cursor + Len(r)
                /\ got' = got \o r
                /\ UNCHANGED <<call, result>>
      /\ UNCHANGED <<chain, from, sendVars>>

(* guest_memory.read_at fails: the reader has moved to the buffer, its     *)
(* offset and position have not; the error ends read and read_until.       *)
ReadFault ==
  LET p == GetPayload(reader, FALSE)
  IN  /\ call \in {"none", "until"} /\ sent = "no"
      /\ ~AtEnd(p)
      /\ reader' = p
      /\ call' = "none" /\ result' = "fault"
      /\ from' = cursor /\ got' = <<>>
      /\ UNCHANGED <<chain, position, cursor, sendVars>>

-----------------------------------------------------------------------------
(* dispatch_one: a message Request::new cannot make sense of is not        *)
(* dispatched; nothing is written.                                         *)
Invalid ==
  /\ call = "none" /\ sent = "no"
  /\ sent' = "invalid"
  /\ UNCHANGED <<chain, call, readVars, writer, slices, reply, bytes_written>>

(* PayloadReplySender::send, once per request.                             *)
BeginSend(bufs) ==
  /\ call = "none" /\ sent = "no"
  /\ call' = "send"
  /\ slices' = bufs
  /\ reply' = Flatten(bufs)
  /\ UNCHANGED <<chain, readVars, writer, sent, bytes_written>>

(* A slip: a reply that does not fit is cut short.                         *)
EndSendShort ==
  /\ call = "send"
  /\ slices = <<>> \/ AtEnd(GetPayload(writer, TRUE))
  /\ call' = "none" /\ sent' = "ok"
  /\ bytes_written' = Len(reply)
  /\ UNCHANGED <<chain, readVars, writer, slices, reply>>

EndSend ==
  /\ call = "send" /\ slices = <<>>
  /\ call' = "none" /\ sent' = "ok"
  /\ bytes_written' = Len(reply)
  /\ UNCHANGED <<chain, readVars, writer, slices, reply>>

(* A slice is written.                                                     *)
NextSlice ==
  /\ call = "send" /\ slices # <<>> /\ Head(slices) = <<>>
  /\ slices' = Tail(slices)
  /\ UNCHANGED <<chain, call, readVars, writer, reply, sent, bytes_written>>

(* One write of write_all: at most what is left of one buffer; nothing     *)
(* left is an error that ends send, with bytes_written still 0.            *)
Write ==
  LET p == GetPayload(writer, TRUE)
      buf == Head(slices)
      size == IF AtEnd(p) THEN 0 ELSE Min({Remaining(p), Len(buf)})
  IN  /\ call = "send" /\ slices # <<>> /\ Head(slices) # <<>>
      /\ writer' = Advance(p, size)
      /\ IF size = 0
           THEN /\ call' = "none" /\ sent' = "error"
                /\ UNCHANGED <<chain, slices>>
           ELSE /\ chain' = [chain EXCEPT ![p.at].data =
                               [k \in DOMAIN @ |->
                                  IF k \in p.offset + 1 .. p.offset + size
                                    THEN buf[k - p.offset] ELSE @[k]]]
                /\ slices' = [slices EXCEPT ![1] =
                                SubSeq(@, size + 1, Len(@))]
                /\ UNCHANGED <<call, sent>>
      /\ UNCHANGED <<readVars, reply, bytes_written>>

(* guest_memory.write_at fails and ends send, with bytes_written still 0.  *)
WriteFault ==
  LET p == GetPayload(writer, TRUE)
  IN  /\ call = "send" /\ slices # <<>> /\ Head(slices) # <<>>
      /\ ~AtEnd(p)
      /\ writer' = p
      /\ call' = "none" /\ sent' = "fault"
      /\ UNCHANGED <<chain, readVars, slices, reply, bytes_written>>

(* The reply ends the dispatch of the request.                             *)
Done ==
  /\ call = "none" /\ sent # "no"
  /\ UNCHANGED vars

Bytes == UpTo(MaxReply, Byte)

Next ==
  \/ \E n \in 1 .. MaxRead : Read(n)
  \/ BeginReadUntil \/ ReadUntil \/ ReadFault \/ Invalid
  \/ \E a, b \in Bytes : BeginSend(<<a, b>>)
  \/ Write \/ WriteFault \/ NextSlice \/ EndSend
  \/ Done

Spec == Init /\ [][Next]_vars

-----------------------------------------------------------------------------
(* What read and read_until return is the request, byte for byte and in    *)
(* order, whatever buffers it is spread over and however the two calls are *)
(* mixed; read_until stops before the first byte it looks for and leaves   *)
(* the reader behind it.  A read of nothing, and EINVAL of read_until,     *)
(* mean that the request is used up: get_payload "takes care of moving to  *)
(* the next payload buffer if the current offset matches the end".  That   *)
(* holds for buffers that are not empty; an empty one in the middle reads  *)
(* as the end.                                                             *)
ReadsTheRequest ==
  /\ got = SubSeq(Request, from + 1, from + Len(got))
  /\ result = "until" =>
       /\ cursor = from + Len(got) + 1
       /\ Request[cursor] = Nul /\ Nul \notin Range(got)
  /\ (result = "read" /\ got = <<>>) \/ result = "einval" =>
       cursor = Len(Request)

(* The used ring is told of exactly the bytes of a whole reply, which are  *)
(* in the writable buffers from their beginning with nothing behind them   *)
(* touched; of a reply that failed, or of none, it is told nothing.  send  *)
(* runs out of buffers only if the reply does not fit.                     *)
ReplyExact ==
  LET memory == Joined(TRUE)
  IN  /\ sent = "ok" =>
           /\ bytes_written = Len(reply) /\ bytes_written <= Len(memory)
           /\ reply = SubSeq(memory, 1, bytes_written)
           /\ \A k \in bytes_written + 1 .. Len(memory) : memory[k] = Stale
      /\ sent # "ok" => bytes_written = 0
      /\ sent = "error" => Len(reply) > Len(memory)
=============================================================================
