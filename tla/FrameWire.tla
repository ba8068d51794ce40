------------------------------ MODULE FrameWire ------------------------------
(***************************************************************************)
(* Frames on the wire, byte by byte: how the messages of the services are  *)
(* split into frames and the frames into bytes, and how the bytes the      *)
(* phone sends, which arrive in chunks that end anywhere, become messages  *)
(* again.  (MessagePipeline has the order in which all that happens.)      *)
(***************************************************************************)
EXTENDS Naturals, Sequences, SequencesExt

CONSTANT MaxPayload    \* MAX_FRAME_PAYLOAD_SIZE

ASSUME MaxPayloadAssumption == MaxPayload \in Nat \ {0} /\ MaxPayload < 65536

\* A message is [service, payload], its payload a sequence of bytes.
Split(m) ==
    LET n == Len(m.payload)
        count == (n + MaxPayload - 1) \div MaxPayload
        End(i) == IF i = count THEN n ELSE i * MaxPayload
    IN  [i \in 1 .. count |->
            [service |-> m.service, first |-> i = 1, last |-> i = count,
             total |-> IF i = 1 /\ i # count THEN n ELSE 0,
             payload |-> SubSeq(m.payload, (i - 1) * MaxPayload + 1, End(i))]]

Uint16(n) == <<(n \div 256) % 256, n % 256>>
Uint32(n) == Uint16(n \div 65536) \o Uint16(n)

FrameHeaderFlags(f) == (IF f.first THEN 1 ELSE 0) + (IF f.last THEN 2 ELSE 0)
Header(f) == <<f.service, FrameHeaderFlags(f)>> \o Uint16(Len(f.payload))

\* The bytes of a frame as they should be; the phone sends them.
Bytes(f) == Header(f) \o (IF f.total # 0 THEN Uint32(f.total) ELSE <<>>)
                \o f.payload

\* encodeFrameData: appendUint32BE makes room for two bytes and then writes
\* four, which throws.  Nothing is written of such a frame.
EncodeFrameData(f) == IF f.total # 0 THEN <<>> ELSE <<Bytes(f)>>

\* Each frame is encoded and written on its own: that one throws does not
\* keep the others of its message from being sent.
SendMessage(m) ==
    FlattenSeq([i \in DOMAIN Split(m) |-> EncodeFrameData(Split(m)[i])])

-----------------------------------------------------------------------------
ReadUint16(bs, i) == bs[i] * 256 + bs[i + 1]

\* readUint32BE steps over four bytes of which it reads two.
ReadUint32(bs, i) == ReadUint16(bs, i)

Nothing == [size |-> 0]

\* The frame bs starts with, and its size, or Nothing while it is not whole.
DecodeOne(bs) ==
    LET first == bs[2] % 2 = 1
        last == (bs[2] \div 2) % 2 = 1
        start == IF first /\ ~last THEN 8 ELSE 4
        size == start + ReadUint16(bs, 3)
    IN  IF Len(bs) < 4 \/ Len(bs) < start \/ Len(bs) < size THEN Nothing
        ELSE [size |-> size,
              frame |-> [service |-> bs[1], first |-> first, last |-> last,
                         total |-> IF start = 8 THEN ReadUint32(bs, 5) ELSE 0,
                         payload |-> SubSeq(bs, start + 1, size)]]

\* One round of decodeBuffer, with [frames, rest]: what is decoded so far.
Decode(d) ==
    LET one == DecodeOne(d.rest)
    IN  IF d.rest = <<>> \/ one = Nothing THEN d
        ELSE [frames |-> Append(d.frames, one.frame),
              rest |-> SubSeq(d.rest, one.size + 1, Len(d.rest))]

\* decodeBuffer; rest is kept for the next chunk.  The loop has ended after as
\* many rounds as there are bytes.
DecodeBuffer(bs) ==
    LET decoded[n \in 0 .. Len(bs)] ==
            IF n = 0 THEN [frames |-> <<>>, rest |-> bs] ELSE Decode(decoded[n - 1])
    IN  decoded[Len(bs)]

\* aggregate: a message is [service, payload] again.  The phone begins each
\* with a first frame, as the code asserts (MessagePipeline has the asserts).
Idle == [service \in 0 .. 255 |-> <<>>]

\* Mutant: what has been gathered is not forgotten at the end.
Aggregate_Kept(got, f) ==
    LET payload == got.open[f.service] \o f.payload
    IN  [open |-> [got.open EXCEPT ![f.service] = payload],
         messages |-> IF ~f.last THEN got.messages
                      ELSE Append(got.messages, [service |-> f.service,
                                                 payload |-> payload])]

Aggregate(got, f) ==
    LET payload == got.open[f.service] \o f.payload
    IN  IF f.last
        THEN [open |-> [got.open EXCEPT ![f.service] = <<>>],
              messages |-> Append(got.messages,
                                  [service |-> f.service, payload |-> payload])]
        ELSE [got EXCEPT !.open[f.service] = payload]

\* onDeviceTransportDataAsync: what is made of a chunk, with [rest, open,
\* messages]: what is made of those before it.
ReceiveChunk(got, bs) ==
    LET decoded == DecodeBuffer(got.rest \o bs)
        all == FoldLeft(Aggregate, [open |-> got.open, messages |-> got.messages],
                        decoded.frames)
    IN  [rest |-> decoded.rest, open |-> all.open, messages |-> all.messages]

\* What is made of the chunks, one after the other.
ReceiveChunks(chunks) ==
    LET received[n \in 0 .. Len(chunks)] ==
            IF n = 0 THEN [rest |-> <<>>, open |-> Idle, messages |-> <<>>]
            ELSE ReceiveChunk(received[n - 1], chunks[n])
    IN  received[Len(chunks)]
=============================================================================
