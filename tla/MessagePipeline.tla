--------------------------- MODULE MessagePipeline ---------------------------
(***************************************************************************)
(* The way of a message between the transport and the services.            *)
(*                                                                         *)
(* The transport gives the server the phone's stream in events that end    *)
(* anywhere.  FrameCodec cuts it into frames and keeps what is left; each  *)
(* event is a task of its own that has its encrypted frames decrypted one  *)
(* after the other, each under the mutex of the cryptor, and then hands    *)
(* all its frames to MessageAggregator, which dispatches the messages they *)
(* complete.  What the services send is encrypted under another mutex and  *)
(* given to the transport.                                                 *)
(*                                                                         *)
(* Phone and TLS engine are external.  The engine takes any time for an    *)
(* answer.  It accepts a record only after the one the phone made before   *)
(* it; after any other it answers nothing more.  When the cryptor is       *)
(* stopped, the read that waits for the engine never settles, or the write *)
(* before it does and the code after it throws.                            *)
(***************************************************************************)
EXTENDS Naturals, Sequences, FiniteSets, SequencesExt

CONSTANTS
    Services,     \* the services that have a channel
    Control,      \* the control service, the only one with plain messages
    MaxSessions,  \* bounds of the environment: sessions,
    MaxFrames     \* frames of the phone and of the services

ASSUME MessagePipelineAssumption ==
    /\ Control \in Services
    /\ {MaxSessions, MaxFrames} \subseteq Nat

VARIABLES
    session,     \* sessions so far
    started,     \* the dependencies are started
    phone,       \* what the phone has sent in this session
    wire,        \* the phone's stream that has not been delivered
    buffer,      \* buffer of FrameCodec
    aggregator,  \* serviceIdAggregatorMap of MessageAggregator
    mutex,       \* mutex[d]: the task that holds it, then those that wait
    stuck,       \* stuck[d]: its holder waits for a cryptor that is stopped
    record,      \* records the TLS engine has decrypted
    dispatched,  \* dispatched[c]: messages of channel c
    out,         \* frames given to the transport
    failed,      \* an assertion of MessageAggregator has failed
    overlapped,  \* an event came while another had more frames to decrypt
    asked,       \* asked[c]: messages the services have sent on channel c
    spent        \* frames sent so far, by both

incoming == <<phone, wire, buffer, aggregator, record, dispatched, failed,
              overlapped>>
vars == <<session, started, incoming, mutex, stuck, out, asked, spent>>

Directions == {"encrypt", "decrypt"}

\* A service has encrypted messages, the control service also plain ones,
\* such as pings.
Channels == (Services \X {TRUE}) \cup {<<Control, FALSE>>}

\* A frame of message number msg of a channel; an encrypted one is record
\* number record of the phone's engine.
Frame == [session : 1 .. MaxSessions, channel : Channels,
          msg : 1 .. MaxFrames, first : BOOLEAN, last : BOOLEAN,
          record : 0 .. MaxFrames]

\* A message of a service fits a frame.
Sent == [session : 1 .. MaxSessions, channel : Channels, msg : 1 .. MaxFrames]

Encrypted(f) == f.channel[2]

\* The frames of an event, or a frame to send; those before number next have
\* been decrypted.
TaskOver(S) == [frames : Seq(S), next : Nat]
WellFormed(t) == t.next \in DOMAIN t.frames /\ Encrypted(t.frames[t.next])

TypeOK ==
    /\ session \in 0 .. MaxSessions /\ started \in BOOLEAN
    /\ phone.messages \in [Channels -> 0 .. MaxFrames]
    /\ phone.open \in [Services -> BOOLEAN]
    /\ phone.record \in 0 .. MaxFrames
    /\ wire \in Seq(Frame) /\ buffer \in Seq(Frame)
    /\ aggregator \in [Services -> Seq(Frame)]
    /\ mutex["decrypt"] \in Seq(TaskOver(Frame))
    /\ mutex["encrypt"] \in Seq(TaskOver(Sent))
    /\ \A d \in Directions : \A i \in DOMAIN mutex[d] : WellFormed(mutex[d][i])
    /\ stuck \in [Directions -> BOOLEAN]
    /\ record \in 0 .. MaxFrames
    /\ dispatched \in [Channels -> Seq(Seq(Frame))]
    /\ out \in Seq(Sent)
    /\ failed \in BOOLEAN /\ overlapped \in BOOLEAN
    /\ asked \in [Channels -> 0 .. MaxFrames]
    /\ spent \in 0 .. MaxFrames

Quiet == [messages |-> [c \in Channels |-> 0],
          open |-> [s \in Services |-> FALSE],
          record |-> 0]

Nothing == [s \in Services |-> <<>>]

Init ==
    /\ session = 0
    /\ started = FALSE
    /\ phone = Quiet
    /\ wire = <<>>
    /\ buffer = <<>>
    /\ aggregator = Nothing
    /\ mutex = [d \in Directions |-> <<>>]
    /\ stuck = [d \in Directions |-> FALSE]
    /\ record = 0
    /\ dispatched = [c \in Channels |-> <<>>]
    /\ out = <<>>
    /\ failed = FALSE
    /\ overlapped = FALSE
    /\ asked = [c \in Channels |-> 0]
    /\ spent = 0

-----------------------------------------------------------------------------
(***************************************************************************)
(* FrameCodec and MessageAggregator                                        *)
(***************************************************************************)

\* A header, the total size in the first of several frames, and the payload.
\* The stream holds a frame once for each of them, and an event may end
\* between any two.
Size(f) == IF f.first /\ ~f.last THEN 3 ELSE 2
Bytes(f) == [i \in 1 .. Size(f) |-> f]

\* decodeOne: the next frame if all of it is there; else the offset stays.
DecodeOne(run, arr) ==
    IF run.at > Len(arr) \/ run.at + Size(arr[run.at]) > Len(arr) + 1
    THEN run
    ELSE [frames |-> Append(run.frames, arr[run.at]),
          at |-> run.at + Size(arr[run.at])]

\* The frames that are complete, and what is left in the buffer.
DecodeBuffer(arr) ==
    LET run[n \in 0 .. Len(arr)] ==
            IF n = 0 THEN [frames |-> <<>>, at |-> 1]
            ELSE DecodeOne(run[n - 1], arr)
        end == run[Len(arr)]
    IN  [frames |-> end.frames, rest |-> SubSeq(arr, end.at, Len(arr))]

Dispatch(a, f, frames) ==
    [a EXCEPT !.map[f.channel[1]] = <<>>,
              !.dispatched[f.channel] = Append(@, frames)]

\* Mutant: a frame is taken for a message of its own.
Aggregate_AtOnce(a, f) == [a EXCEPT !.dispatched[f.channel] = Append(@, <<f>>)]

\* The aggregator takes a frame.  thrown says that an assertion has failed in
\* this event: its other frames are dropped.
Aggregate(a, f) ==
    LET service == f.channel[1]
        payloads == a.map[service]
    IN  CASE a.thrown -> a
          [] ~a.thrown /\ f.first /\ f.last ->
                [a EXCEPT !.dispatched[f.channel] = Append(@, <<f>>)]
          [] ~a.thrown /\ ~(f.first /\ f.last) /\ f.first # (payloads = <<>>) ->
                [a EXCEPT !.thrown = TRUE]
          [] ~a.thrown /\ ~f.first /\ f.last /\ payloads # <<>> ->
                Dispatch(a, f, Append(payloads, f))
          [] OTHER -> [a EXCEPT !.map[service] = Append(payloads, f)]

\* The last part of an event: all its frames, in order.
AggregateAll(frames) ==
    LET a[n \in 0 .. Len(frames)] ==
            IF n = 0 THEN [map |-> aggregator, dispatched |-> dispatched,
                           thrown |-> FALSE]
            ELSE Aggregate(a[n - 1], frames[n])
        end == a[Len(frames)]
    IN  /\ aggregator' = end.map
        /\ dispatched' = end.dispatched
        /\ failed' = (failed \/ end.thrown)

-----------------------------------------------------------------------------
(***************************************************************************)
(* Tasks and the mutexes of the cryptor                                    *)
(***************************************************************************)

\* The encrypted frames of a task that are not before number i.
ToDecrypt(t, i) == {k \in i .. Len(t.frames) : Encrypted(t.frames[k])}
\* Mutant: the last frame first.
First_Last(S) == CHOOSE k \in S : \A l \in S : k >= l

\* The frames are decrypted in order.
First(S) == CHOOSE k \in S : \A l \in S : k <= l
HasMore(t, i) == ToDecrypt(t, i) # {}

\* Mutant: the mutex serves the newest first.
Acquire_Newest(queue, frames, i) ==
    LET t == [frames |-> frames,
              next |-> First(ToDecrypt([frames |-> frames], i))]
    IN  IF queue = <<>> THEN <<t>> ELSE <<queue[1], t>> \o Tail(queue)

\* A task whose frames from number i on are still encrypted asks for the
\* mutex, which serves in order.
Acquire(queue, frames, i) ==
    Append(queue, [frames |-> frames,
                   next |-> First(ToDecrypt([frames |-> frames], i))])

-----------------------------------------------------------------------------
(***************************************************************************)
(* A session                                                               *)
(***************************************************************************)

\* startDependencies: codec and aggregator are not touched.
Start ==
    /\ ~started
    /\ session < MaxSessions
    /\ started' = TRUE
    /\ session' = session + 1
    /\ phone' = Quiet
    /\ record' = 0
    /\ dispatched' = [c \in Channels |-> <<>>]
    /\ out' = <<>>
    /\ overlapped' = FALSE
    /\ asked' = [c \in Channels |-> 0]
    /\ UNCHANGED <<wire, buffer, aggregator, mutex, stuck, failed, spent>>

\* Mutant: the bytes of an incomplete frame are kept.
CodecsStop_KeepBuffer == aggregator' = Nothing /\ UNCHANGED buffer

\* Mutant: the payloads of an incomplete message are kept.
CodecsStop_KeepMessages == buffer' = <<>> /\ UNCHANGED aggregator

\* frameCodec.stop and messageAggregator.stop.
CodecsStop == buffer' = <<>> /\ aggregator' = Nothing

\* stopDependencies, and the device takes its listeners off the transport
\* before anything else can run.  Where the engine was at work, its answer is
\* lost with the mutex, or the tasks fail one after the other.
Stop ==
    /\ started
    /\ started' = FALSE
    /\ wire' = <<>>
    /\ CodecsStop
    /\ \E lost \in SUBSET {d \in Directions : mutex[d] # <<>>} :
        /\ stuck' = [d \in Directions |-> stuck[d] \/ d \in lost]
        /\ mutex' = [d \in Directions |->
                        IF stuck'[d] THEN mutex[d] ELSE <<>>]
    /\ UNCHANGED <<session, phone, record, dispatched, out, failed,
                   overlapped, asked, spent>>

\* The phone sends the frames of a message in order, those of messages of
\* several services in any; the messages of a service one after the other.
PhoneSends(c, last) ==
    /\ started
    /\ spent < MaxFrames
    /\ ~c[2] => last
    /\ ~c[2] => ~phone.open[c[1]]
    /\ LET first == ~phone.open[c[1]]
           n == phone.messages[c] + (IF first THEN 1 ELSE 0)
           r == phone.record + (IF c[2] THEN 1 ELSE 0)
           f == [session |-> session, channel |-> c, msg |-> n,
                 first |-> first, last |-> last,
                 record |-> IF c[2] THEN r ELSE 0]
       IN  /\ phone' = [messages |-> [phone.messages EXCEPT ![c] = n],
                        open |-> [phone.open EXCEPT ![c[1]] = ~last],
                        record |-> r]
           /\ wire' = wire \o Bytes(f)
    /\ spent' = spent + 1
    /\ UNCHANGED <<session, started, buffer, aggregator, mutex, stuck, record,
                   dispatched, out, failed, overlapped, asked>>

\* onDeviceTransportDataAsync up to its first wait for the cryptor.
TransportData(n) ==
    /\ started
    /\ LET decoded == DecodeBuffer(buffer \o SubSeq(wire, 1, n))
           event == [frames |-> decoded.frames]
       IN  /\ buffer' = decoded.rest
           /\ IF HasMore(event, 1)
              THEN /\ mutex' = [mutex EXCEPT !["decrypt"] =
                                    Acquire(@, decoded.frames, 1)]
                   /\ overlapped' =
                        (overlapped \/
                         \E i \in DOMAIN mutex["decrypt"] :
                            LET t == mutex["decrypt"][i]
                            IN  HasMore(t, t.next + 1))
                   /\ UNCHANGED <<aggregator, dispatched, failed>>
              ELSE /\ AggregateAll(decoded.frames)
                   /\ UNCHANGED <<mutex, overlapped>>
    /\ wire' = SubSeq(wire, n + 1, Len(wire))
    /\ UNCHANGED <<session, started, phone, stuck, record, out, asked,
                   spent>>

\* The engine answers: the mutex is released, and the task asks for it again
\* or, with no encrypted frame left, aggregates.
Decrypted ==
    /\ started
    /\ ~stuck["decrypt"]
    /\ mutex["decrypt"] # <<>>
    /\ LET t == Head(mutex["decrypt"])
           others == Tail(mutex["decrypt"])
       IN  /\ t.frames[t.next].record = record + 1
           /\ record' = record + 1
           /\ IF HasMore(t, t.next + 1)
              THEN /\ mutex' = [mutex EXCEPT !["decrypt"] =
                                    Acquire(others, t.frames, t.next + 1)]
                   /\ UNCHANGED <<aggregator, dispatched, failed>>
              ELSE /\ mutex' = [mutex EXCEPT !["decrypt"] = others]
                   /\ AggregateAll(t.frames)
    /\ UNCHANGED <<session, started, phone, wire, buffer, stuck, out,
                   overlapped, asked, spent>>

\* onSendMessage: a plain frame goes out at once.
SendMessage(c) ==
    /\ started
    /\ spent < MaxFrames
    /\ LET f == [session |-> session, channel |-> c,
                 msg |-> asked[c] + 1]
       IN  IF Encrypted(f)
           THEN /\ mutex' = [mutex EXCEPT !["encrypt"] = Acquire(@, <<f>>, 1)]
                /\ UNCHANGED out
           ELSE /\ out' = Append(out, f)
                /\ UNCHANGED mutex
    /\ asked' = [asked EXCEPT ![c] = @ + 1]
    /\ spent' = spent + 1
    /\ UNCHANGED <<session, started, incoming, stuck>>

\* The frame is encoded and given to the transport.
EncryptedFrame ==
    /\ started
    /\ ~stuck["encrypt"]
    /\ mutex["encrypt"] # <<>>
    /\ out' = Append(out, Head(mutex["encrypt"]).frames[1])
    /\ mutex' = [mutex EXCEPT !["encrypt"] = Tail(@)]
    /\ UNCHANGED <<session, started, incoming, stuck, asked, spent>>

Next ==
    \/ Start
    \/ Stop
    \/ \E c \in Channels, last \in BOOLEAN : PhoneSends(c, last)
    \/ \E n \in 1 .. Len(wire) : TransportData(n)
    \/ Decrypted
    \/ \E c \in Channels : SendMessage(c)
    \/ EncryptedFrame

\* A cryptor that is not stopped answers.
Fairness == WF_vars(Decrypted) /\ WF_vars(EncryptedFrame)

Spec == Init /\ [][Next]_vars /\ Fairness

-----------------------------------------------------------------------------
(***************************************************************************)
(* Correctness                                                             *)
(***************************************************************************)

\* The assertions of MessageAggregator (MessageAggregator.ts:40, 52) hold: a
\* message never begins on a service before the last one has ended, and no
\* frame continues a message that has not begun, whatever messages other
\* sessions were cut off in.
AggregatorAssertions == ~failed

\* A message is dispatched with all its frames, in order, and nothing of
\* another message; and the encrypted messages of a service are dispatched in
\* the order the phone sent them in this session, none twice and none left
\* out, wherever the events of the transport end.  Messages that are lost to
\* a reordered record are the last ones of the session.
DispatchedInOrder ==
    \A c \in Channels : \A i \in DOMAIN dispatched[c] :
        LET frames == dispatched[c][i]
        IN  /\ \A k \in DOMAIN frames :
                /\ frames[k].session = session
                /\ frames[k].channel = c
                /\ frames[k].msg = frames[1].msg
                /\ frames[k].first = (k = 1)
                /\ frames[k].last = (k = Len(frames))
                /\ k > 1 => frames[k].record > frames[k - 1].record
            /\ c[2] => frames[1].msg = i
            /\ \A j \in 1 .. i - 1 : dispatched[c][j] # frames

\* The encrypted messages the services send reach the transport in the order
\* they were sent in, whatever is waiting, and none from another session.
SentInOrder ==
    \A i \in DOMAIN out :
        /\ out[i].session = session
        /\ \A j \in 1 .. i - 1 :
            out[j].channel = out[i].channel => out[j].msg < out[i].msg
        /\ out[i].msg > 1 =>
            \E j \in 1 .. i - 1 : /\ out[j].channel = out[i].channel
                                  /\ out[j].msg = out[i].msg - 1

\* Messages of the channel that the phone has sent to the last frame.
Completed(c) == phone.messages[c] - (IF c[2] /\ phone.open[c[1]] THEN 1 ELSE 0)

\* The way in implements MessageStreams: a message has been sent when its last
\* frame has, and is received when it is dispatched.
Numbers(c) == [i \in DOMAIN dispatched[c] |-> dispatched[c][i][1].msg]

Streams == INSTANCE MessageStreams WITH
    Sequential <- Services \X {TRUE},
    on <- started,
    sent <- [c \in Channels |-> Completed(c)],
    got <- [c \in Channels |-> Numbers(c)]

\* Nothing is dispatched before its last frame was sent, nothing that was
\* dispatched is taken back or overtaken, and nothing outside of a session.
ImplementsStreams == Streams!StreamSpec

\* Messages of the channel that have been delivered to the last byte.
Delivered(c) ==
    Completed(c)
        - Cardinality({f \in ToSet(wire) : f.channel = c /\ f.last})

Behind == \E c \in Channels : Len(dispatched[c]) < Delivered(c)

\* What has been delivered is dispatched, wherever the events of the transport
\* end, unless the session ends first, an event came while another had more
\* frames to decrypt, or an earlier session has ended during a decryption.
EventuallyDispatched ==
    (started /\ Behind)
        ~> (~started \/ overlapped \/ stuck["decrypt"] \/ ~Behind)

=============================================================================
