------------------------ MODULE MessagePipeline_proofs ------------------------
(***************************************************************************)
(* For any number of services, sessions and messages: what the services    *)
(* send reaches the transport in the order it was sent in, and what the    *)
(* phone sends is dispatched in its order, message by message.             *)
(*                                                                         *)
(* The argument for the way in.  What the phone has sent and the           *)
(* aggregator has not taken is on the way, in tasks that wait for the      *)
(* engine or in the stream.  The records of the encrypted frames order it: *)
(* those of a task are all before or all after those of another, and those *)
(* of the stream come last.  Since the engine decrypts one record after    *)
(* the other, a task that is done holds the first of them.  The frames of  *)
(* a service that are on the way lead from the message its aggregator has  *)
(* open to the last one the phone has begun, and so the next one never     *)
(* contradicts what the aggregator has.  A frame on the way that ends a    *)
(* message was sent after all the others of it, and so what is dispatched  *)
(* has been sent: the way in implements MessageStreams.                    *)
(***************************************************************************)
EXTENDS MessagePipeline, SequenceTheorems, FiniteSetTheorems,
        WellFoundedInduction, TLAPS

Message == [session : Nat, channel : Channels, msg : Nat \ {0}]

\* A task of the encryption has one frame.
Pending == [frames : {<<f>> : f \in Message}, next : {1}]

waiting == mutex["encrypt"]
Waiting(i) == waiting[i].frames[1]

Types ==
    /\ session \in Nat
    /\ started \in BOOLEAN
    /\ asked \in [Channels -> Nat]
    /\ DOMAIN mutex = Directions
    /\ waiting \in Seq(Pending)
    /\ stuck \in [Directions -> BOOLEAN]
    /\ out \in Seq(Message)

\* Without a session nothing waits, unless for ever.
IdleOutside == ~started /\ ~stuck["encrypt"] => waiting = <<>>

OutAsked == \A i \in DOMAIN out : out[i].msg <= asked[out[i].channel]

\* What waits has been sent in this session, after what is out, and in order.
WaitingInOrder ==
    ~stuck["encrypt"] =>
        \A i \in DOMAIN waiting :
            /\ Waiting(i).session = session
            /\ Encrypted(Waiting(i))
            /\ Waiting(i).msg <= asked[Waiting(i).channel]
            /\ \A k \in DOMAIN out :
                out[k].channel = Waiting(i).channel
                    => out[k].msg < Waiting(i).msg
            /\ \A j \in 1 .. i - 1 :
                Waiting(j).channel = Waiting(i).channel
                    => Waiting(j).msg < Waiting(i).msg

IsOut(c, m) == \E k \in DOMAIN out : out[k].channel = c /\ out[k].msg = m
IsWaiting(c, m) ==
    \E i \in DOMAIN waiting : Waiting(i).channel = c /\ Waiting(i).msg = m

\* What has been sent is out or waits.
NoneMissing ==
    started =>
        \A c \in Channels : \A m \in 1 .. asked[c] :
            \/ IsOut(c, m)
            \/ c[2] /\ (stuck["encrypt"] \/ IsWaiting(c, m))

IInv ==
    /\ Types
    /\ IdleOutside
    /\ OutAsked
    /\ WaitingInOrder
    /\ NoneMissing
    /\ SentInOrder

-----------------------------------------------------------------------------
\* A frame to send that is encrypted is the next to encrypt of its task.
LEMMA AcquireOne ==
    ASSUME NEW f \in Message, Encrypted(f), NEW q \in Seq(Pending)
    PROVE  Acquire(q, <<f>>, 1) = Append(q, [frames |-> <<f>>, next |-> 1])
<1>1. ToDecrypt([frames |-> <<f>>], 1) = {1}
  <2>1. Len(<<f>>) = 1 /\ <<f>>[1] = f
    OBVIOUS
  <2> QED BY <2>1 DEF ToDecrypt
<1>2. First({1}) = 1
  BY DEF First
<1> QED BY <1>1, <1>2 DEF Acquire

LEMMA InitIInv == Init => IInv
<1> SUFFICES ASSUME Init PROVE IInv
  OBVIOUS
<1>1. waiting = <<>> /\ out = <<>>
  BY DEF Init, waiting, Directions
<1>2. Types
  <2>1. /\ session \in Nat /\ started \in BOOLEAN
        /\ asked \in [Channels -> Nat]
        /\ DOMAIN mutex = Directions
        /\ stuck \in [Directions -> BOOLEAN]
    BY DEF Init
  <2>2. waiting \in Seq(Pending) /\ out \in Seq(Message)
    BY <1>1
  <2> QED BY <2>1, <2>2 DEF Types
<1>3. IdleOutside /\ WaitingInOrder
  BY <1>1 DEF IdleOutside, WaitingInOrder
<1>4. OutAsked /\ SentInOrder
  BY <1>1 DEF OutAsked, SentInOrder
<1>5. NoneMissing
  BY DEF Init, NoneMissing
<1> QED BY <1>2, <1>3, <1>4, <1>5 DEF IInv

\* The steps of the way in do not touch the way out.
LEMMA OtherSteps ==
    ASSUME IInv, started' = started, session' = session, stuck' = stuck,
           out' = out, asked' = asked,
           DOMAIN mutex' = DOMAIN mutex, waiting' = waiting
    PROVE  IInv'
BY DEF IInv, Types, IdleOutside, OutAsked, WaitingInOrder, Waiting,
       NoneMissing, IsOut, IsWaiting, SentInOrder, Directions

LEMMA StartStep == ASSUME IInv, Start PROVE IInv'
<1>1. /\ out' = <<>> /\ asked' = [c \in Channels |-> 0]
      /\ mutex' = mutex /\ stuck' = stuck
      /\ started' = TRUE /\ session' = session + 1 /\ ~started
  BY DEF Start
<1>2. waiting' = waiting
  BY <1>1 DEF waiting
<1>3. ~stuck["encrypt"] => waiting = <<>>
  BY <1>1 DEF IInv, IdleOutside
<1>4. Types'
  BY <1>1, <1>2 DEF IInv, Types
<1>5. WaitingInOrder'
  BY <1>1, <1>2, <1>3 DEF WaitingInOrder
<1>6. NoneMissing'
  BY <1>1 DEF NoneMissing
<1> QED BY <1>1, <1>4, <1>5, <1>6 DEF IInv, IdleOutside, OutAsked, SentInOrder

LEMMA StopStep == ASSUME IInv, Stop PROVE IInv'
<1>1. /\ started' = FALSE
      /\ session' = session /\ out' = out /\ asked' = asked
  BY DEF Stop
<1>2. stuck' \in [Directions -> BOOLEAN]
  BY DEF Stop, IInv, Types
<1>3. stuck["encrypt"] => stuck'["encrypt"]
  BY DEF Stop, IInv, Types, Directions
<1>4. /\ DOMAIN mutex' = Directions
      /\ waiting' = IF stuck'["encrypt"] THEN waiting ELSE <<>>
  BY DEF Stop, Directions, waiting
<1>5. Types'
  <2>1. waiting' \in Seq(Pending)
    <3>1. waiting \in Seq(Pending) /\ <<>> \in Seq(Pending)
      BY DEF IInv, Types
    <3> QED BY <1>4, <3>1
  <2> QED BY <1>1, <1>2, <1>4, <2>1 DEF IInv, Types
<1>6. WaitingInOrder' /\ IdleOutside'
  BY <1>4 DEF WaitingInOrder, IdleOutside
<1> QED
  BY <1>1, <1>5, <1>6 DEF IInv, OutAsked, NoneMissing, SentInOrder

\* A message of a channel is given the number that follows the last one.
LEMMA SendStep ==
    ASSUME IInv, NEW c \in Channels, SendMessage(c)
    PROVE  IInv'
<1> DEFINE n == asked[c] + 1
           f == [session |-> session, channel |-> c, msg |-> n]
<1>1. /\ started /\ started' = started /\ session' = session
      /\ stuck' = stuck
      /\ asked' = [asked EXCEPT ![c] = n]
      /\ Encrypted(f) <=> c[2]
  BY DEF SendMessage, Encrypted
<1>2. f \in Message /\ n \in Nat
  BY DEF IInv, Types, Message
<1>3. /\ asked' \in [Channels -> Nat]
      /\ asked'[c] = n
      /\ \A d \in Channels : asked'[d] = IF d = c THEN n ELSE asked[d]
  BY <1>1, <1>2 DEF IInv, Types
<1>4. \A i \in DOMAIN out : out[i] \in Message
  BY DEF IInv, Types
<1>5. \A i \in DOMAIN out : out[i].channel = c => out[i].msg < n
  BY <1>2, <1>4 DEF IInv, Types, OutAsked, Message
<1>6. CASE c[2]
  <2>1. /\ out' = out
        /\ mutex' = [mutex EXCEPT !["encrypt"] = Acquire(@, <<f>>, 1)]
    BY <1>1, <1>6 DEF SendMessage
  <2>2. Acquire(waiting, <<f>>, 1)
            = Append(waiting, [frames |-> <<f>>, next |-> 1])
    BY <1>1, <1>2, <1>6, AcquireOne DEF IInv, Types
  <2>3. /\ DOMAIN mutex' = Directions
        /\ waiting' = Append(waiting, [frames |-> <<f>>, next |-> 1])
    BY <2>1, <2>2 DEF waiting, IInv, Types, Directions
  <2>4. [frames |-> <<f>>, next |-> 1] \in Pending
    BY <1>2 DEF Pending
  <2>5. waiting' \in Seq(Pending) /\ waiting \in Seq(Pending)
    BY <2>3, <2>4 DEF IInv, Types
  <2>6. /\ DOMAIN waiting = 1 .. Len(waiting) /\ Len(waiting) \in Nat
        /\ DOMAIN waiting' = 1 .. Len(waiting) + 1
    BY <2>3, <2>5
  <2>7. /\ \A i \in DOMAIN waiting : Waiting(i)' = Waiting(i)
        /\ \A i : i = Len(waiting) + 1 => Waiting(i)' = f
    <3>1. \A i \in DOMAIN waiting : waiting'[i] = waiting[i]
      BY <2>3, <2>4, <2>5
    <3>2. waiting'[Len(waiting) + 1] = [frames |-> <<f>>, next |-> 1]
      BY <2>3, <2>4, <2>5
    <3>3. [frames |-> <<f>>, next |-> 1].frames[1] = f
      OBVIOUS
    <3> QED BY <3>1, <3>2, <3>3 DEF Waiting
  <2>8. \A i \in DOMAIN waiting : Waiting(i) \in Message
    <3>1. \A i \in DOMAIN waiting : waiting[i] \in Pending
      BY <2>5
    <3> QED BY <3>1 DEF Pending, Waiting
  <2>9. WaitingInOrder'
    <3> SUFFICES ASSUME ~stuck["encrypt"], NEW i \in DOMAIN waiting'
                 PROVE  (/\ Waiting(i).session = session
                         /\ Encrypted(Waiting(i))
                         /\ Waiting(i).msg <= asked[Waiting(i).channel]
                         /\ \A k \in DOMAIN out :
                             out[k].channel = Waiting(i).channel
                                 => out[k].msg < Waiting(i).msg
                         /\ \A j \in 1 .. i - 1 :
                             Waiting(j).channel = Waiting(i).channel
                                 => Waiting(j).msg < Waiting(i).msg)'
      BY <1>1 DEF WaitingInOrder
    <3>1. CASE i \in DOMAIN waiting
      <4>1. /\ Waiting(i)' = Waiting(i)
            /\ \A j \in 1 .. i - 1 : Waiting(j)' = Waiting(j)
        BY <2>6, <2>7, <3>1
      <4>2. Waiting(i) \in Message
        BY <2>8, <3>1
      <4>3. asked[Waiting(i).channel] <= asked'[Waiting(i).channel]
        <5>1. Waiting(i).channel \in Channels
          BY <4>2 DEF Message
        <5>2. \A d \in Channels : asked[d] \in Nat
          BY DEF IInv, Types
        <5> QED BY <1>3, <5>1, <5>2
      <4>4. asked[Waiting(i).channel] \in Nat
            /\ asked'[Waiting(i).channel] \in Nat
        BY <1>3, <4>2 DEF Message, IInv, Types
      <4>5. /\ Waiting(i).session = session
            /\ Encrypted(Waiting(i))
            /\ Waiting(i).msg <= asked[Waiting(i).channel]
            /\ \A k \in DOMAIN out :
                out[k].channel = Waiting(i).channel
                    => out[k].msg < Waiting(i).msg
            /\ \A j \in 1 .. i - 1 :
                Waiting(j).channel = Waiting(i).channel
                    => Waiting(j).msg < Waiting(i).msg
        BY <3>1 DEF IInv, WaitingInOrder
      <4>6. (Waiting(i).msg <= asked[Waiting(i).channel])'
        BY <4>1, <4>2, <4>3, <4>4, <4>5 DEF Message
      <4> QED BY <1>1, <2>1, <4>1, <4>5, <4>6 DEF Encrypted
    <3>2. CASE i = Len(waiting) + 1
      <4>1. Waiting(i)' = f
        BY <2>7, <3>2
      <4>2. \A j \in 1 .. i - 1 :
                /\ Waiting(j)' = Waiting(j)
                /\ Waiting(j).channel = c => Waiting(j).msg < n
        <5> SUFFICES ASSUME NEW j \in 1 .. i - 1
                     PROVE  /\ Waiting(j)' = Waiting(j)
                            /\ Waiting(j).channel = c => Waiting(j).msg < n
          OBVIOUS
        <5>1. j \in DOMAIN waiting
          BY <2>6, <3>2
        <5>2. Waiting(j).msg <= asked[Waiting(j).channel]
          BY <5>1 DEF IInv, WaitingInOrder
        <5>3. Waiting(j).msg \in Nat /\ asked[c] \in Nat
          BY <2>8, <5>1 DEF Message, IInv, Types
        <5> QED BY <2>7, <5>1, <5>2, <5>3
      <4>3. /\ f.session = session' /\ Encrypted(f)
            /\ f.msg <= asked'[f.channel] /\ f.channel = c /\ f.msg = n
        BY <1>1, <1>2, <1>3, <1>6
      <4>4. \A k \in DOMAIN out' :
                out'[k].channel = c => out'[k].msg < n
        BY <1>5, <2>1
      <4>5. Encrypted(Waiting(i))'
        BY <4>1, <4>3 DEF Encrypted
      <4>6. (\A k \in DOMAIN out :
                out[k].channel = Waiting(i).channel
                    => out[k].msg < Waiting(i).msg)'
        BY <4>1, <4>3, <4>4
      <4>7. (\A j \in 1 .. i - 1 :
                Waiting(j).channel = Waiting(i).channel
                    => Waiting(j).msg < Waiting(i).msg)'
        BY <4>1, <4>2, <4>3
      <4> QED BY <4>1, <4>3, <4>5, <4>6, <4>7
    <3> QED BY <2>6, <3>1, <3>2
  <2>10. NoneMissing'
    <3> SUFFICES ASSUME NEW d \in Channels, NEW m \in 1 .. asked'[d]
                 PROVE  \/ IsOut(d, m)'
                        \/ d[2] /\ (stuck["encrypt"] \/ IsWaiting(d, m))'
      BY DEF NoneMissing
    <3>1. CASE d = c /\ m = n
      <4>1. PICK i \in DOMAIN waiting' : i = Len(waiting) + 1
        BY <2>6
      <4>2. Waiting(i)' = f
        BY <2>7, <4>1
      <4>3. f.channel = c /\ f.msg = n
        OBVIOUS
      <4>4. i \in DOMAIN waiting' /\ (Waiting(i)').channel = d
                                /\ (Waiting(i)').msg = m
        BY <3>1, <4>1, <4>2, <4>3
      <4>5. IsWaiting(d, m)'
        BY <4>4 DEF IsWaiting
      <4> QED BY <1>6, <3>1, <4>5
    <3>2. CASE ~(d = c /\ m = n)
      <4>1. m \in 1 .. asked[d]
        BY <1>2, <1>3, <3>2 DEF IInv, Types
      <4>2. \/ IsOut(d, m)
            \/ d[2] /\ (stuck["encrypt"] \/ IsWaiting(d, m))
        BY <1>1, <4>1 DEF IInv, NoneMissing
      <4>3. IsOut(d, m) => IsOut(d, m)'
        BY <2>1 DEF IsOut
      <4>4. IsWaiting(d, m) => IsWaiting(d, m)'
        BY <2>6, <2>7 DEF IsWaiting
      <4> QED BY <1>1, <4>2, <4>3, <4>4
    <3> QED BY <3>1, <3>2
  <2>11. OutAsked'
    <3> SUFFICES ASSUME NEW i \in DOMAIN out
                 PROVE  out[i].msg <= asked'[out[i].channel]
      BY <2>1 DEF OutAsked
    <3>1. out[i].msg <= asked[out[i].channel] /\ out[i].channel \in Channels
          /\ out[i].msg \in Nat
      BY <1>4 DEF IInv, OutAsked, Message
    <3>2. /\ asked[out[i].channel] <= asked'[out[i].channel]
          /\ asked[out[i].channel] \in Nat /\ asked'[out[i].channel] \in Nat
      BY <1>2, <1>3, <3>1, SMTT(30) DEF IInv, Types
    <3> QED BY <3>1, <3>2
  <2>12. Types' /\ IdleOutside' /\ SentInOrder'
    BY <1>1, <1>3, <2>1, <2>3, <2>5
       DEF IInv, Types, IdleOutside, SentInOrder
  <2> QED BY <2>9, <2>10, <2>11, <2>12 DEF IInv
<1>7. CASE ~c[2]
  <2>1. out' = Append(out, f) /\ mutex' = mutex
    BY <1>1, <1>7 DEF SendMessage
  <2>2. waiting' = waiting /\ (\A i : Waiting(i)' = Waiting(i))
    BY <2>1 DEF waiting, Waiting
  <2>3. /\ out \in Seq(Message) /\ out' \in Seq(Message)
        /\ DOMAIN out = 1 .. Len(out) /\ Len(out) \in Nat
        /\ DOMAIN out' = 1 .. Len(out) + 1
        /\ \A i \in DOMAIN out : out'[i] = out[i]
        /\ out'[Len(out) + 1] = f
    BY <1>2, <2>1 DEF IInv, Types
  <2>4. f.session = session /\ f.channel = c /\ f.msg = n
    OBVIOUS
  <2>5. n > 1 => IsOut(c, n - 1)
    <3> SUFFICES ASSUME n > 1 PROVE IsOut(c, n - 1)
      OBVIOUS
    <3>1. n - 1 \in 1 .. asked[c]
      BY <1>2 DEF IInv, Types
    <3> QED BY <1>1, <1>7, <3>1 DEF IInv, NoneMissing
  <2>6. SentInOrder'
    <3> SUFFICES ASSUME NEW i \in DOMAIN out'
                 PROVE  (/\ out[i].session = session
                         /\ \A j \in 1 .. i - 1 :
                             out[j].channel = out[i].channel
                                 => out[j].msg < out[i].msg
                         /\ out[i].msg > 1 =>
                             \E j \in 1 .. i - 1 :
                                 /\ out[j].channel = out[i].channel
                                 /\ out[j].msg = out[i].msg - 1)'
      BY DEF SentInOrder
    <3>1. CASE i \in DOMAIN out
      <4>1. \A j \in 1 .. i - 1 : j \in DOMAIN out /\ out'[j] = out[j]
        BY <2>3, <3>1
      <4>2. /\ out[i].session = session
            /\ \A j \in 1 .. i - 1 :
                out[j].channel = out[i].channel => out[j].msg < out[i].msg
            /\ out[i].msg > 1 =>
                \E j \in 1 .. i - 1 : /\ out[j].channel = out[i].channel
                                      /\ out[j].msg = out[i].msg - 1
        BY <3>1 DEF IInv, SentInOrder
      <4>3. out'[i] = out[i] /\ session' = session
        BY <1>1, <2>3, <3>1
      <4> QED BY <4>1, <4>2, <4>3
    <3>2. CASE i = Len(out) + 1
      <4>1. out'[i] = f /\ 1 .. i - 1 = DOMAIN out
        BY <2>3, <3>2
      <4>2. \A j \in 1 .. i - 1 : out'[j] = out[j]
        BY <2>3, <4>1
      <4>3. \A j \in 1 .. i - 1 :
                out[j].channel = c => out[j].msg < n
        BY <1>5, <4>1
      <4>4. n > 1 => \E j \in 1 .. i - 1 : /\ out[j].channel = c
                                           /\ out[j].msg = n - 1
        BY <2>5, <4>1 DEF IsOut
      <4>5. /\ out'[i].session = session' /\ out'[i].channel = c
            /\ out'[i].msg = n
        BY <1>1, <2>4, <4>1
      <4> HIDE DEF n, f
      <4> QED BY <4>2, <4>3, <4>4, <4>5
    <3> QED BY <2>3, <3>1, <3>2
  <2>7. OutAsked'
    <3> SUFFICES ASSUME NEW i \in DOMAIN out'
                 PROVE  out'[i].msg <= asked'[out'[i].channel]
      BY DEF OutAsked
    <3>1. CASE i \in DOMAIN out
      <4>1. out[i].msg <= asked[out[i].channel] /\ out[i].channel \in Channels
            /\ out[i].msg \in Nat
        BY <1>4, <3>1 DEF IInv, OutAsked, Message
      <4>2. /\ asked[out[i].channel] <= asked'[out[i].channel]
            /\ asked[out[i].channel] \in Nat
            /\ asked'[out[i].channel] \in Nat
        <5>1. \A d \in Channels : asked[d] \in Nat
          BY DEF IInv, Types
        <5> QED BY <1>3, <4>1, <5>1
      <4>3. out'[i] = out[i]
        BY <2>3, <3>1
      <4> QED BY <4>1, <4>2, <4>3
    <3>2. CASE i = Len(out) + 1
      BY <1>2, <1>3, <2>3, <2>4, <3>2
    <3> QED BY <2>3, <3>1, <3>2
  <2>8. WaitingInOrder'
    <3> SUFFICES ASSUME ~stuck["encrypt"], NEW i \in DOMAIN waiting
                 PROVE  /\ Waiting(i).session = session
                        /\ Encrypted(Waiting(i))
                        /\ Waiting(i).msg <= asked'[Waiting(i).channel]
                        /\ \A k \in DOMAIN out' :
                            out'[k].channel = Waiting(i).channel
                                => out'[k].msg < Waiting(i).msg
                        /\ \A j \in 1 .. i - 1 :
                            Waiting(j).channel = Waiting(i).channel
                                => Waiting(j).msg < Waiting(i).msg
      BY <1>1, <2>2 DEF WaitingInOrder, Encrypted
    <3>1. Waiting(i) \in Message
      <4>1. waiting[i] \in Pending
        BY DEF IInv, Types
      <4> QED BY <4>1 DEF Pending, Waiting
    <3>2. Encrypted(Waiting(i)) /\ Waiting(i).channel # c
      BY <1>7 DEF IInv, WaitingInOrder, Encrypted
    <3>3. asked'[Waiting(i).channel] = asked[Waiting(i).channel]
      BY <1>3, <3>1, <3>2 DEF Message
    <3>4. \A k \in DOMAIN out' :
            out'[k].channel = Waiting(i).channel
                => k \in DOMAIN out /\ out'[k] = out[k]
      BY <2>3, <2>4, <3>2
    <3> QED BY <3>2, <3>3, <3>4 DEF IInv, WaitingInOrder
  <2>9. NoneMissing'
    <3> SUFFICES ASSUME NEW d \in Channels, NEW m \in 1 .. asked'[d]
                 PROVE  \/ IsOut(d, m)'
                        \/ d[2] /\ (stuck["encrypt"] \/ IsWaiting(d, m))'
      BY DEF NoneMissing
    <3>1. CASE d = c /\ m = n
      <4>1. Len(out) + 1 \in DOMAIN out'
        BY <2>3
      <4> QED BY <2>3, <2>4, <3>1, <4>1 DEF IsOut
    <3>2. CASE ~(d = c /\ m = n)
      <4>1. m \in 1 .. asked[d]
        BY <1>2, <1>3, <3>2 DEF IInv, Types
      <4>2. \/ IsOut(d, m)
            \/ d[2] /\ (stuck["encrypt"] \/ IsWaiting(d, m))
        BY <1>1, <4>1 DEF IInv, NoneMissing
      <4>3. IsOut(d, m) => IsOut(d, m)'
        BY <2>3 DEF IsOut
      <4>4. IsWaiting(d, m) => IsWaiting(d, m)'
        BY <2>2 DEF IsWaiting
      <4> QED BY <1>1, <4>2, <4>3, <4>4
    <3> QED BY <3>1, <3>2
  <2>10. Types' /\ IdleOutside'
    BY <1>1, <1>3, <2>1, <2>2, <2>3 DEF IInv, Types, IdleOutside
  <2> QED BY <2>6, <2>7, <2>8, <2>9, <2>10 DEF IInv
<1>8. c[2] \in BOOLEAN
  <2>1. CASE c \in Services \X {TRUE}
    BY <2>1
  <2>2. CASE c = <<Control, FALSE>>
    BY <2>2
  <2> QED BY <2>1, <2>2 DEF Channels
<1> QED BY <1>6, <1>7, <1>8

\* The frame that has waited longest goes out: the one before it, on its
\* channel, is out.
LEMMA EncryptedStep == ASSUME IInv, EncryptedFrame PROVE IInv'
<1> DEFINE f == Waiting(1)
<1>1. /\ started /\ started' = started /\ session' = session
      /\ ~stuck["encrypt"] /\ stuck' = stuck /\ asked' = asked
      /\ waiting # <<>>
      /\ out' = Append(out, Head(waiting).frames[1])
      /\ mutex' = [mutex EXCEPT !["encrypt"] = Tail(@)]
  BY DEF EncryptedFrame, waiting
<1>2. waiting \in Seq(Pending) /\ out \in Seq(Message)
  BY DEF IInv, Types
<1>3. /\ DOMAIN mutex' = Directions
      /\ waiting' = Tail(waiting)
  BY <1>1 DEF IInv, Types, Directions, waiting
<1>4. /\ Len(waiting) \in Nat \ {0} /\ DOMAIN waiting = 1 .. Len(waiting)
      /\ waiting' \in Seq(Pending)
      /\ DOMAIN waiting' = 1 .. Len(waiting) - 1
      /\ Head(waiting) = waiting[1]
      /\ \A i \in 1 .. Len(waiting) - 1 : waiting'[i] = waiting[i + 1]
  BY <1>1, <1>2, <1>3
<1>5. \A i \in DOMAIN waiting : Waiting(i) \in Message
  <2>1. \A i \in DOMAIN waiting : waiting[i] \in Pending
    BY <1>2
  <2> QED BY <2>1 DEF Pending, Waiting
<1>6. 1 \in DOMAIN waiting /\ f \in Message
  BY <1>4, <1>5
<1>7. \A i \in DOMAIN waiting' :
        /\ i + 1 \in DOMAIN waiting
        /\ Waiting(i)' = Waiting(i + 1)
  BY <1>4 DEF Waiting
<1>8. out' = Append(out, f)
  BY <1>1, <1>4 DEF Waiting
<1>9. /\ out' \in Seq(Message)
      /\ DOMAIN out = 1 .. Len(out) /\ Len(out) \in Nat
      /\ DOMAIN out' = 1 .. Len(out) + 1
      /\ \A i \in DOMAIN out : out'[i] = out[i]
      /\ out'[Len(out) + 1] = f
  BY <1>2, <1>6, <1>8
<1>10. \A i \in DOMAIN waiting :
        /\ Waiting(i).session = session
        /\ Encrypted(Waiting(i))
        /\ Waiting(i).msg <= asked[Waiting(i).channel]
        /\ \A k \in DOMAIN out :
            out[k].channel = Waiting(i).channel
                => out[k].msg < Waiting(i).msg
        /\ \A j \in 1 .. i - 1 :
            Waiting(j).channel = Waiting(i).channel
                => Waiting(j).msg < Waiting(i).msg
  BY <1>1 DEF IInv, WaitingInOrder
<1>11. /\ f.session = session /\ Encrypted(f)
       /\ f.msg <= asked[f.channel]
       /\ \A k \in DOMAIN out : out[k].channel = f.channel
                                => out[k].msg < f.msg
       /\ f.channel \in Channels /\ f.msg \in Nat \ {0}
  BY <1>6, <1>10 DEF Message
<1>12. f.msg > 1 => IsOut(f.channel, f.msg - 1)
  <2> SUFFICES ASSUME f.msg > 1 PROVE IsOut(f.channel, f.msg - 1)
    OBVIOUS
  <2>1. f.msg - 1 \in 1 .. asked[f.channel]
    <3>1. asked[f.channel] \in Nat
      BY <1>11 DEF IInv, Types
    <3> QED BY <1>11, <3>1
  <2>2. \/ IsOut(f.channel, f.msg - 1) \/ IsWaiting(f.channel, f.msg - 1)
    BY <1>1, <1>11, <2>1 DEF IInv, NoneMissing
  <2>3. ~IsWaiting(f.channel, f.msg - 1)
    <3> SUFFICES ASSUME NEW i \in DOMAIN waiting,
                        Waiting(i).channel = f.channel,
                        Waiting(i).msg = f.msg - 1
                 PROVE  FALSE
      BY DEF IsWaiting
    <3>1. CASE i = 1
      BY <1>11, <3>1
    <3>2. CASE i # 1
      <4>1. 1 \in 1 .. i - 1
        BY <1>4, <3>2
      <4>2. Waiting(1).msg < Waiting(i).msg
        BY <1>10, <4>1
      <4> QED BY <1>11, <4>2
    <3> QED BY <3>1, <3>2
  <2> QED BY <2>2, <2>3
<1>13. SentInOrder'
  <2> SUFFICES ASSUME NEW i \in DOMAIN out'
               PROVE  (/\ out[i].session = session
                       /\ \A j \in 1 .. i - 1 :
                           out[j].channel = out[i].channel
                               => out[j].msg < out[i].msg
                       /\ out[i].msg > 1 =>
                           \E j \in 1 .. i - 1 :
                               /\ out[j].channel = out[i].channel
                               /\ out[j].msg = out[i].msg - 1)'
    BY DEF SentInOrder
  <2>1. CASE i \in DOMAIN out
    <3>1. \A j \in 1 .. i - 1 : j \in DOMAIN out /\ out'[j] = out[j]
      BY <1>9, <2>1
    <3>2. /\ out[i].session = session
          /\ \A j \in 1 .. i - 1 :
              out[j].channel = out[i].channel => out[j].msg < out[i].msg
          /\ out[i].msg > 1 =>
              \E j \in 1 .. i - 1 : /\ out[j].channel = out[i].channel
                                    /\ out[j].msg = out[i].msg - 1
      BY <2>1 DEF IInv, SentInOrder
    <3>3. out'[i] = out[i] /\ session' = session
      BY <1>1, <1>9, <2>1
    <3> QED BY <3>1, <3>2, <3>3
  <2>2. CASE i = Len(out) + 1
    <3>1. out'[i] = f /\ 1 .. i - 1 = DOMAIN out
      BY <1>9, <2>2
    <3>2. \A j \in 1 .. i - 1 : out'[j] = out[j]
      BY <1>9, <3>1
    <3>3. \A j \in 1 .. i - 1 : out[j].channel = f.channel
                                => out[j].msg < f.msg
      BY <1>11, <3>1
    <3>4. f.msg > 1 => \E j \in 1 .. i - 1 : /\ out[j].channel = f.channel
                                             /\ out[j].msg = f.msg - 1
      BY <1>12, <3>1 DEF IsOut
    <3>5. out'[i].session = session'
      BY <1>1, <1>11, <3>1
    <3> HIDE DEF f
    <3> QED BY <3>1, <3>2, <3>3, <3>4, <3>5
  <2> QED BY <1>9, <2>1, <2>2
<1>14. OutAsked'
  <2> SUFFICES ASSUME NEW i \in DOMAIN out'
               PROVE  out'[i].msg <= asked'[out'[i].channel]
    BY DEF OutAsked
  <2>1. CASE i \in DOMAIN out
    BY <1>1, <1>9, <2>1 DEF IInv, OutAsked
  <2>2. CASE i = Len(out) + 1
    BY <1>1, <1>9, <1>11, <2>2
  <2> QED BY <1>9, <2>1, <2>2
<1>15. WaitingInOrder'
  <2> SUFFICES ASSUME NEW i \in DOMAIN waiting'
               PROVE  (/\ Waiting(i).session = session
                       /\ Encrypted(Waiting(i))
                       /\ Waiting(i).msg <= asked[Waiting(i).channel]
                       /\ \A k \in DOMAIN out :
                           out[k].channel = Waiting(i).channel
                               => out[k].msg < Waiting(i).msg
                       /\ \A j \in 1 .. i - 1 :
                           Waiting(j).channel = Waiting(i).channel
                               => Waiting(j).msg < Waiting(i).msg)'
    BY DEF WaitingInOrder
  <2> DEFINE w == Waiting(i + 1)
  <2>1. i + 1 \in DOMAIN waiting /\ Waiting(i)' = w /\ i \in Nat \ {0}
    BY <1>4, <1>7
  <2>2. /\ w.session = session' /\ w.channel[2]
        /\ w.msg <= asked'[w.channel]
    BY <1>1, <1>10, <2>1 DEF Encrypted
  <2>3. \A k \in DOMAIN out' : out'[k].channel = w.channel
                                => out'[k].msg < w.msg
    <3>1. \A k \in DOMAIN out : out[k].channel = w.channel
                                => out[k].msg < w.msg
      BY <1>10, <2>1
    <3>2. f.channel = w.channel => f.msg < w.msg
      <4>1. 1 \in 1 .. (i + 1) - 1
        BY <2>1
      <4> QED BY <1>10, <2>1, <4>1
    <3> QED BY <1>9, <3>1, <3>2
  <2>4. \A j \in 1 .. i - 1 : (Waiting(j)').channel = w.channel
                              => (Waiting(j)').msg < w.msg
    <3> SUFFICES ASSUME NEW j \in 1 .. i - 1
                 PROVE  (Waiting(j)').channel = w.channel
                            => (Waiting(j)').msg < w.msg
      OBVIOUS
    <3>1. j \in DOMAIN waiting' /\ j + 1 \in 1 .. (i + 1) - 1
      BY <1>4, <2>1
    <3>2. Waiting(j)' = Waiting(j + 1)
      BY <1>7, <3>1
    <3>3. Waiting(j + 1).channel = w.channel => Waiting(j + 1).msg < w.msg
      BY <1>10, <2>1, <3>1
    <3> QED BY <3>2, <3>3
  <2> HIDE DEF w
  <2> QED BY <2>1, <2>2, <2>3, <2>4 DEF Encrypted
<1>16. NoneMissing'
  <2> SUFFICES ASSUME NEW d \in Channels, NEW m \in 1 .. asked[d]
               PROVE  \/ IsOut(d, m)'
                      \/ d[2] /\ IsWaiting(d, m)'
    BY <1>1 DEF NoneMissing
  <2>1. IsOut(d, m) => IsOut(d, m)'
    BY <1>9 DEF IsOut
  <2>2. ASSUME IsWaiting(d, m) PROVE IsOut(d, m)' \/ IsWaiting(d, m)'
    <3>1. PICK i \in DOMAIN waiting :
                Waiting(i).channel = d /\ Waiting(i).msg = m
      BY <2>2 DEF IsWaiting
    <3>2. CASE i = 1
      <4>1. Len(out) + 1 \in DOMAIN out'
        BY <1>9
      <4> QED BY <1>9, <3>1, <3>2, <4>1 DEF IsOut
    <3>3. CASE i # 1
      <4>1. i - 1 \in DOMAIN waiting' /\ (i - 1) + 1 = i
        BY <1>4, <3>3
      <4>2. PICK k \in DOMAIN waiting' : k + 1 = i
        BY <4>1
      <4>3. Waiting(k)' = Waiting(i)
        BY <1>7, <4>2
      <4> QED BY <3>1, <4>2, <4>3 DEF IsWaiting
    <3> QED BY <3>2, <3>3
  <2>3. \/ IsOut(d, m)
        \/ d[2] /\ (stuck["encrypt"] \/ IsWaiting(d, m))
    BY <1>1 DEF IInv, NoneMissing
  <2> QED BY <1>1, <2>1, <2>2, <2>3
<1>17. Types' /\ IdleOutside'
  BY <1>1, <1>3, <1>4, <1>9 DEF IInv, Types, IdleOutside
<1> QED BY <1>13, <1>14, <1>15, <1>16, <1>17 DEF IInv

LEMMA NextIInv == IInv /\ [Next]_vars => IInv'
<1> SUFFICES ASSUME IInv, [Next]_vars PROVE IInv'
  OBVIOUS
<1>1. CASE Start
  BY <1>1, StartStep
<1>2. CASE Stop
  BY <1>2, StopStep
<1>3. ASSUME NEW c \in Channels, NEW last \in BOOLEAN, PhoneSends(c, last)
      PROVE  IInv'
  BY <1>3, OtherSteps DEF PhoneSends, waiting
<1>4. ASSUME NEW n \in 1 .. Len(wire), TransportData(n)
      PROVE  IInv'
  <2>1. \/ mutex' = mutex
        \/ \E q : mutex' = [mutex EXCEPT !["decrypt"] = q]
    BY <1>4 DEF TransportData
  <2>2. DOMAIN mutex' = DOMAIN mutex /\ waiting' = waiting
    BY <2>1 DEF waiting, IInv, Types, Directions
  <2> QED BY <1>4, <2>2, OtherSteps DEF TransportData
<1>5. CASE Decrypted
  <2>1. \E q : mutex' = [mutex EXCEPT !["decrypt"] = q]
    BY <1>5 DEF Decrypted
  <2>2. DOMAIN mutex' = DOMAIN mutex /\ waiting' = waiting
    BY <2>1 DEF waiting, IInv, Types, Directions
  <2> QED BY <1>5, <2>2, OtherSteps DEF Decrypted
<1>6. ASSUME NEW c \in Channels, SendMessage(c)
      PROVE  IInv'
  BY <1>6, SendStep
<1>7. CASE EncryptedFrame
  BY <1>7, EncryptedStep
<1>8. CASE UNCHANGED vars
  BY <1>8, OtherSteps DEF vars, waiting
<1> QED BY <1>1, <1>2, <1>3, <1>4, <1>5, <1>6, <1>7, <1>8 DEF Next

-----------------------------------------------------------------------------
\* What the services send on a channel goes to the transport in the order it
\* was sent in, without gaps, and only in its session: the mutex of the
\* encryption serves in order (NodeCryptor.encrypt), and what waits when the
\* cryptor is stopped never goes out in a later session.
THEOREM SendingKeepsOrder == Spec => []SentInOrder
<1>1. Init => IInv
  BY InitIInv
<1>2. IInv /\ [Next]_vars => IInv'
  BY NextIInv
<1>3. IInv => SentInOrder
  BY DEF IInv
<1> QED BY <1>1, <1>2, <1>3, PTL DEF Spec

-----------------------------------------------------------------------------
(***************************************************************************)
(* The way in: the order of what the phone has sent                        *)
(*                                                                         *)
(* An encrypted frame comes before another by its record, a plain one by   *)
(* its message; between the two kinds the code keeps no order.             *)
(***************************************************************************)
Less(f, g) ==
    /\ Encrypted(f) /\ Encrypted(g) => f.record < g.record
    /\ ~Encrypted(f) /\ ~Encrypted(g) => f.msg < g.msg

Within(q) == {q[i] : i \in 1 .. Len(q)}
Ordered(q) == \A i, j \in 1 .. Len(q) : i < j => Less(q[i], q[j])

\* A frame of the stream begins at i, or the stream ends there.
Cut(S, i) == \A j \in 1 .. i - 1, k \in i .. Len(S) : Less(S[j], S[k])

\* What begins at i is one frame, which ends before to.
Ends(S, i, to) == /\ to <= Len(S) + 1
                  /\ \A j \in i .. to - 1 : S[j] = S[i]
                  /\ Cut(S, to)

\* A frame that begins in the stream is there to its end.
Whole(S) == \A i \in 1 .. Len(S) : Cut(S, i) => Ends(S, i, i + Size(S[i]))

\* What the phone has sent and the codec has not returned.
Stream == buffer \o wire

\* The tasks that may still come to their end.
Tasks(q, lost) == IF lost THEN <<>> ELSE q
Waits == Tasks(mutex["decrypt"], stuck["decrypt"])

InTasks(q) == UNION {Within(q[i].frames) : i \in 1 .. Len(q)}
OnWay(q, S) == InTasks(q) \cup Within(S)
InWay == OnWay(Waits, Stream)

\* x is the session, r the phone's last record, m its messages.
Sound(f, x, r, m) ==
    /\ f.session = x /\ f.record <= r /\ f.msg <= m[f.channel]
    /\ ~Encrypted(f) => f.first /\ f.last

\* The encrypted frames of one task are all before those of the other, and
\* no plain frame is in both.
Before(F, G) == \A f \in Within(F), g \in Within(G) :
    Encrypted(f) /\ Encrypted(g) => f.record < g.record
Disjoint(F, G) == \A f \in Within(F), g \in Within(G) :
    ~Encrypted(f) /\ ~Encrypted(g) => f.msg # g.msg

\* The engine has decrypted the records up to r, which are those of the
\* frames before the next one.
NextAfter(t, r) == \A k \in 1 .. Len(t.frames) : Encrypted(t.frames[k]) =>
    IF k < t.next THEN t.frames[k].record <= r ELSE r < t.frames[k].record

TaskOrder(q, r) ==
    /\ \A i \in 1 .. Len(q) : Ordered(q[i].frames) /\ NextAfter(q[i], r)
    /\ \A i, j \in 1 .. Len(q) : i # j =>
          /\ Before(q[i].frames, q[j].frames) \/ Before(q[j].frames, q[i].frames)
          /\ Disjoint(q[i].frames, q[j].frames)

StreamLast(T, S, r) ==
    /\ \A f \in T, g \in Within(S) : Less(f, g)
    /\ \A g \in Within(S) : Encrypted(g) => r < g.record

\* What waits is in order, and before what is to come.
Lined(q, S, r) ==
    Whole(S) /\ TaskOrder(q, r) /\ StreamLast(InTasks(q), S, r)

\* The channel of a service's encrypted messages.
Own(s) == <<s, TRUE>>

\* An aggregator, with what it has dispatched: map and dispatched of a.
IsOpen(a, s) == a.map[s] # <<>>
Count(a, s) == Len(a.dispatched[Own(s)]) + (IF IsOpen(a, s) THEN 1 ELSE 0)

\* The frames of a message that has begun.
Partial(a, s, x) == \A k \in 1 .. Len(a.map[s]) :
    LET f == a.map[s][k]
    IN  /\ f.session = x /\ f.channel = Own(s)
        /\ f.msg = Len(a.dispatched[Own(s)]) + 1
        /\ f.first = (k = 1) /\ ~f.last
        /\ k > 1 => f.record > a.map[s][k - 1].record

\* p are the frames of a message of channel c.
MessageOf(p, c, x) == \A k \in 1 .. Len(p) :
    /\ p[k].session = x /\ p[k].channel = c /\ p[k].msg = p[1].msg
    /\ p[k].first = (k = 1) /\ p[k].last = (k = Len(p))
    /\ k > 1 => p[k].record > p[k - 1].record

InOrder(q, c, x) == \A i \in 1 .. Len(q) :
    /\ MessageOf(q[i], c, x)
    /\ c[2] => q[i][1].msg = i
    /\ \A j \in 1 .. i - 1 : q[j][1].msg # q[i][1].msg

Dispatches(d, x) == \A c \in Channels : InOrder(d[c], c, x)

\* f is the next frame of a service of which n messages have begun, the last
\* of which is open or not.
Begins(f, open, n) == /\ f.first = ~open
                      /\ f.msg = IF open THEN n ELSE n + 1

\* C are the frames of a service that are on the way: they lead from what the
\* aggregator has, open and n, to what the phone has sent, po and pm.
Chain(C, open, n, po, pm) ==
    /\ \A f \in C : (\A g \in C : f.record <= g.record) => Begins(f, open, n)
    /\ \A f, g \in C :
          (f.record < g.record
              /\ \A h \in C : h.record <= f.record \/ g.record <= h.record)
          => Begins(g, ~f.last, f.msg)
    /\ \A f \in C : (\A g \in C : g.record <= f.record) => po = ~f.last /\ pm = f.msg
    /\ C = {} => po = open /\ pm = n

OfService(E, s) == {f \in E : f.channel = Own(s)}

Chained(a, E, po, pm) == \A s \in Services :
    Chain(OfService(E, s), IsOpen(a, s), Count(a, s), po[s], pm[Own(s)])

\* What is aggregated comes before what is on the way, E.
AggregatedFirst(a, E) == \A s \in Services : \A k \in 1 .. Len(a.map[s]) :
    \A f \in E : Encrypted(f) => a.map[s][k].record < f.record

Plain == <<Control, FALSE>>

\* No plain frame that is on the way has been dispatched.
PlainOnce(d, E) == \A i \in 1 .. Len(d[Plain]) : \A f \in E :
    ~Encrypted(f) => d[Plain][i][1].msg # f.msg

Now == [map |-> aggregator, dispatched |-> dispatched, thrown |-> FALSE]
-----------------------------------------------------------------------------
(***************************************************************************)
(* Numbers.  Every set of them has a least element, and so what holds of 0 *)
(* and of a number's successor holds of all.                               *)
(***************************************************************************)
LEMMA LeastNumber ==
    ASSUME NEW S \in SUBSET Nat, S # {}
    PROVE  \E x \in S : \A y \in S : x <= y
<1>1. IsWellFoundedOn(OpToRel(<, Nat), Nat)
    BY NatLessThanWellFounded
<1>2. \E x \in S : \A y \in S : ~(<<y, x>> \in OpToRel(<, Nat))
    BY <1>1, WFMin
<1>3. \A x, y \in Nat : <<y, x>> \in OpToRel(<, Nat) <=> y < x
    BY DEF OpToRel
<1>4. PICK x \in S : \A y \in S : ~(y < x)
    <2>1. \A y \in S : y \in Nat
        OBVIOUS
    <2> QED
        BY <1>2, <1>3, <2>1, Zenon
<1>5. \A y \in S : x <= y
    BY <1>4
<1> QED
    BY <1>5

\* What holds of 0 and of a number's successor holds of all numbers.
LEMMA Induction ==
    ASSUME NEW S \in SUBSET Nat, 0 \in S, \A n \in S : n + 1 \in S
    PROVE  S = Nat
<1> SUFFICES ASSUME Nat \ S # {} PROVE FALSE
    OBVIOUS
<1>1. PICK x \in Nat \ S : \A y \in Nat \ S : x <= y
    BY LeastNumber
<1>2. x # 0 /\ x - 1 \in Nat
    BY <1>1
<1>3. x - 1 \in S
    BY <1>1, <1>2
<1>4. (x - 1) + 1 = x
    BY <1>2
<1> QED
    BY <1>1, <1>3, <1>4

-----------------------------------------------------------------------------
(***************************************************************************)
(* Queues                                                                  *)
(***************************************************************************)
LEMMA Longer ==
    ASSUME NEW S, NEW a \in Seq(S), NEW b \in Seq(S)
    PROVE  /\ a \o b \in Seq(S) /\ Len(a) \in Nat /\ Len(b) \in Nat
           /\ Len(a \o b) = Len(a) + Len(b)
           /\ \A i \in 1 .. Len(a) : (a \o b)[i] = a[i]
           /\ \A i \in 1 .. Len(b) : (a \o b)[Len(a) + i] = b[i]
           /\ \A i \in 1 .. Len(a \o b) :
                 \/ i \in 1 .. Len(a)
                 \/ i - Len(a) \in 1 .. Len(b) /\ (a \o b)[i] = b[i - Len(a)]
<1>1. Len(a) \in Nat /\ Len(b) \in Nat
    BY LenProperties
<1>2. /\ a \o b \in Seq(S) /\ Len(a \o b) = Len(a) + Len(b)
      /\ \A i \in 1 .. Len(a) + Len(b) :
            (a \o b)[i] = IF i <= Len(a) THEN a[i] ELSE b[i - Len(a)]
    BY ConcatProperties
<1> QED
    BY <1>1, <1>2

\* A queue with one element more, and without its first one.
LEMMA OneMore ==
    ASSUME NEW S, NEW a \in Seq(S), NEW x \in S
    PROVE  /\ Append(a, x) \in Seq(S) /\ Len(a) \in Nat
           /\ Len(Append(a, x)) = Len(a) + 1
           /\ \A i \in 1 .. Len(a) : Append(a, x)[i] = a[i]
           /\ Append(a, x)[Len(a) + 1] = x
BY AppendProperties, LenProperties

LEMMA OneLess ==
    ASSUME NEW S, NEW q \in Seq(S), q # <<>>
    PROVE  /\ Tail(q) \in Seq(S) /\ Len(q) \in Nat /\ 1 \in 1 .. Len(q)
           /\ Len(Tail(q)) = Len(q) - 1
           /\ \A i \in 1 .. Len(q) - 1 : Tail(q)[i] = q[i + 1]
           /\ Head(q) = q[1] /\ Head(q) \in S
<1>1. Len(q) \in Nat /\ (Len(q) = 0 => q = <<>>)
    BY LenProperties, EmptySeq
<1>2. Len(q) # 0
    BY <1>1
<1>3. Head(q) \in S /\ Tail(q) \in Seq(S) /\ Len(Tail(q)) = Len(q) - 1
      /\ \A i \in 1 .. Len(Tail(q)) : Tail(q)[i] = q[i + 1]
    BY HeadTailProperties
<1>4. Head(q) = q[1]
    OBVIOUS
<1> QED
    BY <1>1, <1>2, <1>3, <1>4

-----------------------------------------------------------------------------
(***************************************************************************)
(* FrameCodec: from the beginning of a frame on, decodeBuffer returns      *)
(* whole frames in their order, and keeps a stream that begins with one.   *)
(***************************************************************************)
LEMMA SizeIs == ASSUME NEW f PROVE Size(f) \in {2, 3}
BY DEF Size

\* What has been decoded of S when the read offset is at run.at.
Decoded(S, run, n) ==
    /\ run.at \in 1 .. n + 1 /\ Cut(S, run.at)
    /\ run.frames \in Seq(Frame) /\ Ordered(run.frames)
    /\ \A i \in 1 .. Len(run.frames) : \E j \in 1 .. run.at - 1 : run.frames[i] = S[j]
    /\ \A j \in 1 .. run.at - 1 : \E i \in 1 .. Len(run.frames) : run.frames[i] = S[j]

\* arr is the part of the stream S that has been delivered.
Delivers(arr, S) ==
    /\ arr \in Seq(Frame) /\ S \in Seq(Frame)
    /\ Len(arr) <= Len(S) /\ \A i \in 1 .. Len(arr) : arr[i] = S[i]

\* decodeOne leaves the read offset where a frame begins.
LEMMA DecodeOneNext ==
    ASSUME NEW S, NEW arr, Delivers(arr, S), Whole(S),
           NEW run, Decoded(S, run, Len(arr))
    PROVE  Decoded(S, DecodeOne(run, arr), Len(arr))
<1> DEFINE at == run.at
           F == run.frames
           f == arr[at]
<1>1. /\ Len(arr) \in Nat /\ Len(S) \in Nat /\ at \in 1 .. Len(arr) + 1
      /\ F \in Seq(Frame) /\ Len(F) \in Nat
    BY LenProperties DEF Delivers, Decoded
<1>2. CASE at > Len(arr) \/ at + Size(f) > Len(arr) + 1
    BY <1>2 DEF DecodeOne
<1>3. CASE ~(at > Len(arr) \/ at + Size(f) > Len(arr) + 1)
    <2>1. /\ at \in 1 .. Len(arr) /\ at \in 1 .. Len(S) /\ Size(f) \in {2, 3}
          /\ at + Size(f) <= Len(arr) + 1
        BY <1>1, <1>3, SizeIs DEF Delivers
    <2>2. f = S[at] /\ f \in Frame
        BY <2>1, ElementOfSeq DEF Delivers
    <2> DEFINE to == at + Size(f)
               G == Append(F, f)
    <2>3. DecodeOne(run, arr) = [frames |-> G, at |-> to]
        BY <1>3 DEF DecodeOne
    <2>4. /\ \A j \in at .. to - 1 : S[j] = f
          /\ Cut(S, to)
        <3>1. Ends(S, at, at + Size(S[at]))
            BY <2>1 DEF Decoded, Whole
        <3>2. Ends(S, at, to)
            BY <2>2, <3>1
        <3> QED
            BY <2>2, <3>2 DEF Ends
    <2>5. to \in 1 .. Len(arr) + 1 /\ at < to /\ to \in Nat
        BY <1>1, <2>1
    <2>6. /\ G \in Seq(Frame) /\ Len(G) = Len(F) + 1
          /\ \A i \in 1 .. Len(F) : G[i] = F[i]
          /\ G[Len(F) + 1] = f
        BY <1>1, <2>2, OneMore
    <2> HIDE DEF to, G, f
    <2>7. \A i \in 1 .. Len(G) : i \in 1 .. Len(F) \/ i = Len(F) + 1
        BY <1>1, <2>6
    <2>8. \A i \in 1 .. Len(F) : \E j \in 1 .. at - 1 : F[i] = S[j]
        BY DEF Decoded
    <2>9. \A i \in 1 .. Len(F) : Less(F[i], f)
        <3> SUFFICES ASSUME NEW i \in 1 .. Len(F) PROVE Less(F[i], f)
            OBVIOUS
        <3>1. PICK j \in 1 .. at - 1 : F[i] = S[j]
            BY <2>8
        <3>2. at \in at .. Len(S)
            BY <2>1
        <3>3. Less(S[j], S[at])
            BY <3>2 DEF Decoded, Cut
        <3> QED
            BY <2>2, <3>1, <3>3
    <2>10. Ordered(G)
        <3> SUFFICES ASSUME NEW i \in 1 .. Len(G), NEW j \in 1 .. Len(G), i < j
                     PROVE  Less(G[i], G[j])
            BY DEF Ordered
        <3>1. i \in 1 .. Len(F)
            BY <1>1, <2>6
        <3>2. CASE j \in 1 .. Len(F)
            BY <2>6, <3>1, <3>2 DEF Decoded, Ordered
        <3>3. CASE j = Len(F) + 1
            BY <2>6, <2>9, <3>1, <3>3
        <3> QED
            BY <2>7, <3>2, <3>3
    <2>11. \A i \in 1 .. Len(G) : \E j \in 1 .. to - 1 : G[i] = S[j]
        <3> SUFFICES ASSUME NEW i \in 1 .. Len(G)
                     PROVE  \E j \in 1 .. to - 1 : G[i] = S[j]
            OBVIOUS
        <3>1. CASE i \in 1 .. Len(F)
            <4>1. PICK j \in 1 .. at - 1 : F[i] = S[j]
                BY <2>8, <3>1
            <4>2. j \in 1 .. to - 1
                BY <1>1, <2>5
            <4> QED
                BY <2>6, <3>1, <4>1, <4>2
        <3>2. CASE i = Len(F) + 1
            <4>1. at \in 1 .. to - 1
                BY <2>1, <2>5
            <4> QED
                BY <2>2, <2>6, <3>2, <4>1
        <3> QED
            BY <2>7, <3>1, <3>2
    <2>12. \A j \in 1 .. to - 1 : \E i \in 1 .. Len(G) : G[i] = S[j]
        <3> SUFFICES ASSUME NEW j \in 1 .. to - 1
                     PROVE  \E i \in 1 .. Len(G) : G[i] = S[j]
            OBVIOUS
        <3>1. CASE j \in 1 .. at - 1
            <4>1. PICK i \in 1 .. Len(F) : F[i] = S[j]
                BY <3>1 DEF Decoded
            <4>2. i \in 1 .. Len(G)
                BY <1>1, <2>6
            <4> QED
                BY <2>6, <4>1, <4>2
        <3>2. CASE j \in at .. to - 1
            <4>1. Len(F) + 1 \in 1 .. Len(G)
                BY <1>1, <2>6
            <4> QED
                BY <2>4, <2>6, <3>2, <4>1
        <3> QED
            BY <1>1, <2>5, <3>1, <3>2
    <2>13. Decoded(S, [frames |-> G, at |-> to], Len(arr))
        BY <2>4, <2>5, <2>6, <2>10, <2>11, <2>12 DEF Decoded
    <2> QED
        BY <2>3, <2>13
<1> QED
    BY <1>2, <1>3

FirstDecode == [frames |-> <<>>, at |-> 1]

\* The first N attempts to decode a frame of arr.
IsDecode(arr, N, r) ==
    r = [n \in 0 .. N |-> IF n = 0 THEN FirstDecode ELSE DecodeOne(r[n - 1], arr)]

\* The recursion has a solution.
LEMMA DecodeExists ==
    ASSUME NEW arr
    PROVE  \A N \in Nat : \E r : IsDecode(arr, N, r)
<1> DEFINE Is(N, r) == IsDecode(arr, N, r)
           S == {N \in Nat : \E r : Is(N, r)}
<1>1. 0 \in S
    <2>1. Is(0, [n \in 0 .. 0 |-> FirstDecode])
        BY DEF IsDecode
    <2> QED
        BY <2>1
<1>2. ASSUME NEW N \in S PROVE N + 1 \in S
    <2>1. PICK r : Is(N, r)
        OBVIOUS
    <2> DEFINE q == [n \in 0 .. N + 1 |-> IF n = 0 THEN FirstDecode
                                          ELSE DecodeOne(r[n - 1], arr)]
    <2>2. \A n \in 0 .. N : r[n] = IF n = 0 THEN FirstDecode
                                   ELSE DecodeOne(r[n - 1], arr)
        BY <2>1 DEF IsDecode
    <2>3. \A n \in 0 .. N : q[n] = r[n]
        BY <2>2
    <2>4. \A n \in 0 .. N + 1 : n # 0 => n - 1 \in 0 .. N
        OBVIOUS
    <2>5. \A n \in 0 .. N + 1 : n # 0 => q[n - 1] = r[n - 1]
        BY <2>3, <2>4
    <2>6. q = [n \in 0 .. N + 1 |-> IF n = 0 THEN FirstDecode
                                    ELSE DecodeOne(q[n - 1], arr)]
        BY <2>5
    <2> HIDE DEF q
    <2>7. Is(N + 1, q)
        BY <2>6 DEF IsDecode
    <2> QED
        BY <2>7
<1> HIDE DEF Is
<1>3. S = Nat
    BY <1>1, <1>2, Induction
<1> QED
    BY <1>3 DEF Is

\* The frames of the buffer, and what decodeBuffer keeps.
LEMMA DecodeBufferGives ==
    ASSUME NEW S, NEW arr, Delivers(arr, S), Whole(S)
    PROVE  \E run : /\ Decoded(S, run, Len(arr))
                    /\ DecodeBuffer(arr) = [frames |-> run.frames,
                                            rest |-> SubSeq(arr, run.at, Len(arr))]
<1> DEFINE N == Len(arr)
           run == CHOOSE r : IsDecode(arr, N, r)
<1>0. N \in Nat
    BY LenProperties DEF Delivers
<1>1. IsDecode(arr, N, run)
    <2>1. \E r : IsDecode(arr, N, r)
        BY <1>0, DecodeExists
    <2> QED
        BY <2>1, Zenon
<1>2. DecodeBuffer(arr) = [frames |-> run[N].frames,
                           rest |-> SubSeq(arr, run[N].at, Len(arr))]
    BY DEF DecodeBuffer, FirstDecode, IsDecode
<1> HIDE DEF run
<1>3. /\ run[0] = FirstDecode
      /\ \A n \in 0 .. N : n # 0 => run[n] = DecodeOne(run[n - 1], arr)
    BY <1>0, <1>1 DEF IsDecode
<1> DEFINE C == {n \in Nat : n <= N => Decoded(S, run[n], N)}
<1>4. 0 \in C
    <2>1. <<>> \in Seq(Frame)
        OBVIOUS
    <2>2. Ordered(<<>>) /\ Cut(S, 1)
        BY DEF Ordered, Cut
    <2>3. Decoded(S, FirstDecode, N)
        BY <1>0, <2>1, <2>2 DEF Decoded, FirstDecode
    <2> QED
        BY <1>3, <2>3
<1>5. ASSUME NEW n \in C PROVE n + 1 \in C
    <2>1. CASE n + 1 <= N
        <3>1. Decoded(S, run[n], N)
            BY <1>0, <2>1
        <3>2. run[n + 1] = DecodeOne(run[n], arr)
            BY <1>0, <1>3, <2>1
        <3>3. Decoded(S, run[n + 1], N)
            BY <3>1, <3>2, DecodeOneNext
        <3> QED
            BY <3>3
    <2> QED
        BY <2>1
<1> HIDE DEF C
<1>6. C = Nat
    BY <1>4, <1>5, Induction DEF C
<1>7. Decoded(S, run[N], N)
    BY <1>0, <1>6 DEF C
<1> QED
    BY <1>2, <1>7

-----------------------------------------------------------------------------
(***************************************************************************)
(* The stream: the phone adds a frame, the codec takes some.               *)
(***************************************************************************)
LEMMA FrameIs ==
    ASSUME NEW f \in Frame
    PROVE  /\ f.session \in Nat /\ f.msg \in Nat \ {0} /\ f.record \in Nat
           /\ f.first \in BOOLEAN /\ f.last \in BOOLEAN /\ f.channel \in Channels
           /\ ~Less(f, f)
<1>1. MaxSessions \in Nat /\ MaxFrames \in Nat
    BY MessagePipelineAssumption
<1> QED
    BY <1>1 DEF Frame, Less

\* The phone adds a frame behind all the others.
LEMMA StreamMore ==
    ASSUME NEW S \in Seq(Frame), NEW f \in Frame, Whole(S),
           \A g \in Within(S) : Less(g, f), NEW r, r = S \o Bytes(f)
    PROVE  r \in Seq(Frame) /\ Whole(r) /\ Within(r) = Within(S) \cup {f}
<1> DEFINE b == Bytes(f)
<1>1. Size(f) \in {2, 3} /\ b = [i \in 1 .. Size(f) |-> f]
    BY SizeIs DEF Bytes
<1>2. b \in Seq(Frame) /\ Len(b) = Size(f) /\ \A i \in 1 .. Len(b) : b[i] = f
    <2> DEFINE n == Size(f)
    <2>1. n \in Nat /\ b = [i \in 1 .. n |-> f]
        BY <1>1
    <2> HIDE DEF n, b
    <2> QED
        BY <2>1 DEF n
<1> HIDE DEF b
<1>3. /\ r \in Seq(Frame) /\ Len(S) \in Nat /\ Len(r) = Len(S) + Size(f)
      /\ \A i \in 1 .. Len(S) : r[i] = S[i]
    BY <1>2, Longer DEF b
<1>4. \A i \in 1 .. Len(r) : i \in 1 .. Len(S) \/ (i \in Len(S) + 1 .. Len(r) /\ r[i] = f)
    <2>1. \A i \in 1 .. Len(r) :
            i \in 1 .. Len(S) \/ (i - Len(S) \in 1 .. Len(b) /\ r[i] = b[i - Len(S)])
        BY <1>2, Longer DEF b
    <2>2. \A i \in 1 .. Len(r) : i \in 1 .. Len(S) \/ i \in Len(S) + 1 .. Len(r)
        BY <1>1, <1>3
    <2> QED
        BY <1>2, <2>1, <2>2
<1>5. \A i \in Len(S) + 1 .. Len(r) : r[i] = f
    BY <1>1, <1>3, <1>4
<1>6. \A j \in 1 .. Len(S) : Less(r[j], f)
    BY <1>3 DEF Within
<1>7. Within(r) = Within(S) \cup {f}
    <2>1. ASSUME NEW g \in Within(r) PROVE g \in Within(S) \cup {f}
        <3>1. PICK i \in 1 .. Len(r) : g = r[i]
            BY DEF Within
        <3> QED
            BY <1>3, <1>4, <3>1 DEF Within
    <2>2. f \in Within(r)
        <3>1. Len(r) \in Len(S) + 1 .. Len(r) /\ Len(r) \in 1 .. Len(r)
            BY <1>1, <1>3
        <3> QED
            BY <1>5, <3>1 DEF Within
    <2>3. ASSUME NEW g \in Within(S) PROVE g \in Within(r)
        <3>1. PICK i \in 1 .. Len(S) : g = S[i]
            BY DEF Within
        <3>2. i \in 1 .. Len(r)
            BY <1>1, <1>3
        <3> QED
            BY <1>3, <3>1, <3>2 DEF Within
    <2> QED
        BY <2>1, <2>2, <2>3
<1>8. ASSUME NEW i \in 1 .. Len(r), Cut(r, i)
      PROVE  Ends(r, i, i + Size(r[i]))
    <2>1. CASE i \in 1 .. Len(S)
        <3> DEFINE to == i + Size(S[i])
        <3>0. \A j \in 1 .. Len(S) : j \in 1 .. Len(r)
            BY <1>1, <1>3
        <3>1. Cut(S, i)
            <4> SUFFICES ASSUME NEW j \in 1 .. i - 1, NEW k \in i .. Len(S)
                         PROVE  Less(S[j], S[k])
                BY DEF Cut
            <4>1. j \in 1 .. Len(S) /\ k \in 1 .. Len(S) /\ k \in i .. Len(r)
                BY <1>1, <1>3, <2>1
            <4>2. Less(r[j], r[k])
                BY <1>8, <4>1 DEF Cut
            <4> QED
                BY <1>3, <4>1, <4>2
        <3>3. Size(S[i]) \in {2, 3} /\ to \in Nat /\ i < to /\ r[i] = S[i]
            BY <1>3, <2>1, SizeIs
        <3>a. Ends(S, i, to)
            BY <2>1, <3>1 DEF Whole
        <3> HIDE DEF to
        <3>2. /\ to <= Len(S) + 1
              /\ \A j \in i .. to - 1 : S[j] = S[i]
              /\ Cut(S, to)
            BY <3>a DEF Ends
        <3>4. \A j \in i .. to - 1 : j \in 1 .. Len(S)
            BY <1>3, <3>2, <3>3
        <3>5. \A j \in i .. to - 1 : r[j] = r[i]
            BY <1>3, <3>2, <3>3, <3>4
        <3>6. Cut(r, to)
            <4> SUFFICES ASSUME NEW j \in 1 .. to - 1, NEW k \in to .. Len(r)
                         PROVE  Less(r[j], r[k])
                BY DEF Cut
            <4>1. j \in 1 .. Len(S) /\ k \in 1 .. Len(r)
                BY <1>3, <3>2, <3>3
            <4>2. CASE k \in 1 .. Len(S)
                <5>1. k \in to .. Len(S)
                    BY <3>3, <4>2
                <5>2. Less(S[j], S[k])
                    BY <3>2, <5>1 DEF Cut
                <5> QED
                    BY <1>3, <4>1, <4>2, <5>2
            <4>3. CASE r[k] = f
                BY <1>6, <4>1, <4>3
            <4> QED
                BY <1>4, <4>1, <4>2, <4>3
        <3>7. i + Size(r[i]) = to
            BY <3>3 DEF to
        <3>8. to <= Len(r) + 1
            BY <1>1, <1>3, <3>2, <3>3
        <3>9. Ends(r, i, to)
            BY <3>5, <3>6, <3>8 DEF Ends
        <3> QED
            BY <3>7, <3>9
    <2>2. CASE i \in Len(S) + 1 .. Len(r)
        <3>1. r[i] = f
            BY <1>5, <2>2
        <3>2. i = Len(S) + 1
            <4> SUFFICES ASSUME i # Len(S) + 1 PROVE FALSE
                OBVIOUS
            <4>1. i - 1 \in Len(S) + 1 .. Len(r) /\ i - 1 \in 1 .. i - 1 /\ i \in i .. Len(r)
                BY <1>3, <2>2
            <4>2. Less(r[i - 1], r[i])
                BY <1>8, <4>1 DEF Cut
            <4>3. Less(f, f)
                BY <1>5, <3>1, <4>1, <4>2
            <4> QED
                BY <4>3, FrameIs
        <3>3. i + Size(r[i]) = Len(r) + 1
            BY <1>1, <1>3, <3>1, <3>2
        <3>4. \A j \in i .. Len(r) : r[j] = r[i]
            BY <1>3, <1>5, <2>2, <3>1, <3>2
        <3>5. Cut(r, Len(r) + 1)
            BY <1>1, <1>3 DEF Cut
        <3>6. Len(r) + 1 <= Len(r) + 1 /\ (Len(r) + 1) - 1 = Len(r)
            BY <1>1, <1>3
        <3>7. Ends(r, i, Len(r) + 1)
            BY <3>4, <3>5, <3>6 DEF Ends
        <3> QED
            BY <3>3, <3>7
    <2> QED
        BY <1>4, <2>1, <2>2
<1>9. Whole(r)
    BY <1>8 DEF Whole
<1> QED
    BY <1>3, <1>7, <1>9

\* r is S without the frames before a cut.
Rests(S, at, r) ==
    /\ r \in Seq(Frame) /\ Len(r) = Len(S) - at + 1
    /\ \A i \in 1 .. Len(r) : r[i] = S[at - 1 + i]

\* What is left after a frame's end is whole frames again.
LEMMA StreamRest ==
    ASSUME NEW S \in Seq(Frame), Whole(S), NEW at \in 1 .. Len(S) + 1, Cut(S, at),
           NEW r, Rests(S, at, r)
    PROVE  /\ Whole(r)
           /\ \A f : f \in Within(r) <=> \E j \in at .. Len(S) : S[j] = f
<1>1. /\ Len(S) \in Nat /\ Len(r) \in Nat /\ Len(r) = Len(S) - at + 1
      /\ \A i \in 1 .. Len(r) : r[i] = S[at - 1 + i] /\ at - 1 + i \in at .. Len(S)
    BY LenProperties DEF Rests
<1>2. \A j \in at .. Len(S) : j - at + 1 \in 1 .. Len(r) /\ r[j - at + 1] = S[j]
    <2> SUFFICES ASSUME NEW j \in at .. Len(S)
                 PROVE  j - at + 1 \in 1 .. Len(r) /\ r[j - at + 1] = S[j]
        OBVIOUS
    <2>1. j - at + 1 \in 1 .. Len(r) /\ at - 1 + (j - at + 1) = j
        BY <1>1
    <2> QED
        BY <1>1, <2>1
<1>3. ASSUME NEW i \in 1 .. Len(r) + 1, Cut(r, i)
      PROVE  Cut(S, at - 1 + i)
    <2> DEFINE p == at - 1 + i
    <2>1. p \in at .. Len(S) + 1
        BY <1>1
    <2> SUFFICES ASSUME NEW j \in 1 .. p - 1, NEW k \in p .. Len(S)
                 PROVE  Less(S[j], S[k])
        BY DEF Cut
    <2>2. k \in at .. Len(S)
        BY <1>1, <2>1
    <2>3. CASE j \in 1 .. at - 1
        BY <2>2, <2>3 DEF Cut
    <2>4. CASE j \in at .. p - 1
        <3>1. j - at + 1 \in 1 .. i - 1 /\ k - at + 1 \in i .. Len(r) /\ j \in at .. Len(S)
            BY <1>1, <2>1, <2>4
        <3>2. Less(r[j - at + 1], r[k - at + 1])
            BY <1>3, <3>1 DEF Cut
        <3> QED
            BY <1>2, <2>2, <3>1, <3>2
    <2> QED
        BY <2>1, <2>3, <2>4
<1>4. ASSUME NEW i \in 1 .. Len(r) + 1, Cut(S, at - 1 + i)
      PROVE  Cut(r, i)
    <2> SUFFICES ASSUME NEW j \in 1 .. i - 1, NEW k \in i .. Len(r)
                 PROVE  Less(r[j], r[k])
        BY DEF Cut
    <2>1. /\ j \in 1 .. Len(r) /\ k \in 1 .. Len(r)
          /\ at - 1 + j \in 1 .. (at - 1 + i) - 1 /\ at - 1 + k \in at - 1 + i .. Len(S)
        BY <1>1
    <2>2. Less(S[at - 1 + j], S[at - 1 + k])
        BY <1>4, <2>1 DEF Cut
    <2> QED
        BY <1>1, <2>1, <2>2
<1>5. ASSUME NEW i \in 1 .. Len(r), Cut(r, i)
      PROVE  Ends(r, i, i + Size(r[i]))
    <2> DEFINE p == at - 1 + i
               to == p + Size(S[p])
               e == i + Size(r[i])
    <2>1. p \in 1 .. Len(S) /\ p \in at .. Len(S) /\ r[i] = S[p] /\ i \in 1 .. Len(r) + 1
        BY <1>1
    <2>2. Cut(S, p)
        BY <1>3, <1>5, <2>1
    <2>3. Ends(S, p, to)
        BY <2>1, <2>2 DEF Whole
    <2>4. Size(S[p]) \in {2, 3} /\ Size(r[i]) = Size(S[p])
        BY <2>1, SizeIs
    <2>5. /\ to \in Nat /\ e \in Nat /\ i < e /\ p < to /\ to = at - 1 + e
        <3>1. PICK n \in {2, 3} : Size(S[p]) = n /\ Size(r[i]) = n
            BY <2>4
        <3>2. to = p + n /\ e = i + n
            BY <3>1
        <3> HIDE DEF to, e
        <3> QED
            BY <1>1, <2>1, <3>2
    <2> HIDE DEF to, e
    <2>6. to <= Len(S) + 1 /\ (\A j \in p .. to - 1 : S[j] = S[p]) /\ Cut(S, to)
        BY <2>3 DEF Ends
    <2>7. e \in 1 .. Len(r) + 1 /\ e <= Len(r) + 1
        BY <1>1, <2>1, <2>5, <2>6
    <2>8. Cut(r, e)
        <3>1. Cut(S, at - 1 + e)
            BY <2>5, <2>6
        <3> QED
            BY <1>4, <2>7, <3>1
    <2>9. \A j \in i .. e - 1 : /\ j \in 1 .. Len(r)
                                /\ at - 1 + j \in p .. to - 1
        BY <1>1, <2>1, <2>5, <2>7
    <2>10. \A j \in i .. e - 1 : r[j] = r[i]
        BY <1>1, <2>1, <2>6, <2>9
    <2>11. Ends(r, i, e)
        BY <2>7, <2>8, <2>10 DEF Ends
    <2> QED
        BY <2>11 DEF e
<1>6. Whole(r)
    BY <1>5 DEF Whole
<1>7. ASSUME NEW f \in Within(r) PROVE \E j \in at .. Len(S) : S[j] = f
    BY <1>1 DEF Within
<1>8. ASSUME NEW j \in at .. Len(S) PROVE S[j] \in Within(r)
    BY <1>2 DEF Within
<1> QED
    BY <1>6, <1>7, <1>8

-----------------------------------------------------------------------------
(***************************************************************************)
(* The frames of a service that are on the way: the first is taken, and    *)
(* the phone adds one behind the last.                                     *)
(***************************************************************************)
LEMMA ChainTake ==
    ASSUME NEW C \in SUBSET Frame, NEW f \in C, NEW D, D = C \ {f},
           \A g \in D : f.record < g.record,
           NEW open, NEW n, NEW po, NEW pm, Chain(C, open, n, po, pm)
    PROVE  Begins(f, open, n) /\ Chain(D, ~f.last, f.msg, po, pm)
<1>0. \A g \in C : g.record \in Nat
    BY FrameIs
<1>1. \A g \in C : g = f \/ g \in D
    OBVIOUS
<1>2. \A g \in C : f.record <= g.record
    BY <1>0, <1>1
<1>3. Begins(f, open, n)
    BY <1>2 DEF Chain
<1>4. ASSUME NEW g \in D, \A h \in D : g.record <= h.record
      PROVE  Begins(g, ~f.last, f.msg)
    <2>1. f.record < g.record /\ \A h \in C : h.record <= f.record \/ g.record <= h.record
        BY <1>0, <1>1, <1>4
    <2> QED
        BY <2>1 DEF Chain
<1>5. ASSUME NEW g \in D, NEW e \in D, g.record < e.record,
             \A h \in D : h.record <= g.record \/ e.record <= h.record
      PROVE  Begins(e, ~g.last, g.msg)
    <2>1. \A h \in C : h.record <= g.record \/ e.record <= h.record
        BY <1>0, <1>1, <1>5
    <2> QED
        BY <1>5, <2>1 DEF Chain
<1>6. ASSUME NEW g \in D, \A h \in D : h.record <= g.record
      PROVE  po = ~g.last /\ pm = g.msg
    <2>1. \A h \in C : h.record <= g.record
        BY <1>0, <1>1, <1>6
    <2> QED
        BY <2>1 DEF Chain
<1>7. ASSUME D = {} PROVE po = ~f.last /\ pm = f.msg
    <2>1. \A h \in C : h.record <= f.record
        BY <1>0, <1>1, <1>7
    <2> QED
        BY <2>1 DEF Chain
<1>8. Chain(D, ~f.last, f.msg, po, pm)
    BY <1>4, <1>5, <1>6, <1>7 DEF Chain
<1> QED
    BY <1>3, <1>8

\* The phone adds the next frame of the service.
LEMMA ChainAdd ==
    ASSUME NEW C \in SUBSET Frame, NEW f \in Frame, NEW D, D = C \cup {f},
           \A g \in C : g.record < f.record,
           NEW open, NEW n, NEW po, NEW pm, Chain(C, open, n, po, pm),
           Begins(f, po, pm)
    PROVE  Chain(D, open, n, ~f.last, f.msg)
<1>0. \A g \in D : g.record \in Nat /\ (g \in C \/ g = f)
    BY FrameIs
<1>1. ASSUME NEW g \in D, \A h \in D : g.record <= h.record
      PROVE  Begins(g, open, n)
    <2>1. CASE g \in C
        BY <1>1, <2>1 DEF Chain
    <2>2. CASE g = f
        <3>1. C = {}
            BY <1>0, <1>1, <2>2
        <3>2. po = open /\ pm = n
            BY <3>1 DEF Chain
        <3> QED
            BY <2>2, <3>2
    <2> QED
        BY <1>0, <2>1, <2>2
<1>2. ASSUME NEW g \in D, NEW e \in D, g.record < e.record,
             \A h \in D : h.record <= g.record \/ e.record <= h.record
      PROVE  Begins(e, ~g.last, g.msg)
    <2>1. g \in C
        BY <1>0, <1>2
    <2>2. CASE e \in C
        <3>1. \A h \in C : h.record <= g.record \/ e.record <= h.record
            BY <1>2
        <3> QED
            BY <1>2, <2>1, <2>2, <3>1 DEF Chain
    <2>3. CASE e = f
        <3>1. \A h \in C : h.record <= g.record
            BY <1>0, <1>2, <2>3
        <3>2. po = ~g.last /\ pm = g.msg
            BY <2>1, <3>1 DEF Chain
        <3> QED
            BY <2>3, <3>2
    <2> QED
        BY <1>0, <2>2, <2>3
<1>3. ASSUME NEW g \in D, \A h \in D : h.record <= g.record
      PROVE  g = f
    BY <1>0, <1>3
<1>4. ~f.last = ~f.last /\ f.msg = f.msg /\ D # {}
    OBVIOUS
<1> QED
    BY <1>1, <1>2, <1>3, <1>4 DEF Chain

-----------------------------------------------------------------------------
(***************************************************************************)
(* MessageAggregator takes a frame: a plain one is dispatched, an          *)
(* encrypted one that comes next in its service continues or ends what has *)
(* begun.                                                                  *)
(***************************************************************************)
AggregatorType(a) ==
    a \in [map : [Services -> Seq(Frame)], dispatched : [Channels -> Seq(Seq(Frame))],
           thrown : BOOLEAN]

\* The channel of a service determines it, and is not the plain one.
LEMMA ChannelsAre ==
    /\ Plain \in Channels /\ Plain[1] = Control /\ Plain[2] = FALSE
    /\ \A s \in Services : /\ Own(s) \in Channels /\ Own(s)[1] = s
                           /\ Own(s)[2] = TRUE /\ Own(s) # Plain
    /\ \A s, t \in Services : s # t => Own(s) # Own(t)
    /\ \A c \in Channels : c = Plain \/ (c[1] \in Services /\ c = Own(c[1]))
<1>1. Plain \in Channels /\ Plain[1] = Control /\ Plain[2] = FALSE
    BY DEF Channels, Plain
<1>2. ASSUME NEW s \in Services
      PROVE  /\ Own(s) \in Channels /\ Own(s)[1] = s
             /\ Own(s)[2] = TRUE /\ Own(s) # Plain
    BY DEF Channels, Plain, Own
<1>3. ASSUME NEW c \in Channels
      PROVE  c = Plain \/ (c[1] \in Services /\ c = Own(c[1]))
    <2>1. CASE c \in Services \X {TRUE}
        <3>1. c[1] \in Services /\ c[2] = TRUE
            BY <2>1
        <3>2. c = <<c[1], c[2]>>
            BY <2>1
        <3>3. c = Own(c[1])
            BY <3>1, <3>2, Zenon DEF Own
        <3> QED
            BY <3>1, <3>3
    <2>2. CASE c = <<Control, FALSE>>
        BY <2>2 DEF Plain
    <2> QED
        BY <2>1, <2>2 DEF Channels
<1>4. \A s, t \in Services : s # t => Own(s) # Own(t)
    BY <1>2
<1> QED
    BY <1>1, <1>2, <1>3, <1>4

\* An encrypted frame is of a service, any other of the plain channel.
LEMMA KindsAre ==
    ASSUME NEW f \in Frame
    PROVE  /\ ~Encrypted(f) <=> f.channel = Plain
           /\ Encrypted(f) => f.channel[1] \in Services /\ f.channel = Own(f.channel[1])
<1>1. f.channel \in Channels
    BY FrameIs
<1> QED
    BY <1>1, ChannelsAre DEF Encrypted

\* p takes the next place of what is dispatched on channel c.
Takes(p, q, c) ==
    /\ c[2] => p[1].msg = Len(q) + 1
    /\ ~c[2] => \A i \in 1 .. Len(q) : q[i][1].msg # p[1].msg

Add(d, c, p) == [d EXCEPT ![c] = Append(@, p)]

\* A message is dispatched on channel c.
LEMMA InOrderMore ==
    ASSUME NEW q \in Seq(Seq(Frame)), NEW c, NEW x, InOrder(q, c, x),
           NEW p \in Seq(Frame), MessageOf(p, c, x),
           Takes(p, q, c),
           NEW r, r = Append(q, p)
    PROVE  /\ r \in Seq(Seq(Frame)) /\ Len(q) \in Nat /\ Len(r) = Len(q) + 1
           /\ InOrder(r, c, x)
           /\ \A i \in 1 .. Len(r) : (i \in 1 .. Len(q) /\ r[i] = q[i]) \/ r[i] = p
<1>1. q \in Seq(Seq(Frame)) /\ Len(q) \in Nat
    BY LenProperties
<1>2. /\ r \in Seq(Seq(Frame)) /\ Len(r) = Len(q) + 1
      /\ \A i \in 1 .. Len(q) : r[i] = q[i]
      /\ r[Len(q) + 1] = p
    BY <1>1, OneMore
<1>3. \A i \in 1 .. Len(r) : i \in 1 .. Len(q) \/ i = Len(q) + 1
    <2>1. \A n \in Nat : \A i \in 1 .. n + 1 : i \in 1 .. n \/ i = n + 1
        OBVIOUS
    <2> QED
        BY <1>1, <1>2, <2>1
<1>4. \A j \in 1 .. Len(q) : q[j][1].msg # p[1].msg
    <2> SUFFICES ASSUME NEW j \in 1 .. Len(q) PROVE q[j][1].msg # p[1].msg
        OBVIOUS
    <2>1. CASE c[2]
        <3>1. q[j][1].msg = j
            BY <2>1 DEF InOrder
        <3>2. p[1].msg = Len(q) + 1
            BY <2>1 DEF Takes
        <3>3. j # Len(q) + 1
            BY <1>1
        <3> QED
            BY <3>1, <3>2, <3>3, Zenon
    <2> QED
        BY <2>1 DEF Takes
<1>5. ASSUME NEW i \in 1 .. Len(r)
      PROVE  /\ MessageOf(r[i], c, x)
             /\ c[2] => r[i][1].msg = i
             /\ \A j \in 1 .. i - 1 : r[j][1].msg # r[i][1].msg
    <2>1. CASE i \in 1 .. Len(q)
        <3>1. r[i] = q[i] /\ \A j \in 1 .. i - 1 : r[j] = q[j]
            BY <1>1, <1>2, <2>1
        <3>2. /\ MessageOf(q[i], c, x)
              /\ c[2] => q[i][1].msg = i
              /\ \A j \in 1 .. i - 1 : q[j][1].msg # q[i][1].msg
            BY <2>1 DEF InOrder
        <3> QED
            BY <3>1, <3>2
    <2>2. CASE i = Len(q) + 1
        <3>1. r[i] = p
            BY <1>2, <2>2
        <3>2. \A j \in 1 .. i - 1 : j \in 1 .. Len(q)
            BY <1>1, <2>2
        <3>3. \A j \in 1 .. i - 1 : r[j][1].msg # p[1].msg
            BY <1>2, <1>4, <3>2
        <3>4. c[2] => p[1].msg = i
            BY <2>2 DEF Takes
        <3> QED
            BY <3>1, <3>3, <3>4
    <2> QED
        BY <1>3, <2>1, <2>2
<1>6. InOrder(r, c, x)
    BY <1>5 DEF InOrder
<1> QED
    BY <1>1, <1>2, <1>3, <1>6

\* e is what is dispatched when p has been added to channel c.
Added(e, d, c, p, x) ==
    /\ e \in [Channels -> Seq(Seq(Frame))]
    /\ Dispatches(e, x)
    /\ Len(d[c]) \in Nat /\ Len(e[c]) = Len(d[c]) + 1
    /\ \A i \in 1 .. Len(e[c]) : (i \in 1 .. Len(d[c]) /\ e[c][i] = d[c][i]) \/ e[c][i] = p
    /\ \A b \in Channels : b # c => e[b] = d[b]

\* A message that takes its channel's next place keeps all in order.
LEMMA DispatchesMore ==
    ASSUME NEW d \in [Channels -> Seq(Seq(Frame))], NEW x, Dispatches(d, x),
           NEW c \in Channels, NEW p \in Seq(Frame), MessageOf(p, c, x),
           Takes(p, d[c], c),
           NEW e, e = Add(d, c, p)
    PROVE  Added(e, d, c, p, x)
<1> DEFINE q == d[c]
           r == Append(q, p)
<1>1. /\ q \in Seq(Seq(Frame)) /\ InOrder(q, c, x)
      /\ Takes(p, q, c)
      /\ r = Append(q, p) /\ e = [d EXCEPT ![c] = r]
    BY ChannelsAre DEF Dispatches, Add
<1> HIDE DEF q, r
<1>2. /\ r \in Seq(Seq(Frame)) /\ Len(q) \in Nat /\ Len(r) = Len(q) + 1
      /\ InOrder(r, c, x)
      /\ \A i \in 1 .. Len(r) : (i \in 1 .. Len(q) /\ r[i] = q[i]) \/ r[i] = p
    <2>1. r \in Seq(Seq(Frame)) /\ Len(q) \in Nat /\ Len(r) = Len(q) + 1
        BY <1>1, InOrderMore
    <2>2. InOrder(r, c, x)
        BY <1>1, InOrderMore
    <2>3. \A i \in 1 .. Len(r) : (i \in 1 .. Len(q) /\ r[i] = q[i]) \/ r[i] = p
        BY <1>1, InOrderMore
    <2> QED
        BY <2>1, <2>2, <2>3
<1>3. /\ e \in [Channels -> Seq(Seq(Frame))] /\ e[c] = r
      /\ \A b \in Channels : b # c => e[b] = d[b]
    BY <1>1, <1>2
<1>4. Dispatches(e, x)
    BY <1>2, <1>3 DEF Dispatches
<1> QED
    BY <1>2, <1>3, <1>4 DEF Added, q


\* What the type of an aggregator says of one service.
LEMMA AggregatorIs ==
    ASSUME NEW a, AggregatorType(a), NEW s \in Services
    PROVE  /\ a.map[s] \in Seq(Frame) /\ Len(a.map[s]) \in Nat
           /\ IsOpen(a, s) <=> Len(a.map[s]) >= 1
           /\ a.dispatched[Own(s)] \in Seq(Seq(Frame))
           /\ Len(a.dispatched[Own(s)]) \in Nat
<1>1. Own(s) \in Channels
    BY ChannelsAre
<1>2. a.map[s] \in Seq(Frame) /\ a.dispatched[Own(s)] \in Seq(Seq(Frame))
    BY <1>1 DEF AggregatorType
<1> QED
    BY <1>2, LenProperties, EmptySeq DEF IsOpen

\* f is the next frame of the service.
Continues(f, a, s) == Begins(f, IsOpen(a, s), Count(a, s))

\* The frames of a message that has begun, with the next one.
PartialWith(p, a, s, x) == \A k \in 1 .. Len(p) :
    /\ p[k].session = x /\ p[k].channel = Own(s)
    /\ p[k].msg = Len(a.dispatched[Own(s)]) + 1
    /\ p[k].first = (k = 1) /\ (k < Len(p) => ~p[k].last)
    /\ k > 1 => p[k].record > p[k - 1].record

Grown(p, a, f, s, x) ==
    /\ p \in Seq(Frame) /\ Len(p) \in Nat /\ Len(p) >= 1 /\ p[Len(p)] = f
    /\ f.msg = Len(a.dispatched[Own(s)]) + 1
    /\ PartialWith(p, a, s, x)

\* The next frame of a service makes its message grow.
LEMMA PartialMore ==
    ASSUME NEW a, AggregatorType(a), NEW s \in Services, NEW x, Partial(a, s, x),
           NEW f \in Frame, f.session = x, f.channel = Own(s),
           Continues(f, a, s),
           \A k \in 1 .. Len(a.map[s]) : a.map[s][k].record < f.record,
           NEW p, p = Append(a.map[s], f)
    PROVE  Grown(p, a, f, s, x)
<1> DEFINE q == a.map[s]
           n == Len(a.dispatched[Own(s)])
<1>1. q \in Seq(Frame) /\ Len(q) \in Nat /\ n \in Nat /\ (IsOpen(a, s) <=> Len(q) >= 1)
    BY AggregatorIs
<1>2. f.msg = n + 1
    <2>1. CASE IsOpen(a, s)
        BY <1>1, <2>1 DEF Continues, Begins, Count
    <2>2. CASE ~IsOpen(a, s)
        BY <1>1, <2>2 DEF Continues, Begins, Count
    <2> QED
        BY <2>1, <2>2
<1>3. \A k \in 1 .. Len(q) :
        /\ q[k].session = x /\ q[k].channel = Own(s) /\ q[k].msg = n + 1
        /\ q[k].first = (k = 1) /\ ~q[k].last
        /\ k > 1 => q[k].record > q[k - 1].record
    BY DEF Partial
<1>4. \A k \in 1 .. Len(q) : q[k].record < f.record
    OBVIOUS
<1>5. p = Append(q, f) /\ f.first = ~IsOpen(a, s)
    BY DEF Continues, Begins
<1>q. \A k \in 1 .. Len(q) : q[k].record \in Nat
    BY <1>1, ElementOfSeq, FrameIs
<1> HIDE DEF q, n
<1>6. /\ p \in Seq(Frame) /\ Len(p) = Len(q) + 1
      /\ \A k \in 1 .. Len(q) : p[k] = q[k]
      /\ p[Len(q) + 1] = f
    BY <1>1, <1>5, OneMore
<1>7. ASSUME NEW k \in 1 .. Len(p)
      PROVE  /\ p[k].session = x /\ p[k].channel = Own(s) /\ p[k].msg = n + 1
             /\ p[k].first = (k = 1) /\ (k < Len(p) => ~p[k].last)
             /\ k > 1 => p[k].record > p[k - 1].record
    <2>1. CASE k \in 1 .. Len(q)
        <3>1. p[k] = q[k] /\ (k > 1 => k - 1 \in 1 .. Len(q) /\ p[k - 1] = q[k - 1])
            BY <1>1, <1>6, <2>1
        <3>2. /\ q[k].session = x /\ q[k].channel = Own(s) /\ q[k].msg = n + 1
              /\ q[k].first = (k = 1) /\ ~q[k].last
              /\ k > 1 => q[k].record > q[k - 1].record
            BY <1>3, <2>1
        <3> QED
            BY <3>1, <3>2
    <2>2. CASE k = Len(q) + 1
        <3>1. p[k] = f /\ ~(k < Len(p))
            BY <1>1, <1>6, <2>2
        <3>2. k > 1 => k - 1 \in 1 .. Len(q) /\ p[k - 1] = q[k - 1]
            BY <1>1, <1>6, <2>2
        <3>3. k > 1 => p[k].record > p[k - 1].record
            BY <1>4, <1>q, <3>1, <3>2, FrameIs
        <3>4. f.first = (k = 1)
            <4>1. CASE k = 1
                BY <1>1, <1>5, <2>2, <4>1
            <4>2. CASE k # 1
                BY <1>1, <1>5, <2>2, <4>2
            <4> QED
                BY <4>1, <4>2
        <3> QED
            BY <1>2, <3>1, <3>3, <3>4
    <2>3. k \in 1 .. Len(q) \/ k = Len(q) + 1
        BY <1>1, <1>6
    <2> QED
        BY <2>1, <2>2, <2>3
<1>8. PartialWith(p, a, s, x)
    BY <1>7 DEF PartialWith, n
<1> QED
    BY <1>1, <1>2, <1>6, <1>8 DEF Grown, n

\* b is the aggregator a after a message in one frame.
TakenWhole(b, a, f) ==
    /\ AggregatorType(b) /\ ~b.thrown /\ b.map = a.map
    /\ b.dispatched = Add(a.dispatched, f.channel, <<f>>)

\* A message of one frame is dispatched at once.
LEMMA AggregateWhole ==
    ASSUME NEW a, AggregatorType(a), ~a.thrown, NEW f \in Frame, f.first /\ f.last,
           NEW b, b = Aggregate(a, f)
    PROVE  TakenWhole(b, a, f)
<1>1. f.channel \in Channels
    BY FrameIs
<1>2. b = [a EXCEPT !.dispatched[f.channel] = Append(@, <<f>>)]
    BY DEF Aggregate
<1>3. a.dispatched[f.channel] \in Seq(Seq(Frame)) /\ <<f>> \in Seq(Frame)
    BY <1>1 DEF AggregatorType
<1>4. Append(a.dispatched[f.channel], <<f>>) \in Seq(Seq(Frame))
    BY <1>3, AppendProperties
<1>5. b.dispatched = Add(a.dispatched, f.channel, <<f>>)
    BY <1>2 DEF AggregatorType, Add
<1>6. b.dispatched \in [Channels -> Seq(Seq(Frame))]
    BY <1>4, <1>5 DEF AggregatorType, Add
<1>7. b.map = a.map /\ b.thrown = a.thrown
    BY <1>2 DEF AggregatorType
<1>8. AggregatorType(b)
    BY <1>2, <1>6, <1>7 DEF AggregatorType
<1> QED
    BY <1>5, <1>7, <1>8 DEF TakenWhole

\* b is the aggregator a after a frame of a service, p the frames of its message.
Taken(b, a, f, s, p) ==
    /\ AggregatorType(b) /\ ~b.thrown
    /\ b.map[s] = IF f.last THEN <<>> ELSE p
    /\ \A t \in Services : t # s => b.map[t] = a.map[t]
    /\ b.dispatched = IF f.last THEN Add(a.dispatched, Own(s), p) ELSE a.dispatched

\* No assertion fails on the next frame of a longer message.
LEMMA AggregatePart ==
    ASSUME NEW a, AggregatorType(a), ~a.thrown, NEW f \in Frame, ~(f.first /\ f.last),
           NEW s \in Services, f.channel = Own(s), Continues(f, a, s),
           NEW p \in Seq(Frame), p = Append(a.map[s], f),
           NEW b, b = Aggregate(a, f)
    PROVE  Taken(b, a, f, s, p)
<1> DEFINE c == Own(s)
<1>1. c \in Channels /\ f.channel = c /\ f.channel[1] = s
    BY ChannelsAre
<1>2. f.first \in BOOLEAN /\ f.last \in BOOLEAN
    BY FrameIs
<1>3. f.first <=> a.map[s] = <<>>
    BY <1>2 DEF Continues, Begins, IsOpen
<1>4. <<>> \in Seq(Frame)
    OBVIOUS
<1>5. a.dispatched[c] \in Seq(Seq(Frame)) /\ a.dispatched \in [Channels -> Seq(Seq(Frame))]
      /\ a.map \in [Services -> Seq(Frame)] /\ a.thrown \in BOOLEAN
    BY <1>1 DEF AggregatorType
<1>6. Append(a.dispatched[c], p) \in Seq(Seq(Frame))
    BY <1>5, AppendProperties
<1> HIDE DEF c
<1>7. CASE f.last
    <2>1. ~f.first /\ a.map[s] # <<>>
        BY <1>3, <1>7
    <2>2. b = Dispatch(a, f, p)
        BY <1>1, <1>7, <2>1 DEF Aggregate
    <2>3. b = [a EXCEPT !.map[s] = <<>>, !.dispatched[c] = Append(@, p)]
        BY <1>1, <2>2 DEF Dispatch
    <2>4. /\ b.map = [a.map EXCEPT ![s] = <<>>]
          /\ b.dispatched = [a.dispatched EXCEPT ![c] = Append(@, p)]
          /\ b.thrown = a.thrown
          /\ b = [map |-> b.map, dispatched |-> b.dispatched, thrown |-> b.thrown]
        BY <2>3 DEF AggregatorType
    <2>5. b.map \in [Services -> Seq(Frame)]
        BY <1>4, <1>5, <2>4
    <2>6. b.dispatched \in [Channels -> Seq(Seq(Frame))]
        BY <1>5, <1>6, <2>4
    <2>7. AggregatorType(b)
        BY <1>5, <2>4, <2>5, <2>6 DEF AggregatorType
    <2>8. b.map[s] = <<>> /\ \A t \in Services : t # s => b.map[t] = a.map[t]
        BY <1>5, <2>4
    <2>9. b.dispatched = Add(a.dispatched, Own(s), p)
        BY <2>4 DEF c, Add
    <2> QED
        BY <1>5, <1>7, <2>4, <2>7, <2>8, <2>9 DEF Taken
<1>8. CASE ~f.last
    <2>1. b = [a EXCEPT !.map[s] = p]
        <3>1. CASE f.first
            BY <1>1, <1>3, <1>8, <3>1 DEF Aggregate
        <3>2. CASE ~f.first
            <4>1. a.map[s] # <<>> /\ f.first = FALSE /\ f.last = FALSE
                BY <1>2, <1>3, <1>8, <3>2
            <4>2. (f.first # (a.map[s] = <<>>)) = FALSE
                BY <4>1
            <4> QED
                BY <1>1, <4>1, <4>2 DEF Aggregate
        <3> QED
            BY <3>1, <3>2
    <2>2. /\ b.map = [a.map EXCEPT ![s] = p]
          /\ b.dispatched = a.dispatched
          /\ b.thrown = a.thrown
          /\ b = [map |-> b.map, dispatched |-> b.dispatched, thrown |-> b.thrown]
        BY <2>1 DEF AggregatorType
    <2>3. b.map \in [Services -> Seq(Frame)]
        BY <1>5, <2>2
    <2>4. AggregatorType(b)
        BY <1>5, <2>2, <2>3 DEF AggregatorType
    <2>5. b.map[s] = p /\ \A t \in Services : t # s => b.map[t] = a.map[t]
        BY <1>5, <2>2
    <2> QED
        BY <1>5, <1>8, <2>2, <2>4, <2>5 DEF Taken
<1> QED
    BY <1>2, <1>7, <1>8

-----------------------------------------------------------------------------
(***************************************************************************)
(* What holds of an aggregator while the frames E are on the way.  x is    *)
(* the session, r and m are the phone's last record and its messages.      *)
(***************************************************************************)
Bounds(a, r, m) ==
    /\ \A s \in Services : \A k \in 1 .. Len(a.map[s]) : a.map[s][k].record <= r
    /\ \A i \in 1 .. Len(a.dispatched[Plain]) :
          /\ a.dispatched[Plain][i][1].msg \in Nat
          /\ a.dispatched[Plain][i][1].msg <= m[Plain]

Aggregated(a, E, x, r, m) ==
    /\ AggregatorType(a) /\ ~a.thrown
    /\ Dispatches(a.dispatched, x)
    /\ \A s \in Services : Partial(a, s, x)
    /\ AggregatedFirst(a, E)
    /\ PlainOnce(a.dispatched, E)
    /\ Bounds(a, r, m)

\* E are frames the phone has sent in this session.
OnTheWay(E, x, r, m) == E \subseteq Frame /\ \A f \in E : Sound(f, x, r, m)

\* The aggregator takes a plain frame that is on the way.
LEMMA TakePlain ==
    ASSUME NEW a, NEW E, NEW x, NEW r, NEW m, Aggregated(a, E, x, r, m),
           OnTheWay(E, x, r, m), NEW f \in E, ~Encrypted(f),
           NEW D, D = E \ {f}, \A g \in D : ~Encrypted(g) => g.msg # f.msg,
           NEW b, b = Aggregate(a, f)
    PROVE  /\ Aggregated(b, D, x, r, m)
           /\ \A po : Chained(a, E, po, m) => Chained(b, D, po, m)
<1>1. /\ f \in Frame /\ f.session = x /\ f.first /\ f.last /\ f.msg <= m[Plain]
      /\ f.channel = Plain
      /\ \A g \in D : g \in E /\ (~Encrypted(g) => g.msg # f.msg)
    BY KindsAre DEF OnTheWay, Sound
<1>2. AggregatorType(a) /\ ~a.thrown
    BY DEF Aggregated
<1> DEFINE p == <<f>>
<1>3. /\ AggregatorType(b) /\ ~b.thrown /\ b.map = a.map
      /\ b.dispatched = Add(a.dispatched, Plain, p)
    <2>1. TakenWhole(b, a, f)
        BY <1>1, <1>2, AggregateWhole
    <2> QED
        BY <1>1, <2>1 DEF TakenWhole
<1>4. p \in Seq(Frame) /\ Len(p) = 1 /\ p[1] = f
    BY <1>1
<1>5. MessageOf(p, Plain, x)
    <2> SUFFICES ASSUME NEW k \in 1 .. Len(p)
                 PROVE  /\ p[k].session = x /\ p[k].channel = Plain /\ p[k].msg = p[1].msg
                        /\ p[k].first = (k = 1) /\ p[k].last = (k = Len(p))
                        /\ k > 1 => p[k].record > p[k - 1].record
        BY DEF MessageOf
    <2>1. k = 1 /\ k = Len(p) /\ ~(k > 1) /\ p[k] = f
        BY <1>4
    <2>2. f.first = TRUE /\ f.last = TRUE
        BY <1>1, FrameIs
    <2> QED
        BY <1>1, <1>4, <2>1, <2>2
<1> HIDE DEF p
<1> DEFINE d == a.dispatched
           e == b.dispatched
<1>6. Takes(p, d[Plain], Plain)
    <2>1. ~Plain[2]
        BY ChannelsAre
    <2>2. \A i \in 1 .. Len(d[Plain]) : d[Plain][i][1].msg # f.msg
        BY DEF Aggregated, PlainOnce
    <2> QED
        BY <1>4, <2>1, <2>2 DEF Takes
<1>7. d \in [Channels -> Seq(Seq(Frame))] /\ Dispatches(d, x) /\ Plain \in Channels
    BY ChannelsAre DEF Aggregated, AggregatorType
<1>8. e = Add(d, Plain, p)
    BY <1>3
<1> HIDE DEF d, e
<1>9. /\ Dispatches(e, x)
      /\ \A i \in 1 .. Len(e[Plain]) :
            (i \in 1 .. Len(d[Plain]) /\ e[Plain][i] = d[Plain][i]) \/ e[Plain][i] = p
      /\ \A c \in Channels : c # Plain => e[c] = d[c]
    <2>1. Added(e, d, Plain, p, x)
        BY <1>4, <1>5, <1>6, <1>7, <1>8, DispatchesMore
    <2> QED
        BY <2>1 DEF Added
<1>10. \A s \in Services : /\ e[Own(s)] = d[Own(s)] /\ b.map[s] = a.map[s]
                           /\ IsOpen(b, s) = IsOpen(a, s)
    BY <1>3, <1>9, ChannelsAre DEF IsOpen
<1>11. \A s \in Services : Count(b, s) = Count(a, s)
    BY <1>10 DEF Count, d, e
<1>12. ASSUME NEW s \in Services PROVE Partial(b, s, x)
    <2>1. Partial(a, s, x)
        BY DEF Aggregated
    <2>2. /\ b.map[s] = a.map[s]
          /\ b.dispatched[Own(s)] = a.dispatched[Own(s)]
        BY <1>10 DEF d, e
    <2> QED
        BY <2>1, <2>2 DEF Partial
<1>13. AggregatedFirst(b, D)
    BY <1>1, <1>3 DEF Aggregated, AggregatedFirst
<1>14. PlainOnce(e, D)
    <2> SUFFICES ASSUME NEW i \in 1 .. Len(e[Plain]), NEW g \in D, ~Encrypted(g)
                 PROVE  e[Plain][i][1].msg # g.msg
        BY DEF PlainOnce
    <2>1. CASE i \in 1 .. Len(d[Plain]) /\ e[Plain][i] = d[Plain][i]
        BY <1>1, <2>1 DEF Aggregated, PlainOnce, d
    <2>2. CASE e[Plain][i] = p
        BY <1>1, <1>4, <2>2
    <2> QED
        BY <1>9, <2>1, <2>2
<1>15. Bounds(b, r, m)
    <2>1. \A i \in 1 .. Len(e[Plain]) : e[Plain][i][1].msg \in Nat /\ e[Plain][i][1].msg <= m[Plain]
        <3> SUFFICES ASSUME NEW i \in 1 .. Len(e[Plain])
                     PROVE  e[Plain][i][1].msg \in Nat /\ e[Plain][i][1].msg <= m[Plain]
            OBVIOUS
        <3>1. CASE i \in 1 .. Len(d[Plain]) /\ e[Plain][i] = d[Plain][i]
            BY <3>1 DEF Aggregated, Bounds, d
        <3>2. CASE e[Plain][i] = p
            <4>1. f.msg \in Nat
                BY <1>1, FrameIs
            <4> QED
                BY <1>1, <1>4, <3>2, <4>1
        <3> QED
            BY <1>9, <3>1, <3>2
    <2> QED
        BY <1>3, <2>1 DEF Aggregated, Bounds, e
<1>16. Aggregated(b, D, x, r, m)
    BY <1>3, <1>9, <1>12, <1>13, <1>14, <1>15 DEF Aggregated, e
<1>17. ASSUME NEW po, Chained(a, E, po, m)
       PROVE  Chained(b, D, po, m)
    <2> SUFFICES ASSUME NEW s \in Services
                 PROVE  Chain(OfService(D, s), IsOpen(b, s), Count(b, s), po[s], m[Own(s)])
        BY DEF Chained
    <2>1. OfService(D, s) = OfService(E, s)
        BY <1>1, ChannelsAre DEF OfService
    <2>2. Chain(OfService(E, s), IsOpen(a, s), Count(a, s), po[s], m[Own(s)])
        BY <1>17 DEF Chained
    <2>3. IsOpen(b, s) = IsOpen(a, s) /\ Count(b, s) = Count(a, s)
        BY <1>10, <1>11
    <2> QED
        BY <2>1, <2>2, <2>3
<1> QED
    BY <1>16, <1>17


\* What the aggregator does with the next encrypted frame of a service.
LEMMA AggregateNext ==
    ASSUME NEW a, AggregatorType(a), ~a.thrown, NEW f \in Frame,
           NEW s \in Services, f.channel = Own(s), Continues(f, a, s),
           NEW p \in Seq(Frame), p = Append(a.map[s], f),
           NEW b, b = Aggregate(a, f)
    PROVE  Taken(b, a, f, s, p)
<1>1. CASE ~(f.first /\ f.last)
    BY <1>1, AggregatePart
<1>2. CASE f.first /\ f.last
    <2>1. a.map[s] = <<>>
        BY <1>2 DEF Continues, Begins, IsOpen
    <2>2. p = <<f>>
        BY <2>1
    <2>3. TakenWhole(b, a, f)
        BY <1>2, AggregateWhole
    <2> QED
        BY <1>2, <2>1, <2>2, <2>3 DEF Taken, TakenWhole
<1> QED
    BY <1>1, <1>2

\* The aggregator takes the first encrypted frame of a service.
LEMMA TakeEncrypted ==
    ASSUME NEW a, NEW E, NEW x, NEW r, NEW m, NEW po, Aggregated(a, E, x, r, m),
           OnTheWay(E, x, r, m), Chained(a, E, po, m), NEW f \in E,
           NEW s \in Services, f.channel = Own(s),
           NEW D, D = E \ {f}, \A g \in D : Encrypted(g) => f.record < g.record,
           NEW b, b = Aggregate(a, f)
    PROVE  Aggregated(b, D, x, r, m) /\ Chained(b, D, po, m)
<1>1. /\ f \in Frame /\ f.session = x /\ f.record <= r /\ f.record \in Nat
      /\ f.first \in BOOLEAN /\ f.last \in BOOLEAN /\ f.msg \in Nat
    BY FrameIs DEF OnTheWay, Sound
<1>2. Encrypted(f) /\ AggregatorType(a) /\ ~a.thrown /\ Partial(a, s, x)
    BY ChannelsAre DEF Aggregated, Encrypted
<1>4. /\ Continues(f, a, s)
      /\ Chain(OfService(D, s), ~f.last, f.msg, po[s], m[Own(s)])
    <2> DEFINE C == OfService(E, s)
               R == OfService(D, s)
    <2>1. C \in SUBSET Frame /\ f \in C /\ R = C \ {f}
        BY DEF OfService, OnTheWay
    <2>2. \A g \in R : f.record < g.record
        <3>1. \A g \in R : g \in D /\ Encrypted(g)
            BY ChannelsAre DEF OfService, Encrypted
        <3> QED
            BY <3>1
    <2>3. Chain(C, IsOpen(a, s), Count(a, s), po[s], m[Own(s)])
        BY DEF Chained
    <2> HIDE DEF C, R
    <2>4. Begins(f, IsOpen(a, s), Count(a, s))
        BY <2>1, <2>2, <2>3, ChainTake
    <2>5. Chain(R, ~f.last, f.msg, po[s], m[Own(s)])
        BY <2>1, <2>2, <2>3, ChainTake
    <2> QED
        BY <2>4, <2>5 DEF R, Continues
<1>5. \A k \in 1 .. Len(a.map[s]) : a.map[s][k].record < f.record
    BY <1>2 DEF Aggregated, AggregatedFirst
<1> DEFINE p == Append(a.map[s], f)
<1>p. p = Append(a.map[s], f)
    OBVIOUS
<1> HIDE DEF p
<1>g. Grown(p, a, f, s, x)
    BY <1>1, <1>2, <1>4, <1>5, <1>p, PartialMore
<1>t. Taken(b, a, f, s, p)
    <2>1. p \in Seq(Frame)
        BY <1>g DEF Grown
    <2> QED
        BY <1>1, <1>2, <1>4, <1>p, <2>1, AggregateNext
<1> DEFINE c == Own(s)
           q == a.map[s]
           d == a.dispatched
           e == b.dispatched
<1>3. /\ q \in Seq(Frame) /\ Len(q) \in Nat /\ Len(d[c]) \in Nat
      /\ c \in Channels /\ c # Plain /\ c[2] = TRUE
      /\ \A t \in Services : t # s => Own(t) \in Channels /\ Own(t) # c
    BY <1>2, ChannelsAre, AggregatorIs
<1>6. /\ p \in Seq(Frame) /\ Len(p) \in Nat /\ Len(p) >= 1 /\ p[Len(p)] = f
      /\ f.msg = Len(d[c]) + 1
      /\ PartialWith(p, a, s, x)
    BY <1>g DEF Grown
<1>7. /\ AggregatorType(b) /\ ~b.thrown
      /\ b.map[s] = IF f.last THEN <<>> ELSE p
      /\ \A t \in Services : t # s => b.map[t] = a.map[t]
      /\ e = IF f.last THEN Add(d, c, p) ELSE d
    BY <1>t DEF Taken
<1>q. p = Append(q, f) /\ f.channel = c
    BY <1>p
<1>8. \A k \in 1 .. Len(p) : (k \in 1 .. Len(q) /\ p[k] = q[k]) \/ p[k] = f
    <2>1. /\ Len(p) = Len(q) + 1
          /\ \A i \in 1 .. Len(q) : p[i] = q[i]
          /\ p[Len(q) + 1] = f
        BY <1>1, <1>3, <1>q, OneMore
    <2>2. \A n \in Nat : \A k \in 1 .. n + 1 : k \in 1 .. n \/ k = n + 1
        OBVIOUS
    <2> QED
        BY <1>3, <2>1, <2>2
<1>9. d \in [Channels -> Seq(Seq(Frame))] /\ Dispatches(d, x) /\ \A t \in Services : Partial(a, t, x)
    BY DEF Aggregated, AggregatorType
<1> HIDE DEF c, q, p, d, e
<1>10. /\ Dispatches(e, x) /\ \A h \in Channels : h # c => e[h] = d[h]
       /\ f.last => Len(e[c]) = Len(d[c]) + 1
    <2>1. CASE f.last
        <3>1. e = Add(d, c, p)
            BY <1>7, <2>1
        <3>2. \A k \in 1 .. Len(p) : p[k].last = (k = Len(p))
            <4> SUFFICES ASSUME NEW k \in 1 .. Len(p) PROVE p[k].last = (k = Len(p))
                OBVIOUS
            <4>1. CASE k = Len(p)
                BY <1>1, <1>6, <2>1, <4>1
            <4>2. CASE k < Len(p)
                <5>1. ~p[k].last
                    BY <1>6, <4>2 DEF PartialWith
                <5>2. p[k].last \in BOOLEAN
                    BY <1>6, ElementOfSeq, FrameIs
                <5>3. (k = Len(p)) = FALSE
                    BY <1>6, <4>2
                <5> QED
                    BY <5>1, <5>2, <5>3
            <4> QED
                BY <1>6, <4>1, <4>2
        <3>3. \A k \in 1 .. Len(p) : /\ p[k].session = x /\ p[k].channel = c
                                     /\ p[k].msg = Len(d[c]) + 1 /\ p[k].first = (k = 1)
                                     /\ k > 1 => p[k].record > p[k - 1].record
            BY <1>6 DEF PartialWith, c, d
        <3>4. 1 \in 1 .. Len(p)
            BY <1>6
        <3>5. p[1].msg = Len(d[c]) + 1
            BY <3>3, <3>4
        <3>6. MessageOf(p, c, x)
            BY <3>2, <3>3, <3>5 DEF MessageOf
        <3>7. Takes(p, d[c], c)
            BY <1>2, <1>3, <3>5 DEF Takes, c
        <3>a. c \in Channels /\ p \in Seq(Frame) /\ d \in [Channels -> Seq(Seq(Frame))]
              /\ Dispatches(d, x)
            BY <1>2, <1>3, <1>6, <1>9
        <3>8. Added(e, d, c, p, x)
            BY <3>a, <3>1, <3>6, <3>7, DispatchesMore
        <3> QED
            BY <3>8 DEF Added
    <2>2. CASE ~f.last
        BY <1>7, <1>9, <2>2
    <2> QED
        BY <2>1, <2>2
<1>11. \A t \in Services : t # s => /\ e[Own(t)] = d[Own(t)]
                                    /\ b.map[t] = a.map[t]
    BY <1>2, <1>3, <1>7, <1>10 DEF c
<1>12. IsOpen(b, s) = ~f.last /\ Count(b, s) = f.msg
    <2>1. CASE f.last
        <3>1. b.map[s] = <<>> /\ ~IsOpen(b, s)
            BY <1>7, <2>1 DEF IsOpen
        <3>2. Count(b, s) = Len(e[c])
            BY <1>3, <1>6, <1>10, <2>1, <3>1 DEF Count, e, c, d
        <3>3. IsOpen(b, s) = ~f.last
            BY <2>1, <3>1 DEF IsOpen
        <3> QED
            BY <1>6, <1>10, <2>1, <3>2, <3>3 DEF c, d
    <2>2. CASE ~f.last
        <3>1. b.map[s] = p /\ e = d
            BY <1>7, <2>2
        <3>2. IsOpen(b, s)
            BY <1>6, <1>7, <3>1, AggregatorIs
        <3>3. Count(b, s) = Len(d[c]) + 1
            BY <3>1, <3>2 DEF Count, e, c, d
        <3>4. IsOpen(b, s) = ~f.last
            BY <2>2, <3>2 DEF IsOpen
        <3> QED
            BY <1>6, <3>3, <3>4 DEF c, d
    <2> QED
        BY <2>1, <2>2
<1>13. ASSUME NEW t \in Services PROVE Partial(b, t, x)
    <2>1. CASE t # s
        <3>1. Partial(a, t, x)
            BY <1>9
        <3>2. b.map[t] = a.map[t] /\ b.dispatched[Own(t)] = a.dispatched[Own(t)]
            BY <1>11, <2>1 DEF d, e
        <3> QED
            BY <3>1, <3>2 DEF Partial
    <2>2. CASE t = s /\ f.last
        <3>1. Len(b.map[t]) = 0
            BY <1>7, <2>2
        <3> QED
            BY <3>1 DEF Partial
    <2>3. CASE t = s /\ ~f.last
        <3>1. b.map[t] = p /\ b.dispatched[Own(s)] = a.dispatched[Own(s)]
            BY <1>7, <2>3 DEF d, e
        <3>2. \A k \in 1 .. Len(p) : ~p[k].last
            <4>1. \A k \in 1 .. Len(p) : k < Len(p) => ~p[k].last
                BY <1>6 DEF PartialWith
            <4>2. \A k \in 1 .. Len(p) : k < Len(p) \/ k = Len(p)
                BY <1>6
            <4> QED
                BY <1>6, <2>3, <4>1, <4>2
        <3> QED
            BY <1>6, <2>3, <3>1, <3>2 DEF PartialWith, Partial
    <2> QED
        BY <2>1, <2>2, <2>3
<1>14. \A k \in 1 .. Len(b.map[s]) :
            (k \in 1 .. Len(q) /\ b.map[s][k] = q[k]) \/ b.map[s][k] = f
    <2>1. CASE f.last
        <3>1. Len(b.map[s]) = 0
            BY <1>7, <2>1
        <3> QED
            BY <3>1
    <2>2. CASE ~f.last
        BY <1>7, <1>8, <2>2
    <2> QED
        BY <2>1, <2>2
<1>15. AggregatedFirst(b, D)
    <2> SUFFICES ASSUME NEW t \in Services, NEW k \in 1 .. Len(b.map[t]),
                        NEW g \in D, Encrypted(g)
                 PROVE  b.map[t][k].record < g.record
        BY DEF AggregatedFirst
    <2>0. g \in E
        OBVIOUS
    <2>1. CASE t # s
        BY <1>7, <2>0, <2>1 DEF Aggregated, AggregatedFirst
    <2>2. CASE t = s /\ k \in 1 .. Len(q) /\ b.map[s][k] = q[k]
        BY <1>2, <1>3, <2>0, <2>2 DEF Aggregated, AggregatedFirst, q
    <2>3. CASE t = s /\ b.map[s][k] = f
        BY <2>3
    <2> QED
        BY <1>14, <2>1, <2>2, <2>3
<1>16. e[Plain] = d[Plain]
    BY <1>2, <1>3, <1>10, ChannelsAre DEF c
<1>17. PlainOnce(e, D)
    BY <1>16 DEF Aggregated, PlainOnce, d
<1>18. Bounds(b, r, m)
    <2>1. ASSUME NEW t \in Services, NEW k \in 1 .. Len(b.map[t])
          PROVE  b.map[t][k].record <= r
        <3>1. CASE t # s
            BY <1>7, <3>1 DEF Aggregated, Bounds
        <3>2. CASE t = s /\ k \in 1 .. Len(q) /\ b.map[s][k] = q[k]
            BY <1>2, <1>3, <3>2 DEF Aggregated, Bounds, q
        <3>3. CASE t = s /\ b.map[s][k] = f
            BY <1>1, <3>3
        <3> QED
            BY <1>14, <3>1, <3>2, <3>3
    <2>2. \A i \in 1 .. Len(e[Plain]) : e[Plain][i][1].msg \in Nat /\ e[Plain][i][1].msg <= m[Plain]
        BY <1>16 DEF Aggregated, Bounds, d
    <2> QED
        BY <2>1, <2>2 DEF Bounds, e
<1>19. Aggregated(b, D, x, r, m)
    BY <1>7, <1>10, <1>13, <1>15, <1>17, <1>18 DEF Aggregated, e
<1>20. ASSUME NEW t \in Services
       PROVE  Chain(OfService(D, t), IsOpen(b, t), Count(b, t), po[t], m[Own(t)])
    <2>1. CASE t # s
        <3>1. OfService(D, t) = OfService(E, t)
            <4>1. f.channel # Own(t)
                BY <1>3, <1>q, <2>1
            <4> QED
                BY <4>1 DEF OfService
        <3>2. IsOpen(b, t) = IsOpen(a, t) /\ Count(b, t) = Count(a, t)
            BY <1>11, <2>1 DEF IsOpen, Count, d, e
        <3>3. Chain(OfService(E, t), IsOpen(a, t), Count(a, t), po[t], m[Own(t)])
            BY DEF Chained
        <3> QED
            BY <3>1, <3>2, <3>3
    <2>2. CASE t = s
        BY <1>4, <1>12, <2>2 DEF c
    <2> QED
        BY <2>1, <2>2
<1>21. Chained(b, D, po, m)
    BY <1>20 DEF Chained
<1> QED
    BY <1>19, <1>21

-----------------------------------------------------------------------------
(***************************************************************************)
(* MessageAggregator takes the frames of an event, which are on the way.   *)
(***************************************************************************)
IsRun(a, F, N, run) ==
    run = [n \in 0 .. N |-> IF n = 0 THEN a ELSE Aggregate(run[n - 1], F[n])]

\* The recursion has a solution.
LEMMA RunExists ==
    ASSUME NEW a, NEW F
    PROVE  \A N \in Nat : \E run : IsRun(a, F, N, run)
<1> DEFINE Is(N, run) == IsRun(a, F, N, run)
           S == {N \in Nat : \E run : Is(N, run)}
<1>1. 0 \in S
    <2>1. Is(0, [n \in 0 .. 0 |-> a])
        BY DEF IsRun
    <2> QED
        BY <2>1
<1>2. ASSUME NEW N \in S PROVE N + 1 \in S
    <2>1. PICK r : Is(N, r)
        OBVIOUS
    <2> DEFINE q == [n \in 0 .. N + 1 |-> IF n = 0 THEN a ELSE Aggregate(r[n - 1], F[n])]
    <2>2. \A n \in 0 .. N : r[n] = IF n = 0 THEN a ELSE Aggregate(r[n - 1], F[n])
        BY <2>1 DEF IsRun
    <2>3. \A n \in 0 .. N : q[n] = r[n]
        BY <2>2
    <2>4. \A n \in 0 .. N + 1 : n # 0 => n - 1 \in 0 .. N
        OBVIOUS
    <2>5. \A n \in 0 .. N + 1 : n # 0 => q[n - 1] = r[n - 1]
        BY <2>3, <2>4
    <2>6. q = [n \in 0 .. N + 1 |-> IF n = 0 THEN a ELSE Aggregate(q[n - 1], F[n])]
        BY <2>5
    <2> HIDE DEF q
    <2>7. Is(N + 1, q)
        BY <2>6 DEF IsRun
    <2> QED
        BY <2>7
<1> HIDE DEF Is
<1>3. S = Nat
    BY <1>1, <1>2, Induction
<1> QED
    BY <1>3 DEF Is

Past(F, n) == {F[i] : i \in 1 .. n}

\* F are frames on the way, in order, and its plain ones are in no other
\* message.  If there are encrypted ones, those of
\* each service begin with what the aggregator expects, and all of F comes
\* before the rest of E.
Ready(F, a, E, x, r, m, po) ==
    /\ Aggregated(a, E, x, r, m) /\ OnTheWay(E, x, r, m)
    /\ F \in Seq(Frame) /\ Ordered(F) /\ Within(F) \subseteq E
    /\ \A f \in Within(F), g \in E :
          ~Encrypted(f) /\ ~Encrypted(g) /\ f # g => g.msg # f.msg
    /\ \A i \in 1 .. Len(F) : Encrypted(F[i]) =>
          /\ Chained(a, E, po, m)
          /\ \A g \in E \ Within(F) : Encrypted(g) => F[i].record < g.record

\* b is the aggregator a after the frames F.
Reached(b, F, a, E, x, r, m, po) ==
    /\ Aggregated(b, E \ F, x, r, m)
    /\ Chained(a, E, po, m) => Chained(b, E \ F, po, m)

\* One frame of the event.
LEMMA RunNext ==
    ASSUME NEW F, NEW a, NEW E, NEW x, NEW r, NEW m, NEW po,
           Ready(F, a, E, x, r, m, po), NEW n \in Nat, n < Len(F),
           NEW b, Reached(b, Past(F, n), a, E, x, r, m, po)
    PROVE  Reached(Aggregate(b, F[n + 1]), Past(F, n + 1), a, E, x, r, m, po)
<1> DEFINE f == F[n + 1]
           B == E \ Past(F, n)
           D == E \ Past(F, n + 1)
           c == Aggregate(b, f)
<1>1. F \in Seq(Frame) /\ Len(F) \in Nat /\ n + 1 \in 1 .. Len(F)
    BY LenProperties DEF Ready
<1>2. f \in Frame /\ f \in E
    BY <1>1, ElementOfSeq DEF Ready, Within
<1>3. \A i \in 1 .. n : Less(F[i], f)
    <2>1. \A i \in 1 .. n : i \in 1 .. Len(F) /\ i < n + 1
        BY <1>1
    <2> QED
        BY <1>1, <2>1 DEF Ready, Ordered
<1>4. f \in B
    BY <1>2, <1>3, FrameIs DEF Past
<1>5. D = B \ {f}
    <2>1. \A i \in 1 .. n + 1 : i \in 1 .. n \/ i = n + 1
        OBVIOUS
    <2>2. \A i \in 1 .. n : i \in 1 .. n + 1
        OBVIOUS
    <2>3. n + 1 \in 1 .. n + 1
        OBVIOUS
    <2> QED
        BY <2>1, <2>2, <2>3 DEF Past
<1>6. OnTheWay(B, x, r, m)
    BY DEF Ready, OnTheWay
<1>7. Aggregated(b, B, x, r, m) /\ (Chained(a, E, po, m) => Chained(b, B, po, m))
    BY DEF Reached
<1>8. c = Aggregate(b, f)
    OBVIOUS
<1>9. Aggregated(c, D, x, r, m) /\ (Chained(a, E, po, m) => Chained(c, D, po, m))
    <2>1. CASE ~Encrypted(f)
        <3>0. \A g \in D : ~Encrypted(g) => g.msg # f.msg
            <4>1. \A g \in D : g \in E /\ g # f
                BY <1>5
            <4>2. f \in Within(F)
                BY <1>1 DEF Within
            <4> QED
                BY <2>1, <4>1, <4>2 DEF Ready
        <3> HIDE DEF B, D, c, f
        <3>1. Aggregated(c, D, x, r, m)
            BY <1>4, <1>5, <1>6, <1>7, <1>8, <2>1, <3>0, TakePlain
        <3>2. Chained(b, B, po, m) => Chained(c, D, po, m)
            BY <1>4, <1>5, <1>6, <1>7, <1>8, <2>1, <3>0, TakePlain
        <3> QED
            BY <1>7, <3>1, <3>2
    <2>2. CASE Encrypted(f)
        <3>1. /\ Chained(a, E, po, m)
              /\ \A g \in E \ Within(F) : Encrypted(g) => f.record < g.record
            BY <1>1, <2>2 DEF Ready
        <3>2. \A g \in D : Encrypted(g) => f.record < g.record
            <4> SUFFICES ASSUME NEW g \in D, Encrypted(g) PROVE f.record < g.record
                OBVIOUS
            <4>1. CASE g \notin Within(F)
                BY <3>1, <4>1
            <4>2. CASE g \in Within(F)
                <5>1. PICK j \in 1 .. Len(F) : g = F[j]
                    BY <4>2 DEF Within
                <5>2. j \notin 1 .. n + 1
                    BY <5>1 DEF Past
                <5>3. n + 1 < j
                    BY <1>1, <5>2
                <5>4. Less(f, g)
                    BY <1>1, <5>1, <5>3 DEF Ready, Ordered
                <5> QED
                    BY <2>2, <5>4 DEF Less
            <4> QED
                BY <4>1, <4>2
        <3>3. PICK s \in Services : f.channel = Own(s)
            BY <1>2, <2>2, KindsAre
        <3>4. Chained(b, B, po, m)
            BY <1>7, <3>1
        <3> HIDE DEF B, D, c, f
        <3>5. Aggregated(c, D, x, r, m) /\ Chained(c, D, po, m)
            BY <1>4, <1>5, <1>6, <1>7, <1>8, <3>2, <3>3, <3>4, TakeEncrypted
        <3> QED
            BY <3>5
    <2> QED
        BY <2>1, <2>2
<1> QED
    BY <1>9 DEF Reached

\* The first frames of the event, as many as there are.
LEMMA RunReaches ==
    ASSUME NEW F, NEW a, NEW E, NEW x, NEW r, NEW m, NEW po,
           Ready(F, a, E, x, r, m, po), NEW run, IsRun(a, F, Len(F), run)
    PROVE  \A n \in 0 .. Len(F) : Reached(run[n], Past(F, n), a, E, x, r, m, po)
<1> DEFINE N == Len(F)
<1>0. N \in Nat
    BY LenProperties DEF Ready
<1>1. /\ run[0] = a
      /\ \A n \in 0 .. N : n # 0 => run[n] = Aggregate(run[n - 1], F[n])
    BY <1>0 DEF IsRun
<1> DEFINE C == {n \in Nat : n <= N => Reached(run[n], Past(F, n), a, E, x, r, m, po)}
<1>2. 0 \in C
    <2>1. Past(F, 0) = {} /\ E \ {} = E
        BY DEF Past
    <2>2. Reached(a, {}, a, E, x, r, m, po)
        BY <2>1 DEF Reached, Ready
    <2> QED
        BY <1>1, <2>1, <2>2
<1>3. ASSUME NEW n \in C PROVE n + 1 \in C
    <2>1. CASE n + 1 <= N
        <3>1. n \in Nat /\ n < N /\ Reached(run[n], Past(F, n), a, E, x, r, m, po)
            BY <1>0, <2>1
        <3>2. run[n + 1] = Aggregate(run[n], F[n + 1])
            BY <1>0, <1>1, <2>1
        <3>3. Reached(Aggregate(run[n], F[n + 1]), Past(F, n + 1), a, E, x, r, m, po)
            BY <3>1, RunNext
        <3> QED
            BY <3>2, <3>3
    <2> QED
        BY <2>1
<1> HIDE DEF C
<1>4. C = Nat
    BY <1>2, <1>3, Induction DEF C
<1> QED
    BY <1>0, <1>4 DEF C

\* All frames of the event.
LEMMA RunGives ==
    ASSUME NEW F, NEW a, NEW E, NEW x, NEW r, NEW m, NEW po,
           Ready(F, a, E, x, r, m, po), NEW run, IsRun(a, F, Len(F), run)
    PROVE  Reached(run[Len(F)], Within(F), a, E, x, r, m, po)
<1>1. Len(F) \in Nat
    BY LenProperties DEF Ready
<1>2. Reached(run[Len(F)], Past(F, Len(F)), a, E, x, r, m, po)
    BY <1>1, RunReaches
<1> QED
    BY <1>2 DEF Past, Within

\* What aggregateAll of the model leaves is what all frames give.
LEMMA AggregateAllGives ==
    ASSUME NEW F, NEW E, NEW x, NEW r, NEW m, NEW po,
           Ready(F, Now, E, x, r, m, po), AggregateAll(F)
    PROVE  \E b : /\ Reached(b, Within(F), Now, E, x, r, m, po)
                  /\ aggregator' = b.map /\ dispatched' = b.dispatched
                  /\ failed' = (failed \/ b.thrown)
<1> DEFINE N == Len(F)
           a == Now
           run == CHOOSE q : IsRun(a, F, N, q)
<1>1. IsRun(a, F, N, run)
    <2>1. \E q : IsRun(a, F, N, q)
        <3>1. N \in Nat
            BY LenProperties DEF Ready
        <3> QED
            BY <3>1, RunExists
    <2> QED
        BY <2>1, Zenon
<1>2. /\ aggregator' = run[N].map /\ dispatched' = run[N].dispatched
      /\ failed' = (failed \/ run[N].thrown)
    BY DEF AggregateAll, IsRun, Now
<1> HIDE DEF run
<1>3. Reached(run[N], Within(F), Now, E, x, r, m, po)
    BY <1>1, RunGives
<1> QED
    BY <1>2, <1>3

-----------------------------------------------------------------------------
(***************************************************************************)
(* Tasks: a new one waits, the first asks again or is done.                *)
(***************************************************************************)
Queue(q) == q \in Seq(TaskOver(Frame)) /\ \A i \in 1 .. Len(q) : WellFormed(q[i])

\* The next encrypted frame of F from number i on.
IsNext(k, F, i) ==
    /\ k \in i .. Len(F) /\ Encrypted(F[k])
    /\ \A l \in i .. k - 1 : ~Encrypted(F[l])

\* A task waits for its next encrypted frame.
LEMMA AcquireGives ==
    ASSUME NEW q, NEW F \in Seq(Frame), NEW i \in Nat \ {0}, HasMore([frames |-> F], i)
    PROVE  \E k : IsNext(k, F, i) /\ Acquire(q, F, i) = Append(q, [frames |-> F, next |-> k])
<1> DEFINE S == ToDecrypt([frames |-> F], i)
           k == First(S)
<1>1. S = {l \in i .. Len(F) : Encrypted(F[l])}
    BY DEF ToDecrypt
<1>2. Len(F) \in Nat
    BY LenProperties
<1>3. S \in SUBSET Nat /\ S # {}
    BY <1>1, <1>2 DEF HasMore
<1>4. \E x \in S : \A y \in S : x <= y
    <2> HIDE DEF S
    <2> QED
        BY <1>3, LeastNumber
<1>5. k \in S /\ \A y \in S : k <= y
    BY <1>4 DEF First
<1>6. Acquire(q, F, i) = Append(q, [frames |-> F, next |-> k])
    BY DEF Acquire
<1> HIDE DEF k
<1>7. k \in i .. Len(F) /\ Encrypted(F[k])
    BY <1>1, <1>5
<1>8. \A l \in i .. k - 1 : ~Encrypted(F[l])
    <2> SUFFICES ASSUME NEW l \in i .. k - 1, Encrypted(F[l]) PROVE FALSE
        OBVIOUS
    <2>1. l \in S
        BY <1>1, <1>2, <1>7
    <2> QED
        BY <1>5, <1>7, <2>1
<1> QED
    BY <1>6, <1>7, <1>8 DEF IsNext

\* Every task that waits does so for an encrypted frame of its own.
LEMMA TaskIs ==
    ASSUME NEW q, Queue(q)
    PROVE  /\ Len(q) \in Nat
           /\ \A i \in 1 .. Len(q) :
                /\ q[i] \in TaskOver(Frame) /\ q[i].frames \in Seq(Frame)
                /\ Len(q[i].frames) \in Nat
                /\ q[i].next \in 1 .. Len(q[i].frames) /\ q[i].next \in Nat
                /\ Encrypted(q[i].frames[q[i].next])
<1>1. q \in Seq(TaskOver(Frame)) /\ Len(q) \in Nat
    BY LenProperties DEF Queue
<1>2. ASSUME NEW i \in 1 .. Len(q)
      PROVE  /\ q[i] \in TaskOver(Frame) /\ q[i].frames \in Seq(Frame)
             /\ Len(q[i].frames) \in Nat
             /\ q[i].next \in 1 .. Len(q[i].frames) /\ q[i].next \in Nat
             /\ Encrypted(q[i].frames[q[i].next])
    <2>1. q[i] \in TaskOver(Frame)
        BY <1>1, ElementOfSeq
    <2>2. q[i].frames \in Seq(Frame) /\ q[i].next \in Nat
        BY <2>1 DEF TaskOver
    <2>3. DOMAIN q[i].frames = 1 .. Len(q[i].frames) /\ Len(q[i].frames) \in Nat
        BY <2>2, LenProperties
    <2>4. WellFormed(q[i])
        BY DEF Queue
    <2> QED
        BY <2>1, <2>2, <2>3, <2>4 DEF WellFormed
<1> QED
    BY <1>1, <1>2

\* p is the queue q with t behind it.
LongerBy(p, q, t) ==
    /\ Queue(p) /\ Len(q) \in Nat /\ Len(p) = Len(q) + 1
    /\ \A i \in 1 .. Len(q) : p[i] = q[i]
    /\ p[Len(q) + 1] = t

\* A task joins the queue.
LEMMA QueueMore ==
    ASSUME NEW q, Queue(q), NEW F \in Seq(Frame), NEW k \in 1 .. Len(F), Encrypted(F[k]),
           NEW t, t = [frames |-> F, next |-> k], NEW r, r = Append(q, t)
    PROVE  LongerBy(r, q, t)
<1>1. q \in Seq(TaskOver(Frame)) /\ Len(F) \in Nat /\ DOMAIN F = 1 .. Len(F)
    BY LenProperties DEF Queue
<1>2. t \in TaskOver(Frame) /\ WellFormed(t)
    BY <1>1 DEF TaskOver, WellFormed
<1>3. /\ r \in Seq(TaskOver(Frame)) /\ Len(q) \in Nat /\ Len(r) = Len(q) + 1
      /\ \A i \in 1 .. Len(q) : r[i] = q[i]
      /\ r[Len(q) + 1] = t
    BY <1>1, <1>2, OneMore
<1>4. \A i \in 1 .. Len(r) : i \in 1 .. Len(q) \/ i = Len(q) + 1
    BY <1>3
<1>5. \A i \in 1 .. Len(r) : WellFormed(r[i])
    BY <1>2, <1>3, <1>4 DEF Queue
<1> QED
    BY <1>3, <1>5 DEF Queue, LongerBy

\* p is the queue q without its first task.
WithoutHead(p, q) ==
    /\ Queue(p) /\ Len(q) \in Nat /\ 1 \in 1 .. Len(q) /\ Len(p) = Len(q) - 1
    /\ \A i \in 1 .. Len(p) : i + 1 \in 1 .. Len(q) /\ p[i] = q[i + 1]
    /\ Head(q) = q[1]

\* The first task leaves the queue.
LEMMA QueueLess ==
    ASSUME NEW q, Queue(q), q # <<>>, NEW r, r = Tail(q)
    PROVE  WithoutHead(r, q)
<1>1. q \in Seq(TaskOver(Frame))
    BY DEF Queue
<1>2. /\ r \in Seq(TaskOver(Frame)) /\ Len(q) \in Nat /\ 1 \in 1 .. Len(q)
      /\ Len(r) = Len(q) - 1
      /\ \A i \in 1 .. Len(q) - 1 : r[i] = q[i + 1]
      /\ Head(q) = q[1]
    BY <1>1, OneLess
<1>3. \A i \in 1 .. Len(r) : i + 1 \in 1 .. Len(q) /\ r[i] = q[i + 1]
    BY <1>2
<1>4. \A i \in 1 .. Len(r) : WellFormed(r[i])
    BY <1>3 DEF Queue
<1> QED
    BY <1>2, <1>3, <1>4 DEF Queue, WithoutHead

-----------------------------------------------------------------------------
(***************************************************************************)
(* What waits stays in order, and before what is to come.                  *)
(***************************************************************************)
LEMMA WithinIs ==
    ASSUME NEW S \in Seq(Frame)
    PROVE  /\ \A g \in Within(S) : g \in Frame /\ ~Less(g, g) /\ g.record \in Nat /\ g.msg \in Nat
           /\ \A i \in 1 .. Len(S) : S[i] \in Within(S) /\ S[i] \in Frame
<1>1. \A i \in 1 .. Len(S) : S[i] \in Within(S) /\ S[i] \in Frame
    BY ElementOfSeq DEF Within
<1>2. \A g \in Within(S) : g \in Frame
    BY <1>1 DEF Within
<1> QED
    BY <1>1, <1>2, FrameIs

LEMMA InTasksIs ==
    ASSUME NEW q, NEW g
    PROVE  g \in InTasks(q) <=> \E i \in 1 .. Len(q) : g \in Within(q[i].frames)
BY DEF InTasks

\* R is the stream S with frame f behind it.
WithFrame(R, f, q, S, r) ==
    R \in Seq(Frame) /\ Lined(q, R, r) /\ OnWay(q, R) = OnWay(q, S) \cup {f}

\* The phone's next frame.
LEMMA LinedPhone ==
    ASSUME NEW q, NEW S \in Seq(Frame), NEW r, Lined(q, S, r), NEW f \in Frame,
           \A g \in OnWay(q, S) : Less(g, f), Encrypted(f) => r < f.record,
           NEW R, R = S \o Bytes(f)
    PROVE  WithFrame(R, f, q, S, r)
<1>1. Whole(S) /\ TaskOrder(q, r) /\ StreamLast(InTasks(q), S, r)
    BY DEF Lined
<1>2. \A g \in Within(S) : Less(g, f)
    BY DEF OnWay
<1>3. R \in Seq(Frame) /\ Whole(R) /\ Within(R) = Within(S) \cup {f}
    BY <1>1, <1>2, StreamMore
<1>4. StreamLast(InTasks(q), R, r)
    <2>1. \A g \in InTasks(q) : Less(g, f)
        BY DEF OnWay
    <2> QED
        BY <1>1, <1>3, <2>1 DEF StreamLast
<1>5. OnWay(q, R) = OnWay(q, S) \cup {f}
    BY <1>3 DEF OnWay
<1> QED
    BY <1>1, <1>3, <1>4, <1>5 DEF Lined, WithFrame

\* F is what the codec returns of the stream S, R what is left.
Splits(F, q, S, R, r) ==
    /\ F \in Seq(Frame) /\ Ordered(F)
    /\ R \in Seq(Frame) /\ Lined(q, R, r)
    /\ Within(S) = Within(F) \cup Within(R)
    /\ \A f \in Within(F), g \in Within(R) : Less(f, g)
    /\ \A f \in InTasks(q), g \in Within(F) : Less(f, g)
    /\ \A g \in Within(F) : Encrypted(g) => r < g.record

\* What the codec returns comes before what it leaves, and after the tasks.
LEMMA LinedDecoded ==
    ASSUME NEW q, NEW S \in Seq(Frame), NEW r, Lined(q, S, r),
           NEW run, NEW n \in Nat, n <= Len(S), Decoded(S, run, n),
           NEW R, Rests(S, run.at, R)
    PROVE  Splits(run.frames, q, S, R, r)
<1> DEFINE at == run.at
           F == run.frames
<1>1. /\ Len(S) \in Nat /\ at \in 1 .. Len(S) + 1 /\ Cut(S, at)
      /\ F \in Seq(Frame) /\ Ordered(F) /\ R \in Seq(Frame)
      /\ \A i \in 1 .. Len(F) : \E j \in 1 .. at - 1 : F[i] = S[j]
      /\ \A j \in 1 .. at - 1 : \E i \in 1 .. Len(F) : F[i] = S[j]
    <2>1. Len(S) \in Nat
        BY LenProperties
    <2>2. at \in 1 .. n + 1
        BY DEF Decoded
    <2>3. at \in 1 .. Len(S) + 1
        BY <2>1, <2>2
    <2> HIDE DEF at
    <2> QED
        BY <2>1, <2>3 DEF Decoded, Rests, at
<1>2. Whole(S) /\ TaskOrder(q, r) /\ StreamLast(InTasks(q), S, r)
    BY DEF Lined
<1>3. /\ Whole(R)
      /\ \A f : f \in Within(R) <=> \E j \in at .. Len(S) : S[j] = f
    BY <1>1, <1>2, StreamRest
<1> HIDE DEF at, F
<1>4. \A f : f \in Within(F) <=> \E j \in 1 .. at - 1 : S[j] = f
    <2>1. ASSUME NEW f \in Within(F) PROVE \E j \in 1 .. at - 1 : S[j] = f
        <3>1. PICK i \in 1 .. Len(F) : f = F[i]
            BY DEF Within
        <3> QED
            BY <1>1, <3>1
    <2>2. ASSUME NEW j \in 1 .. at - 1 PROVE S[j] \in Within(F)
        BY <1>1 DEF Within
    <2> QED
        BY <2>1, <2>2
<1>5. \A f : f \in Within(S) <=> \E j \in 1 .. Len(S) : S[j] = f
    BY DEF Within
<1>6. /\ \A j \in 1 .. Len(S) : j \in 1 .. at - 1 \/ j \in at .. Len(S)
      /\ \A j \in 1 .. at - 1 : j \in 1 .. Len(S)
      /\ \A j \in at .. Len(S) : j \in 1 .. Len(S)
    BY <1>1
<1>7. Within(S) = Within(F) \cup Within(R)
    <2>1. \A f : f \in Within(S) <=> f \in Within(F) \/ f \in Within(R)
        BY <1>3, <1>4, <1>5, <1>6
    <2> QED
        BY <2>1
<1>8. ASSUME NEW f \in Within(F), NEW g \in Within(R) PROVE Less(f, g)
    <2>1. PICK i \in 1 .. at - 1 : S[i] = f
        BY <1>4
    <2>2. PICK j \in at .. Len(S) : S[j] = g
        BY <1>3
    <2>3. Less(S[i], S[j])
        BY <1>1 DEF Cut
    <2> QED
        BY <2>1, <2>2, <2>3
<1>9. /\ \A f \in InTasks(q), g \in Within(F) : Less(f, g)
      /\ \A g \in Within(F) : Encrypted(g) => r < g.record
      /\ StreamLast(InTasks(q), R, r)
    BY <1>2, <1>7 DEF StreamLast
<1> QED
    BY <1>1, <1>2, <1>3, <1>7, <1>8, <1>9 DEF Splits, Lined, F

\* F can wait behind q.
Fits(F, q, S) ==
    /\ Ordered(F)
    /\ \A i \in 1 .. Len(q) :
          /\ Before(q[i].frames, F) \/ Before(F, q[i].frames)
          /\ Disjoint(q[i].frames, F)
    /\ \A f \in Within(F), g \in Within(S) : Less(f, g)

LinedWith(q, S, r, E) == Queue(q) /\ Lined(q, S, r) /\ OnWay(q, S) = E

\* A task that fits what waits joins the queue.
LEMMA LinedAdd ==
    ASSUME NEW q, Queue(q), NEW S, NEW r, Lined(q, S, r),
           NEW F \in Seq(Frame), Fits(F, q, S), NEW k \in 1 .. Len(F), Encrypted(F[k]),
           NEW t, t = [frames |-> F, next |-> k], NextAfter(t, r), NEW p, p = Append(q, t)
    PROVE  LinedWith(p, S, r, OnWay(q, S) \cup Within(F))
<1>1. /\ Queue(p) /\ Len(q) \in Nat /\ Len(p) = Len(q) + 1
      /\ \A i \in 1 .. Len(q) : p[i] = q[i]
      /\ p[Len(q) + 1] = t /\ t.frames = F
    <2>1. LongerBy(p, q, t)
        BY QueueMore
    <2> QED
        BY <2>1 DEF LongerBy
<1>2. \A i \in 1 .. Len(p) : i \in 1 .. Len(q) \/ i = Len(q) + 1
    BY <1>1
<1>3. \A i \in 1 .. Len(q) : i \in 1 .. Len(p)
    BY <1>1
<1>4. InTasks(p) = InTasks(q) \cup Within(F)
    <2>1. ASSUME NEW g PROVE g \in InTasks(p) <=> g \in InTasks(q) \/ g \in Within(F)
        <3>1. Len(q) + 1 \in 1 .. Len(p)
            BY <1>1
        <3>2. ASSUME g \in InTasks(p) PROVE g \in InTasks(q) \/ g \in Within(F)
            <4>1. PICK i \in 1 .. Len(p) : g \in Within(p[i].frames)
                BY <3>2, InTasksIs
            <4>2. CASE i \in 1 .. Len(q)
                BY <1>1, <4>1, <4>2, InTasksIs
            <4>3. CASE i = Len(q) + 1
                BY <1>1, <4>1, <4>3
            <4> QED
                BY <1>2, <4>2, <4>3
        <3>3. ASSUME g \in InTasks(q) PROVE g \in InTasks(p)
            <4>1. PICK i \in 1 .. Len(q) : g \in Within(q[i].frames)
                BY <3>3, InTasksIs
            <4>2. i \in 1 .. Len(p) /\ p[i] = q[i]
                BY <1>1, <1>3
            <4> QED
                BY <4>1, <4>2, InTasksIs
        <3>4. ASSUME g \in Within(F) PROVE g \in InTasks(p)
            BY <1>1, <3>1, <3>4, InTasksIs
        <3> QED
            BY <3>2, <3>3, <3>4
    <2> QED
        BY <2>1
<1>5. Whole(S) /\ TaskOrder(q, r) /\ StreamLast(InTasks(q), S, r)
    BY DEF Lined
<1>6. TaskOrder(p, r)
    <2>1. ASSUME NEW i \in 1 .. Len(p)
          PROVE  Ordered(p[i].frames) /\ NextAfter(p[i], r)
        <3>1. CASE i \in 1 .. Len(q)
            BY <1>1, <1>5, <3>1 DEF TaskOrder
        <3>2. CASE i = Len(q) + 1
            BY <1>1, <3>2 DEF Fits
        <3> QED
            BY <1>2, <3>1, <3>2
    <2>2. \A G, H : Disjoint(G, H) => Disjoint(H, G)
        BY DEF Disjoint
    <2>3. ASSUME NEW i \in 1 .. Len(p), NEW j \in 1 .. Len(p), i # j
          PROVE  /\ Before(p[i].frames, p[j].frames) \/ Before(p[j].frames, p[i].frames)
                 /\ Disjoint(p[i].frames, p[j].frames)
        <3>1. CASE i \in 1 .. Len(q) /\ j \in 1 .. Len(q)
            BY <1>1, <1>5, <2>3, <3>1 DEF TaskOrder
        <3>2. CASE i = Len(q) + 1 /\ j \in 1 .. Len(q)
            <4>1. p[i].frames = F /\ p[j].frames = q[j].frames
                BY <1>1, <3>2
            <4> QED
                BY <2>2, <3>2, <4>1 DEF Fits
        <3>3. CASE i \in 1 .. Len(q) /\ j = Len(q) + 1
            <4>1. p[j].frames = F /\ p[i].frames = q[i].frames
                BY <1>1, <3>3
            <4> QED
                BY <3>3, <4>1 DEF Fits
        <3> QED
            BY <1>2, <2>3, <3>1, <3>2, <3>3
    <2> QED
        BY <2>1, <2>3 DEF TaskOrder
<1>7. StreamLast(InTasks(p), S, r)
    BY <1>4, <1>5 DEF StreamLast, Fits
<1>8. OnWay(p, S) = OnWay(q, S) \cup Within(F)
    BY <1>4 DEF OnWay
<1> QED
    BY <1>1, <1>5, <1>6, <1>7, <1>8 DEF Lined, LinedWith

\* An event whose frames are to be decrypted.
LEMMA LinedEvent ==
    ASSUME NEW q, Queue(q), NEW S, NEW R, NEW r, NEW F, Splits(F, q, S, R, r),
           NEW k, IsNext(k, F, 1), NEW t, t = [frames |-> F, next |-> k],
           NEW p, p = Append(q, t)
    PROVE  LinedWith(p, R, r, OnWay(q, S))
<1>1. /\ F \in Seq(Frame) /\ Len(F) \in Nat /\ k \in 1 .. Len(F) /\ Encrypted(F[k])
      /\ Lined(q, R, r)
    BY LenProperties DEF Splits, IsNext
<1>2. Fits(F, q, R)
    <2>1. ASSUME NEW i \in 1 .. Len(q)
          PROVE  Before(q[i].frames, F) /\ Disjoint(q[i].frames, F)
        <3>1. \A f \in Within(q[i].frames), g \in Within(F) : Less(f, g)
            BY InTasksIs DEF Splits
        <3>2. Before(q[i].frames, F)
            BY <3>1 DEF Less, Before
        <3>3. Disjoint(q[i].frames, F)
            <4> SUFFICES ASSUME NEW f \in Within(q[i].frames), NEW g \in Within(F),
                                ~Encrypted(f), ~Encrypted(g)
                         PROVE  f.msg # g.msg
                BY DEF Disjoint
            <4>1. f.msg < g.msg
                BY <3>1 DEF Less
            <4>2. f \in Frame /\ g \in Frame
                BY <1>1, TaskIs, WithinIs
            <4> QED
                BY <4>1, <4>2, FrameIs
        <3> QED
            BY <3>2, <3>3
    <2> QED
        BY <2>1 DEF Fits, Splits
<1>3. NextAfter(t, r)
    <2> SUFFICES ASSUME NEW l \in 1 .. Len(F), Encrypted(F[l])
                 PROVE  IF l < k THEN F[l].record <= r ELSE r < F[l].record
        BY DEF NextAfter
    <2>1. ~(l < k)
        BY <1>1 DEF IsNext
    <2>2. F[l] \in Within(F)
        BY DEF Within
    <2> QED
        BY <2>1, <2>2 DEF Splits
<1>4. LinedWith(p, R, r, OnWay(q, R) \cup Within(F))
    BY <1>1, <1>2, <1>3, LinedAdd
<1>5. OnWay(q, S) = OnWay(q, R) \cup Within(F)
    BY DEF Splits, OnWay
<1> QED
    BY <1>4, <1>5


\* F are the frames of the first task of q, which has had record r decrypted;
\* p are the tasks behind it.
Leads(F, q, p, S, r) ==
    /\ F \in Seq(Frame) /\ Ordered(F) /\ Within(F) \subseteq OnWay(q, S)
    /\ LinedWith(p, S, r, OnWay(q, S) \ Within(F)) /\ Fits(F, p, S)
    /\ \A f \in Within(F), g \in OnWay(q, S) :
          ~Encrypted(f) /\ ~Encrypted(g) /\ f # g => g.msg # f.msg
    /\ \A i \in 1 .. Len(F) : Encrypted(F[i]) =>
          \A g \in OnWay(q, S) \ Within(F) : Encrypted(g) => F[i].record < g.record

\* The first task is done, and its frames come before all others.
LEMMA LinedDone ==
    ASSUME NEW q, Queue(q), q # <<>>, NEW S \in Seq(Frame), NEW r \in Nat, Lined(q, S, r),
           NEW F, F = q[1].frames, F[q[1].next].record = r + 1, NEW p, p = Tail(q)
    PROVE  Leads(F, q, p, S, r + 1)
<1> DEFINE n == q[1].next
<1>0. WithoutHead(p, q)
    BY QueueLess
<1>1. /\ Queue(p) /\ Len(q) \in Nat /\ 1 \in 1 .. Len(q) /\ Len(p) = Len(q) - 1
      /\ \A i \in 1 .. Len(p) : i + 1 \in 1 .. Len(q) /\ p[i] = q[i + 1]
    BY <1>0 DEF WithoutHead
<1>2. /\ F \in Seq(Frame) /\ Len(F) \in Nat /\ n \in 1 .. Len(F) /\ Encrypted(F[n])
      /\ \A i \in 1 .. Len(q) : /\ q[i].frames \in Seq(Frame)
                                /\ q[i].next \in 1 .. Len(q[i].frames)
                                /\ Encrypted(q[i].frames[q[i].next])
    BY <1>1, TaskIs
<1>3. Whole(S) /\ TaskOrder(q, r) /\ StreamLast(InTasks(q), S, r)
    BY DEF Lined
<1>4. F[n].record = r + 1 /\ F[n] \in Within(F)
    BY <1>2, WithinIs
<1> HIDE DEF n
<1>5. Ordered(F)
    BY <1>1, <1>3 DEF TaskOrder
<1>6. ASSUME NEW i \in 1 .. Len(q), i # 1
      PROVE  Before(F, q[i].frames) /\ Disjoint(q[i].frames, F)
    <2>1. /\ Before(F, q[i].frames) \/ Before(q[i].frames, F)
          /\ Disjoint(q[i].frames, F)
        BY <1>1, <1>3, <1>6 DEF TaskOrder
    <2>2. CASE Before(q[i].frames, F)
        <3> DEFINE k == q[i].next
                   G == q[i].frames
        <3>1. k \in 1 .. Len(G) /\ Encrypted(G[k]) /\ G \in Seq(Frame)
            BY <1>2
        <3>2. k \in Nat
            BY <1>6, TaskIs
        <3>3. NextAfter(q[i], r)
            BY <1>3 DEF TaskOrder
        <3>4. r < G[k].record
            <4>1. ~(k < k)
                BY <3>2
            <4> QED
                BY <3>1, <3>3, <4>1 DEF NextAfter
        <3>5. G[k].record < F[n].record
            <4>1. G[k] \in Within(G)
                BY <3>1, WithinIs
            <4> QED
                BY <1>2, <1>4, <2>2, <3>1, <4>1 DEF Before
        <3>6. G[k].record \in Nat
            BY <3>1, WithinIs
        <3> QED
            BY <1>4, <3>4, <3>5, <3>6
    <2> QED
        BY <2>1, <2>2
<1>7. \A i \in 1 .. Len(p) : Before(F, p[i].frames) /\ Disjoint(p[i].frames, F)
    <2> SUFFICES ASSUME NEW i \in 1 .. Len(p)
                 PROVE  Before(F, p[i].frames) /\ Disjoint(p[i].frames, F)
        OBVIOUS
    <2>1. i + 1 \in 1 .. Len(q) /\ i + 1 # 1 /\ p[i] = q[i + 1]
        BY <1>1
    <2> QED
        BY <1>6, <2>1
<1>8. \A f \in Within(F) : f \in InTasks(q)
    BY <1>1, InTasksIs
<1>9. \A f \in Within(F), g \in Within(S) : Less(f, g)
    BY <1>3, <1>8 DEF StreamLast
<1>10. Fits(F, p, S)
    BY <1>5, <1>7, <1>9 DEF Fits
<1>11. \A g \in InTasks(q) : g \in Within(F) \/ g \in InTasks(p)
    <2> SUFFICES ASSUME NEW g \in InTasks(q) PROVE g \in Within(F) \/ g \in InTasks(p)
        OBVIOUS
    <2>1. PICK i \in 1 .. Len(q) : g \in Within(q[i].frames)
        BY InTasksIs
    <2>2. CASE i = 1
        BY <2>1, <2>2
    <2>3. CASE i # 1
        <3>1. i - 1 \in 1 .. Len(p) /\ (i - 1) + 1 = i
            BY <1>1, <2>3
        <3>2. p[i - 1] = q[i]
            BY <1>1, <3>1
        <3> QED
            BY <2>1, <3>1, <3>2, InTasksIs
    <2> QED
        BY <2>2, <2>3
<1>12. \A g \in InTasks(p) : g \in InTasks(q)
    <2> SUFFICES ASSUME NEW g \in InTasks(p) PROVE g \in InTasks(q)
        OBVIOUS
    <2>1. PICK i \in 1 .. Len(p) : g \in Within(p[i].frames)
        BY InTasksIs
    <2>2. i + 1 \in 1 .. Len(q) /\ p[i] = q[i + 1]
        BY <1>1
    <2> QED
        BY <2>1, <2>2, InTasksIs
<1>13. ASSUME NEW f \in Within(F), NEW g \in InTasks(p)
       PROVE  /\ Encrypted(f) /\ Encrypted(g) => f.record < g.record
              /\ ~Encrypted(f) /\ ~Encrypted(g) => g.msg # f.msg
    <2>1. PICK i \in 1 .. Len(p) : g \in Within(p[i].frames)
        BY InTasksIs
    <2>2. Before(F, p[i].frames) /\ Disjoint(p[i].frames, F)
        BY <1>7
    <2> QED
        BY <2>1, <2>2 DEF Before, Disjoint
<1>14. ASSUME NEW f \in Within(F), NEW g \in Within(S)
       PROVE  /\ Encrypted(f) /\ Encrypted(g) => f.record < g.record
              /\ ~Encrypted(f) /\ ~Encrypted(g) => g.msg # f.msg
    <2>1. Less(f, g)
        BY <1>9
    <2>2. f.msg \in Nat /\ g.msg \in Nat
        BY <1>2, WithinIs
    <2> QED
        BY <2>1, <2>2 DEF Less
<1>15. \A f \in Within(F) : f.record \in Nat
    BY <1>2, WithinIs
<1>16. OnWay(p, S) = OnWay(q, S) \ Within(F)
    <2>1. ASSUME NEW f \in Within(F) PROVE f \notin InTasks(p) /\ f \notin Within(S)
        <3>1. ~(f.record < f.record)
            BY <1>15
        <3>2. f \notin InTasks(p)
            BY <1>13, <3>1
        <3>3. f \notin Within(S)
            BY <1>14, <3>1
        <3> QED
            BY <3>2, <3>3
    <2> QED
        BY <1>11, <1>12, <2>1 DEF OnWay
<1>17. \A f \in Within(F), g \in OnWay(p, S) :
            /\ Encrypted(f) /\ Encrypted(g) => f.record < g.record
            /\ ~Encrypted(f) /\ ~Encrypted(g) => g.msg # f.msg
    BY <1>13, <1>14 DEF OnWay
<1>18. ASSUME NEW f \in Within(F), NEW g \in OnWay(q, S),
              ~Encrypted(f), ~Encrypted(g), f # g
       PROVE  g.msg # f.msg
    <2>1. CASE g \in OnWay(p, S)
        BY <1>17, <1>18, <2>1
    <2>2. CASE g \in Within(F)
        <3>1. PICK i \in 1 .. Len(F), j \in 1 .. Len(F) : f = F[i] /\ g = F[j]
            BY <2>2 DEF Within
        <3>2. i < j \/ j < i
            BY <1>2, <1>18, <3>1
        <3>3. Less(f, g) \/ Less(g, f)
            BY <1>5, <3>1, <3>2 DEF Ordered
        <3>4. f.msg \in Nat /\ g.msg \in Nat
            BY <1>2, <2>2, WithinIs
        <3> QED
            BY <1>18, <3>3, <3>4 DEF Less
    <2> QED
        BY <1>16, <2>1, <2>2
<1>19. ASSUME NEW g \in OnWay(p, S), Encrypted(g) PROVE r + 1 < g.record
    BY <1>2, <1>4, <1>17, <1>19
<1>20. ASSUME NEW i \in 1 .. Len(p) PROVE Ordered(p[i].frames) /\ NextAfter(p[i], r + 1)
    <2> DEFINE G == p[i].frames
    <2>1. p[i] = q[i + 1] /\ i + 1 \in 1 .. Len(q)
        BY <1>1
    <2>2. Ordered(G) /\ NextAfter(p[i], r)
        BY <1>3, <2>1 DEF TaskOrder
    <2>3. ASSUME NEW k \in 1 .. Len(G), Encrypted(G[k])
          PROVE  IF k < p[i].next THEN G[k].record <= r + 1 ELSE r + 1 < G[k].record
        <3>0. G \in Seq(Frame)
            BY <1>2, <2>1
        <3>1. G[k] \in Within(G) /\ G[k].record \in Nat
            BY <3>0, WithinIs
        <3>2. CASE k < p[i].next
            <4>1. G[k].record <= r
                BY <2>2, <2>3, <3>2 DEF NextAfter
            <4> QED
                BY <3>1, <3>2, <4>1
        <3>3. CASE ~(k < p[i].next)
            <4>1. G[k] \in OnWay(p, S)
                BY <3>1, InTasksIs DEF OnWay
            <4> QED
                BY <1>19, <2>3, <3>3, <4>1
        <3> QED
            BY <3>2, <3>3
    <2> QED
        BY <2>2, <2>3 DEF NextAfter
<1>21. TaskOrder(p, r + 1)
    <2>1. ASSUME NEW i \in 1 .. Len(p), NEW j \in 1 .. Len(p), i # j
          PROVE  /\ Before(p[i].frames, p[j].frames) \/ Before(p[j].frames, p[i].frames)
                 /\ Disjoint(p[i].frames, p[j].frames)
        <3>1. p[i] = q[i + 1] /\ p[j] = q[j + 1] /\ i + 1 \in 1 .. Len(q)
              /\ j + 1 \in 1 .. Len(q) /\ i + 1 # j + 1
            BY <1>1, <2>1
        <3> QED
            BY <1>3, <3>1 DEF TaskOrder
    <2> QED
        BY <1>20, <2>1 DEF TaskOrder
<1>22. StreamLast(InTasks(p), S, r + 1)
    <2>1. \A f \in InTasks(p), g \in Within(S) : Less(f, g)
        BY <1>3, <1>12 DEF StreamLast
    <2>2. \A g \in Within(S) : Encrypted(g) => r + 1 < g.record
        BY <1>19 DEF OnWay
    <2> QED
        BY <2>1, <2>2 DEF StreamLast
<1>23. LinedWith(p, S, r + 1, OnWay(q, S) \ Within(F))
    BY <1>1, <1>3, <1>16, <1>21, <1>22 DEF LinedWith, Lined
<1>24. \A i \in 1 .. Len(F) : Encrypted(F[i]) =>
          \A g \in OnWay(q, S) \ Within(F) : Encrypted(g) => F[i].record < g.record
    <2>1. \A i \in 1 .. Len(F) : F[i] \in Within(F)
        BY <1>2, WithinIs
    <2> QED
        BY <1>16, <1>17, <2>1
<1>25. Within(F) \subseteq OnWay(q, S)
    BY <1>8 DEF OnWay
<1> QED
    BY <1>2, <1>5, <1>10, <1>18, <1>23, <1>24, <1>25 DEF Leads

\* The first task has more frames to decrypt and waits behind the others.
LEMMA LinedAgain ==
    ASSUME NEW q, Queue(q), q # <<>>, NEW S \in Seq(Frame), NEW r \in Nat, Lined(q, S, r),
           NEW F, F = q[1].frames, F[q[1].next].record = r + 1,
           NEW k, IsNext(k, F, q[1].next + 1), NEW t, t = [frames |-> F, next |-> k],
           NEW p, p = Append(Tail(q), t)
    PROVE  LinedWith(p, S, r + 1, OnWay(q, S))
<1> DEFINE n == q[1].next
           o == Tail(q)
<1>1. o = Tail(q) /\ p = Append(o, t)
    OBVIOUS
<1> HIDE DEF o
<1>2. Leads(F, q, o, S, r + 1)
    BY <1>1, LinedDone
<1>3. 1 \in 1 .. Len(q)
    <2>1. WithoutHead(o, q)
        BY <1>1, QueueLess
    <2> QED
        BY <2>1 DEF WithoutHead
<1>4. /\ F \in Seq(Frame) /\ Len(F) \in Nat /\ n \in 1 .. Len(F) /\ Encrypted(F[n])
      /\ n \in Nat /\ Ordered(F) /\ Fits(F, o, S)
    BY <1>2, <1>3, TaskIs DEF Leads
<1>5. F[n].record = r + 1 /\ IsNext(k, F, n + 1) /\ NextAfter(q[1], r) /\ q[1].frames = F
    BY <1>3 DEF Lined, TaskOrder
<1>6. k \in n + 1 .. Len(F) /\ k \in 1 .. Len(F) /\ Encrypted(F[k])
      /\ \A l \in n + 1 .. k - 1 : ~Encrypted(F[l])
    BY <1>4, <1>5 DEF IsNext
<1>7. \A l \in 1 .. Len(F) : F[l].record \in Nat
    BY <1>4, WithinIs
<1>8. ASSUME NEW l \in 1 .. Len(F), Encrypted(F[l])
      PROVE  IF l < k THEN F[l].record <= r + 1 ELSE r + 1 < F[l].record
    <2>1. CASE l < n
        <3>1. F[l].record <= r
            BY <1>5, <1>8, <2>1 DEF NextAfter, n
        <3>2. l < k
            BY <1>4, <1>6, <2>1
        <3> QED
            BY <1>7, <3>1, <3>2
    <2>2. CASE l = n
        BY <1>4, <1>5, <1>6, <2>2
    <2>3. CASE l > n
        <3>1. ~(l < k)
            <4> SUFFICES ASSUME l < k PROVE FALSE
                OBVIOUS
            <4>1. l \in n + 1 .. k - 1
                BY <1>4, <1>6, <2>3
            <4> QED
                BY <1>6, <1>8, <4>1
        <3>2. Less(F[n], F[l])
            BY <1>4, <2>3 DEF Ordered
        <3> QED
            BY <1>4, <1>5, <1>8, <3>1, <3>2 DEF Less
    <2> QED
        BY <1>4, <2>1, <2>2, <2>3
<1>9. NextAfter(t, r + 1)
    BY <1>8 DEF NextAfter
<1>10. Queue(o) /\ Lined(o, S, r + 1) /\ OnWay(o, S) = OnWay(q, S) \ Within(F)
       /\ Within(F) \subseteq OnWay(q, S)
    BY <1>2 DEF Leads, LinedWith
<1>11. LinedWith(p, S, r + 1, OnWay(o, S) \cup Within(F))
    BY <1>1, <1>4, <1>6, <1>9, <1>10, LinedAdd
<1>12. OnWay(o, S) \cup Within(F) = OnWay(q, S)
    BY <1>10
<1> QED
    BY <1>11, <1>12

-----------------------------------------------------------------------------
(***************************************************************************)
(* The way in as a whole: the aggregator a, the tasks q and the stream S,  *)
(* with rec records decrypted; what the phone has sent in session x is r,  *)
(* m and po.  When on is false, the engine has stopped and the session     *)
(* loses messages.                                                         *)
(***************************************************************************)
Kept(a, q, S, rec, x, r, m, po, on) ==
    /\ Queue(q) /\ S \in Seq(Frame)
    /\ Lined(q, S, rec)
    /\ OnTheWay(OnWay(q, S), x, r, m)
    /\ Aggregated(a, OnWay(q, S), x, r, m)
    /\ on => Chained(a, OnWay(q, S), po, m)

\* The phone sends frame f of its session x.
Sends(f, x, r, m, po, nr, nm, npo) ==
    /\ f \in Frame /\ f.session = x /\ r \in Nat /\ nr \in Nat
    /\ f.record <= nr /\ r <= nr
    /\ \A c \in Channels : m[c] \in Nat /\ m[c] <= nm[c] /\ nm[c] \in Nat
    /\ \A c \in Channels : nm[c] = IF c = f.channel THEN f.msg ELSE m[c]
    /\ Encrypted(f) =>
        /\ r < f.record
        /\ \A s \in Services :
              /\ npo[s] = IF f.channel = Own(s) THEN ~f.last ELSE po[s]
              /\ f.channel = Own(s) => Begins(f, po[s], m[Own(s)])
    /\ ~Encrypted(f) =>
        /\ f.first /\ f.last /\ m[Plain] < f.msg
        /\ \A s \in Services : npo[s] = po[s]

\* What the phone sends comes after all that is on the way.
LEMMA AfterAll ==
    ASSUME NEW f, NEW x, NEW r, NEW m, NEW po, NEW nr, NEW nm, NEW npo,
           Sends(f, x, r, m, po, nr, nm, npo),
           NEW E, OnTheWay(E, x, r, m), NEW g \in E
    PROVE  Less(g, f) /\ Sound(g, x, nr, nm)
<1>1. /\ g \in Frame /\ g.session = x /\ g.record <= r /\ g.msg <= m[g.channel]
      /\ (~Encrypted(g) => g.first /\ g.last)
    BY DEF OnTheWay, Sound
<1>2. g.channel \in Channels /\ g.record \in Nat /\ g.msg \in Nat /\ f \in Frame
    BY <1>1, FrameIs DEF Sends
<1>3. f.record \in Nat /\ f.msg \in Nat /\ Plain \in Channels
    BY <1>2, FrameIs, ChannelsAre
<1>4. ASSUME Encrypted(g), Encrypted(f) PROVE g.record < f.record
    BY <1>1, <1>2, <1>3, <1>4 DEF Sends
<1>5. ASSUME ~Encrypted(g), ~Encrypted(f) PROVE g.msg < f.msg
    <2>1. g.channel = Plain
        BY <1>1, <1>5, KindsAre
    <2> QED
        BY <1>1, <1>2, <1>3, <1>5, <2>1 DEF Sends
<1>6. g.record <= nr /\ g.msg <= nm[g.channel]
    BY <1>1, <1>2 DEF Sends
<1> QED
    BY <1>1, <1>4, <1>5, <1>6 DEF Less, Sound

LEMMA AggregatedIs ==
    ASSUME NEW a, AggregatorType(a)
    PROVE  \A s \in Services : \A k \in 1 .. Len(a.map[s]) : a.map[s][k].record \in Nat
BY AggregatorIs, WithinIs

\* The phone sends a frame.
LEMMA KeptPhone ==
    ASSUME NEW f, NEW x, NEW r, NEW m, NEW po, NEW nr, NEW nm, NEW npo,
           Sends(f, x, r, m, po, nr, nm, npo),
           NEW a, NEW q, NEW S, NEW rec \in Nat, rec <= r, NEW on,
           Kept(a, q, S, rec, x, r, m, po, on), NEW R, R = S \o Bytes(f)
    PROVE  Kept(a, q, R, rec, x, nr, nm, npo, on)
<1> DEFINE E == OnWay(q, S)
           D == OnWay(q, R)
<1>1. /\ Queue(q) /\ S \in Seq(Frame) /\ Lined(q, S, rec)
      /\ OnTheWay(E, x, r, m) /\ Aggregated(a, E, x, r, m)
      /\ on => Chained(a, E, po, m)
    BY DEF Kept
<1>2. /\ f \in Frame /\ f.session = x /\ r \in Nat /\ nr \in Nat /\ f.record \in Nat
      /\ f.msg \in Nat /\ f.channel \in Channels /\ Plain \in Channels
      /\ r <= nr
    BY FrameIs, ChannelsAre DEF Sends
<1>3. \A g \in E : Less(g, f) /\ Sound(g, x, nr, nm)
    BY <1>1, AfterAll
<1>4. Encrypted(f) => rec < f.record
    BY <1>2 DEF Sends
<1>5. R \in Seq(Frame) /\ Lined(q, R, rec) /\ D = E \cup {f}
    <2>1. \A g \in OnWay(q, S) : Less(g, f)
        BY <1>3
    <2>2. WithFrame(R, f, q, S, rec)
        BY <1>1, <1>2, <1>4, <2>1, LinedPhone
    <2> QED
        BY <2>2 DEF WithFrame
<1>6. Sound(f, x, nr, nm)
    BY <1>2 DEF Sends, Sound
<1>7. OnTheWay(D, x, nr, nm)
    BY <1>1, <1>2, <1>3, <1>5, <1>6 DEF OnTheWay
<1> HIDE DEF D, E
<1>8. /\ AggregatorType(a) /\ ~a.thrown /\ Dispatches(a.dispatched, x)
      /\ \A s \in Services : Partial(a, s, x)
      /\ AggregatedFirst(a, E) /\ PlainOnce(a.dispatched, E) /\ Bounds(a, r, m)
    BY <1>1 DEF Aggregated
<1>9. \A s \in Services : \A k \in 1 .. Len(a.map[s]) : a.map[s][k].record \in Nat
    BY <1>8, AggregatedIs
<1>10. AggregatedFirst(a, D)
    <2> SUFFICES ASSUME NEW s \in Services, NEW k \in 1 .. Len(a.map[s]), NEW g \in D, Encrypted(g)
                 PROVE  a.map[s][k].record < g.record
        BY DEF AggregatedFirst
    <2>1. CASE g \in E
        BY <1>8, <2>1 DEF AggregatedFirst
    <2>2. CASE g = f
        <3>1. a.map[s][k].record <= r /\ a.map[s][k].record \in Nat
            BY <1>8, <1>9 DEF Bounds
        <3>2. r < f.record
            BY <2>2 DEF Sends
        <3>3. r \in Nat /\ f.record \in Nat
            BY <1>2
        <3>4. \A k1, k2, k3 \in Nat : k1 <= k2 /\ k2 < k3 => k1 < k3
            OBVIOUS
        <3> QED
            BY <2>2, <3>1, <3>2, <3>3, <3>4, Zenon
    <2> QED
        BY <1>5, <2>1, <2>2
<1>11. PlainOnce(a.dispatched, D)
    <2> SUFFICES ASSUME NEW i \in 1 .. Len(a.dispatched[Plain]), NEW g \in D, ~Encrypted(g)
                 PROVE  a.dispatched[Plain][i][1].msg # g.msg
        BY DEF PlainOnce
    <2>1. CASE g \in E
        BY <1>8, <2>1 DEF PlainOnce
    <2>2. CASE g = f
        <3>1. a.dispatched[Plain][i][1].msg \in Nat /\ a.dispatched[Plain][i][1].msg <= m[Plain]
            BY <1>8 DEF Bounds
        <3>2. m[Plain] < f.msg /\ m[Plain] \in Nat
            BY <1>2, <2>2 DEF Sends
        <3> QED
            BY <1>2, <2>2, <3>1, <3>2
    <2> QED
        BY <1>5, <2>1, <2>2
<1>12. Bounds(a, nr, nm)
    <2>1. ASSUME NEW s \in Services, NEW k \in 1 .. Len(a.map[s])
          PROVE  a.map[s][k].record <= nr
        <3>1. a.map[s][k].record <= r /\ a.map[s][k].record \in Nat
            BY <1>8, <1>9 DEF Bounds
        <3> QED
            BY <1>2, <3>1
    <2>2. ASSUME NEW i \in 1 .. Len(a.dispatched[Plain])
          PROVE  a.dispatched[Plain][i][1].msg \in Nat /\ a.dispatched[Plain][i][1].msg <= nm[Plain]
        <3>1. a.dispatched[Plain][i][1].msg \in Nat /\ a.dispatched[Plain][i][1].msg <= m[Plain]
            BY <1>8 DEF Bounds
        <3>2. m[Plain] \in Nat /\ m[Plain] <= nm[Plain] /\ nm[Plain] \in Nat
            BY <1>2 DEF Sends
        <3>3. \A k1, k2, k3 \in Nat : k1 <= k2 /\ k2 <= k3 => k1 <= k3
            OBVIOUS
        <3> QED
            BY <3>1, <3>2, <3>3, Zenon
    <2> QED
        BY <2>1, <2>2 DEF Bounds
<1>13. Aggregated(a, D, x, nr, nm)
    BY <1>8, <1>10, <1>11, <1>12 DEF Aggregated
<1>14. ASSUME on PROVE Chained(a, D, npo, nm)
    <2> SUFFICES ASSUME NEW s \in Services
                 PROVE  Chain(OfService(D, s), IsOpen(a, s), Count(a, s), npo[s], nm[Own(s)])
        BY DEF Chained
    <2> DEFINE C == OfService(E, s)
               C2 == OfService(D, s)
    <2>0. Own(s) \in Channels /\ Own(s)[2] = TRUE
        BY ChannelsAre
    <2>1. Chain(C, IsOpen(a, s), Count(a, s), po[s], m[Own(s)])
        BY <1>1, <1>14 DEF Chained
    <2>2. CASE f.channel = Own(s)
        <3>1. Encrypted(f)
            BY <2>0, <2>2 DEF Encrypted
        <3>2. npo[s] = ~f.last /\ nm[Own(s)] = f.msg /\ Begins(f, po[s], m[Own(s)]) /\ r < f.record
            BY <2>0, <2>2, <3>1 DEF Sends
        <3>3. C2 = C \cup {f}
            BY <1>5, <2>2 DEF OfService
        <3>4. C \in SUBSET Frame
            BY <1>1 DEF OfService, OnTheWay
        <3>5. \A g \in C : g.record < f.record
            <4> SUFFICES ASSUME NEW g \in C PROVE g.record < f.record
                OBVIOUS
            <4>1. g \in E /\ Encrypted(g)
                BY <2>0 DEF OfService, Encrypted
            <4> QED
                BY <1>3, <3>1, <4>1 DEF Less
        <3> HIDE DEF C, C2
        <3>6. Chain(C2, IsOpen(a, s), Count(a, s), ~f.last, f.msg)
            BY <1>2, <2>1, <3>2, <3>3, <3>4, <3>5, ChainAdd
        <3> QED
            BY <3>2, <3>6 DEF C2
    <2>3. CASE f.channel # Own(s)
        <3>1. C2 = C
            BY <1>5, <2>3 DEF OfService
        <3>2. nm[Own(s)] = m[Own(s)]
            BY <2>0, <2>3 DEF Sends
        <3>3. npo[s] = po[s]
            BY <2>3 DEF Sends
        <3> QED
            BY <2>1, <3>1, <3>2, <3>3
    <2> QED
        BY <2>2, <2>3
<1> QED
    BY <1>1, <1>5, <1>7, <1>13, <1>14 DEF Kept, D


\* With fewer frames on the way, what holds of them still does.
LEMMA FewerOnTheWay ==
    ASSUME NEW a, NEW E, NEW x, NEW r, NEW m, NEW D, D \subseteq E
    PROVE  /\ OnTheWay(E, x, r, m) => OnTheWay(D, x, r, m)
           /\ Aggregated(a, E, x, r, m) => Aggregated(a, D, x, r, m)
<1>1. OnTheWay(E, x, r, m) => OnTheWay(D, x, r, m)
    BY DEF OnTheWay
<1>2. AggregatedFirst(a, E) => AggregatedFirst(a, D)
    BY DEF AggregatedFirst
<1>3. PlainOnce(a.dispatched, E) => PlainOnce(a.dispatched, D)
    BY DEF PlainOnce
<1> QED
    BY <1>1, <1>2, <1>3 DEF Aggregated

\* An event whose first encrypted frame is to be decrypted.
LEMMA KeptEvent ==
    ASSUME NEW a, NEW q, NEW S, NEW rec, NEW x, NEW r, NEW m, NEW po, NEW on,
           Kept(a, q, S, rec, x, r, m, po, on), NEW F, NEW R, Splits(F, q, S, R, rec),
           NEW k, IsNext(k, F, 1), NEW t, t = [frames |-> F, next |-> k],
           NEW p, p = Append(q, t)
    PROVE  Kept(a, p, R, rec, x, r, m, po, on)
<1>1. Queue(q) /\ R \in Seq(Frame)
    BY DEF Kept, Splits
<1>2. LinedWith(p, R, rec, OnWay(q, S))
    BY <1>1, LinedEvent
<1> QED
    BY <1>1, <1>2 DEF Kept, LinedWith

\* Such an event when the engine has stopped.
LEMMA KeptLost ==
    ASSUME NEW a, NEW q, NEW S, NEW rec, NEW x, NEW r, NEW m, NEW po, NEW on, ~on,
           Kept(a, q, S, rec, x, r, m, po, on), NEW F, NEW R, Splits(F, q, S, R, rec)
    PROVE  Kept(a, q, R, rec, x, r, m, po, on)
<1>1. OnWay(q, R) \subseteq OnWay(q, S)
    BY DEF Splits, OnWay
<1>2. OnTheWay(OnWay(q, R), x, r, m) /\ Aggregated(a, OnWay(q, R), x, r, m)
    BY <1>1, FewerOnTheWay DEF Kept
<1> QED
    BY <1>2 DEF Kept, Splits

\* An event without encrypted frames.
LEMMA PlainReady ==
    ASSUME NEW a, NEW q, NEW S, NEW rec, NEW x, NEW r, NEW m, NEW po, NEW on,
           Kept(a, q, S, rec, x, r, m, po, on), NEW F, NEW R, Splits(F, q, S, R, rec),
           \A i \in 1 .. Len(F) : ~Encrypted(F[i])
    PROVE  /\ Ready(F, a, OnWay(q, S), x, r, m, po)
           /\ OnWay(q, R) = OnWay(q, S) \ Within(F)
<1> DEFINE E == OnWay(q, S)
<1>1. /\ Queue(q) /\ S \in Seq(Frame) /\ OnTheWay(E, x, r, m) /\ Aggregated(a, E, x, r, m)
    BY DEF Kept
<1>2. /\ F \in Seq(Frame) /\ Ordered(F) /\ R \in Seq(Frame)
      /\ E = OnWay(q, R) \cup Within(F)
      /\ \A f \in Within(F), g \in Within(R) : Less(f, g)
      /\ \A f \in InTasks(q), g \in Within(F) : Less(f, g)
    BY DEF Splits, OnWay
<1>3. Len(F) \in Nat /\ \A f \in Within(F) : f.msg \in Nat /\ ~Less(f, f)
    BY <1>2, WithinIs, LenProperties
<1>4. ASSUME NEW f \in Within(F), NEW g \in E, ~Encrypted(f), ~Encrypted(g), f # g
      PROVE  g.msg # f.msg
    <2>1. g.msg \in Nat /\ f.msg \in Nat
        BY <1>1, <1>3, FrameIs DEF OnTheWay
    <2>2. Less(f, g) \/ Less(g, f)
        <3>1. CASE g \in Within(F)
            <4>1. PICK i \in 1 .. Len(F), j \in 1 .. Len(F) : f = F[i] /\ g = F[j]
                BY <3>1 DEF Within
            <4>2. i < j \/ j < i
                BY <1>3, <1>4, <4>1
            <4> QED
                BY <1>2, <4>1, <4>2 DEF Ordered
        <3>2. CASE g \in OnWay(q, R)
            BY <1>2, <3>2 DEF OnWay
        <3> QED
            BY <1>2, <3>1, <3>2
    <2> QED
        BY <1>4, <2>1, <2>2 DEF Less
<1>5. Ready(F, a, E, x, r, m, po)
    BY <1>1, <1>2, <1>4 DEF Ready
<1>6. \A f \in Within(F) : f \notin OnWay(q, R)
    BY <1>2, <1>3 DEF OnWay
<1> QED
    BY <1>2, <1>5, <1>6

\* The aggregator has taken an event without encrypted frames.
LEMMA KeptPlain ==
    ASSUME NEW a, NEW q, NEW S, NEW rec, NEW x, NEW r, NEW m, NEW po, NEW on,
           Kept(a, q, S, rec, x, r, m, po, on), NEW F, NEW R, Splits(F, q, S, R, rec),
           OnWay(q, R) = OnWay(q, S) \ Within(F),
           NEW b, Reached(b, Within(F), a, OnWay(q, S), x, r, m, po)
    PROVE  Kept(b, q, R, rec, x, r, m, po, on)
<1>1. OnTheWay(OnWay(q, R), x, r, m)
    BY FewerOnTheWay DEF Kept
<1>2. Aggregated(b, OnWay(q, R), x, r, m) /\ (on => Chained(b, OnWay(q, R), po, m))
    BY DEF Reached, Kept
<1> QED
    BY <1>1, <1>2 DEF Kept, Splits

\* The engine has answered, and the task has more frames to decrypt.
LEMMA KeptAgain ==
    ASSUME NEW a, NEW q, NEW S, NEW rec \in Nat, NEW x, NEW r, NEW m, NEW po, NEW on,
           Kept(a, q, S, rec, x, r, m, po, on), q # <<>>,
           NEW F, F = q[1].frames, F[q[1].next].record = rec + 1,
           NEW k, IsNext(k, F, q[1].next + 1), NEW t, t = [frames |-> F, next |-> k],
           NEW p, p = Append(Tail(q), t)
    PROVE  Kept(a, p, S, rec + 1, x, r, m, po, on)
<1>1. Queue(q) /\ S \in Seq(Frame) /\ Lined(q, S, rec)
    BY DEF Kept
<1>2. LinedWith(p, S, rec + 1, OnWay(q, S))
    BY <1>1, LinedAgain
<1> QED
    BY <1>1, <1>2 DEF Kept, LinedWith

\* The engine has answered, and the task aggregates.
LEMMA DoneReady ==
    ASSUME NEW a, NEW q, NEW S, NEW rec, NEW x, NEW r, NEW m, NEW po, NEW on, on,
           Kept(a, q, S, rec, x, r, m, po, on),
           NEW F, NEW p, NEW n, Leads(F, q, p, S, n)
    PROVE  Ready(F, a, OnWay(q, S), x, r, m, po)
BY DEF Kept, Leads, Ready

\* The aggregator has taken the frames of the first task.
LEMMA KeptDone ==
    ASSUME NEW a, NEW q, NEW S, NEW rec, NEW x, NEW r, NEW m, NEW po, NEW on,
           Kept(a, q, S, rec, x, r, m, po, on),
           NEW F, NEW p, NEW n, Leads(F, q, p, S, n),
           NEW b, Reached(b, Within(F), a, OnWay(q, S), x, r, m, po)
    PROVE  Kept(b, p, S, n, x, r, m, po, on)
<1>1. LinedWith(p, S, n, OnWay(q, S) \ Within(F))
    BY DEF Leads
<1>2. Queue(p) /\ Lined(p, S, n) /\ OnWay(p, S) = OnWay(q, S) \ Within(F)
    BY <1>1 DEF LinedWith
<1>3. OnTheWay(OnWay(p, S), x, r, m)
    BY <1>2, FewerOnTheWay DEF Kept
<1>4. Aggregated(b, OnWay(p, S), x, r, m) /\ (on => Chained(b, OnWay(p, S), po, m))
    BY <1>2 DEF Reached, Kept
<1> QED
    BY <1>2, <1>3, <1>4 DEF Kept

\* Nothing is on the way: a session begins or ends.
LEMMA KeptNothing ==
    ASSUME NEW a, AggregatorType(a), ~a.thrown, \A s \in Services : a.map[s] = <<>>,
           NEW x, Dispatches(a.dispatched, x), NEW r, NEW m,
           \A i \in 1 .. Len(a.dispatched[Plain]) :
               a.dispatched[Plain][i][1].msg \in Nat /\ a.dispatched[Plain][i][1].msg <= m[Plain],
           NEW rec, NEW po, NEW on, on => Chained(a, {}, po, m)
    PROVE  Kept(a, <<>>, <<>>, rec, x, r, m, po, on)
<1>1. Len(<<>>) = 0 /\ \A i : i \notin 1 .. 0
    OBVIOUS
<1>2. <<>> \in Seq(Frame) /\ <<>> \in Seq(TaskOver(Frame))
    OBVIOUS
<1>3. Within(<<>>) = {} /\ InTasks(<<>>) = {}
    BY DEF Within, InTasks
<1>4. OnWay(<<>>, <<>>) = {}
    BY <1>3 DEF OnWay
<1>5. Queue(<<>>)
    BY <1>2 DEF Queue
<1>6. Whole(<<>>) /\ TaskOrder(<<>>, rec) /\ StreamLast({}, <<>>, rec)
    BY <1>3 DEF Whole, TaskOrder, StreamLast
<1>7. \A s \in Services : Len(a.map[s]) = 0
    OBVIOUS
<1>8. ASSUME NEW s \in Services PROVE Partial(a, s, x)
    BY <1>7 DEF Partial
<1>9. AggregatedFirst(a, {}) /\ PlainOnce(a.dispatched, {}) /\ OnTheWay({}, x, r, m)
    BY DEF AggregatedFirst, PlainOnce, OnTheWay
<1>10. Bounds(a, r, m)
    BY <1>7 DEF Bounds
<1>11. Aggregated(a, {}, x, r, m)
    BY <1>8, <1>9, <1>10 DEF Aggregated
<1> QED
    BY <1>2, <1>3, <1>4, <1>5, <1>6, <1>9, <1>11 DEF Kept, Lined

-----------------------------------------------------------------------------
(***************************************************************************)
(* An event of the transport takes a part of the stream.                   *)
(***************************************************************************)
PartOf(p, w, i, j) ==
    /\ p \in Seq(Frame) /\ Len(p) = j - i + 1 /\ Len(p) \in Nat
    /\ \A k \in 1 .. Len(p) : p[k] = w[i - 1 + k]

\* A part of a queue.
LEMMA PartIs ==
    ASSUME NEW w \in Seq(Frame), NEW i \in Nat \ {0}, NEW j \in Nat, j <= Len(w), i <= j + 1,
           NEW p, p = SubSeq(w, i, j)
    PROVE  PartOf(p, w, i, j)
<1>1. Len(w) \in Nat
    BY LenProperties
<1>2. \A k \in i .. j : w[k] \in Frame
    <2>1. \A k \in i .. j : k \in 1 .. Len(w)
        BY <1>1
    <2> QED
        BY <2>1, ElementOfSeq
<1>3. p \in Seq(Frame)
    BY <1>2, SubSeqProperties
<1>4. Len(p) = j - i + 1
    BY <1>1
<1>5. \A k \in 1 .. j - i + 1 : p[k] = w[i - 1 + k]
    BY <1>1
<1>6. Len(p) \in Nat
    BY <1>3, LenProperties
<1> QED
    BY <1>3, <1>4, <1>5, <1>6 DEF PartOf

\* r is u and then v.
Joined(r, u, v) ==
    /\ r \in Seq(Frame) /\ Len(r) = Len(u) + Len(v) /\ Len(u) \in Nat /\ Len(v) \in Nat
    /\ \A i \in 1 .. Len(r) : \/ i \in 1 .. Len(u) /\ r[i] = u[i]
                              \/ i - Len(u) \in 1 .. Len(v) /\ r[i] = v[i - Len(u)]

LEMMA JoinedIs ==
    ASSUME NEW u \in Seq(Frame), NEW v \in Seq(Frame), NEW r, r = u \o v
    PROVE  Joined(r, u, v)
BY Longer DEF Joined

\* What has been kept and what the event brings are the stream's beginning.
LEMMA Delivery ==
    ASSUME NEW b \in Seq(Frame), NEW w \in Seq(Frame), NEW n \in 1 .. Len(w),
           NEW S, S = b \o w, NEW arr, arr = b \o SubSeq(w, 1, n)
    PROVE  Delivers(arr, S)
<1> DEFINE v == SubSeq(w, 1, n)
<1>1. Len(w) \in Nat /\ Len(b) \in Nat
    BY LenProperties
<1>2. v \in Seq(Frame) /\ Len(v) = n /\ \A k \in 1 .. n : v[k] = w[k]
    <2>1. n \in Nat /\ n <= Len(w) /\ 1 <= n + 1 /\ n - 1 + 1 = n /\ 1 \in Nat \ {0}
        BY <1>1
    <2>2. PartOf(v, w, 1, n)
        BY <2>1, PartIs, Zenon
    <2>3. \A k \in 1 .. n : 1 - 1 + k = k
        BY <1>1
    <2> QED
        BY <2>1, <2>2, <2>3 DEF PartOf
<1>3. arr = b \o v
    OBVIOUS
<1> HIDE DEF v
<1>4. /\ arr \in Seq(Frame) /\ Len(arr) = Len(b) + n
      /\ \A i \in 1 .. Len(arr) : \/ i \in 1 .. Len(b) /\ arr[i] = b[i]
                                  \/ i - Len(b) \in 1 .. n /\ arr[i] = w[i - Len(b)]
    BY <1>2, <1>3, Longer
<1>5. /\ S \in Seq(Frame) /\ Len(S) = Len(b) + Len(w)
      /\ \A i \in 1 .. Len(b) : S[i] = b[i]
      /\ \A i \in 1 .. Len(w) : S[Len(b) + i] = w[i]
    BY Longer
<1>6. Len(arr) <= Len(S)
    BY <1>1, <1>4, <1>5
<1>7. ASSUME NEW i \in 1 .. Len(arr) PROVE arr[i] = S[i]
    <2>1. CASE i \in 1 .. Len(b) /\ arr[i] = b[i]
        BY <1>5, <2>1
    <2>2. CASE i - Len(b) \in 1 .. n /\ arr[i] = w[i - Len(b)]
        <3>1. i - Len(b) \in 1 .. Len(w) /\ Len(b) + (i - Len(b)) = i
            BY <1>1, <2>2
        <3> QED
            BY <1>5, <2>2, <3>1
    <2> QED
        BY <1>4, <2>1, <2>2
<1> QED
    BY <1>4, <1>5, <1>6, <1>7 DEF Delivers

\* What remains, from the parts the codec and the transport keep.
LEMMA Parts ==
    ASSUME NEW b, NEW w, NEW n \in Nat, NEW s, NEW u, NEW v, NEW at \in Nat,
           NEW S, Joined(S, b, w), NEW arr, Joined(arr, b, s), NEW R, Joined(R, u, v),
           PartOf(s, w, 1, n), PartOf(u, arr, at, Len(arr)), PartOf(v, w, n + 1, Len(w)),
           1 <= at, at <= Len(arr) + 1
    PROVE  Rests(S, at, R)
<1> DEFINE B == Len(b)
           W == Len(w)
           U == Len(u)
           V == Len(v)
           A == Len(arr)
<1>1. B \in Nat /\ W \in Nat /\ U \in Nat /\ V \in Nat /\ A = B + n
      /\ U = A - at + 1 /\ V = W - (n + 1) + 1
    <2>1. A = B + Len(s) /\ B \in Nat
        BY Zenon DEF Joined
    <2>2. Len(s) = n - 1 + 1 /\ U = A - at + 1 /\ V = W - (n + 1) + 1
        BY Zenon DEF PartOf
    <2>3. W \in Nat /\ U \in Nat /\ V \in Nat
        BY Zenon DEF Joined
    <2> HIDE DEF B, W, U, V, A
    <2>4. n - 1 + 1 = n
        OBVIOUS
    <2> QED
        BY <2>1, <2>2, <2>3, <2>4, Zenon
<1>2. /\ R \in Seq(Frame) /\ Len(R) = U + V
      /\ Len(S) = B + W
    BY Zenon DEF Joined
<1>3. \A i \in 1 .. Len(R) : \/ i \in 1 .. U /\ R[i] = u[i]
                             \/ i - U \in 1 .. V /\ R[i] = v[i - U]
    BY Zenon DEF Joined
<1>4. \A j \in 1 .. Len(S) : \/ j \in 1 .. B /\ S[j] = b[j]
                             \/ j - B \in 1 .. W /\ S[j] = w[j - B]
    BY Zenon DEF Joined
<1>5. Len(s) = n
    <2>1. Len(s) = n - 1 + 1
        BY Zenon DEF PartOf
    <2>2. n - 1 + 1 = n
        OBVIOUS
    <2> QED
        BY <2>1, <2>2, Zenon
<1>6. (\A k \in 1 .. n : s[k] = w[1 - 1 + k]) /\ (\A k \in 1 .. U : u[k] = arr[at - 1 + k])
      /\ (\A k \in 1 .. V : v[k] = w[(n + 1) - 1 + k])
    <2>1. \A k \in 1 .. Len(s) : s[k] = w[1 - 1 + k]
        BY Zenon DEF PartOf
    <2>2. \A k \in 1 .. n : s[k] = w[1 - 1 + k]
        BY <1>5, <2>1
    <2>3. \A k \in 1 .. U : u[k] = arr[at - 1 + k]
        BY Zenon DEF PartOf
    <2>4. \A k \in 1 .. V : v[k] = w[(n + 1) - 1 + k]
        BY Zenon DEF PartOf
    <2> QED
        BY <2>2, <2>3, <2>4
<1>10. \A j \in 1 .. A : \/ j \in 1 .. B /\ arr[j] = b[j]
                         \/ j - B \in 1 .. n /\ arr[j] = s[j - B]
    BY <1>5, Zenon DEF Joined
<1> HIDE DEF B, W, U, V, A
<1>7. Len(R) = Len(S) - at + 1
    BY <1>1, <1>2
<1>8. ASSUME NEW i \in 1 .. Len(R), NEW j, j = at - 1 + i PROVE R[i] = S[j]
    <2>1. i \in Nat /\ j \in 1 .. Len(S)
        BY <1>1, <1>2, <1>8
    <2>2. CASE i \in 1 .. U /\ R[i] = u[i]
        <3>1. u[i] = arr[j] /\ j \in 1 .. A
            BY <1>1, <1>6, <1>8, <2>1, <2>2
        <3>2. CASE j \in 1 .. B /\ arr[j] = b[j]
            BY <1>1, <1>4, <2>1, <2>2, <3>1, <3>2
        <3>3. CASE j - B \in 1 .. n /\ arr[j] = s[j - B]
            <4>1. PICK k : k = j - B
                OBVIOUS
            <4>2. k \in 1 .. n /\ 1 - 1 + k = k /\ ~(j \in 1 .. B)
                BY <1>1, <2>1, <3>3, <4>1
            <4>3. s[k] = w[k]
                BY <1>6, <4>2
            <4>4. S[j] = w[k]
                BY <1>4, <2>1, <4>1, <4>2
            <4> QED
                BY <2>2, <3>1, <3>3, <4>1, <4>3, <4>4
        <3> QED
            BY <1>10, <3>1, <3>2, <3>3
    <2>3. CASE i - U \in 1 .. V /\ R[i] = v[i - U]
        <3>1. PICK k : k = i - U
            OBVIOUS
        <3>2. PICK l : l = (n + 1) - 1 + k
            OBVIOUS
        <3>3. k \in 1 .. V /\ l = j - B /\ ~(j \in 1 .. B)
            BY <1>1, <1>8, <2>1, <2>3, <3>1, <3>2
        <3>4. v[k] = w[l]
            BY <1>6, <3>2, <3>3
        <3>5. S[j] = w[l]
            BY <1>4, <2>1, <3>3
        <3> QED
            BY <2>3, <3>1, <3>4, <3>5
    <2> QED
        BY <1>3, <2>2, <2>3
<1>9. R \in Seq(Frame) /\ \A i \in 1 .. Len(R) : R[i] = S[at - 1 + i]
    BY <1>2, <1>8
<1> QED
    BY <1>7, <1>9 DEF Rests

\* What the codec leaves and the transport still has are the stream's rest.
LEMMA Remainder ==
    ASSUME NEW b \in Seq(Frame), NEW w \in Seq(Frame), NEW n \in 1 .. Len(w),
           NEW S, S = b \o w, NEW arr, arr = b \o SubSeq(w, 1, n), NEW at \in 1 .. Len(arr) + 1,
           NEW R, R = SubSeq(arr, at, Len(arr)) \o SubSeq(w, n + 1, Len(w))
    PROVE  Rests(S, at, R)
<1>1. Len(w) \in Nat /\ n \in Nat /\ n <= Len(w)
    BY LenProperties
<1>2. PICK s : s = SubSeq(w, 1, n)
    OBVIOUS
<1>3. PartOf(s, w, 1, n)
    <2>1. n \in Nat /\ n <= Len(w) /\ 1 <= n + 1 /\ 1 \in Nat \ {0}
        BY <1>1
    <2> QED
        BY <1>2, <2>1, PartIs, Zenon
<1>4. s \in Seq(Frame)
    BY <1>3 DEF PartOf
<1>5. Joined(arr, b, s) /\ Joined(S, b, w) /\ arr = b \o s
    BY <1>2, <1>4, JoinedIs
<1>6. arr \in Seq(Frame) /\ Len(arr) \in Nat
    BY <1>5, LenProperties DEF Joined
<1>7. at \in Nat \ {0} /\ at \in Nat /\ 1 <= at /\ at <= Len(arr) + 1 /\ Len(arr) <= Len(arr)
    BY <1>6
<1>8. PICK u : u = SubSeq(arr, at, Len(arr))
    OBVIOUS
<1>9. PartOf(u, arr, at, Len(arr))
    BY <1>6, <1>7, <1>8, PartIs, Zenon
<1>10. PICK v : v = SubSeq(w, n + 1, Len(w))
    OBVIOUS
<1>11. PartOf(v, w, n + 1, Len(w))
    <2>1. n + 1 \in Nat \ {0} /\ Len(w) <= Len(w) /\ n + 1 <= Len(w) + 1
        BY <1>1
    <2> QED
        BY <1>1, <1>10, <2>1, PartIs, Zenon
<1>12. Joined(R, u, v)
    <2>1. u \in Seq(Frame) /\ v \in Seq(Frame) /\ R = u \o v
        BY <1>8, <1>9, <1>10, <1>11 DEF PartOf
    <2> QED
        BY <2>1, JoinedIs
<1> QED
    BY <1>1, <1>3, <1>5, <1>7, <1>9, <1>11, <1>12, Parts

-----------------------------------------------------------------------------
(***************************************************************************)
(* The invariant of the way in, and the types of the way out.              *)
(***************************************************************************)
TypesIn ==
    /\ session \in 0 .. MaxSessions /\ started \in BOOLEAN
    /\ phone.messages \in [Channels -> 0 .. MaxFrames]
    /\ phone.open \in [Services -> BOOLEAN]
    /\ phone.record \in 0 .. MaxFrames
    /\ wire \in Seq(Frame) /\ buffer \in Seq(Frame)
    /\ Queue(mutex["decrypt"])
    /\ record \in 0 .. MaxFrames
    /\ failed = FALSE /\ overlapped \in BOOLEAN
    /\ spent \in 0 .. MaxFrames

Counts ==
    /\ record <= phone.record /\ phone.record <= spent
    /\ \A c \in Channels : phone.messages[c] <= spent
    /\ \A s \in Services : phone.open[s] => phone.messages[Own(s)] >= 1

\* Outside of a session nothing is on the way in, unless for ever.
IdleIn ==
    /\ started => session >= 1
    /\ ~started => /\ wire = <<>> /\ buffer = <<>> /\ aggregator = Nothing
                   /\ Waits = <<>>

Going == started /\ ~stuck["decrypt"]

KeptIn == Kept(Now, Waits, Stream, record, session, phone.record,
               phone.messages, phone.open, Going)

WayIn == TypesIn /\ Counts /\ IdleIn /\ KeptIn

TypesOut ==
    /\ asked \in [Channels -> 0 .. MaxFrames]
    /\ \A c \in Channels : asked[c] <= spent
    /\ waiting \in Seq(TaskOver(Sent))
    /\ \A i \in DOMAIN waiting : WellFormed(waiting[i])
    /\ out \in Seq(Sent)

-----------------------------------------------------------------------------
(***************************************************************************)
(* A session begins and ends.                                              *)
(***************************************************************************)
Unused == [map |-> Nothing, dispatched |-> [c \in Channels |-> <<>>], thrown |-> FALSE]

\* A session begins with nothing on the way, and nothing aggregated.
LEMMA Beginning ==
    ASSUME NEW x, NEW on
    PROVE  Kept(Unused, <<>>, <<>>, 0, x, 0, Quiet.messages, Quiet.open, on)
<1> DEFINE a == Unused
<1>1. /\ a.map = Nothing /\ a.dispatched = [c \in Channels |-> <<>>] /\ a.thrown = FALSE
    BY DEF Unused
<1>2. <<>> \in Seq(Frame) /\ <<>> \in Seq(Seq(Frame)) /\ Len(<<>>) = 0
    OBVIOUS
<1>3. AggregatorType(a)
    BY <1>2 DEF AggregatorType, Unused, Nothing
<1>4. \A s \in Services : a.map[s] = <<>>
    BY <1>1 DEF Nothing
<1>5. \A c \in Channels : a.dispatched[c] = <<>> /\ Len(a.dispatched[c]) = 0
    BY <1>1
<1>6. Plain \in Channels /\ \A s \in Services : Own(s) \in Channels
    BY ChannelsAre
<1> HIDE DEF a
<1>7. Dispatches(a.dispatched, x)
    BY <1>5 DEF Dispatches, InOrder
<1>8. \A i \in 1 .. Len(a.dispatched[Plain]) :
        a.dispatched[Plain][i][1].msg \in Nat
            /\ a.dispatched[Plain][i][1].msg <= Quiet.messages[Plain]
    BY <1>5, <1>6
<1>9. Chained(a, {}, Quiet.open, Quiet.messages)
    <2> SUFFICES ASSUME NEW s \in Services
                 PROVE  Chain(OfService({}, s), IsOpen(a, s), Count(a, s), Quiet.open[s],
                              Quiet.messages[Own(s)])
        BY DEF Chained
    <2>1. OfService({}, s) = {}
        BY DEF OfService
    <2>2. IsOpen(a, s) = FALSE
        BY <1>4 DEF IsOpen
    <2>3. Count(a, s) = 0
        BY <1>5, <1>6, <2>2 DEF Count
    <2>4. Quiet.open[s] = FALSE /\ Quiet.messages[Own(s)] = 0
        BY <1>6 DEF Quiet
    <2>5. Chain({}, FALSE, 0, FALSE, 0)
        BY DEF Chain
    <2> QED
        BY <2>1, <2>2, <2>3, <2>4, <2>5
<1>10. Kept(a, <<>>, <<>>, 0, x, 0, Quiet.messages, Quiet.open, on)
    BY <1>1, <1>3, <1>4, <1>7, <1>8, <1>9, KeptNothing
<1> QED
    BY <1>10 DEF a

LEMMA QuietIs ==
    /\ Quiet.record = 0
    /\ Quiet.messages \in [Channels -> 0 .. MaxFrames]
    /\ Quiet.open \in [Services -> BOOLEAN]
    /\ \A c \in Channels : Quiet.messages[c] = 0
    /\ \A s \in Services : Quiet.open[s] = FALSE
    /\ 0 \in 0 .. MaxFrames /\ MaxFrames \in Nat /\ MaxSessions \in Nat
BY MessagePipelineAssumption DEF Quiet

\* The system, a session, and the end of one.
LEMMA InitWayIn == ASSUME Init PROVE WayIn
<1>1. /\ session = 0 /\ started = FALSE /\ phone = Quiet /\ wire = <<>> /\ buffer = <<>>
      /\ aggregator = Nothing /\ record = 0 /\ dispatched = [c \in Channels |-> <<>>]
      /\ failed = FALSE /\ overlapped = FALSE /\ spent = 0
      /\ mutex["decrypt"] = <<>> /\ stuck["decrypt"] = FALSE
    BY DEF Init, Directions
<1>2. <<>> \in Seq(Frame) /\ <<>> \in Seq(TaskOver(Frame)) /\ Len(<<>>) = 0
    OBVIOUS
<1>3. Queue(<<>>)
    BY <1>2 DEF Queue
<1>4. TypesIn
    <2>1. Quiet.messages \in [Channels -> 0 .. MaxFrames] /\ Quiet.open \in [Services -> BOOLEAN]
        BY QuietIs
    <2>2. Quiet.record \in 0 .. MaxFrames /\ 0 \in 0 .. MaxFrames /\ 0 \in 0 .. MaxSessions
        BY QuietIs
    <2> QED
        BY <1>1, <1>2, <1>3, <2>1, <2>2, Zenon DEF TypesIn
<1>5. Counts
    BY <1>1, QuietIs, ChannelsAre DEF Counts
<1>6. Now = Unused
    BY <1>1 DEF Now, Unused
<1>7. Waits = <<>>
    BY <1>1 DEF Waits, Tasks
<1>8. Stream = <<>>
    <2>1. <<>> \o <<>> = <<>>
        OBVIOUS
    <2> QED
        BY <1>1, <2>1 DEF Stream
<1>9. KeptIn
    <2>1. Kept(Unused, <<>>, <<>>, 0, session, 0, Quiet.messages, Quiet.open, Going)
        BY Beginning
    <2> QED
        BY <1>1, <1>6, <1>7, <1>8, <2>1, QuietIs DEF KeptIn
<1>10. IdleIn
    BY <1>1, <1>7 DEF IdleIn
<1> QED
    BY <1>4, <1>5, <1>9, <1>10 DEF WayIn

LEMMA StartWayIn == ASSUME WayIn, Start PROVE WayIn'
<1>1. /\ ~started /\ session < MaxSessions /\ started' = TRUE /\ session' = session + 1
      /\ phone' = Quiet /\ record' = 0 /\ dispatched' = [c \in Channels |-> <<>>]
      /\ overlapped' = FALSE /\ wire' = wire /\ buffer' = buffer /\ aggregator' = aggregator
      /\ mutex' = mutex /\ stuck' = stuck /\ failed' = failed /\ spent' = spent
    BY DEF Start
<1>2. TypesIn /\ IdleIn
    BY DEF WayIn
<1>3. wire = <<>> /\ buffer = <<>> /\ aggregator = Nothing /\ Waits = <<>>
    BY <1>1, <1>2 DEF IdleIn
<1>4. session' \in 0 .. MaxSessions /\ session' >= 1
    BY <1>1, <1>2, MessagePipelineAssumption DEF TypesIn
<1>5. TypesIn'
    <2>1. Quiet.messages \in [Channels -> 0 .. MaxFrames] /\ Quiet.open \in [Services -> BOOLEAN]
        BY QuietIs
    <2>2. Quiet.record \in 0 .. MaxFrames /\ 0 \in 0 .. MaxFrames
        BY QuietIs
    <2> QED
        BY <1>1, <1>2, <1>4, <2>1, <2>2, Zenon DEF TypesIn
<1>6. Counts'
    BY <1>1, <1>2, QuietIs, ChannelsAre DEF Counts, TypesIn
<1>7. Now' = Unused
    BY <1>1, <1>3 DEF Now, Unused
<1>8. Waits' = <<>>
    BY <1>1, <1>3 DEF Waits
<1>9. Stream' = <<>>
    <2>1. <<>> \o <<>> = <<>>
        OBVIOUS
    <2> QED
        BY <1>1, <1>3, <2>1 DEF Stream
<1>10. KeptIn'
    <2>1. Kept(Unused, <<>>, <<>>, 0, session', 0, Quiet.messages, Quiet.open, Going')
        BY Beginning
    <2> QED
        BY <1>1, <1>7, <1>8, <1>9, <2>1, QuietIs DEF KeptIn
<1>11. IdleIn'
    BY <1>1, <1>4 DEF IdleIn
<1> QED
    BY <1>5, <1>6, <1>10, <1>11 DEF WayIn

LEMMA StopWayIn == ASSUME IInv, WayIn, Stop PROVE WayIn'
<1>1. /\ started' = FALSE /\ wire' = <<>> /\ buffer' = <<>> /\ aggregator' = Nothing
      /\ session' = session /\ phone' = phone /\ record' = record /\ dispatched' = dispatched
      /\ failed' = failed /\ overlapped' = overlapped /\ spent' = spent
    BY DEF Stop, CodecsStop
<1>2. mutex'["decrypt"] = IF stuck'["decrypt"] THEN mutex["decrypt"] ELSE <<>>
    BY DEF Stop, Directions
<1>3. TypesIn /\ Counts
    BY DEF WayIn
<1>4. <<>> \in Seq(Frame) /\ <<>> \in Seq(TaskOver(Frame)) /\ Len(<<>>) = 0
    OBVIOUS
<1>5. Queue(<<>>)
    BY <1>4 DEF Queue
<1>6. Queue(mutex'["decrypt"])
    BY <1>2, <1>3, <1>5 DEF TypesIn
<1>7. TypesIn'
    BY <1>1, <1>3, <1>4, <1>6 DEF TypesIn
<1>8. Counts'
    BY <1>1, <1>3 DEF Counts
<1>9. Waits' = <<>>
    BY <1>2 DEF Waits, Tasks
<1>10. Stream' = <<>>
    <2>1. <<>> \o <<>> = <<>>
        OBVIOUS
    <2> QED
        BY <1>1, <2>1 DEF Stream
<1>11. IdleIn'
    BY <1>1, <1>9 DEF IdleIn
<1>12. Aggregated(Now, InWay, session, phone.record, phone.messages)
    BY DEF WayIn, KeptIn, Kept, InWay
<1> DEFINE a == Now'
<1>13. a.map = Nothing /\ a.dispatched = dispatched /\ a.thrown = FALSE
    BY <1>1 DEF Now
<1>14. /\ Dispatches(dispatched, session)
       /\ \A i \in 1 .. Len(dispatched[Plain]) :
              dispatched[Plain][i][1].msg \in Nat
                  /\ dispatched[Plain][i][1].msg <= phone.messages[Plain]
    BY <1>12 DEF Aggregated, Bounds, Now
<1>15. dispatched \in [Channels -> Seq(Seq(Frame))]
    BY <1>12 DEF Aggregated, AggregatorType, Now
<1>16. AggregatorType(a)
    <2>1. Nothing \in [Services -> Seq(Frame)]
        BY <1>4 DEF Nothing
    <2> QED
        BY <1>1, <1>15, <2>1 DEF AggregatorType, Now
<1> HIDE DEF a
<1>17. ~a.thrown /\ \A s \in Services : a.map[s] = <<>>
    BY <1>13 DEF Nothing
<1>18. Kept(a, <<>>, <<>>, record, session, phone.record, phone.messages, phone.open, FALSE)
    BY <1>13, <1>14, <1>16, <1>17, KeptNothing
<1>19. Going' = FALSE
    BY <1>1 DEF Going
<1>20. KeptIn'
    BY <1>1, <1>9, <1>10, <1>18, <1>19 DEF KeptIn, a
<1> QED
    BY <1>7, <1>8, <1>11, <1>20 DEF WayIn

-----------------------------------------------------------------------------
(***************************************************************************)
(* The phone sends a frame.                                                *)
(***************************************************************************)
LEMMA BytesAre == ASSUME NEW f \in Frame PROVE Bytes(f) \in Seq(Frame)
<1>1. Size(f) \in Nat
    BY SizeIs
<1> QED
    BY <1>1 DEF Bytes

LEMMA PhoneFrame ==
    ASSUME TypesIn, Counts, IdleIn, NEW c \in Channels, NEW last \in BOOLEAN,
           PhoneSends(c, last)
    PROVE  \E f \in Frame :
             /\ Sends(f, session, phone.record, phone.messages, phone.open,
                      phone'.record, phone'.messages, phone'.open)
             /\ wire' = wire \o Bytes(f)
             /\ TypesIn' /\ Counts'
<1> DEFINE first == ~phone.open[c[1]]
           n == phone.messages[c] + (IF first THEN 1 ELSE 0)
           r == phone.record + (IF c[2] THEN 1 ELSE 0)
           f == [session |-> session, channel |-> c, msg |-> n,
                 first |-> first, last |-> last,
                 record |-> IF c[2] THEN r ELSE 0]
<1>1. /\ started /\ spent < MaxFrames /\ (~c[2] => last) /\ (~c[2] => ~phone.open[c[1]])
      /\ phone' = [messages |-> [phone.messages EXCEPT ![c] = n],
                   open |-> [phone.open EXCEPT ![c[1]] = ~last], record |-> r]
      /\ wire' = wire \o Bytes(f) /\ spent' = spent + 1
      /\ session' = session /\ started' = started /\ buffer' = buffer /\ mutex' = mutex
      /\ record' = record /\ failed' = failed /\ overlapped' = overlapped
    BY DEF PhoneSends
<1>2. /\ spent \in Nat /\ MaxFrames \in Nat /\ phone.record \in Nat /\ phone.messages[c] \in Nat
      /\ phone.messages[c] <= spent /\ phone.record <= spent /\ session \in 1 .. MaxSessions
    BY <1>1, MessagePipelineAssumption DEF TypesIn, Counts, IdleIn
<1>3. \/ c = Plain /\ c[1] = Control /\ c[1] \in Services /\ c[2] = FALSE
      \/ c[1] \in Services /\ c = Own(c[1]) /\ c[2] = TRUE
    <2>1. Control \in Services
        BY MessagePipelineAssumption
    <2>2. CASE c = Plain
        <3>1. Plain[1] = Control /\ Plain[2] = FALSE
            BY ChannelsAre
        <3> QED
            BY <2>1, <2>2, <3>1, Zenon
    <2>3. CASE c[1] \in Services /\ c = Own(c[1])
        <3>1. Own(c[1])[2] = TRUE
            BY <2>3, ChannelsAre
        <3> QED
            BY <2>3, <3>1
    <2> QED
        BY <2>2, <2>3, ChannelsAre
<1>4. first \in BOOLEAN /\ (first <=> ~phone.open[c[1]]) /\ phone.open[c[1]] \in BOOLEAN
    BY <1>3 DEF TypesIn
<1>5. n \in 1 .. spent + 1
    <2>1. CASE first
        BY <1>2, <2>1
    <2>2. CASE ~first
        <3>1. c = Own(c[1]) /\ c[1] \in Services /\ phone.open[c[1]]
            BY <1>1, <1>3, <1>4, <2>2
        <3>2. phone.messages[c] >= 1
            BY <3>1 DEF Counts
        <3> QED
            BY <1>2, <2>2, <3>2
    <2> QED
        BY <2>1, <2>2
<1>6. r \in 0 .. spent + 1 /\ phone.record <= r /\ (c[2] => phone.record < r)
    BY <1>2
<1>7. n = IF first THEN phone.messages[c] + 1 ELSE phone.messages[c]
    BY <1>2
<1> HIDE DEF first, n, r
<1>8. n \in 1 .. MaxFrames /\ r \in 0 .. MaxFrames /\ 0 \in 0 .. MaxFrames
      /\ n \in Nat /\ r \in Nat
    BY <1>1, <1>2, <1>5, <1>6
<1>9. f \in Frame
    BY <1>2, <1>4, <1>8 DEF Frame
<1>10. /\ f.session = session /\ f.channel = c /\ f.msg = n /\ f.first = first /\ f.last = last
       /\ f.record = (IF c[2] THEN r ELSE 0) /\ (Encrypted(f) <=> c[2])
    BY DEF Encrypted
<1> HIDE DEF f
<1>11. /\ phone'.record = r
       /\ \A b \in Channels : phone'.messages[b] = IF b = c THEN n ELSE phone.messages[b]
       /\ \A s \in Services : phone'.open[s] = IF s = c[1] THEN ~last ELSE phone.open[s]
       /\ phone'.messages \in [Channels -> 0 .. MaxFrames]
       /\ phone'.open \in [Services -> BOOLEAN]
    BY <1>1, <1>3, <1>8 DEF TypesIn
<1>12. \A b \in Channels : /\ phone.messages[b] \in Nat /\ phone'.messages[b] \in Nat
                           /\ phone.messages[b] <= phone'.messages[b]
    <2> SUFFICES ASSUME NEW b \in Channels
                 PROVE  /\ phone.messages[b] \in Nat /\ phone'.messages[b] \in Nat
                        /\ phone.messages[b] <= phone'.messages[b]
        OBVIOUS
    <2>1. phone.messages[b] \in Nat
        BY DEF TypesIn
    <2>2. CASE b = c
        <3>1. phone.messages[c] <= n
            BY <1>2, <1>7
        <3> QED
            BY <1>8, <1>11, <2>1, <2>2, <3>1
    <2>3. CASE b # c
        BY <1>11, <2>1, <2>3
    <2> QED
        BY <2>2, <2>3
<1>13. ASSUME c[2]
       PROVE  \A s \in Services :
                /\ phone'.open[s] = IF f.channel = Own(s) THEN ~f.last ELSE phone.open[s]
                /\ f.channel = Own(s) => Begins(f, phone.open[s], phone.messages[Own(s)])
    <2> SUFFICES ASSUME NEW s \in Services
                 PROVE  /\ phone'.open[s] = IF f.channel = Own(s) THEN ~f.last ELSE phone.open[s]
                        /\ f.channel = Own(s) => Begins(f, phone.open[s], phone.messages[Own(s)])
        OBVIOUS
    <2>1. c[1] \in Services /\ c = Own(c[1])
        BY <1>3, <1>13
    <2>2. CASE s = c[1]
        <3>1. Begins(f, phone.open[s], phone.messages[Own(s)])
            <4>1. f.first = ~phone.open[s]
                BY <1>4, <1>10, <2>2
            <4>2. f.msg = IF phone.open[s] THEN phone.messages[Own(s)]
                          ELSE phone.messages[Own(s)] + 1
                BY <1>4, <1>7, <1>10, <2>1, <2>2
            <4> QED
                BY <4>1, <4>2 DEF Begins
        <3> QED
            BY <1>10, <1>11, <2>1, <2>2, <3>1
    <2>3. CASE s # c[1]
        <3>1. f.channel # Own(s)
            BY <1>10, <2>1, <2>3, ChannelsAre
        <3> QED
            BY <1>11, <2>3, <3>1
    <2> QED
        BY <2>2, <2>3
<1>14. ASSUME ~c[2]
       PROVE  /\ f.first /\ f.last /\ phone.messages[Plain] < f.msg
              /\ \A s \in Services : phone'.open[s] = phone.open[s]
    <2>1. c = Plain /\ last /\ first /\ ~phone.open[c[1]]
        BY <1>1, <1>3, <1>4, <1>14
    <2>2. phone.messages[c] < n
        BY <1>2, <1>7, <2>1
    <2>3. ASSUME NEW s \in Services PROVE phone'.open[s] = phone.open[s]
        <3>1. last = TRUE /\ phone.open[c[1]] = FALSE
            BY <1>4, <2>1
        <3> QED
            BY <1>11, <3>1
    <2> QED
        BY <1>10, <2>1, <2>2, <2>3
<1>15. Sends(f, session, phone.record, phone.messages, phone.open,
             phone'.record, phone'.messages, phone'.open)
    <2>1. f.record <= r
        BY <1>6, <1>8, <1>10
    <2>2. Encrypted(f) => phone.record < f.record
        BY <1>6, <1>10
    <2>3. \A b \in Channels : phone'.messages[b] = IF b = f.channel THEN f.msg ELSE phone.messages[b]
        BY <1>10, <1>11
    <2> QED
        BY <1>2, <1>6, <1>8, <1>9, <1>10, <1>11, <1>12, <1>13, <1>14, <2>1, <2>2, <2>3 DEF Sends
<1>16. TypesIn'
    <2>1. wire' \in Seq(Frame)
        <3>2. Bytes(f) \in Seq(Frame)
            BY <1>9, BytesAre
        <3> QED
            BY <1>1, <3>2, Longer DEF TypesIn
    <2>2. spent' \in 0 .. MaxFrames
        BY <1>1, <1>2
    <2> QED
        BY <1>1, <1>8, <1>11, <2>1, <2>2 DEF TypesIn
<1>17. Counts'
    <2>1. record' <= phone'.record /\ phone'.record <= spent'
        BY <1>1, <1>2, <1>6, <1>8, <1>11 DEF Counts, TypesIn
    <2>2. ASSUME NEW b \in Channels PROVE phone'.messages[b] <= spent'
        <3>1. phone.messages[b] <= spent /\ phone.messages[b] \in Nat
            BY <1>12 DEF Counts
        <3> QED
            BY <1>1, <1>2, <1>5, <1>8, <1>11, <3>1
    <2>3. ASSUME NEW s \in Services, phone'.open[s] PROVE phone'.messages[Own(s)] >= 1
        <3>1. Own(s) \in Channels
            BY ChannelsAre
        <3>2. CASE Own(s) = c
            BY <1>5, <1>11, <3>1, <3>2
        <3>3. CASE Own(s) # c
            <4>1. phone.open[s]
                <5>1. CASE c[2]
                    BY <1>3, <1>11, <2>3, <3>3, <5>1
                <5>2. CASE ~c[2]
                    BY <1>14, <2>3, <5>2
                <5> QED
                    BY <5>1, <5>2
            <4> QED
                BY <1>11, <3>1, <3>3, <4>1 DEF Counts
        <3> QED
            BY <3>2, <3>3
    <2> QED
        BY <2>1, <2>2, <2>3 DEF Counts
<1> QED
    BY <1>1, <1>9, <1>15, <1>16, <1>17 DEF f

\* So the phone keeps the invariant.
LEMMA PhoneWayIn ==
    ASSUME WayIn, NEW c \in Channels, NEW last \in BOOLEAN, PhoneSends(c, last)
    PROVE  WayIn'
<1>1. TypesIn /\ Counts /\ IdleIn /\ KeptIn
    BY DEF WayIn
<1>2. PICK f \in Frame :
        /\ Sends(f, session, phone.record, phone.messages, phone.open,
                 phone'.record, phone'.messages, phone'.open)
        /\ wire' = wire \o Bytes(f)
        /\ TypesIn' /\ Counts'
    BY <1>1, PhoneFrame
<1>3. /\ started /\ started' = started /\ session' = session /\ buffer' = buffer
      /\ mutex' = mutex /\ stuck' = stuck /\ record' = record
      /\ aggregator' = aggregator /\ dispatched' = dispatched
    BY DEF PhoneSends
<1>4. Now' = Now /\ Waits' = Waits /\ Going' = Going
    <2>1. Now' = Now
        BY <1>3 DEF Now
    <2>2. Waits' = Waits
        BY <1>3 DEF Waits
    <2>3. Going' = Going
        BY <1>3 DEF Going
    <2> QED
        BY <2>1, <2>2, <2>3
<1>5. Stream' = Stream \o Bytes(f)
    <2>1. Bytes(f) \in Seq(Frame)
        BY BytesAre
    <2>2. Bytes(f) \in Seq(Frame) /\ wire \in Seq(Frame) /\ buffer \in Seq(Frame)
        BY <1>1, <2>1 DEF TypesIn
    <2>3. (buffer \o wire) \o Bytes(f) = buffer \o (wire \o Bytes(f))
        BY <2>2, ConcatAssociative
    <2> QED
        BY <1>2, <1>3, <2>3 DEF Stream
<1>6. record \in Nat /\ record <= phone.record
    BY <1>1 DEF TypesIn, Counts
<1>7. Kept(Now, Waits, Stream', record, session, phone'.record, phone'.messages,
           phone'.open, Going)
    BY <1>1, <1>2, <1>5, <1>6, KeptPhone DEF KeptIn
<1>8. KeptIn'
    BY <1>3, <1>4, <1>7 DEF KeptIn
<1>9. IdleIn'
    BY <1>1, <1>3 DEF IdleIn
<1> QED
    BY <1>2, <1>8, <1>9 DEF WayIn

-----------------------------------------------------------------------------
(***************************************************************************)
(* The aggregator takes the frames of an event.                            *)
(***************************************************************************)
LEMMA NowAfter ==
    ASSUME NEW b, NEW E, NEW x, NEW r, NEW m, Aggregated(b, E, x, r, m), failed = FALSE,
           aggregator' = b.map, dispatched' = b.dispatched, failed' = (failed \/ b.thrown)
    PROVE  Now' = b /\ failed' = FALSE
<1>1. b \in [map : [Services -> Seq(Frame)], dispatched : [Channels -> Seq(Seq(Frame))],
             thrown : BOOLEAN]
      /\ b.thrown = FALSE
    BY DEF Aggregated, AggregatorType
<1>2. b = [map |-> b.map, dispatched |-> b.dispatched, thrown |-> FALSE]
    BY <1>1
<1> QED
    BY <1>1, <1>2 DEF Now

LEMMA ReachedIs ==
    ASSUME NEW b, NEW F, NEW a, NEW E, NEW x, NEW r, NEW m, NEW po,
           Reached(b, F, a, E, x, r, m, po)
    PROVE  Aggregated(b, E \ F, x, r, m)
BY DEF Reached

-----------------------------------------------------------------------------
(***************************************************************************)
(* An event of the transport.                                              *)
(***************************************************************************)
LEMMA EventSplits ==
    ASSUME WayIn, NEW n \in 1 .. Len(wire), TransportData(n)
    PROVE  \E F : /\ Splits(F, Waits, Stream, Stream', record)
                  /\ F = DecodeBuffer(buffer \o SubSeq(wire, 1, n)).frames
                  /\ buffer' \in Seq(Frame) /\ wire' \in Seq(Frame)
<1> DEFINE arr == buffer \o SubSeq(wire, 1, n)
<1>1. /\ buffer \in Seq(Frame) /\ wire \in Seq(Frame)
      /\ Stream \in Seq(Frame) /\ Lined(Waits, Stream, record)
    BY DEF WayIn, TypesIn, KeptIn, Kept
<1>2. Stream = buffer \o wire
    BY DEF Stream
<1> HIDE DEF arr
<1>3. Delivers(arr, Stream)
    BY <1>1, <1>2, Delivery DEF arr
<1>4. Whole(Stream)
    BY <1>1 DEF Lined
<1>5. PICK run : /\ Decoded(Stream, run, Len(arr))
                 /\ DecodeBuffer(arr) = [frames |-> run.frames,
                                         rest |-> SubSeq(arr, run.at, Len(arr))]
    BY <1>3, <1>4, DecodeBufferGives
<1>6. arr \in Seq(Frame) /\ Len(arr) \in Nat /\ Len(arr) <= Len(Stream)
      /\ run.at \in 1 .. Len(arr) + 1
    BY <1>3, <1>5, LenProperties DEF Delivers, Decoded
<1>7. /\ buffer' = DecodeBuffer(arr).rest /\ wire' = SubSeq(wire, n + 1, Len(wire))
    BY DEF TransportData, arr
<1>8. buffer' = SubSeq(arr, run.at, Len(arr))
    <2>1. \A x, y : [frames |-> x, rest |-> y].rest = y
        OBVIOUS
    <2> QED
        BY <1>5, <1>7, <2>1, Zenon
<1>9. Stream' = SubSeq(arr, run.at, Len(arr)) \o SubSeq(wire, n + 1, Len(wire))
    BY <1>7, <1>8 DEF Stream
<1>10. Rests(Stream, run.at, Stream')
    BY <1>1, <1>2, <1>6, <1>9, Remainder DEF arr
<1>11. Splits(run.frames, Waits, Stream, Stream', record)
    BY <1>1, <1>5, <1>6, <1>10, LinedDecoded
<1>12. buffer' \in Seq(Frame)
    <2>1. run.at \in Nat \ {0} /\ Len(arr) <= Len(arr) /\ run.at <= Len(arr) + 1
        BY <1>6
    <2>2. PartOf(buffer', arr, run.at, Len(arr))
        BY <1>6, <1>8, <2>1, PartIs
    <2> QED
        BY <2>2 DEF PartOf
<1>13. wire' \in Seq(Frame)
    <2>1. Len(wire) \in Nat
        BY <1>1, LenProperties
    <2>2. n + 1 \in Nat \ {0} /\ Len(wire) <= Len(wire) /\ n + 1 <= Len(wire) + 1
        BY <2>1
    <2>3. PartOf(wire', wire, n + 1, Len(wire))
        BY <1>1, <1>7, <2>1, <2>2, PartIs
    <2> QED
        BY <2>3 DEF PartOf
<1>14. run.frames = DecodeBuffer(arr).frames
    BY <1>5
<1> QED
    BY <1>11, <1>12, <1>13, <1>14 DEF arr

\* So does an event, with or without something to decrypt.
LEMMA EventWayIn ==
    ASSUME IInv, WayIn, NEW n \in 1 .. Len(wire), TransportData(n)
    PROVE  WayIn'
<1>1. TypesIn /\ Counts /\ IdleIn /\ KeptIn
    BY DEF WayIn
<1>2. PICK F : /\ Splits(F, Waits, Stream, Stream', record)
               /\ F = DecodeBuffer(buffer \o SubSeq(wire, 1, n)).frames
               /\ buffer' \in Seq(Frame) /\ wire' \in Seq(Frame)
    BY EventSplits
<1>3. /\ started /\ started' = started /\ session' = session /\ phone' = phone
      /\ stuck' = stuck /\ record' = record /\ spent' = spent
    BY DEF TransportData
<1>4. Going' = Going /\ Going = ~stuck["decrypt"]
    BY <1>3 DEF Going
<1>5. F \in Seq(Frame)
    BY <1>2 DEF Splits
<1>6. Kept(Now, Waits, Stream, record, session, phone.record, phone.messages,
           phone.open, Going)
    BY <1>1 DEF KeptIn
<1>7. Counts' /\ IdleIn'
    BY <1>1, <1>3 DEF Counts, IdleIn
<1>8. CASE HasMore([frames |-> F], 1)
    <2>1. /\ mutex' = [mutex EXCEPT !["decrypt"] = Acquire(@, F, 1)]
          /\ aggregator' = aggregator /\ dispatched' = dispatched /\ failed' = failed
          /\ overlapped' \in BOOLEAN
        BY <1>1, <1>2, <1>8 DEF TransportData, TypesIn
    <2>2. DOMAIN mutex = Directions /\ "decrypt" \in Directions
        BY DEF IInv, Types, Directions
    <2>3. mutex'["decrypt"] = Acquire(mutex["decrypt"], F, 1)
        BY <2>1, <2>2
    <2>4. PICK k : /\ IsNext(k, F, 1)
                   /\ Acquire(mutex["decrypt"], F, 1)
                        = Append(mutex["decrypt"], [frames |-> F, next |-> k])
        <3>1. 1 \in Nat \ {0}
            OBVIOUS
        <3> QED
            BY <1>5, <1>8, <3>1, AcquireGives, Zenon
    <2>5. Queue(mutex'["decrypt"])
        <3>1. k \in 1 .. Len(F) /\ Encrypted(F[k])
            BY <2>4 DEF IsNext
        <3>2. Queue(mutex["decrypt"])
            BY <1>1 DEF TypesIn
        <3>3. LongerBy(mutex'["decrypt"], mutex["decrypt"], [frames |-> F, next |-> k])
            BY <1>5, <2>3, <2>4, <3>1, <3>2, QueueMore
        <3> QED
            BY <3>3 DEF LongerBy
    <2>6. TypesIn'
        BY <1>1, <1>2, <1>3, <2>1, <2>5 DEF TypesIn
    <2>7. Now' = Now
        BY <2>1 DEF Now
    <2>8. CASE stuck["decrypt"]
        <3>1. Waits = <<>> /\ Waits' = Waits
            BY <1>3, <2>8 DEF Waits, Tasks
        <3>2. ~Going
            BY <1>4, <2>8
        <3>3. Kept(Now, Waits, Stream', record, session, phone.record, phone.messages,
                   phone.open, Going)
            BY <1>2, <1>6, <3>2, KeptLost
        <3>4. KeptIn'
            BY <1>3, <1>4, <2>7, <3>1, <3>3 DEF KeptIn
        <3> QED
            BY <1>7, <2>6, <3>4 DEF WayIn
    <2>9. CASE ~stuck["decrypt"]
        <3>1. Waits = mutex["decrypt"] /\ Waits' = Append(Waits, [frames |-> F, next |-> k])
            BY <1>3, <2>3, <2>4, <2>9 DEF Waits, Tasks
        <3>2. Kept(Now, Waits', Stream', record, session, phone.record, phone.messages,
                   phone.open, Going)
            BY <1>2, <1>6, <2>4, <3>1, KeptEvent
        <3>3. KeptIn'
            BY <1>3, <1>4, <2>7, <3>2 DEF KeptIn
        <3> QED
            BY <1>7, <2>6, <3>3 DEF WayIn
    <2> QED
        BY <2>8, <2>9
<1>9. CASE ~HasMore([frames |-> F], 1)
    <2>1. AggregateAll(F) /\ mutex' = mutex /\ overlapped' = overlapped
        BY <1>2, <1>9 DEF TransportData
    <2>2. \A i \in 1 .. Len(F) : ~Encrypted(F[i])
        BY <1>9 DEF HasMore, ToDecrypt
    <2>3. /\ Ready(F, Now, OnWay(Waits, Stream), session, phone.record, phone.messages, phone.open)
          /\ OnWay(Waits, Stream') = OnWay(Waits, Stream) \ Within(F)
        BY <1>2, <1>6, <2>2, PlainReady
    <2>4. PICK b : /\ Reached(b, Within(F), Now, OnWay(Waits, Stream), session, phone.record,
                              phone.messages, phone.open)
                   /\ aggregator' = b.map /\ dispatched' = b.dispatched
                   /\ failed' = (failed \/ b.thrown)
        BY <2>1, <2>3, AggregateAllGives
    <2>5. Now' = b /\ failed' = FALSE
        <3>1. Aggregated(b, OnWay(Waits, Stream) \ Within(F), session, phone.record, phone.messages)
            BY <2>4, ReachedIs
        <3>2. failed = FALSE
            BY <1>1 DEF TypesIn
        <3> QED
            BY <2>4, <3>1, <3>2, NowAfter
    <2>6. Kept(b, Waits, Stream', record, session, phone.record, phone.messages, phone.open, Going)
        BY <1>2, <1>6, <2>3, <2>4, KeptPlain
    <2>7. Waits' = Waits
        BY <1>3, <2>1 DEF Waits
    <2>8. KeptIn'
        BY <1>3, <1>4, <2>5, <2>6, <2>7 DEF KeptIn
    <2>9. TypesIn'
        BY <1>1, <1>2, <1>3, <2>1, <2>5 DEF TypesIn
    <2> QED
        BY <1>7, <2>8, <2>9 DEF WayIn
<1> QED
    BY <1>8, <1>9

-----------------------------------------------------------------------------
(***************************************************************************)
(* The engine answers.                                                     *)
(***************************************************************************)
LEMMA DecryptedWayIn == ASSUME IInv, WayIn, Decrypted PROVE WayIn'
<1> DEFINE q == mutex["decrypt"]
           F == q[1].frames
           i == q[1].next
<1>1. TypesIn /\ Counts /\ IdleIn /\ KeptIn
    BY DEF WayIn
<1>2. /\ started /\ ~stuck["decrypt"] /\ q # <<>>
      /\ started' = started /\ session' = session /\ phone' = phone /\ wire' = wire
      /\ buffer' = buffer /\ stuck' = stuck /\ overlapped' = overlapped /\ spent' = spent
      /\ record' = record + 1
    BY DEF Decrypted
<1>3. Queue(q) /\ record \in Nat
    BY <1>1 DEF TypesIn
<1>4. WithoutHead(Tail(q), q)
    BY <1>2, <1>3, QueueLess
<1>5. Queue(Tail(q)) /\ Head(q) = q[1] /\ 1 \in 1 .. Len(q)
    BY <1>4 DEF WithoutHead
<1>6. F \in Seq(Frame) /\ i \in 1 .. Len(F) /\ i \in Nat
    BY <1>3, <1>5, TaskIs
<1>7. F[i].record = record + 1
    BY <1>5 DEF Decrypted
<1>8. Going /\ Going' /\ Waits = q
    BY <1>2 DEF Going, Waits, Tasks
<1>9. DOMAIN mutex = Directions /\ "decrypt" \in Directions
    BY DEF IInv, Types, Directions
<1>10. Stream' = Stream /\ Stream \in Seq(Frame) /\ Lined(q, Stream, record)
    BY <1>1, <1>2, <1>8 DEF Stream, KeptIn, Kept
<1>11. Kept(Now, q, Stream, record, session, phone.record, phone.messages, phone.open, Going)
    BY <1>1, <1>8 DEF KeptIn
<1>12. record' \in 0 .. MaxFrames /\ record' <= phone.record
    <2>1. F[i] \in Within(F)
        BY <1>6 DEF Within
    <2>2. F[i] \in OnWay(q, Stream)
        BY <1>5, <2>1, InTasksIs DEF OnWay
    <2>3. F[i] \in Frame /\ F[i].record <= phone.record
        BY <1>11, <2>2 DEF Kept, OnTheWay, Sound
    <2> QED
        BY <1>2, <1>7, <2>3 DEF Frame
<1>13. Counts' /\ (Waits' = mutex'["decrypt"])
    BY <1>1, <1>2, <1>12 DEF Counts, Waits, Tasks
<1>14. IdleIn'
    BY <1>1, <1>2 DEF IdleIn
<1>15. ASSUME Queue(mutex'["decrypt"]), failed' = FALSE PROVE TypesIn'
    BY <1>1, <1>2, <1>12, <1>15 DEF TypesIn
<1>16. ASSUME Kept(Now', mutex'["decrypt"], Stream, record + 1, session, phone.record,
                   phone.messages, phone.open, Going)
       PROVE  KeptIn'
    <2>1. Going' = Going
        BY <1>2 DEF Going
    <2> QED
        BY <1>2, <1>10, <1>13, <1>16, <2>1 DEF KeptIn
<1>17. CASE HasMore(q[1], i + 1)
    <2>1. /\ mutex' = [mutex EXCEPT !["decrypt"] = Acquire(Tail(q), F, i + 1)]
          /\ aggregator' = aggregator /\ dispatched' = dispatched /\ failed' = failed
        BY <1>5, <1>17 DEF Decrypted
    <2>2. mutex'["decrypt"] = Acquire(Tail(q), F, i + 1)
        BY <1>9, <2>1
    <2>3. HasMore([frames |-> F], i + 1) /\ i + 1 \in Nat \ {0}
        BY <1>6, <1>17 DEF HasMore, ToDecrypt
    <2> HIDE DEF q, F, i
    <2>4. PICK k : /\ IsNext(k, F, i + 1)
                   /\ Acquire(Tail(q), F, i + 1) = Append(Tail(q), [frames |-> F, next |-> k])
        BY <1>6, <2>3, AcquireGives
    <2>5. Queue(mutex'["decrypt"])
        <3>1. k \in 1 .. Len(F) /\ Encrypted(F[k])
            BY <1>6, <2>4 DEF IsNext
        <3>2. LongerBy(mutex'["decrypt"], Tail(q), [frames |-> F, next |-> k])
            BY <1>5, <1>6, <2>2, <2>4, <3>1, QueueMore
        <3> QED
            BY <3>2 DEF LongerBy
    <2>6. Kept(Now, mutex'["decrypt"], Stream, record + 1, session, phone.record,
               phone.messages, phone.open, Going)
        <3>1. F = q[1].frames /\ i = q[1].next
            BY DEF F, i
        <3>2. F[q[1].next].record = record + 1 /\ IsNext(k, F, q[1].next + 1)
            BY <1>7, <2>4, <3>1
        <3> QED
            BY <1>2, <1>3, <1>11, <2>2, <2>4, <3>1, <3>2, KeptAgain
    <2>7. Now' = Now /\ failed' = FALSE
        BY <1>1, <2>1 DEF Now, TypesIn
    <2> QED
        BY <1>13, <1>14, <1>15, <1>16, <2>5, <2>6, <2>7 DEF WayIn
<1>18. CASE ~HasMore(q[1], i + 1)
    <2>1. mutex' = [mutex EXCEPT !["decrypt"] = Tail(q)] /\ AggregateAll(F)
        BY <1>5, <1>18 DEF Decrypted
    <2>2. mutex'["decrypt"] = Tail(q)
        BY <1>9, <2>1
    <2> HIDE DEF q, F, i
    <2>3. Leads(F, q, Tail(q), Stream, record + 1)
        <3>1. F = q[1].frames /\ F[q[1].next].record = record + 1
            BY <1>7 DEF F, i
        <3> QED
            BY <1>2, <1>3, <1>10, <3>1, LinedDone
    <2>4. Ready(F, Now, OnWay(q, Stream), session, phone.record, phone.messages, phone.open)
        BY <1>8, <1>11, <2>3, DoneReady
    <2>5. PICK b : /\ Reached(b, Within(F), Now, OnWay(q, Stream), session, phone.record,
                              phone.messages, phone.open)
                   /\ aggregator' = b.map /\ dispatched' = b.dispatched
                   /\ failed' = (failed \/ b.thrown)
        BY <2>1, <2>4, AggregateAllGives
    <2>6. Now' = b /\ failed' = FALSE
        <3>1. Aggregated(b, OnWay(q, Stream) \ Within(F), session, phone.record, phone.messages)
            BY <2>5, ReachedIs
        <3>2. failed = FALSE
            BY <1>1 DEF TypesIn
        <3> QED
            BY <2>5, <3>1, <3>2, NowAfter
    <2>7. Kept(b, Tail(q), Stream, record + 1, session, phone.record, phone.messages,
               phone.open, Going)
        BY <1>11, <2>3, <2>5, KeptDone
    <2>8. Queue(mutex'["decrypt"])
        BY <1>5, <2>2
    <2>9. KeptIn'
        BY <1>16, <2>2, <2>6, <2>7
    <2> QED
        BY <1>13, <1>14, <1>15, <2>6, <2>8, <2>9 DEF WayIn
<1> QED
    BY <1>17, <1>18

-----------------------------------------------------------------------------
(***************************************************************************)
(* The steps of the way out do not touch the way in.                       *)
(***************************************************************************)
LEMMA OutWayIn ==
    ASSUME WayIn, session' = session, started' = started, incoming' = incoming,
           stuck' = stuck, mutex'["decrypt"] = mutex["decrypt"], spent' \in spent .. MaxFrames
    PROVE  WayIn'
<1>1. /\ phone' = phone /\ wire' = wire /\ buffer' = buffer /\ aggregator' = aggregator
      /\ record' = record /\ dispatched' = dispatched /\ failed' = failed
      /\ overlapped' = overlapped
    BY DEF incoming
<1>2. TypesIn /\ Counts /\ IdleIn /\ KeptIn
    BY DEF WayIn
<1>3. spent \in Nat /\ spent' \in 0 .. MaxFrames /\ spent <= spent' /\ spent' \in Nat
    BY <1>2, MessagePipelineAssumption DEF TypesIn
<1>4. TypesIn'
    BY <1>1, <1>2, <1>3 DEF TypesIn
<1>5. Counts'
    <2>1. phone.record <= spent'
        <3>1. phone.record <= spent /\ phone.record \in Nat
            BY <1>2 DEF Counts, TypesIn
        <3> QED
            BY <1>3, <3>1
    <2>2. ASSUME NEW c \in Channels PROVE phone.messages[c] <= spent'
        <3>1. phone.messages[c] <= spent /\ phone.messages[c] \in Nat
            BY <1>2 DEF Counts, TypesIn
        <3> QED
            BY <1>3, <3>1
    <2> QED
        BY <1>1, <1>2, <2>1, <2>2 DEF Counts
<1>6. Waits' = Waits /\ Now' = Now /\ Stream' = Stream /\ Going' = Going
    BY <1>1 DEF Waits, Now, Stream, Going
<1>7. IdleIn'
    BY <1>1, <1>2, <1>6 DEF IdleIn
<1>8. KeptIn'
    BY <1>1, <1>2, <1>6 DEF KeptIn
<1> QED
    BY <1>4, <1>5, <1>7, <1>8 DEF WayIn

\* Every step keeps the invariant of the way in.
LEMMA NextWayIn == ASSUME IInv, WayIn, TypesOut, [Next]_vars PROVE WayIn'
<1>0. DOMAIN mutex = Directions /\ "decrypt" \in Directions /\ "encrypt" # "decrypt"
    BY DEF IInv, Types, Directions
<1>00. spent \in Nat /\ spent <= MaxFrames /\ MaxFrames \in Nat
    BY MessagePipelineAssumption DEF WayIn, TypesIn
<1>1. CASE Start
    BY <1>1, StartWayIn
<1>2. CASE Stop
    BY <1>2, StopWayIn
<1>3. ASSUME NEW c \in Channels, NEW last \in BOOLEAN, PhoneSends(c, last)
      PROVE  WayIn'
    BY <1>3, PhoneWayIn
<1>4. ASSUME NEW n \in 1 .. Len(wire), TransportData(n)
      PROVE  WayIn'
    BY <1>4, EventWayIn
<1>5. CASE Decrypted
    BY <1>5, DecryptedWayIn
<1>6. ASSUME NEW c \in Channels, SendMessage(c)
      PROVE  WayIn'
    <2>1. \/ mutex' = mutex
          \/ \E o : mutex' = [mutex EXCEPT !["encrypt"] = o]
        BY <1>6 DEF SendMessage
    <2>2. mutex'["decrypt"] = mutex["decrypt"]
        BY <1>0, <2>1
    <2>3. /\ session' = session /\ started' = started /\ incoming' = incoming /\ stuck' = stuck
          /\ spent' = spent + 1 /\ spent < MaxFrames
        BY <1>6 DEF SendMessage
    <2>4. spent' \in spent .. MaxFrames
        BY <1>00, <2>3
    <2> QED
        BY <2>2, <2>3, <2>4, OutWayIn
<1>7. CASE EncryptedFrame
    <2>1. mutex'["decrypt"] = mutex["decrypt"]
        BY <1>0, <1>7 DEF EncryptedFrame
    <2>2. /\ session' = session /\ started' = started /\ incoming' = incoming /\ stuck' = stuck
          /\ spent' = spent
        BY <1>7 DEF EncryptedFrame
    <2>3. spent' \in spent .. MaxFrames
        BY <1>00, <2>2
    <2> QED
        BY <2>1, <2>2, <2>3, OutWayIn
<1>8. CASE UNCHANGED vars
    <2>1. mutex'["decrypt"] = mutex["decrypt"]
        BY <1>8 DEF vars
    <2>2. /\ session' = session /\ started' = started /\ incoming' = incoming /\ stuck' = stuck
          /\ spent' = spent
        BY <1>8 DEF vars
    <2>3. spent' \in spent .. MaxFrames
        BY <1>00, <2>2
    <2> QED
        BY <2>1, <2>2, <2>3, OutWayIn
<1> QED
    BY <1>1, <1>2, <1>3, <1>4, <1>5, <1>6, <1>7, <1>8 DEF Next

-----------------------------------------------------------------------------
(***************************************************************************)
(* The types of the way out.                                               *)
(***************************************************************************)
OutTasks(q) == q \in Seq(TaskOver(Sent)) /\ \A i \in DOMAIN q : WellFormed(q[i])

\* A frame to encrypt joins the queue, and leaves it.
LEMMA OutTasksMore ==
    ASSUME NEW q, OutTasks(q), NEW f \in Sent, Encrypted(f), NEW t,
           t = [frames |-> <<f>>, next |-> 1], NEW p, p = Append(q, t)
    PROVE  OutTasks(p)
<1>1. <<f>> \in Seq(Sent) /\ Len(<<f>>) = 1 /\ <<f>>[1] = f /\ 1 \in DOMAIN <<f>>
    OBVIOUS
<1>2. t \in TaskOver(Sent) /\ WellFormed(t)
    BY <1>1 DEF TaskOver, WellFormed
<1>3. /\ p \in Seq(TaskOver(Sent)) /\ Len(q) \in Nat /\ Len(p) = Len(q) + 1
      /\ \A i \in 1 .. Len(q) : p[i] = q[i]
      /\ p[Len(q) + 1] = t
    BY <1>2, OneMore DEF OutTasks
<1>4. DOMAIN p = 1 .. Len(p) /\ DOMAIN q = 1 .. Len(q)
    BY <1>3 DEF OutTasks
<1>5. ASSUME NEW i \in DOMAIN p PROVE WellFormed(p[i])
    <2>1. i \in 1 .. Len(q) \/ i = Len(q) + 1
        BY <1>3, <1>4
    <2>2. CASE i \in 1 .. Len(q)
        BY <1>3, <1>4, <2>2 DEF OutTasks
    <2>3. CASE i = Len(q) + 1
        BY <1>2, <1>3, <2>3
    <2> QED
        BY <2>1, <2>2, <2>3
<1> QED
    BY <1>3, <1>5 DEF OutTasks

LEMMA OutTasksLess ==
    ASSUME NEW q, OutTasks(q), q # <<>>, NEW p, p = Tail(q)
    PROVE  OutTasks(p) /\ Head(q).frames[1] \in Sent
<1>1. /\ p \in Seq(TaskOver(Sent)) /\ Len(q) \in Nat /\ 1 \in 1 .. Len(q)
      /\ Len(p) = Len(q) - 1
      /\ \A i \in 1 .. Len(q) - 1 : p[i] = q[i + 1]
      /\ Head(q) = q[1] /\ q[1] \in TaskOver(Sent)
    BY OneLess DEF OutTasks
<1>2. DOMAIN p = 1 .. Len(p) /\ DOMAIN q = 1 .. Len(q)
    BY <1>1 DEF OutTasks
<1>3. ASSUME NEW i \in DOMAIN p PROVE WellFormed(p[i])
    <2>1. i + 1 \in DOMAIN q /\ p[i] = q[i + 1]
        BY <1>1, <1>2
    <2> QED
        BY <2>1 DEF OutTasks
<1>4. q[1].frames[1] \in Sent
    <2>1. WellFormed(q[1])
        BY <1>1, <1>2 DEF OutTasks
    <2>2. q[1].frames \in Seq(Sent)
        BY <1>1 DEF TaskOver
    <2>3. q[1].next \in 1 .. Len(q[1].frames) /\ Len(q[1].frames) \in Nat
        BY <2>1, <2>2 DEF WellFormed
    <2>4. 1 \in 1 .. Len(q[1].frames)
        BY <2>3
    <2> QED
        BY <2>2, <2>4
<1> QED
    BY <1>1, <1>3, <1>4 DEF OutTasks

LEMMA OutUnchanged ==
    ASSUME TypesOut, WayIn, asked' = asked, waiting' = waiting, out' = out, spent \in Nat,
           spent' \in Nat, spent <= spent'
    PROVE  TypesOut'
<1>1. ASSUME NEW c \in Channels PROVE asked[c] <= spent'
    <2>1. asked[c] <= spent /\ asked[c] \in Nat
        BY DEF TypesOut
    <2> QED
        BY <2>1
<1> QED
    BY <1>1 DEF TypesOut

LEMMA InitTypesOut == ASSUME Init PROVE TypesOut
<1>1. waiting = <<>> /\ out = <<>> /\ asked = [c \in Channels |-> 0] /\ spent = 0
    BY DEF Init, waiting, Directions
<1>2. <<>> \in Seq(Sent) /\ <<>> \in Seq(TaskOver(Sent)) /\ DOMAIN <<>> = {}
    OBVIOUS
<1>3. 0 \in 0 .. MaxFrames
    BY QuietIs
<1> QED
    BY <1>1, <1>2, <1>3 DEF TypesOut

LEMMA SendTypesOut ==
    ASSUME IInv, WayIn, TypesOut, NEW c \in Channels, SendMessage(c)
    PROVE  TypesOut'
<1> DEFINE f == [session |-> session, channel |-> c, msg |-> asked[c] + 1]
<1>1. /\ started /\ spent < MaxFrames /\ asked' = [asked EXCEPT ![c] = @ + 1]
      /\ spent' = spent + 1
    BY DEF SendMessage
<1>2. /\ spent \in Nat /\ MaxFrames \in Nat /\ asked[c] \in Nat /\ asked[c] <= spent
      /\ session \in 1 .. MaxSessions
    BY <1>1, MessagePipelineAssumption DEF WayIn, TypesIn, IdleIn, TypesOut
<1>3. asked[c] + 1 \in 1 .. MaxFrames /\ asked[c] + 1 \in 0 .. MaxFrames
      /\ asked[c] + 1 \in Nat \ {0}
    BY <1>1, <1>2
<1>4. f \in Sent /\ f \in Message
    BY <1>2, <1>3 DEF Sent, Message
<1>5. /\ asked' \in [Channels -> 0 .. MaxFrames]
      /\ \A d \in Channels : asked'[d] = IF d = c THEN asked[c] + 1 ELSE asked[d]
    BY <1>1, <1>3 DEF TypesOut
<1>6. ASSUME NEW d \in Channels PROVE asked'[d] <= spent'
    <2>1. asked[d] <= spent /\ asked[d] \in Nat
        BY DEF TypesOut
    <2> QED
        BY <1>1, <1>2, <1>5, <2>1
<1>7. OutTasks(waiting)
    BY DEF TypesOut, OutTasks
<1>8. CASE Encrypted(f)
    <2>1. out' = out /\ mutex' = [mutex EXCEPT !["encrypt"] = Acquire(@, <<f>>, 1)]
        BY <1>8 DEF SendMessage
    <2>2. waiting \in Seq(Pending)
        BY DEF IInv, Types
    <2> HIDE DEF f
    <2>3. Acquire(waiting, <<f>>, 1) = Append(waiting, [frames |-> <<f>>, next |-> 1])
        BY <1>4, <1>8, <2>2, AcquireOne
    <2>4. waiting' = Append(waiting, [frames |-> <<f>>, next |-> 1])
        BY <2>1, <2>3 DEF waiting, IInv, Types, Directions
    <2>5. OutTasks(waiting')
        BY <1>4, <1>7, <1>8, <2>4, OutTasksMore
    <2> QED
        BY <1>5, <1>6, <2>1, <2>5 DEF TypesOut, OutTasks
<1>9. CASE ~Encrypted(f)
    <2>1. out' = Append(out, f) /\ waiting' = waiting
        BY <1>9 DEF SendMessage, waiting
    <2>2. out' \in Seq(Sent)
        BY <1>4, <2>1 DEF TypesOut
    <2> QED
        BY <1>5, <1>6, <1>7, <2>1, <2>2 DEF TypesOut, OutTasks
<1> QED
    BY <1>8, <1>9

\* Every step keeps the types of the way out.
LEMMA NextTypesOut == ASSUME IInv, WayIn, TypesOut, [Next]_vars PROVE TypesOut'
<1>0. DOMAIN mutex = Directions /\ "encrypt" \in Directions /\ "encrypt" # "decrypt"
    BY DEF IInv, Types, Directions
<1>00. spent \in Nat /\ spent <= spent /\ spent <= spent + 1 /\ spent + 1 \in Nat
    BY MessagePipelineAssumption DEF WayIn, TypesIn
<1>1. CASE Start
    <2>1. /\ waiting' = waiting /\ out' = <<>> /\ asked' = [c \in Channels |-> 0]
          /\ spent' = spent
        BY <1>1 DEF Start, waiting
    <2>2. <<>> \in Seq(Sent) /\ 0 \in 0 .. MaxFrames /\ 0 <= spent
        BY <1>00, QuietIs
    <2> QED
        BY <2>1, <2>2 DEF TypesOut
<1>2. CASE Stop
    <2>1. /\ waiting' = IF stuck'["encrypt"] THEN waiting ELSE <<>>
          /\ out' = out /\ asked' = asked /\ spent' = spent
        BY <1>2 DEF Stop, Directions, waiting
    <2>2. <<>> \in Seq(TaskOver(Sent)) /\ DOMAIN <<>> = {}
        OBVIOUS
    <2> QED
        BY <2>1, <2>2 DEF TypesOut
<1>3. ASSUME NEW c \in Channels, NEW last \in BOOLEAN, PhoneSends(c, last)
      PROVE  TypesOut'
    <2>1. waiting' = waiting /\ out' = out /\ asked' = asked /\ spent' = spent + 1
        BY <1>3 DEF PhoneSends, waiting
    <2> QED
        BY <1>00, <2>1, OutUnchanged
<1>4. ASSUME NEW n \in 1 .. Len(wire), TransportData(n)
      PROVE  TypesOut'
    <2>1. \/ mutex' = mutex
          \/ \E q : mutex' = [mutex EXCEPT !["decrypt"] = q]
        BY <1>4 DEF TransportData
    <2>2. waiting' = waiting
        BY <1>0, <2>1 DEF waiting
    <2>3. out' = out /\ asked' = asked /\ spent' = spent
        BY <1>4 DEF TransportData
    <2> QED
        BY <1>00, <2>2, <2>3, OutUnchanged
<1>5. CASE Decrypted
    <2>1. \E q : mutex' = [mutex EXCEPT !["decrypt"] = q]
        BY <1>5 DEF Decrypted
    <2>2. waiting' = waiting
        BY <1>0, <2>1 DEF waiting
    <2>3. out' = out /\ asked' = asked /\ spent' = spent
        BY <1>5 DEF Decrypted
    <2> QED
        BY <1>00, <2>2, <2>3, OutUnchanged
<1>6. ASSUME NEW c \in Channels, SendMessage(c)
      PROVE  TypesOut'
    BY <1>6, SendTypesOut
<1>7. CASE EncryptedFrame
    <2>1. /\ waiting # <<>> /\ out' = Append(out, Head(waiting).frames[1])
          /\ mutex' = [mutex EXCEPT !["encrypt"] = Tail(@)]
          /\ asked' = asked /\ spent' = spent
        BY <1>7 DEF EncryptedFrame, waiting
    <2>2. waiting' = Tail(waiting)
        BY <1>0, <2>1 DEF waiting
    <2>3. OutTasks(waiting)
        BY DEF TypesOut, OutTasks
    <2>4. OutTasks(waiting') /\ Head(waiting).frames[1] \in Sent
        BY <2>1, <2>2, <2>3, OutTasksLess
    <2>5. out' \in Seq(Sent)
        BY <2>1, <2>4 DEF TypesOut
    <2> QED
        BY <2>1, <2>4, <2>5 DEF TypesOut, OutTasks
<1>8. CASE UNCHANGED vars
    BY <1>8 DEF vars, TypesOut, waiting
<1> QED
    BY <1>1, <1>2, <1>3, <1>4, <1>5, <1>6, <1>7, <1>8 DEF Next

-----------------------------------------------------------------------------
(***************************************************************************)
(* The theorems of the way in.                                             *)
(***************************************************************************)
Inv == IInv /\ WayIn /\ TypesOut

\* The invariant of both ways.
LEMMA InvHolds == Spec => []Inv
<1>1. Init => Inv
    BY InitIInv, InitWayIn, InitTypesOut DEF Inv
<1>2. Inv /\ [Next]_vars => Inv'
    BY NextIInv, NextWayIn, NextTypesOut DEF Inv
<1> QED
    BY <1>1, <1>2, PTL DEF Spec

\* Every variable of the pipeline keeps its type: every task that waits for a
\* mutex waits for an encrypted frame of its own, and no counter passes the
\* number of frames sent.
THEOREM TypeCorrect == Spec => []TypeOK
<1>1. ASSUME Inv PROVE TypeOK
    <2>1. IInv /\ WayIn /\ TypesOut
        BY <1>1 DEF Inv
    <2>2. TypesIn /\ KeptIn
        BY <2>1 DEF WayIn
    <2>3. aggregator \in [Services -> Seq(Frame)] /\ dispatched \in [Channels -> Seq(Seq(Frame))]
        BY <2>2 DEF KeptIn, Kept, Aggregated, AggregatorType, Now
    <2>4. stuck \in [Directions -> BOOLEAN]
        BY <2>1 DEF IInv, Types
    <2>5. Queue(mutex["decrypt"])
        BY <2>2 DEF TypesIn
    <2>6. /\ mutex["decrypt"] \in Seq(TaskOver(Frame))
          /\ DOMAIN mutex["decrypt"] = 1 .. Len(mutex["decrypt"])
          /\ \A i \in DOMAIN mutex["decrypt"] : WellFormed(mutex["decrypt"][i])
        BY <2>5 DEF Queue
    <2>7. /\ mutex["encrypt"] \in Seq(TaskOver(Sent))
          /\ \A i \in DOMAIN mutex["encrypt"] : WellFormed(mutex["encrypt"][i])
        BY <2>1 DEF TypesOut, waiting
    <2>8. \A d \in Directions : \A i \in DOMAIN mutex[d] : WellFormed(mutex[d][i])
        BY <2>6, <2>7 DEF Directions
    <2>9. failed \in BOOLEAN
        BY <2>2 DEF TypesIn
    <2> QED
        BY <2>1, <2>2, <2>3, <2>4, <2>6, <2>7, <2>8, <2>9 DEF TypeOK, TypesIn, TypesOut
<1> QED
    BY <1>1, InvHolds, PTL

\* The assertions of MessageAggregator hold for any number of services,
\* sessions and frames, wherever the events of the transport end and however
\* the decryptions of several of them interleave: what reaches the aggregator
\* of a service always continues what it has.
THEOREM AssertionsHold == Spec => []AggregatorAssertions
<1>1. ASSUME Inv PROVE AggregatorAssertions
    BY <1>1 DEF Inv, WayIn, TypesIn, AggregatorAssertions
<1> QED
    BY <1>1, InvHolds, PTL

\* Messages are dispatched whole, and the encrypted ones of a service in the
\* order the phone sent them in, without gaps, for any number of services,
\* sessions and frames.
THEOREM DispatchKeepsOrder == Spec => []DispatchedInOrder
<1>1. ASSUME Inv PROVE DispatchedInOrder
    <2>1. Dispatches(dispatched, session) /\ dispatched \in [Channels -> Seq(Seq(Frame))]
        BY <1>1 DEF Inv, WayIn, KeptIn, Kept, Aggregated, AggregatorType, Now
    <2> SUFFICES ASSUME NEW c \in Channels, NEW i \in DOMAIN dispatched[c],
                        NEW frames, frames = dispatched[c][i]
                 PROVE  /\ \A k \in DOMAIN frames :
                            /\ frames[k].session = session
                            /\ frames[k].channel = c
                            /\ frames[k].msg = frames[1].msg
                            /\ frames[k].first = (k = 1)
                            /\ frames[k].last = (k = Len(frames))
                            /\ k > 1 => frames[k].record > frames[k - 1].record
                        /\ c[2] => frames[1].msg = i
                        /\ \A j \in 1 .. i - 1 : dispatched[c][j] # frames
        BY DEF DispatchedInOrder
    <2>2. dispatched[c] \in Seq(Seq(Frame))
        BY <2>1
    <2>3. i \in 1 .. Len(dispatched[c]) /\ frames \in Seq(Frame)
        BY <2>2
    <2>4. DOMAIN frames = 1 .. Len(frames)
        BY <2>3
    <2>5. InOrder(dispatched[c], c, session)
        BY <2>1 DEF Dispatches
    <2>6. /\ MessageOf(frames, c, session) /\ (c[2] => frames[1].msg = i)
          /\ \A j \in 1 .. i - 1 : dispatched[c][j][1].msg # frames[1].msg
        BY <2>3, <2>5 DEF InOrder
    <2> QED
        BY <2>4, <2>6 DEF MessageOf
<1> QED
    BY <1>1, InvHolds, PTL

-----------------------------------------------------------------------------
(***************************************************************************)
(* What is dispatched stays, and grows by messages that have been sent.    *)
(***************************************************************************)
\* What of each channel has been sent to the end.
SentWhole == [c \in Channels |-> Completed(c)]

\* A frame is the last one of its message only when all of it has been sent.
Ended(f, K) == f.last => f.msg <= K[f.channel]
EndsSent(d, K) == \A c \in Channels : \A i \in 1 .. Len(d[c]) :
    Len(d[c][i]) >= 1 /\ Ended(d[c][i][Len(d[c][i])], K)

\* e is d or more.
Grows(e, d) == \A c \in Channels :
    Len(d[c]) <= Len(e[c]) /\ \A i \in 1 .. Len(d[c]) : e[c][i] = d[c][i]
GrowsSent(e, d, K) == Grows(e, d) /\ EndsSent(e, K)

\* One more message.
LEMMA AddGrows ==
    ASSUME NEW d \in [Channels -> Seq(Seq(Frame))], NEW c \in Channels, NEW K,
           NEW p \in Seq(Frame), Len(p) >= 1, Ended(p[Len(p)], K), EndsSent(d, K),
           NEW e, e = Add(d, c, p)
    PROVE  GrowsSent(e, d, K)
<1>1. /\ d[c] \in Seq(Seq(Frame)) /\ e[c] = Append(d[c], p)
      /\ \A b \in Channels : b # c => e[b] = d[b]
      /\ \A b \in Channels : Len(d[b]) \in Nat
    BY DEF Add
<1>2. /\ Len(e[c]) = Len(d[c]) + 1 /\ e[c][Len(d[c]) + 1] = p
      /\ \A i \in 1 .. Len(d[c]) : e[c][i] = d[c][i]
    BY <1>1, OneMore
<1>3. Grows(e, d)
    <2> SUFFICES ASSUME NEW b \in Channels
                 PROVE  Len(d[b]) <= Len(e[b]) /\ \A i \in 1 .. Len(d[b]) : e[b][i] = d[b][i]
        BY DEF Grows
    <2>1. CASE b = c
        BY <1>1, <1>2, <2>1
    <2>2. CASE b # c
        BY <1>1, <2>2
    <2> QED
        BY <2>1, <2>2
<1>4. EndsSent(e, K)
    <2> SUFFICES ASSUME NEW b \in Channels, NEW i \in 1 .. Len(e[b])
                 PROVE  Len(e[b][i]) >= 1 /\ Ended(e[b][i][Len(e[b][i])], K)
        BY DEF EndsSent
    <2>1. CASE b = c /\ i = Len(d[c]) + 1
        BY <1>2, <2>1
    <2>2. CASE ~(b = c /\ i = Len(d[c]) + 1)
        <3>1. i \in 1 .. Len(d[b]) /\ e[b][i] = d[b][i]
            <4>1. CASE b = c
                <5>1. i \in 1 .. Len(d[c]) + 1 /\ i # Len(d[c]) + 1 /\ Len(d[c]) \in Nat
                    BY <1>1, <1>2, <2>2, <4>1
                <5>2. i \in 1 .. Len(d[c])
                    BY <5>1
                <5> QED
                    BY <1>2, <4>1, <5>2
            <4>2. CASE b # c
                BY <1>1, <4>2
            <4> QED
                BY <4>1, <4>2
        <3> QED
            BY <3>1 DEF EndsSent
    <2> QED
        BY <2>1, <2>2
<1> QED
    BY <1>3, <1>4 DEF GrowsSent

\* Growth may be nothing, and adds up.
LEMMA GrowsSame ==
    ASSUME NEW d \in [Channels -> Seq(Seq(Frame))], NEW K, EndsSent(d, K)
    PROVE  GrowsSent(d, d, K)
<1>1. \A c \in Channels : Len(d[c]) \in Nat
    OBVIOUS
<1> QED
    BY <1>1 DEF GrowsSent, Grows

LEMMA GrowsMore ==
    ASSUME NEW d \in [Channels -> Seq(Seq(Frame))], NEW e \in [Channels -> Seq(Seq(Frame))],
           NEW g \in [Channels -> Seq(Seq(Frame))], NEW K, GrowsSent(e, d, K), GrowsSent(g, e, K)
    PROVE  GrowsSent(g, d, K)
<1>1. \A c \in Channels : Len(d[c]) \in Nat /\ Len(e[c]) \in Nat /\ Len(g[c]) \in Nat
    OBVIOUS
<1>2. Grows(g, d)
    <2> SUFFICES ASSUME NEW c \in Channels
                 PROVE  Len(d[c]) <= Len(g[c]) /\ \A i \in 1 .. Len(d[c]) : g[c][i] = d[c][i]
        BY DEF Grows
    <2>1. /\ Len(d[c]) <= Len(e[c]) /\ Len(e[c]) <= Len(g[c])
          /\ \A i \in 1 .. Len(d[c]) : e[c][i] = d[c][i]
          /\ \A i \in 1 .. Len(e[c]) : g[c][i] = e[c][i]
        BY DEF GrowsSent, Grows
    <2> QED
        BY <1>1, <2>1
<1> QED
    BY <1>2 DEF GrowsSent

\* A message is dispatched when its last frame is there.
LEMMA AggregateGrows ==
    ASSUME NEW a, AggregatorType(a), NEW f \in Frame, NEW K, Ended(f, K),
           EndsSent(a.dispatched, K), NEW b, b = Aggregate(a, f)
    PROVE  GrowsSent(b.dispatched, a.dispatched, K)
<1> DEFINE d == a.dispatched
           c == f.channel
           p == Append(a.map[c[1]], f)
<1>1. d \in [Channels -> Seq(Seq(Frame))] /\ a.map \in [Services -> Seq(Frame)]
    BY DEF AggregatorType
<1>2. c \in Channels /\ c[1] \in Services
    <2>1. c \in Channels
        BY FrameIs
    <2>2. Control \in Services
        BY MessagePipelineAssumption
    <2> QED
        BY <2>1, <2>2, ChannelsAre
<1>3. p \in Seq(Frame) /\ Len(p) >= 1 /\ p[Len(p)] = f
    <2>1. a.map[c[1]] \in Seq(Frame)
        BY <1>1, <1>2
    <2>2. /\ p \in Seq(Frame) /\ Len(a.map[c[1]]) \in Nat
          /\ Len(p) = Len(a.map[c[1]]) + 1 /\ p[Len(a.map[c[1]]) + 1] = f
        BY <2>1, OneMore
    <2> QED
        BY <2>2
<1>4. <<f>> \in Seq(Frame) /\ Len(<<f>>) = 1 /\ <<f>>[1] = f
    OBVIOUS
<1>5. \/ b.dispatched = d
      \/ b.dispatched = Add(d, c, <<f>>)
      \/ b.dispatched = Add(d, c, p)
    <2>1. /\ [a EXCEPT !.dispatched[c] = Append(@, <<f>>)].dispatched = Add(d, c, <<f>>)
          /\ [a EXCEPT !.thrown = TRUE].dispatched = d
          /\ [a EXCEPT !.map[c[1]] = p].dispatched = d
          /\ Dispatch(a, f, p).dispatched = Add(d, c, p)
        BY DEF AggregatorType, Dispatch, Add
    <2> HIDE DEF d, c, p
    <2>2. \/ b = a
          \/ b = [a EXCEPT !.dispatched[c] = Append(@, <<f>>)]
          \/ b = [a EXCEPT !.thrown = TRUE]
          \/ b = Dispatch(a, f, p)
          \/ b = [a EXCEPT !.map[c[1]] = p]
        BY DEF Aggregate, c, p
    <2> QED
        BY <2>1, <2>2 DEF d
<1> HIDE DEF d, c, p
<1>6. EndsSent(d, K)
    BY DEF d
<1>7. CASE b.dispatched = d
    BY <1>1, <1>6, <1>7, GrowsSame DEF d
<1>8. CASE b.dispatched = Add(d, c, <<f>>)
    <2>1. Len(<<f>>) >= 1 /\ Ended(<<f>>[Len(<<f>>)], K)
        BY <1>4
    <2>2. GrowsSent(b.dispatched, d, K)
        BY <1>1, <1>2, <1>4, <1>6, <1>8, <2>1, AddGrows
    <2> QED
        BY <2>2 DEF d
<1>9. CASE b.dispatched = Add(d, c, p)
    <2>1. GrowsSent(b.dispatched, d, K)
        BY <1>1, <1>2, <1>3, <1>6, <1>9, AddGrows
    <2> QED
        BY <2>1 DEF d
<1> QED
    BY <1>5, <1>7, <1>8, <1>9

\* So does a whole event.
LEMMA AggregateAllGrows ==
    ASSUME NEW F, NEW E, NEW x, NEW r, NEW m, NEW po,
           Ready(F, Now, E, x, r, m, po), AggregateAll(F),
           NEW K, \A f \in E : Ended(f, K), EndsSent(dispatched, K)
    PROVE  GrowsSent(dispatched', dispatched, K)
<1> DEFINE N == Len(F)
           a == Now
           run == CHOOSE q : IsRun(a, F, N, q)
<1>0. N \in Nat /\ F \in Seq(Frame)
    BY LenProperties DEF Ready
<1>1. IsRun(a, F, N, run)
    <2>1. \E q : IsRun(a, F, N, q)
        BY <1>0, RunExists
    <2> QED
        BY <2>1, Zenon
<1>2. dispatched' = run[N].dispatched
    BY DEF AggregateAll, IsRun, Now
<1> HIDE DEF run
<1>3. \A n \in 0 .. N : AggregatorType(run[n])
    <2>1. \A n \in 0 .. N : Reached(run[n], Past(F, n), Now, E, x, r, m, po)
        BY <1>1, RunReaches
    <2> QED
        BY <2>1 DEF Reached, Aggregated
<1>4. /\ run[0] = Now
      /\ \A n \in 0 .. N : n # 0 => run[n] = Aggregate(run[n - 1], F[n])
    BY <1>0, <1>1 DEF IsRun
<1>5. Now.dispatched = dispatched
    BY DEF Now
<1> DEFINE C == {n \in Nat : n <= N => GrowsSent(run[n].dispatched, dispatched, K)}
<1>6. \A n \in 0 .. N : run[n].dispatched \in [Channels -> Seq(Seq(Frame))]
    BY <1>3 DEF AggregatorType
<1>7. 0 \in C
    <2>1. dispatched \in [Channels -> Seq(Seq(Frame))]
        BY <1>0, <1>4, <1>5, <1>6
    <2>2. GrowsSent(dispatched, dispatched, K)
        BY <2>1, GrowsSame
    <2> QED
        BY <1>4, <1>5, <2>2
<1>8. ASSUME NEW n \in C PROVE n + 1 \in C
    <2>1. CASE n + 1 <= N
        <3>1. n \in 0 .. N /\ n + 1 \in 1 .. N /\ n + 1 \in 0 .. N /\ 0 \in 0 .. N
            BY <1>0, <2>1
        <3>2. run[n + 1] = Aggregate(run[n], F[n + 1])
            BY <1>4, <3>1
        <3>3. F[n + 1] \in Within(F) /\ F[n + 1] \in Frame
            BY <1>0, <3>1, WithinIs
        <3>4. Ended(F[n + 1], K)
            BY <3>3 DEF Ready
        <3>5. GrowsSent(run[n].dispatched, dispatched, K)
            BY <1>0, <3>1
        <3>6. EndsSent(run[n].dispatched, K) /\ AggregatorType(run[n])
            BY <1>3, <3>1, <3>5 DEF GrowsSent
        <3>7. GrowsSent(run[n + 1].dispatched, run[n].dispatched, K)
            BY <3>2, <3>3, <3>4, <3>6, AggregateGrows
        <3>8. dispatched \in [Channels -> Seq(Seq(Frame))]
            BY <1>4, <1>5, <1>6, <3>1
        <3>9. GrowsSent(run[n + 1].dispatched, dispatched, K)
            BY <1>6, <3>1, <3>5, <3>7, <3>8, GrowsMore
        <3> QED
            BY <3>9
    <2> QED
        BY <2>1
<1> HIDE DEF C
<1>9. C = Nat
    BY <1>7, <1>8, Induction DEF C
<1> QED
    BY <1>0, <1>2, <1>9 DEF C

-----------------------------------------------------------------------------
(***************************************************************************)
(* What is on the way or dispatched and ends a message has been sent.      *)
(***************************************************************************)
EndSent == (\A f \in InWay : Ended(f, SentWhole)) /\ EndsSent(dispatched, SentWhole)

\* A frame that ends a message is the one that completes it.
LEMMA PhoneCompletes ==
    ASSUME TypesIn, NEW c \in Channels, NEW last \in BOOLEAN, PhoneSends(c, last)
    PROVE  SentWhole' = IF last THEN [SentWhole EXCEPT ![c] = @ + 1] ELSE SentWhole
<1> DEFINE first == ~phone.open[c[1]]
           n == phone.messages[c] + (IF first THEN 1 ELSE 0)
<1>1. /\ phone'.messages = [phone.messages EXCEPT ![c] = n]
      /\ phone'.open = [phone.open EXCEPT ![c[1]] = ~last]
      /\ (~c[2] => last) /\ (~c[2] => ~phone.open[c[1]])
    BY DEF PhoneSends
<1>2. /\ phone.messages \in [Channels -> Nat] /\ phone.open \in [Services -> BOOLEAN]
    BY MessagePipelineAssumption DEF TypesIn
<1>3. ASSUME NEW b \in Channels
      PROVE  Completed(b)' = IF last /\ b = c THEN Completed(b) + 1 ELSE Completed(b)
    <2>1. /\ phone'.messages[b] = IF b = c THEN n ELSE phone.messages[b]
          /\ phone.messages[b] \in Nat /\ phone.messages[c] \in Nat
        BY <1>1, <1>2
    <2>2. CASE ~b[2]
        <3>1. Completed(b)' = phone'.messages[b] /\ Completed(b) = phone.messages[b]
            BY <2>1, <2>2 DEF Completed
        <3> QED
            BY <1>1, <2>1, <2>2, <3>1
    <2>3. CASE b[2] /\ b[1] = c[1] /\ b = c
        <3>1. b[1] \in Services
            BY <2>3, ChannelsAre
        <3>2. phone'.open[b[1]] = ~last /\ phone.open[b[1]] = ~first /\ phone.open[b[1]] \in BOOLEAN
            BY <1>1, <1>2, <2>3, <3>1
        <3>3. Completed(b)' = n - (IF last THEN 0 ELSE 1)
            BY <2>1, <2>3, <3>2 DEF Completed
        <3>4. Completed(b) = phone.messages[b] - (IF first THEN 0 ELSE 1)
            BY <2>3, <3>2 DEF Completed
        <3>5. n = phone.messages[b] + (IF first THEN 1 ELSE 0)
            BY <2>3
        <3> QED
            BY <2>1, <2>3, <3>3, <3>4, <3>5
    <2>4. CASE b[2] /\ b # c
        <3>1. b[1] \in Services /\ b = Own(b[1])
            BY <2>4, ChannelsAre
        <3>2. CASE b[1] # c[1]
            <4>1. phone'.open[b[1]] = phone.open[b[1]]
                BY <1>1, <1>2, <3>1, <3>2
            <4> QED
                BY <2>1, <2>4, <4>1 DEF Completed
        <3>3. CASE b[1] = c[1]
            <4>1. ~c[2]
                BY <2>4, <3>1, <3>3, ChannelsAre
            <4>2. last /\ ~phone.open[c[1]]
                BY <1>1, <4>1
            <4>3. ~phone'.open[b[1]] /\ ~phone.open[b[1]]
                BY <1>1, <1>2, <3>1, <3>3, <4>2
            <4> QED
                BY <2>1, <2>4, <4>3 DEF Completed
        <3> QED
            BY <3>2, <3>3
    <2> QED
        BY <2>2, <2>3, <2>4
<1> QED
    BY <1>3 DEF SentWhole

\* It does not end a message that has not been sent.
LEMMA SendsEnd ==
    ASSUME NEW f, Sends(f, session, phone.record, phone.messages, phone.open,
                        phone'.record, phone'.messages, phone'.open)
    PROVE  Ended(f, SentWhole')
<1>1. f \in Frame /\ f.channel \in Channels /\ f.msg \in Nat /\ f.last \in BOOLEAN
    BY FrameIs DEF Sends
<1>2. phone'.messages[f.channel] = f.msg
    BY <1>1 DEF Sends
<1>3. ASSUME f.last, f.channel[2] PROVE ~phone'.open[f.channel[1]]
    <2>1. f.channel[1] \in Services /\ f.channel = Own(f.channel[1])
        BY <1>1, <1>3, ChannelsAre
    <2> QED
        BY <1>3, <2>1 DEF Sends, Encrypted
<1>4. f.last => (SentWhole[f.channel])' = f.msg
    BY <1>1, <1>2, <1>3 DEF SentWhole, Completed
<1> QED
    BY <1>1, <1>4 DEF Ended

\* A message that is open has been begun.
LEMMA CompletedIs ==
    ASSUME TypesIn, Counts
    PROVE  SentWhole \in [Channels -> Nat]
<1> SUFFICES ASSUME NEW c \in Channels PROVE Completed(c) \in Nat
    BY DEF SentWhole
<1>1. phone.messages[c] \in Nat
    BY MessagePipelineAssumption DEF TypesIn
<1>2. c[2] /\ phone.open[c[1]] => phone.messages[c] >= 1
    BY ChannelsAre DEF Counts
<1> QED
    BY <1>1, <1>2 DEF Completed

\* At first there is nothing.
LEMMA InitEndSent == ASSUME Init PROVE EndSent
<1>1. mutex["decrypt"] = <<>> /\ buffer = <<>> /\ wire = <<>>
      /\ dispatched = [c \in Channels |-> <<>>]
    BY DEF Init, Directions
<1>2. InWay = {}
    <2>1. Waits = <<>> /\ Stream = <<>>
        BY <1>1 DEF Waits, Tasks, Stream
    <2> QED
        BY <2>1 DEF InWay, OnWay, InTasks, Within
<1> QED
    BY <1>1, <1>2 DEF EndSent, EndsSent

\* Between sessions nothing is on the way.
LEMMA StartEndSent == ASSUME WayIn, Start PROVE EndSent'
<1>1. /\ ~started /\ wire' = wire /\ buffer' = buffer /\ mutex' = mutex /\ stuck' = stuck
      /\ dispatched' = [c \in Channels |-> <<>>]
    BY DEF Start
<1>2. wire = <<>> /\ buffer = <<>> /\ Waits = <<>>
    BY <1>1 DEF WayIn, IdleIn
<1>3. Waits' = <<>> /\ Stream' = <<>>
    BY <1>1, <1>2 DEF Waits, Stream
<1>4. InWay' = {}
    BY <1>3 DEF InWay, OnWay, InTasks, Within
<1> QED
    BY <1>1, <1>4 DEF EndSent, EndsSent

\* A stop takes what is on the way and nothing else.
LEMMA StopEndSent == ASSUME EndSent, Stop PROVE EndSent'
<1>1. wire' = <<>> /\ buffer' = <<>> /\ dispatched' = dispatched /\ phone' = phone
    BY DEF Stop, CodecsStop
<1>2. Waits' = <<>> /\ Stream' = <<>>
    BY <1>1 DEF Stop, Directions, Waits, Tasks, Stream
<1>3. InWay' = {}
    BY <1>2 DEF InWay, OnWay, InTasks, Within
<1>4. SentWhole' = SentWhole
    BY <1>1 DEF SentWhole, Completed
<1> QED
    BY <1>1, <1>3, <1>4 DEF EndSent, EndsSent

\* More has been sent.
LEMMA EndedMore ==
    ASSUME NEW K \in [Channels -> Nat], NEW L \in [Channels -> Nat],
           \A c \in Channels : K[c] <= L[c], NEW f \in Frame, Ended(f, K)
    PROVE  Ended(f, L)
<1>1. f.channel \in Channels /\ f.msg \in Nat
    BY FrameIs
<1>2. K[f.channel] \in Nat /\ L[f.channel] \in Nat /\ K[f.channel] <= L[f.channel]
    BY <1>1
<1> QED
    BY <1>1, <1>2 DEF Ended

\* The frame of the phone joins what is on the way.
LEMMA PhoneEndSent ==
    ASSUME WayIn, EndSent, NEW c \in Channels, NEW last \in BOOLEAN, PhoneSends(c, last)
    PROVE  EndSent'
<1>1. TypesIn /\ Counts /\ IdleIn /\ KeptIn
    BY DEF WayIn
<1>2. PICK f \in Frame :
        /\ Sends(f, session, phone.record, phone.messages, phone.open,
                 phone'.record, phone'.messages, phone'.open)
        /\ wire' = wire \o Bytes(f) /\ TypesIn' /\ Counts'
    BY <1>1, PhoneFrame
<1>3. /\ SentWhole \in [Channels -> Nat] /\ SentWhole' \in [Channels -> Nat]
      /\ \A b \in Channels : SentWhole[b] <= SentWhole'[b]
    <2>1. SentWhole \in [Channels -> Nat]
        BY <1>1, CompletedIs
    <2>2. SentWhole' = IF last THEN [SentWhole EXCEPT ![c] = @ + 1] ELSE SentWhole
        BY <1>1, PhoneCompletes
    <2> HIDE DEF SentWhole
    <2> QED
        BY <2>1, <2>2
<1>4. buffer' = buffer /\ mutex' = mutex /\ stuck' = stuck /\ dispatched' = dispatched
    BY DEF PhoneSends
<1>5. /\ Stream \in Seq(Frame) /\ Whole(Stream) /\ InWay \subseteq Frame
      /\ \A g \in Within(Stream) : Less(g, f)
      /\ dispatched \in [Channels -> Seq(Seq(Frame))]
    <2>1. /\ Stream \in Seq(Frame) /\ Lined(Waits, Stream, record)
          /\ OnTheWay(InWay, session, phone.record, phone.messages)
          /\ Aggregated(Now, InWay, session, phone.record, phone.messages)
        BY <1>1 DEF KeptIn, Kept, InWay
    <2>2. \A g \in InWay : Less(g, f)
        BY <1>2, <2>1, AfterAll
    <2> QED
        BY <2>1, <2>2 DEF Lined, OnTheWay, InWay, OnWay, Aggregated, AggregatorType, Now
<1>6. InWay' = InWay \cup {f}
    <2>1. Stream' = Stream \o Bytes(f)
        <3>1. buffer \in Seq(Frame) /\ wire \in Seq(Frame) /\ Bytes(f) \in Seq(Frame)
            BY <1>1, BytesAre DEF TypesIn
        <3> QED
            BY <1>2, <1>4, <3>1 DEF Stream
    <2>2. Within(Stream') = Within(Stream) \cup {f}
        BY <1>5, <2>1, StreamMore
    <2>3. Waits' = Waits
        BY <1>4 DEF Waits
    <2> QED
        BY <2>2, <2>3 DEF InWay, OnWay
<1>7. Ended(f, SentWhole')
    BY <1>2, SendsEnd
<1>8. \A g \in Frame : Ended(g, SentWhole) => Ended(g, SentWhole')
    BY <1>3, EndedMore
<1>9. EndsSent(dispatched, SentWhole')
    <2> SUFFICES ASSUME NEW b \in Channels, NEW i \in 1 .. Len(dispatched[b]),
                        NEW p, p = dispatched[b][i]
                 PROVE  Len(p) >= 1 /\ Ended(p[Len(p)], SentWhole')
        BY DEF EndsSent
    <2>1. Len(p) >= 1 /\ Ended(p[Len(p)], SentWhole)
        BY DEF EndSent, EndsSent
    <2>2. p \in Seq(Frame)
        BY <1>5
    <2>3. p[Len(p)] \in Frame
        BY <2>1, <2>2
    <2> QED
        BY <1>8, <2>1, <2>3
<1> QED
    BY <1>4, <1>5, <1>6, <1>7, <1>8, <1>9 DEF EndSent

\* What a step of the transport or the engine may do to the messages.
Dispatching == GrowsSent(dispatched', dispatched, SentWhole) /\ EndSent'

\* It only takes frames from the way.
LEMMA FewerEndSent ==
    ASSUME EndSent, InWay' \subseteq InWay, phone' = phone,
           GrowsSent(dispatched', dispatched, SentWhole)
    PROVE  Dispatching
<1>1. SentWhole' = SentWhole
    BY DEF SentWhole, Completed
<1>2. (\A f \in InWay : Ended(f, SentWhole)) /\ EndsSent(dispatched', SentWhole)
    BY DEF EndSent, GrowsSent
<1>3. \A f \in InWay' : Ended(f, SentWhole')
    BY <1>1, <1>2, Zenon
<1>4. EndsSent(dispatched, SentWhole)'
    BY <1>1, <1>2
<1> QED
    BY <1>3, <1>4 DEF Dispatching, EndSent

\* Messages are dispatched in order.
LEMMA DispatchedType ==
    ASSUME WayIn
    PROVE  /\ dispatched \in [Channels -> Seq(Seq(Frame))]
           /\ Dispatches(dispatched, session)
BY DEF WayIn, KeptIn, Kept, Aggregated, AggregatorType, Now

\* An event takes its frames from the stream, and they wait or are aggregated.
LEMMA EventDispatches ==
    ASSUME IInv, WayIn, EndSent, NEW n \in 1 .. Len(wire), TransportData(n)
    PROVE  Dispatching
<1>1. TypesIn /\ KeptIn
    BY DEF WayIn
<1>2. PICK F : /\ Splits(F, Waits, Stream, Stream', record)
               /\ F = DecodeBuffer(buffer \o SubSeq(wire, 1, n)).frames
    BY EventSplits
<1>3. stuck' = stuck /\ phone' = phone
    BY DEF TransportData
<1>4. F \in Seq(Frame) /\ Within(Stream) = Within(F) \cup Within(Stream')
    BY <1>2 DEF Splits
<1>5. Kept(Now, Waits, Stream, record, session, phone.record, phone.messages,
           phone.open, Going)
    BY <1>1 DEF KeptIn
<1>6. dispatched \in [Channels -> Seq(Seq(Frame))] /\ EndsSent(dispatched, SentWhole)
    BY DispatchedType DEF EndSent
<1>7. CASE HasMore([frames |-> F], 1)
    <2>1. mutex' = [mutex EXCEPT !["decrypt"] = Acquire(@, F, 1)] /\ dispatched' = dispatched
        BY <1>2, <1>7 DEF TransportData
    <2>2. DOMAIN mutex = Directions /\ "decrypt" \in Directions
        BY DEF IInv, Types, Directions
    <2>3. mutex'["decrypt"] = Acquire(mutex["decrypt"], F, 1)
        BY <2>1, <2>2
    <2>4. PICK k : /\ IsNext(k, F, 1)
                   /\ Acquire(mutex["decrypt"], F, 1)
                        = Append(mutex["decrypt"], [frames |-> F, next |-> k])
        <3>1. 1 \in Nat \ {0}
            OBVIOUS
        <3> QED
            BY <1>4, <1>7, <3>1, AcquireGives, Zenon
    <2>5. InWay' \subseteq InWay
        <3>1. CASE stuck["decrypt"]
            <4>1. Waits' = Waits
                BY <1>3, <3>1 DEF Waits, Tasks
            <4> QED
                BY <1>4, <4>1 DEF InWay, OnWay
        <3>2. CASE ~stuck["decrypt"]
            <4>1. Waits = mutex["decrypt"] /\ Waits' = Append(Waits, [frames |-> F, next |-> k])
                BY <1>3, <2>3, <2>4, <3>2 DEF Waits, Tasks
            <4>2. Queue(Waits)
                BY <1>5 DEF Kept
            <4>3. LinedWith(Waits', Stream', record, OnWay(Waits, Stream))
                BY <1>2, <2>4, <4>1, <4>2, LinedEvent
            <4> QED
                BY <4>3 DEF LinedWith, InWay
        <3> QED
            BY <3>1, <3>2
    <2>6. GrowsSent(dispatched', dispatched, SentWhole)
        BY <1>6, <2>1, GrowsSame
    <2> QED
        BY <1>3, <2>5, <2>6, FewerEndSent
<1>8. CASE ~HasMore([frames |-> F], 1)
    <2>1. AggregateAll(F) /\ mutex' = mutex
        BY <1>2, <1>8 DEF TransportData
    <2>2. \A i \in 1 .. Len(F) : ~Encrypted(F[i])
        BY <1>8 DEF HasMore, ToDecrypt
    <2>3. Ready(F, Now, InWay, session, phone.record, phone.messages, phone.open)
        BY <1>2, <1>5, <2>2, PlainReady DEF InWay
    <2>4. GrowsSent(dispatched', dispatched, SentWhole)
        BY <1>6, <2>1, <2>3, AggregateAllGrows DEF EndSent
    <2>5. InWay' \subseteq InWay
        <3>1. Waits' = Waits
            BY <1>3, <2>1 DEF Waits
        <3> QED
            BY <1>4, <3>1 DEF InWay, OnWay
    <2> QED
        BY <1>3, <2>4, <2>5, FewerEndSent
<1> QED
    BY <1>7, <1>8

\* An answer of the engine lets its task wait again or be aggregated.
LEMMA DecryptedDispatches ==
    ASSUME IInv, WayIn, EndSent, Decrypted
    PROVE  Dispatching
<1> DEFINE q == mutex["decrypt"]
           F == q[1].frames
           i == q[1].next
<1>1. TypesIn /\ KeptIn
    BY DEF WayIn
<1>2. /\ ~stuck["decrypt"] /\ q # <<>> /\ started
      /\ phone' = phone /\ wire' = wire /\ buffer' = buffer /\ stuck' = stuck
    BY DEF Decrypted
<1>3. Queue(q) /\ record \in Nat
    BY <1>1 DEF TypesIn
<1>4. WithoutHead(Tail(q), q)
    BY <1>2, <1>3, QueueLess
<1>5. Queue(Tail(q)) /\ Head(q) = q[1] /\ 1 \in 1 .. Len(q)
    BY <1>4 DEF WithoutHead
<1>6. F \in Seq(Frame) /\ i \in 1 .. Len(F) /\ i \in Nat
    BY <1>3, <1>5, TaskIs
<1>7. F[i].record = record + 1
    BY <1>5 DEF Decrypted
<1>8. Going /\ Waits = q
    BY <1>2 DEF Going, Waits, Tasks
<1>9. DOMAIN mutex = Directions /\ "decrypt" \in Directions
    BY DEF IInv, Types, Directions
<1>10. Stream' = Stream /\ Stream \in Seq(Frame) /\ Lined(q, Stream, record)
    BY <1>1, <1>2, <1>8 DEF Stream, KeptIn, Kept
<1>11. Kept(Now, q, Stream, record, session, phone.record, phone.messages, phone.open, Going)
    BY <1>1, <1>8 DEF KeptIn
<1>12. Waits' = mutex'["decrypt"]
    BY <1>2 DEF Waits, Tasks
<1>13. dispatched \in [Channels -> Seq(Seq(Frame))] /\ EndsSent(dispatched, SentWhole)
    BY DispatchedType DEF EndSent
<1>14. InWay = OnWay(q, Stream) /\ InWay' = OnWay(mutex'["decrypt"], Stream)
    BY <1>8, <1>10, <1>12 DEF InWay
<1>15. CASE HasMore(q[1], i + 1)
    <2>1. /\ mutex' = [mutex EXCEPT !["decrypt"] = Acquire(Tail(q), F, i + 1)]
          /\ dispatched' = dispatched
        BY <1>5, <1>15 DEF Decrypted
    <2>2. mutex'["decrypt"] = Acquire(Tail(q), F, i + 1)
        BY <1>9, <2>1
    <2>3. HasMore([frames |-> F], i + 1) /\ i + 1 \in Nat \ {0}
        BY <1>6, <1>15 DEF HasMore, ToDecrypt
    <2>4. F = q[1].frames /\ i = q[1].next
        OBVIOUS
    <2> HIDE DEF q, F, i
    <2>5. PICK k : /\ IsNext(k, F, i + 1)
                   /\ Acquire(Tail(q), F, i + 1) = Append(Tail(q), [frames |-> F, next |-> k])
        BY <1>6, <2>3, AcquireGives
    <2>6. F[q[1].next].record = record + 1 /\ IsNext(k, F, q[1].next + 1)
        BY <1>7, <2>4, <2>5
    <2>7. LinedWith(mutex'["decrypt"], Stream, record + 1, OnWay(q, Stream))
        BY <1>2, <1>3, <1>10, <2>2, <2>4, <2>5, <2>6, LinedAgain
    <2>8. InWay' = InWay
        BY <1>14, <2>7 DEF LinedWith
    <2>9. GrowsSent(dispatched', dispatched, SentWhole)
        BY <1>13, <2>1, GrowsSame
    <2> QED
        BY <1>2, <2>8, <2>9, FewerEndSent
<1>16. CASE ~HasMore(q[1], i + 1)
    <2>1. mutex' = [mutex EXCEPT !["decrypt"] = Tail(q)] /\ AggregateAll(F)
        BY <1>5, <1>16 DEF Decrypted
    <2>2. mutex'["decrypt"] = Tail(q)
        BY <1>9, <2>1
    <2>3. F = q[1].frames /\ F[q[1].next].record = record + 1
        BY <1>7
    <2> HIDE DEF q, F, i
    <2>4. Leads(F, q, Tail(q), Stream, record + 1)
        BY <1>2, <1>3, <1>10, <2>3, LinedDone
    <2>5. Ready(F, Now, InWay, session, phone.record, phone.messages, phone.open)
        BY <1>8, <1>11, <1>14, <2>4, DoneReady
    <2>6. GrowsSent(dispatched', dispatched, SentWhole)
        BY <1>13, <2>1, <2>5, AggregateAllGrows DEF EndSent
    <2>7. InWay' \subseteq InWay
        BY <1>14, <2>2, <2>4 DEF Leads, LinedWith
    <2> QED
        BY <1>2, <2>6, <2>7, FewerEndSent
<1> QED
    BY <1>15, <1>16

\* The way out leaves it alone.
LEMMA OutEndSent ==
    ASSUME EndSent, incoming' = incoming, stuck' = stuck, mutex'["decrypt"] = mutex["decrypt"]
    PROVE  EndSent'
<1>1. /\ phone' = phone /\ wire' = wire /\ buffer' = buffer /\ dispatched' = dispatched
    BY DEF incoming
<1>2. Waits' = Waits /\ Stream' = Stream /\ SentWhole' = SentWhole
    BY <1>1 DEF Waits, Stream, SentWhole, Completed
<1>3. InWay' = InWay
    BY <1>2 DEF InWay
<1> QED
    BY <1>1, <1>2, <1>3 DEF EndSent

-----------------------------------------------------------------------------
(***************************************************************************)
(* The way in implements the streams of messages.                          *)
(***************************************************************************)
Received == [c \in Channels |-> Numbers(c)]

\* The numbers of messages in their order.
NumbersOf(q) == [i \in DOMAIN q |-> q[i][1].msg]

LEMMA NumbersAre ==
    ASSUME NEW q \in Seq(Seq(Frame)), \A i \in 1 .. Len(q) : Len(q[i]) >= 1
    PROVE  /\ NumbersOf(q) \in Seq(Nat) /\ Len(NumbersOf(q)) = Len(q) /\ Len(q) \in Nat
           /\ DOMAIN NumbersOf(q) = 1 .. Len(q)
           /\ \A i \in 1 .. Len(q) : NumbersOf(q)[i] = q[i][1].msg
<1>1. DOMAIN q = 1 .. Len(q) /\ Len(q) \in Nat
    OBVIOUS
<1>2. ASSUME NEW i \in 1 .. Len(q) PROVE q[i][1].msg \in Nat
    <2>1. q[i] \in Seq(Frame) /\ Len(q[i]) >= 1
        OBVIOUS
    <2>2. q[i][1] \in Frame
        BY <2>1
    <2> QED
        BY <2>2, FrameIs
<1>3. NumbersOf(q) \in [1 .. Len(q) -> Nat]
    BY <1>1, <1>2 DEF NumbersOf
<1>4. NumbersOf(q) \in Seq(Nat)
    <2>1. PICK n \in Nat : NumbersOf(q) \in [1 .. n -> Nat]
        BY <1>1, <1>3
    <2> QED
        BY <2>1
<1>5. Len(NumbersOf(q)) = Len(q)
    <2>1. DOMAIN NumbersOf(q) = 1 .. Len(NumbersOf(q)) /\ Len(NumbersOf(q)) \in Nat
        BY <1>4, LenProperties
    <2>2. DOMAIN NumbersOf(q) = 1 .. Len(q)
        BY <1>3
    <2>3. \A m, n \in Nat : 1 .. m = 1 .. n => m = n
        <3> SUFFICES ASSUME NEW m \in Nat, NEW n \in Nat, 1 .. m = 1 .. n PROVE m = n
            OBVIOUS
        <3>1. (m \in 1 .. m => m \in 1 .. n) /\ (n \in 1 .. n => n \in 1 .. m)
            OBVIOUS
        <3> QED
            BY <3>1
    <2> QED
        BY <1>1, <2>1, <2>2, <2>3
<1> QED
    BY <1>1, <1>3, <1>4, <1>5 DEF NumbersOf

\* Numbers a stream may have received.
LegalNumbers(r, c, K) ==
    /\ \A i \in DOMAIN r : r[i] \in 1 .. K[c]
    /\ c[2] => \A i \in DOMAIN r : r[i] = i
    /\ \A i, j \in DOMAIN r : r[i] = r[j] => i = j

\* Messages in order that have been sent are what a stream may receive.
LEMMA NumbersLegal ==
    ASSUME NEW d \in [Channels -> Seq(Seq(Frame))], NEW x, Dispatches(d, x),
           NEW K \in [Channels -> Nat], EndsSent(d, K), NEW c \in Channels,
           NEW r, r = NumbersOf(d[c])
    PROVE  LegalNumbers(r, c, K)
<1> DEFINE q == d[c]
<1>1. q \in Seq(Seq(Frame)) /\ InOrder(q, c, x)
    BY DEF Dispatches
<1>2. \A i \in 1 .. Len(q) : Len(q[i]) >= 1
    BY DEF EndsSent
<1>3. /\ DOMAIN r = 1 .. Len(q) /\ Len(q) \in Nat
      /\ \A i \in 1 .. Len(q) : r[i] = q[i][1].msg
    BY <1>1, <1>2, NumbersAre
<1>4. ASSUME NEW i \in 1 .. Len(q) PROVE r[i] \in 1 .. K[c]
    <2> DEFINE p == q[i]
    <2>1. p \in Seq(Frame) /\ Len(p) \in Nat /\ Len(p) >= 1 /\ Len(p) \in 1 .. Len(p)
        BY <1>1, <1>2
    <2>2. MessageOf(p, c, x) /\ Ended(p[Len(p)], K)
        BY <1>1 DEF InOrder, EndsSent
    <2>3. p[1] \in Frame
        BY <2>1
    <2>4. p[Len(p)].channel = c /\ p[Len(p)].msg = p[1].msg /\ p[Len(p)].last = (Len(p) = Len(p))
        BY <2>1, <2>2 DEF MessageOf
    <2>5. p[1].msg <= K[c]
        BY <2>2, <2>4 DEF Ended
    <2>6. p[1].msg \in Nat \ {0} /\ K[c] \in Nat
        BY <2>3, FrameIs
    <2> QED
        BY <1>3, <2>5, <2>6
<1>5. ASSUME c[2], NEW i \in 1 .. Len(q) PROVE r[i] = i
    BY <1>1, <1>3, <1>5 DEF InOrder
<1>6. ASSUME NEW i \in 1 .. Len(q), NEW j \in 1 .. Len(q), r[i] = r[j] PROVE i = j
    <2>1. CASE i < j
        <3>1. i \in 1 .. j - 1
            BY <2>1
        <3> QED
            BY <1>1, <1>3, <1>6, <3>1 DEF InOrder
    <2>2. CASE j < i
        <3>1. j \in 1 .. i - 1
            BY <2>2
        <3> QED
            BY <1>1, <1>3, <1>6, <3>1 DEF InOrder
    <2> QED
        BY <1>3, <2>1, <2>2
<1> QED
    BY <1>3, <1>4, <1>5, <1>6 DEF LegalNumbers

\* More messages are more numbers.
LEMMA NumbersMore ==
    ASSUME NEW q \in Seq(Seq(Frame)), \A i \in 1 .. Len(q) : Len(q[i]) >= 1,
           NEW p \in Seq(Seq(Frame)), \A i \in 1 .. Len(p) : Len(p[i]) >= 1,
           Len(q) <= Len(p), \A i \in 1 .. Len(q) : p[i] = q[i]
    PROVE  Streams!Continues(NumbersOf(p), NumbersOf(q))
<1>1. /\ Len(NumbersOf(q)) = Len(q) /\ Len(q) \in Nat
      /\ \A i \in 1 .. Len(q) : NumbersOf(q)[i] = q[i][1].msg
    BY NumbersAre
<1>2. /\ Len(NumbersOf(p)) = Len(p) /\ Len(p) \in Nat
      /\ \A i \in 1 .. Len(p) : NumbersOf(p)[i] = p[i][1].msg
    BY NumbersAre
<1>3. \A i \in 1 .. Len(q) : i \in 1 .. Len(p)
    BY <1>1, <1>2
<1>4. \A i \in 1 .. Len(q) : NumbersOf(p)[i] = NumbersOf(q)[i]
    BY <1>1, <1>2, <1>3
<1> HIDE DEF NumbersOf
<1> QED
    BY <1>1, <1>2, <1>4 DEF Streams!Continues

\* An event of the transport or an answer of the engine receives messages.
LEMMA ReceiveStep ==
    ASSUME WayIn, EndSent, WayIn', Dispatching, started, started' = started, phone' = phone,
           session' = session
    PROVE  Streams!Receive
<1>1. /\ dispatched \in [Channels -> Seq(Seq(Frame))]
      /\ EndsSent(dispatched, SentWhole)
    BY DispatchedType DEF EndSent
<1>2. dispatched' \in [Channels -> Seq(Seq(Frame))] /\ Dispatches(dispatched', session)
    <2>1. Dispatches(dispatched, session)' /\ dispatched' \in [Channels -> Seq(Seq(Frame))]
        BY DEF WayIn, KeptIn, Kept, Aggregated, AggregatorType, Now
    <2> QED
        BY <2>1
<1>3. Grows(dispatched', dispatched) /\ EndsSent(dispatched', SentWhole)
    BY DEF Dispatching, GrowsSent
<1>4. SentWhole \in [Channels -> Nat]
    BY CompletedIs DEF WayIn
<1>5. \A c \in Channels : Numbers(c) = NumbersOf(dispatched[c])
                          /\ Numbers(c)' = NumbersOf(dispatched'[c])
    BY DEF Numbers, NumbersOf
<1>6. ASSUME NEW c \in Channels
      PROVE  Streams!Continues(NumbersOf(dispatched'[c]), NumbersOf(dispatched[c]))
    BY <1>1, <1>2, <1>3, NumbersMore DEF Grows, EndsSent
<1>7. ASSUME NEW c \in Channels
      PROVE  Streams!Legal(c, NumbersOf(dispatched'[c]))
    <2> DEFINE r == NumbersOf(dispatched'[c])
    <2>0. r = NumbersOf(dispatched'[c])
        OBVIOUS
    <2> HIDE DEF r
    <2> DEFINE e == dispatched'
    <2>00. /\ e \in [Channels -> Seq(Seq(Frame))] /\ Dispatches(e, session)
           /\ EndsSent(e, SentWhole) /\ r = NumbersOf(e[c])
        BY <1>2, <1>3, <2>0
    <2> HIDE DEF e
    <2>1. LegalNumbers(r, c, SentWhole)
        BY <1>4, <2>00, NumbersLegal
    <2>2. c \in Services \X {TRUE} => c[2]
        OBVIOUS
    <2>3. Streams!IsInjective(r)
        BY <2>1 DEF LegalNumbers, Streams!IsInjective
    <2>4. Streams!Legal(c, r)
        BY <2>1, <2>2, <2>3 DEF LegalNumbers, Streams!Legal, SentWhole
    <2> QED
        BY <2>4 DEF r
<1>8. SentWhole' = SentWhole
    BY DEF SentWhole, Completed
<1>9. \A c \in Channels : /\ Streams!Continues(Received'[c], Received[c])
                          /\ Streams!Legal(c, Received'[c])
    BY <1>5, <1>6, <1>7 DEF Received
<1>10. DOMAIN Received' = Channels
    BY DEF Received
<1> QED
    BY <1>8, <1>9, <1>10 DEF Streams!Receive, Received, SentWhole

\* Initial states map to initial states.
LEMMA InitStreams == ASSUME Init PROVE Streams!Init
<1>1. /\ started = FALSE /\ phone = Quiet /\ dispatched = [c \in Channels |-> <<>>]
    BY DEF Init
<1>2. \A c \in Channels : Completed(c) = 0 /\ Numbers(c) = <<>>
    <2> SUFFICES ASSUME NEW c \in Channels PROVE Completed(c) = 0 /\ Numbers(c) = <<>>
        OBVIOUS
    <2>1. c[2] => c[1] \in Services
        BY ChannelsAre
    <2>2. phone.messages[c] = 0 /\ (c[2] => ~phone.open[c[1]])
        BY <1>1, <2>1, QuietIs
    <2>3. Completed(c) = 0
        <3>1. ~(c[2] /\ phone.open[c[1]])
            BY <2>2
        <3>2. Completed(c) = phone.messages[c] - 0
            BY <3>1 DEF Completed
        <3> QED
            BY <2>2, <3>2
    <2>4. Numbers(c) = <<>>
        <3>1. DOMAIN dispatched[c] = {}
            BY <1>1
        <3> QED
            BY <3>1 DEF Numbers
    <2> QED
        BY <2>3, <2>4
<1> QED
    BY <1>1, <1>2 DEF Streams!Init, Streams!NothingSent, Streams!NothingGot

\* Steps that neither send nor dispatch leave the streams alone.
LEMMA StreamsSame ==
    ASSUME phone' = phone, dispatched' = dispatched
    PROVE  /\ [c \in Channels |-> Completed(c)]' = [c \in Channels |-> Completed(c)]
           /\ [c \in Channels |-> Numbers(c)]' = [c \in Channels |-> Numbers(c)]
BY DEF Completed, Numbers

\* The dependencies start: nothing has been sent or dispatched.
LEMMA StartStreams == ASSUME Start PROVE Streams!Begin
<1>1. /\ ~started /\ started' = TRUE /\ phone' = Quiet
      /\ dispatched' = [c \in Channels |-> <<>>]
    BY DEF Start
<1>2. ASSUME NEW c \in Channels PROVE Completed(c)' = 0 /\ Numbers(c)' = <<>>
    <2>1. c[2] => c[1] \in Services
        BY ChannelsAre
    <2>2. phone'.messages[c] = 0 /\ (c[2] => ~phone'.open[c[1]])
        BY <1>1, <2>1, QuietIs
    <2>3. Completed(c)' = 0
        <3>1. ~(c[2] /\ phone'.open[c[1]])
            BY <2>2
        <3>2. Completed(c)' = phone'.messages[c] - 0
            BY <3>1 DEF Completed
        <3> QED
            BY <2>2, <3>2
    <2>4. Numbers(c)' = <<>>
        <3>1. DOMAIN dispatched'[c] = {}
            BY <1>1
        <3> QED
            BY <3>1 DEF Numbers
    <2> QED
        BY <2>3, <2>4
<1> QED
    BY <1>1, <1>2 DEF Streams!Begin, Streams!NothingSent, Streams!NothingGot

\* The phone sends a message with its last frame.
LEMMA PhoneStreams ==
    ASSUME TypesIn, NEW c \in Channels, NEW last \in BOOLEAN, PhoneSends(c, last)
    PROVE  Streams!Send(c) \/ UNCHANGED Streams!streamVars
<1>1. started /\ started' = started /\ dispatched' = dispatched
    BY DEF PhoneSends
<1>2. [b \in Channels |-> Numbers(b)]' = [b \in Channels |-> Numbers(b)]
    BY <1>1 DEF Numbers
<1>3. SentWhole' = IF last THEN [SentWhole EXCEPT ![c] = @ + 1] ELSE SentWhole
    BY PhoneCompletes
<1>4. SentWhole = [b \in Channels |-> Completed(b)]
    BY DEF SentWhole
<1>5. SentWhole' = [b \in Channels |-> Completed(b)]'
    BY DEF SentWhole
<1>6. CASE last
    BY <1>1, <1>2, <1>3, <1>4, <1>5, <1>6 DEF Streams!Send
<1>7. CASE ~last
    BY <1>1, <1>2, <1>3, <1>4, <1>5, <1>7 DEF Streams!streamVars
<1> QED
    BY <1>6, <1>7

StreamInv == Inv /\ EndSent

\* Every step of the pipeline keeps the invariant and is one of the streams.
LEMMA NextStreams ==
    ASSUME StreamInv, [Next]_vars
    PROVE  EndSent' /\ [Streams!Next]_(Streams!streamVars)
<1>1. IInv /\ WayIn /\ TypesOut /\ EndSent
    BY DEF StreamInv, Inv
<1>2. WayIn'
    BY <1>1, NextWayIn
<1>3. TypesIn
    BY <1>1 DEF WayIn
<1>4. DOMAIN mutex = Directions /\ "decrypt" \in Directions /\ "encrypt" # "decrypt"
    BY <1>1 DEF IInv, Types, Directions
<1>5. ASSUME incoming' = incoming, stuck' = stuck, started' = started,
             mutex'["decrypt"] = mutex["decrypt"]
      PROVE  EndSent' /\ UNCHANGED Streams!streamVars
    <2>1. EndSent'
        BY <1>1, <1>5, OutEndSent
    <2>2. phone' = phone /\ dispatched' = dispatched
        BY <1>5 DEF incoming
    <2>3. UNCHANGED Streams!streamVars
        BY <1>5, <2>2, StreamsSame DEF Streams!streamVars
    <2> QED
        BY <2>1, <2>3
<1>6. CASE Start
    <2>1. EndSent'
        BY <1>1, <1>6, StartEndSent
    <2> QED
        BY <1>6, <2>1, StartStreams DEF Streams!Next
<1>7. CASE Stop
    <2>1. EndSent'
        BY <1>1, <1>7, StopEndSent
    <2>2. started /\ started' = FALSE /\ phone' = phone /\ dispatched' = dispatched
        BY <1>7 DEF Stop
    <2>3. Streams!End
        BY <2>2, StreamsSame DEF Streams!End
    <2> QED
        BY <2>1, <2>3 DEF Streams!Next
<1>8. ASSUME NEW c \in Channels, NEW last \in BOOLEAN, PhoneSends(c, last)
      PROVE  EndSent' /\ [Streams!Next]_(Streams!streamVars)
    <2>1. EndSent'
        BY <1>1, <1>8, PhoneEndSent
    <2>2. Streams!Send(c) \/ UNCHANGED Streams!streamVars
        BY <1>3, <1>8, PhoneStreams
    <2> QED
        BY <2>1, <2>2 DEF Streams!Next
<1>9. ASSUME NEW n \in 1 .. Len(wire), TransportData(n)
      PROVE  EndSent' /\ [Streams!Next]_(Streams!streamVars)
    <2>1. Dispatching
        BY <1>1, <1>9, EventDispatches
    <2>2. started /\ started' = started /\ phone' = phone /\ session' = session
        BY <1>9 DEF TransportData
    <2>3. Streams!Receive
        BY <1>1, <1>2, <2>1, <2>2, ReceiveStep
    <2> QED
        BY <2>1, <2>3 DEF Dispatching, Streams!Next
<1>10. CASE Decrypted
    <2>1. Dispatching
        BY <1>1, <1>10, DecryptedDispatches
    <2>2. started /\ started' = started /\ phone' = phone /\ session' = session
        BY <1>10 DEF Decrypted
    <2>3. Streams!Receive
        BY <1>1, <1>2, <2>1, <2>2, ReceiveStep
    <2> QED
        BY <2>1, <2>3 DEF Dispatching, Streams!Next
<1>11. ASSUME NEW c \in Channels, SendMessage(c)
       PROVE  EndSent' /\ [Streams!Next]_(Streams!streamVars)
    <2>1. \/ mutex' = mutex
          \/ \E o : mutex' = [mutex EXCEPT !["encrypt"] = o]
        BY <1>11 DEF SendMessage
    <2>2. mutex'["decrypt"] = mutex["decrypt"]
        BY <1>4, <2>1
    <2> QED
        BY <1>5, <1>11, <2>2 DEF SendMessage
<1>12. CASE EncryptedFrame
    <2>1. mutex'["decrypt"] = mutex["decrypt"]
        BY <1>4, <1>12 DEF EncryptedFrame
    <2> QED
        BY <1>5, <1>12, <2>1 DEF EncryptedFrame
<1>13. CASE UNCHANGED vars
    BY <1>5, <1>13 DEF vars
<1> QED
    BY <1>6, <1>7, <1>8, <1>9, <1>10, <1>11, <1>12, <1>13 DEF Next

\* The way in implements MessageStreams for any number of services, sessions
\* and frames: on each channel more and more of the messages that the phone
\* has sent to the end are dispatched, none twice, and those of a service
\* without a gap, wherever the events of the transport end and whatever a
\* session before has left behind.
THEOREM ReceivesStreams == Spec => ImplementsStreams
<1>1. Init => Inv /\ EndSent
    BY InitIInv, InitWayIn, InitTypesOut, InitEndSent DEF Inv
<1>2. Init => Streams!Init
    BY InitStreams
<1>3. StreamInv /\ [Next]_vars => StreamInv' /\ [Streams!Next]_(Streams!streamVars)
    <2> SUFFICES ASSUME StreamInv, [Next]_vars
                 PROVE  StreamInv' /\ [Streams!Next]_(Streams!streamVars)
        OBVIOUS
    <2>1. Inv'
        BY NextIInv, NextWayIn, NextTypesOut DEF StreamInv, Inv
    <2> QED
        BY <2>1, NextStreams DEF StreamInv
<1>4. Init => StreamInv
    BY <1>1 DEF StreamInv
<1> QED
    BY <1>2, <1>3, <1>4, PTL DEF Spec, ImplementsStreams, Streams!StreamSpec

=============================================================================
