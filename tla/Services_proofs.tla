-------------------------- MODULE Services_proofs --------------------------
(***************************************************************************)
(* Proofs about three services of a session, and about the wire on which   *)
(* the messages of all of them travel.                                     *)
(*                                                                         *)
(* The control service: a wait for a message is always one of the session  *)
(* that runs, so that the timer of an earlier session has nothing left to  *)
(* abort, and nothing is encrypted before the handshake is complete.       *)
(*                                                                         *)
(* The input service, with the screen that sends it its events: the phone  *)
(* knows each finger that is on the canvas, where it is.                   *)
(*                                                                         *)
(* The video service: the configurations that the phone is offered fit any *)
(* display, whatever list of configurations the user has made.             *)
(*                                                                         *)
(* The wire: the messages of the phone arrive as they were sent, however   *)
(* they are split into frames, those of several services mixed, and the    *)
(* bytes cut into chunks.  What is sent to it is split so that it arrives  *)
(* as well, but the first frame of a message that needs several is lost.   *)
(***************************************************************************)
EXTENDS ControlSession, TouchScreen, VideoResolutions, FrameWire,
        FiniteSetTheorems, FunctionTheorems, NaturalsInduction, WellFoundedInduction,
        SequenceTheorems, TLAPS

\* The part of TypeOK that is about doStart and its waits.
TypeInv ==
    /\ pc \in Busy \cup {"off", "up", "failed"}
    /\ session \in Signals \cup {"none"}
    /\ round \in 0 .. Rounds
    /\ signal \in [Signals -> {"unused", "armed", "aborted"}]
    /\ callbacks \in [Awaited -> Signals \cup {"none"}]
    /\ listeners \subseteq [signal : Signals, id : Awaited]

\* Between two sessions there is no signal of a session only before the first.
SessionSet == pc \in Busy => session \in Signals

\* A listener is on a signal only as long as its callback is registered.
ListenersWait == \A l \in listeners : callbacks[l.id] = l.signal

SessionInv ==
    TypeInv /\ SessionSet /\ ListenersWait /\ WaitsAreCurrent /\ EncryptedAfterHandshake

\* The messages waited for, and where doStart waits for each.
LEMMA WaitingOf ==
    /\ Awaited = {"version", "ssl", "discovery"}
    /\ Waiting["version"] = "versionQuery"
    /\ Waiting["ssl"] = "handshake"
    /\ Waiting["discovery"] = "serviceDiscovery"
    /\ MessageId("versionOk") = "version"
    /\ MessageId("versionMismatch") = "version"
    /\ MessageId("ssl") = "ssl"
    /\ MessageId("discovery") = "discovery"
BY DEF Awaited, Waiting, MessageId

\* Whenever doStart is at no wait, no callback and no abort listener is registered.
LEMMA NothingRegistered ==
    ASSUME SessionInv, pc \notin {"versionQuery", "handshake", "serviceDiscovery"}
    PROVE  listeners = {} /\ callbacks = [m \in Awaited |-> "none"]
<1>1. \A m \in Awaited : callbacks[m] = "none"
  BY WaitingOf DEF SessionInv, WaitsAreCurrent
<1>2. \A l \in listeners : FALSE
  BY <1>1, ControlSessionAssumption DEF SessionInv, TypeInv, ListenersWait
<1>3. callbacks = [m \in Awaited |-> "none"]
  BY <1>1 DEF SessionInv, TypeInv
<1>4. QED
  BY <1>2, <1>3

\* While doStart waits for a message, its callback and its listener are the only ones.
LEMMA OnlyRegistered ==
    ASSUME SessionInv, NEW m \in Awaited, pc = Waiting[m]
    PROVE  /\ session \in Signals
           /\ callbacks = [i \in Awaited |-> IF i = m THEN session ELSE "none"]
           /\ listeners = {[signal |-> session, id |-> m]}
<1>1. session \in Signals
  BY WaitingOf DEF SessionInv, SessionSet, Busy
<1>2. callbacks[m] = session /\ [signal |-> session, id |-> m] \in listeners
  BY DEF SessionInv, WaitsAreCurrent
<1>3. \A i \in Awaited : i # m => callbacks[i] = "none"
  BY WaitingOf DEF SessionInv, WaitsAreCurrent
<1>4. callbacks = [i \in Awaited |-> IF i = m THEN session ELSE "none"]
  BY <1>2, <1>3 DEF SessionInv, TypeInv
<1>5. ASSUME NEW l \in listeners
      PROVE  l = [signal |-> session, id |-> m]
  <2>1. l.signal \in Signals /\ l.id \in Awaited /\ l = [signal |-> l.signal, id |-> l.id]
    BY DEF SessionInv, TypeInv
  <2>2. callbacks[l.id] = l.signal
    BY DEF SessionInv, ListenersWait
  <2>3. l.id = m
    BY <1>3, <2>1, <2>2, ControlSessionAssumption
  <2>4. QED
    BY <1>2, <2>1, <2>2, <2>3
<1>6. QED
  BY <1>1, <1>2, <1>4, <1>5

\* A registration: doStart moves from where it waits for nothing to a wait.
LEMMA Registers ==
    ASSUME SessionInv, pc \notin {"versionQuery", "handshake", "serviceDiscovery"},
           NEW s \in Signals, session' = s,
           NEW m \in Awaited, WaitFor(m, s), pc' = Waiting[m]
    PROVE  /\ callbacks' \in [Awaited -> Signals \cup {"none"}]
           /\ listeners' \subseteq [signal : Signals, id : Awaited]
           /\ ListenersWait'
           /\ WaitsAreCurrent'
<1>1. /\ callbacks' = [i \in Awaited |-> IF i = m THEN s ELSE "none"]
      /\ listeners' = {[signal |-> s, id |-> m]}
  BY NothingRegistered DEF WaitFor
<1>2. ListenersWait'
  BY <1>1 DEF ListenersWait
<1>3. WaitsAreCurrent'
  BY <1>1, WaitingOf, ControlSessionAssumption DEF WaitsAreCurrent
<1>4. QED
  BY <1>1, <1>2, <1>3

\* The end of a wait, by the message or by the timer.
LEMMA Unregisters ==
    ASSUME TypeInv, callbacks' = [i \in Awaited |-> "none"], listeners' = {},
           pc' \notin {"versionQuery", "handshake", "serviceDiscovery"}
    PROVE  ListenersWait' /\ WaitsAreCurrent'
BY WaitingOf DEF ListenersWait, WaitsAreCurrent

\* A message that is received is the one doStart waits for, and ends the wait.
LEMMA ReceivesAwaited ==
    ASSUME SessionInv, NEW m \in {"versionOk", "versionMismatch", "ssl", "discovery"},
           Receives(m)
    PROVE  /\ pc = Waiting[MessageId(m)]
           /\ callbacks' = [i \in Awaited |-> "none"]
           /\ listeners' = {}
<1> DEFINE id == MessageId(m)
<1>1. id \in Awaited
  BY WaitingOf
<1>2. pc = Waiting[id]
  BY <1>1 DEF SessionInv, WaitsAreCurrent, Receives
<1>3. /\ callbacks = [i \in Awaited |-> IF i = id THEN session ELSE "none"]
      /\ listeners = {[signal |-> session, id |-> id]}
  BY <1>1, <1>2, OnlyRegistered
<1>4. /\ callbacks' = [callbacks EXCEPT ![id] = "none"]
      /\ listeners' = listeners \ {[signal |-> callbacks[id], id |-> id]}
  BY DEF Receives, Resolve
<1>5. QED
  BY <1>1, <1>2, <1>3, <1>4

-----------------------------------------------------------------------------
(***************************************************************************)
(* The invariant, one step per action.                                     *)
(***************************************************************************)
\* It holds before the first session.
LEMMA SessionInvInit == Init => SessionInv
<1> SUFFICES ASSUME Init PROVE SessionInv
  OBVIOUS
<1>1. TypeInv
  BY ControlSessionAssumption DEF Init, TypeInv
<1>2. SessionSet /\ ListenersWait /\ EncryptedAfterHandshake
  BY DEF Init, SessionSet, Busy, ListenersWait, EncryptedAfterHandshake
<1>3. WaitsAreCurrent
  BY WaitingOf DEF Init, WaitsAreCurrent
<1>4. QED
  BY <1>1, <1>2, <1>3 DEF SessionInv

\* The steps in which doStart begins to wait for a message.
LEMMA RegisterSteps ==
    ASSUME SessionInv,
           (\E s \in Signals : Start(s)) \/ HandshakeRead \/ HandshakeCompletes
    PROVE  SessionInv'
<1>1. CASE \E s \in Signals : Start(s)
  <2> PICK s \in Signals : Start(s)
    BY <1>1
  <2>1. pc = "off" /\ session' = s /\ WaitFor("version", s) /\ pc' = Waiting["version"]
    BY WaitingOf DEF Start
  <2>2. /\ callbacks' \in [Awaited -> Signals \cup {"none"}]
        /\ listeners' \subseteq [signal : Signals, id : Awaited]
        /\ ListenersWait'
        /\ WaitsAreCurrent'
    BY <2>1, Registers, WaitingOf
  <2>3. signal' \in [Signals -> {"unused", "armed", "aborted"}] /\ round' \in 0 .. Rounds
    BY DEF Start, SessionInv, TypeInv
  <2>4. pc' = "versionQuery" /\ session' \in Signals
    BY <2>1, WaitingOf
  <2>5. QED
    BY <2>2, <2>3, <2>4
    DEF SessionInv, TypeInv, SessionSet, EncryptedAfterHandshake, Busy
<1>2. CASE HandshakeRead
  <2>1. /\ pc = "reading" /\ session \in Signals /\ session' = session
        /\ WaitFor("ssl", session) /\ pc' = Waiting["ssl"]
    BY <1>2, WaitingOf DEF HandshakeRead, SessionInv, SessionSet, Busy
  <2>2. /\ callbacks' \in [Awaited -> Signals \cup {"none"}]
        /\ listeners' \subseteq [signal : Signals, id : Awaited]
        /\ ListenersWait'
        /\ WaitsAreCurrent'
    BY <2>1, Registers, WaitingOf
  <2>3. pc' = "handshake" /\ UNCHANGED <<round, signal>>
    BY <1>2 DEF HandshakeRead
  <2>4. QED
    BY <2>1, <2>2, <2>3
    DEF SessionInv, TypeInv, SessionSet, EncryptedAfterHandshake, Busy
<1>3. CASE HandshakeCompletes
  <2>1. /\ pc = "writing" /\ session \in Signals /\ session' = session
        /\ WaitFor("discovery", session) /\ pc' = Waiting["discovery"]
    BY <1>3, WaitingOf DEF HandshakeCompletes, SessionInv, SessionSet, Busy
  <2>2. /\ callbacks' \in [Awaited -> Signals \cup {"none"}]
        /\ listeners' \subseteq [signal : Signals, id : Awaited]
        /\ ListenersWait'
        /\ WaitsAreCurrent'
    BY <2>1, Registers, WaitingOf
  <2>3. pc' = "serviceDiscovery" /\ round' = Rounds /\ UNCHANGED signal
    BY <1>3 DEF HandshakeCompletes
  <2>4. QED
    BY <2>1, <2>2, <2>3, ControlSessionAssumption
    DEF SessionInv, TypeInv, SessionSet, EncryptedAfterHandshake, Busy
<1>4. QED
  BY <1>1, <1>2, <1>3

\* The steps in which the message doStart waits for arrives.
LEMMA ReceiveSteps ==
    ASSUME SessionInv,
           ReceiveVersion \/ ReceiveMismatch \/ ReceiveHandshake \/ ReceiveDiscovery
    PROVE  SessionInv'
<1>1. PICK m \in {"versionOk", "versionMismatch", "ssl", "discovery"} :
        /\ Receives(m)
        /\ pc' \in {"reading", "failed", "writing", "up"}
        /\ pc' = "up" => m = "discovery"
        /\ UNCHANGED <<session, round, signal>>
  BY DEF ReceiveVersion, ReceiveMismatch, ReceiveHandshake, ReceiveDiscovery
<1>2. /\ pc = Waiting[MessageId(m)]
      /\ callbacks' = [i \in Awaited |-> "none"]
      /\ listeners' = {}
  BY <1>1, ReceivesAwaited
<1>3. ListenersWait' /\ WaitsAreCurrent'
  BY <1>1, <1>2, Unregisters DEF SessionInv
<1>4. TypeInv'
  BY <1>1, <1>2 DEF SessionInv, TypeInv, Busy
<1>5. SessionSet'
  BY <1>1, <1>2, WaitingOf DEF SessionInv, SessionSet, Busy
<1>6. EncryptedAfterHandshake'
  BY <1>1, <1>2, WaitingOf DEF SessionInv, EncryptedAfterHandshake
<1>7. QED
  BY <1>3, <1>4, <1>5, <1>6 DEF SessionInv

\* The steps between two waits.
LEMMA EngineSteps ==
    ASSUME SessionInv, HandshakeContinues \/ HandshakeFails
    PROVE  SessionInv'
<1>1. /\ pc \in {"reading", "writing"} /\ pc' \in {"reading", "failed"}
      /\ UNCHANGED <<session, signal, callbacks, listeners>>
  BY DEF HandshakeContinues, HandshakeFails
<1>2. callbacks = [i \in Awaited |-> "none"] /\ listeners = {}
  BY <1>1, NothingRegistered
<1>3. ListenersWait' /\ WaitsAreCurrent'
  BY <1>1, <1>2, Unregisters DEF SessionInv
<1>4. round' \in 0 .. Rounds
  BY ControlSessionAssumption
  DEF HandshakeContinues, HandshakeFails, SessionInv, TypeInv
<1>5. QED
  BY <1>1, <1>3, <1>4
  DEF SessionInv, TypeInv, SessionSet, EncryptedAfterHandshake, Busy

\* A timer that fires ends a wait of its own session, and touches nothing else.
LEMMA AbortEffect ==
    ASSUME SessionInv, NEW s \in Signals, AbortFires(s)
    PROVE  \/ UNCHANGED <<pc, callbacks, listeners>>
           \/ /\ s = session
              /\ pc' = "failed"
              /\ callbacks' = [i \in Awaited |-> "none"]
              /\ listeners' = {}
<1>1. CASE \E m \in Awaited : pc = Waiting[m]
  <2> PICK m \in Awaited : pc = Waiting[m]
    BY <1>1
  <2>1. /\ callbacks = [i \in Awaited |-> IF i = m THEN session ELSE "none"]
        /\ listeners = {[signal |-> session, id |-> m]}
    BY OnlyRegistered
  <2>2. CASE s = session
    <3>1. callbacks' = [i \in Awaited |-> "none"]
      BY <2>1, <2>2 DEF AbortFires
    <3>2. listeners' = {}
      BY <2>1, <2>2 DEF AbortFires
    <3>3. pc' = "failed"
      BY <2>1, <2>2 DEF AbortFires
    <3>4. QED
      BY <2>2, <3>1, <3>2, <3>3
  <2>3. CASE s # session
    <3>1. \A l \in listeners : l.signal # s
      BY <2>1, <2>3
    <3>2. \A i \in Awaited : [signal |-> s, id |-> i] \notin listeners
      BY <2>1, <2>3
    <3>3. callbacks' = callbacks
      BY <3>2 DEF AbortFires, SessionInv, TypeInv
    <3>4. listeners' = listeners /\ pc' = pc
      BY <3>1 DEF AbortFires
    <3>5. QED
      BY <3>3, <3>4
  <2>4. QED
    BY <2>2, <2>3
<1>2. CASE \A m \in Awaited : pc # Waiting[m]
  <2>1. listeners = {}
    BY <1>2, NothingRegistered, WaitingOf
  <2>2. callbacks' = callbacks
    BY <2>1 DEF AbortFires, SessionInv, TypeInv
  <2>3. listeners' = listeners /\ pc' = pc
    BY <2>1 DEF AbortFires
  <2>4. QED
    BY <2>2, <2>3
<1>3. QED
  BY <1>1, <1>2

LEMMA AbortStep ==
    ASSUME SessionInv, NEW s \in Signals, AbortFires(s)
    PROVE  SessionInv'
<1>1. /\ UNCHANGED <<session, round>>
      /\ signal' \in [Signals -> {"unused", "armed", "aborted"}]
  BY DEF AbortFires, SessionInv, TypeInv
<1>2. CASE UNCHANGED <<pc, callbacks, listeners>>
  BY <1>1, <1>2 DEF SessionInv, TypeInv, SessionSet, ListenersWait, WaitsAreCurrent,
                    EncryptedAfterHandshake
<1>3. CASE /\ s = session
           /\ pc' = "failed"
           /\ callbacks' = [i \in Awaited |-> "none"]
           /\ listeners' = {}
  <2>1. ListenersWait' /\ WaitsAreCurrent'
    BY <1>3, Unregisters DEF SessionInv
  <2>2. QED
    BY <1>1, <1>3, <2>1
    DEF SessionInv, TypeInv, SessionSet, EncryptedAfterHandshake, Busy
<1>4. QED
  BY <1>2, <1>3, AbortEffect

\* The server stops the session.
LEMMA StopStep ==
    ASSUME SessionInv, Stop
    PROVE  SessionInv'
<1>1. /\ pc \in {"up", "failed"} /\ pc' = "off" /\ round' = 0
      /\ callbacks' = [m \in Awaited |-> "none"]
      /\ UNCHANGED <<session, signal, listeners>>
  BY DEF Stop
<1>2. listeners = {}
  BY <1>1, NothingRegistered
<1>3. ListenersWait' /\ WaitsAreCurrent'
  BY <1>1, <1>2, Unregisters DEF SessionInv
<1>4. QED
  BY <1>1, <1>3, ControlSessionAssumption
  DEF SessionInv, TypeInv, SessionSet, EncryptedAfterHandshake, Busy

\* Everything else leaves doStart and its waits alone.
LEMMA OtherSteps ==
    ASSUME SessionInv, UNCHANGED <<pc, session, round, signal, callbacks, listeners>>
    PROVE  SessionInv'
BY DEF SessionInv, TypeInv, SessionSet, ListenersWait, WaitsAreCurrent,
       EncryptedAfterHandshake

LEMMA SessionInvNext == SessionInv /\ [Next]_vars => SessionInv'
<1> SUFFICES ASSUME SessionInv, [Next]_vars PROVE SessionInv'
  OBVIOUS
<1>1. CASE (\E s \in Signals : Start(s)) \/ HandshakeRead \/ HandshakeCompletes
  BY <1>1, RegisterSteps
<1>2. CASE ReceiveVersion \/ ReceiveMismatch \/ ReceiveHandshake \/ ReceiveDiscovery
  BY <1>2, ReceiveSteps
<1>3. CASE HandshakeContinues \/ HandshakeFails
  BY <1>3, EngineSteps
<1>4. CASE \E s \in Signals : AbortFires(s)
  BY <1>4, AbortStep
<1>5. CASE Stop
  BY <1>5, StopStep
<1>6. CASE DropMessage \/ OnPingResponse \/ OnByeByeRequest \/ OnPingTimeout
  BY <1>6, OtherSteps DEF DropMessage, OnPingResponse, OnByeByeRequest, OnPingTimeout
<1>7. CASE Phone
  BY <1>7, OtherSteps DEF Phone, PhoneAnswers, PhoneSaysGoodbye, PhoneFallsSilent
<1>8. CASE UNCHANGED vars
  BY <1>8, OtherSteps DEF vars
<1>9. QED
  BY <1>1, <1>2, <1>3, <1>4, <1>5, <1>6, <1>7, <1>8 DEF Next, Receive, Handshake

LEMMA SessionInvariant == Spec => []SessionInv
<1>1. QED
  BY SessionInvInit, SessionInvNext, PTL DEF Spec

-----------------------------------------------------------------------------
(***************************************************************************)
(* The messages under way, which take no part in the invariant.            *)
(***************************************************************************)
Messages == toPhone \in Seq(ToPhone) /\ inflight \in Seq(FromPhone)

\* What the phone answers is a sequence of its messages.
LEMMA AnswersType ==
    ASSUME NEW m \in ToPhone, NEW a \in Answers(m)
    PROVE  a \in Seq(FromPhone)
<1>1. a = <<>> \/ \E r \in FromPhone : a = <<r>>
  BY DEF ToPhone, FromPhone, Answers
<1>2. <<>> \in Seq(FromPhone)
  OBVIOUS
<1>3. ASSUME NEW r \in FromPhone PROVE <<r>> \in Seq(FromPhone)
  OBVIOUS
<1>4. QED
  BY <1>1, <1>2, <1>3

LEMMA MessagesNext == Messages /\ [Next]_vars => Messages'
<1> SUFFICES ASSUME Messages, [Next]_vars PROVE Messages'
  OBVIOUS
<1> USE DEF Messages
<1>1. CASE UNCHANGED <<toPhone, inflight>>
  BY <1>1
<1>2. ASSUME NEW m \in ToPhone, Send(m), UNCHANGED inflight
      PROVE  Messages'
  BY <1>2 DEF Send
<1>3. ASSUME UNCHANGED toPhone, inflight # <<>>, inflight' = Tail(inflight)
      PROVE  Messages'
  BY <1>3
<1>4. CASE \E s \in Signals : Start(s)
  BY <1>2, <1>4 DEF Start, ToPhone
<1>5. CASE HandshakeRead \/ HandshakeCompletes \/ OnPingTimeout
  BY <1>1, <1>2, <1>5 DEF HandshakeRead, HandshakeCompletes, OnPingTimeout, ToPhone
<1>6. CASE ReceiveVersion \/ ReceiveMismatch \/ ReceiveHandshake
  BY <1>3, <1>6 DEF ReceiveVersion, ReceiveMismatch, ReceiveHandshake, Receives
<1>7. CASE ReceiveDiscovery
  BY <1>7 DEF ReceiveDiscovery, Receives, Send, ToPhone
<1>8. CASE DropMessage \/ OnPingResponse \/ OnByeByeRequest
  BY <1>3, <1>8 DEF DropMessage, OnPingResponse, OnByeByeRequest
<1>9. CASE HandshakeContinues \/ HandshakeFails \/ \E s \in Signals : AbortFires(s)
  BY <1>1, <1>9 DEF HandshakeContinues, HandshakeFails, AbortFires
<1>10. CASE Stop
  BY <1>10 DEF Stop
<1>11. CASE PhoneAnswers
  <2>1. Head(toPhone) \in ToPhone /\ toPhone' \in Seq(ToPhone)
    BY <1>11 DEF PhoneAnswers
  <2>2. PICK a \in Answers(Head(toPhone)) : inflight' = inflight \o a
    BY <1>11 DEF PhoneAnswers
  <2>3. a \in Seq(FromPhone)
    BY <2>1, <2>2, AnswersType
  <2> QED
    BY <2>1, <2>2, <2>3
<1>12. CASE PhoneSaysGoodbye \/ PhoneFallsSilent
  BY <1>12 DEF PhoneSaysGoodbye, PhoneFallsSilent, FromPhone
<1>13. CASE UNCHANGED vars
  BY <1>1, <1>13 DEF vars
<1>14. QED
  BY <1>4, <1>5, <1>6, <1>7, <1>8, <1>9, <1>10, <1>11, <1>12, <1>13
  DEF Next, Receive, Handshake, Phone

\* The flags are flags.
Flags == silent \in BOOLEAN /\ pinging \in BOOLEAN /\ asked \in BOOLEAN

LEMMA FlagsNext == Flags /\ [Next]_vars => Flags'
<1> SUFFICES ASSUME Flags, [Next]_vars PROVE Flags'
  OBVIOUS
<1> USE DEF Flags
<1>1. CASE Receive
  BY <1>1 DEF Receive, ReceiveVersion, ReceiveMismatch, ReceiveHandshake,
     ReceiveDiscovery, DropMessage, OnPingResponse, OnByeByeRequest
<1>2. CASE Handshake \/ OnPingTimeout \/ Stop
  BY <1>2 DEF Handshake, HandshakeRead, HandshakeContinues, HandshakeCompletes,
     HandshakeFails, OnPingTimeout, Stop
<1>3. CASE Phone \/ UNCHANGED vars
  BY <1>3 DEF Phone, PhoneAnswers, PhoneSaysGoodbye, PhoneFallsSilent, vars
<1>4. CASE \E s \in Signals : Start(s) \/ AbortFires(s)
  BY <1>4 DEF Start, AbortFires
<1>5. QED
  BY <1>1, <1>2, <1>3, <1>4 DEF Next

-----------------------------------------------------------------------------
(***************************************************************************)
(* The theorems.                                                           *)
(***************************************************************************)
\* The session and its timers, the waits and the messages under way have the types
\* the model gives them, for any number of rounds, signals and messages.
THEOREM TypeCorrect == Spec => []TypeOK
<1>1. Init => Messages /\ Flags
  <2>1. <<>> \in Seq(ToPhone)
    OBVIOUS
  <2>2. <<>> \in Seq(FromPhone)
    OBVIOUS
  <2>3. QED
    BY <2>1, <2>2 DEF Init, Messages, Flags
<1>2. SessionInv /\ Messages /\ Flags => TypeOK
  BY DEF SessionInv, TypeInv, Messages, Flags, TypeOK
<1>3. QED
  BY <1>1, <1>2, SessionInvariant, MessagesNext, FlagsNext, PTL DEF Spec

\* waitForSpecificMessage is only ever waiting for the session that runs, and until
\* its time is over the wait can be aborted.
THEOREM WaitsOfCurrentSession == Spec => []WaitsAreCurrent
BY SessionInvariant, PTL DEF SessionInv

\* The service discovery is never sent before the handshake is complete, however
\* many exchanges it takes.
THEOREM NothingSentInTheClear == Spec => []EncryptedAfterHandshake
BY SessionInvariant, PTL DEF SessionInv

\* AbortSignal.timeout cannot be cancelled, so the timer of every session that ends
\* early fires in a later one.  It finds no listener of its own.
THEOREM StaleAbortHarmless == Spec => AbortHitsOwnSession
<1>1. ASSUME SessionInv
      PROVE  [\A s \in Signals :
                AbortFires(s) /\ s # session => UNCHANGED <<pc, callbacks>>]_vars
  BY <1>1, AbortEffect
<1>2. QED
  BY <1>1, SessionInvariant, PTL DEF AbortHitsOwnSession

-----------------------------------------------------------------------------
(***************************************************************************)
(* The touch screen.                                                       *)
(***************************************************************************)
\* A set of numbers has a least one.
LEMMA LeastNumber ==
    ASSUME NEW S \in SUBSET Nat, S # {}
    PROVE  \E x \in S : \A y \in S : x <= y
<1>1. IsWellFoundedOn(OpToRel(<, Nat), Nat)
    BY NatLessThanWellFounded
<1>2. \E x \in S : \A y \in S : ~(<<y, x>> \in OpToRel(<, Nat))
    BY <1>1, WFMin
<1>3. \A x, y \in Nat : <<y, x>> \in OpToRel(<, Nat) <=> y < x
    BY DEF OpToRel
<1>4. PICK x \in S : \A y \in S : ~(y < x)
    <2>1. \A y \in S : y \in Nat
        OBVIOUS
    <2> QED
        BY <1>2, <1>3, <2>1, Zenon
<1>5. \A y \in S : x <= y
    BY <1>4
<1> QED
    BY <1>5

\* Fewer ids are taken than there are pointers, while one is not pressed.
LEMMA FewTaken ==
    ASSUME TouchTypeOK, NEW p \in Pointers, p \notin Pressed
    PROVE  /\ IsFiniteSet(Taken) /\ Cardinality(Taken) \in Nat
           /\ Cardinality(Pointers) \in Nat
           /\ Cardinality(Taken) <= Cardinality(Pointers) - 1
<1>1. /\ IsFiniteSet(Pointers \ {p})
      /\ Cardinality(Pointers \ {p}) = Cardinality(Pointers) - 1
    BY TouchAssumption, FS_RemoveElement
<1>2. Pressed \in SUBSET (Pointers \ {p})
    BY DEF Pressed
<1>3. /\ IsFiniteSet(Pressed)
      /\ Cardinality(Pressed) <= Cardinality(Pointers \ {p})
    BY <1>1, <1>2, FS_Subset
<1> DEFINE f == [q \in Pressed |-> translation[q]]
<1>4. f \in Surjection(Pressed, Taken)
    BY DEF Surjection, Taken
<1>5. IsFiniteSet(Taken) /\ Cardinality(Taken) <= Cardinality(Pressed)
    BY <1>3, <1>4, FS_Surjection
<1>6. /\ Cardinality(Taken) \in Nat /\ Cardinality(Pressed) \in Nat
      /\ Cardinality(Pointers) \in Nat /\ Cardinality(Pointers \ {p}) \in Nat
    BY <1>1, <1>3, <1>5, TouchAssumption, FS_CardinalityType
<1> QED
    BY <1>1, <1>3, <1>5, <1>6

\* The new id is one no pressed pointer has, and there is one.
LEMMA NewIdIsFree ==
    ASSUME TouchTypeOK, NEW p \in Pointers, p \notin Pressed
    PROVE  NewTranslatedPointerId \in Ids /\ NewTranslatedPointerId \notin Taken
<1> DEFINE n == Cardinality(Taken)
           Free == (0 .. n) \ Taken
<1>1. /\ IsFiniteSet(Taken) /\ n \in Nat /\ Cardinality(Pointers) \in Nat
      /\ n <= Cardinality(Pointers) - 1
    BY FewTaken
<1>2. Free # {}
    <2> SUFFICES ASSUME (0 .. n) \subseteq Taken PROVE FALSE
        OBVIOUS
    <2>1. Cardinality(0 .. n) = n + 1
        BY <1>1, FS_Interval
    <2>2. Cardinality(0 .. n) <= n
        BY <1>1, FS_Subset
    <2> QED
        BY <1>1, <2>1, <2>2
<1> HIDE DEF n
<1>3. Free \in SUBSET Nat
    BY <1>1
<1>4. PICK k \in Free : \A m \in Free : k <= m
    BY <1>2, <1>3, LeastNumber
<1>5. k \in 0 .. n /\ k \notin Taken /\ \A m \in 0 .. k - 1 : m \in Taken
    BY <1>1, <1>4
<1>6. \E l \in 0 .. n : l \notin Taken /\ \A m \in 0 .. l - 1 : m \in Taken
    BY <1>5
<1>7. NewTranslatedPointerId \in 0 .. n /\ NewTranslatedPointerId \notin Taken
    BY <1>6 DEF NewTranslatedPointerId, n
<1> QED
    BY <1>1, <1>7 DEF Ids

\* A list has one entry of an id.
OnceEach(s) == \A i, j \in 1 .. Len(s) : s[i].id = s[j].id => i = j

\* Entries and their fields.
LEMMA EntriesAre ==
    /\ \A id \in Ids, at \in Points :
          Entry(id, at) \in Entries /\ Entry(id, at).id = id /\ Entry(id, at).at = at
    /\ \A e \in Entries : e.id \in Ids /\ e.at \in Points
BY DEF Entry, Entries

\* What the list is, by index.
LEMMA ListIs ==
    ASSUME NEW s \in Seq(Entries)
    PROVE  /\ Len(s) \in Nat /\ DOMAIN s = 1 .. Len(s)
           /\ \A i \in 1 .. Len(s) : s[i] \in Entries /\ s[i] \in ToSet(s)
           /\ \A e \in ToSet(s) : e \in Entries /\ \E i \in 1 .. Len(s) : s[i] = e
BY LenProperties, ElementOfSeq DEF ToSet

\* IndexOf finds the entry of an id that is listed.
LEMMA IndexIs ==
    ASSUME TouchTypeOK, NEW id \in Ids, Listed(id)
    PROVE  /\ IndexOf(id, positions) \in 1 .. Len(positions)
           /\ positions[IndexOf(id, positions)].id = id
<1>1. positions \in Seq(Entries)
    BY DEF TouchTypeOK
<1>2. DOMAIN positions = 1 .. Len(positions)
    BY <1>1, ListIs
<1> QED
    BY <1>2 DEF Listed, IndexOf

\* Map.set: the one entry of the id says where it is now.
LEMMA PlacedIs ==
    ASSUME TouchTypeOK, OnceEach(positions), NEW id \in Ids, NEW at \in Points
    PROVE  /\ Placed(id, at) \in Seq(Entries)
           /\ OnceEach(Placed(id, at))
           /\ ToSet(Placed(id, at)) =
                 {e \in ToSet(positions) : e.id # id} \cup {Entry(id, at)}
<1> DEFINE s == positions
           e == Entry(id, at)
           q == IndexOf(id, positions)
           t == Placed(id, at)
<1>1. s \in Seq(Entries)
    BY DEF TouchTypeOK
<1>2. /\ Len(s) \in Nat /\ DOMAIN s = 1 .. Len(s)
      /\ \A i \in 1 .. Len(s) : s[i] \in Entries
    BY <1>1, ListIs
<1>3. e \in Entries /\ e.id = id
    BY EntriesAre
<1>4. \A i, j \in 1 .. Len(s) : s[i].id = s[j].id => i = j
    BY DEF OnceEach
<1>5. CASE Listed(id)
    <2>1. q \in 1 .. Len(s) /\ s[q].id = id
        BY <1>5, IndexIs
    <2>2. t = [s EXCEPT ![q] = e]
        BY <1>5 DEF Placed, ReplaceAt
    <2> HIDE DEF s, e, q, t
    <2>3. /\ t \in Seq(Entries) /\ Len(t) = Len(s)
          /\ \A j \in 1 .. Len(s) : t[j] = IF j = q THEN e ELSE s[j]
        BY <1>1, <1>3, <2>1, <2>2, ExceptSeq
    <2>4. OnceEach(t)
        BY <1>2, <1>3, <1>4, <2>1, <2>3 DEF OnceEach
    <2>5. DOMAIN t = 1 .. Len(s)
        BY <1>2, <2>3, ListIs
    <2>6. ToSet(t) = {x \in ToSet(s) : x.id # id} \cup {e}
        BY <1>2, <1>3, <1>4, <2>1, <2>3, <2>5 DEF ToSet
    <2> QED
        BY <2>3, <2>4, <2>6 DEF s, e, t
<1>6. CASE ~Listed(id)
    <2>1. t = Append(s, e)
        BY <1>6 DEF Placed
    <2>2. \A i \in 1 .. Len(s) : s[i].id # id
        BY <1>2, <1>6 DEF Listed
    <2> HIDE DEF s, e, q, t
    <2>3. /\ t \in Seq(Entries) /\ Len(t) = Len(s) + 1 /\ t[Len(s) + 1] = e
          /\ \A j \in 1 .. Len(s) : t[j] = s[j]
        BY <1>1, <1>3, <2>1, AppendProperties
    <2>4. OnceEach(t)
        BY <1>2, <1>3, <1>4, <2>2, <2>3 DEF OnceEach
    <2>5. DOMAIN t = 1 .. Len(s) + 1
        BY <1>2, <2>3, ListIs
    <2>6. ToSet(t) = {x \in ToSet(s) : x.id # id} \cup {e}
        BY <1>2, <1>3, <1>4, <2>2, <2>3, <2>5 DEF ToSet
    <2> QED
        BY <2>3, <2>4, <2>6 DEF s, e, t
<1> QED
    BY <1>5, <1>6

\* Map.delete, and the list the phone keeps: the entry of the id is gone, and no other.
LEMMA RemovedIs ==
    ASSUME TouchTypeOK, OnceEach(positions), NEW id \in Ids, Listed(id)
    PROVE  LET t == RemoveAt(positions, IndexOf(id, positions))
           IN  /\ t \in Seq(Entries)
               /\ OnceEach(t)
               /\ ToSet(t) = {e \in ToSet(positions) : e.id # id}
<1> DEFINE s == positions
           q == IndexOf(id, positions)
           a == SubSeq(s, 1, q - 1)
           b == SubSeq(s, q + 1, Len(s))
           t == RemoveAt(s, q)
<1>1. s \in Seq(Entries)
    BY DEF TouchTypeOK
<1>2. /\ Len(s) \in Nat /\ DOMAIN s = 1 .. Len(s)
      /\ \A i \in 1 .. Len(s) : s[i] \in Entries
    BY <1>1, ListIs
<1>3. \A i, j \in 1 .. Len(s) : s[i].id = s[j].id => i = j
    BY DEF OnceEach
<1>4. q \in 1 .. Len(s) /\ s[q].id = id
    BY IndexIs
<1>5. t = a \o b
    BY DEF RemoveAt
<1> HIDE DEF s, q, t
<1>0. /\ q \in Int /\ q + 1 \in Int /\ Len(s) \in Int /\ q - 1 \in Int /\ 1 \in Int
      /\ \A i \in 1 .. q - 1 : s[i] \in Entries
      /\ \A i \in q + 1 .. Len(s) : s[i] \in Entries
    BY <1>2, <1>4
<1>6. /\ a \in Seq(Entries) /\ Len(a) = q - 1
      /\ \A i \in 1 .. q - 1 : a[i] = s[i]
    BY <1>0, <1>4, SubSeqProperties
<1>7. /\ b \in Seq(Entries) /\ Len(b) = Len(s) - q
      /\ \A i \in 1 .. Len(s) - q : b[i] = s[q + i]
    <2>1. /\ b \in Seq(Entries)
          /\ Len(b) = IF q + 1 <= Len(s) THEN Len(s) - (q + 1) + 1 ELSE 0
          /\ \A i \in 1 .. Len(s) - (q + 1) + 1 : b[i] = s[(q + 1) + i - 1]
        BY <1>0, SubSeqProperties
    <2>2. /\ Len(s) - (q + 1) + 1 = Len(s) - q
          /\ \A i \in 1 .. Len(s) - q : (q + 1) + i - 1 = q + i
          /\ ~(q + 1 <= Len(s)) => Len(s) - q = 0
        <3>1. \A m, n \in Int :
                 /\ n - (m + 1) + 1 = n - m
                 /\ \A i \in 1 .. n - m : (m + 1) + i - 1 = m + i
                 /\ m <= n /\ ~(m + 1 <= n) => n - m = 0
            OBVIOUS
        <3>2. q <= Len(s)
            BY <1>4
        <3> QED
            BY <1>0, <3>1, <3>2
    <2> QED
        BY <2>1, <2>2
<1> HIDE DEF a, b
<1>8. /\ t \in Seq(Entries) /\ Len(t) = Len(a) + Len(b)
      /\ \A i \in 1 .. Len(a) + Len(b) :
            t[i] = IF i <= Len(a) THEN a[i] ELSE b[i - Len(a)]
    BY <1>5, <1>6, <1>7, ConcatProperties
<1>9. \A i \in 1 .. Len(s) - 1 : t[i] = IF i < q THEN s[i] ELSE s[i + 1]
    <2> TAKE i \in 1 .. Len(s) - 1
    <2>0. t[i] = IF i <= q - 1 THEN a[i] ELSE b[i - (q - 1)]
        BY <1>2, <1>4, <1>6, <1>7, <1>8
    <2>1. CASE i < q
        BY <1>2, <1>4, <1>6, <2>0, <2>1
    <2>2. CASE ~(i < q)
        <3>1. t[i] = b[i - (q - 1)]
            BY <1>4, <2>0, <2>2
        <3>2. i - (q - 1) \in 1 .. Len(s) - q /\ q + (i - (q - 1)) = i + 1
            BY <1>2, <1>4, <2>2
        <3> QED
            BY <1>7, <2>2, <3>1, <3>2
    <2> QED
        BY <2>1, <2>2
<1>10. Len(t) = Len(s) - 1
    BY <1>2, <1>4, <1>6, <1>7, <1>8
<1>11. OnceEach(t)
    BY <1>2, <1>3, <1>4, <1>9, <1>10 DEF OnceEach
<1>12. DOMAIN t = 1 .. Len(s) - 1
    BY <1>8, <1>10, ListIs
<1>13. \A i \in 1 .. Len(s) - 1 : t[i] \in ToSet(s) /\ t[i].id # id
    BY <1>2, <1>3, <1>4, <1>9 DEF ToSet
<1>14. \A i \in 1 .. Len(s) : s[i].id # id => \E l \in 1 .. Len(s) - 1 : t[l] = s[i]
    <2> SUFFICES ASSUME NEW i \in 1 .. Len(s), s[i].id # id
                 PROVE  \E l \in 1 .. Len(s) - 1 : t[l] = s[i]
        OBVIOUS
    <2>1. CASE i < q
        <3>1. i \in 1 .. Len(s) - 1 /\ t[i] = s[i]
            BY <1>2, <1>4, <1>9, <2>1
        <3> QED
            BY <3>1
    <2>2. CASE i > q
        <3>1. i - 1 \in 1 .. Len(s) - 1 /\ ~(i - 1 < q) /\ (i - 1) + 1 = i
            BY <1>2, <1>4, <2>2
        <3>2. t[i - 1] = s[i]
            BY <1>9, <3>1
        <3> QED
            BY <3>1, <3>2
    <2> QED
        BY <1>2, <1>4, <2>1, <2>2
<1>15. ToSet(t) = {e \in ToSet(s) : e.id # id}
    <2>1. ToSet(t) = {t[i] : i \in 1 .. Len(s) - 1}
        BY <1>12 DEF ToSet
    <2>2. ToSet(s) = {s[i] : i \in 1 .. Len(s)}
        BY <1>2 DEF ToSet
    <2> QED
        BY <1>13, <1>14, <2>1, <2>2
<1> QED
    BY <1>8, <1>11, <1>15 DEF s, q, t

\* The ids of pressed pointers differ, and each pressed pointer was seen.
PressedOwnIds ==
    /\ \A p, q \in Pressed : translation[p] = translation[q] => p = q
    /\ \A p \in Pressed : where[p] # None

\* The list says where p is, to the throttle.
HasEntry(p) ==
    \E t \in ToSet(positions) : /\ t.id = translation[p]
                                /\ t.at = where[p] \/ Near(where[p], t.at)

\* A pressed pointer on the canvas has an entry that says where it is.
PressedListed == \A p \in Pressed : ~Outside(where[p]) => HasEntry(p)

\* The entry is that of a pressed pointer, or of a stray.
HasPointer(t) == t.id \in strays \/ \E p \in Pressed : t.id = translation[p]

\* There are no others: an entry is that of a pressed pointer, or of one that
\* went up off the canvas.
ListedPressed == \A t \in ToSet(positions) : HasPointer(t)

\* Once the phone has heard the component, it knows its list, less the finger it
\* has taken off by mistake.
PhoneKnows == heard => touching = {t \in ToSet(positions) : t.id # dropped}

\* The inductive invariant.
TouchInv ==
    /\ TouchTypeOK
    /\ PressedOwnIds
    /\ OnceEach(positions)
    /\ PressedListed
    /\ ListedPressed
    /\ PhoneKnows

\* Nothing is pressed in the initial state.
LEMMA TouchInvInit == TouchInit => TouchInv
<1> SUFFICES ASSUME TouchInit PROVE TouchInv
    OBVIOUS
<1>1. Pressed = {} /\ positions = <<>> /\ ~heard
    BY DEF TouchInit, Pressed
<1>2. positions \in Seq(Entries) /\ Len(positions) = 0 /\ ToSet(positions) = {}
    BY <1>1, EmptySeq DEF ToSet
<1>3. TouchTypeOK
    BY <1>2 DEF TouchInit, TouchTypeOK
<1> QED
    BY <1>1, <1>2, <1>3
    DEF TouchInv, PressedOwnIds, OnceEach, PressedListed, ListedPressed, PhoneKnows

\* Ids are numbers, and None is neither an id nor a point.
LEMMA NoneIsNoId == Ids \subseteq Nat /\ None \notin Ids /\ None \notin Points
BY TouchAssumption, FS_CardinalityType DEF Ids

\* Once the event names its finger, the phone knows the whole list.
LEMMA WholeListKnown ==
    ASSUME positions' \in Seq(Entries), touching' = ToSet(positions'), dropped' = None
    PROVE  PhoneKnows' /\ touching' \subseteq Entries
<1>1. \A e \in ToSet(positions') : e \in Entries /\ e.id \in Ids
    BY ListIs, EntriesAre
<1> QED
    BY <1>1, NoneIsNoId DEF PhoneKnows

\* What an event that is sent with an entry of the id does to the list, to the
\* strays and to what the phone knows.
SendsPlaced(id, at) ==
    /\ positions' \in Seq(Entries) /\ OnceEach(positions')
    /\ ToSet(positions') = {e \in ToSet(positions) : e.id # id} \cup {Entry(id, at)}
    /\ strays' = strays \ {id} /\ strays' \subseteq Ids
    /\ heard' \in BOOLEAN /\ touching' \subseteq Entries
    /\ dropped' = None /\ PhoneKnows'

\* sendPointerEvent does that, with or without a session.
LEMMA SendPlacedDoes ==
    ASSUME TouchInv, NEW id \in Ids, NEW at \in Points, SendPlaced(id, at)
    PROVE  SendsPlaced(id, at)
<1>0. TouchTypeOK /\ OnceEach(positions)
    BY DEF TouchInv
<1>1. positions' = Placed(id, at) /\ strays' = strays \ {id}
    BY DEF SendPlaced
<1>2. /\ positions' \in Seq(Entries) /\ OnceEach(positions')
      /\ ToSet(positions') = {e \in ToSet(positions) : e.id # id} \cup {Entry(id, at)}
    BY <1>0, <1>1, PlacedIs
<1>3. /\ dropped' = None
      /\ \/ touching' = ToSet(positions') /\ heard' = TRUE
         \/ touching' = touching /\ heard' = FALSE
    BY DEF SendPlaced, SendTouchEvent, PhoneTold
<1>4. touching' \subseteq Entries /\ PhoneKnows'
    <2>1. CASE touching' = ToSet(positions')
        BY <1>2, <1>3, <2>1, WholeListKnown
    <2>2. CASE touching' = touching /\ heard' = FALSE
        BY <1>0, <2>2 DEF PhoneKnows, TouchTypeOK
    <2> QED
        BY <1>3, <2>1, <2>2
<1> QED
    BY <1>0, <1>1, <1>2, <1>3, <1>4 DEF SendsPlaced, TouchTypeOK

\* A pointer goes down: its id is new, so that only entries of strays can have it.
LEMMA DownKeeps ==
    ASSUME TouchInv, NEW p \in Pointers, NEW at \in Points, PointerDown(p, at)
    PROVE  TouchInv'
<1> DEFINE id == NewTranslatedPointerId
<1>0. /\ TouchTypeOK /\ OnceEach(positions) /\ PressedOwnIds
      /\ PressedListed /\ ListedPressed /\ PhoneKnows
    BY DEF TouchInv
<1>1. /\ p \notin Pressed /\ started' = started
      /\ translation' = [translation EXCEPT ![p] = id]
      /\ where' = [where EXCEPT ![p] = at]
    BY DEF PointerDown, Seen
<1>2. id \in Ids /\ id \notin Taken
    BY <1>0, <1>1, NewIdIsFree
<1>3. IF Outside(at) THEN Dropped ELSE SendPlaced(id, at)
    BY DEF PointerDown, SendDown
<1> HIDE DEF id
<1>4. None \notin Ids /\ None \notin Points
    <2>1. Ids \subseteq Nat
        BY TouchAssumption, FS_CardinalityType DEF Ids
    <2> QED
        BY <2>1, TouchAssumption
<1>5. /\ Pressed' = Pressed \cup {p}
      /\ translation'[p] = id /\ where'[p] = at
      /\ \A q \in Pressed : /\ q # p /\ translation'[q] = translation[q]
                            /\ where'[q] = where[q] /\ translation[q] # id
    BY <1>0, <1>1, <1>2, <1>4 DEF Pressed, TouchTypeOK, Taken
<1>6. PressedOwnIds'
    BY <1>0, <1>4, <1>5 DEF PressedOwnIds
<1>7. /\ started' \in BOOLEAN /\ translation' \in [Pointers -> Ids \cup {None}]
      /\ where' \in [Pointers -> Points \cup {None}]
    BY <1>0, <1>1, <1>2 DEF TouchTypeOK
<1>8. CASE Dropped /\ Outside(at)
    <2>1. /\ positions' = positions /\ touching' = touching
          /\ heard' = heard /\ dropped' = dropped /\ strays' = strays
        BY <1>8 DEF Dropped
    <2>2. TouchTypeOK' /\ OnceEach(positions') /\ PhoneKnows'
        BY <1>0, <1>7, <2>1 DEF TouchTypeOK, PhoneKnows
    <2>3. ASSUME NEW q \in Pressed', ~Outside(where'[q])
          PROVE  HasEntry(q)'
        <3>1. q \in Pressed /\ where'[q] = where[q] /\ translation'[q] = translation[q]
            BY <1>5, <1>8, <2>3
        <3>2. HasEntry(q)
            BY <1>0, <2>3, <3>1 DEF PressedListed
        <3> QED
            BY <2>1, <3>1, <3>2 DEF HasEntry
    <2>4. ASSUME NEW t \in ToSet(positions')
          PROVE  HasPointer(t)'
        <3>1. HasPointer(t)
            BY <1>0, <2>1, <2>4 DEF ListedPressed
        <3> QED
            BY <1>5, <2>1, <3>1 DEF HasPointer
    <2> QED
        BY <1>6, <2>1, <2>2, <2>3, <2>4 DEF TouchInv, PressedListed, ListedPressed
<1>9. CASE SendPlaced(id, at)
    <2>1. SendsPlaced(id, at)
        BY <1>0, <1>2, <1>9, SendPlacedDoes
    <2>2. TouchTypeOK' /\ OnceEach(positions') /\ PhoneKnows'
        BY <1>7, <2>1 DEF TouchTypeOK, SendsPlaced
    <2>3. Entry(id, at) \in ToSet(positions') /\ Entry(id, at).id = id /\ Entry(id, at).at = at
        BY <1>2, <2>1, EntriesAre DEF SendsPlaced
    <2>4. ASSUME NEW q \in Pressed', ~Outside(where'[q])
          PROVE  HasEntry(q)'
        <3>1. CASE q = p
            BY <1>5, <2>3, <3>1 DEF HasEntry
        <3>2. CASE q # p
            <4>1. /\ q \in Pressed /\ where'[q] = where[q] /\ translation'[q] = translation[q]
                  /\ translation[q] # id
                BY <1>5, <3>2
            <4>2. HasEntry(q)
                BY <1>0, <2>4, <4>1 DEF PressedListed
            <4> QED
                BY <2>1, <4>1, <4>2 DEF HasEntry, SendsPlaced
        <3> QED
            BY <3>1, <3>2
    <2>5. ASSUME NEW t \in ToSet(positions')
          PROVE  HasPointer(t)'
        <3>1. CASE t = Entry(id, at)
            BY <1>5, <2>3, <3>1 DEF HasPointer
        <3>2. CASE t \in ToSet(positions) /\ t.id # id
            <4>1. HasPointer(t)
                BY <1>0, <3>2 DEF ListedPressed
            <4> QED
                BY <1>5, <2>1, <3>2, <4>1 DEF HasPointer, SendsPlaced
        <3> QED
            BY <2>1, <2>5, <3>1, <3>2 DEF SendsPlaced
    <2> QED
        BY <1>6, <2>2, <2>4, <2>5 DEF TouchInv, PressedListed, ListedPressed
<1> QED
    BY <1>3, <1>8, <1>9

\* It moves: the entry follows it, unless it is off the canvas or near its entry.
LEMMA MoveKeeps ==
    ASSUME TouchInv, NEW p \in Pointers, NEW at \in Points, PointerMove(p, at)
    PROVE  TouchInv'
<1> DEFINE id == translation[p]
<1>0. /\ TouchTypeOK /\ OnceEach(positions) /\ PressedOwnIds
      /\ PressedListed /\ ListedPressed /\ PhoneKnows
    BY DEF TouchInv
<1>1. /\ p \in Pressed /\ started' = started /\ translation' = translation
      /\ where' = [where EXCEPT ![p] = at]
    BY DEF PointerMove, Seen
<1>2. id \in Ids
    BY <1>0, <1>1, NoneIsNoId DEF TouchTypeOK, Pressed
<1>3. \/ Dropped /\ Outside(at)
      \/ Dropped /\ Listed(id) /\ Near(at, positions[IndexOf(id, positions)].at)
      \/ SendPlaced(id, at)
    BY DEF PointerMove, SendMoved
<1>4. /\ Pressed' = Pressed /\ where'[p] = at
      /\ \A q \in Pressed : q # p => where'[q] = where[q] /\ translation[q] # id
    BY <1>0, <1>1 DEF Pressed, TouchTypeOK, PressedOwnIds
<1>5. PressedOwnIds'
    BY <1>0, <1>1, <1>4, NoneIsNoId DEF PressedOwnIds
<1>6. /\ started' \in BOOLEAN /\ translation' \in [Pointers -> Ids \cup {None}]
      /\ where' \in [Pointers -> Points \cup {None}]
    BY <1>0, <1>1 DEF TouchTypeOK
<1>7. CASE Dropped /\ \/ Outside(at)
                      \/ Listed(id) /\ Near(at, positions[IndexOf(id, positions)].at)
    <2>1. /\ positions' = positions /\ touching' = touching
          /\ heard' = heard /\ dropped' = dropped /\ strays' = strays
        BY <1>7 DEF Dropped
    <2>2. TouchTypeOK' /\ OnceEach(positions') /\ PhoneKnows'
        BY <1>0, <1>6, <2>1 DEF TouchTypeOK, PhoneKnows
    <2>3. ASSUME NEW q \in Pressed', ~Outside(where'[q])
          PROVE  HasEntry(q)'
        <3>1. CASE q = p
            <4>1. Listed(id) /\ Near(at, positions[IndexOf(id, positions)].at)
                BY <1>4, <1>7, <2>3, <3>1
            <4>2. /\ IndexOf(id, positions) \in 1 .. Len(positions)
                  /\ positions[IndexOf(id, positions)].id = id
                BY <1>0, <1>2, <4>1, IndexIs
            <4>3. positions[IndexOf(id, positions)] \in ToSet(positions)
                BY <1>0, <4>2, ListIs DEF TouchTypeOK
            <4> QED
                BY <1>1, <1>4, <2>1, <3>1, <4>1, <4>2, <4>3 DEF HasEntry
        <3>2. CASE q # p
            <4>1. q \in Pressed /\ where'[q] = where[q]
                BY <1>4, <2>3, <3>2
            <4>2. HasEntry(q)
                BY <1>0, <2>3, <4>1 DEF PressedListed
            <4> QED
                BY <1>1, <2>1, <4>1, <4>2 DEF HasEntry
        <3> QED
            BY <3>1, <3>2
    <2>4. ListedPressed'
        BY <1>0, <1>1, <1>4, <2>1 DEF ListedPressed, HasPointer
    <2> QED
        BY <1>5, <2>1, <2>2, <2>3, <2>4 DEF TouchInv, PressedListed
<1>8. CASE SendPlaced(id, at)
    <2>1. SendsPlaced(id, at)
        BY <1>0, <1>2, <1>8, SendPlacedDoes
    <2>2. TouchTypeOK' /\ OnceEach(positions') /\ PhoneKnows'
        BY <1>6, <2>1 DEF TouchTypeOK, SendsPlaced
    <2>3. Entry(id, at) \in ToSet(positions') /\ Entry(id, at).id = id /\ Entry(id, at).at = at
        BY <1>2, <2>1, EntriesAre DEF SendsPlaced
    <2>4. ASSUME NEW q \in Pressed', ~Outside(where'[q])
          PROVE  HasEntry(q)'
        <3>1. CASE q = p
            BY <1>1, <1>4, <2>3, <3>1 DEF HasEntry
        <3>2. CASE q # p
            <4>1. q \in Pressed /\ where'[q] = where[q] /\ translation[q] # id
                BY <1>4, <2>4, <3>2
            <4>2. HasEntry(q)
                BY <1>0, <2>4, <4>1 DEF PressedListed
            <4> QED
                BY <1>1, <2>1, <4>1, <4>2 DEF HasEntry, SendsPlaced
        <3> QED
            BY <3>1, <3>2
    <2>5. ASSUME NEW t \in ToSet(positions')
          PROVE  HasPointer(t)'
        <3>1. CASE t = Entry(id, at)
            BY <1>1, <1>4, <2>3, <3>1 DEF HasPointer
        <3>2. CASE t \in ToSet(positions) /\ t.id # id
            <4>1. HasPointer(t)
                BY <1>0, <3>2 DEF ListedPressed
            <4> QED
                BY <1>1, <1>4, <2>1, <3>2, <4>1 DEF HasPointer, SendsPlaced
        <3> QED
            BY <2>1, <2>5, <3>1, <3>2 DEF SendsPlaced
    <2> QED
        BY <1>5, <2>2, <2>4, <2>5 DEF TouchInv, PressedListed, ListedPressed
<1> QED
    BY <1>3, <1>7, <1>8

\* It goes up: off the canvas the entry becomes one of a stray; on it, it goes.
LEMMA UpKeeps ==
    ASSUME TouchInv, NEW p \in Pointers, NEW at \in Points, PointerUp(p, at)
    PROVE  TouchInv'
<1> DEFINE id == translation[p]
           i == IndexOf(id, positions)
<1>0. /\ TouchTypeOK /\ OnceEach(positions) /\ PressedOwnIds
      /\ PressedListed /\ ListedPressed /\ PhoneKnows
    BY DEF TouchInv
<1>1. /\ p \in Pressed /\ started' = started
      /\ translation' = [translation EXCEPT ![p] = None]
      /\ where' = [where EXCEPT ![p] = None]
    BY DEF PointerUp, Seen
<1>2. id \in Ids
    BY <1>0, <1>1, NoneIsNoId DEF TouchTypeOK, Pressed
<1>3. SendUp(id, at)
    BY DEF PointerUp
<1>4. /\ Pressed' = Pressed \ {p}
      /\ \A q \in Pressed' : /\ q \in Pressed /\ where'[q] = where[q]
                             /\ translation'[q] = translation[q] /\ translation[q] # id
    BY <1>0, <1>1 DEF Pressed, TouchTypeOK, PressedOwnIds
<1>5. PressedOwnIds'
    BY <1>0, <1>4 DEF PressedOwnIds
<1>6. /\ started' \in BOOLEAN /\ translation' \in [Pointers -> Ids \cup {None}]
      /\ where' \in [Pointers -> Points \cup {None}]
    BY <1>0, <1>1 DEF TouchTypeOK
<1>7. CASE Outside(at)
    <2>1. /\ positions' = positions /\ touching' = touching /\ heard' = heard
          /\ dropped' = dropped
          /\ strays' = IF Listed(id) THEN strays \cup {id} ELSE strays
        BY <1>3, <1>7 DEF SendUp
    <2>2. strays' \subseteq Ids
        BY <1>0, <1>2, <2>1 DEF TouchTypeOK
    <2>3. TouchTypeOK' /\ OnceEach(positions') /\ PhoneKnows'
        BY <1>0, <1>6, <2>1, <2>2 DEF TouchTypeOK, PhoneKnows
    <2>4. PressedListed'
        BY <1>0, <1>4, <2>1 DEF PressedListed, HasEntry
    <2>5. ASSUME NEW t \in ToSet(positions')
          PROVE  HasPointer(t)'
        <3>1. HasPointer(t)
            BY <1>0, <2>1, <2>5 DEF ListedPressed
        <3>2. t.id = id => Listed(id)
            <4>1. PICK k \in 1 .. Len(positions) : positions[k] = t
                BY <1>0, <2>1, <2>5, ListIs DEF TouchTypeOK
            <4>2. DOMAIN positions = 1 .. Len(positions)
                BY <1>0, ListIs DEF TouchTypeOK
            <4> QED
                BY <4>1, <4>2 DEF Listed
        <3> QED
            BY <1>4, <2>1, <3>1, <3>2 DEF HasPointer
    <2> QED
        BY <1>5, <2>3, <2>4, <2>5 DEF TouchInv, ListedPressed
<1>8. CASE ~Outside(at)
    <2>0. /\ positions' = Without(id) /\ strays' = strays \ {id}
          /\ SendTouchEvent(positions, IF Listed(id) THEN i ELSE 1, FirstDropped(id))
        BY <1>3, <1>8 DEF SendUp
    <2>1. /\ positions' \in Seq(Entries) /\ OnceEach(positions')
          /\ ToSet(positions') = {e \in ToSet(positions) : e.id # id}
        <3>1. CASE Listed(id)
            BY <1>0, <1>2, <2>0, <3>1, RemovedIs DEF Without
        <3>2. CASE ~Listed(id)
            <4>1. positions' = positions
                BY <2>0, <3>2 DEF Without
            <4>2. \A e \in ToSet(positions) : e.id # id
                BY <1>0, <3>2, ListIs DEF Listed, TouchTypeOK
            <4> QED
                BY <1>0, <4>1, <4>2 DEF TouchTypeOK
        <3> QED
            BY <3>1, <3>2
    <2>2. /\ heard' \in BOOLEAN /\ touching' \subseteq Entries
          /\ dropped' \in Ids \cup {None} /\ PhoneKnows'
        <3>1. CASE ~started
            BY <1>0, <2>0, <3>1 DEF SendTouchEvent, TouchTypeOK, PhoneKnows
        <3>2. CASE started /\ Listed(id)
            <4>1. i \in 1 .. Len(positions) /\ Len(positions) \in Nat
                BY <1>0, <1>2, <3>2, IndexIs, ListIs DEF TouchTypeOK
            <4>2. i # 0 /\ positions # <<>>
                BY <4>1, EmptySeq
            <4>3. /\ touching' = ToSet(RemoveAt(positions, i)) /\ heard' = TRUE
                  /\ dropped' = None
                BY <2>0, <3>2, <4>2 DEF SendTouchEvent, PhoneTold, FirstDropped
            <4>4. positions' = RemoveAt(positions, i)
                BY <2>0, <3>2 DEF Without
            <4> QED
                BY <2>1, <4>3, <4>4, WholeListKnown
        <3>3. CASE started /\ ~Listed(id)
            <4>1. positions' = positions /\ heard' = TRUE
                BY <2>0, <3>3 DEF SendTouchEvent, Without
            <4>2. CASE positions = <<>>
                <5>1. touching' = ToSet(positions) /\ dropped' = None
                    BY <2>0, <3>3, <4>2 DEF SendTouchEvent, PhoneTold, FirstDropped
                <5> QED
                    BY <2>1, <4>1, <5>1, WholeListKnown
            <4>3. CASE positions # <<>>
                <5> DEFINE n == positions[1].id
                <5>0. touching' = ToSet(RemoveAt(positions, 1)) /\ dropped' = n
                    BY <2>0, <3>3, <4>3 DEF SendTouchEvent, PhoneTold, FirstDropped
                <5>1. 1 \in 1 .. Len(positions) /\ DOMAIN positions = 1 .. Len(positions)
                    BY <1>0, <4>3, EmptySeq, ListIs DEF TouchTypeOK
                <5>2. n \in Ids /\ Listed(n)
                    BY <1>0, <5>1, ListIs, EntriesAre DEF TouchTypeOK, Listed
                <5>3. IndexOf(n, positions) = 1
                    BY <1>0, <5>1, <5>2, IndexIs DEF OnceEach
                <5> HIDE DEF n
                <5>4. touching' = {e \in ToSet(positions) : e.id # n}
                    BY <1>0, <5>0, <5>2, <5>3, RemovedIs
                <5>5. ToSet(positions) \subseteq Entries
                    BY <1>0, ListIs DEF TouchTypeOK
                <5> QED
                    BY <4>1, <5>0, <5>2, <5>4, <5>5 DEF PhoneKnows
            <4> QED
                BY <4>2, <4>3
        <3> QED
            BY <3>1, <3>2, <3>3
    <2>3. strays' \subseteq Ids
        BY <1>0, <2>0 DEF TouchTypeOK
    <2>4. TouchTypeOK'
        BY <1>6, <2>1, <2>2, <2>3 DEF TouchTypeOK
    <2>5. PressedListed'
        BY <1>0, <1>4, <2>1 DEF PressedListed, HasEntry
    <2>6. ASSUME NEW t \in ToSet(positions')
          PROVE  HasPointer(t)'
        <3>1. HasPointer(t) /\ t.id # id
            BY <1>0, <2>1, <2>6 DEF ListedPressed
        <3> QED
            BY <1>4, <2>0, <3>1 DEF HasPointer
    <2> QED
        BY <1>5, <2>1, <2>2, <2>4, <2>5, <2>6 DEF TouchInv, ListedPressed
<1> QED
    BY <1>7, <1>8

\* A new component has nothing pressed.
LEMMA RemountKeeps ==
    ASSUME TouchInv, Remount
    PROVE  TouchInv'
<1>1. Pressed' = {} /\ positions' = <<>> /\ heard' = FALSE /\ dropped' = None
    BY DEF Remount, Pressed
<1>2. positions' \in Seq(Entries) /\ Len(positions') = 0 /\ ToSet(positions') = {}
    BY <1>1, EmptySeq DEF ToSet
<1>3. TouchTypeOK'
    BY <1>2 DEF Remount, TouchInv, TouchTypeOK
<1> QED
    BY <1>1, <1>2, <1>3
    DEF TouchInv, PressedOwnIds, OnceEach, PressedListed, ListedPressed, PhoneKnows

\* A session that begins or ends has heard of nothing.
LEMMA SessionKeeps ==
    ASSUME TouchInv, SessionChanges
    PROVE  TouchInv'
<1>1. /\ translation' = translation /\ positions' = positions /\ where' = where
      /\ strays' = strays /\ heard' = FALSE /\ touching' = {} /\ started' = ~started
      /\ dropped' = None
    BY DEF SessionChanges
<1>2. Pressed' = Pressed
    BY <1>1 DEF Pressed
<1>3. TouchTypeOK'
    BY <1>1 DEF TouchInv, TouchTypeOK
<1> QED
    BY <1>1, <1>2, <1>3 DEF TouchInv, PressedOwnIds, PressedListed, ListedPressed,
                            HasEntry, HasPointer, PhoneKnows

\* One step per event.
LEMMA TouchInvStep == TouchInv /\ [TouchNext]_touchVars => TouchInv'
<1> SUFFICES ASSUME TouchInv, [TouchNext]_touchVars PROVE TouchInv'
    OBVIOUS
<1>1. CASE UNCHANGED touchVars
    <2>1. /\ started' = started /\ translation' = translation /\ positions' = positions
          /\ where' = where /\ touching' = touching /\ heard' = heard /\ strays' = strays
          /\ dropped' = dropped
        BY <1>1 DEF touchVars
    <2>2. Pressed' = Pressed
        BY <2>1 DEF Pressed
    <2> QED
        BY <2>1, <2>2 DEF TouchInv, TouchTypeOK, PressedOwnIds, PressedListed, ListedPressed,
                          HasEntry, HasPointer, PhoneKnows
<1>2. CASE TouchNext
    BY <1>2, DownKeeps, MoveKeeps, UpKeeps, RemountKeeps, SessionKeeps DEF TouchNext
<1> QED
    BY <1>1, <1>2

\* One entry of an id: of any of them there are as many ids as entries.
LEMMA IdsCount ==
    ASSUME NEW s \in Seq(Entries), OnceEach(s), NEW S \in SUBSET ToSet(s)
    PROVE  Cardinality({t.id : t \in S}) = Cardinality(S)
<1> DEFINE f == [i \in 1 .. Len(s) |-> s[i]]
           g == [t \in S |-> t.id]
<1>0. /\ Len(s) \in Nat
      /\ \A i \in 1 .. Len(s) : s[i] \in ToSet(s)
      /\ \A e \in ToSet(s) : \E i \in 1 .. Len(s) : s[i] = e
    BY ListIs
<1>1. IsFiniteSet(S)
    <2>1. f \in Surjection(1 .. Len(s), ToSet(s))
        BY <1>0 DEF Surjection
    <2>2. IsFiniteSet(1 .. Len(s))
        BY <1>0, FS_Interval
    <2> QED
        BY <2>1, <2>2, FS_Surjection, FS_Subset
<1>2. g \in Bijection(S, {t.id : t \in S})
    <2>1. \A t, u \in S : t.id = u.id => t = u
        BY <1>0 DEF OnceEach
    <2> QED
        BY <2>1 DEF Bijection, Injection, Surjection, IsInjective
<1> QED
    BY <1>1, <1>2, FS_Bijection DEF ExistsBijection

\* Once an event of the component has reached the phone, the phone knows each
\* finger on the canvas, where it is, and no other but those that went up off it;
\* it misses at most the one that the last event took off by mistake.
THEOREM FingersFollowed == TouchSpec => []TouchesFollowPointers
<1>1. TouchInv => TouchesFollowPointers
    <2> SUFFICES ASSUME TouchInv, heard PROVE TouchesFollowPointers
        BY DEF TouchesFollowPointers
    <2>1. /\ touching = {t \in ToSet(positions) : t.id # dropped}
          /\ positions \in Seq(Entries) /\ OnceEach(positions)
          /\ PressedListed /\ ListedPressed
        BY DEF TouchInv, TouchTypeOK, PhoneKnows
    <2>2. Cardinality({t.id : t \in touching}) = Cardinality(touching)
        BY <2>1, IdsCount
    <2>3. ASSUME NEW p \in Pressed, ~Outside(where[p]), translation[p] # dropped
          PROVE  \E t \in touching : /\ t.id = translation[p]
                                     /\ t.at = where[p] \/ Near(where[p], t.at)
        BY <2>1, <2>3 DEF PressedListed, HasEntry
    <2>4. \A t \in touching : \/ t.id \in strays
                              \/ \E p \in Pressed : t.id = translation[p]
        BY <2>1 DEF ListedPressed, HasPointer
    <2> QED
        BY <2>2, <2>3, <2>4 DEF TouchesFollowPointers
<1> QED
    BY TouchInvInit, TouchInvStep, <1>1, PTL DEF TouchSpec

\* newTranslatedPointerId finds an id below the number of pointers, and what the
\* phone is told are ids and points.
THEOREM TouchTypeCorrect == TouchSpec => []TouchTypeOK
<1>1. TouchInv => TouchTypeOK
    BY DEF TouchInv
<1> QED
    BY TouchInvInit, TouchInvStep, <1>1, PTL DEF TouchSpec

-----------------------------------------------------------------------------
(* The configurations offered for a video. *)

\* A set of numbers that contains 0 and with each number the next contains all of
\* them: a number that is not in it has a least one like it before it.
LEMMA CountUp ==
    ASSUME NEW S, 0 \in S, \A n \in Nat : n \in S => n + 1 \in S
    PROVE  \A n \in Nat : n \in S
<1> SUFFICES ASSUME NEW k \in Nat, k \notin S PROVE FALSE
    OBVIOUS
<1> DEFINE T == {n \in Nat : n \notin S}
<1>1. PICK x \in T : \A y \in T : ~(<<y, x>> \in OpToRel(<, Nat))
    <2>1. T \subseteq Nat /\ T # {}
        OBVIOUS
    <2> HIDE DEF T
    <2> QED
        BY <2>1, NatLessThanWellFounded, WFMin
<1>2. x \in Nat /\ x \notin S
    OBVIOUS
<1>3. x - 1 \in Nat /\ x - 1 < x
    BY <1>2
<1>4. <<x - 1, x>> \in OpToRel(<, Nat)
    BY <1>2, <1>3 DEF OpToRel
<1>5. x - 1 \notin T
    BY <1>1, <1>4
<1>6. x - 1 \in S
    BY <1>3, <1>5
<1>7. x - 1 + 1 = x
    BY <1>2
<1> QED
    BY <1>2, <1>3, <1>6, <1>7

\* The largest of some numbers up to n + 1, of which that one is one.
LEMMA MaxOfUpTo ==
    ASSUME NEW n \in Nat, NEW s \in SUBSET (1 .. n + 1), n + 1 \in s
    PROVE  Max(s) = n + 1
<1>1. \A y \in s : n + 1 >= y
    OBVIOUS
<1>2. \A x \in s : (\A y \in s : x >= y) => x = n + 1
    OBVIOUS
<1> QED
    BY <1>1, <1>2 DEF Max

\* Positions in a sequence, if there are any, have a largest.
LEMMA MaxIn ==
    ASSUME NEW q, NEW B, q \in Seq(B), NEW t \in SUBSET DOMAIN q, t # {}
    PROVE  Max(t) \in t
<1> DEFINE Bound(k) == \A y \in t : k >= y
           P == {k \in Nat : k \in 0 .. Len(q) /\ (\A y \in t : y <= k)
                             => \E x \in t : Bound(x)}
<1>1. 0 \in P
    BY SMT
<1>2. ASSUME NEW k \in Nat, k \in P PROVE k + 1 \in P
    <2> SUFFICES ASSUME k + 1 \in 0 .. Len(q), \A y \in t : y <= k + 1
                 PROVE  \E x \in t : Bound(x)
        OBVIOUS
    <2>1. CASE k + 1 \in t
        BY <2>1
    <2>2. CASE k + 1 \notin t
        <3>1. \A y \in t : y <= k
            BY <2>2
        <3> QED
            BY <3>1, <1>2
    <2> QED
        BY <2>1, <2>2
<1>3. \A n \in Nat : n \in P
    <2> HIDE DEF P
    <2> QED
        BY <1>1, <1>2, CountUp
<1>4. Len(q) \in Nat /\ t \subseteq 1 .. Len(q)
    OBVIOUS
<1>5. \E x \in t : Bound(x)
    <2>1. Len(q) \in P
        BY <1>3, <1>4
    <2>2. Len(q) \in 0 .. Len(q) /\ \A y \in t : y <= Len(q)
        BY <1>4
    <2> HIDE DEF Bound
    <2> QED
        BY <2>1, <2>2
<1> QED
    BY <1>5 DEF Max

\* f folds sets of indices of q, of which the largest is taken off first.
Folding(f, A, base, op, q) ==
    /\ f \in [SUBSET DOMAIN q -> A]
    /\ \A s \in SUBSET DOMAIN q :
          f[s] = IF s = {} THEN base ELSE op[<<f[s \ {Max(s)}], q[Max(s)]>>]

\* A fold over a sequence has its values at all of its prefixes, each from the one
\* before it: built for longer and longer prefixes.
LEMMA FoldExists ==
    ASSUME NEW A, NEW B, NEW base \in A, NEW op \in [A \X B -> A], NEW q \in Seq(B)
    PROVE  \E f : Folding(f, A, base, op, q)
<1> DEFINE Folds(f, n) ==
        \A s \in SUBSET (1 .. n) :
            f[s] = IF s = {} THEN base ELSE op[<<f[s \ {Max(s)}], q[Max(s)]>>]
<1> DEFINE Exists(n) == \E f \in [SUBSET (1 .. n) -> A] : Folds(f, n)
<1>1. Exists(0)
    <2> DEFINE f == [s \in SUBSET (1 .. 0) |-> base]
    <2>1. f \in [SUBSET (1 .. 0) -> A]
        OBVIOUS
    <2>2. \A s \in SUBSET (1 .. 0) : s = {} /\ f[s] = base
        OBVIOUS
    <2>3. Folds(f, 0)
        BY <2>2
    <2> QED
        BY <2>1, <2>3
<1>2. ASSUME NEW n \in Nat, Exists(n), n + 1 <= Len(q) PROVE Exists(n + 1)
    <2>1. PICK g \in [SUBSET (1 .. n) -> A] : Folds(g, n)
        BY <1>2
    <2>2. q[n + 1] \in B
        BY <1>2
    <2> DEFINE f == [s \in SUBSET (1 .. n + 1) |->
                        IF n + 1 \in s THEN op[<<g[s \ {n + 1}], q[n + 1]>>] ELSE g[s]]
    <2>3. \A s \in SUBSET (1 .. n + 1) :
              IF n + 1 \in s THEN s \ {n + 1} \in SUBSET (1 .. n) ELSE s \in SUBSET (1 .. n)
        BY SMT
    <2>4. f \in [SUBSET (1 .. n + 1) -> A]
        <3> SUFFICES ASSUME NEW s \in SUBSET (1 .. n + 1) PROVE f[s] \in A
            OBVIOUS
        <3>1. CASE n + 1 \in s
            <4>1. <<g[s \ {n + 1}], q[n + 1]>> \in A \X B
                BY <2>2, <2>3, <3>1
            <4> QED
                BY <4>1, <3>1
        <3>2. CASE n + 1 \notin s
            BY <2>3, <3>2
        <3> QED
            BY <3>1, <3>2
    <2>5. ASSUME NEW s \in SUBSET (1 .. n + 1)
          PROVE  f[s] = IF s = {} THEN base ELSE op[<<f[s \ {Max(s)}], q[Max(s)]>>]
        <3>1. CASE n + 1 \in s
            <4>1. Max(s) = n + 1 /\ s # {}
                BY <3>1, MaxOfUpTo
            <4>2. f[s \ {n + 1}] = g[s \ {n + 1}]
                BY <2>3
            <4>3. f[s] = op[<<g[s \ {n + 1}], q[n + 1]>>]
                BY <3>1
            <4> QED
                BY <4>1, <4>2, <4>3
        <3>2. CASE n + 1 \notin s
            <4>1. s \in SUBSET (1 .. n)
                BY <3>2, <2>3
            <4>2. f[s] = g[s]
                BY <3>2
            <4>3. \A t \in SUBSET s : f[t] = g[t]
                BY <3>2
            <4>4. g[s] = IF s = {} THEN base ELSE op[<<g[s \ {Max(s)}], q[Max(s)]>>]
                BY <4>1, <2>1
            <4>5. f[s \ {Max(s)}] = g[s \ {Max(s)}]
                BY <4>3
            <4> HIDE DEF f
            <4> QED
                BY <4>2, <4>4, <4>5
        <3> QED
            BY <3>1, <3>2
    <2>6. Folds(f, n + 1)
        BY <2>5
    <2> QED
        BY <2>4, <2>6
<1>3. Len(q) \in Nat /\ DOMAIN q = 1 .. Len(q)
    OBVIOUS
<1>4. Exists(Len(q))
    <2> DEFINE P == {n \in Nat : n <= Len(q) => Exists(n)}
    <2> HIDE DEF Exists
    <2>1. 0 \in P
        BY <1>1
    <2>2. ASSUME NEW n \in Nat, n \in P PROVE n + 1 \in P
        BY <1>2, <1>3, <2>2
    <2>3. \A n \in Nat : n \in P
        <3> HIDE DEF P
        <3> QED
            BY <2>1, <2>2, CountUp
    <2> QED
        BY <2>3, <1>3
<1>5. PICK f \in [SUBSET (1 .. Len(q)) -> A] : Folds(f, Len(q))
    BY <1>4
<1> QED
    BY <1>3, <1>5 DEF Folding

\* How the fold of a sequence walks its positions: from the last one down.
LEMMA UpTo ==
    ASSUME NEW n \in Nat, n > 0
    PROVE  /\ Max(1 .. n) = n /\ (1 .. n) \ {n} = 1 .. n - 1 /\ 1 .. n # {}
           /\ 1 .. 0 = {}
<1>1. Max(1 .. n) = n
    <2>1. n - 1 \in Nat /\ n - 1 + 1 = n /\ 1 .. n \in SUBSET (1 .. n) /\ n \in 1 .. n
        OBVIOUS
    <2> QED
        BY <2>1, MaxOfUpTo
<1> QED
    BY <1>1

\* What Kept keeps, element by element.
LEMMA KeptSteps ==
    ASSUME NEW B, NEW s \in Seq(B), NEW S
    PROVE  \E h : /\ h[0] = <<>> /\ h[Len(s)] = Kept(s, S)
                  /\ \A n \in 1 .. Len(s) :
                        h[n] = IF s[n] \in S THEN Append(h[n - 1], s[n]) ELSE h[n - 1]
<1> DEFINE Step(f, t) ==
        IF t = {} THEN <<>>
        ELSE IF s[Max(t)] \in S THEN Append(f[t \ {Max(t)}], s[Max(t)])
                                ELSE f[t \ {Max(t)}]
           iter == CHOOSE f : f = [t \in SUBSET DOMAIN s |-> Step(f, t)]
           op == [p \in Seq(B) \X B |->
                      IF p[2] \in S THEN Append(p[1], p[2]) ELSE p[1]]
<1>1. op \in [Seq(B) \X B -> Seq(B)] /\ <<>> \in Seq(B)
    OBVIOUS
<1>2. \E f : Folding(f, Seq(B), <<>>, op, s)
    <2> HIDE DEF op
    <2> QED
        BY <1>1, FoldExists
<1>2a. PICK f : Folding(f, Seq(B), <<>>, op, s)
    BY <1>2
<1>3. ASSUME NEW t \in SUBSET DOMAIN s PROVE f[t] = Step(f, t)
    <2>1. CASE t = {}
        BY <2>1, <1>2a DEF Folding
    <2>2. CASE t # {}
        <3>1. Max(t) \in t
            BY <2>2, MaxIn
        <3>2. <<f[t \ {Max(t)}], s[Max(t)]>> \in Seq(B) \X B
            BY <3>1, <1>2a DEF Folding
        <3> QED
            BY <2>2, <3>2, <1>2a DEF Folding
    <2> QED
        BY <2>1, <2>2
<1>4. iter = [t \in SUBSET DOMAIN s |-> Step(iter, t)]
    <2>1. f = [t \in SUBSET DOMAIN s |-> Step(f, t)]
        BY <1>3, <1>2a DEF Folding
    <2> HIDE DEF Step
    <2> QED
        BY <2>1
<1>5. Kept(s, S) = iter[DOMAIN s]
    BY DEF Kept, FoldLeft, MapThenFoldSet
<1> DEFINE h == [n \in 0 .. Len(s) |-> iter[1 .. n]]
<1>6. iter[{}] = <<>>
    <2> HIDE DEF iter
    <2> QED
        BY <1>4
<1>7. ASSUME NEW n \in 1 .. Len(s)
      PROVE  iter[1 .. n] = IF s[n] \in S THEN Append(iter[1 .. n - 1], s[n])
                                          ELSE iter[1 .. n - 1]
    <2> HIDE DEF iter
    <2>1. 1 .. n \in SUBSET DOMAIN s
        OBVIOUS
    <2>2. iter[1 .. n] = Step(iter, 1 .. n)
        BY <1>4, <2>1
    <2>3. n \in Nat /\ n > 0
        OBVIOUS
    <2>4. Max(1 .. n) = n /\ (1 .. n) \ {n} = 1 .. n - 1 /\ 1 .. n # {}
        BY <2>3, UpTo
    <2> QED
        BY <2>2, <2>4
<1>8. DOMAIN s = 1 .. Len(s) /\ Len(s) \in Nat /\ 1 .. 0 = {}
    OBVIOUS
<1> HIDE DEF iter
<1>9. h[0] = <<>> /\ h[Len(s)] = Kept(s, S)
    BY <1>5, <1>6, <1>8
<1>10. ASSUME NEW n \in 1 .. Len(s)
       PROVE  h[n] = IF s[n] \in S THEN Append(h[n - 1], s[n]) ELSE h[n - 1]
    <2>1. n \in 0 .. Len(s) /\ n - 1 \in 0 .. Len(s)
        OBVIOUS
    <2> QED
        BY <1>7, <2>1
<1> HIDE DEF h
<1> QED
    BY <1>9, <1>10

\* Induction over the numbers up to N.
LEMMA CountUpTo ==
    ASSUME NEW N \in Nat, NEW S, 0 \in S, \A n \in 1 .. N : n - 1 \in S => n \in S
    PROVE  N \in S
<1> DEFINE T == {n \in Nat : n <= N => n \in S}
<1>1. 0 \in T
    OBVIOUS
<1>2. ASSUME NEW n \in Nat, n \in T PROVE n + 1 \in T
    <2> SUFFICES ASSUME n + 1 <= N PROVE n + 1 \in S
        OBVIOUS
    <2>1. n + 1 \in 1 .. N /\ n + 1 - 1 = n /\ n \in S
        BY <1>2
    <2> QED
        BY <2>1
<1>3. \A n \in Nat : n \in T
    <2> HIDE DEF T
    <2> QED
        BY <1>1, <1>2, CountUp
<1> QED
    BY <1>3

\* An element that is appended.
LEMMA Appended ==
    ASSUME NEW B, NEW q \in Seq(B), NEW x \in B
    PROVE  /\ ToSet(Append(q, x)) = ToSet(q) \cup {x}
           /\ IsInjective(q) /\ x \notin ToSet(q) => IsInjective(Append(q, x))
<1>1. /\ DOMAIN q = 1 .. Len(q) /\ DOMAIN Append(q, x) = 1 .. Len(q) + 1
      /\ \A i \in 1 .. Len(q) : Append(q, x)[i] = q[i]
      /\ Append(q, x)[Len(q) + 1] = x /\ Len(q) \in Nat
    OBVIOUS
<1> DEFINE a == Append(q, x)
<1> HIDE DEF a
<1>2. /\ DOMAIN a = 1 .. Len(q) + 1 /\ a[Len(q) + 1] = x
      /\ \A i \in 1 .. Len(q) : a[i] = q[i]
    BY <1>1 DEF a
<1>3. ToSet(a) = ToSet(q) \cup {x}
    <2>1. \A i \in 1 .. Len(q) + 1 : i = Len(q) + 1 \/ i \in 1 .. Len(q)
        BY <1>1
    <2>2. \A i \in 1 .. Len(q) : i \in 1 .. Len(q) + 1
        BY <1>1
    <2>3. Len(q) + 1 \in 1 .. Len(q) + 1
        BY <1>1
    <2> QED
        BY <1>1, <1>2, <2>1, <2>2, <2>3 DEF ToSet
<1>4. ASSUME IsInjective(q), x \notin ToSet(q),
             NEW i \in 1 .. Len(q) + 1, NEW j \in 1 .. Len(q) + 1, a[i] = a[j]
      PROVE  i = j
    <2>1. \A k \in 1 .. Len(q) : q[k] # x
        BY <1>1, <1>4 DEF ToSet
    <2>2. CASE i = Len(q) + 1
        BY <1>1, <1>2, <1>4, <2>1, <2>2
    <2>3. CASE j = Len(q) + 1
        BY <1>1, <1>2, <1>4, <2>1, <2>3
    <2>4. CASE i \in 1 .. Len(q) /\ j \in 1 .. Len(q)
        BY <1>1, <1>2, <1>4, <2>4 DEF IsInjective
    <2> QED
        BY <1>1, <2>2, <2>3, <2>4
<1> QED
    BY <1>2, <1>3, <1>4 DEF a, IsInjective

\* Kept keeps the elements that are in the set, and repeats none.
LEMMA KeptIs ==
    ASSUME NEW B, NEW s \in Seq(B), NEW S
    PROVE  /\ Kept(s, S) \in Seq(B)
           /\ ToSet(Kept(s, S)) = ToSet(s) \cap S
           /\ IsInjective(s) => IsInjective(Kept(s, S))
<1>1. PICK h : /\ h[0] = <<>> /\ h[Len(s)] = Kept(s, S)
               /\ \A n \in 1 .. Len(s) :
                     h[n] = IF s[n] \in S THEN Append(h[n - 1], s[n]) ELSE h[n - 1]
    BY KeptSteps
<1> DEFINE Same(n) == /\ h[n] \in Seq(B)
                      /\ ToSet(h[n]) = {s[i] : i \in 1 .. n} \cap S
                      /\ IsInjective(s) => IsInjective(h[n])
           P == {n \in Nat : Same(n)}
<1>2. 0 \in P
    <2>1. ToSet(<<>>) = {} /\ IsInjective(<<>>) /\ <<>> \in Seq(B)
        BY DEF ToSet, IsInjective
    <2>2. {s[i] : i \in 1 .. 0} = {}
        OBVIOUS
    <2> QED
        BY <1>1, <2>1, <2>2
<1>3. ASSUME NEW n \in 1 .. Len(s), n - 1 \in P PROVE n \in P
    <2>1. n - 1 \in Nat /\ n \in Nat /\ 1 .. n = (1 .. n - 1) \cup {n} /\ s[n] \in B
        OBVIOUS
    <2>2. Same(n - 1)
        BY <1>3
    <2>3. {s[i] : i \in 1 .. n} = {s[i] : i \in 1 .. n - 1} \cup {s[n]}
        BY <2>1
    <2>4. CASE s[n] \in S
        <3>1. h[n] = Append(h[n - 1], s[n])
            BY <1>1, <2>4
        <3>2. ToSet(h[n]) = ToSet(h[n - 1]) \cup {s[n]}
            BY <3>1, <2>1, <2>2, Appended
        <3>3. IsInjective(s) => s[n] \notin ToSet(h[n - 1])
            <4>1. IsInjective(s) => \A i \in 1 .. n - 1 : s[i] # s[n]
                BY <2>1 DEF IsInjective
            <4> QED
                BY <4>1, <2>2
        <3>4. IsInjective(s) => IsInjective(h[n])
            BY <3>1, <3>3, <2>1, <2>2, Appended
        <3>5. h[n] \in Seq(B)
            BY <3>1, <2>1, <2>2
        <3> QED
            BY <3>2, <3>4, <3>5, <2>1, <2>2, <2>3, <2>4
    <2>5. CASE s[n] \notin S
        <3>1. h[n] = h[n - 1]
            BY <1>1, <2>5
        <3> QED
            BY <3>1, <2>1, <2>2, <2>3, <2>5
    <2> QED
        BY <2>4, <2>5
<1>4. Len(s) \in P
    <2> HIDE DEF P
    <2>1. Len(s) \in Nat
        OBVIOUS
    <2> QED
        BY <1>2, <1>3, <2>1, CountUpTo
<1>5. {s[i] : i \in 1 .. Len(s)} = ToSet(s)
    BY DEF ToSet
<1> QED
    BY <1>1, <1>4, <1>5

\* getSupportedResolutions goes over the configs once and pushes what is not there.
LEMMA SupportedSteps ==
    ASSUME NEW R, NEW C, \A c \in C : c.resolution \in R, NEW configs \in Seq(C)
    PROVE  \E h : /\ h[0] = <<>> /\ h[Len(configs)] = SupportedResolutions(configs)
                  /\ \A n \in 1 .. Len(configs) :
                        h[n] = IF Contains(h[n - 1], configs[n].resolution) THEN h[n - 1]
                      ELSE Append(h[n - 1], configs[n].resolution)
<1> DEFINE Step(f, t) ==
        IF t = {} THEN <<>>
        ELSE IF Contains(f[t \ {Max(t)}], configs[Max(t)].resolution) THEN f[t \ {Max(t)}]
                      ELSE Append(f[t \ {Max(t)}], configs[Max(t)].resolution)
           iter == CHOOSE f : f = [t \in SUBSET DOMAIN configs |-> Step(f, t)]
           op == [p \in Seq(R) \X C |->
                      IF Contains(p[1], p[2].resolution) THEN p[1]
                      ELSE Append(p[1], p[2].resolution)]
<1>1. op \in [Seq(R) \X C -> Seq(R)] /\ <<>> \in Seq(R)
    OBVIOUS
<1>2. \E f : Folding(f, Seq(R), <<>>, op, configs)
    <2> HIDE DEF op
    <2> QED
        BY <1>1, FoldExists
<1>3. PICK f : Folding(f, Seq(R), <<>>, op, configs)
    BY <1>2
<1>4. ASSUME NEW t \in SUBSET DOMAIN configs PROVE f[t] = Step(f, t)
    <2>1. CASE t = {}
        BY <2>1, <1>3 DEF Folding
    <2>2. CASE t # {}
        <3>1. Max(t) \in t
            BY <2>2, MaxIn
        <3>2. <<f[t \ {Max(t)}], configs[Max(t)]>> \in Seq(R) \X C
            BY <3>1, <1>3 DEF Folding
        <3> QED
            BY <2>2, <3>2, <1>3 DEF Folding
    <2> QED
        BY <2>1, <2>2
<1>5. iter = [t \in SUBSET DOMAIN configs |-> Step(iter, t)]
    <2>1. f = [t \in SUBSET DOMAIN configs |-> Step(f, t)]
        BY <1>3, <1>4 DEF Folding
    <2> HIDE DEF Step
    <2> QED
        BY <2>1
<1>6. SupportedResolutions(configs) = iter[DOMAIN configs]
    BY DEF SupportedResolutions, FoldLeft, MapThenFoldSet
<1>7. iter[{}] = <<>>
    <2> HIDE DEF iter
    <2> QED
        BY <1>5
<1>8. ASSUME NEW n \in 1 .. Len(configs)
      PROVE  iter[1 .. n] = IF Contains(iter[1 .. n - 1], configs[n].resolution)
                            THEN iter[1 .. n - 1]
                      ELSE Append(iter[1 .. n - 1], configs[n].resolution)
    <2> HIDE DEF iter
    <2>1. 1 .. n \in SUBSET DOMAIN configs /\ n \in Nat /\ n > 0
        OBVIOUS
    <2>2. iter[1 .. n] = Step(iter, 1 .. n)
        BY <1>5, <2>1
    <2>3. Max(1 .. n) = n /\ (1 .. n) \ {n} = 1 .. n - 1 /\ 1 .. n # {}
        BY <2>1, UpTo
    <2> QED
        BY <2>2, <2>3
<1>9. DOMAIN configs = 1 .. Len(configs) /\ Len(configs) \in Nat /\ 1 .. 0 = {}
    OBVIOUS
<1> DEFINE h == [n \in 0 .. Len(configs) |-> iter[1 .. n]]
<1> HIDE DEF iter
<1>10. h[0] = <<>> /\ h[Len(configs)] = SupportedResolutions(configs)
    BY <1>6, <1>7, <1>9
<1>11. ASSUME NEW n \in 1 .. Len(configs)
       PROVE  h[n] = IF Contains(h[n - 1], configs[n].resolution) THEN h[n - 1]
                      ELSE Append(h[n - 1], configs[n].resolution)
    <2>1. n \in 0 .. Len(configs) /\ n - 1 \in 0 .. Len(configs)
        OBVIOUS
    <2> QED
        BY <1>8, <2>1
<1> HIDE DEF h
<1> QED
    BY <1>10, <1>11

\* findBestResolution goes over the resolutions once, with the best so far.
LEMMA BestSteps ==
    ASSUME NEW R, NEW display, NEW rs \in Seq(R)
    PROVE  \E h : /\ h[0] = NoResolution /\ h[Len(rs)] = BestResolution(display, rs)
                  /\ \A n \in 1 .. Len(rs) :
                        h[n] = IF CanFit(display, rs[n])
                                  /\ (h[n - 1] = NoResolution \/ IsSmaller(rs[n], h[n - 1]))
                      THEN rs[n] ELSE h[n - 1]
<1> DEFINE Step(f, t) ==
        IF t = {} THEN NoResolution
        ELSE IF CanFit(display, rs[Max(t)])
                /\ (f[t \ {Max(t)}] = NoResolution \/ IsSmaller(rs[Max(t)], f[t \ {Max(t)}]))
                      THEN rs[Max(t)] ELSE f[t \ {Max(t)}]
           iter == CHOOSE f : f = [t \in SUBSET DOMAIN rs |-> Step(f, t)]
           op == [p \in (R \cup {NoResolution}) \X R |->
                      IF CanFit(display, p[2]) /\ (p[1] = NoResolution \/ IsSmaller(p[2], p[1]))
                      THEN p[2] ELSE p[1]]
<1>1. /\ op \in [(R \cup {NoResolution}) \X R -> (R \cup {NoResolution})]
     /\ NoResolution \in (R \cup {NoResolution})
    OBVIOUS
<1>2. \E f : Folding(f, (R \cup {NoResolution}), NoResolution, op, rs)
    <2> HIDE DEF op
    <2> QED
        BY <1>1, FoldExists
<1>3. PICK f : Folding(f, (R \cup {NoResolution}), NoResolution, op, rs)
    BY <1>2
<1>4. ASSUME NEW t \in SUBSET DOMAIN rs PROVE f[t] = Step(f, t)
    <2>1. CASE t = {}
        BY <2>1, <1>3 DEF Folding
    <2>2. CASE t # {}
        <3>1. Max(t) \in t
            BY <2>2, MaxIn
        <3>2. <<f[t \ {Max(t)}], rs[Max(t)]>> \in (R \cup {NoResolution}) \X R
            BY <3>1, <1>3 DEF Folding
        <3> QED
            BY <2>2, <3>2, <1>3 DEF Folding
    <2> QED
        BY <2>1, <2>2
<1>5. iter = [t \in SUBSET DOMAIN rs |-> Step(iter, t)]
    <2>1. f = [t \in SUBSET DOMAIN rs |-> Step(f, t)]
        BY <1>3, <1>4 DEF Folding
    <2> HIDE DEF Step
    <2> QED
        BY <2>1
<1>6. BestResolution(display, rs) = iter[DOMAIN rs]
    BY DEF BestResolution, FoldLeft, MapThenFoldSet
<1>7. iter[{}] = NoResolution
    <2> HIDE DEF iter
    <2> QED
        BY <1>5
<1>8. ASSUME NEW n \in 1 .. Len(rs)
      PROVE  iter[1 .. n] = IF CanFit(display, rs[n])
                               /\ (iter[1 .. n - 1] = NoResolution \/ IsSmaller(rs[n], iter[1 .. n - 1]))
                      THEN rs[n] ELSE iter[1 .. n - 1]
    <2> HIDE DEF iter
    <2>1. 1 .. n \in SUBSET DOMAIN rs /\ n \in Nat /\ n > 0
        OBVIOUS
    <2>2. iter[1 .. n] = Step(iter, 1 .. n)
        BY <1>5, <2>1
    <2>3. Max(1 .. n) = n /\ (1 .. n) \ {n} = 1 .. n - 1 /\ 1 .. n # {}
        BY <2>1, UpTo
    <2> QED
        BY <2>2, <2>3
<1>9. DOMAIN rs = 1 .. Len(rs) /\ Len(rs) \in Nat /\ 1 .. 0 = {}
    OBVIOUS
<1> DEFINE h == [n \in 0 .. Len(rs) |-> iter[1 .. n]]
<1> HIDE DEF iter
<1>10. h[0] = NoResolution /\ h[Len(rs)] = BestResolution(display, rs)
    BY <1>6, <1>7, <1>9
<1>11. ASSUME NEW n \in 1 .. Len(rs)
       PROVE  h[n] = IF CanFit(display, rs[n])
                        /\ (h[n - 1] = NoResolution \/ IsSmaller(rs[n], h[n - 1]))
                      THEN rs[n] ELSE h[n - 1]
    <2>1. n \in 0 .. Len(rs) /\ n - 1 \in 0 .. Len(rs)
        OBVIOUS
    <2> QED
        BY <1>8, <2>1
<1> HIDE DEF h
<1> QED
    BY <1>10, <1>11

\* The supported resolutions are those of the configs, each once.
LEMMA SupportedIs ==
    ASSUME NEW R, NEW C, \A c \in C : c.resolution \in R, NEW configs \in Seq(C)
    PROVE  /\ SupportedResolutions(configs) \in Seq(R)
           /\ ToSet(SupportedResolutions(configs)) =
                  {c.resolution : c \in ToSet(configs)}
           /\ IsInjective(SupportedResolutions(configs))
<1>1. PICK h : /\ h[0] = <<>> /\ h[Len(configs)] = SupportedResolutions(configs)
               /\ \A n \in 1 .. Len(configs) :
                     h[n] = IF Contains(h[n - 1], configs[n].resolution) THEN h[n - 1]
                            ELSE Append(h[n - 1], configs[n].resolution)
    BY SupportedSteps
<1> DEFINE Same(n) == /\ h[n] \in Seq(R)
                      /\ ToSet(h[n]) = {configs[i].resolution : i \in 1 .. n}
                      /\ IsInjective(h[n])
           P == {n \in Nat : Same(n)}
<1>2. 0 \in P
    <2>1. ToSet(<<>>) = {} /\ IsInjective(<<>>) /\ <<>> \in Seq(R)
        BY DEF ToSet, IsInjective
    <2>2. {configs[i].resolution : i \in 1 .. 0} = {}
        OBVIOUS
    <2> QED
        BY <1>1, <2>1, <2>2
<1>3. ASSUME NEW n \in 1 .. Len(configs), n - 1 \in P PROVE n \in P
    <2> DEFINE r == configs[n].resolution
    <2>1. n - 1 \in Nat /\ n \in Nat /\ 1 .. n = (1 .. n - 1) \cup {n} /\ r \in R
        OBVIOUS
    <2>2. Same(n - 1)
        BY <1>3
    <2>3. {configs[i].resolution : i \in 1 .. n}
              = {configs[i].resolution : i \in 1 .. n - 1} \cup {r}
        BY <2>1
    <2>4. Contains(h[n - 1], r) <=> r \in ToSet(h[n - 1])
        BY <2>2 DEF Contains, ToSet
    <2>5. CASE r \in ToSet(h[n - 1])
        <3>1. h[n] = h[n - 1]
            BY <1>1, <2>4, <2>5
        <3> QED
            BY <3>1, <2>1, <2>2, <2>3, <2>5
    <2>6. CASE r \notin ToSet(h[n - 1])
        <3>1. h[n] = Append(h[n - 1], r)
            BY <1>1, <2>4, <2>6
        <3> HIDE DEF r
        <3>2. ToSet(h[n]) = ToSet(h[n - 1]) \cup {r} /\ IsInjective(h[n])
            BY <3>1, <2>1, <2>2, <2>6, Appended
        <3>3. h[n] \in Seq(R)
            BY <3>1, <2>1, <2>2
        <3> QED
            BY <3>2, <3>3, <2>1, <2>2, <2>3
    <2> QED
        BY <2>5, <2>6
<1>4. Len(configs) \in P
    <2> HIDE DEF P
    <2>1. Len(configs) \in Nat
        OBVIOUS
    <2> QED
        BY <1>2, <1>3, <2>1, CountUpTo
<1>5. {configs[i].resolution : i \in 1 .. Len(configs)}
          = {c.resolution : c \in ToSet(configs)}
    BY DEF ToSet
<1> QED
    BY <1>1, <1>4, <1>5

\* What is smaller than one that is smaller is smaller.
LEMMA SmallerOfSmaller ==
    ASSUME NEW r \in Nat \X Nat, NEW s \in Nat \X Nat, NEW t \in Nat \X Nat,
           IsSmaller(r, s), IsSmaller(s, t)
    PROVE  IsSmaller(r, t)
<1>1. r = <<r[1], r[2]>> /\ s = <<s[1], s[2]>> /\ t = <<t[1], t[2]>>
    OBVIOUS
<1>2. /\ r[1] \in Nat /\ r[2] \in Nat /\ s[1] \in Nat
      /\ s[2] \in Nat /\ t[1] \in Nat /\ t[2] \in Nat
    OBVIOUS
<1>3. r[1] <= t[1] /\ r[2] <= t[2]
    BY <1>2 DEF IsSmaller
<1>4. ASSUME r = t PROVE FALSE
    <2>1. r[1] = s[1] /\ r[2] = s[2]
        BY <1>2, <1>4 DEF IsSmaller
    <2> QED
        BY <2>1, <1>1 DEF IsSmaller
<1> QED
    BY <1>3, <1>4 DEF IsSmaller

\* The best resolution fits and none that fits is smaller.
LEMMA BestIs ==
    ASSUME NEW R, R \subseteq Nat \X Nat, NoResolution \notin R, NEW display,
           NEW rs \in Seq(R)
    PROVE  LET best == BestResolution(display, rs)
               fits == {r \in ToSet(rs) : CanFit(display, r)}
           IN  IF best = NoResolution THEN fits = {}
               ELSE best \in fits /\ ~\E r \in fits : IsSmaller(r, best)
<1>1. PICK h : /\ h[0] = NoResolution /\ h[Len(rs)] = BestResolution(display, rs)
               /\ \A n \in 1 .. Len(rs) :
                     h[n] = IF CanFit(display, rs[n])
                               /\ (h[n - 1] = NoResolution \/ IsSmaller(rs[n], h[n - 1]))
                            THEN rs[n] ELSE h[n - 1]
    BY BestSteps
<1> DEFINE Fits(n) == {r \in {rs[i] : i \in 1 .. n} : CanFit(display, r)}
           Best(n) == IF h[n] = NoResolution THEN Fits(n) = {}
                      ELSE h[n] \in Fits(n) /\ ~\E r \in Fits(n) : IsSmaller(r, h[n])
           P == {n \in Nat : Best(n)}
<1>2. 0 \in P
    BY <1>1
<1>3. ASSUME NEW n \in 1 .. Len(rs), n - 1 \in P PROVE n \in P
    <2>1. n - 1 \in Nat /\ n \in Nat /\ 1 .. n = (1 .. n - 1) \cup {n} /\ rs[n] \in R
        OBVIOUS
    <2>2. Best(n - 1)
        BY <1>3
    <2>3. Fits(n) = IF CanFit(display, rs[n]) THEN Fits(n - 1) \cup {rs[n]} ELSE Fits(n - 1)
        BY <2>1
    <2>4. Fits(n - 1) \subseteq R
        OBVIOUS
    <2> HIDE DEF Fits
    <2>5. CASE ~CanFit(display, rs[n])
        <3>1. h[n] = h[n - 1]
            BY <1>1, <2>5
        <3> QED
            BY <3>1, <2>1, <2>2, <2>3, <2>5
    <2>6. CASE CanFit(display, rs[n]) /\ h[n - 1] = NoResolution
        <3>1. h[n] = rs[n] /\ rs[n] # NoResolution
            BY <1>1, <2>1, <2>6
        <3>2. Fits(n) = {rs[n]}
            BY <2>2, <2>3, <2>6
        <3>3. ~IsSmaller(rs[n], rs[n])
            BY DEF IsSmaller
        <3> QED
            BY <3>1, <3>2, <3>3, <2>1
    <2>7. CASE /\ CanFit(display, rs[n]) /\ h[n - 1] # NoResolution
               /\ ~IsSmaller(rs[n], h[n - 1])
        <3>1. h[n] = h[n - 1]
            BY <1>1, <2>7
        <3>2. Fits(n) = Fits(n - 1) \cup {rs[n]}
            BY <2>3, <2>7
        <3> QED
            BY <3>1, <3>2, <2>1, <2>2, <2>7
    <2>8. CASE /\ CanFit(display, rs[n]) /\ h[n - 1] # NoResolution
               /\ IsSmaller(rs[n], h[n - 1])
        <3>1. h[n] = rs[n] /\ rs[n] # NoResolution
            BY <1>1, <2>1, <2>8
        <3>2. Fits(n) = Fits(n - 1) \cup {rs[n]}
            BY <2>3, <2>8
        <3>3. h[n - 1] \in R /\ h[n - 1] \in Nat \X Nat /\ rs[n] \in Nat \X Nat
            BY <2>1, <2>2, <2>4, <2>8
        <3>4. ASSUME NEW r \in Fits(n - 1), IsSmaller(r, rs[n]) PROVE FALSE
            <4>1. r \in Nat \X Nat
                BY <2>4
            <4>2. IsSmaller(r, h[n - 1])
                BY <4>1, <3>3, <3>4, <2>8, SmallerOfSmaller
            <4> QED
                BY <4>2, <2>2, <2>8
        <3>5. ~IsSmaller(rs[n], rs[n])
            BY DEF IsSmaller
        <3> QED
            BY <3>1, <3>2, <3>4, <3>5, <2>1
    <2> QED
        BY <2>5, <2>6, <2>7, <2>8
<1>4. Len(rs) \in P
    <2> HIDE DEF P
    <2>1. Len(rs) \in Nat
        OBVIOUS
    <2> QED
        BY <1>2, <1>3, <2>1, CountUpTo
<1>5. {rs[i] : i \in 1 .. Len(rs)} = ToSet(rs)
    BY DEF ToSet
<1> QED
    BY <1>1, <1>4, <1>5

\* Two sequences one after the other.
LEMMA Joined ==
    ASSUME NEW B, NEW a \in Seq(B), NEW b \in Seq(B)
    PROVE  /\ a \o b \in Seq(B) /\ ToSet(a \o b) = ToSet(a) \cup ToSet(b)
           /\ IsInjective(a) /\ IsInjective(b) /\ ToSet(a) \cap ToSet(b) = {}
                  => IsInjective(a \o b)
<1> DEFINE q == a \o b
           m == Len(a)
           n == Len(b)
<1>1. /\ q \in Seq(B) /\ DOMAIN q = 1 .. m + n /\ m \in Nat /\ n \in Nat
      /\ DOMAIN a = 1 .. m /\ DOMAIN b = 1 .. n
      /\ \A i \in 1 .. m + n : q[i] = IF i <= m THEN a[i] ELSE b[i - m]
    OBVIOUS
<1> HIDE DEF q, m, n
<1>2. ToSet(q) = ToSet(a) \cup ToSet(b)
    <2>1. ASSUME NEW x \in ToSet(q) PROVE x \in ToSet(a) \cup ToSet(b)
        <3>1. PICK i \in 1 .. m + n : x = q[i]
            BY <1>1 DEF ToSet
        <3>2. CASE i <= m
            <4>1. i \in 1 .. m
                BY <1>1, <3>2
            <4> QED
                BY <1>1, <3>1, <3>2, <4>1 DEF ToSet
        <3>3. CASE ~(i <= m)
            <4>1. i - m \in 1 .. n
                BY <1>1, <3>3
            <4> QED
                BY <1>1, <3>1, <3>3, <4>1 DEF ToSet
        <3> QED
            BY <3>2, <3>3
    <2>2. ASSUME NEW x \in ToSet(a) PROVE x \in ToSet(q)
        <3>1. PICK i \in 1 .. m : x = a[i]
            BY <1>1, <2>2 DEF ToSet
        <3>2. i \in 1 .. m + n /\ q[i] = x
            BY <1>1, <3>1
        <3> QED
            BY <1>1, <3>2 DEF ToSet
    <2>3. ASSUME NEW x \in ToSet(b) PROVE x \in ToSet(q)
        <3>1. PICK i \in 1 .. n : x = b[i]
            BY <1>1, <2>3 DEF ToSet
        <3>2. i + m \in 1 .. m + n /\ ~(i + m <= m) /\ i + m - m = i
            BY <1>1
        <3>3. q[i + m] = x
            BY <1>1, <3>1, <3>2
        <3> QED
            BY <1>1, <3>2, <3>3 DEF ToSet
    <2> QED
        BY <2>1, <2>2, <2>3
<1>3. ASSUME IsInjective(a), IsInjective(b), ToSet(a) \cap ToSet(b) = {},
             NEW i \in 1 .. m + n, NEW j \in 1 .. m + n, q[i] = q[j]
      PROVE  i = j
    <2>1. \A k \in 1 .. m, l \in 1 .. n : a[k] # b[l]
        BY <1>1, <1>3 DEF ToSet
    <2>2. CASE i <= m /\ j <= m
        <3>1. i \in 1 .. m /\ j \in 1 .. m /\ a[i] = a[j]
            BY <1>1, <1>3, <2>2
        <3> QED
            BY <1>1, <1>3, <3>1 DEF IsInjective
    <2>3. CASE ~(i <= m) /\ ~(j <= m)
        <3>1. i - m \in 1 .. n /\ j - m \in 1 .. n /\ b[i - m] = b[j - m]
            BY <1>1, <1>3, <2>3
        <3>2. i - m = j - m
            BY <1>1, <1>3, <3>1 DEF IsInjective
        <3> QED
            BY <1>1, <3>2
    <2>4. CASE i <= m /\ ~(j <= m)
        <3>1. i \in 1 .. m /\ j - m \in 1 .. n /\ a[i] = b[j - m]
            BY <1>1, <1>3, <2>4
        <3> QED
            BY <2>1, <3>1
    <2>5. CASE ~(i <= m) /\ j <= m
        <3>1. j \in 1 .. m /\ i - m \in 1 .. n /\ a[j] = b[i - m]
            BY <1>1, <1>3, <2>5
        <3> QED
            BY <2>1, <3>1
    <2> QED
        BY <2>2, <2>3, <2>4, <2>5
<1> QED
    BY <1>1, <1>2, <1>3 DEF q, IsInjective

\* FlattenSeq goes over the sequences once, and puts each behind the result so far.
LEMMA FlattenSteps ==
    ASSUME NEW B, NEW ss \in Seq(Seq(B)), Len(ss) > 0
    PROVE  \E h : /\ h[1] = ss[1] /\ h[Len(ss)] = FlattenSeq(ss)
                  /\ \A n \in 2 .. Len(ss) : h[n] = h[n - 1] \o ss[n]
<1> DEFINE op == [p \in Seq(B) \X Seq(B) |-> p[1] \o p[2]]
           Step(f, i) == IF i = 1 THEN ss[i] ELSE f[i - 1] \o ss[i]
           flatten == CHOOSE f : f = [i \in 1 .. Len(ss) |-> Step(f, i)]
<1>1. op \in [Seq(B) \X Seq(B) -> Seq(B)] /\ <<>> \in Seq(B)
    OBVIOUS
<1>2. \E f : Folding(f, Seq(B), <<>>, op, ss)
    <2> HIDE DEF op
    <2> QED
        BY <1>1, FoldExists
<1>3. PICK f : Folding(f, Seq(B), <<>>, op, ss)
    BY <1>2
<1>4. ASSUME NEW i \in 1 .. Len(ss) PROVE f[1 .. i] = f[1 .. i - 1] \o ss[i]
    <2>1. 1 .. i \in SUBSET DOMAIN ss /\ 1 .. i - 1 \in SUBSET DOMAIN ss /\ i \in Nat /\ i > 0
        OBVIOUS
    <2>2. Max(1 .. i) = i /\ (1 .. i) \ {i} = 1 .. i - 1 /\ 1 .. i # {}
        BY <2>1, UpTo
    <2>3. f[1 .. i] = op[<<f[1 .. i - 1], ss[i]>>]
        BY <2>1, <2>2, <1>3 DEF Folding
    <2>4. <<f[1 .. i - 1], ss[i]>> \in Seq(B) \X Seq(B)
        BY <2>1, <1>3 DEF Folding
    <2> QED
        BY <2>3, <2>4
<1>5. f[1 .. 0] = <<>>
    <2>1. 1 .. 0 = {} /\ {} \in SUBSET DOMAIN ss
        OBVIOUS
    <2> QED
        BY <2>1, <1>3 DEF Folding
<1>6. flatten = [i \in 1 .. Len(ss) |-> Step(flatten, i)]
    <2> DEFINE g == [i \in 1 .. Len(ss) |-> f[1 .. i]]
    <2>1. ASSUME NEW i \in 1 .. Len(ss) PROVE g[i] = Step(g, i)
        <3>1. CASE i = 1
            <4>1. f[1 .. i] = f[1 .. i - 1] \o ss[i]
                BY <1>4
            <4>2. i - 1 = 0 /\ ss[i] \in Seq(B)
                BY <3>1
            <4>3. f[1 .. i] = <<>> \o ss[i]
                BY <4>1, <4>2, <1>5
            <4>4. f[1 .. i] = ss[i]
                BY <4>2, <4>3
            <4> QED
                BY <4>4, <3>1
        <3>2. CASE i # 1
            <4>1. i - 1 \in 1 .. Len(ss)
                BY <3>2
            <4> QED
                BY <4>1, <1>4, <3>2
        <3> QED
            BY <3>1, <3>2
    <2>2. g = [i \in 1 .. Len(ss) |-> Step(g, i)]
        BY <2>1
    <2> HIDE DEF g, Step
    <2> QED
        BY <2>2
<1>7. FlattenSeq(ss) = flatten[Len(ss)]
    BY DEF FlattenSeq
<1> HIDE DEF flatten
<1>8. ASSUME NEW n \in 1 .. Len(ss) PROVE flatten[n] = Step(flatten, n)
    <2> HIDE DEF Step
    <2> QED
        BY <1>6
<1>9. flatten[1] = ss[1]
    <2>1. 1 \in 1 .. Len(ss)
        OBVIOUS
    <2> QED
        BY <1>8, <2>1
<1>10. ASSUME NEW n \in 2 .. Len(ss) PROVE flatten[n] = flatten[n - 1] \o ss[n]
    <2>1. n \in 1 .. Len(ss) /\ n # 1
        OBVIOUS
    <2> QED
        BY <1>8, <2>1
<1> QED
    BY <1>7, <1>9, <1>10

\* The elements of a sequence of sequences that is flattened; none is there twice if
\* none is in one of them twice or in two of them.
LEMMA FlattenIs ==
    ASSUME NEW B, NEW ss \in Seq(Seq(B))
    PROVE  /\ FlattenSeq(ss) \in Seq(B)
           /\ ToSet(FlattenSeq(ss)) = UNION {ToSet(ss[i]) : i \in DOMAIN ss}
           /\ /\ \A i \in DOMAIN ss : IsInjective(ss[i])
              /\ \A i, j \in DOMAIN ss : i # j => ToSet(ss[i]) \cap ToSet(ss[j]) = {}
              => IsInjective(FlattenSeq(ss))
<1>1. CASE Len(ss) = 0
    <2>1. FlattenSeq(ss) = ss /\ ss = <<>>
        BY <1>1 DEF FlattenSeq
    <2> QED
        BY <2>1 DEF ToSet, IsInjective
<1>2. CASE Len(ss) > 0
    <2>1. PICK h : /\ h[1] = ss[1] /\ h[Len(ss)] = FlattenSeq(ss)
                   /\ \A n \in 2 .. Len(ss) : h[n] = h[n - 1] \o ss[n]
        BY <1>2, FlattenSteps
    <2> DEFINE Apart == /\ \A i \in DOMAIN ss : IsInjective(ss[i])
                        /\ \A i, j \in DOMAIN ss :
                              i # j => ToSet(ss[i]) \cap ToSet(ss[j]) = {}
               Upto(n) == UNION {ToSet(ss[i]) : i \in 1 .. n}
               Same(n) == /\ h[n] \in Seq(B) /\ ToSet(h[n]) = Upto(n)
                          /\ Apart => IsInjective(h[n])
               P == {n \in Nat : n = 0 \/ Same(n)}
    <2>2. ASSUME NEW n \in 1 .. Len(ss), n - 1 \in P PROVE n \in P
        <3>1. /\ n \in Nat /\ ss[n] \in Seq(B) /\ n \in DOMAIN ss /\ 1 \in DOMAIN ss
              /\ DOMAIN ss = 1 .. Len(ss)
            OBVIOUS
        <3>2. CASE n = 1
            <4>1. Upto(1) = ToSet(ss[1])
                OBVIOUS
            <4>2. Same(1)
                BY <4>1, <2>1, <3>1, <3>2
            <4> QED
                BY <4>2, <3>2
        <3>3. CASE n # 1
            <4>1. n \in 2 .. Len(ss) /\ n - 1 # 0 /\ 1 .. n = (1 .. n - 1) \cup {n}
                BY <3>3
            <4>2. Same(n - 1)
                BY <2>2, <4>1
            <4>3. h[n] = h[n - 1] \o ss[n]
                BY <2>1, <4>1
            <4>4. Upto(n) = Upto(n - 1) \cup ToSet(ss[n])
                BY <4>1
            <4>5. ASSUME Apart PROVE Upto(n - 1) \cap ToSet(ss[n]) = {}
                <5>1. \A i \in 1 .. n - 1 : i \in DOMAIN ss /\ i # n
                    BY <3>1
                <5>2. \A i \in 1 .. n - 1 : ToSet(ss[i]) \cap ToSet(ss[n]) = {}
                    BY <5>1, <4>5, <3>1
                <5> QED
                    BY <5>2
            <4>6. Apart => IsInjective(ss[n])
                BY <3>1
            <4> HIDE DEF Upto, Apart
            <4>7. Same(n)
                BY <4>2, <4>3, <4>4, <4>5, <4>6, <3>1, Joined
            <4> QED
                BY <4>7, <3>1
        <3> QED
            BY <3>2, <3>3
    <2>3. Len(ss) \in P
        <3>1. 0 \in P /\ Len(ss) \in Nat
            OBVIOUS
        <3> HIDE DEF P
        <3> QED
            BY <2>2, <3>1, CountUpTo
    <2>4. Same(Len(ss)) /\ 1 .. Len(ss) = DOMAIN ss
        BY <2>3, <1>2
    <2>5. Upto(Len(ss)) = UNION {ToSet(ss[i]) : i \in DOMAIN ss}
        BY <2>4
    <2> HIDE DEF Upto
    <2> QED
        BY <2>1, <2>4, <2>5
<1>3. Len(ss) \in Nat
    OBVIOUS
<1> QED
    BY <1>1, <1>2, <1>3

\* A quotient that is rounded is off by one half at most.
LEMMA Rounded ==
    ASSUME NEW n \in Int, NEW d \in Nat \ {0}
    PROVE  /\ Round(n, d) \in Int
           /\ 2 * n - d <= 2 * (d * Round(n, d)) /\ 2 * (d * Round(n, d)) <= 2 * n + d
           /\ 2 * n - d < 2 * (d * Round(n, d))
           /\ n >= 0 => Round(n, d) >= 0
<1> DEFINE a == 2 * n + d
           b == 2 * d
           q == a \div b
<1>1. a \in Int /\ b \in Nat /\ b > 0
    OBVIOUS
<1> HIDE DEF a, b
<1>2. q \in Int /\ b * q <= a /\ a < b * q + b /\ (a >= 0 => q >= 0)
    BY <1>1
<1>3. Round(n, d) = q
    BY DEF Round, a, b
<1> HIDE DEF q
<1>4. b * q = 2 * (d * q)
    BY <1>2 DEF b
<1>5. d * q \in Int
    BY <1>2
<1> QED
    BY <1>2, <1>3, <1>4, <1>5 DEF a, b

\* A whole number is rounded to itself.
LEMMA RoundedToOne ==
    ASSUME NEW n \in Int
    PROVE  Round(n, 1) = n
BY DEF Round

\* The sizes there are, of displays and of videos.
Sizes == (Nat \ {0}) \X (Nat \ {0})

\* Of a scaled video: w by v of it are shown, of which w has the display's
\* width a, b being its height.
LEMMA Shape ==
    ASSUME NEW a \in Nat \ {0}, NEW b \in Nat \ {0}, NEW w \in Nat \ {0}, NEW x \in Nat \ {0},
           NEW dens \in Nat \ {0},
           a * x >= b * w, a < 2 * w * b
    PROVE  LET m == Round(x * a - b * w, a)
               v == x - m
               k == Round(dens * w, a)
           IN  /\ Round(w * a - a * w, a) = 0
               /\ m \in Int /\ m >= 0 /\ v > 0 /\ k \in Int
               /\ 2 * Abs(w * b - v * a) <= a
               /\ 2 * Abs(w * dens - a * k) <= a
               /\ 2 * Abs(v * dens - b * k) <= dens + b
<1> DEFINE m == Round(x * a - b * w, a)
           v == x - m
           k == Round(dens * w, a)
<1>1. /\ x * a \in Int /\ b * w \in Int /\ w * a \in Int
      /\ w * a - a * w = 0 /\ dens * w \in Nat /\ a * x = x * a
    OBVIOUS
<1>2. Round(w * a - a * w, a) = 0
    <2>1. w * a - a * w = 0
        BY <1>1
    <2>2. 2 * 0 + a = a /\ a < 2 * a /\ a \div (2 * a) = 0
        OBVIOUS
    <2> QED
        BY <2>1, <2>2 DEF Round
<1>3. /\ m \in Int /\ m >= 0
      /\ 2 * (x * a - b * w) - a < 2 * (a * m)
      /\ 2 * (a * m) <= 2 * (x * a - b * w) + a
    <2>1. x * a - b * w \in Int /\ x * a - b * w >= 0
        BY <1>1
    <2> QED
        BY <2>1, Rounded
<1>4. /\ k \in Int /\ 2 * (dens * w) - a <= 2 * (a * k)
      /\ 2 * (a * k) <= 2 * (dens * w) + a
    BY <1>1, Rounded
<1> HIDE DEF m, k
<1>5. v \in Int /\ a * v = x * a - a * m /\ a * m \in Int /\ v * a = a * v /\ a * k \in Int
    BY <1>3, <1>4
<1>6. 2 * (a * v) >= 2 * (b * w) - a /\ 2 * (a * v) < 2 * (b * w) + a /\ a * v \in Int
    BY <1>1, <1>3, <1>5
<1>7. v > 0
    <2>1. 2 * (b * w) - a > 0
        <3>1. 2 * w * b = 2 * (b * w)
            OBVIOUS
        <3> QED
            BY <3>1, <1>1
    <2>2. a * v > 0
        BY <2>1, <1>6, <1>1
    <2> HIDE DEF v
    <2> QED
        BY <2>2, <1>5
<1>8. 2 * Abs(w * b - v * a) <= a
    <2>1. w * b = b * w /\ v * a = a * v
        BY <1>5
    <2> HIDE DEF v
    <2> QED
        BY <2>1, <1>1, <1>6 DEF Abs
<1>9. 2 * Abs(w * dens - a * k) <= a
    <2>1. w * dens = dens * w
        OBVIOUS
    <2> QED
        BY <2>1, <1>1, <1>4, <1>5 DEF Abs
<1>10. 2 * Abs(v * dens - b * k) <= dens + b
    <2> HIDE DEF v
    <2> DEFINE e == 2 * (v * dens - b * k)
    <2>1. e \in Int /\ v * dens \in Int /\ b * k \in Int
        BY <1>4, <1>5
    <2>2. a * e = dens * (2 * (a * v)) - b * (2 * (a * k))
        BY <1>4, <1>5
    <2>3. /\ dens * (2 * (a * v)) <= dens * (2 * (b * w) + a)
          /\ dens * (2 * (a * v)) >= dens * (2 * (b * w) - a)
        BY <1>1, <1>6
    <2>4. /\ b * (2 * (a * k)) <= b * (2 * (dens * w) + a)
          /\ b * (2 * (a * k)) >= b * (2 * (dens * w) - a)
        BY <1>1, <1>4, <1>5
    <2>5. /\ dens * (2 * (b * w) + a) - b * (2 * (dens * w) - a) = a * (dens + b)
          /\ dens * (2 * (b * w) - a) - b * (2 * (dens * w) + a) = -(a * (dens + b))
        OBVIOUS
    <2>6. a * e <= a * (dens + b) /\ a * e >= -(a * (dens + b))
        BY <2>2, <2>3, <2>4, <2>5, <1>1, <1>4, <1>5, <1>6
    <2> HIDE DEF e
    <2>7. e <= dens + b /\ e >= -(dens + b)
        BY <2>1, <2>6
    <2>8. Abs(v * dens - b * k) = IF v * dens - b * k >= 0 THEN v * dens - b * k
                                  ELSE -(v * dens - b * k)
        BY DEF Abs
    <2>9. e = 2 * (v * dens - b * k)
        BY DEF e
    <2> QED
        BY <2>1, <2>7, <2>8, <2>9
<1> QED
    BY <1>2, <1>3, <1>4, <1>7, <1>8, <1>9, <1>10 DEF m, k

\* A resolution that is scaled shows the shape of the display.
LEMMA ScaledShows ==
    ASSUME NEW r \in Sizes, NEW display \in Sizes, NEW density \in Nat \ {0}, NEW format,
           display[1] < 2 * r[1] * display[2], display[2] < 2 * r[2] * display[1]
    PROVE  LET ratio == Ratio(r, display, FALSE)
               c == [resolution |-> r, format |-> format,
                     density |-> Round(density * ratio[2], ratio[1]),
                     right |-> Margin(r[1], display[1], ratio),
                     bottom |-> Margin(r[2], display[2], ratio)]
           IN  Shows(c, display, density, FALSE)
<1> DEFINE a == display[1]
           b == display[2]
           w == r[1]
           x == r[2]
           ratio == Ratio(r, display, FALSE)
           k == Round(density * ratio[2], ratio[1])
           right == Margin(w, a, ratio)
           bottom == Margin(x, b, ratio)
           c == [resolution |-> r, format |-> format, density |-> k,
                 right |-> right, bottom |-> bottom]
<1>1. a \in Nat \ {0} /\ b \in Nat \ {0} /\ w \in Nat \ {0} /\ x \in Nat \ {0}
    BY DEF Sizes
<1>2. ratio = IF a * x >= b * w THEN <<a, w>> ELSE <<b, x>>
    BY DEF Ratio
<1>3. a < 2 * w * b /\ b < 2 * x * a
    OBVIOUS
<1>4. /\ c.resolution[1] = w /\ c.resolution[2] = x
      /\ c.right = right /\ c.bottom = bottom /\ c.density = k
    OBVIOUS
<1>5. /\ k = Round(density * ratio[2], ratio[1])
      /\ right = Round(w * ratio[1] - a * ratio[2], ratio[1])
      /\ bottom = Round(x * ratio[1] - b * ratio[2], ratio[1])
    BY DEF Margin
<1>6. display = <<a, b>>
    BY DEF Sizes
<1> HIDE DEF a, b, w, x, ratio, k, right, bottom
<1>7. CASE a * x >= b * w
    <2>1. ratio[1] = a /\ ratio[2] = w
        BY <1>2, <1>7
    <2>2. /\ right = 0 /\ bottom \in Int /\ bottom >= 0 /\ x - bottom > 0 /\ k \in Int
          /\ 2 * Abs(w * b - (x - bottom) * a) <= a
          /\ 2 * Abs(w * density - a * k) <= a
        BY <1>1, <1>3, <1>5, <1>7, <2>1, Shape
    <2>3. w - right = w
        BY <1>1, <2>2
    <2>4. /\ right >= 0 /\ bottom >= 0 /\ w - right > 0 /\ x - bottom > 0
          /\ 2 * Abs((w - right) * density - a * k) <= density + a
          /\ 2 * Abs((w - right) * b - (x - bottom) * a) <= a + b
        <3>1. /\ Abs(w * density - a * k) \in Int /\ Abs(w * b - (x - bottom) * a) \in Int
            BY <1>1, <2>2 DEF Abs
        <3> QED
            BY <1>1, <2>2, <2>3, <3>1
    <2> HIDE DEF c
    <2> QED
        BY <1>4, <2>4 DEF Shows, a, b, k, right, bottom, c, ratio, w, x
<1>8. CASE ~(a * x >= b * w)
    <2>1. ratio[1] = b /\ ratio[2] = x
        BY <1>2, <1>8
    <2>2. b * w >= a * x
        BY <1>1, <1>8
    <2>3. /\ bottom = 0 /\ right \in Int /\ right >= 0 /\ w - right > 0 /\ k \in Int
          /\ 2 * Abs(x * a - (w - right) * b) <= b
          /\ 2 * Abs((w - right) * density - a * k) <= density + a
        BY <1>1, <1>3, <1>5, <2>1, <2>2, Shape
    <2>4. x - bottom = x
        BY <1>1, <2>3
    <2>5. /\ Abs((w - right) * b - x * a) = Abs(x * a - (w - right) * b)
          /\ Abs(x * a - (w - right) * b) \in Int
        <3>1. x * a \in Int /\ (w - right) * b \in Int
            BY <1>1, <2>3
        <3> QED
            BY <3>1 DEF Abs
    <2>6. /\ right >= 0 /\ bottom >= 0 /\ w - right > 0 /\ x - bottom > 0
          /\ 2 * Abs((w - right) * density - a * k) <= density + a
          /\ 2 * Abs((w - right) * b - (x - bottom) * a) <= a + b
        BY <1>1, <2>3, <2>4, <2>5
    <2> HIDE DEF c
    <2> QED
        BY <1>4, <2>6 DEF Shows, a, b, k, right, bottom, c, ratio, w, x
<1> QED
    BY <1>7, <1>8

\* A resolution that holds the display and is not scaled shows its very size.
LEMMA CoverShows ==
    ASSUME NEW r \in Sizes, NEW display \in Sizes, NEW density \in Nat \ {0}, NEW format,
           CanFit(display, r)
    PROVE  LET ratio == Ratio(r, display, TRUE)
               c == [resolution |-> r, format |-> format,
                     density |-> Round(density * ratio[2], ratio[1]),
                     right |-> Margin(r[1], display[1], ratio),
                     bottom |-> Margin(r[2], display[2], ratio)]
           IN  Shows(c, display, density, TRUE)
<1> DEFINE ratio == Ratio(r, display, TRUE)
           k == Round(density * ratio[2], ratio[1])
           right == Margin(r[1], display[1], ratio)
           bottom == Margin(r[2], display[2], ratio)
           c == [resolution |-> r, format |-> format, density |-> k,
                 right |-> right, bottom |-> bottom]
<1>1. /\ display[1] \in Nat \ {0} /\ display[2] \in Nat \ {0}
      /\ r[1] \in Nat \ {0} /\ r[2] \in Nat \ {0} /\ display = <<display[1], display[2]>>
    BY DEF Sizes
<1>2. ratio[1] = 1 /\ ratio[2] = 1
    BY DEF Ratio
<1>3. k = density
    <2>1. density * 1 = density /\ density \in Int
        OBVIOUS
    <2> HIDE DEF ratio
    <2>2. k = Round(density * 1, 1)
        BY <1>2
    <2> HIDE DEF k
    <2> QED
        BY <2>1, <2>2, RoundedToOne
<1>4. right = r[1] - display[1] /\ bottom = r[2] - display[2]
    <2>1. /\ r[1] * 1 - display[1] * 1 = r[1] - display[1]
          /\ r[2] * 1 - display[2] * 1 = r[2] - display[2]
          /\ r[1] - display[1] \in Int /\ r[2] - display[2] \in Int
        BY <1>1
    <2> QED
        BY <1>2, <2>1, RoundedToOne DEF Margin
<1>5. c.resolution = r /\ c.right = right /\ c.bottom = bottom /\ c.density = k
    OBVIOUS
<1> HIDE DEF ratio, k, right, bottom
<1>6. /\ right >= 0 /\ bottom >= 0
      /\ r[1] - right = display[1] /\ r[2] - bottom = display[2]
    BY <1>1, <1>4 DEF CanFit
<1>7. 2 * Abs(display[1] * density - display[1] * k) <= density + display[1]
    <2>1. display[1] * density - display[1] * k = 0
        BY <1>1, <1>3
    <2>2. Abs(0) = 0
        BY DEF Abs
    <2> QED
        BY <1>1, <2>1, <2>2
<1> HIDE DEF c
<1>8. Shows(c, display, density, TRUE)
    BY <1>1, <1>5, <1>6, <1>7 DEF Shows
<1> QED
    BY <1>8 DEF c, ratio, k, right, bottom

\* What is offered of a resolution: each config of it, as Shows has it.
Videos(R, F) ==
    [resolution : R, format : F, density : Int, right : Int, bottom : Int]
Plain(c) == [resolution |-> c.resolution, format |-> c.format]
Fitted(display, r) ==
    display[1] < 2 * r[1] * display[2] /\ display[2] < 2 * r[2] * display[1]

\* All configs of resolution r are offered, once.
OffersAll(offered, r, configs, V) ==
    /\ offered \in Seq(V)
    /\ {Plain(c) : c \in ToSet(offered)} = {c \in ToSet(configs) : c.resolution = r}
    /\ IsInjective(configs) => IsInjective(offered)
    /\ \A c \in ToSet(offered) : c.resolution = r

ShowsSize(c, display, density) == Shows(c, display, density, TRUE)
ShowsShape(c, display, density) == Shows(c, display, density, FALSE)

\* All configs of a resolution are offered, as Shows has them.
LEMMA OfferedIs ==
    ASSUME NEW R, R \subseteq Sizes, NEW F, NEW configs \in Seq([resolution : R, format : F]),
           NEW r \in R, NEW display \in Sizes, NEW density \in Nat \ {0},
           NEW cover \in BOOLEAN,
           IF cover THEN CanFit(display, r) ELSE Fitted(display, r)
    PROVE  LET offered == Offered(r, display, density, configs, cover)
           IN  /\ OffersAll(offered, r, configs, Videos(R, F))
               /\ \A c \in ToSet(offered) :
                     IF cover THEN ShowsSize(c, display, density)
                              ELSE ShowsShape(c, display, density)
<1> DEFINE offered == Offered(r, display, density, configs, cover)
           own == Kept(configs, {c \in ToSet(configs) : c.resolution = r})
           ratio == Ratio(r, display, cover)
           k == Round(density * ratio[2], ratio[1])
           right == Margin(r[1], display[1], ratio)
           bottom == Margin(r[2], display[2], ratio)
           Config(c) == [resolution |-> r, format |-> c.format, density |-> k,
                         right |-> right, bottom |-> bottom]
<1>1. offered = [i \in DOMAIN own |-> Config(own[i])]
    BY DEF Offered
<1>2. /\ own \in Seq([resolution : R, format : F])
      /\ ToSet(own) = {c \in ToSet(configs) : c.resolution = r}
      /\ IsInjective(configs) => IsInjective(own)
    <2> DEFINE S == {c \in ToSet(configs) : c.resolution = r}
    <2>1. ToSet(configs) \cap S = S
        OBVIOUS
    <2> HIDE DEF S
    <2>2. /\ Kept(configs, S) \in Seq([resolution : R, format : F])
          /\ ToSet(Kept(configs, S)) = S
          /\ IsInjective(configs) => IsInjective(Kept(configs, S))
        BY <2>1, KeptIs
    <2> QED
        BY <2>2 DEF S
<1>3. k \in Int /\ right \in Int /\ bottom \in Int
    <2>1. /\ display[1] \in Nat \ {0} /\ display[2] \in Nat \ {0}
          /\ r[1] \in Nat \ {0} /\ r[2] \in Nat \ {0} /\ r \in Sizes
        BY DEF Sizes
    <2>2. ratio[1] \in Nat \ {0} /\ ratio[2] \in Nat \ {0}
        BY <2>1 DEF Ratio
    <2> HIDE DEF ratio, k, right, bottom, own, offered
    <2>3. /\ density * ratio[2] \in Int
          /\ r[1] * ratio[1] - display[1] * ratio[2] \in Int
          /\ r[2] * ratio[1] - display[2] * ratio[2] \in Int
        <3> DEFINE m == ratio[1]
                   n == ratio[2]
                   v == r[1]
                   w == r[2]
                   a == display[1]
                   b == display[2]
        <3> HIDE DEF m, n, v, w, a, b
        <3>1. /\ m \in Nat /\ n \in Nat /\ v \in Nat /\ w \in Nat
              /\ a \in Nat /\ b \in Nat /\ density \in Nat
            BY <2>1, <2>2 DEF m, n, v, w, a, b
        <3>2. density * n \in Int /\ v * m - a * n \in Int /\ w * m - b * n \in Int
            BY <3>1
        <3> QED
            BY <3>2 DEF m, n, v, w, a, b
    <2> QED
        BY <2>2, <2>3, Rounded DEF Margin, k, right, bottom
<1>4. ASSUME NEW f \in F
      PROVE Shows(Config([resolution |-> r, format |-> f]), display, density, cover)
    <2>1. r \in Sizes
        OBVIOUS
    <2>2. CASE cover
        BY <2>1, <2>2, CoverShows
    <2>3. CASE ~cover
        BY <2>1, <2>3, ScaledShows DEF Fitted
    <2> QED
        BY <2>2, <2>3
<1> HIDE DEF own, ratio, k, right, bottom, offered
<1>5. /\ DOMAIN offered = DOMAIN own
      /\ \A i \in DOMAIN own : /\ own[i] \in [resolution : R, format : F]
                               /\ own[i] \in ToSet(configs) /\ own[i].resolution = r
                               /\ offered[i] = Config(own[i])
                               /\ Plain(offered[i]) = own[i]
    <2>1. ASSUME NEW i \in DOMAIN own
          PROVE  /\ own[i] \in [resolution : R, format : F]
                 /\ own[i] \in ToSet(configs) /\ own[i].resolution = r
                 /\ offered[i] = Config(own[i])
        <3>1. own[i] \in ToSet(own)
            BY DEF ToSet
        <3>2. own[i] \in ToSet(configs) /\ own[i].resolution = r
            BY <1>2, <3>1
        <3>3. own[i] \in [resolution : R, format : F]
            <4> DEFINE C == [resolution : R, format : F]
            <4>1. own \in Seq(C)
                BY <1>2
            <4> HIDE DEF C
            <4>2. own[i] \in C
                BY <4>1
            <4> QED
                BY <4>2 DEF C
        <3>4. offered[i] = Config(own[i])
            BY <1>1
        <3> QED
            BY <3>2, <3>3, <3>4
    <2>2. ASSUME NEW c \in [resolution : R, format : F], c.resolution = r
          PROVE  Plain(Config(c)) = c
        <3>1. c = [resolution |-> r, format |-> c.format]
            BY <2>2
        <3> QED
            BY <3>1 DEF Plain
    <2> QED
        BY <1>1, <2>1, <2>2
<1>6. offered \in Seq(Videos(R, F))
    <2>1. ASSUME NEW i \in DOMAIN own PROVE offered[i] \in Videos(R, F)
        BY <1>3, <1>5 DEF Videos
    <2>2. DOMAIN own = 1 .. Len(own) /\ Len(own) \in Nat
        BY <1>2
    <2> QED
        BY <1>1, <2>1, <2>2
<1>7. {Plain(c) : c \in ToSet(offered)} = {c \in ToSet(configs) : c.resolution = r}
    <2>1. {Plain(c) : c \in ToSet(offered)} = {Plain(offered[i]) : i \in DOMAIN own}
        BY <1>5 DEF ToSet
    <2>2. {Plain(offered[i]) : i \in DOMAIN own} = {own[i] : i \in DOMAIN own}
        BY <1>5
    <2> QED
        BY <1>2, <2>1, <2>2 DEF ToSet
<1>8. ASSUME IsInjective(configs) PROVE IsInjective(offered)
    BY <1>2, <1>5, <1>8 DEF IsInjective
<1>9. ASSUME NEW c \in ToSet(offered)
      PROVE  c.resolution = r /\ Shows(c, display, density, cover)
    <2>1. PICK i \in DOMAIN own : c = Config(own[i]) /\ own[i].format \in F
        BY <1>5 DEF ToSet
    <2>2. Config([resolution |-> r, format |-> own[i].format]) = Config(own[i])
        OBVIOUS
    <2>3. Shows(Config(own[i]), display, density, cover)
        BY <1>4, <2>1, <2>2
    <2> QED
        BY <2>1, <2>3
<1>10. OffersAll(offered, r, configs, Videos(R, F))
    BY <1>6, <1>7, <1>8, <1>9 DEF OffersAll
<1>11. ASSUME NEW c \in ToSet(offered)
       PROVE  IF cover THEN ShowsSize(c, display, density)
                       ELSE ShowsShape(c, display, density)
    <2>1. Shows(c, display, density, cover)
        BY <1>9
    <2>2. CASE cover = TRUE
        BY <2>1, <2>2 DEF ShowsSize
    <2>3. CASE cover = FALSE
        BY <2>1, <2>3 DEF ShowsShape
    <2> QED
        BY <2>2, <2>3
<1> QED
    BY <1>10, <1>11 DEF offered

\* The resolutions of the protocol have two sides, and undefined is none of them.
LEMMA SomeSizes == Resolutions \subseteq Sizes /\ NoResolution \notin Resolutions
BY DEF Resolutions, Landscape, Portrait, Sizes, NoResolution

\* The lists of configs with the resolutions of the protocol.
Lists(F) == Seq([resolution : Resolutions, format : F])

\* What is offered of the resolution that holds the display, and of one that is
\* scaled to it.
AsIs(r, display, density, configs) == Offered(r, display, density, configs, TRUE)
Scaled(r, display, density, configs) == Offered(r, display, density, configs, FALSE)
ShowSize(offered, display, density) ==
    \A c \in ToSet(offered) : ShowsSize(c, display, density)
ShowShape(offered, display, density) ==
    \A c \in ToSet(offered) : ShowsShape(c, display, density)

\* All configs of the resolution that holds the display are offered as it is.
LEMMA OfferedAsIs ==
    ASSUME NEW F, NEW configs \in Lists(F), NEW r \in Resolutions,
           NEW display \in Sizes, NEW density \in Nat \ {0}, CanFit(display, r)
    PROVE  /\ OffersAll(AsIs(r, display, density, configs), r, configs,
                        Videos(Resolutions, F))
           /\ ShowSize(AsIs(r, display, density, configs), display, density)
<1> DEFINE cover == TRUE
           offered == Offered(r, display, density, configs, cover)
<1>1. /\ cover \in BOOLEAN /\ cover
      /\ IF cover THEN CanFit(display, r) ELSE Fitted(display, r)
    OBVIOUS
<1>2. AsIs(r, display, density, configs) = offered
    BY DEF AsIs
<1> HIDE DEF cover
<1>3. /\ OffersAll(offered, r, configs, Videos(Resolutions, F))
      /\ \A c \in ToSet(offered) : ShowsSize(c, display, density)
    BY <1>1, SomeSizes, OfferedIs DEF Lists
<1> QED
    BY <1>2, <1>3 DEF ShowSize

\* All configs of a resolution that is scaled are offered in the display's shape.
LEMMA OfferedScaled ==
    ASSUME NEW F, NEW configs \in Lists(F), NEW r \in Resolutions,
           NEW display \in Sizes, NEW density \in Nat \ {0}, Fitted(display, r)
    PROVE  /\ OffersAll(Scaled(r, display, density, configs), r, configs,
                        Videos(Resolutions, F))
           /\ ShowShape(Scaled(r, display, density, configs), display, density)
<1> DEFINE cover == FALSE
           offered == Offered(r, display, density, configs, cover)
<1>1. /\ cover \in BOOLEAN /\ ~cover
      /\ IF cover THEN CanFit(display, r) ELSE Fitted(display, r)
    OBVIOUS
<1>2. Scaled(r, display, density, configs) = offered
    BY DEF Scaled
<1> HIDE DEF cover
<1>3. /\ OffersAll(offered, r, configs, Videos(Resolutions, F))
      /\ \A c \in ToSet(offered) : ShowsShape(c, display, density)
    BY <1>1, SomeSizes, OfferedIs DEF Lists
<1> QED
    BY <1>2, <1>3 DEF ShowShape

\* Shows, for the two ways to show a video.
LEMMA ShowsEither ==
    ASSUME NEW c, NEW display, NEW density, NEW own \in BOOLEAN,
           IF own THEN ShowsSize(c, display, density) ELSE ShowsShape(c, display, density)
    PROVE  Shows(c, display, density, own)
<1>1. CASE own = TRUE
    BY <1>1 DEF ShowsSize
<1>2. CASE own = FALSE
    BY <1>2 DEF ShowsShape
<1> QED
    BY <1>1, <1>2

\* A product grows with its factor.
LEMMA TimesAtLeast ==
    ASSUME NEW m \in Nat, NEW n \in Nat, NEW k \in Nat, m <= n
    PROVE  m * k <= n * k
OBVIOUS

\* What findBestResolution returns of resolutions of the protocol.
IsBest(best, display, rs) ==
    LET fits == {r \in ToSet(rs) : CanFit(display, r)}
    IN  IF best = NoResolution THEN fits = {}
        ELSE best \in fits /\ ~\E r \in fits : IsSmaller(r, best)

\* findBestResolution, of resolutions of the protocol.
LEMMA BestOfResolutions ==
    ASSUME NEW display, NEW rs \in Seq(Resolutions)
    PROVE  IsBest(BestResolution(display, rs), display, rs)
<1>1. Resolutions \subseteq Nat \X Nat /\ NoResolution \notin Resolutions
    BY SomeSizes DEF Sizes
<1> QED
    BY <1>1, BestIs DEF IsBest

\* One size is within another when isResolutionSmaller says that it is smaller.
LEMMA WithinIsSmaller ==
    ASSUME NEW r \in Nat \X Nat, NEW s \in Nat \X Nat
    PROVE  Within(r, s) <=> IsSmaller(r, s)
<1>1. r = <<r[1], r[2]>> /\ s = <<s[1], s[2]>>
    OBVIOUS
<1>2. r[1] \in Nat /\ r[2] \in Nat /\ s[1] \in Nat /\ s[2] \in Nat
    OBVIOUS
<1>3. r # s <=> r[1] # s[1] \/ r[2] # s[2]
    BY <1>1
<1> QED
    BY <1>2, <1>3 DEF Within, IsSmaller

\* For every display less than 1440 times as wide as it is high and 960 times
\* as high as it is wide, and every list of configs, of whatever formats: the
\* phone is offered a resolution that fits, with no other that fits within it,
\* and those that are within it, in every format, and what each of them shows has the size or the
\* shape of the display, to the pixel.
THEOREM OfferFitsDisplay ==
    ASSUME NEW F, NEW display \in Sizes, NEW density \in Nat \ {0},
           display[1] < 1440 * display[2], display[2] < 960 * display[1],
           NEW configs \in Seq([resolution : Resolutions, format : F]),
           configs # <<>>
    PROVE  ConfigsFit(display, density, configs, VideoConfigs(display, density, configs))
<1> DEFINE rs == SupportedResolutions(configs)
           best == BestResolution(display, rs)
           smaller == SmallerResolutions(best, rs)
           V == Videos(Resolutions, F)
           first == IF best = NoResolution THEN <<>>
                    ELSE AsIs(best, display, density, configs)
           scaled == [i \in DOMAIN smaller |->
                         Scaled(smaller[i], display, density, configs)]
           rest == FlattenSeq(scaled)
           offered == VideoConfigs(display, density, configs)
           Of(r) == {c \in ToSet(configs) : c.resolution = r}
           fits == {r \in ToSet(rs) : CanFit(display, r)}
           Less(r) == best = NoResolution \/ IsSmaller(r, best)
<1>0. configs \in Lists(F)
    BY DEF Lists
<1>1. /\ rs \in Seq(Resolutions) /\ IsInjective(rs)
      /\ ToSet(rs) = {c.resolution : c \in ToSet(configs)}
    <2> DEFINE C == [resolution : Resolutions, format : F]
    <2>1. \A c \in C : c.resolution \in Resolutions
        OBVIOUS
    <2>2. configs \in Seq(C)
        OBVIOUS
    <2> HIDE DEF C
    <2> QED
        BY <2>1, <2>2, SupportedIs
<1>2. IF best = NoResolution THEN fits = {}
      ELSE best \in fits /\ ~\E r \in fits : IsSmaller(r, best)
    <2>1. rs \in Seq(Resolutions)
        BY <1>1
    <2> HIDE DEF rs, smaller, V, first, scaled, rest, offered, Of, Less
    <2>2. IsBest(BestResolution(display, rs), display, rs)
        BY <2>1, BestOfResolutions
    <2> QED
        BY <2>2 DEF IsBest
<1>3. /\ smaller \in Seq(Resolutions) /\ IsInjective(smaller)
      /\ ToSet(smaller) = {r \in ToSet(rs) : Less(r)}
    <2> DEFINE S == {r \in ToSet(rs) : Less(r)}
    <2>1. ToSet(rs) \cap S = S
        OBVIOUS
    <2>2. smaller = Kept(rs, S)
        BY DEF SmallerResolutions
    <2> HIDE DEF S, rs, smaller, best, V, first, scaled, rest, offered, Of, fits, Less
    <2>3. rs \in Seq(Resolutions) /\ IsInjective(rs)
        BY <1>1
    <2>4. /\ Kept(rs, S) \in Seq(Resolutions) /\ IsInjective(Kept(rs, S))
          /\ ToSet(Kept(rs, S)) = ToSet(rs) \cap S
        BY <2>3, KeptIs
    <2>5. smaller \in Seq(Resolutions) /\ IsInjective(smaller) /\ ToSet(smaller) = S
        BY <2>1, <2>2, <2>4
    <2> QED
        BY <2>5 DEF S
<1>4. offered = first \o rest
    BY DEF VideoConfigs, AsIs, Scaled
<1>5. ToSet(rs) \subseteq Resolutions
    <2> HIDE DEF rs
    <2> QED
        BY <1>1 DEF ToSet
<1> HIDE DEF rs, best, smaller, offered, V
<1>6. best = NoResolution => first = <<>>
    OBVIOUS
<1>7. best # NoResolution => first = AsIs(best, display, density, configs)
    OBVIOUS
<1> HIDE DEF first
<1>8. best # NoResolution =>
          /\ OffersAll(first, best, configs, V)
          /\ \A c \in ToSet(first) : ShowsSize(c, display, density)
    <2> SUFFICES ASSUME best # NoResolution
                 PROVE  /\ OffersAll(first, best, configs, V)
                        /\ \A c \in ToSet(first) : ShowsSize(c, display, density)
        OBVIOUS
    <2>1. best \in Resolutions /\ CanFit(display, best)
        BY <1>2, <1>5
    <2>2. first = AsIs(best, display, density, configs)
        BY <1>7
    <2> DEFINE one == AsIs(best, display, density, configs)
    <2>3. OffersAll(one, best, configs, Videos(Resolutions, F))
          /\ ShowSize(one, display, density)
        BY <2>1, <1>0, OfferedAsIs
    <2> QED
        BY <2>2, <2>3 DEF V, ShowSize
<1>9. /\ first \in Seq(V) /\ (IsInjective(configs) => IsInjective(first))
      /\ {Plain(c) : c \in ToSet(first)} =
             {c \in ToSet(configs) : best # NoResolution /\ c.resolution = best}
      /\ \A c \in ToSet(first) : best # NoResolution /\ c.resolution = best
    <2>1. ToSet(<<>>) = {} /\ <<>> \in Seq(V) /\ IsInjective(<<>>)
        BY DEF ToSet, IsInjective
    <2>2. CASE best = NoResolution
        BY <1>6, <2>1, <2>2
    <2>3. CASE best # NoResolution
        BY <1>8, <2>3 DEF OffersAll
    <2> QED
        BY <2>2, <2>3
<1>10. ASSUME NEW i \in DOMAIN smaller
       PROVE  /\ OffersAll(scaled[i], smaller[i], configs, V)
              /\ \A c \in ToSet(scaled[i]) : ShowsShape(c, display, density)
    <2>1. smaller[i] \in Resolutions
        BY <1>3
    <2>2. Fitted(display, smaller[i])
        <3>1. \A r \in Resolutions : r[1] \in Nat /\ r[1] >= 720 /\ r[2] \in Nat /\ r[2] >= 480
            BY DEF Resolutions, Landscape, Portrait
        <3>2. display[1] \in Nat /\ display[2] \in Nat
            BY DEF Sizes
        <3> DEFINE w == smaller[i][1]
                   x == smaller[i][2]
        <3>3. w \in Nat /\ w >= 720 /\ x \in Nat /\ x >= 480
            BY <2>1, <3>1
        <3> HIDE DEF w, x
        <3>4. 1440 * display[2] <= 2 * w * display[2] /\ 960 * display[1] <= 2 * x * display[1]
            <4> DEFINE m == 1440
                       n == 960
                       s == 2 * w
                       t == 2 * x
            <4>1. /\ m <= s /\ n <= t /\ s \in Nat /\ t \in Nat
                  /\ m \in Nat /\ n \in Nat
                BY <3>3
            <4> HIDE DEF m, n, s, t
            <4> DEFINE g == display[1]
                       h == display[2]
            <4>2. g \in Nat /\ h \in Nat
                BY <3>2
            <4> HIDE DEF g, h
            <4>3. m * h <= s * h
                BY <4>1, <4>2, TimesAtLeast
            <4>4. n * g <= t * g
                BY <4>1, <4>2, TimesAtLeast
            <4> QED
                BY <4>3, <4>4 DEF m, n, s, t, g, h
        <3>5. display[1] < 2 * w * display[2] /\ display[2] < 2 * x * display[1]
            BY <3>2, <3>3, <3>4
        <3> QED
            BY <3>5 DEF Fitted, w, x
    <2>3. scaled[i] = Scaled(smaller[i], display, density, configs)
        OBVIOUS
    <2> DEFINE r == smaller[i]
    <2> HIDE DEF scaled, rest, Of, fits, Less, r
    <2>4. r \in Resolutions /\ Fitted(display, r)
        BY <2>1, <2>2 DEF r
    <2>5. /\ OffersAll(Scaled(r, display, density, configs), r, configs,
                       Videos(Resolutions, F))
          /\ ShowShape(Scaled(r, display, density, configs), display, density)
        BY <2>4, <1>0, OfferedScaled
    <2> QED
        BY <2>3, <2>5 DEF V, r, ShowShape
<1>11. /\ scaled \in Seq(Seq(V)) /\ DOMAIN scaled = DOMAIN smaller
    <2>1. DOMAIN smaller = 1 .. Len(smaller) /\ Len(smaller) \in Nat
        BY <1>3
    <2>2. DOMAIN scaled = DOMAIN smaller
        OBVIOUS
    <2>3. scaled = [i \in 1 .. Len(smaller) |-> scaled[i]]
        BY <2>1
    <2> HIDE DEF scaled
    <2>4. scaled \in [1 .. Len(smaller) -> Seq(V)]
        BY <1>10, <2>1, <2>3 DEF OffersAll
    <2> QED
        BY <2>1, <2>2, <2>4
<1> HIDE DEF scaled
<1>12. /\ rest \in Seq(V) /\ (IsInjective(configs) => IsInjective(rest))
      /\ ToSet(rest) = UNION {ToSet(scaled[i]) : i \in DOMAIN smaller}
    <2>1. IsInjective(configs) => \A i \in DOMAIN scaled : IsInjective(scaled[i])
        BY <1>10, <1>11 DEF OffersAll
    <2>2. ASSUME NEW i \in DOMAIN scaled, NEW j \in DOMAIN scaled, i # j
          PROVE  ToSet(scaled[i]) \cap ToSet(scaled[j]) = {}
        <3>1. smaller[i] # smaller[j]
            BY <1>3, <1>11, <2>2 DEF IsInjective
        <3>2. ASSUME NEW c \in ToSet(scaled[i]), c \in ToSet(scaled[j]) PROVE FALSE
            <4>1. c.resolution = smaller[i]
                BY <1>10, <1>11 DEF OffersAll
            <4>2. c.resolution = smaller[j]
                BY <1>10, <1>11, <3>2 DEF OffersAll
            <4> QED
                BY <3>1, <4>1, <4>2
        <3> QED
            BY <3>2
    <2>3. /\ FlattenSeq(scaled) \in Seq(V)
          /\ ToSet(FlattenSeq(scaled)) = UNION {ToSet(scaled[i]) : i \in DOMAIN scaled}
          /\ IsInjective(configs) => IsInjective(FlattenSeq(scaled))
        BY <1>11, <2>1, <2>2, FlattenIs
    <2> QED
        BY <1>11, <2>3
<1> HIDE DEF rest
<1>13. \A c \in ToSet(rest) : \E r \in ToSet(smaller) :
           c.resolution = r /\ ShowsShape(c, display, density)
    <2>1. ASSUME NEW c \in ToSet(rest)
          PROVE  \E r \in ToSet(smaller) :
                     c.resolution = r /\ ShowsShape(c, display, density)
        <3>1. PICK i \in DOMAIN smaller : c \in ToSet(scaled[i])
            BY <1>12
        <3>2. smaller[i] \in ToSet(smaller)
            BY DEF ToSet
        <3> QED
            BY <1>10, <3>1, <3>2 DEF OffersAll
    <2> QED
        BY <2>1
<1>14. /\ offered \in Seq(V) /\ ToSet(offered) = ToSet(first) \cup ToSet(rest)
       /\ IsInjective(configs) => IsInjective(offered)
    <2>1. ASSUME NEW c \in ToSet(first), c \in ToSet(rest) PROVE FALSE
        <3>1. best # NoResolution
            BY <1>9, <2>1
        <3>2. c.resolution = best
            BY <1>9, <2>1
        <3>3. PICK r \in ToSet(smaller) : c.resolution = r
            BY <1>13, <2>1
        <3>4. IsSmaller(r, best)
            BY <1>3, <3>1, <3>3
        <3> QED
            BY <3>2, <3>3, <3>4 DEF IsSmaller
    <2>2. ToSet(first) \cap ToSet(rest) = {}
        BY <2>1
    <2>3. /\ first \o rest \in Seq(V) /\ ToSet(first \o rest) = ToSet(first) \cup ToSet(rest)
          /\ IsInjective(configs) => IsInjective(first \o rest)
        BY <1>9, <1>12, <2>2, Joined
    <2> QED
        BY <1>4, <2>3
<1>15. {Plain(c) : c \in ToSet(rest)} = {c \in ToSet(configs) : Less(c.resolution)}
    <2>1. ASSUME NEW d \in ToSet(rest)
          PROVE  Plain(d) \in ToSet(configs) /\ Less(Plain(d).resolution)
        <3>1. PICK i \in DOMAIN smaller : d \in ToSet(scaled[i])
            BY <1>12
        <3>2. Plain(d) \in {Plain(c) : c \in ToSet(scaled[i])}
            BY <3>1
        <3>3. Plain(d) \in Of(smaller[i])
            BY <1>10, <3>2 DEF OffersAll
        <3>4. smaller[i] \in ToSet(smaller)
            BY DEF ToSet
        <3>5. Less(smaller[i])
            BY <1>3, <3>4
        <3> QED
            BY <3>3, <3>5
    <2>2. ASSUME NEW c \in ToSet(configs), Less(c.resolution)
          PROVE  \E d \in ToSet(rest) : Plain(d) = c
        <3>1. c.resolution \in ToSet(smaller)
            BY <1>1, <1>3, <2>2
        <3>2. PICK i \in DOMAIN smaller : smaller[i] = c.resolution
            BY <3>1 DEF ToSet
        <3>3. c \in {Plain(d) : d \in ToSet(scaled[i])}
            BY <1>10, <3>2 DEF OffersAll
        <3>4. PICK d \in ToSet(scaled[i]) : Plain(d) = c
            BY <3>3
        <3> QED
            BY <1>12, <3>4
    <2> HIDE DEF Less
    <2> QED
        BY <2>1, <2>2
<1>16. {Plain(c) : c \in ToSet(offered)} =
           {c \in ToSet(configs) : Less(c.resolution) \/ c.resolution = best}
    <2> DEFINE all == {Plain(c) : c \in ToSet(offered)}
               one == {Plain(c) : c \in ToSet(first)}
               others == {Plain(c) : c \in ToSet(rest)}
               own == {c \in ToSet(configs) : best # NoResolution /\ c.resolution = best}
               less == {c \in ToSet(configs) : Less(c.resolution)}
               both == {c \in ToSet(configs) : Less(c.resolution)
                           \/ (best # NoResolution /\ c.resolution = best)}
    <2>1. all = one \cup others
        BY <1>14
    <2>2. one = own
        BY <1>9
    <2>3. others = less
        BY <1>15
    <2>4. best = NoResolution => \A c : Less(c)
        BY DEF Less
    <2> HIDE DEF Less
    <2>5. own \cup less = both
        OBVIOUS
    <2>6. both = {c \in ToSet(configs) : Less(c.resolution) \/ c.resolution = best}
        BY <2>4
    <2> HIDE DEF all, one, others, own, less, both
    <2>7. all = both
        BY <2>1, <2>2, <2>3, <2>5
    <2> QED
        BY <2>6, <2>7 DEF all
<1>17. offered # <<>> /\ (best # NoResolution => offered[1].resolution = best)
    <2>1. CASE best = NoResolution
        <3>1. configs[1] \in ToSet(configs)
            BY DEF ToSet
        <3>2. configs[1] \in {Plain(c) : c \in ToSet(offered)}
            BY <1>16, <2>1, <3>1
        <3>3. offered # <<>>
            BY <3>2 DEF ToSet
        <3> QED
            BY <2>1, <3>3
    <2>2. CASE best # NoResolution
        <3>1. best \in ToSet(rs)
            BY <1>2, <2>2
        <3>2. PICK c \in ToSet(configs) : c.resolution = best
            BY <1>1, <3>1
        <3>3. c \in {Plain(d) : d \in ToSet(first)}
            BY <1>9, <2>2, <3>2
        <3>4. ToSet(first) # {}
            BY <3>3
        <3>5. Len(first) > 0
            BY <1>9, <3>4 DEF ToSet
        <3>6. first[1] \in ToSet(first) /\ offered[1] = first[1] /\ offered # <<>>
            BY <1>4, <1>9, <1>12, <3>5 DEF ToSet
        <3> QED
            BY <1>9, <3>6
    <2> QED
        BY <2>1, <2>2
<1>18. ASSUME NEW c \in ToSet(offered)
       PROVE  Shows(c, display, density, fits # {} /\ c.resolution = best)
    <2> DEFINE own == fits # {} /\ c.resolution = best
    <2>1. fits # {} <=> best # NoResolution
        BY <1>2
    <2> HIDE DEF fits
    <2>2. own \in BOOLEAN
        OBVIOUS
    <2>3. IF own THEN ShowsSize(c, display, density) ELSE ShowsShape(c, display, density)
        <3>1. CASE c \in ToSet(first)
            <4>1. own /\ ShowsSize(c, display, density)
                BY <1>8, <1>9, <2>1, <3>1
            <4> HIDE DEF own
            <4> QED
                BY <4>1
        <3>2. CASE c \in ToSet(rest)
            <4>1. PICK r \in ToSet(smaller) :
                      c.resolution = r /\ ShowsShape(c, display, density)
                BY <1>13, <3>2
            <4>2. best # NoResolution => r # best
                BY <1>3, <4>1 DEF IsSmaller
            <4>3. ~own
                BY <2>1, <4>1, <4>2
            <4> HIDE DEF own
            <4> QED
                BY <4>1, <4>3
        <3> QED
            BY <1>14, <3>1, <3>2
    <2>4. Shows(c, display, density, own)
        <3> HIDE DEF own
        <3> QED
            BY <2>2, <2>3, ShowsEither
    <2> QED
        BY <2>4
<1>19. fits = Fitting(display, configs)
    BY <1>1 DEF Fitting
<1> HIDE DEF fits
<1>20. (fits = {}) <=> (best = NoResolution)
    BY <1>2
<1> DEFINE top == offered[1].resolution
<1>21. LeastFit(top, fits)
    <2>1. CASE fits = {}
        BY <2>1 DEF LeastFit
    <2>2. CASE fits # {}
        <3>1. top = best
            BY <1>17, <1>20, <2>2
        <3>2. best \in fits /\ ~\E r \in fits : IsSmaller(r, best)
            BY <1>2, <1>20, <2>2
        <3>3. fits \subseteq Nat \X Nat /\ best \in Nat \X Nat
            <4>1. fits \subseteq ToSet(rs)
                BY DEF fits
            <4> QED
                BY <1>5, <3>2, <4>1, SomeSizes DEF Sizes
        <3>4. \A r \in fits : Within(r, best) => IsSmaller(r, best)
            BY <3>3, WithinIsSmaller
        <3> HIDE DEF top
        <3> QED
            BY <3>1, <3>2, <3>4 DEF LeastFit
    <2> QED
        BY <2>1, <2>2
<1>22. OffersUpTo(top, fits, configs, offered)
    <2>1. {[resolution |-> c.resolution, format |-> c.format] : c \in ToSet(offered)}
              = {Plain(c) : c \in ToSet(offered)}
        BY DEF Plain
    <2>2. ASSUME NEW c \in ToSet(configs)
          PROVE  (best = NoResolution \/ c.resolution = best \/ IsSmaller(c.resolution, best))
                   <=> (fits = {} \/ c.resolution = top \/ Within(c.resolution, top))
        <3>1. CASE best = NoResolution
            BY <1>20, <3>1
        <3>2. CASE best # NoResolution
            <4>1. top = best /\ fits # {}
                BY <1>17, <1>20, <3>2
            <4>2. c.resolution \in ToSet(rs) /\ best \in ToSet(rs)
                <5>1. c.resolution \in ToSet(rs)
                    BY <1>1
                <5>2. best \in fits
                    BY <1>2, <3>2
                <5>3. fits \subseteq ToSet(rs)
                    BY DEF fits
                <5> QED
                    BY <5>1, <5>2, <5>3
            <4>3. c.resolution \in Nat \X Nat /\ best \in Nat \X Nat
                BY <1>5, <4>2, SomeSizes DEF Sizes
            <4>4. Within(c.resolution, best) <=> IsSmaller(c.resolution, best)
                BY <4>3, WithinIsSmaller
            <4> HIDE DEF top
            <4> QED
                BY <3>2, <4>1, <4>4
        <3> QED
            BY <3>1, <3>2
    <2>3. {c \in ToSet(configs) :
              best = NoResolution \/ c.resolution = best \/ IsSmaller(c.resolution, best)}
          = {c \in ToSet(configs) :
              fits = {} \/ c.resolution = top \/ Within(c.resolution, top)}
        BY <2>2
    <2> HIDE DEF top
    <2> QED
        BY <1>16, <2>1, <2>3 DEF OffersUpTo
<1>23. AllShow(top, fits, display, density, offered)
    <2>1. ASSUME NEW c \in ToSet(offered)
          PROVE  Shows(c, display, density, fits # {} /\ c.resolution = top)
        <3>1. (fits # {} /\ c.resolution = top) = (fits # {} /\ c.resolution = best)
            BY <1>17, <1>20
        <3> QED
            BY <1>18, <3>1
    <2> HIDE DEF top
    <2> QED
        BY <2>1 DEF AllShow
<1> QED
    BY <1>14, <1>17, <1>19, <1>21, <1>22, <1>23 DEF ConfigsFit, top, offered

-----------------------------------------------------------------------------
\* What the phone puts on the wire.
Byte == 0 .. 255
Frames ==
    {f \in [service : Byte, first : BOOLEAN, last : BOOLEAN, total : Nat,
            payload : Seq(Byte)] :
        Len(f.payload) < 65536 /\ (f.total # 0 <=> f.first /\ ~f.last)}

\* The size of a frame, of which the payload begins after HeadSize.
HeadSize(f) == IF f.first /\ ~f.last THEN 8 ELSE 4
Size(f) == HeadSize(f) + Len(f.payload)

\* The frame as decodeOne has it: a total size loses its upper half.
Decoded(f) ==
    [service |-> f.service,
     first |-> FrameHeaderFlags(f) % 2 = 1,
     last |-> (FrameHeaderFlags(f) \div 2) % 2 = 1,
     total |-> IF HeadSize(f) = 8 THEN ReadUint32(Uint32(f.total), 1) ELSE 0,
     payload |-> f.payload]

\* The bytes of frame f are in S behind place p.
HasFrame(S, p, f) ==
    /\ p + Size(f) <= Len(S)
    /\ S[p + 1] = f.service /\ S[p + 2] = FrameHeaderFlags(f)
    /\ S[p + 3] * 256 + S[p + 4] = Len(f.payload)
    /\ HeadSize(f) = 8 => S[p + 5] * 256 + S[p + 6] = ReadUint32(Uint32(f.total), 1)
    /\ \A i \in 1 .. Len(f.payload) : S[p + HeadSize(f) + i] = f.payload[i]

\* c is a, and then b.
IsConcat(c, a, b, B) ==
    /\ c \in Seq(B) /\ Len(c) = Len(a) + Len(b)
    /\ \A i \in 1 .. Len(a) : c[i] = a[i]
    /\ \A i \in 1 .. Len(b) : c[Len(a) + i] = b[i]

\* The elements of two sequences one after the other.
LEMMA ConcatIs ==
    ASSUME NEW B, NEW a \in Seq(B), NEW b \in Seq(B)
    PROVE  IsConcat(a \o b, a, b, B)
<1>1. a \o b \in Seq(B) /\ Len(a \o b) = Len(a) + Len(b) /\ Len(a) \in Nat /\ Len(b) \in Nat
    OBVIOUS
<1>2. \A i \in 1 .. Len(a) : (a \o b)[i] = a[i]
    OBVIOUS
<1>3. ASSUME NEW i \in 1 .. Len(b) PROVE (a \o b)[Len(a) + i] = b[i]
    <2>1. Len(a) + i \in 1 .. Len(a) + Len(b) /\ ~(Len(a) + i <= Len(a)) /\ Len(a) + i - Len(a) = i
        BY <1>1
    <2> QED
        BY <1>1, <2>1
<1> QED
    BY <1>1, <1>2, <1>3 DEF IsConcat

\* A number in two bytes.
LEMMA Uint16Is ==
    ASSUME NEW n \in Nat
    PROVE  /\ Uint16(n) \in Seq(Byte) /\ Len(Uint16(n)) = 2
           /\ n < 65536 => Uint16(n)[1] * 256 + Uint16(n)[2] = n
<1> DEFINE hi == n \div 256
           up == hi % 256
           lo == n % 256
<1>1. hi \in Nat /\ lo \in 0 .. 255 /\ n = 256 * hi + lo
    OBVIOUS
<1>2. n < 65536 => hi < 256
    BY <1>1
<1>3. up \in 0 .. 255 /\ (hi < 256 => up = hi)
    BY <1>1
<1>4. Uint16(n) = <<up, lo>>
    BY DEF Uint16
<1> HIDE DEF hi, lo, up
<1>5. up \in Byte /\ lo \in Byte
    BY <1>1, <1>3 DEF Byte
<1>6. Uint16(n) \in Seq(Byte) /\ Len(Uint16(n)) = 2
    BY <1>4, <1>5
<1>7. Uint16(n)[1] = up /\ Uint16(n)[2] = lo
    BY <1>4
<1>8. n < 65536 => up * 256 + lo = n
    BY <1>1, <1>2, <1>3
<1> QED
    BY <1>6, <1>7, <1>8

\* Four bytes, of which readUint32BE reads the first two.
LEMMA Uint32Is ==
    ASSUME NEW n \in Nat
    PROVE  /\ Uint32(n) \in Seq(Byte) /\ Len(Uint32(n)) = 4
           /\ ReadUint32(Uint32(n), 1) = Uint32(n)[1] * 256 + Uint32(n)[2]
<1> DEFINE hi == n \div 65536
           a == Uint16(hi)
           b == Uint16(n)
<1>1. hi \in Nat
    OBVIOUS
<1>2. Uint32(n) = a \o b
    BY DEF Uint32
<1> HIDE DEF hi
<1>3. a \in Seq(Byte) /\ b \in Seq(Byte) /\ Len(a) = 2 /\ Len(b) = 2
    BY <1>1, Uint16Is
<1> HIDE DEF a, b
<1>4. a \o b \in Seq(Byte) /\ Len(a \o b) = Len(a) + Len(b)
    <2>1. IsConcat(a \o b, a, b, Byte)
        BY <1>3, ConcatIs
    <2> QED
        BY <2>1 DEF IsConcat
<1>5. Uint32(n) \in Seq(Byte) /\ Len(Uint32(n)) = 4
    BY <1>2, <1>3, <1>4
<1>6. ReadUint32(Uint32(n), 1) = Uint32(n)[1] * 256 + Uint32(n)[1 + 1]
    BY DEF ReadUint32, ReadUint16
<1> QED
    BY <1>5, <1>6

\* The flags tell first and last frames.
LEMMA FlagsIs ==
    ASSUME NEW f \in Frames
    PROVE  /\ FrameHeaderFlags(f) \in 0 .. 3
           /\ FrameHeaderFlags(f) % 2 = 1 <=> f.first
           /\ (FrameHeaderFlags(f) \div 2) % 2 = 1 <=> f.last
<1>1. f.first \in BOOLEAN /\ f.last \in BOOLEAN
    BY DEF Frames
<1>2. CASE f.first /\ f.last
    BY <1>2 DEF FrameHeaderFlags
<1>3. CASE f.first /\ ~f.last
    BY <1>3 DEF FrameHeaderFlags
<1>4. CASE ~f.first /\ f.last
    BY <1>4 DEF FrameHeaderFlags
<1>5. CASE ~f.first /\ ~f.last
    BY <1>5 DEF FrameHeaderFlags
<1> QED
    BY <1>1, <1>2, <1>3, <1>4, <1>5

\* The types of a frame.
LEMMA FrameIs ==
    ASSUME NEW f \in Frames
    PROVE  /\ f.service \in Byte /\ f.total \in Nat /\ f.payload \in Seq(Byte)
           /\ Len(f.payload) \in Nat /\ Len(f.payload) < 65536
           /\ HeadSize(f) \in {4, 8} /\ Size(f) \in Nat /\ Size(f) >= 4
           /\ Size(f) = HeadSize(f) + Len(f.payload)
           /\ HeadSize(f) = 8 <=> f.total # 0
           /\ HeadSize(f) = 8 <=> f.first /\ ~f.last
BY DEF Frames, HeadSize, Size

\* The bytes of a frame, one after the other.
LEMMA BytesAre ==
    ASSUME NEW f \in Frames
    PROVE  /\ Bytes(f) \in Seq(Byte) /\ Len(Bytes(f)) = Size(f)
           /\ HasFrame(Bytes(f), 0, f)
<1> DEFINE h == Header(f)
           t == IF f.total # 0 THEN Uint32(f.total) ELSE <<>>
           p == f.payload
           n == Len(f.payload)
           b == Bytes(f)
<1>1. /\ f.service \in Byte /\ f.total \in Nat /\ p \in Seq(Byte) /\ n \in Nat /\ n < 65536
      /\ HeadSize(f) \in {4, 8} /\ (HeadSize(f) = 8 <=> f.total # 0) /\ n = Len(p)
      /\ Size(f) = HeadSize(f) + n
    BY FrameIs
<1>2. /\ h \in Seq(Byte) /\ Len(h) = 4 /\ h[1] = f.service /\ h[2] = FrameHeaderFlags(f)
      /\ h[3] * 256 + h[4] = n
    <2> DEFINE u == Uint16(n)
    <2>1. u \in Seq(Byte) /\ Len(u) = 2 /\ u[1] * 256 + u[2] = n
        BY <1>1, Uint16Is
    <2>2. FrameHeaderFlags(f) \in Byte
        BY FlagsIs DEF Byte
    <2>3. h = <<f.service, FrameHeaderFlags(f)>> \o u
        BY DEF Header
    <2> DEFINE w == FrameHeaderFlags(f)
               v == <<f.service, w>>
    <2>4. w \in Byte
        BY <2>2
    <2> HIDE DEF u, n, w, h
    <2>5. v \in Seq(Byte) /\ Len(v) = 2 /\ v[1] = f.service /\ v[2] = w
        BY <1>1, <2>4
    <2>6. h = v \o u
        BY <2>3 DEF w
    <2> HIDE DEF v
    <2>7. /\ h \in Seq(Byte) /\ Len(h) = 4
          /\ \A i \in 1 .. 2 : h[i] = v[i]
          /\ \A i \in 1 .. 2 : h[2 + i] = u[i]
        <3>1. IsConcat(h, v, u, Byte)
            BY <2>1, <2>5, <2>6, ConcatIs
        <3> QED
            BY <2>1, <2>5, <3>1 DEF IsConcat
    <2>8. h[1] = v[1] /\ h[2] = v[2]
        BY <2>7
    <2>9. h[2 + 1] = u[1] /\ h[2 + 2] = u[2]
        BY <2>7
    <2> QED
        BY <2>1, <2>5, <2>7, <2>8, <2>9 DEF w
<1>3. /\ t \in Seq(Byte) /\ Len(t) = HeadSize(f) - 4
      /\ HeadSize(f) = 8 => t[1] * 256 + t[2] = ReadUint32(Uint32(f.total), 1)
    <2>1. CASE f.total # 0
        <3>1. t = Uint32(f.total) /\ HeadSize(f) = 8
            BY <1>1, <2>1
        <3> HIDE DEF t
        <3> QED
            BY <1>1, <3>1, Uint32Is
    <2>2. CASE f.total = 0
        BY <1>1, <2>2
    <2> QED
        BY <2>1, <2>2
<1>4. b = h \o t \o p
    BY DEF Bytes
<1> HIDE DEF h, t, p, n, b
<1> DEFINE ht == h \o t
<1>5. IsConcat(ht, h, t, Byte)
    BY <1>2, <1>3, ConcatIs
<1>6. b = ht \o p
    BY <1>4
<1> HIDE DEF ht
<1>7. /\ ht \in Seq(Byte) /\ Len(ht) = HeadSize(f)
      /\ \A i \in 1 .. 4 : ht[i] = h[i]
      /\ \A i \in 1 .. HeadSize(f) - 4 : ht[4 + i] = t[i]
    BY <1>1, <1>2, <1>3, <1>5 DEF IsConcat
<1>8. /\ b \in Seq(Byte) /\ Len(b) = HeadSize(f) + n
      /\ \A i \in 1 .. HeadSize(f) : b[i] = ht[i]
      /\ \A i \in 1 .. n : b[HeadSize(f) + i] = p[i]
    <2>1. IsConcat(b, ht, p, Byte)
        BY <1>1, <1>6, <1>7, ConcatIs
    <2>2. /\ b \in Seq(Byte) /\ Len(b) = Len(ht) + Len(p)
          /\ \A i \in 1 .. Len(ht) : b[i] = ht[i]
          /\ \A i \in 1 .. Len(p) : b[Len(ht) + i] = p[i]
        BY <2>1, Zenon DEF IsConcat
    <2>3. Len(ht) = HeadSize(f) /\ Len(p) = n
        BY <1>1, <1>7
    <2> QED
        BY <2>2, <2>3, Zenon
<1>9. b[1] = h[1] /\ b[2] = h[2] /\ b[3] = h[3] /\ b[4] = h[4]
    BY <1>1, <1>7, <1>8
<1>10. HeadSize(f) = 8 => b[5] = t[1] /\ b[6] = t[2]
    <2>1. HeadSize(f) = 8 => ht[4 + 1] = t[1] /\ ht[4 + 2] = t[2]
        BY <1>7
    <2> QED
        BY <1>8, <2>1
<1>11. b \in Seq(Byte) /\ Len(b) = Size(f)
    BY <1>1, <1>8
<1>12. HasFrame(b, 0, f)
    <2>1. /\ b[0 + 1] = f.service /\ b[0 + 2] = FrameHeaderFlags(f)
          /\ b[0 + 3] * 256 + b[0 + 4] = n
        BY <1>2, <1>9
    <2>2. HeadSize(f) = 8 => b[0 + 5] * 256 + b[0 + 6] = ReadUint32(Uint32(f.total), 1)
        BY <1>3, <1>10
    <2>3. \A i \in 1 .. n : b[0 + HeadSize(f) + i] = p[i]
        BY <1>1, <1>8
    <2>4. 0 + Size(f) <= Len(b)
        BY <1>1, <1>11
    <2> QED
        BY <2>1, <2>2, <2>3, <2>4 DEF HasFrame, n, p
<1> QED
    BY <1>11, <1>12 DEF b

\* Sequences with the same elements are the same.
LEMMA SameSeq ==
    ASSUME NEW B, NEW a \in Seq(B), NEW b \in Seq(B), Len(a) = Len(b),
           \A i \in 1 .. Len(a) : a[i] = b[i]
    PROVE  a = b
OBVIOUS

\* The part of S from behind p to e.
Part(S, p, e) == SubSeq(S, p + 1, e)
IsPart(bs, S, p, e, B) ==
    /\ bs \in Seq(B) /\ Len(bs) = e - p
    /\ \A i \in 1 .. e - p : bs[i] = S[p + i]

\* The elements of a part.
LEMMA PartIs ==
    ASSUME NEW B, NEW S \in Seq(B), NEW p \in Nat, NEW e \in Nat, p <= e, e <= Len(S)
    PROVE  IsPart(Part(S, p, e), S, p, e, B)
<1> DEFINE bs == Part(S, p, e)
<1>1. bs \in Seq(B) /\ Len(bs) = e - p
    BY DEF Part
<1>2. ASSUME NEW i \in 1 .. e - p PROVE bs[i] = S[p + i]
    BY DEF Part
<1> QED
    BY <1>1, <1>2 DEF IsPart

\* The whole of a sequence.
LEMMA WholePart ==
    ASSUME NEW B, NEW S \in Seq(B)
    PROVE  Part(S, 0, Len(S)) = S
<1> DEFINE a == Part(S, 0, Len(S))
<1>1. IsPart(a, S, 0, Len(S), B)
    BY PartIs
<1>2. Len(S) - 0 = Len(S) /\ \A x \in 1 .. Len(S) : 0 + x = x
    OBVIOUS
<1> HIDE DEF a
<1>3. a \in Seq(B) /\ Len(a) = Len(S) /\ \A x \in 1 .. Len(S) : a[x] = S[x]
    BY <1>1, <1>2 DEF IsPart
<1>4. a = S
    BY <1>3, SameSeq
<1> QED
    BY <1>4 DEF a

\* A part of a part.
LEMMA PartOfPart ==
    ASSUME NEW B, NEW S \in Seq(B), NEW p \in Nat, NEW e \in Nat, p <= e, e <= Len(S),
           NEW n \in Nat, NEW m \in Nat, n <= m, m <= e - p
    PROVE  Part(Part(S, p, e), n, m) = Part(S, p + n, p + m)
<1> DEFINE bs == Part(S, p, e)
           a == Part(bs, n, m)
           b == Part(S, p + n, p + m)
<1>1. IsPart(bs, S, p, e, B)
    BY PartIs
<1>2. bs \in Seq(B) /\ Len(bs) = e - p /\ \A i \in 1 .. e - p : bs[i] = S[p + i]
    BY <1>1 DEF IsPart
<1> HIDE DEF bs
<1>3. IsPart(a, bs, n, m, B)
    BY <1>2, PartIs
<1>4. p + n \in Nat /\ p + m \in Nat /\ p + n <= p + m /\ p + m <= Len(S)
    OBVIOUS
<1>5. IsPart(b, S, p + n, p + m, B)
    BY <1>4, PartIs
<1> HIDE DEF a, b
<1>6. a \in Seq(B) /\ Len(a) = m - n /\ \A i \in 1 .. m - n : a[i] = bs[n + i]
    BY <1>3 DEF IsPart
<1>7. b \in Seq(B) /\ Len(b) = m - n /\ \A i \in 1 .. m - n : b[i] = S[p + n + i]
    BY <1>5 DEF IsPart
<1>8. ASSUME NEW i \in 1 .. m - n PROVE a[i] = b[i]
    <2>1. n + i \in 1 .. e - p /\ p + (n + i) = p + n + i
        OBVIOUS
    <2> QED
        BY <2>1, <1>2, <1>6, <1>7
<1>9. a = b
    BY <1>6, <1>7, <1>8, SameSeq
<1> QED
    BY <1>9 DEF a, b, bs

\* What decodeOne makes of what begins with a frame, which may be cut off.
LEMMA DecodesFrame ==
    ASSUME NEW S \in Seq(Byte), NEW p \in Nat, NEW f \in Frames, HasFrame(S, p, f),
           NEW e \in Nat, p <= e, e <= Len(S)
    PROVE  IF e < p + Size(f) THEN DecodeOne(Part(S, p, e)) = Nothing
           ELSE DecodeOne(Part(S, p, e)) = [size |-> Size(f), frame |-> Decoded(f)]
<1> DEFINE bs == Part(S, p, e)
           w == FrameHeaderFlags(f)
           first == bs[2] % 2 = 1
           last == (bs[2] \div 2) % 2 = 1
           start == IF first /\ ~last THEN 8 ELSE 4
           size == start + ReadUint16(bs, 3)
           n == Len(f.payload)
<1>1. bs \in Seq(Byte) /\ Len(bs) = e - p /\ \A i \in 1 .. e - p : bs[i] = S[p + i]
    BY PartIs DEF IsPart
<1>2. /\ n \in Nat /\ Size(f) = HeadSize(f) + n /\ HeadSize(f) \in {4, 8}
      /\ HeadSize(f) = 8 <=> f.first /\ ~f.last
      /\ f.payload \in Seq(Byte)
    BY FrameIs
<1>3. /\ p + Size(f) <= Len(S)
      /\ S[p + 1] = f.service /\ S[p + 2] = w
      /\ S[p + 3] * 256 + S[p + 4] = n
      /\ HeadSize(f) = 8 => S[p + 5] * 256 + S[p + 6] = ReadUint32(Uint32(f.total), 1)
      /\ \A i \in 1 .. n : S[p + HeadSize(f) + i] = f.payload[i]
    BY DEF HasFrame
<1>4. (w % 2 = 1 <=> f.first) /\ ((w \div 2) % 2 = 1 <=> f.last)
    BY FlagsIs
<1>5. DecodeOne(bs) =
        IF Len(bs) < 4 \/ Len(bs) < start \/ Len(bs) < size THEN Nothing
        ELSE [size |-> size,
              frame |-> [service |-> bs[1], first |-> first, last |-> last,
                         total |-> IF start = 8 THEN ReadUint32(bs, 5) ELSE 0,
                         payload |-> SubSeq(bs, start + 1, size)]]
    BY DEF DecodeOne
<1> HIDE DEF bs, w, n
<1>6. Len(bs) \in Nat /\ Len(bs) = e - p
    BY <1>1
<1>7. Len(bs) >= 4 => bs[1] = f.service /\ bs[2] = w /\ bs[3] * 256 + bs[4] = n
    <2> SUFFICES ASSUME Len(bs) >= 4
                 PROVE  bs[1] = f.service /\ bs[2] = w /\ bs[3] * 256 + bs[4] = n
        OBVIOUS
    <2>1. 1 \in 1 .. e - p /\ 2 \in 1 .. e - p /\ 3 \in 1 .. e - p /\ 4 \in 1 .. e - p
        BY <1>6
    <2>2. bs[1] = S[p + 1] /\ bs[2] = S[p + 2] /\ bs[3] = S[p + 3] /\ bs[4] = S[p + 4]
        BY <1>1, <2>1
    <2> QED
        BY <1>3, <2>2
<1>8. Len(bs) >= 4 => start = HeadSize(f) /\ size = Size(f)
    <2> SUFFICES ASSUME Len(bs) >= 4 PROVE start = HeadSize(f) /\ size = Size(f)
        OBVIOUS
    <2>1. start = HeadSize(f)
        BY <1>2, <1>4, <1>7
    <2>2. ReadUint16(bs, 3) = n
        BY <1>7 DEF ReadUint16
    <2> HIDE DEF start
    <2> QED
        BY <1>2, <2>1, <2>2
<1>9. CASE e < p + Size(f)
    <2>1. Len(bs) >= 4 => Len(bs) < size
        BY <1>6, <1>8, <1>9, <1>2
    <2>2. Len(bs) < 4 \/ Len(bs) < size
        BY <1>6, <2>1
    <2> HIDE DEF size, start
    <2>3. DecodeOne(bs) = Nothing
        BY <1>5, <2>2
    <2> QED
        BY <1>9, <2>3 DEF bs
<1>10. CASE ~(e < p + Size(f))
    <2>1. Len(bs) >= 4 /\ Len(bs) >= HeadSize(f) /\ Len(bs) >= Size(f)
        BY <1>2, <1>6, <1>10
    <2>2. start = HeadSize(f) /\ size = Size(f) /\ bs[1] = f.service /\ bs[2] = w
        BY <1>7, <1>8, <2>1
    <2>3. first = (w % 2 = 1) /\ last = ((w \div 2) % 2 = 1)
        BY <2>2
    <2>4. HeadSize(f) = 8 => ReadUint32(bs, 5) = ReadUint32(Uint32(f.total), 1)
        <3> SUFFICES ASSUME HeadSize(f) = 8
                     PROVE  ReadUint32(bs, 5) = ReadUint32(Uint32(f.total), 1)
            OBVIOUS
        <3>1. 5 \in 1 .. e - p /\ 6 \in 1 .. e - p
            BY <1>6, <2>1
        <3>2. bs[5] = S[p + 5] /\ bs[6] = S[p + 6]
            BY <1>1, <3>1
        <3>3. ReadUint32(bs, 5) = bs[5] * 256 + bs[6]
            BY DEF ReadUint32, ReadUint16
        <3> QED
            BY <1>3, <3>2, <3>3
    <2> DEFINE c == SubSeq(bs, HeadSize(f) + 1, Size(f))
    <2>5. c = f.payload
        <3>1. IsPart(Part(bs, HeadSize(f), Size(f)), bs, HeadSize(f), Size(f), Byte)
            BY <1>1, <1>2, <2>1, PartIs
        <3>2. c = Part(bs, HeadSize(f), Size(f))
            BY DEF Part
        <3> DEFINE k == HeadSize(f)
        <3>3. k \in Nat /\ k + n = Size(f)
            BY <1>2
        <3> HIDE DEF k, start, size, first, last
        <3>4. c = Part(bs, k, k + n)
            BY <3>2, <3>3 DEF k
        <3>5. IsPart(c, bs, k, k + n, Byte)
            BY <3>1, <3>2, <3>3 DEF k
        <3>6. c \in Seq(Byte) /\ Len(c) = n /\ \A i \in 1 .. n : c[i] = bs[k + i]
            <4>1. (k + n) - k = n
                BY <1>2, <3>3
            <4> QED
                BY <3>5, <4>1 DEF IsPart
        <3>7. ASSUME NEW i \in 1 .. n PROVE c[i] = f.payload[i]
            <4>1. i \in Nat /\ k + i \in 1 .. e - p /\ p + (k + i) = p + k + i
                BY <1>2, <1>6, <2>1, <3>3
            <4>2. bs[k + i] = S[p + k + i]
                BY <1>1, <4>1
            <4>3. S[p + k + i] = f.payload[i]
                BY <1>3 DEF k
            <4> QED
                BY <3>6, <4>2, <4>3
        <3>8. Len(f.payload) = n /\ f.payload \in Seq(Byte)
            BY <1>2 DEF n
        <3> HIDE DEF c
        <3> QED
            BY <3>6, <3>7, <3>8, SameSeq
    <2> DEFINE total == IF start = 8 THEN ReadUint32(bs, 5) ELSE 0
    <2>6. total = IF HeadSize(f) = 8 THEN ReadUint32(Uint32(f.total), 1) ELSE 0
        BY <2>2, <2>4
    <2>7. SubSeq(bs, start + 1, size) = f.payload
        BY <2>2, <2>5
    <2> DEFINE frame == [service |-> bs[1], first |-> first, last |-> last,
                         total |-> total, payload |-> SubSeq(bs, start + 1, size)]
    <2>8. ~(Len(bs) < 4 \/ Len(bs) < start \/ Len(bs) < size)
        BY <1>2, <1>6, <2>1, <2>2
    <2>9. DecodeOne(bs) = [size |-> size, frame |-> frame]
        <3> HIDE DEF start, size, first, last
        <3> QED
            BY <1>5, <2>8
    <2> HIDE DEF total, start, size
    <2>10. frame = Decoded(f)
        <3> HIDE DEF first, last
        <3> QED
            BY <2>2, <2>3, <2>6, <2>7, Zenon DEF Decoded, w
    <2> HIDE DEF frame
    <2>11. DecodeOne(bs) = [size |-> Size(f), frame |-> Decoded(f)]
        BY <2>2, <2>9, <2>10
    <2> QED
        BY <1>10, <2>11 DEF bs
<1> QED
    BY <1>9, <1>10

\* The frames fs lie in S one after the other, and end at the places pos.
Laid(S, fs, pos) ==
    /\ pos \in [0 .. Len(fs) -> Nat] /\ pos[0] = 0 /\ pos[Len(fs)] = Len(S)
    /\ \A k \in 1 .. Len(fs) :
          pos[k] = pos[k - 1] + Size(fs[k]) /\ HasFrame(S, pos[k - 1], fs[k])

\* The places are numbers, from one frame to the next.
LEMMA LaidIs ==
    ASSUME NEW S \in Seq(Byte), NEW fs \in Seq(Frames), NEW pos, Laid(S, fs, pos)
    PROVE  /\ Len(fs) \in Nat /\ pos[Len(fs)] = Len(S)
           /\ \A i \in 0 .. Len(fs) : pos[i] \in Nat
           /\ \A i \in 1 .. Len(fs) : pos[i] = pos[i - 1] + Size(fs[i])
<1>1. Len(fs) \in Nat
    OBVIOUS
<1>2. pos[Len(fs)] = Len(S) /\ \A i \in 0 .. Len(fs) : pos[i] \in Nat
    BY <1>1 DEF Laid
<1>3. \A i \in 1 .. Len(fs) : pos[i] = pos[i - 1] + Size(fs[i])
    BY DEF Laid
<1> QED
    BY <1>1, <1>2, <1>3

\* Places are as far apart at least as the frames between them are many.
LEMMA PlacesGrow ==
    ASSUME NEW S \in Seq(Byte), NEW fs \in Seq(Frames), NEW pos, Laid(S, fs, pos),
           NEW j \in 0 .. Len(fs), NEW k \in j .. Len(fs)
    PROVE  pos[j] + (k - j) <= pos[k] /\ pos[j] <= Len(S) /\ pos[j] \in Nat
<1> DEFINE N == Len(fs)
           T == {m \in Nat : \A i \in 0 .. N : i + m <= N => pos[i] + m <= pos[i + m]}
<1>1. /\ N \in Nat /\ \A i \in 0 .. N : pos[i] \in Nat
      /\ pos[N] = Len(S)
      /\ \A i \in 1 .. N : pos[i] = pos[i - 1] + Size(fs[i])
    <2> HIDE DEF T
    <2> QED
        BY LaidIs
<1> HIDE DEF N
<1>2. \A i \in 1 .. N : Size(fs[i]) \in Nat /\ Size(fs[i]) >= 4
    BY FrameIs DEF N
<1>3. 0 \in T
    BY <1>1
<1>4. ASSUME NEW m \in Nat, m \in T PROVE m + 1 \in T
    <2>1. ASSUME NEW i \in 0 .. N, i + (m + 1) <= N PROVE pos[i] + (m + 1) <= pos[i + (m + 1)]
        <3>1. i + m <= N /\ i + m + 1 \in 1 .. N /\ i + m \in 0 .. N
            BY <1>1, <2>1
        <3>2. pos[i] + m <= pos[i + m]
            BY <1>4, <3>1
        <3>3. i + m + 1 - 1 = i + m /\ i + (m + 1) = i + m + 1
            BY <1>1
        <3>4. pos[i + m + 1] = pos[i + m] + Size(fs[i + m + 1])
            BY <1>1, <3>1, <3>3
        <3>5. /\ pos[i] \in Nat /\ pos[i + m] \in Nat /\ pos[i + m + 1] \in Nat
              /\ Size(fs[i + m + 1]) \in Nat /\ Size(fs[i + m + 1]) >= 4
            BY <1>1, <1>2, <3>1
        <3> DEFINE a == pos[i]
                   b == pos[i + m]
                   c == pos[i + m + 1]
                   z == Size(fs[i + m + 1])
        <3>6. a \in Nat /\ b \in Nat /\ c = b + z /\ z \in Nat /\ z >= 4 /\ a + m <= b
            BY <3>2, <3>4, <3>5
        <3> HIDE DEF a, b, c, z
        <3>7. a + (m + 1) <= c
            BY <3>6
        <3> QED
            BY <3>3, <3>7 DEF a, c
    <2> QED
        BY <2>1
<1>5. \A m \in Nat : m \in T
    <2> HIDE DEF T
    <2> QED
        BY <1>3, <1>4, CountUp
<1>6. j \in 0 .. N /\ k \in 0 .. N /\ j <= k /\ k <= N
    BY DEF N
<1>7. ASSUME NEW i \in 0 .. N, i >= j PROVE pos[j] + (i - j) <= pos[i]
    <2>1. i - j \in Nat /\ j + (i - j) = i
        BY <1>1, <1>6, <1>7
    <2>2. i - j \in T
        BY <1>5, <2>1
    <2> QED
        BY <1>1, <1>6, <2>1, <2>2
<1>8. pos[j] + (k - j) <= pos[k] /\ pos[j] + (N - j) <= pos[N]
    BY <1>1, <1>6, <1>7
<1>9. N - j >= 0 /\ pos[j] \in Nat
    BY <1>1, <1>6
<1> QED
    BY <1>1, <1>8, <1>9

\* The last place that is not after e.
LEMMA LastPlace ==
    ASSUME NEW S \in Seq(Byte), NEW fs \in Seq(Frames), NEW pos, Laid(S, fs, pos),
           NEW k \in 0 .. Len(fs), NEW e \in Nat, pos[k] <= e
    PROVE  \E l \in k .. Len(fs) : pos[l] <= e /\ (l = Len(fs) \/ e < pos[l + 1])
<1> DEFINE N == Len(fs)
           T == {m \in Nat : k + m <= N => pos[k + m] <= e}
<1>1. N \in Nat /\ \A i \in 0 .. N : pos[i] \in Nat
    <2> HIDE DEF T
    <2> QED
        BY LaidIs
<1> SUFFICES ASSUME \A l \in k .. N : ~(pos[l] <= e /\ (l = N \/ e < pos[l + 1]))
             PROVE  FALSE
    OBVIOUS
<1>2. k \in 0 .. N
    OBVIOUS
<1> HIDE DEF N
<1>3. 0 \in T
    BY <1>1, <1>2
<1>4. ASSUME NEW m \in Nat, m \in T PROVE m + 1 \in T
    <2> SUFFICES ASSUME k + (m + 1) <= N PROVE pos[k + (m + 1)] <= e
        OBVIOUS
    <2>1. k + m \in k .. N /\ k + m # N /\ k + (m + 1) = k + m + 1 /\ k + m + 1 \in 0 .. N
        BY <1>1, <1>2
    <2>2. pos[k + m] <= e
        BY <1>4, <2>1
    <2>3. ~(e < pos[k + m + 1])
        BY <2>1, <2>2
    <2> QED
        BY <1>1, <2>1, <2>3
<1>5. \A m \in Nat : m \in T
    <2> HIDE DEF T
    <2> QED
        BY <1>3, <1>4, CountUp
<1>6. N - k \in Nat /\ k + (N - k) = N /\ N \in k .. N
    BY <1>1, <1>2
<1>7. N - k \in T
    BY <1>5, <1>6
<1>8. pos[N] <= e
    BY <1>6, <1>7
<1> QED
    BY <1>6, <1>8

\* What has been decoded of the part of S from place k to e, when the frames up to
\* place j have been.
DecodedUpTo(S, fs, pos, k, e, j) ==
    [frames |-> [i \in 1 .. j - k |-> Decoded(fs[k + i])], rest |-> Part(S, pos[j], e)]

\* One round takes the next frame.
LEMMA DecodesNext ==
    ASSUME NEW S \in Seq(Byte), NEW fs \in Seq(Frames), NEW pos, Laid(S, fs, pos),
           NEW k \in 0 .. Len(fs), NEW e \in Nat, e <= Len(S),
           NEW j \in k .. Len(fs), j < Len(fs), pos[j + 1] <= e
    PROVE  Decode(DecodedUpTo(S, fs, pos, k, e, j)) = DecodedUpTo(S, fs, pos, k, e, j + 1)
<1> DEFINE p == pos[j]
           f == fs[j + 1]
           rest == Part(S, p, e)
           one == DecodeOne(rest)
           s == Size(f)
           got == [i \in 1 .. j - k |-> Decoded(fs[k + i])]
           more == [i \in 1 .. (j + 1) - k |-> Decoded(fs[k + i])]
           d == DecodedUpTo(S, fs, pos, k, e, j)
<1>1. k \in Nat /\ j \in Nat /\ k <= j /\ j + 1 \in 1 .. Len(fs) /\ (j + 1) - 1 = j
    OBVIOUS
<1>2. f \in Frames /\ p \in Nat /\ pos[j + 1] = p + s /\ HasFrame(S, p, f)
    BY <1>1 DEF Laid
<1>3. s \in Nat /\ s >= 4
    BY <1>2, FrameIs
<1> HIDE DEF p, f, s
<1>4. p <= e /\ ~(e < p + s) /\ s <= e - p
    BY <1>2, <1>3
<1>5. one = [size |-> s, frame |-> Decoded(f)]
    BY <1>2, <1>4, DecodesFrame DEF s
<1>6. rest \in Seq(Byte) /\ Len(rest) = e - p
    BY <1>2, <1>4, PartIs DEF IsPart
<1> HIDE DEF one
<1>7. one.size = s /\ one.frame = Decoded(f)
    BY <1>5
<1>8. one # Nothing
    <2>1. Nothing.size = 0
        BY DEF Nothing
    <2> QED
        BY <1>3, <1>7, <2>1
<1>9. rest # <<>>
    <2>1. Len(<<>>) = 0
        OBVIOUS
    <2>2. Len(rest) > 0
        BY <1>2, <1>3, <1>4, <1>6
    <2> HIDE DEF rest
    <2> QED
        BY <2>1, <2>2
<1>10. SubSeq(rest, s + 1, Len(rest)) = Part(S, pos[j + 1], e)
    <2>1. Part(rest, s, e - p) = Part(S, p + s, p + (e - p))
        BY <1>2, <1>3, <1>4, PartOfPart
    <2>2. p + (e - p) = e
        BY <1>2
    <2>3. SubSeq(rest, s + 1, Len(rest)) = Part(rest, s, e - p)
        BY <1>6 DEF Part
    <2> QED
        BY <1>2, <2>1, <2>2, <2>3
<1>11. Append(got, Decoded(f)) = more
    <2> DEFINE n == j - k
    <2>1. n \in Nat /\ (j + 1) - k = n + 1 /\ k + (n + 1) = j + 1
        BY <1>1
    <2> HIDE DEF n
    <2> DEFINE x == Decoded(f)
               a == [i \in 1 .. n |-> Decoded(fs[k + i])]
               b == [i \in 1 .. n + 1 |-> Decoded(fs[k + i])]
               B == {Decoded(g) : g \in Frames} \cup {x} \cup {Decoded(fs[k + i]) : i \in 1 .. n + 1}
    <2>2. a \in Seq(B) /\ Len(a) = n /\ \A i \in 1 .. n : a[i] = Decoded(fs[k + i])
        BY <2>1
    <2>3. b \in Seq(B) /\ Len(b) = n + 1 /\ \A i \in 1 .. n + 1 : b[i] = Decoded(fs[k + i])
        BY <2>1
    <2>4. b[n + 1] = x
        <3>1. n + 1 \in 1 .. n + 1
            BY <2>1
        <3> HIDE DEF a, b, B
        <3>2. b[n + 1] = Decoded(fs[k + (n + 1)])
            BY <2>3, <3>1
        <3> QED
            BY <2>1, <3>2 DEF f
    <2>5. x \in B
        OBVIOUS
    <2> HIDE DEF a, b, x, B
    <2>6. Append(a, x) = b
        <3>1. Append(a, x) \in Seq(B) /\ Len(Append(a, x)) = n + 1
            BY <2>1, <2>2, <2>5
        <3>2. ASSUME NEW i \in 1 .. n + 1 PROVE Append(a, x)[i] = b[i]
            <4>1. CASE i = n + 1
                BY <4>1, <2>1, <2>2, <2>4, <2>5
            <4>2. CASE i # n + 1
                <5>1. i \in 1 .. n
                    BY <4>2, <2>1
                <5> QED
                    BY <5>1, <2>1, <2>2, <2>3, <2>5
            <4> QED
                BY <4>1, <4>2
        <3> QED
            BY <2>3, <3>1, <3>2, SameSeq
    <2> QED
        BY <2>1, <2>6 DEF a, b, x, n
<1> HIDE DEF rest, got, more
<1>12. d = [frames |-> got, rest |-> rest]
    BY DEF DecodedUpTo, got, rest, p
<1>13. DecodedUpTo(S, fs, pos, k, e, j + 1) = [frames |-> more, rest |-> Part(S, pos[j + 1], e)]
    BY DEF DecodedUpTo, more
<1> HIDE DEF d
<1>14. d.frames = got /\ d.rest = rest /\ DecodeOne(d.rest) = one
    BY <1>12 DEF one, rest
<1>15. Decode(d) = [frames |-> Append(d.frames, one.frame),
                    rest |-> SubSeq(d.rest, one.size + 1, Len(d.rest))]
    BY <1>8, <1>9, <1>14 DEF Decode
<1>16. Decode(d) = [frames |-> more, rest |-> Part(S, pos[j + 1], e)]
    BY <1>7, <1>10, <1>11, <1>14, <1>15
<1> QED
    BY <1>13, <1>16 DEF d

\* Without another frame that is whole a round takes nothing.
LEMMA DecodesNoMore ==
    ASSUME NEW S \in Seq(Byte), NEW fs \in Seq(Frames), NEW pos, Laid(S, fs, pos),
           NEW k \in 0 .. Len(fs), NEW e \in Nat, e <= Len(S),
           NEW l \in k .. Len(fs), pos[l] <= e, l = Len(fs) \/ e < pos[l + 1]
    PROVE  Decode(DecodedUpTo(S, fs, pos, k, e, l)) = DecodedUpTo(S, fs, pos, k, e, l)
<1> DEFINE d == DecodedUpTo(S, fs, pos, k, e, l)
           p == pos[l]
           rest == Part(S, p, e)
<1>1. d.rest = rest
    BY DEF DecodedUpTo
<1>2. l \in 0 .. Len(fs) /\ p \in Nat /\ p <= e
    <2>1. l \in 0 .. Len(fs)
        OBVIOUS
    <2> HIDE DEF rest, d
    <2> QED
        BY <2>1, LaidIs
<1>3. rest \in Seq(Byte) /\ Len(rest) = e - p
    <2>1. IsPart(rest, S, p, e, Byte)
        BY <1>2, PartIs
    <2> HIDE DEF rest, p
    <2> QED
        BY <2>1 DEF IsPart
<1>4. CASE l = Len(fs)
    <2>1. p = Len(S)
        BY <1>4 DEF Laid
    <2>2. Len(rest) = 0
        BY <1>2, <1>3, <2>1
    <2> HIDE DEF rest, d
    <2>3. rest = <<>>
        BY <1>3, <2>2
    <2> QED
        BY <1>1, <2>3 DEF Decode, d
<1>5. CASE l # Len(fs)
    <2>1. l + 1 \in 1 .. Len(fs) /\ (l + 1) - 1 = l
        BY <1>2, <1>5
    <2>2. /\ fs[l + 1] \in Frames /\ pos[l + 1] = p + Size(fs[l + 1])
          /\ HasFrame(S, p, fs[l + 1])
        BY <2>1 DEF Laid
    <2>3. e < p + Size(fs[l + 1])
        BY <1>5, <2>2
    <2>4. DecodeOne(rest) = Nothing
        BY <1>2, <2>2, <2>3, DecodesFrame
    <2> HIDE DEF rest, d
    <2> QED
        BY <1>1, <2>4 DEF Decode, d
<1> QED
    BY <1>4, <1>5

\* decodeBuffer takes all frames that are whole, and leaves the rest.
LEMMA DecodesAll ==
    ASSUME NEW S \in Seq(Byte), NEW fs \in Seq(Frames), NEW pos, Laid(S, fs, pos),
           NEW k \in 0 .. Len(fs), NEW e \in Nat, e <= Len(S),
           NEW l \in k .. Len(fs), pos[l] <= e, l = Len(fs) \/ e < pos[l + 1]
    PROVE  DecodeBuffer(Part(S, pos[k], e)) = DecodedUpTo(S, fs, pos, k, e, l)
<1> DEFINE bs == Part(S, pos[k], e)
           L == Len(bs)
           base == [frames |-> <<>>, rest |-> bs]
           Step(g, n) == IF n = 0 THEN base ELSE Decode(g[n - 1])
           decoded == CHOOSE g : g = [n \in 0 .. L |-> Step(g, n)]
           at(n) == IF n <= l - k THEN k + n ELSE l
           State(j) == DecodedUpTo(S, fs, pos, k, e, j)
           D == [n \in 0 .. L |-> State(at(n))]
<1>1. /\ k \in Nat /\ l \in Nat /\ k <= l /\ l - k \in Nat /\ l <= Len(fs)
      /\ k \in 0 .. Len(fs) /\ l \in k .. Len(fs) /\ Len(fs) \in Nat
    OBVIOUS
<1>2. pos[k] + (l - k) <= pos[l] /\ pos[k] \in Nat /\ pos[l] \in Nat
    BY <1>1, PlacesGrow, LaidIs
<1>3. L = e - pos[k] /\ L \in Nat /\ l - k <= L
    <2>1. pos[k] <= e
        BY <1>1, <1>2
    <2>2. IsPart(bs, S, pos[k], e, Byte)
        BY <1>2, <2>1, PartIs
    <2>3. L = e - pos[k]
        BY <2>2 DEF IsPart
    <2> DEFINE p == pos[k]
               x == pos[l]
    <2>4. p \in Nat /\ x \in Nat /\ l - k \in Nat /\ p + (l - k) <= x /\ x <= e /\ L = e - p
        BY <1>1, <1>2, <2>3
    <2> HIDE DEF L, p, x
    <2>5. L \in Nat /\ l - k <= L
        BY <2>4
    <2> QED
        BY <2>4, <2>5 DEF p
<1>4. DecodeBuffer(bs) = decoded[L]
    BY DEF DecodeBuffer
<1>5. State(at(0)) = base
    <2>1. at(0) = k
        BY <1>1
    <2>2. [i \in 1 .. k - k |-> Decoded(fs[k + i])] = <<>>
        <3>1. 1 .. k - k = {}
            BY <1>1
        <3> QED
            BY <3>1
    <2> QED
        BY <2>1, <2>2 DEF DecodedUpTo
<1>6. ASSUME NEW n \in 1 .. L PROVE State(at(n)) = Decode(State(at(n - 1)))
    <2>1. CASE n <= l - k
        <3> DEFINE j == at(n - 1)
        <3>1. j \in k .. Len(fs) /\ j < Len(fs) /\ j + 1 \in 0 .. Len(fs) /\ l \in j + 1 .. Len(fs)
            BY <1>1, <1>3, <2>1
        <3>2. at(n) = j + 1
            BY <1>1, <1>3, <2>1
        <3> HIDE DEF j
        <3>3. pos[j + 1] + (l - (j + 1)) <= pos[l] /\ pos[j + 1] \in Nat
            BY <3>1, PlacesGrow, LaidIs
        <3>4. pos[j + 1] <= e
            <4> DEFINE here == pos[j + 1]
                       last == pos[l]
                       left == l - (j + 1)
            <4>1. left \in Nat /\ last \in Nat /\ here \in Nat /\ here + left <= last /\ last <= e
                BY <1>1, <1>2, <3>1, <3>3
            <4> HIDE DEF here, last, left
            <4>2. here <= e
                BY <4>1
            <4> QED
                BY <4>2 DEF here
        <3>5. Decode(State(j)) = State(j + 1)
            BY <3>1, <3>4, DecodesNext
        <3> HIDE DEF State, at
        <3> QED
            BY <3>2, <3>5 DEF j
    <2>2. CASE ~(n <= l - k)
        <3>1. at(n) = l /\ at(n - 1) = l
            BY <1>1, <1>3, <2>2
        <3>2. Decode(State(l)) = State(l)
            BY DecodesNoMore
        <3> HIDE DEF State, at
        <3> QED
            BY <3>1, <3>2
    <2> QED
        BY <2>1, <2>2
<1> HIDE DEF State, at, base
<1>7. D = [n \in 0 .. L |-> Step(D, n)]
    <2>1. ASSUME NEW n \in 0 .. L PROVE State(at(n)) = Step(D, n)
        <3>1. CASE n = 0
            BY <1>5, <3>1
        <3>2. CASE n # 0
            <4>1. n \in 1 .. L /\ n - 1 \in 0 .. L
                BY <1>3, <3>2
            <4>2. D[n - 1] = State(at(n - 1))
                BY <4>1
            <4> HIDE DEF D
            <4> QED
                BY <1>6, <3>2, <4>1, <4>2
        <3> QED
            BY <3>1, <3>2
    <2> HIDE DEF Step
    <2>2. [n \in 0 .. L |-> State(at(n))] = [n \in 0 .. L |-> Step(D, n)]
        BY <2>1
    <2> QED
        BY <2>2
<1> HIDE DEF D
<1>8. decoded = [n \in 0 .. L |-> Step(decoded, n)]
    <2> HIDE DEF Step
    <2> QED
        BY <1>7
<1> HIDE DEF decoded
<1>9. \A n \in 0 .. L : decoded[n] = State(at(n))
    <2> DEFINE T == {n \in Nat : n <= L => decoded[n] = State(at(n))}
    <2>1. 0 \in T
        <3>1. 0 \in 0 .. L
            BY <1>3
        <3>2. decoded[0] = Step(decoded, 0)
            BY <1>8, <3>1
        <3> QED
            BY <1>5, <3>2
    <2>2. ASSUME NEW n \in Nat, n \in T PROVE n + 1 \in T
        <3> SUFFICES ASSUME n + 1 <= L PROVE decoded[n + 1] = State(at(n + 1))
            OBVIOUS
        <3>1. n + 1 \in 0 .. L /\ n + 1 \in 1 .. L /\ n + 1 # 0 /\ (n + 1) - 1 = n /\ n <= L
            BY <1>3
        <3>2. decoded[n + 1] = Step(decoded, n + 1)
            BY <1>8, <3>1
        <3>3. decoded[n + 1] = Decode(decoded[n])
            BY <3>1, <3>2
        <3>4. decoded[n] = State(at(n))
            BY <2>2, <3>1
        <3>5. State(at(n + 1)) = Decode(State(at((n + 1) - 1)))
            BY <1>6, <3>1
        <3> QED
            BY <3>1, <3>3, <3>4, <3>5
    <2>3. \A n \in Nat : n \in T
        <3> HIDE DEF T
        <3> QED
            BY <2>1, <2>2, CountUp
    <2> QED
        BY <1>3, <2>3
<1>10. decoded[L] = State(l)
    <2>1. L \in 0 .. L
        BY <1>3
    <2>2. at(L) = l
        <3> HIDE DEF L
        <3>1. ~(L <= l - k) \/ k + L = l
            BY <1>1, <1>3
        <3> QED
            BY <3>1 DEF at
    <2> QED
        BY <1>9, <2>1, <2>2
<1> QED
    BY <1>4, <1>10 DEF bs, State

\* What the aggregator has and has made, and the frames it is given.
Received == [service : Byte, payload : Seq(Byte)]
Gathered == [open : [Byte -> Seq(Byte)], messages : Seq(Received)]
Given == [service : Byte, first : BOOLEAN, last : BOOLEAN, total : Nat,
          payload : Seq(Byte)]

\* What decodeOne returns has the type of a frame.
LEMMA DecodedIs ==
    ASSUME NEW f \in Frames
    PROVE  /\ Decoded(f) \in Given
           /\ Decoded(f).service = f.service /\ Decoded(f).payload = f.payload
           /\ Decoded(f).last <=> f.last
<1> DEFINE first == FrameHeaderFlags(f) % 2 = 1
           last == (FrameHeaderFlags(f) \div 2) % 2 = 1
           total == IF HeadSize(f) = 8 THEN ReadUint32(Uint32(f.total), 1) ELSE 0
           d == Decoded(f)
<1>1. d = [service |-> f.service, first |-> first, last |-> last, total |-> total,
           payload |-> f.payload]
    BY DEF Decoded
<1>2. first \in BOOLEAN /\ last \in BOOLEAN
    OBVIOUS
<1>3. total \in Nat
    <2> DEFINE u == Uint32(f.total)
    <2>1. u \in Seq(Byte) /\ Len(u) = 4 /\ ReadUint32(u, 1) = u[1] * 256 + u[2]
        BY FrameIs, Uint32Is
    <2> HIDE DEF u
    <2>2. 1 \in 1 .. Len(u) /\ 2 \in 1 .. Len(u)
        BY <2>1
    <2> HIDE DEF first, last, total, d
    <2>3. u[1] \in Byte /\ u[2] \in Byte
        BY <2>1, <2>2, ElementOfSeq
    <2>4. u[1] \in Nat /\ u[2] \in Nat
        BY <2>3 DEF Byte
    <2>5. u[1] * 256 + u[2] \in Nat
        BY <2>4
    <2> QED
        BY <2>1, <2>5 DEF u, total
<1>4. f.service \in Byte /\ f.payload \in Seq(Byte)
    BY FrameIs
<1>5. last <=> f.last
    BY FlagsIs
<1> HIDE DEF first, last, total, d
<1>6. d \in Given
    BY <1>1, <1>2, <1>3, <1>4 DEF Given
<1>7. d.service = f.service /\ d.payload = f.payload /\ d.last = last
    BY <1>1
<1> QED
    BY <1>5, <1>6, <1>7 DEF d

\* The type of what the aggregator has after a frame.
LEMMA AggregateType ==
    ASSUME NEW got \in Gathered, NEW f \in Given
    PROVE  Aggregate(got, f) \in Gathered
<1> DEFINE payload == got.open[f.service] \o f.payload
           a == Aggregate(got, f)
<1>1. /\ got.open \in [Byte -> Seq(Byte)] /\ got.messages \in Seq(Received)
      /\ f.service \in Byte /\ f.payload \in Seq(Byte) /\ f.last \in BOOLEAN
      /\ got = [open |-> got.open, messages |-> got.messages]
    BY DEF Gathered, Given
<1>2. payload \in Seq(Byte)
    <2>1. got.open[f.service] \in Seq(Byte)
        BY <1>1
    <2> QED
        BY <1>1, <2>1
<1>3. <<>> \in Seq(Byte)
    OBVIOUS
<1>4. a = IF f.last
          THEN [open |-> [got.open EXCEPT ![f.service] = <<>>],
                messages |-> Append(got.messages,
                                    [service |-> f.service, payload |-> payload])]
          ELSE [got EXCEPT !.open[f.service] = payload]
    BY DEF Aggregate
<1> HIDE DEF payload, a
<1>5. [service |-> f.service, payload |-> payload] \in Received
    BY <1>1, <1>2 DEF Received
<1>6. CASE f.last
    <2> DEFINE o == [got.open EXCEPT ![f.service] = <<>>]
               m == Append(got.messages, [service |-> f.service, payload |-> payload])
    <2>1. o \in [Byte -> Seq(Byte)]
        BY <1>1, <1>3
    <2>2. m \in Seq(Received)
        BY <1>1, <1>5
    <2>3. a = [open |-> o, messages |-> m]
        BY <1>4, <1>6
    <2> HIDE DEF o, m
    <2>4. a \in Gathered
        BY <2>1, <2>2, <2>3 DEF Gathered
    <2> QED
        BY <2>4 DEF a
<1>7. CASE ~f.last
    <2> DEFINE o == [got.open EXCEPT ![f.service] = payload]
    <2>1. o \in [Byte -> Seq(Byte)]
        BY <1>1, <1>2
    <2>2. a = [open |-> o, messages |-> got.messages]
        BY <1>1, <1>4, <1>7
    <2> HIDE DEF o
    <2>3. a \in Gathered
        BY <1>1, <2>1, <2>2 DEF Gathered
    <2> QED
        BY <2>3 DEF a
<1> QED
    BY <1>1, <1>6, <1>7

\* What the aggregator has after each of the frames q.
Aggregating(h, base, q) ==
    /\ h[0] = base /\ h[Len(q)] = FoldLeft(Aggregate, base, q)
    /\ \A n \in 1 .. Len(q) : h[n] = Aggregate(h[n - 1], q[n])
    /\ \A n \in 0 .. Len(q) : h[n] \in Gathered

\* The aggregator is given the frames one after the other.
LEMMA AggregateSteps ==
    ASSUME NEW base \in Gathered, NEW q \in Seq(Given)
    PROVE  \E h : Aggregating(h, base, q)
<1> DEFINE Step(f, t) ==
        IF t = {} THEN base ELSE Aggregate(f[t \ {Max(t)}], q[Max(t)])
           iter == CHOOSE f : f = [t \in SUBSET DOMAIN q |-> Step(f, t)]
           op == [p \in Gathered \X Given |-> Aggregate(p[1], p[2])]
<1>1. op \in [Gathered \X Given -> Gathered]
    BY AggregateType
<1>2. PICK f : Folding(f, Gathered, base, op, q)
    <2> HIDE DEF op
    <2> QED
        BY <1>1, FoldExists
<1>3. ASSUME NEW t \in SUBSET DOMAIN q PROVE f[t] = Step(f, t)
    <2>1. CASE t = {}
        BY <2>1, <1>2 DEF Folding
    <2>2. CASE t # {}
        <3>1. Max(t) \in t
            BY <2>2, MaxIn
        <3>2. <<f[t \ {Max(t)}], q[Max(t)]>> \in Gathered \X Given
            BY <3>1, <1>2 DEF Folding
        <3> QED
            BY <2>2, <3>2, <1>2 DEF Folding
    <2> QED
        BY <2>1, <2>2
<1>4. iter = [t \in SUBSET DOMAIN q |-> Step(iter, t)]
    <2>1. f = [t \in SUBSET DOMAIN q |-> Step(f, t)]
        BY <1>3, <1>2 DEF Folding
    <2> HIDE DEF Step
    <2> QED
        BY <2>1
<1>5. FoldLeft(Aggregate, base, q) = iter[DOMAIN q]
    BY DEF FoldLeft, MapThenFoldSet
<1> DEFINE h == [n \in 0 .. Len(q) |-> iter[1 .. n]]
<1>6. iter[{}] = base
    <2> HIDE DEF iter
    <2> QED
        BY <1>4
<1>7. ASSUME NEW n \in 1 .. Len(q)
      PROVE  iter[1 .. n] = Aggregate(iter[1 .. n - 1], q[n])
    <2> HIDE DEF iter
    <2>1. 1 .. n \in SUBSET DOMAIN q
        OBVIOUS
    <2>2. iter[1 .. n] = Step(iter, 1 .. n)
        BY <1>4, <2>1
    <2>3. n \in Nat /\ n > 0
        OBVIOUS
    <2>4. Max(1 .. n) = n /\ (1 .. n) \ {n} = 1 .. n - 1 /\ 1 .. n # {}
        BY <2>3, UpTo
    <2> QED
        BY <2>2, <2>4
<1>8. DOMAIN q = 1 .. Len(q) /\ Len(q) \in Nat /\ 1 .. 0 = {}
    OBVIOUS
<1> HIDE DEF iter
<1>9. h[0] = base /\ h[Len(q)] = FoldLeft(Aggregate, base, q)
    BY <1>5, <1>6, <1>8
<1>10. ASSUME NEW n \in 1 .. Len(q) PROVE h[n] = Aggregate(h[n - 1], q[n])
    <2>1. n \in 0 .. Len(q) /\ n - 1 \in 0 .. Len(q)
        OBVIOUS
    <2> QED
        BY <1>7, <2>1
<1> HIDE DEF h
<1>11. \A n \in 0 .. Len(q) : h[n] \in Gathered
    <2> DEFINE T == {n \in Nat : n <= Len(q) => h[n] \in Gathered}
    <2>1. 0 \in T
        BY <1>9
    <2>2. ASSUME NEW n \in Nat, n \in T PROVE n + 1 \in T
        <3> SUFFICES ASSUME n + 1 <= Len(q) PROVE h[n + 1] \in Gathered
            OBVIOUS
        <3>1. n + 1 \in 1 .. Len(q) /\ (n + 1) - 1 = n /\ n <= Len(q)
            BY <1>8
        <3>2. h[n] \in Gathered /\ q[n + 1] \in Given
            BY <2>2, <3>1
        <3>3. h[n + 1] = Aggregate(h[n], q[n + 1])
            BY <1>10, <3>1
        <3> QED
            BY <3>2, <3>3, AggregateType
    <2>3. \A n \in Nat : n \in T
        <3> HIDE DEF T
        <3> QED
            BY <2>1, <2>2, CountUp
    <2> QED
        BY <1>8, <2>3
<1> QED
    BY <1>9, <1>10, <1>11 DEF Aggregating

\* Two runs of the aggregator that begin alike and are given the same frames.
LEMMA SameAggregate ==
    ASSUME NEW base \in Gathered, NEW q \in Seq(Given), NEW g, g[0] = base,
           \A n \in 1 .. Len(q) : g[n] = Aggregate(g[n - 1], q[n])
    PROVE  FoldLeft(Aggregate, base, q) = g[Len(q)]
<1>1. PICK h : Aggregating(h, base, q)
    BY AggregateSteps
<1> DEFINE T == {n \in Nat : h[n] = g[n]}
<1>2. h[0] = base /\ \A n \in 1 .. Len(q) : h[n] = Aggregate(h[n - 1], q[n])
    BY <1>1 DEF Aggregating
<1>3. 0 \in T
    BY <1>2
<1>4. \A n \in 1 .. Len(q) : n - 1 \in T => n \in T
    BY <1>2
<1>5. Len(q) \in Nat
    OBVIOUS
<1>6. Len(q) \in T
    <2> HIDE DEF T
    <2> QED
        BY <1>3, <1>4, <1>5, CountUpTo
<1>7. h[Len(q)] = g[Len(q)]
    BY <1>6
<1> QED
    BY <1>1, <1>7 DEF Aggregating

\* The sequences ss lie in S one after the other, and end at the places pos.
InPlaces(S, ss, pos) ==
    /\ pos \in [0 .. Len(ss) -> Nat] /\ pos[0] = 0 /\ pos[Len(ss)] = Len(S)
    /\ \A k \in 1 .. Len(ss) :
          /\ pos[k] = pos[k - 1] + Len(ss[k]) /\ pos[k] <= Len(S)
          /\ \A i \in 1 .. Len(ss[k]) : S[pos[k - 1] + i] = ss[k][i]

\* Where the sequences are in what FlattenSeq makes of them.
LEMMA FlattenPlaces ==
    ASSUME NEW B, NEW ss \in Seq(Seq(B))
    PROVE  FlattenSeq(ss) \in Seq(B) /\ \E pos : InPlaces(FlattenSeq(ss), ss, pos)
<1> DEFINE S == FlattenSeq(ss)
           N == Len(ss)
<1>1. N \in Nat /\ \A n \in 1 .. N : ss[n] \in Seq(B) /\ Len(ss[n]) \in Nat
    OBVIOUS
<1>2. S \in Seq(B)
    BY FlattenIs
<1>3. CASE N = 0
    <2>1. ss = <<>>
        BY <1>3
    <2>2. S = <<>>
        BY <2>1 DEF FlattenSeq
    <2> DEFINE pos == [n \in 0 .. 0 |-> 0]
    <2>3. pos \in [0 .. 0 -> Nat] /\ pos[0] = 0
        OBVIOUS
    <2> HIDE DEF pos
    <2>4. Len(S) = 0 /\ 1 .. N = {}
        BY <1>3, <2>2
    <2>5. InPlaces(S, ss, pos)
        BY <1>3, <2>3, <2>4 DEF InPlaces
    <2> QED
        BY <1>2, <2>5
<1>4. CASE N # 0
    <2>0. Len(ss) > 0
        BY <1>1, <1>4
    <2>1. PICK h : /\ h[1] = ss[1] /\ h[N] = S
                   /\ \A n \in 2 .. N : h[n] = h[n - 1] \o ss[n]
        <3> HIDE DEF S, N
        <3>1. \E h : /\ h[1] = ss[1] /\ h[Len(ss)] = FlattenSeq(ss)
                     /\ \A n \in 2 .. Len(ss) : h[n] = h[n - 1] \o ss[n]
            BY <2>0, FlattenSteps
        <3> QED
            BY <3>1 DEF S, N
    <2> HIDE DEF S, N
    <2> DEFINE H == [n \in 0 .. N |-> IF n = 0 THEN <<>> ELSE h[n]]
    <2>2. H[0] = <<>> /\ H[N] = S
        BY <1>1, <1>4, <2>1
    <2>3. ASSUME NEW n \in 1 .. N PROVE H[n] = H[n - 1] \o ss[n]
        <3>1. CASE n = 1
            <4>1. H[1] = ss[1] /\ H[1 - 1] = <<>>
                BY <1>1, <1>4, <2>1
            <4>2. ss[1] \in Seq(B)
                BY <1>1, <3>1
            <4>3. <<>> \o ss[1] = ss[1]
                BY <4>2
            <4> HIDE DEF H
            <4> QED
                BY <3>1, <4>1, <4>3
        <3>2. CASE n # 1
            <4>1. n \in 2 .. N /\ n \in 0 .. N /\ n - 1 \in 0 .. N /\ n # 0 /\ n - 1 # 0
                BY <1>1, <3>2
            <4>2. H[n] = h[n] /\ H[n - 1] = h[n - 1]
                BY <4>1
            <4>3. h[n] = h[n - 1] \o ss[n]
                BY <2>1, <4>1
            <4> HIDE DEF H
            <4> QED
                BY <4>2, <4>3
        <3> QED
            BY <3>1, <3>2
    <2> HIDE DEF H
    <2>4. \A n \in 0 .. N : H[n] \in Seq(B)
        <3> DEFINE T == {n \in Nat : n <= N => H[n] \in Seq(B)}
        <3>1. 0 \in T
            <4>1. <<>> \in Seq(B)
                OBVIOUS
            <4> QED
                BY <2>2, <4>1
        <3>2. ASSUME NEW n \in Nat, n \in T PROVE n + 1 \in T
            <4> SUFFICES ASSUME n + 1 <= N PROVE H[n + 1] \in Seq(B)
                OBVIOUS
            <4>1. n + 1 \in 1 .. N /\ (n + 1) - 1 = n /\ n <= N
                BY <1>1
            <4>2. H[n + 1] = H[n] \o ss[n + 1] /\ H[n] \in Seq(B) /\ ss[n + 1] \in Seq(B)
                BY <1>1, <2>3, <3>2, <4>1
            <4> QED
                BY <4>2
        <3>3. \A n \in Nat : n \in T
            <4> HIDE DEF T
            <4> QED
                BY <3>1, <3>2, CountUp
        <3> QED
            BY <1>1, <3>3
    <2> DEFINE pos == [n \in 0 .. N |-> Len(H[n])]
    <2>5. \A n \in 1 .. N : IsConcat(H[n], H[n - 1], ss[n], B)
        <3>1. ASSUME NEW n \in 1 .. N PROVE IsConcat(H[n], H[n - 1], ss[n], B)
            <4>1. n - 1 \in 0 .. N
                BY <1>1
            <4> QED
                BY <1>1, <2>3, <2>4, <4>1, ConcatIs
        <3> QED
            BY <3>1
    <2>6. ASSUME NEW k \in 0 .. N
          PROVE  Len(H[k]) <= Len(S) /\ \A i \in 1 .. Len(H[k]) : S[i] = H[k][i]
        <3> DEFINE T == {m \in Nat : k + m <= N =>
                            /\ Len(H[k]) <= Len(H[k + m])
                            /\ \A i \in 1 .. Len(H[k]) : H[k + m][i] = H[k][i]}
        <3>1. 0 \in T
            BY <1>1, <2>4
        <3>2. ASSUME NEW m \in Nat, m \in T PROVE m + 1 \in T
            <4> SUFFICES ASSUME k + (m + 1) <= N
                         PROVE  /\ Len(H[k]) <= Len(H[k + (m + 1)])
                                /\ \A i \in 1 .. Len(H[k]) : H[k + (m + 1)][i] = H[k][i]
                OBVIOUS
            <4> DEFINE n == k + (m + 1)
            <4>1. n \in 1 .. N /\ n - 1 = k + m /\ n - 1 \in 0 .. N /\ k + m <= N
                BY <1>1
            <4>2. /\ Len(H[k]) <= Len(H[n - 1])
                  /\ \A i \in 1 .. Len(H[k]) : H[n - 1][i] = H[k][i]
                BY <3>2, <4>1
            <4> HIDE DEF n
            <4>3. /\ Len(H[n]) = Len(H[n - 1]) + Len(ss[n])
                  /\ \A i \in 1 .. Len(H[n - 1]) : H[n][i] = H[n - 1][i]
                BY <2>5, <4>1 DEF IsConcat
            <4>4. Len(H[k]) \in Nat /\ Len(H[n - 1]) \in Nat /\ Len(ss[n]) \in Nat
                BY <1>1, <2>4, <4>1
            <4>5. Len(H[k]) <= Len(H[n])
                <5> DEFINE a == Len(H[k])
                           b == Len(H[n - 1])
                           c == Len(ss[n])
                           d == Len(H[n])
                <5>1. a \in Nat /\ b \in Nat /\ c \in Nat /\ d = b + c /\ a <= b
                    BY <4>2, <4>3, <4>4
                <5> HIDE DEF a, b, c, d
                <5>2. a <= d
                    BY <5>1
                <5> QED
                    BY <5>2 DEF a, d
            <4>6. ASSUME NEW i \in 1 .. Len(H[k]) PROVE H[n][i] = H[k][i]
                <5>1. i \in 1 .. Len(H[n - 1])
                    BY <4>2, <4>4
                <5> QED
                    BY <4>2, <4>3, <5>1
            <4> QED
                BY <4>5, <4>6 DEF n
        <3>3. \A m \in Nat : m \in T
            <4> HIDE DEF T
            <4> QED
                BY <3>1, <3>2, CountUp
        <3>4. N - k \in Nat /\ k + (N - k) = N
            BY <1>1
        <3>5. N - k \in T
            BY <3>3, <3>4
        <3> QED
            BY <2>2, <3>4, <3>5
    <2>7. pos \in [0 .. N -> Nat]
        BY <2>4
    <2>8. pos[0] = 0 /\ pos[N] = Len(S)
        BY <1>1, <2>2
    <2>9. ASSUME NEW k \in 1 .. N
          PROVE  /\ pos[k] = pos[k - 1] + Len(ss[k]) /\ pos[k] <= Len(S)
                 /\ \A i \in 1 .. Len(ss[k]) : S[pos[k - 1] + i] = ss[k][i]
        <3>1. k \in 0 .. N /\ k - 1 \in 0 .. N
            BY <1>1
        <3>2. pos[k] = Len(H[k]) /\ pos[k - 1] = Len(H[k - 1])
            BY <3>1
        <3> HIDE DEF pos
        <3>3. /\ Len(H[k]) = Len(H[k - 1]) + Len(ss[k])
              /\ \A i \in 1 .. Len(ss[k]) : H[k][Len(H[k - 1]) + i] = ss[k][i]
            BY <2>5 DEF IsConcat
        <3>4. Len(H[k]) <= Len(S) /\ \A i \in 1 .. Len(H[k]) : S[i] = H[k][i]
            BY <2>6, <3>1
        <3>5. Len(H[k - 1]) \in Nat /\ Len(ss[k]) \in Nat
            BY <1>1, <2>4, <3>1
        <3>6. ASSUME NEW i \in 1 .. Len(ss[k]) PROVE S[pos[k - 1] + i] = ss[k][i]
            <4> DEFINE a == Len(H[k - 1])
                       b == Len(ss[k])
                       c == Len(H[k])
            <4>1. a \in Nat /\ b \in Nat /\ c = a + b /\ i \in 1 .. b
                BY <3>3, <3>5
            <4> HIDE DEF a, b, c
            <4>2. a + i \in 1 .. c
                BY <4>1
            <4>3. H[k][a + i] = ss[k][i]
                BY <3>3 DEF a
            <4>4. S[a + i] = H[k][a + i]
                BY <3>4, <4>2 DEF c
            <4>5. pos[k - 1] + i = a + i
                BY <3>2 DEF a
            <4> QED
                BY <4>3, <4>4, <4>5
        <3> QED
            BY <3>2, <3>3, <3>4, <3>6
    <2> HIDE DEF pos
    <2>10. InPlaces(S, ss, pos)
        BY <2>7, <2>8, <2>9 DEF InPlaces, N
    <2> QED
        BY <1>2, <2>10 DEF S
<1> QED
    BY <1>3, <1>4

\* The bytes of frames, one after the other.
WireOf(fs) == FlattenSeq([i \in 1 .. Len(fs) |-> Bytes(fs[i])])

\* Where the frames are on the wire.
LEMMA WireLaid ==
    ASSUME NEW fs \in Seq(Frames)
    PROVE  WireOf(fs) \in Seq(Byte) /\ \E pos : Laid(WireOf(fs), fs, pos)
<1> DEFINE ss == [i \in 1 .. Len(fs) |-> Bytes(fs[i])]
           S == WireOf(fs)
<1>1. ASSUME NEW i \in 1 .. Len(fs)
      PROVE  /\ fs[i] \in Frames /\ Bytes(fs[i]) \in Seq(Byte)
             /\ Len(Bytes(fs[i])) = Size(fs[i]) /\ HasFrame(Bytes(fs[i]), 0, fs[i])
    BY BytesAre
<1>2. Len(fs) \in Nat
    OBVIOUS
<1>3. ss \in Seq(Seq(Byte)) /\ Len(ss) = Len(fs)
    BY <1>1, <1>2
<1>4. \A i \in 1 .. Len(fs) : ss[i] = Bytes(fs[i])
    OBVIOUS
<1>5. S = FlattenSeq(ss)
    BY DEF WireOf
<1> HIDE DEF ss, S
<1>6. S \in Seq(Byte) /\ \E pos : InPlaces(S, ss, pos)
    BY <1>3, <1>5, FlattenPlaces
<1>7. PICK pos : InPlaces(S, ss, pos)
    BY <1>6
<1>8. /\ pos \in [0 .. Len(fs) -> Nat] /\ pos[0] = 0 /\ pos[Len(fs)] = Len(S)
      /\ \A k \in 1 .. Len(fs) :
            /\ pos[k] = pos[k - 1] + Len(ss[k]) /\ pos[k] <= Len(S)
            /\ \A i \in 1 .. Len(ss[k]) : S[pos[k - 1] + i] = ss[k][i]
    BY <1>3, <1>7 DEF InPlaces
<1>9. ASSUME NEW k \in 1 .. Len(fs)
      PROVE  pos[k] = pos[k - 1] + Size(fs[k]) /\ HasFrame(S, pos[k - 1], fs[k])
    <2> DEFINE f == fs[k]
               b == Bytes(f)
               p == pos[k - 1]
               n == Len(f.payload)
               hs == HeadSize(f)
    <2>1. /\ f \in Frames /\ Len(b) = Size(f) /\ HasFrame(b, 0, f) /\ ss[k] = b
        BY <1>1, <1>4
    <2>2. p \in Nat
        <3>1. k - 1 \in 0 .. Len(fs)
            BY <1>2
        <3> QED
            BY <1>8, <3>1
    <2>3. /\ pos[k] = p + Len(b) /\ pos[k] <= Len(S)
          /\ \A i \in 1 .. Len(b) : S[p + i] = b[i]
        BY <1>8, <2>1
    <2> HIDE DEF f, b, p
    <2>4. n \in Nat /\ Size(f) = hs + n /\ hs \in Nat /\ (hs = 4 \/ hs = 8)
        BY <2>1, FrameIs
    <2>5. /\ b[0 + 1] = f.service /\ b[0 + 2] = FrameHeaderFlags(f)
          /\ b[0 + 3] * 256 + b[0 + 4] = n
          /\ hs = 8 => b[0 + 5] * 256 + b[0 + 6] = ReadUint32(Uint32(f.total), 1)
          /\ \A i \in 1 .. n : b[0 + hs + i] = f.payload[i]
        BY <2>1 DEF HasFrame
    <2> HIDE DEF n, hs
    <2>6. Len(b) = hs + n
        BY <2>1, <2>4
    <2>7. S[p + 1] = b[1] /\ S[p + 2] = b[2] /\ S[p + 3] = b[3] /\ S[p + 4] = b[4]
        BY <2>3, <2>4, <2>6
    <2>8. hs = 8 => S[p + 5] = b[5] /\ S[p + 6] = b[6]
        BY <2>3, <2>4, <2>6
    <2>9. ASSUME NEW i \in 1 .. n PROVE S[p + hs + i] = f.payload[i]
        <3>1. hs + i \in 1 .. Len(b) /\ p + (hs + i) = p + hs + i /\ 0 + hs + i = hs + i
            BY <2>2, <2>4, <2>6
        <3> QED
            BY <2>3, <2>5, <3>1
    <2>10. p + Size(f) <= Len(S) /\ pos[k] = p + Size(f)
        BY <2>1, <2>3
    <2>11. /\ S[p + 1] = f.service /\ S[p + 2] = FrameHeaderFlags(f)
           /\ S[p + 3] * 256 + S[p + 4] = n
           /\ hs = 8 => S[p + 5] * 256 + S[p + 6] = ReadUint32(Uint32(f.total), 1)
        BY <2>5, <2>7, <2>8
    <2>12. HasFrame(S, p, f)
        BY <2>9, <2>10, <2>11 DEF HasFrame, n, hs
    <2> QED
        BY <2>10, <2>12 DEF f, p
<1>10. Laid(S, fs, pos)
    BY <1>8, <1>9 DEF Laid
<1> QED
    BY <1>6, <1>10 DEF S

\* Two parts, one behind the other, are a part.
LEMMA PartsJoin ==
    ASSUME NEW B, NEW S \in Seq(B), NEW p \in Nat, NEW e \in Nat, NEW m \in Nat,
           p <= e, e <= m, m <= Len(S), NEW bs, IsPart(bs, S, e, m, B)
    PROVE  Part(S, p, e) \o bs = Part(S, p, m)
<1> DEFINE a == Part(S, p, e)
           b == Part(S, p, m)
           c == a \o bs
<1>1. /\ e <= Len(S) /\ p <= m
      /\ bs \in Seq(B) /\ Len(bs) = m - e /\ \A i \in 1 .. m - e : bs[i] = S[e + i]
    BY DEF IsPart
<1>2. IsPart(a, S, p, e, B) /\ IsPart(b, S, p, m, B)
    BY <1>1, PartIs
<1> HIDE DEF a, b
<1>3. /\ a \in Seq(B) /\ Len(a) = e - p /\ \A i \in 1 .. e - p : a[i] = S[p + i]
      /\ b \in Seq(B) /\ Len(b) = m - p /\ \A i \in 1 .. m - p : b[i] = S[p + i]
    BY <1>2 DEF IsPart
<1>4. IsConcat(c, a, bs, B)
    BY <1>1, <1>3, ConcatIs
<1> HIDE DEF c
<1>5. /\ c \in Seq(B) /\ Len(c) = Len(a) + Len(bs)
      /\ \A i \in 1 .. Len(a) : c[i] = a[i]
      /\ \A i \in 1 .. Len(bs) : c[Len(a) + i] = bs[i]
    BY <1>4 DEF IsConcat
<1>6. Len(c) = m - p
    BY <1>1, <1>3, <1>5
<1>7. ASSUME NEW i \in 1 .. m - p PROVE c[i] = b[i]
    <2>1. CASE i <= e - p
        <3>1. i \in 1 .. e - p
            BY <2>1
        <3> QED
            BY <1>3, <1>5, <3>1
    <2>2. CASE ~(i <= e - p)
        <3> DEFINE j == i - (e - p)
        <3>1. j \in 1 .. m - e /\ (e - p) + j = i /\ e + j = p + i
            BY <2>2
        <3> HIDE DEF j
        <3>2. c[i] = bs[j]
            BY <1>1, <1>3, <1>5, <3>1
        <3>3. S[p + i] = bs[j]
            BY <1>1, <3>1
        <3> QED
            BY <1>3, <3>2, <3>3
    <2> QED
        BY <2>1, <2>2
<1>8. c = b
    BY <1>3, <1>5, <1>6, <1>7, SameSeq
<1> QED
    BY <1>8 DEF a, b, c

\* What decodeOne makes of the frames, what the aggregator begins with, and what it
\* makes of them all.
AllDecoded(fs) == [i \in 1 .. Len(fs) |-> Decoded(fs[i])]
Begin == [open |-> Idle, messages |-> <<>>]
Aggregated(fs) == FoldLeft(Aggregate, Begin, AllDecoded(fs))

\* What has been received when the wire has been read up to e, of which the frames
\* up to the k-th are whole; the aggregator had h.
ReadUpTo(S, pos, h, k, e) ==
    [rest |-> Part(S, pos[k], e), open |-> h[k].open, messages |-> h[k].messages]

\* A chunk completes the frames up to the l-th.
LEMMA ReceivesChunk ==
    ASSUME NEW S \in Seq(Byte), NEW fs \in Seq(Frames), NEW pos, Laid(S, fs, pos),
           NEW h, Aggregating(h, Begin, AllDecoded(fs)),
           NEW k \in 0 .. Len(fs), NEW e \in Nat, pos[k] <= e,
           NEW m \in Nat, e <= m, m <= Len(S), NEW bs, IsPart(bs, S, e, m, Byte),
           NEW l \in k .. Len(fs), pos[l] <= m, l = Len(fs) \/ m < pos[l + 1]
    PROVE  ReceiveChunk(ReadUpTo(S, pos, h, k, e), bs) = ReadUpTo(S, pos, h, l, m)
<1> DEFINE got == ReadUpTo(S, pos, h, k, e)
           q == [i \in 1 .. l - k |-> Decoded(fs[k + i])]
           N == Len(fs)
           all == AllDecoded(fs)
           base == [open |-> got.open, messages |-> got.messages]
<1>1. N \in Nat /\ k \in Nat /\ l \in Nat /\ k <= l /\ l <= N
    OBVIOUS
<1>2. pos[k] \in Nat
    BY LaidIs
<1>3. got.rest \o bs = Part(S, pos[k], m)
    <2>1. got.rest = Part(S, pos[k], e)
        BY DEF ReadUpTo
    <2>3. Part(S, pos[k], e) \o bs = Part(S, pos[k], m)
        <3> DEFINE p == pos[k]
        <3>1. p \in Nat /\ p <= e
            BY <1>2
        <3> HIDE DEF p, got, base, q, all, N
        <3>2. Part(S, p, e) \o bs = Part(S, p, m)
            BY <3>1, PartsJoin
        <3> QED
            BY <3>2 DEF p
    <2> HIDE DEF got
    <2> QED
        BY <2>1, <2>3, Zenon
<1>4. DecodeBuffer(Part(S, pos[k], m)) = [frames |-> q, rest |-> Part(S, pos[l], m)]
    <2>1. DecodeBuffer(Part(S, pos[k], m)) = DecodedUpTo(S, fs, pos, k, m, l)
        BY DecodesAll
    <2> QED
        BY <2>1 DEF DecodedUpTo
<1>5. /\ Len(all) = N /\ all \in Seq(Given)
      /\ \A i \in 1 .. N : all[i] = Decoded(fs[i]) /\ Decoded(fs[i]) \in Given
    <2>1. \A i \in 1 .. N : Decoded(fs[i]) \in Given
        BY DecodedIs
    <2> HIDE DEF N
    <2>2. all = [i \in 1 .. N |-> Decoded(fs[i])]
        BY DEF AllDecoded, N
    <2> HIDE DEF all
    <2> QED
        BY <1>1, <2>1, <2>2
<1>6. /\ \A n \in 1 .. N : h[n] = Aggregate(h[n - 1], all[n])
      /\ \A n \in 0 .. N : h[n] \in Gathered
    <2> HIDE DEF all, N
    <2> QED
        BY <1>5 DEF Aggregating, all
<1> HIDE DEF N, all
<1>7. q \in Seq(Given) /\ Len(q) = l - k
    <2>1. ASSUME NEW i \in 1 .. l - k PROVE Decoded(fs[k + i]) \in Given
        <3>1. k + i \in 1 .. N
            BY <1>1
        <3> QED
            BY <1>5, <3>1
    <2>2. l - k \in Nat
        BY <1>1
    <2> QED
        BY <2>1, <2>2
<1>8. base = h[k] /\ h[k] \in Gathered
    <2>1. k \in 0 .. N
        BY DEF N
    <2>2. h[k] \in Gathered
        BY <1>6, <2>1
    <2>3. h[k] = [open |-> h[k].open, messages |-> h[k].messages]
        BY <2>2 DEF Gathered
    <2>4. got.open = h[k].open /\ got.messages = h[k].messages
        BY DEF ReadUpTo
    <2> HIDE DEF got
    <2> QED
        BY <2>2, <2>3, <2>4
<1> HIDE DEF got
<1> DEFINE g == [n \in 0 .. l - k |-> h[k + n]]
<1>9. g[0] = h[k] /\ g[l - k] = h[l]
    <2>1. 0 \in 0 .. l - k /\ l - k \in 0 .. l - k /\ k + 0 = k /\ k + (l - k) = l
        BY <1>1
    <2> QED
        BY <2>1
<1>10. ASSUME NEW n \in 1 .. Len(q) PROVE g[n] = Aggregate(g[n - 1], q[n])
    <2>1. /\ n \in 0 .. l - k /\ n - 1 \in 0 .. l - k /\ n \in 1 .. l - k
          /\ k + n \in 1 .. N /\ (k + n) - 1 = k + (n - 1)
        BY <1>1, <1>7
    <2>2. g[n] = h[k + n] /\ g[n - 1] = h[k + (n - 1)] /\ q[n] = Decoded(fs[k + n])
        BY <2>1
    <2>3. h[k + n] = Aggregate(h[k + (n - 1)], Decoded(fs[k + n]))
        BY <1>5, <1>6, <2>1
    <2> HIDE DEF g, q
    <2> QED
        BY <2>2, <2>3
<1> HIDE DEF g, q, base
<1>11. FoldLeft(Aggregate, base, q) = h[l]
    <2>1. base \in Gathered /\ g[0] = base
        BY <1>8, <1>9
    <2>2. FoldLeft(Aggregate, base, q) = g[Len(q)]
        BY <1>7, <1>10, <2>1, SameAggregate
    <2> QED
        BY <1>7, <1>9, <2>2
<1> DEFINE decoded == DecodeBuffer(got.rest \o bs)
<1>12. decoded.frames = q /\ decoded.rest = Part(S, pos[l], m)
    BY <1>3, <1>4
<1>13. ReceiveChunk(got, bs) =
          [rest |-> decoded.rest,
           open |-> FoldLeft(Aggregate, base, decoded.frames).open,
           messages |-> FoldLeft(Aggregate, base, decoded.frames).messages]
    BY DEF ReceiveChunk, base
<1> HIDE DEF decoded
<1>14. ReceiveChunk(got, bs) =
          [rest |-> Part(S, pos[l], m), open |-> h[l].open, messages |-> h[l].messages]
    BY <1>11, <1>12, <1>13
<1> QED
    BY <1>14 DEF ReadUpTo, got

\* What the aggregator begins with.
LEMMA BeginIs == Begin \in Gathered /\ Begin.open = Idle /\ Begin.messages = <<>>
<1> DEFINE o == Begin.open
           m == Begin.messages
<1>1. o = Idle /\ m = <<>> /\ Begin = [open |-> o, messages |-> m]
    BY DEF Begin
<1>2. <<>> \in Seq(Byte) /\ <<>> \in Seq(Received)
    OBVIOUS
<1>3. o \in [Byte -> Seq(Byte)]
    BY <1>1, <1>2 DEF Idle, Byte
<1> HIDE DEF o, m
<1>4. Begin \in Gathered
    BY <1>1, <1>2, <1>3 DEF Gathered
<1> QED
    BY <1>1, <1>4 DEF o, m

\* The last frame that is whole at e.
WholeAt(fs, pos, e, l) ==
    l \in 0 .. Len(fs) /\ pos[l] <= e /\ (l = Len(fs) \/ e < pos[l + 1])

\* There is one, and it is no earlier one later on.
LEMMA WholeAtIs ==
    ASSUME NEW S \in Seq(Byte), NEW fs \in Seq(Frames), NEW pos, Laid(S, fs, pos),
           NEW e \in Nat
    PROVE  /\ \E l : WholeAt(fs, pos, e, l)
           /\ \A k, l : \A d \in Nat :
                 d <= e /\ WholeAt(fs, pos, d, k) /\ WholeAt(fs, pos, e, l) => k <= l
           /\ \A l : e = 0 /\ WholeAt(fs, pos, e, l) => l = 0
           /\ \A l : e = Len(S) /\ WholeAt(fs, pos, e, l) => l = Len(fs)
<1> DEFINE N == Len(fs)
<1>1. /\ N \in Nat /\ \A i \in 0 .. N : pos[i] \in Nat
      /\ pos[0] = 0
    BY LaidIs DEF Laid
<1>2. \E l : WholeAt(fs, pos, e, l)
    <2>1. 0 \in 0 .. Len(fs) /\ pos[0] <= e
        BY <1>1
    <2>2. \E l \in 0 .. Len(fs) : pos[l] <= e /\ (l = Len(fs) \/ e < pos[l + 1])
        BY <2>1, LastPlace
    <2> QED
        BY <2>2 DEF WholeAt
<1>3. ASSUME NEW k, NEW l, NEW d \in Nat, d <= e, WholeAt(fs, pos, d, k),
             WholeAt(fs, pos, e, l)
      PROVE  k <= l
    <2> SUFFICES ASSUME ~(k <= l) PROVE FALSE
        OBVIOUS
    <2>1. k \in 0 .. N /\ l \in 0 .. N /\ pos[k] <= d /\ (l = N \/ e < pos[l + 1])
        BY <1>3 DEF WholeAt
    <2>2. l + 1 \in 0 .. Len(fs) /\ k \in l + 1 .. Len(fs) /\ l # N
        BY <1>1, <2>1
    <2>3. pos[l + 1] + (k - (l + 1)) <= pos[k]
        BY <2>2, PlacesGrow
    <2>4. pos[l + 1] \in Nat /\ pos[k] \in Nat /\ k - (l + 1) \in Nat
        BY <1>1, <2>1, <2>2
    <2> HIDE DEF N
    <2>5. pos[l + 1] <= e
        BY <1>3, <2>1, <2>3, <2>4
    <2> QED
        BY <2>1, <2>2, <2>4, <2>5
<1>4. ASSUME NEW l, e = 0, WholeAt(fs, pos, e, l) PROVE l = 0
    <2>1. l \in 0 .. N /\ pos[l] <= 0
        BY <1>4 DEF WholeAt
    <2>2. 0 \in 0 .. Len(fs) /\ l \in 0 .. Len(fs)
        BY <1>1, <2>1
    <2>3. pos[0] + (l - 0) <= pos[l]
        BY <2>2, PlacesGrow
    <2>4. pos[l] \in Nat /\ l \in Nat
        BY <1>1, <2>1
    <2> QED
        BY <1>1, <2>1, <2>3, <2>4
<1>5. ASSUME NEW l, e = Len(S), WholeAt(fs, pos, e, l) PROVE l = N
    <2> SUFFICES ASSUME l # N PROVE FALSE
        OBVIOUS
    <2>1. l \in 0 .. N /\ Len(S) < pos[l + 1]
        BY <1>5 DEF WholeAt
    <2>2. l + 1 \in 0 .. Len(fs)
        BY <1>1, <2>1
    <2>3. pos[l + 1] <= Len(S) /\ pos[l + 1] \in Nat
        BY <2>2, PlacesGrow
    <2> QED
        BY <2>1, <2>3
<1> QED
    BY <1>2, <1>3, <1>4, <1>5

\* However the bytes of the phone's frames are cut into chunks, what is received of
\* them is what the aggregator makes of the frames, one after the other, and no byte
\* is left over (onDeviceTransportDataAsync, decodeBuffer and aggregate).
THEOREM ReceivedHoweverCut ==
    ASSUME NEW fs \in Seq(Frames), NEW chunks \in Seq(Seq(Byte)),
           FlattenSeq(chunks) = WireOf(fs)
    PROVE  ReceiveChunks(chunks) =
               [rest |-> <<>>, open |-> Aggregated(fs).open,
                messages |-> Aggregated(fs).messages]
<1> DEFINE S == WireOf(fs)
           N == Len(fs)
           C == Len(chunks)
           base == [rest |-> <<>>, open |-> Idle, messages |-> <<>>]
           Step(g, n) == IF n = 0 THEN base ELSE ReceiveChunk(g[n - 1], chunks[n])
           received == CHOOSE g : g = [n \in 0 .. C |-> Step(g, n)]
<1>1. S \in Seq(Byte) /\ \E pos : Laid(S, fs, pos)
    BY WireLaid
<1>2. PICK pos : Laid(S, fs, pos)
    BY <1>1
<1>3. \E cuts : InPlaces(S, chunks, cuts)
    BY FlattenPlaces
<1>4. PICK cuts : InPlaces(S, chunks, cuts)
    BY <1>3
<1>5. AllDecoded(fs) \in Seq(Given) /\ Len(AllDecoded(fs)) = N
    <2>1. \A i \in 1 .. N : Decoded(fs[i]) \in Given
        BY DecodedIs
    <2>2. N \in Nat
        OBVIOUS
    <2> HIDE DEF N
    <2>3. AllDecoded(fs) = [i \in 1 .. N |-> Decoded(fs[i])]
        BY DEF AllDecoded, N
    <2> QED
        BY <2>1, <2>2, <2>3
<1>6. PICK h : Aggregating(h, Begin, AllDecoded(fs))
    BY <1>5, BeginIs, AggregateSteps
<1>7. h[0] = Begin /\ h[N] = Aggregated(fs)
    BY <1>5, <1>6 DEF Aggregating, Aggregated
<1>8. /\ C \in Nat /\ cuts[0] = 0 /\ cuts[C] = Len(S)
      /\ \A n \in 0 .. C : cuts[n] \in Nat
      /\ \A n \in 1 .. C :
            /\ chunks[n] \in Seq(Byte) /\ Len(chunks[n]) \in Nat
            /\ cuts[n] = cuts[n - 1] + Len(chunks[n]) /\ cuts[n] <= Len(S)
            /\ \A i \in 1 .. Len(chunks[n]) : S[cuts[n - 1] + i] = chunks[n][i]
    <2>1. C \in Nat /\ \A n \in 1 .. C : chunks[n] \in Seq(Byte) /\ Len(chunks[n]) \in Nat
        OBVIOUS
    <2> HIDE DEF S
    <2>2. /\ cuts \in [0 .. C -> Nat] /\ cuts[0] = 0 /\ cuts[C] = Len(S)
          /\ \A n \in 1 .. C :
                /\ cuts[n] = cuts[n - 1] + Len(chunks[n]) /\ cuts[n] <= Len(S)
                /\ \A i \in 1 .. Len(chunks[n]) : S[cuts[n - 1] + i] = chunks[n][i]
        BY <1>4 DEF InPlaces
    <2> HIDE DEF C
    <2> QED
        BY <2>1, <2>2
<1> HIDE DEF S, N, C, base
<1> DEFINE whole(n) == CHOOSE l : WholeAt(fs, pos, cuts[n], l)
           State(n) == ReadUpTo(S, pos, h, whole(n), cuts[n])
           D == [n \in 0 .. C |-> State(n)]
<1>9. \A n \in 0 .. C : WholeAt(fs, pos, cuts[n], whole(n))
    <2>1. ASSUME NEW n \in 0 .. C PROVE WholeAt(fs, pos, cuts[n], whole(n))
        <3>1. \E l : WholeAt(fs, pos, cuts[n], l)
            BY <1>1, <1>2, <1>8, WholeAtIs
        <3> QED
            BY <3>1
    <2> QED
        BY <2>1
<1> HIDE DEF whole
<1>10. State(0) = base
    <2>1. 0 \in 0 .. C /\ 0 \in Nat
        BY <1>8
    <2>2. whole(0) = 0
        BY <1>1, <1>2, <1>8, <1>9, <2>1, WholeAtIs
    <2>3. pos[0] = 0
        BY <1>2 DEF Laid
    <2>4. Part(S, 0, 0) = <<>>
        <3>1. IsPart(Part(S, 0, 0), S, 0, 0, Byte)
            BY <1>1, PartIs
        <3>2. Part(S, 0, 0) \in Seq(Byte) /\ Len(Part(S, 0, 0)) = 0
            BY <3>1 DEF IsPart
        <3> QED
            BY <3>2
    <2>5. State(0) = [rest |-> Part(S, 0, 0), open |-> Begin.open, messages |-> Begin.messages]
        BY <1>7, <1>8, <2>2, <2>3 DEF ReadUpTo
    <2> QED
        BY <2>4, <2>5, BeginIs DEF base
<1>11. ASSUME NEW n \in 1 .. C PROVE ReceiveChunk(State(n - 1), chunks[n]) = State(n)
    <2> DEFINE k == whole(n - 1)
               l == whole(n)
               e == cuts[n - 1]
               m == cuts[n]
               bs == chunks[n]
    <2>1. n \in 0 .. C /\ n - 1 \in 0 .. C
        BY <1>8
    <2>2. WholeAt(fs, pos, e, k) /\ WholeAt(fs, pos, m, l) /\ e \in Nat /\ m \in Nat
        BY <1>8, <1>9, <2>1
    <2>3. /\ bs \in Seq(Byte) /\ Len(bs) \in Nat /\ m = e + Len(bs) /\ m <= Len(S)
          /\ \A i \in 1 .. Len(bs) : S[e + i] = bs[i]
        BY <1>8
    <2> HIDE DEF k, l, e, m, bs
    <2>4. e <= m
        BY <2>2, <2>3
    <2>5. k <= l
        BY <1>1, <1>2, <2>2, <2>4, WholeAtIs
    <2>6. /\ k \in 0 .. Len(fs) /\ l \in 0 .. Len(fs) /\ pos[k] <= e /\ pos[l] <= m
          /\ l = Len(fs) \/ m < pos[l + 1]
        BY <2>2 DEF WholeAt
    <2>7. l \in k .. Len(fs)
        BY <2>5, <2>6
    <2>8. IsPart(bs, S, e, m, Byte)
        <3>1. m - e = Len(bs)
            BY <2>2, <2>3
        <3> QED
            BY <2>3, <3>1 DEF IsPart
    <2>9. ReceiveChunk(ReadUpTo(S, pos, h, k, e), bs) = ReadUpTo(S, pos, h, l, m)
        BY <1>1, <1>2, <1>6, <2>2, <2>3, <2>4, <2>6, <2>7, <2>8, ReceivesChunk
    <2> QED
        BY <2>9 DEF k, l, e, m, bs
<1>12. State(C) = [rest |-> <<>>, open |-> Aggregated(fs).open,
                   messages |-> Aggregated(fs).messages]
    <2>1. C \in 0 .. C /\ Len(S) \in Nat
        BY <1>1, <1>8
    <2>2. whole(C) = N
        BY <1>1, <1>2, <1>8, <1>9, <2>1, WholeAtIs DEF N
    <2>3. pos[N] = Len(S)
        BY <1>2 DEF Laid, N
    <2> DEFINE last == Part(S, Len(S), Len(S))
    <2>4. last = <<>>
        <3>1. IsPart(last, S, Len(S), Len(S), Byte)
            BY <1>1, <2>1, PartIs
        <3>2. last \in Seq(Byte) /\ Len(last) = 0
            BY <2>1, <3>1 DEF IsPart
        <3> QED
            BY <3>2
    <2>5. State(C) = [rest |-> last, open |-> h[N].open, messages |-> h[N].messages]
        BY <1>8, <2>2, <2>3 DEF ReadUpTo
    <2> HIDE DEF last
    <2> QED
        BY <1>7, <2>4, <2>5
<1> HIDE DEF State
<1>13. D = [n \in 0 .. C |-> Step(D, n)]
    <2>1. ASSUME NEW n \in 0 .. C PROVE State(n) = Step(D, n)
        <3>1. CASE n = 0
            BY <1>10, <3>1
        <3>2. CASE n # 0
            <4>1. n \in 1 .. C /\ n - 1 \in 0 .. C
                BY <1>8, <3>2
            <4>2. D[n - 1] = State(n - 1)
                BY <4>1
            <4> HIDE DEF D
            <4> QED
                BY <1>11, <3>2, <4>1, <4>2
        <3> QED
            BY <3>1, <3>2
    <2> HIDE DEF Step
    <2>2. [n \in 0 .. C |-> State(n)] = [n \in 0 .. C |-> Step(D, n)]
        BY <2>1
    <2> QED
        BY <2>2
<1> HIDE DEF D
<1>14. received = [n \in 0 .. C |-> Step(received, n)]
    <2> HIDE DEF Step
    <2> QED
        BY <1>13
<1>15. ReceiveChunks(chunks) = received[C]
    BY DEF ReceiveChunks, base, C
<1> HIDE DEF received
<1>16. received[0] = base /\ \A n \in 1 .. C : received[n] = ReceiveChunk(received[n - 1], chunks[n])
    <2>1. 0 \in 0 .. C /\ \A n \in 1 .. C : n \in 0 .. C /\ n # 0
        BY <1>8
    <2>2. \A n \in 0 .. C : received[n] = Step(received, n)
        <3> HIDE DEF Step
        <3> QED
            BY <1>14
    <2> QED
        BY <2>1, <2>2
<1>17. received[C] = State(C)
    <2> DEFINE T == {n \in Nat : n <= C => received[n] = State(n)}
    <2>1. 0 \in T
        BY <1>10, <1>16
    <2>2. ASSUME NEW n \in 1 .. C, n - 1 \in T PROVE n \in T
        <3>1. n - 1 <= C /\ n \in Nat
            BY <1>8
        <3>2. received[n - 1] = State(n - 1)
            BY <2>2, <3>1
        <3>3. received[n] = ReceiveChunk(State(n - 1), chunks[n])
            BY <1>16, <3>2
        <3> QED
            BY <1>11, <3>1, <3>3
    <2>3. C \in T
        <3> HIDE DEF T
        <3> QED
            BY <1>8, <2>1, <2>2, CountUpTo
    <2> QED
        BY <1>8, <2>3
<1> QED
    BY <1>12, <1>15, <1>17

\* One element more of the beginning of a sequence.
LEMMA PartNext ==
    ASSUME NEW B, NEW S \in Seq(B), NEW j \in Nat, j < Len(S)
    PROVE  Append(Part(S, 0, j), S[j + 1]) = Part(S, 0, j + 1)
<1> DEFINE a == Part(S, 0, j)
           b == Part(S, 0, j + 1)
           x == S[j + 1]
           c == Append(a, x)
<1>1. j <= Len(S) /\ j + 1 <= Len(S) /\ j + 1 \in Nat /\ 0 \in Nat /\ j + 1 \in 1 .. Len(S)
    OBVIOUS
<1>2. IsPart(a, S, 0, j, B) /\ IsPart(b, S, 0, j + 1, B)
    BY <1>1, PartIs
<1>3. x \in B
    BY <1>1, ElementOfSeq
<1> HIDE DEF a, b
<1>4. /\ a \in Seq(B) /\ Len(a) = j /\ \A i \in 1 .. j : a[i] = S[i]
      /\ b \in Seq(B) /\ Len(b) = j + 1 /\ \A i \in 1 .. j + 1 : b[i] = S[i]
    <2>1. j - 0 = j /\ (j + 1) - 0 = j + 1 /\ \A i \in 1 .. j + 1 : 0 + i = i
        OBVIOUS
    <2>2. j - 0 = j /\ \A i \in 1 .. j : 0 + i = i
        OBVIOUS
    <2> QED
        BY <1>2, <2>1, <2>2 DEF IsPart
<1>5. b[j + 1] = x
    BY <1>4
<1> HIDE DEF x
<1>6. c \in Seq(B) /\ Len(c) = j + 1 /\ c[j + 1] = x /\ \A i \in 1 .. j : c[i] = a[i]
    BY <1>3, <1>4
<1> HIDE DEF c
<1>7. ASSUME NEW i \in 1 .. j + 1 PROVE c[i] = b[i]
    <2>1. CASE i = j + 1
        BY <2>1, <1>5, <1>6
    <2>2. CASE i # j + 1
        <3>1. i \in 1 .. j
            BY <2>2
        <3> QED
            BY <1>4, <1>6, <3>1
    <2> QED
        BY <2>1, <2>2
<1>8. c = b
    BY <1>4, <1>6, <1>7, SameSeq
<1> QED
    BY <1>8 DEF a, b, c, x

\* What Kept has kept of q after each element.
Keeping(h, q, S, B) ==
    /\ h[0] = <<>> /\ h[Len(q)] = Kept(q, S)
    /\ \A n \in 1 .. Len(q) :
          h[n] = IF q[n] \in S THEN Append(h[n - 1], q[n]) ELSE h[n - 1]
    /\ \A n \in 0 .. Len(q) :
          /\ h[n] \in Seq(B) /\ Len(h[n]) <= Len(Kept(q, S))
          /\ \A i \in 1 .. Len(h[n]) : Kept(q, S)[i] = h[n][i]

\* Kept only adds to what it has kept.
LEMMA KeptGrows ==
    ASSUME NEW B, NEW q \in Seq(B), NEW S
    PROVE  Kept(q, S) \in Seq(B) /\ \E h : Keeping(h, q, S, B)
<1> DEFINE N == Len(q)
           G == Kept(q, S)
<1>1. PICK h : /\ h[0] = <<>> /\ h[Len(q)] = Kept(q, S)
               /\ \A n \in 1 .. Len(q) :
                     h[n] = IF q[n] \in S THEN Append(h[n - 1], q[n]) ELSE h[n - 1]
    BY KeptSteps
<1>2. G \in Seq(B)
    BY KeptIs
<1>3. N \in Nat /\ \A n \in 1 .. N : q[n] \in B
    BY ElementOfSeq
<1>4. h[0] = <<>> /\ h[N] = G
    BY <1>1
<1>5. \A n \in 1 .. N : h[n] = IF q[n] \in S THEN Append(h[n - 1], q[n]) ELSE h[n - 1]
    BY <1>1
<1> HIDE DEF N, G
<1>6. \A n \in 0 .. N : h[n] \in Seq(B)
    <2> DEFINE T == {n \in Nat : n <= N => h[n] \in Seq(B)}
    <2>1. 0 \in T
        <3>1. <<>> \in Seq(B)
            OBVIOUS
        <3> QED
            BY <1>4, <3>1
    <2>2. ASSUME NEW n \in Nat, n \in T PROVE n + 1 \in T
        <3> SUFFICES ASSUME n + 1 <= N PROVE h[n + 1] \in Seq(B)
            OBVIOUS
        <3>1. n + 1 \in 1 .. N /\ (n + 1) - 1 = n /\ n <= N
            BY <1>3
        <3>2. h[n] \in Seq(B) /\ q[n + 1] \in B
            BY <1>3, <2>2, <3>1
        <3>3. h[n + 1] = IF q[n + 1] \in S THEN Append(h[n], q[n + 1]) ELSE h[n]
            BY <1>5, <3>1
        <3> QED
            BY <3>2, <3>3
    <2>3. \A n \in Nat : n \in T
        <3> HIDE DEF T
        <3> QED
            BY <2>1, <2>2, CountUp
    <2> QED
        BY <1>3, <2>3
<1> DEFINE Begins(a) == Len(a) <= Len(G) /\ \A i \in 1 .. Len(a) : G[i] = a[i]
<1>7. \A n \in 0 .. N : Begins(h[n])
    <2> DEFINE T == {m \in Nat : m <= N => Begins(h[N - m])}
    <2>1. 0 \in T
        <3>1. N - 0 = N
            BY <1>3
        <3> QED
            BY <1>2, <1>4, <3>1
    <2>2. ASSUME NEW m \in Nat, m \in T PROVE m + 1 \in T
        <3> SUFFICES ASSUME m + 1 <= N PROVE Begins(h[N - (m + 1)])
            OBVIOUS
        <3> DEFINE n == N - m
                   a == h[n - 1]
                   b == h[n]
        <3>1. /\ n \in 1 .. N /\ n \in 0 .. N /\ n - 1 \in 0 .. N /\ N - (m + 1) = n - 1
              /\ m <= N
            BY <1>3
        <3>2. Begins(b)
            BY <2>2, <3>1
        <3>3. b = IF q[n] \in S THEN Append(a, q[n]) ELSE a
            BY <1>5, <3>1
        <3>4. a \in Seq(B) /\ b \in Seq(B) /\ q[n] \in B
            BY <1>3, <1>6, <3>1
        <3> HIDE DEF n, a, b
        <3>5. Len(a) <= Len(b) /\ \A i \in 1 .. Len(a) : b[i] = a[i]
            BY <3>3, <3>4
        <3>6. Len(a) \in Nat /\ Len(b) \in Nat /\ Len(G) \in Nat
            BY <1>2, <3>4
        <3>7. Len(a) <= Len(G)
            BY <3>2, <3>5, <3>6
        <3>8. ASSUME NEW i \in 1 .. Len(a) PROVE G[i] = a[i]
            <4>1. i \in 1 .. Len(b)
                BY <3>5, <3>6
            <4> QED
                BY <3>2, <3>5, <4>1
        <3> QED
            BY <3>1, <3>7, <3>8 DEF a
    <2>3. \A m \in Nat : m \in T
        <3> HIDE DEF T
        <3> QED
            BY <2>1, <2>2, CountUp
    <2>4. ASSUME NEW n \in 0 .. N PROVE Begins(h[n])
        <3>1. N - n \in Nat /\ N - n <= N /\ N - (N - n) = n
            BY <1>3
        <3>2. N - n \in T
            BY <2>3, <3>1
        <3> HIDE DEF Begins
        <3> QED
            BY <3>1, <3>2
    <2> QED
        BY <2>4
<1>8. Keeping(h, q, S, B)
    BY <1>4, <1>5, <1>6, <1>7 DEF Keeping, N, G
<1> QED
    BY <1>2, <1>8 DEF G

\* One element more is kept if it is in the set.
LEMMA KeptNext ==
    ASSUME NEW B, NEW q \in Seq(B), NEW x \in B, NEW S
    PROVE  Kept(Append(q, x), S) = IF x \in S THEN Append(Kept(q, S), x) ELSE Kept(q, S)
<1> DEFINE r == Append(q, x)
           N == Len(q)
<1>1. r \in Seq(B) /\ Len(r) = N + 1 /\ r[N + 1] = x /\ \A n \in 1 .. N : r[n] = q[n]
    OBVIOUS
<1>2. N \in Nat
    OBVIOUS
<1>3. PICK h : Keeping(h, q, S, B)
    BY KeptGrows
<1> HIDE DEF r
<1>4. PICK g : Keeping(g, r, S, B)
    BY <1>1, KeptGrows
<1>5. /\ h[0] = <<>> /\ h[N] = Kept(q, S)
      /\ \A n \in 1 .. N : h[n] = IF q[n] \in S THEN Append(h[n - 1], q[n]) ELSE h[n - 1]
    BY <1>3 DEF Keeping
<1>6. /\ g[0] = <<>> /\ g[N + 1] = Kept(r, S)
      /\ \A n \in 1 .. N + 1 : g[n] = IF r[n] \in S THEN Append(g[n - 1], r[n]) ELSE g[n - 1]
    BY <1>1, <1>4 DEF Keeping
<1> HIDE DEF N
<1> DEFINE T == {n \in Nat : h[n] = g[n]}
<1>7. 0 \in T
    BY <1>5, <1>6
<1>8. ASSUME NEW n \in 1 .. N, n - 1 \in T PROVE n \in T
    <2>1. n \in 1 .. N + 1 /\ n \in Nat
        BY <1>2
    <2> QED
        BY <1>1, <1>5, <1>6, <1>8, <2>1
<1>9. N \in T
    <2> HIDE DEF T
    <2> QED
        BY <1>2, <1>7, <1>8, CountUpTo
<1>10. N + 1 \in 1 .. N + 1 /\ (N + 1) - 1 = N
    BY <1>2
<1>11. g[N + 1] = IF x \in S THEN Append(g[N], x) ELSE g[N]
    BY <1>1, <1>6, <1>10
<1> QED
    BY <1>5, <1>6, <1>9, <1>11 DEF r

\* The frames and the messages of a service.
FramesOf(s) == {f \in Frames : f.service = s}
MessagesOf(s) == {m \in Received : m.service = s}

\* The message that a last frame ends.
Ended(got, f) == [service |-> f.service, payload |-> got.open[f.service] \o f.payload]

\* a is what the aggregator has after frame f when it had got: other services are
\* left alone.
IsAggregated(a, got, f) ==
    /\ \A s \in Byte : s # f.service => a.open[s] = got.open[s]
    /\ f.last => /\ a.open[f.service] = <<>>
                 /\ a.messages = Append(got.messages, Ended(got, f))
    /\ ~f.last => /\ a.open[f.service] = got.open[f.service] \o f.payload
                  /\ a.messages = got.messages
    /\ Ended(got, f) \in Received /\ got.messages \in Seq(Received)

\* What the aggregator does with a frame.
LEMMA AggregateIs ==
    ASSUME NEW got \in Gathered, NEW f \in Frames
    PROVE  IsAggregated(Aggregate(got, Decoded(f)), got, f)
<1> DEFINE d == Decoded(f)
           s == f.service
           payload == got.open[s] \o f.payload
           a == Aggregate(got, d)
           m == Ended(got, f)
<1>1. d.service = s /\ d.payload = f.payload /\ (d.last <=> f.last)
    BY DecodedIs
<1> HIDE DEF d
<1>2. a = IF d.last
          THEN [open |-> [got.open EXCEPT ![d.service] = <<>>],
                messages |-> Append(got.messages,
                                    [service |-> d.service,
                                     payload |-> got.open[d.service] \o d.payload])]
          ELSE [got EXCEPT !.open[d.service] = got.open[d.service] \o d.payload]
    BY DEF Aggregate
<1> HIDE DEF a
<1>3. m = [service |-> s, payload |-> payload]
    BY DEF Ended
<1>4. /\ got.open \in [Byte -> Seq(Byte)] /\ got.messages \in Seq(Received)
      /\ got = [open |-> got.open, messages |-> got.messages]
    BY DEF Gathered
<1>5. s \in Byte /\ f.payload \in Seq(Byte)
    BY FrameIs
<1> HIDE DEF s
<1>6. payload \in Seq(Byte)
    <2>1. got.open[s] \in Seq(Byte)
        BY <1>4, <1>5
    <2> QED
        BY <1>5, <2>1
<1> HIDE DEF payload, m
<1>7. m \in Received
    BY <1>3, <1>5, <1>6 DEF Received
<1>8. CASE f.last
    <2> DEFINE o == [got.open EXCEPT ![s] = <<>>]
    <2>1. a = [open |-> o, messages |-> Append(got.messages, m)]
        BY <1>1, <1>2, <1>3, <1>8 DEF payload
    <2>2. o[s] = <<>> /\ \A t \in Byte : t # s => o[t] = got.open[t]
        BY <1>4, <1>5
    <2> HIDE DEF o
    <2>3. a.open = o /\ a.messages = Append(got.messages, m)
        BY <2>1
    <2>4. IsAggregated(a, got, f)
        BY <1>4, <1>7, <1>8, <2>2, <2>3 DEF IsAggregated, m, s
    <2> QED
        BY <2>4 DEF a, d
<1>9. CASE ~f.last
    <2> DEFINE o == [got.open EXCEPT ![s] = payload]
    <2>1. a = [open |-> o, messages |-> got.messages]
        BY <1>1, <1>2, <1>4, <1>9 DEF payload
    <2>2. o[s] = payload /\ \A t \in Byte : t # s => o[t] = got.open[t]
        BY <1>4, <1>5
    <2> HIDE DEF o
    <2>3. a.open = o /\ a.messages = got.messages
        BY <2>1
    <2>4. IsAggregated(a, got, f)
        BY <1>4, <1>7, <1>9, <2>2, <2>3 DEF IsAggregated, m, s, payload
    <2> QED
        BY <2>4 DEF a, d
<1> QED
    BY <1>8, <1>9

\* Frames q carry message m: they are of its service, their payloads are its payload
\* one after the other, and the first one and the last one are marked.
Payloads(q) == [i \in 1 .. Len(q) |-> q[i].payload]
Carry(q, m) ==
    /\ q \in Seq(Frames) /\ Len(q) > 0 /\ m \in Received
    /\ \A i \in 1 .. Len(q) :
          /\ q[i].service = m.service
          /\ q[i].first <=> i = 1
          /\ q[i].last <=> i = Len(q)
    /\ FlattenSeq(Payloads(q)) = m.payload

\* What of m the first i frames of q carry.
Sofar(q, m, i) ==
    Part(m.payload, 0, (CHOOSE ends : InPlaces(m.payload, Payloads(q), ends))[i])

\* Frame after frame it becomes the payload.
LEMMA SofarIs ==
    ASSUME NEW q, NEW m, Carry(q, m)
    PROVE  /\ Sofar(q, m, 0) = <<>> /\ Sofar(q, m, Len(q)) = m.payload
           /\ \A i \in 1 .. Len(q) : Sofar(q, m, i) = Sofar(q, m, i - 1) \o q[i].payload
<1> DEFINE ends == CHOOSE ends : InPlaces(m.payload, Payloads(q), ends)
           p == m.payload
           ss == Payloads(q)
           N == Len(q)
<1>1. q \in Seq(Frames) /\ N \in Nat /\ p \in Seq(Byte) /\ FlattenSeq(ss) = p
    BY DEF Carry, Received
<1>2. \A i \in 1 .. N : q[i].payload \in Seq(Byte)
    BY <1>1, FrameIs
<1>3. ss = [i \in 1 .. N |-> q[i].payload]
    BY DEF Payloads
<1> HIDE DEF N, ss
<1>4. ss \in Seq(Seq(Byte)) /\ Len(ss) = N /\ \A i \in 1 .. N : ss[i] = q[i].payload
    BY <1>1, <1>2, <1>3
<1>5. \E e : InPlaces(p, ss, e)
    BY <1>1, <1>4, FlattenPlaces
<1>6. InPlaces(p, ss, ends)
    BY <1>5 DEF ss
<1> HIDE DEF ends
<1>7. /\ \A i \in 0 .. N : ends[i] \in Nat
      /\ ends[0] = 0 /\ ends[N] = Len(p)
      /\ \A i \in 1 .. N :
            /\ ends[i] = ends[i - 1] + Len(ss[i]) /\ ends[i] <= Len(p)
            /\ \A x \in 1 .. Len(ss[i]) : p[ends[i - 1] + x] = ss[i][x]
    BY <1>4, <1>6 DEF InPlaces
<1>8. \A i : Sofar(q, m, i) = Part(p, 0, ends[i])
    BY DEF Sofar, ends, ss
<1> HIDE DEF p
<1>9. Part(p, 0, 0) = <<>> /\ Part(p, 0, Len(p)) = p
    <2>1. IsPart(Part(p, 0, 0), p, 0, 0, Byte)
        BY <1>1, PartIs
    <2>2. Part(p, 0, 0) = <<>>
        BY <2>1 DEF IsPart
    <2>3. Part(p, 0, Len(p)) = p
        BY <1>1, WholePart
    <2> QED
        BY <2>2, <2>3
<1>10. ASSUME NEW i \in 1 .. N
       PROVE  Part(p, 0, ends[i]) = Part(p, 0, ends[i - 1]) \o q[i].payload
    <2> DEFINE e == ends[i - 1]
               f == ends[i]
               b == ss[i]
    <2>1. e \in Nat /\ f \in Nat /\ b \in Seq(Byte) /\ Len(b) \in Nat
        <3>1. i - 1 \in 0 .. N /\ i \in 0 .. N
            BY <1>1
        <3> QED
            BY <1>2, <1>4, <1>7, <3>1
    <2>2. f = e + Len(b) /\ f <= Len(p) /\ \A x \in 1 .. Len(b) : p[e + x] = b[x]
        BY <1>7
    <2>3. b = q[i].payload
        BY <1>4
    <2> HIDE DEF e, f, b
    <2>4. IsPart(b, p, e, f, Byte)
        <3>1. f - e = Len(b)
            BY <2>1, <2>2
        <3> QED
            BY <2>1, <2>2, <3>1 DEF IsPart
    <2>5. 0 <= e /\ e <= f
        BY <2>1, <2>2
    <2>6. Part(p, 0, e) \o b = Part(p, 0, f)
        BY <1>1, <2>1, <2>2, <2>4, <2>5, PartsJoin
    <2> QED
        BY <2>3, <2>6 DEF e, f
<1> QED
    BY <1>7, <1>8, <1>9, <1>10 DEF p, N

\* The frames cs carry the messages ms of service s, each its own.
Sent(s, ms, cs) ==
    /\ s \in Byte /\ ms \in Seq(MessagesOf(s)) /\ cs \in Seq(Seq(Frames))
    /\ Len(cs) = Len(ms) /\ \A j \in 1 .. Len(ms) : Carry(cs[j], ms[j])

\* Of service s, whose frames so far are kept, the aggregator has made j messages,
\* and has i frames of the next one.
Made(got, kept, at, s, ms, cs, j, i) ==
    /\ j \in 0 .. Len(ms) /\ i \in Nat /\ Len(kept) = at[j] + i
    /\ Kept(got.messages, MessagesOf(s)) = Part(ms, 0, j)
    /\ j = Len(ms) => i = 0 /\ got.open[s] = <<>>
    /\ j # Len(ms) => i < Len(cs[j + 1]) /\ got.open[s] = Sofar(cs[j + 1], ms[j + 1], i)

\* A message that is complete is one more that is made.
LEMMA MadeNext ==
    ASSUME NEW s, NEW ms, NEW cs, Sent(s, ms, cs), NEW at, NEW got, NEW kept,
           NEW j \in 0 .. Len(ms), Len(kept) = at[j], at[j] \in Nat,
           Kept(got.messages, MessagesOf(s)) = Part(ms, 0, j), got.open[s] = <<>>
    PROVE  Made(got, kept, at, s, ms, cs, j, 0)
<1>1. Len(kept) = at[j] + 0
    OBVIOUS
<1>2. CASE j = Len(ms)
    BY <1>1, <1>2 DEF Made
<1>3. CASE j # Len(ms)
    <2>1. Len(ms) \in Nat
        BY DEF Sent
    <2>2. j + 1 \in 1 .. Len(ms)
        BY <1>3, <2>1
    <2>3. Carry(cs[j + 1], ms[j + 1])
        BY <2>2 DEF Sent
    <2>4. Sofar(cs[j + 1], ms[j + 1], 0) = <<>>
        BY <2>3, SofarIs
    <2>5. 0 < Len(cs[j + 1])
        BY <2>3 DEF Carry
    <2> QED
        BY <1>1, <1>3, <2>4, <2>5 DEF Made
<1> QED
    BY <1>2, <1>3

\* A frame of another service changes nothing for service s.
LEMMA OtherService ==
    ASSUME NEW s \in Byte, NEW ms, NEW cs, NEW at, NEW kept, NEW j, NEW i,
           NEW got \in Gathered, Made(got, kept, at, s, ms, cs, j, i),
           NEW f \in Frames, f.service # s
    PROVE  Made(Aggregate(got, Decoded(f)), kept, at, s, ms, cs, j, i)
<1> DEFINE a == Aggregate(got, Decoded(f))
           m == Ended(got, f)
           M == MessagesOf(s)
<1>1. IsAggregated(a, got, f)
    BY AggregateIs
<1> HIDE DEF a, M
<1>2. a.open[s] = got.open[s]
    BY <1>1 DEF IsAggregated
<1>3. /\ m \in Received /\ got.messages \in Seq(Received)
      /\ f.last => a.messages = Append(got.messages, m)
      /\ ~f.last => a.messages = got.messages
    BY <1>1 DEF IsAggregated
<1>4. m \notin M
    BY DEF Ended, MessagesOf, M
<1> HIDE DEF m
<1>5. Kept(a.messages, M) = Kept(got.messages, M)
    <2>1. Kept(Append(got.messages, m), M) = Kept(got.messages, M)
        BY <1>3, <1>4, KeptNext
    <2> QED
        BY <1>3, <2>1
<1>6. Made(a, kept, at, s, ms, cs, j, i)
    BY <1>2, <1>5 DEF Made, M
<1> QED
    BY <1>6 DEF a

\* The next frame of service s is the next one of the message it has begun.
LEMMA OwnService ==
    ASSUME NEW s, NEW ms, NEW cs, Sent(s, ms, cs), NEW at, NEW G \in Seq(Frames),
           InPlaces(G, cs, at), NEW kept \in Seq(Frames), NEW j, NEW i,
           NEW got \in Gathered, Made(got, kept, at, s, ms, cs, j, i),
           NEW f \in Frames, f.service = s, Len(kept) < Len(G), f = G[Len(kept) + 1]
    PROVE  \E k, l : Made(Aggregate(got, Decoded(f)), Append(kept, f), at, s, ms, cs, k, l)
<1> DEFINE a == Aggregate(got, Decoded(f))
           N == Len(ms)
           M == MessagesOf(s)
           q == cs[j + 1]
           m == ms[j + 1]
           e == Ended(got, f)
           more == Append(kept, f)
<1>1. /\ s \in Byte /\ ms \in Seq(M) /\ cs \in Seq(Seq(Frames)) /\ Len(cs) = N /\ N \in Nat
      /\ \A x \in 1 .. N : Carry(cs[x], ms[x]) /\ cs[x] \in Seq(Frames)
    BY DEF Sent
<1>2. /\ j \in 0 .. N /\ i \in Nat /\ Len(kept) = at[j] + i
      /\ Kept(got.messages, M) = Part(ms, 0, j)
      /\ j = N => i = 0 /\ got.open[s] = <<>>
      /\ j # N => i < Len(q) /\ got.open[s] = Sofar(q, m, i)
    BY DEF Made
<1>3. /\ \A x \in 0 .. N : at[x] \in Nat
      /\ at[N] = Len(G)
      /\ \A x \in 1 .. N :
            /\ at[x] = at[x - 1] + Len(cs[x])
            /\ \A y \in 1 .. Len(cs[x]) : G[at[x - 1] + y] = cs[x][y]
    <2> HIDE DEF N
    <2> QED
        BY <1>1 DEF InPlaces
<1> HIDE DEF N, M
<1>4. j # N
    BY <1>1, <1>2, <1>3
<1>5. /\ j + 1 \in 1 .. N /\ (j + 1) - 1 = j /\ j \in 0 .. N /\ j + 1 \in 0 .. N
      /\ j \in Nat /\ j < N
    BY <1>1, <1>2, <1>4
<1>6. Carry(q, m) /\ q \in Seq(Frames) /\ Len(q) \in Nat
    BY <1>1, <1>5
<1>7. /\ at[j + 1] = at[j] + Len(q) /\ at[j] \in Nat
      /\ \A y \in 1 .. Len(q) : G[at[j] + y] = q[y]
    BY <1>3, <1>5
<1>8. i + 1 \in 1 .. Len(q) /\ (i + 1) - 1 = i
    BY <1>2, <1>4, <1>6
<1>9. f = q[i + 1]
    <2>1. Len(kept) + 1 = at[j] + (i + 1)
        BY <1>2, <1>7
    <2> QED
        BY <1>7, <1>8, <2>1
<1>10. Len(more) = at[j] + (i + 1)
    <2> DEFINE c == Len(kept)
               x == at[j]
               y == Len(more)
    <2>1. y = c + 1 /\ c \in Nat
        OBVIOUS
    <2>2. c = x + i /\ x \in Nat /\ i \in Nat
        BY <1>2, <1>7
    <2> HIDE DEF c, x, y
    <2>3. y = x + (i + 1)
        BY <2>1, <2>2
    <2> QED
        BY <2>3 DEF x, y
<1>11. f.last <=> i + 1 = Len(q)
    BY <1>6, <1>8, <1>9 DEF Carry
<1>12. got.open[s] \o f.payload = Sofar(q, m, i + 1)
    <2> HIDE DEF q, m
    <2>1. \A x \in 1 .. Len(q) : Sofar(q, m, x) = Sofar(q, m, x - 1) \o q[x].payload
        BY <1>6, SofarIs
    <2>2. Sofar(q, m, i + 1) = Sofar(q, m, i) \o q[i + 1].payload
        BY <1>8, <2>1
    <2>3. got.open[s] = Sofar(q, m, i)
        BY <1>2, <1>4
    <2> QED
        BY <1>9, <2>2, <2>3
<1>13. IsAggregated(a, got, f)
    BY AggregateIs
<1> HIDE DEF a, q, m, e, more
<1>14. /\ e \in Received /\ got.messages \in Seq(Received)
       /\ f.last => a.open[s] = <<>> /\ a.messages = Append(got.messages, e)
       /\ ~f.last => a.open[s] = Sofar(q, m, i + 1) /\ a.messages = got.messages
    BY <1>12, <1>13 DEF IsAggregated, e
<1>15. CASE f.last
    <2>1. Sofar(q, m, i + 1) = m.payload
        BY <1>6, <1>11, <1>15, SofarIs
    <2>2. m \in M /\ m.service = s /\ m = [service |-> m.service, payload |-> m.payload]
        <3>1. m \in M
            <4> HIDE DEF m
            <4> QED
                BY <1>1, <1>5, ElementOfSeq DEF m, N
        <3> QED
            BY <3>1 DEF M, MessagesOf, Received
    <2>3. e = m
        <3>1. e = [service |-> s, payload |-> m.payload]
            BY <1>12, <2>1 DEF e, Ended
        <3> QED
            BY <2>2, <3>1
    <2>4. Kept(a.messages, M) = Append(Part(ms, 0, j), m)
        <3>1. Kept(Append(got.messages, e), M) = Append(Kept(got.messages, M), e)
            BY <1>14, <2>2, <2>3, KeptNext
        <3> QED
            BY <1>2, <1>14, <1>15, <2>3, <3>1
    <2>5. Append(Part(ms, 0, j), m) = Part(ms, 0, j + 1)
        BY <1>1, <1>5, PartNext DEF m, N
    <2>6. Len(more) = at[j + 1] /\ at[j + 1] \in Nat
        BY <1>3, <1>5, <1>7, <1>10, <1>11, <1>15
    <2>7. Made(a, more, at, s, ms, cs, j + 1, 0)
        <3>1. j + 1 \in 0 .. Len(ms)
            BY <1>5 DEF N
        <3>2. Kept(a.messages, MessagesOf(s)) = Part(ms, 0, j + 1)
            BY <2>4, <2>5 DEF M
        <3>3. a.open[s] = <<>>
            BY <1>14, <1>15
        <3> QED
            BY <2>6, <3>1, <3>2, <3>3, MadeNext
    <2> QED
        BY <2>7 DEF a, more
<1>16. CASE ~f.last
    <2>1. i + 1 < Len(q) /\ i + 1 \in Nat
        BY <1>2, <1>6, <1>8, <1>11, <1>16
    <2>2. Made(a, more, at, s, ms, cs, j, i + 1)
        BY <1>2, <1>4, <1>10, <1>14, <1>16, <2>1 DEF Made, q, m, M, N
    <2> QED
        BY <2>2 DEF a, more
<1> QED
    BY <1>15, <1>16

\* What is received of one service, whatever other frames come between its own.
LEMMA OneService ==
    ASSUME NEW s, NEW ms, NEW cs, Sent(s, ms, cs), NEW fs \in Seq(Frames),
           Kept(fs, FramesOf(s)) = FlattenSeq(cs)
    PROVE  /\ Aggregated(fs) \in Gathered /\ Aggregated(fs).open[s] = <<>>
           /\ Kept(Aggregated(fs).messages, MessagesOf(s)) = ms
<1> DEFINE N == Len(fs)
           G == FlattenSeq(cs)
           all == AllDecoded(fs)
<1>1. /\ s \in Byte /\ ms \in Seq(MessagesOf(s)) /\ cs \in Seq(Seq(Frames))
      /\ Len(cs) = Len(ms) /\ Len(ms) \in Nat
    BY DEF Sent
<1>2. N \in Nat /\ \A n \in 1 .. N : fs[n] \in Frames
    BY ElementOfSeq
<1>3. /\ Len(all) = N /\ all \in Seq(Given)
      /\ \A n \in 1 .. N : all[n] = Decoded(fs[n])
    <2>1. \A n \in 1 .. N : Decoded(fs[n]) \in Given
        BY <1>2, DecodedIs
    <2> HIDE DEF N
    <2>2. all = [n \in 1 .. N |-> Decoded(fs[n])]
        BY DEF AllDecoded, N
    <2> HIDE DEF all
    <2> QED
        BY <1>2, <2>1, <2>2
<1>4. PICK g : Aggregating(g, Begin, all)
    BY <1>3, BeginIs, AggregateSteps
<1>5. G \in Seq(Frames) /\ \E at : InPlaces(G, cs, at)
    BY <1>1, FlattenPlaces
<1>6. PICK at : InPlaces(G, cs, at)
    BY <1>5
<1>7. PICK h : Keeping(h, fs, FramesOf(s), Frames)
    BY KeptGrows
<1>8. /\ h[0] = <<>> /\ h[N] = G
      /\ \A n \in 1 .. N :
            h[n] = IF fs[n] \in FramesOf(s) THEN Append(h[n - 1], fs[n]) ELSE h[n - 1]
      /\ \A n \in 0 .. N :
            /\ h[n] \in Seq(Frames) /\ Len(h[n]) <= Len(G)
            /\ \A i \in 1 .. Len(h[n]) : G[i] = h[n][i]
    <2> HIDE DEF G
    <2>1. G = Kept(fs, FramesOf(s))
        BY DEF G
    <2> QED
        BY <1>7, <2>1 DEF Keeping
<1>9. /\ g[0] = Begin /\ g[N] = Aggregated(fs)
      /\ \A n \in 1 .. N : g[n] = Aggregate(g[n - 1], Decoded(fs[n]))
      /\ \A n \in 0 .. N : g[n] \in Gathered
    <2> HIDE DEF all, N
    <2>1. /\ g[0] = Begin /\ g[N] = FoldLeft(Aggregate, Begin, all)
          /\ \A n \in 1 .. N : g[n] = Aggregate(g[n - 1], all[n])
          /\ \A n \in 0 .. N : g[n] \in Gathered
        BY <1>3, <1>4 DEF Aggregating
    <2>2. Aggregated(fs) = FoldLeft(Aggregate, Begin, all)
        BY DEF Aggregated, all
    <2> QED
        BY <1>3, <2>1, <2>2
<1>10. /\ at[0] = 0 /\ at[Len(ms)] = Len(G) /\ Len(G) \in Nat
       /\ \A j \in 0 .. Len(ms) : at[j] \in Nat
       /\ \A j \in 1 .. Len(ms) : at[j] = at[j - 1] + Len(cs[j]) /\ at[j] <= Len(G)
    <2> HIDE DEF G
    <2>1. Len(G) \in Nat
        BY <1>5
    <2>2. /\ at \in [0 .. Len(ms) -> Nat] /\ at[0] = 0 /\ at[Len(ms)] = Len(G)
          /\ \A j \in 1 .. Len(ms) : at[j] = at[j - 1] + Len(cs[j]) /\ at[j] <= Len(G)
        <3>1. Len(cs) = Len(ms)
            BY <1>1
        <3> QED
            BY <1>6, <3>1 DEF InPlaces
    <2> QED
        BY <2>1, <2>2
<1> HIDE DEF N, G, all
<1> DEFINE Goes(n) == \E j, i : Made(g[n], h[n], at, s, ms, cs, j, i)
           T == {n \in Nat : Goes(n)}
<1>11. 0 \in T
    <2>1. g[0].open[s] = <<>> /\ g[0].messages = <<>>
        BY <1>1, <1>9, BeginIs DEF Idle, Byte
    <2>2. Kept(<<>>, MessagesOf(s)) = <<>>
        <3> DEFINE q == <<>>
        <3>1. q \in Seq(Received) /\ Len(q) = 0
            OBVIOUS
        <3> HIDE DEF q
        <3>2. \E k : Keeping(k, q, MessagesOf(s), Received)
            BY <3>1, KeptGrows
        <3>3. Kept(q, MessagesOf(s)) = <<>>
            BY <3>1, <3>2 DEF Keeping
        <3> QED
            BY <3>3 DEF q
    <2>3. Part(ms, 0, 0) = <<>>
        <3>1. IsPart(Part(ms, 0, 0), ms, 0, 0, MessagesOf(s))
            BY <1>1, PartIs
        <3> QED
            BY <3>1 DEF IsPart
    <2>4. 0 \in 0 .. Len(ms) /\ Len(h[0]) = at[0] /\ at[0] \in Nat
        BY <1>1, <1>8, <1>10
    <2>5. Kept(g[0].messages, MessagesOf(s)) = Part(ms, 0, 0)
        BY <2>1, <2>2, <2>3
    <2>6. Made(g[0], h[0], at, s, ms, cs, 0, 0)
        BY <2>1, <2>4, <2>5, MadeNext
    <2> QED
        BY <2>6
<1>12. ASSUME NEW n \in 1 .. N, n - 1 \in T PROVE n \in T
    <2> DEFINE got == g[n - 1]
               kept == h[n - 1]
               f == fs[n]
               a == Aggregate(got, Decoded(f))
    <2>1. n - 1 \in 0 .. N /\ n \in 0 .. N /\ n \in Nat
        BY <1>2
    <2>2. /\ got \in Gathered /\ kept \in Seq(Frames) /\ f \in Frames
          /\ g[n] = a
          /\ h[n] = IF f \in FramesOf(s) THEN Append(kept, f) ELSE kept
        BY <1>2, <1>8, <1>9, <2>1
    <2>3. PICK j, i : Made(got, kept, at, s, ms, cs, j, i)
        BY <1>12
    <2>4. /\ Len(h[n]) <= Len(G) /\ \A x \in 1 .. Len(h[n]) : G[x] = h[n][x]
        BY <1>8, <2>1
    <2> HIDE DEF got, kept, f
    <2>5. CASE f.service # s
        <3>1. Made(a, kept, at, s, ms, cs, j, i)
            BY <1>1, <2>2, <2>3, <2>5, OtherService
        <3>2. h[n] = kept
            BY <2>2, <2>5 DEF FramesOf
        <3> HIDE DEF a
        <3> QED
            BY <2>1, <2>2, <3>1, <3>2
    <2>6. CASE f.service = s
        <3>1. h[n] = Append(kept, f)
            BY <2>2, <2>6 DEF FramesOf
        <3>2. Len(h[n]) = Len(kept) + 1 /\ h[n][Len(kept) + 1] = f /\ Len(kept) \in Nat
            BY <2>2, <3>1
        <3>3. Len(kept) < Len(G) /\ f = G[Len(kept) + 1]
            <4> DEFINE c == Len(kept)
                       d == Len(h[n])
            <4>1. c \in Nat /\ d = c + 1 /\ d <= Len(G) /\ Len(G) \in Nat
                BY <1>10, <2>4, <3>2
            <4> HIDE DEF c, d
            <4>2. c < Len(G) /\ c + 1 \in 1 .. d
                BY <4>1
            <4>3. G[c + 1] = h[n][c + 1]
                BY <2>4, <4>2 DEF d
            <4> QED
                BY <3>2, <4>2, <4>3 DEF c
        <3>4. \E k, l : Made(a, Append(kept, f), at, s, ms, cs, k, l)
            BY <1>5, <1>6, <2>2, <2>3, <2>6, <3>3, OwnService
        <3> HIDE DEF a
        <3> QED
            BY <2>1, <2>2, <3>1, <3>4
    <2> QED
        BY <2>5, <2>6
<1>13. N \in T
    <2> HIDE DEF T
    <2> QED
        BY <1>2, <1>11, <1>12, CountUpTo
<1>14. PICK j, i : Made(g[N], h[N], at, s, ms, cs, j, i)
    BY <1>13
<1>15. /\ j \in 0 .. Len(ms) /\ i \in Nat /\ Len(G) = at[j] + i
       /\ Kept(g[N].messages, MessagesOf(s)) = Part(ms, 0, j)
       /\ j = Len(ms) => i = 0 /\ g[N].open[s] = <<>>
       /\ j # Len(ms) => i < Len(cs[j + 1])
    BY <1>8, <1>14 DEF Made
<1>16. j = Len(ms)
    <2> SUFFICES ASSUME j # Len(ms) PROVE FALSE
        OBVIOUS
    <2>0. j \in 0 .. Len(ms) /\ Len(ms) \in Nat
        BY <1>1, <1>15
    <2>1. j + 1 \in 1 .. Len(ms) /\ (j + 1) - 1 = j
        <3> DEFINE L == Len(ms)
        <3>1. j \in 0 .. L /\ L \in Nat /\ j # L
            BY <2>0
        <3> HIDE DEF L
        <3>2. j + 1 \in 1 .. L /\ (j + 1) - 1 = j
            BY <3>1
        <3> QED
            BY <3>2 DEF L
    <2>2. at[j + 1] = at[j] + Len(cs[j + 1]) /\ at[j + 1] <= Len(G) /\ i < Len(cs[j + 1])
        BY <1>10, <1>15, <2>1
    <2>3. at[j] \in Nat /\ Len(cs[j + 1]) \in Nat
        <3>1. cs[j + 1] \in Seq(Frames)
            BY <1>1, <2>1, ElementOfSeq
        <3> QED
            BY <1>10, <1>15, <3>1
    <2> DEFINE x == at[j]
               y == Len(cs[j + 1])
               z == Len(G)
    <2>4. x \in Nat /\ y \in Nat /\ i \in Nat /\ z = x + i /\ x + y <= z /\ i < y
        BY <1>15, <2>2, <2>3
    <2> HIDE DEF x, y, z
    <2> QED
        BY <2>4
<1>17. Part(ms, 0, Len(ms)) = ms
    BY <1>1, WholePart
<1>18. g[N] \in Gathered
    BY <1>2, <1>9
<1> QED
    BY <1>9, <1>15, <1>16, <1>17, <1>18

\* There is a service.
LEMMA SomeService == \E s : s \in Byte
<1>1. 0 \in Byte
    BY DEF Byte
<1> QED
    BY <1>1

\* Whatever messages the phone sends, into whatever frames it splits each of them,
\* however it mixes the frames of different services and however the bytes of them
\* all are cut into chunks: of every service just its messages are received, each
\* once and in the order they were sent, and nothing is left over
\* (onDeviceTransportDataAsync, decodeBuffer and aggregate).
THEOREM MessagesReceived ==
    ASSUME NEW sent, NEW cut, \A s \in Byte : Sent(s, sent[s], cut[s]),
           NEW fs \in Seq(Frames),
           \A s \in Byte : Kept(fs, FramesOf(s)) = FlattenSeq(cut[s]),
           NEW chunks \in Seq(Seq(Byte)), FlattenSeq(chunks) = WireOf(fs)
    PROVE  /\ ReceiveChunks(chunks).rest = <<>> /\ ReceiveChunks(chunks).open = Idle
           /\ \A s \in Byte :
                 Kept(ReceiveChunks(chunks).messages, MessagesOf(s)) = sent[s]
<1> DEFINE r == ReceiveChunks(chunks)
           all == Aggregated(fs)
<1>1. r.rest = <<>> /\ r.open = all.open /\ r.messages = all.messages
    BY ReceivedHoweverCut
<1> HIDE DEF r, all
<1>2. ASSUME NEW s \in Byte
      PROVE  all \in Gathered /\ all.open[s] = <<>> /\ Kept(all.messages, MessagesOf(s)) = sent[s]
    BY OneService DEF all
<1>3. all.open = Idle
    <2>1. all \in Gathered
        BY <1>2, SomeService
    <2>2. all.open \in [Byte -> Seq(Byte)]
        BY <2>1 DEF Gathered
    <2>3. all.open = [s \in Byte |-> <<>>]
        BY <1>2, <2>2
    <2> QED
        BY <2>3 DEF Idle, Byte
<1> QED
    BY <1>1, <1>2, <1>3 DEF r

\* What lies in S one after the other is S.
LEMMA PlacesFlatten ==
    ASSUME NEW B, NEW S \in Seq(B), NEW ss \in Seq(Seq(B)), Len(ss) > 0,
           NEW pos, InPlaces(S, ss, pos)
    PROVE  FlattenSeq(ss) = S
<1> DEFINE N == Len(ss)
           F == FlattenSeq(ss)
<1>1. PICK h : /\ h[1] = ss[1] /\ h[Len(ss)] = FlattenSeq(ss)
               /\ \A n \in 2 .. Len(ss) : h[n] = h[n - 1] \o ss[n]
    BY FlattenSteps
<1>2. h[1] = ss[1] /\ h[N] = F /\ \A n \in 2 .. N : h[n] = h[n - 1] \o ss[n]
    BY <1>1
<1>3. N \in Nat /\ N > 0 /\ \A n \in 1 .. N : ss[n] \in Seq(B) /\ Len(ss[n]) \in Nat
    BY ElementOfSeq
<1>4. /\ pos[0] = 0 /\ pos[N] = Len(S)
      /\ \A n \in 0 .. N : pos[n] \in Nat
      /\ \A n \in 1 .. N :
            /\ pos[n] = pos[n - 1] + Len(ss[n]) /\ pos[n] <= Len(S)
            /\ \A i \in 1 .. Len(ss[n]) : S[pos[n - 1] + i] = ss[n][i]
    BY <1>3 DEF InPlaces
<1> HIDE DEF N, F
<1>5. ASSUME NEW n \in 1 .. N
      PROVE  Part(S, 0, pos[n - 1]) \o ss[n] = Part(S, 0, pos[n])
    <2> DEFINE e == pos[n - 1]
               m == pos[n]
               b == ss[n]
    <2>1. n - 1 \in 0 .. N /\ n \in 0 .. N
        BY <1>3
    <2>2. /\ e \in Nat /\ m \in Nat /\ b \in Seq(B) /\ Len(b) \in Nat
          /\ m = e + Len(b) /\ m <= Len(S) /\ \A i \in 1 .. Len(b) : S[e + i] = b[i]
        BY <1>3, <1>4, <2>1
    <2> HIDE DEF e, m, b
    <2>3. m - e = Len(b) /\ e <= m /\ 0 <= e
        BY <2>2
    <2>4. IsPart(b, S, e, m, B)
        BY <2>2, <2>3 DEF IsPart
    <2>5. 0 \in Nat /\ e \in Nat /\ m \in Nat /\ 0 <= e /\ e <= m /\ m <= Len(S)
        BY <2>2, <2>3
    <2>6. Part(S, 0, e) \o b = Part(S, 0, m)
        BY ONLY <2>4, <2>5, S \in Seq(B), PartsJoin
    <2> QED
        BY <2>6 DEF e, m, b
<1>6. Part(S, 0, 0) = <<>>
    <2>1. IsPart(Part(S, 0, 0), S, 0, 0, B)
        BY PartIs
    <2> QED
        BY <2>1 DEF IsPart
<1> DEFINE T == {n \in Nat : n = 0 \/ h[n] = Part(S, 0, pos[n])}
<1>7. 0 \in T
    OBVIOUS
<1>8. ASSUME NEW n \in 1 .. N, n - 1 \in T PROVE n \in T
    <2>1. CASE n = 1
        <3>1. Part(S, 0, pos[1]) = <<>> \o ss[1]
            <4>1. 1 \in 1 .. N /\ 1 - 1 = 0
                BY <1>3
            <4>2. Part(S, 0, pos[1 - 1]) \o ss[1] = Part(S, 0, pos[1])
                BY <1>5, <4>1
            <4> QED
                BY <1>4, <1>6, <4>1, <4>2
        <3>2. ss[1] \in Seq(B)
            BY <1>3, <2>1
        <3>3. <<>> \o ss[1] = ss[1]
            BY <3>2
        <3> QED
            BY <1>2, <2>1, <3>1, <3>3
    <2>2. CASE n # 1
        <3>1. n \in 2 .. N /\ n - 1 # 0 /\ n \in Nat
            BY <2>2
        <3>2. h[n - 1] = Part(S, 0, pos[n - 1])
            BY <1>8, <3>1
        <3>3. h[n] = h[n - 1] \o ss[n]
            BY <1>2, <3>1
        <3> QED
            BY <1>5, <3>1, <3>2, <3>3
    <2> QED
        BY <2>1, <2>2
<1>9. N \in T
    <2> HIDE DEF T
    <2> QED
        BY <1>3, <1>7, <1>8, CountUpTo
<1>10. F = Part(S, 0, Len(S))
    BY <1>2, <1>3, <1>4, <1>9
<1>11. Part(S, 0, Len(S)) = S
    BY WholePart
<1> QED
    BY <1>10, <1>11 DEF F

\* The maximum of a frame's payload.
LEMMA MaxPayloadIs == MaxPayload \in Nat /\ MaxPayload > 0 /\ MaxPayload < 65536
BY MaxPayloadAssumption

\* The types of a message.
LEMMA MessageIs ==
    ASSUME NEW m \in Received
    PROVE  m.service \in Byte /\ m.payload \in Seq(Byte) /\ Len(m.payload) \in Nat
<1>1. m.service \in Byte /\ m.payload \in Seq(Byte)
    BY DEF Received
<1> DEFINE p == m.payload
<1>2. p \in Seq(Byte)
    BY <1>1
<1> HIDE DEF p
<1>3. Len(p) \in Nat
    BY <1>2
<1> QED
    BY <1>1, <1>3 DEF p

\* How many frames of at most P bytes n bytes take, and where the i-th one ends.
Pieces(n, P) == (n + P - 1) \div P
PieceEnd(n, P, i) == IF i = Pieces(n, P) THEN n ELSE i * P

\* Each of them is full but the last one, which is not empty.
ArePieces(n, P) ==
    /\ Pieces(n, P) \in Nat /\ Pieces(n, P) > 0
    /\ PieceEnd(n, P, 0) = 0 /\ PieceEnd(n, P, Pieces(n, P)) = n
    /\ \A i \in 0 .. Pieces(n, P) : PieceEnd(n, P, i) \in Nat /\ PieceEnd(n, P, i) <= n
    /\ \A i \in 1 .. Pieces(n, P) :
          /\ PieceEnd(n, P, i - 1) = (i - 1) * P
          /\ PieceEnd(n, P, i - 1) < PieceEnd(n, P, i)
          /\ PieceEnd(n, P, i) <= PieceEnd(n, P, i - 1) + P

\* So they are.
LEMMA PiecesAre ==
    ASSUME NEW n \in Nat, n > 0, NEW P \in Nat, P > 0
    PROVE  ArePieces(n, P)
<1> DEFINE c == Pieces(n, P)
           E(i) == PieceEnd(n, P, i)
           a == n + P - 1
<1>1. a \in Nat /\ c = a \div P
    BY DEF Pieces
<1>2. c \in Nat /\ P * c <= a /\ a < P * c + P
    <2> HIDE DEF a, c
    <2> QED
        BY <1>1
<1>3. P * c \in Nat
    BY <1>2
<1> HIDE DEF c
<1>4. P * c <= n + P - 1 /\ n <= P * c
    BY <1>2, <1>3
<1>5. c > 0
    <2>1. c = 0 => P * c = 0
        OBVIOUS
    <2> QED
        BY <1>2, <1>4, <2>1
<1>6. \A i : E(i) = IF i = c THEN n ELSE i * P
    BY DEF PieceEnd, c
<1>7. E(0) = 0 /\ E(c) = n
    BY <1>5, <1>6
<1>8. ASSUME NEW i \in 0 .. c - 1 PROVE i * P \in Nat /\ i * P < n /\ i * P + P <= P * c
    <2>1. (c - 1 - i) \in Nat /\ i \in Nat
        BY <1>2
    <2>2. (c - 1 - i) * P \in Nat /\ i * P \in Nat
        BY <2>1
    <2>3. (c - 1 - i) * P = P * c - P - i * P
        BY <1>2, <2>1
    <2> DEFINE x == (c - 1 - i) * P
               y == i * P
               z == P * c
    <2>4. x \in Nat /\ y \in Nat /\ x = z - P - y /\ z <= n + P - 1 /\ z \in Nat
        BY <1>3, <1>4, <2>2, <2>3
    <2> HIDE DEF x, y, z
    <2>5. y < n /\ y + P <= z
        BY <2>4
    <2> QED
        BY <2>2, <2>5 DEF y, z
<1> HIDE DEF E
<1>9. ASSUME NEW i \in 0 .. c PROVE E(i) \in Nat /\ E(i) <= n
    <2>1. CASE i = c
        BY <2>1, <1>7
    <2>2. CASE i # c
        <3>1. i \in 0 .. c - 1
            BY <1>2, <2>2
        <3>2. E(i) = i * P
            BY <1>6, <2>2
        <3> QED
            BY <1>8, <3>1, <3>2
    <2> QED
        BY <2>1, <2>2
<1>10. ASSUME NEW i \in 1 .. c
       PROVE  E(i - 1) = (i - 1) * P /\ E(i - 1) < E(i) /\ E(i) <= E(i - 1) + P
    <2>1. i - 1 \in 0 .. c - 1 /\ i - 1 # c
        BY <1>2
    <2> DEFINE y == (i - 1) * P
    <2>2. E(i - 1) = y /\ y \in Nat /\ y < n
        BY <1>6, <1>8, <2>1
    <2>3. i * P = y + P
        OBVIOUS
    <2>4. CASE i = c
        <3>1. E(i) = n
            BY <1>7, <2>4
        <3>2. n <= y + P
            <4>1. P * c = y + P
                BY <2>3, <2>4
            <4> QED
                BY <1>4, <4>1
        <3> HIDE DEF y
        <3>3. E(i - 1) < E(i) /\ E(i) <= E(i - 1) + P
            BY <2>2, <3>1, <3>2
        <3> QED
            BY <2>2, <3>3 DEF y
    <2>5. CASE i # c
        <3>1. E(i) = y + P
            BY <1>6, <2>3, <2>5
        <3> HIDE DEF y
        <3>2. E(i - 1) < E(i) /\ E(i) <= E(i - 1) + P
            BY <2>2, <3>1
        <3> QED
            BY <2>2, <3>2 DEF y
    <2> QED
        BY <2>4, <2>5
<1> QED
    BY <1>2, <1>5, <1>7, <1>9, <1>10 DEF c, E, ArePieces

\* The i-th of the frames that a message is split into.
PieceOf(m, i) ==
    LET n == Len(m.payload)
        c == Pieces(n, MaxPayload)
    IN  [service |-> m.service, first |-> i = 1, last |-> i = c,
         total |-> IF i = 1 /\ i # c THEN n ELSE 0,
         payload |-> Part(m.payload, (i - 1) * MaxPayload, PieceEnd(n, MaxPayload, i))]

\* Each is a frame, with its part of the message.
IsPiece(q, m, i) ==
    /\ q \in Frames /\ q.service = m.service
    /\ q.first <=> i = 1
    /\ q.last <=> i = Pieces(Len(m.payload), MaxPayload)
    /\ IsPart(q.payload, m.payload, PieceEnd(Len(m.payload), MaxPayload, i - 1),
              PieceEnd(Len(m.payload), MaxPayload, i), Byte)

\* So they are.
LEMMA PieceIs ==
    ASSUME NEW m \in Received, Len(m.payload) > 0,
           NEW i \in 1 .. Pieces(Len(m.payload), MaxPayload)
    PROVE  IsPiece(PieceOf(m, i), m, i)
<1> DEFINE n == Len(m.payload)
           p == m.payload
           P == MaxPayload
           c == Pieces(n, P)
           e == PieceEnd(n, P, i - 1)
           f == PieceEnd(n, P, i)
           first == i = 1
           last == i = c
           total == IF i = 1 /\ i # c THEN n ELSE 0
           b == Part(p, e, f)
           q == PieceOf(m, i)
<1>1. /\ m.service \in Byte /\ p \in Seq(Byte) /\ n \in Nat /\ n > 0 /\ n = Len(p)
      /\ P \in Nat /\ P > 0 /\ P < 65536
    BY MessageIs, MaxPayloadIs
<1>2. i \in 1 .. c
    OBVIOUS
<1> HIDE DEF n, p, P
<1>3. /\ c \in Nat /\ c > 0
      /\ \A x \in 0 .. c : PieceEnd(n, P, x) \in Nat /\ PieceEnd(n, P, x) <= n
      /\ \A x \in 1 .. c :
            /\ PieceEnd(n, P, x - 1) = (x - 1) * P
            /\ PieceEnd(n, P, x - 1) < PieceEnd(n, P, x)
            /\ PieceEnd(n, P, x) <= PieceEnd(n, P, x - 1) + P
    <2>1. ArePieces(n, P)
        BY <1>1, PiecesAre
    <2> QED
        BY <2>1 DEF ArePieces
<1> HIDE DEF c
<1>4. i - 1 \in 0 .. c /\ i \in 0 .. c
    BY <1>2, <1>3
<1>5. e \in Nat /\ f \in Nat /\ e < f /\ f <= n /\ f <= e + P /\ e = (i - 1) * P
    BY <1>2, <1>3, <1>4
<1>6. q = [service |-> m.service, first |-> first, last |-> last, total |-> total,
           payload |-> b]
    BY <1>5 DEF PieceOf, c, n, P, p
<1> HIDE DEF e, f
<1>7. f - e <= P /\ f - e < 65536 /\ f - e \in Nat /\ e <= f /\ f <= Len(p)
    BY <1>1, <1>5
<1>8. IsPart(b, p, e, f, Byte)
    BY <1>1, <1>5, <1>7, PartIs
<1>9. b \in Seq(Byte) /\ Len(b) = f - e
    BY <1>8 DEF IsPart
<1> HIDE DEF b
<1>10. total \in Nat /\ (total # 0 <=> first /\ ~last) /\ first \in BOOLEAN /\ last \in BOOLEAN
    BY <1>1
<1> HIDE DEF total, q
<1>11. q.service = m.service /\ q.first = first /\ q.last = last /\ q.total = total /\ q.payload = b
    BY <1>6
<1>12. q \in Frames
    <2> HIDE DEF first, last
    <2>1. q \in [service : Byte, first : BOOLEAN, last : BOOLEAN, total : Nat, payload : Seq(Byte)]
        BY <1>1, <1>6, <1>9, <1>10
    <2>2. Len(q.payload) < 65536
        BY <1>7, <1>9, <1>11
    <2>3. q.total # 0 <=> q.first /\ ~q.last
        BY <1>10, <1>11
    <2> QED
        BY <2>1, <2>2, <2>3 DEF Frames
<1> QED
    <2>1. IsPart(q.payload, p, e, f, Byte)
        BY <1>8, <1>11
    <2>2. (q.first <=> i = 1) /\ (q.last <=> i = c)
        BY <1>11
    <2>3. IsPiece(q, m, i)
        BY <1>11, <1>12, <2>1, <2>2 DEF IsPiece, e, f, c, n, p, P
    <2> QED
        BY <2>3 DEF q

\* Splitting a message into frames loses none of its bytes and changes no order,
\* whatever the maximum of a frame's payload is: the frames are marked and sized as
\* the receiver needs it to make the message of them again (MessageAggregator.split).
THEOREM SplitCarries ==
    ASSUME NEW m \in Received, Len(m.payload) > 0
    PROVE  Carry(Split(m), m)
<1> DEFINE n == Len(m.payload)
           p == m.payload
           c == Pieces(n, MaxPayload)
           q == Split(m)
           E(i) == PieceEnd(n, MaxPayload, i)
           ss == Payloads(q)
           ends == [i \in 0 .. c |-> E(i)]
<1>1. p \in Seq(Byte) /\ n \in Nat /\ n > 0 /\ n = Len(p) /\ MaxPayload \in Nat /\ MaxPayload > 0
    BY MessageIs, MaxPayloadIs
<1>2. q = [i \in 1 .. c |-> PieceOf(m, i)]
    BY DEF Split, PieceOf, Part, Pieces, PieceEnd
<1>3. /\ c \in Nat /\ c > 0 /\ E(0) = 0 /\ E(c) = n
      /\ \A i \in 0 .. c : E(i) \in Nat /\ E(i) <= n
    <2> HIDE DEF n
    <2>1. ArePieces(n, MaxPayload)
        BY <1>1, PiecesAre
    <2> QED
        BY <2>1 DEF ArePieces
<1>4. ASSUME NEW i \in 1 .. c
      PROVE  LET f == PieceOf(m, i)
             IN  /\ f \in Frames /\ f.service = m.service
                 /\ f.first <=> i = 1
                 /\ f.last <=> i = c
                 /\ IsPart(f.payload, p, E(i - 1), E(i), Byte)
    <2>1. IsPiece(PieceOf(m, i), m, i)
        BY PieceIs
    <2> QED
        BY <2>1 DEF IsPiece
<1> HIDE DEF n, p, c, q, E
<1>5. q \in Seq(Frames) /\ Len(q) = c /\ \A i \in 1 .. c : q[i] = PieceOf(m, i)
    BY <1>2, <1>3, <1>4
<1>6. ss = [i \in 1 .. c |-> PieceOf(m, i).payload]
    BY <1>5 DEF Payloads
<1>7. \A i \in 1 .. c : PieceOf(m, i).payload \in Seq(Byte)
    BY <1>4 DEF IsPart
<1> HIDE DEF ss
<1>8. ss \in Seq(Seq(Byte)) /\ Len(ss) = c /\ \A i \in 1 .. c : ss[i] = PieceOf(m, i).payload
    BY <1>3, <1>6, <1>7
<1>9. InPlaces(p, ss, ends)
    <2>1. ends \in [0 .. c -> Nat] /\ \A i \in 0 .. c : ends[i] = E(i)
        BY <1>3
    <2>2. ends[0] = 0 /\ ends[c] = Len(p)
        BY <1>1, <1>3, <2>1
    <2>3. ASSUME NEW k \in 1 .. c
          PROVE  /\ ends[k] = ends[k - 1] + Len(ss[k]) /\ ends[k] <= Len(p)
                 /\ \A i \in 1 .. Len(ss[k]) : p[ends[k - 1] + i] = ss[k][i]
        <3> DEFINE b == ss[k]
                   x == E(k - 1)
                   y == E(k)
        <3>1. IsPart(b, p, x, y, Byte)
            BY <1>4, <1>8
        <3>2. k - 1 \in 0 .. c /\ k \in 0 .. c
            BY <1>3
        <3>3. x \in Nat /\ y \in Nat /\ y <= Len(p) /\ ends[k - 1] = x /\ ends[k] = y
            BY <1>1, <1>3, <2>1, <3>2
        <3> HIDE DEF b, x, y, ends
        <3>4. Len(b) = y - x /\ \A i \in 1 .. y - x : b[i] = p[x + i]
            BY <3>1 DEF IsPart
        <3>5. y = x + Len(b)
            BY <3>3, <3>4
        <3> QED
            BY <3>3, <3>4, <3>5 DEF b
    <2> HIDE DEF ends
    <2> QED
        BY <1>8, <2>1, <2>2, <2>3 DEF InPlaces
<1>10. FlattenSeq(ss) = p
    <2> HIDE DEF ends
    <2>1. Len(ss) > 0
        BY <1>3, <1>8
    <2> QED
        BY <1>1, <1>8, <1>9, <2>1, PlacesFlatten
<1>11. ASSUME NEW i \in 1 .. Len(q)
       PROVE  q[i].service = m.service /\ (q[i].first <=> i = 1) /\ (q[i].last <=> i = Len(q))
    BY <1>4, <1>5
<1> QED
    BY <1>3, <1>5, <1>10, <1>11 DEF Carry, q, p, ss

\* One frame is enough for a message just when it fits one.
LEMMA OnePiece ==
    ASSUME NEW n \in Nat, n > 0, NEW P \in Nat, P > 0
    PROVE  Pieces(n, P) = 1 <=> n <= P
<1> DEFINE c == Pieces(n, P)
           E(i) == PieceEnd(n, P, i)
<1>1. /\ c \in Nat /\ c > 0 /\ E(0) = 0 /\ E(c) = n
      /\ \A i \in 0 .. c : E(i) \in Nat /\ E(i) <= n
      /\ \A i \in 1 .. c : E(i - 1) = (i - 1) * P /\ E(i - 1) < E(i) /\ E(i) <= E(i - 1) + P
    BY PiecesAre DEF ArePieces
<1> HIDE DEF c, E
<1>2. ASSUME c = 1 PROVE n <= P
    <2>1. 1 \in 1 .. c /\ 1 - 1 = 0
        BY <1>2
    <2>2. E(1) <= E(0) + P
        BY <1>1, <2>1
    <2> QED
        BY <1>1, <1>2, <2>2
<1>3. ASSUME c # 1 PROVE ~(n <= P)
    <2>1. 2 \in 1 .. c /\ 2 \in 0 .. c /\ 2 - 1 = 1
        BY <1>1, <1>3
    <2>2. E(1) = 1 * P /\ E(1) < E(2) /\ E(2) \in Nat /\ E(2) <= n
        BY <1>1, <2>1
    <2> QED
        BY <2>2
<1> QED
    BY <1>2, <1>3 DEF c

\* The frames a message is split into.
LEMMA SplitIs ==
    ASSUME NEW m \in Received, Len(m.payload) > 0
    PROVE  /\ Pieces(Len(m.payload), MaxPayload) \in Nat
           /\ Pieces(Len(m.payload), MaxPayload) > 0
           /\ Split(m) \in Seq(Frames)
           /\ Len(Split(m)) = Pieces(Len(m.payload), MaxPayload)
           /\ Pieces(Len(m.payload), MaxPayload) = 1 <=> Len(m.payload) <= MaxPayload
<1> DEFINE n == Len(m.payload)
           c == Pieces(n, MaxPayload)
<1>1. n \in Nat /\ n > 0 /\ MaxPayload \in Nat /\ MaxPayload > 0
    BY MessageIs, MaxPayloadIs
<1>2. Split(m) \in Seq(Frames)
    BY SplitCarries DEF Carry
<1>3. Split(m) = [i \in 1 .. c |-> PieceOf(m, i)]
    BY DEF Split, PieceOf, Part, Pieces, PieceEnd
<1> HIDE DEF n
<1>4. c \in Nat /\ c > 0
    BY <1>1, PiecesAre DEF ArePieces
<1>5. c = 1 <=> n <= MaxPayload
    BY <1>1, OnePiece
<1> HIDE DEF c
<1>6. Len(Split(m)) = c
    BY <1>3, <1>4
<1> QED
    BY <1>2, <1>4, <1>5, <1>6 DEF c, n

\* How many frames of a message are not written: the first one, if there are more.
Unwritten(m) == IF Len(m.payload) <= MaxPayload THEN 0 ELSE 1

\* The others are, each on its own.
LEMMA SendWrites ==
    ASSUME NEW m \in Received, Len(m.payload) > 0
    PROVE  SendMessage(m) = [i \in 1 .. Len(Split(m)) - Unwritten(m) |->
                                Bytes(Split(m)[i + Unwritten(m)])]
<1> DEFINE q == Split(m)
           c == Len(q)
           d == Unwritten(m)
           S == [i \in 1 .. c - d |-> Bytes(q[i + d])]
           ss == [i \in DOMAIN q |-> EncodeFrameData(q[i])]
           pos == [k \in 0 .. c |-> IF k = 0 THEN 0 ELSE k - d]
<1>1. q \in Seq(Frames) /\ c \in Nat /\ c > 0 /\ (c = 1 <=> d = 0) /\ d \in {0, 1}
    <2> HIDE DEF q
    <2>1. q \in Seq(Frames)
        BY SplitIs DEF q
    <2>2. c = Pieces(Len(m.payload), MaxPayload)
        BY SplitIs DEF q
    <2>3. c \in Nat /\ c > 0 /\ (c = 1 <=> Len(m.payload) <= MaxPayload)
        BY <2>2, SplitIs
    <2>4. d = IF Len(m.payload) <= MaxPayload THEN 0 ELSE 1
        BY DEF Unwritten
    <2> HIDE DEF c, d
    <2> QED
        BY <2>1, <2>3, <2>4
<1>2. \A i \in 1 .. c : q[i].first <=> i = 1
    BY SplitCarries DEF Carry
<1>3. \A i \in 1 .. c : q[i].last <=> i = c
    BY SplitCarries DEF Carry
<1> HIDE DEF q, d
<1>4. ASSUME NEW i \in 1 .. c
      PROVE  /\ q[i].total # 0 <=> i = 1 /\ d = 1
             /\ Bytes(q[i]) \in Seq(Byte)
    <2>1. q[i] \in Frames
        BY <1>1
    <2>2. q[i].total # 0 <=> q[i].first /\ ~q[i].last
        BY <2>1 DEF Frames
    <2> QED
        <3>1. Bytes(q[i]) \in Seq(Byte)
            BY <2>1, BytesAre
        <3>2. (q[i].first <=> i = 1) /\ (q[i].last <=> i = c)
            BY <1>2, <1>3
        <3>3. (i = 1 /\ ~(i = c)) <=> (i = 1 /\ d = 1)
            <4> HIDE DEF c
            <4> QED
                BY <1>1
        <3> QED
            BY <2>2, <3>1, <3>2, <3>3
<1>5. DOMAIN q = 1 .. c
    BY <1>1
<1> HIDE DEF c
<1>6. ASSUME NEW i \in 1 .. c
      PROVE  ss[i] = IF i = 1 /\ d = 1 THEN <<>> ELSE <<Bytes(q[i])>>
    BY <1>4, <1>5 DEF EncodeFrameData
<1>7. ASSUME NEW i \in 1 .. c PROVE ss[i] \in Seq(Seq(Byte))
    <2>1. <<>> \in Seq(Seq(Byte))
        OBVIOUS
    <2>2. <<Bytes(q[i])>> \in Seq(Seq(Byte))
        BY <1>4
    <2> HIDE DEF ss
    <2> QED
        BY <1>6, <2>1, <2>2
<1>8. ss = [i \in 1 .. c |-> ss[i]]
    BY <1>5
<1> HIDE DEF ss
<1>9. ss \in Seq(Seq(Seq(Byte))) /\ Len(ss) = c
    BY <1>1, <1>7, <1>8
<1>10. c - d \in Nat /\ \A i \in 1 .. c - d : i + d \in 1 .. c
    BY <1>1
<1>11. S \in Seq(Seq(Byte)) /\ Len(S) = c - d
    BY <1>4, <1>10
<1>12. \A i \in 1 .. c - d : S[i] = Bytes(q[i + d])
    OBVIOUS
<1> HIDE DEF S
<1>13. pos \in [0 .. c -> Nat] /\ pos[0] = 0 /\ pos[c] = c - d
    <2>1. \A k \in 0 .. c : (IF k = 0 THEN 0 ELSE k - d) \in Nat
        BY <1>1
    <2> QED
        BY <1>1, <2>1
<1>14. \A k \in 0 .. c : pos[k] = IF k = 0 THEN 0 ELSE k - d
    OBVIOUS
<1> HIDE DEF pos
<1>15. ASSUME NEW k \in 1 .. c
       PROVE  /\ pos[k] = pos[k - 1] + Len(ss[k]) /\ pos[k] <= c - d
              /\ \A i \in 1 .. Len(ss[k]) : S[pos[k - 1] + i] = ss[k][i]
    <2>1. k - 1 \in 0 .. c /\ k \in 0 .. c /\ k # 0
        BY <1>1
    <2>2. CASE k = 1 /\ d = 1
        <3>0. ss[k] = <<>>
            BY <1>6, <2>2, Zenon
        <3>1. Len(ss[k]) = 0
            BY <3>0
        <3>2. pos[k] = 0 /\ pos[k - 1] = 0
            BY <1>14, <2>1, <2>2
        <3>3. 1 .. Len(ss[k]) = {}
            BY <3>1
        <3> QED
            BY <1>10, <3>1, <3>2, <3>3
    <2>3. CASE ~(k = 1 /\ d = 1)
        <3>1. ss[k] = <<Bytes(q[k])>>
            BY <1>6, <2>3
        <3>2. Len(ss[k]) = 1 /\ ss[k][1] = Bytes(q[k]) /\ 1 .. Len(ss[k]) = {1}
            BY <3>1
        <3>3. pos[k] = k - d
            BY <1>14, <2>1
        <3>4. pos[k - 1] = k - d - 1
            <4>1. CASE k = 1
                BY <1>1, <1>14, <2>1, <2>3, <4>1
            <4>2. CASE k # 1
                BY <1>1, <1>14, <2>1, <4>2
            <4> QED
                BY <4>1, <4>2
        <3>5. k - d - 1 + 1 = k - d /\ k - d <= c - d /\ k - d \in 1 .. c - d /\ (k - d) + d = k
            BY <1>1, <2>3
        <3>6. S[k - d] = Bytes(q[k])
            BY <1>12, <3>5
        <3> QED
            BY <3>2, <3>3, <3>4, <3>5, <3>6
    <2> QED
        BY <2>2, <2>3
<1>16. InPlaces(S, ss, pos)
    BY <1>9, <1>11, <1>13, <1>15 DEF InPlaces
<1>17. FlattenSeq(ss) = S
    BY <1>1, <1>9, <1>11, <1>16, PlacesFlatten
<1> QED
    BY <1>17 DEF SendMessage, S, ss, c, q, d

\* One frame alone is decoded, and nothing is left.
LEMMA DecodesOne ==
    ASSUME NEW f \in Frames
    PROVE  DecodeBuffer(Bytes(f)).frames = <<Decoded(f)>> /\ DecodeBuffer(Bytes(f)).rest = <<>>
<1> DEFINE S == Bytes(f)
           fs == <<f>>
           pos == [i \in 0 .. 1 |-> IF i = 0 THEN 0 ELSE Size(f)]
<1>1. S \in Seq(Byte) /\ Len(S) = Size(f) /\ HasFrame(S, 0, f) /\ Size(f) \in Nat
    BY BytesAre, FrameIs
<1>2. fs \in Seq(Frames) /\ Len(fs) = 1 /\ fs[1] = f
    OBVIOUS
<1>3. pos \in [0 .. 1 -> Nat] /\ pos[0] = 0 /\ pos[1] = Size(f)
    BY <1>1
<1> HIDE DEF S, fs, pos
<1>4. Laid(S, fs, pos)
    <2>1. \A k \in 1 .. 1 : k = 1 /\ k - 1 = 0
        OBVIOUS
    <2>2. pos[1] = pos[0] + Size(fs[1]) /\ HasFrame(S, pos[0], fs[1])
        BY <1>1, <1>2, <1>3
    <2>3. \A k \in 1 .. 1 : pos[k] = pos[k - 1] + Size(fs[k]) /\ HasFrame(S, pos[k - 1], fs[k])
        BY <2>1, <2>2
    <2> QED
        BY <1>1, <1>2, <1>3, <2>3 DEF Laid
<1>5. DecodeBuffer(Part(S, pos[0], Len(S))) = DecodedUpTo(S, fs, pos, 0, Len(S), 1)
    <2>1. /\ 0 \in 0 .. Len(fs) /\ 1 \in 0 .. Len(fs) /\ Len(S) \in Nat /\ Len(S) <= Len(S)
          /\ pos[1] <= Len(S) /\ 1 = Len(fs)
        BY <1>1, <1>2, <1>3
    <2> QED
        BY <1>1, <1>2, <1>4, <2>1, DecodesAll
<1>6. Part(S, pos[0], Len(S)) = S
    BY <1>1, <1>3, WholePart
<1>7. DecodedUpTo(S, fs, pos, 0, Len(S), 1) =
          [frames |-> [i \in 1 .. 1 - 0 |-> Decoded(fs[0 + i])], rest |-> Part(S, pos[1], Len(S))]
    BY DEF DecodedUpTo
<1>8. [i \in 1 .. 1 - 0 |-> Decoded(fs[0 + i])] = <<Decoded(f)>>
    <2> DEFINE x == Decoded(f)
    <2>1. \A i \in 1 .. 1 - 0 : Decoded(fs[0 + i]) = x
        <3>1. \A i \in 1 .. 1 - 0 : 0 + i = 1
            OBVIOUS
        <3> QED
            BY <1>2, <3>1
    <2> HIDE DEF x
    <2>2. [i \in 1 .. 1 - 0 |-> Decoded(fs[0 + i])] = [i \in 1 .. 1 |-> x]
        BY <2>1
    <2>3. [i \in 1 .. 1 |-> x] = <<x>>
        OBVIOUS
    <2> QED
        BY <2>2, <2>3 DEF x
<1>9. Part(S, pos[1], Len(S)) = <<>>
    <2>1. IsPart(Part(S, Len(S), Len(S)), S, Len(S), Len(S), Byte)
        BY <1>1, PartIs
    <2> DEFINE a == Part(S, Len(S), Len(S))
    <2>2. a \in Seq(Byte) /\ Len(a) = 0
        BY <1>1, <2>1 DEF IsPart
    <2> HIDE DEF a
    <2>3. a = <<>>
        BY <2>2
    <2> QED
        BY <1>1, <1>3, <2>3 DEF a
<1>10. DecodeBuffer(S) = [frames |-> <<Decoded(f)>>, rest |-> <<>>]
    BY <1>5, <1>6, <1>7, <1>8, <1>9
<1> QED
    BY <1>10 DEF S

\* What the aggregator makes of one frame that is first and last.
LEMMA AggregatesOne ==
    ASSUME NEW m \in Received, NEW q, Carry(q, m), Len(q) = 1
    PROVE  Aggregated(q) = [open |-> Idle, messages |-> <<m>>]
<1> DEFINE f == q[1]
           all == AllDecoded(q)
           a == Aggregated(q)
           p == f.payload
           mp == m.payload
<1>1. /\ q \in Seq(Frames) /\ f \in Frames /\ f.service = m.service /\ f.last
      /\ FlattenSeq(Payloads(q)) = m.payload
    BY DEF Carry
<1>2. /\ m.service \in Byte /\ m.payload \in Seq(Byte)
      /\ m = [service |-> m.service, payload |-> m.payload]
    BY DEF Received
<1>3. f.payload = m.payload
    <2> HIDE DEF f, p, mp, all, a
    <2>1. /\ Sofar(q, m, 0) = <<>> /\ Sofar(q, m, 1) = m.payload
          /\ \A i \in 1 .. 1 : Sofar(q, m, i) = Sofar(q, m, i - 1) \o q[i].payload
        <3>1. /\ Sofar(q, m, 0) = <<>> /\ Sofar(q, m, Len(q)) = m.payload
              /\ \A i \in 1 .. Len(q) : Sofar(q, m, i) = Sofar(q, m, i - 1) \o q[i].payload
            BY SofarIs, Zenon
        <3> QED
            BY <3>1
    <2>2. 1 \in 1 .. 1 /\ 1 - 1 = 0
        OBVIOUS
    <2>3. m.payload = <<>> \o f.payload
        BY <2>1, <2>2 DEF f
    <2>4. f.payload \in Seq(Byte)
        BY <1>1, FrameIs
    <2> QED
        BY <2>3, <2>4
<1>4. all \in Seq(Given) /\ Len(all) = 1 /\ all[1] = Decoded(f)
    <2>1. Decoded(f) \in Given
        BY <1>1, DecodedIs
    <2>2. all = [i \in 1 .. 1 |-> Decoded(q[i])]
        BY DEF AllDecoded
    <2> HIDE DEF all
    <2>3. \A i \in 1 .. 1 : i = 1
        OBVIOUS
    <2> QED
        BY <2>1, <2>2, <2>3
<1> HIDE DEF all
<1>5. PICK h : Aggregating(h, Begin, all)
    BY <1>4, BeginIs, AggregateSteps
<1>6. a = Aggregate(Begin, Decoded(f))
    <2>1. /\ h[0] = Begin /\ h[1] = FoldLeft(Aggregate, Begin, all)
          /\ \A n \in 1 .. 1 : h[n] = Aggregate(h[n - 1], all[n])
        BY <1>4, <1>5 DEF Aggregating
    <2>2. 1 \in 1 .. 1 /\ 1 - 1 = 0
        OBVIOUS
    <2>3. h[1] = Aggregate(Begin, Decoded(f))
        BY <1>4, <2>1, <2>2
    <2> QED
        BY <2>1, <2>3 DEF Aggregated, all
<1> HIDE DEF f, a, p, mp
<1>7. IsAggregated(a, Begin, f) /\ a \in Gathered
    BY <1>1, <1>6, BeginIs, AggregateIs, AggregateType, DecodedIs
<1>8. Ended(Begin, f) = m
    <2>1. Begin.open[m.service] = <<>>
        BY <1>2, BeginIs DEF Idle, Byte
    <2>2. <<>> \o m.payload = m.payload
        BY <1>2
    <2> QED
        BY <1>1, <1>2, <1>3, <2>1, <2>2 DEF Ended
<1>9. a.messages = <<m>>
    <2>1. a.messages = Append(Begin.messages, m)
        BY <1>1, <1>7, <1>8 DEF IsAggregated
    <2>2. Append(<<>>, m) = <<m>>
        OBVIOUS
    <2> QED
        BY <2>1, <2>2, BeginIs
<1>10. a.open = Idle
    <2>1. a.open[m.service] = <<>> /\ \A s \in Byte : s # m.service => a.open[s] = Begin.open[s]
        BY <1>1, <1>7 DEF IsAggregated
    <2>2. \A s \in Byte : Begin.open[s] = <<>>
        BY BeginIs DEF Idle, Byte
    <2>3. \A s \in Byte : a.open[s] = <<>>
        BY <2>1, <2>2
    <2>4. a.open \in [Byte -> Seq(Byte)]
        BY <1>7 DEF Gathered
    <2>5. a.open = [s \in Byte |-> <<>>]
        BY <2>3, <2>4
    <2> QED
        BY <2>5 DEF Idle, Byte
<1>11. a = [open |-> a.open, messages |-> a.messages]
    BY <1>7 DEF Gathered
<1> QED
    BY <1>9, <1>10, <1>11 DEF a

\* A message of the server that fits a frame is received as it was sent, however its
\* bytes are cut, by whoever decodes and aggregates them as the server does
\* (onSendMessage, split and encodeFrameData).
THEOREM ShortMessageReceived ==
    ASSUME NEW m \in Received, Len(m.payload) \in 1 .. MaxPayload,
           NEW chunks \in Seq(Seq(Byte)), FlattenSeq(chunks) = FlattenSeq(SendMessage(m))
    PROVE  ReceiveChunks(chunks) = [rest |-> <<>>, open |-> Idle, messages |-> <<m>>]
<1> DEFINE q == Split(m)
<1>1. Len(m.payload) > 0 /\ Len(m.payload) <= MaxPayload
    <2> DEFINE n == Len(m.payload)
    <2>1. n \in 1 .. MaxPayload /\ MaxPayload \in Nat
        BY MaxPayloadIs
    <2> HIDE DEF n
    <2>2. n > 0 /\ n <= MaxPayload
        BY <2>1
    <2> QED
        BY <2>2 DEF n
<1>2. q \in Seq(Frames) /\ Len(q) = 1
    <2> HIDE DEF q
    <2>1. q \in Seq(Frames) /\ Len(q) = Pieces(Len(m.payload), MaxPayload)
        BY <1>1, SplitIs DEF q
    <2> QED
        BY <1>1, <2>1, SplitIs
<1>3. Carry(q, m)
    BY <1>1, SplitCarries
<1>4. Unwritten(m) = 0
    BY <1>1 DEF Unwritten
<1>5. SendMessage(m) = [i \in 1 .. Len(q) |-> Bytes(q[i])]
    <2>1. SendMessage(m) = [i \in 1 .. Len(q) - 0 |-> Bytes(q[i + 0])]
        BY <1>1, <1>4, SendWrites
    <2> HIDE DEF q
    <2>2. Len(q) - 0 = Len(q) /\ \A i \in 1 .. Len(q) : i + 0 = i
        BY <1>2
    <2> QED
        BY <2>1, <2>2
<1> HIDE DEF q
<1>6. FlattenSeq(chunks) = WireOf(q)
    BY <1>5 DEF WireOf
<1>7. Aggregated(q) = [open |-> Idle, messages |-> <<m>>]
    BY <1>2, <1>3, AggregatesOne
<1>8. ReceiveChunks(chunks) = [rest |-> <<>>, open |-> Aggregated(q).open,
                              messages |-> Aggregated(q).messages]
    BY <1>2, <1>6, ReceivedHoweverCut
<1> QED
    BY <1>7, <1>8

\* Of a longer one all frames are written but the first one, whose encoding throws:
\* what follows it is decoded, as frames that continue a message nobody has begun
\* (onSendMessage, encodeFrameData and appendUint32BE).
THEOREM LongMessageHeadless ==
    ASSUME NEW m \in Received, Len(m.payload) > MaxPayload
    PROVE  /\ Len(SendMessage(m)) = Len(Split(m)) - 1
           /\ \A k \in 1 .. Len(SendMessage(m)) :
                 /\ DecodeBuffer(SendMessage(m)[k]).frames = <<Decoded(Split(m)[k + 1])>>
                 /\ DecodeBuffer(SendMessage(m)[k]).rest = <<>>
                 /\ ~Decoded(Split(m)[k + 1]).first
<1> DEFINE q == Split(m)
           c == Len(q)
           w == SendMessage(m)
<1>1. Len(m.payload) \in Nat /\ Len(m.payload) > 0 /\ ~(Len(m.payload) <= MaxPayload)
    <2> DEFINE n == Len(m.payload)
    <2> HIDE DEF q, c, w
    <2>1. n \in Nat
        BY MessageIs
    <2>2. n > MaxPayload
        OBVIOUS
    <2>3. MaxPayload \in Nat
        BY MaxPayloadIs
    <2> HIDE DEF n
    <2>4. n \in Nat /\ n > 0 /\ ~(n <= MaxPayload)
        BY <2>1, <2>2, <2>3
    <2> QED
        BY <2>4 DEF n
<1>2. q \in Seq(Frames) /\ c \in Nat /\ c > 0
    <2> HIDE DEF q
    <2>1. q \in Seq(Frames) /\ Len(q) = Pieces(Len(m.payload), MaxPayload)
        BY <1>1, SplitIs DEF q
    <2> QED
        BY <1>1, <2>1, SplitIs
<1>3. \A i \in 1 .. c : q[i].first <=> i = 1
    BY <1>1, SplitCarries DEF Carry
<1>4. Unwritten(m) = 1
    BY <1>1 DEF Unwritten
<1>5. w = [i \in 1 .. c - 1 |-> Bytes(q[i + 1])]
    BY <1>1, <1>4, SendWrites
<1> HIDE DEF q, w, c
<1>6. Len(w) = c - 1
    <2>1. c - 1 \in Nat
        BY <1>2
    <2> QED
        BY <1>5, <2>1
<1>7. ASSUME NEW k \in 1 .. Len(w)
      PROVE  /\ DecodeBuffer(w[k]).frames = <<Decoded(q[k + 1])>>
             /\ DecodeBuffer(w[k]).rest = <<>>
             /\ ~Decoded(q[k + 1]).first
    <2>1. k \in 1 .. c - 1 /\ k + 1 \in 1 .. c /\ k + 1 # 1
        BY <1>2, <1>6
    <2>2. q[k + 1] \in Frames /\ ~q[k + 1].first
        BY <1>2, <1>3, <2>1 DEF c
    <2> DEFINE f == q[k + 1]
    <2>3. w[k] = Bytes(f)
        BY <1>5, <2>1
    <2> HIDE DEF f
    <2>4. DecodeBuffer(Bytes(f)).frames = <<Decoded(f)>> /\ DecodeBuffer(Bytes(f)).rest = <<>>
        BY <2>2, DecodesOne DEF f
    <2>5. ~Decoded(f).first
        <3> DEFINE x == FrameHeaderFlags(f) % 2 = 1
        <3>1. ~x
            BY <2>2, FlagsIs DEF f
        <3> HIDE DEF x
        <3>2. Decoded(f).first = x
            BY DEF Decoded, x
        <3> QED
            BY <3>1, <3>2
    <2> QED
        BY <2>3, <2>4, <2>5 DEF f
<1> QED
    BY <1>6, <1>7 DEF q, w, c
=============================================================================
