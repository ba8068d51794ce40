--------------------------- MODULE ControlSession ---------------------------
(***************************************************************************)
(* The session the control service runs over a connected device: doStart,  *)
(* which exchanges the version, the TLS handshake and the service          *)
(* discovery with the phone, and the pinger, which watches the phone for   *)
(* as long as the session lasts.                                           *)
(*                                                                         *)
(* doStart is an async function.  It suspends in readHandshakeBuffer and   *)
(* writeHandshakeBuffer of the cryptor, and in waitForSpecificMessage,     *)
(* which registers a callback for one message id and an abort listener on  *)
(* the session's AbortSignal, a timer of startTimeoutMs.  Between two      *)
(* suspensions it runs alone.                                              *)
(*                                                                         *)
(* The phone and the TLS engine are external.  The phone answers what it   *)
(* is sent, or falls silent.  The engine takes Rounds exchanges.           *)
(***************************************************************************)
EXTENDS Naturals, Sequences

CONSTANTS
    Rounds,  \* client flights of a TLS handshake, each with an answer
    Signals  \* the AbortSignals, as many as have a timer running at a time

ASSUME ControlSessionAssumption ==
    /\ Rounds \in Nat \ {0}
    /\ "none" \notin Signals

VARIABLES
    pc,         \* where doStart is
    session,    \* the AbortSignal of the session, or of the last one
    round,      \* TLS exchanges done; the handshake is complete at Rounds
    signal,     \* signal[s]: whether the timer of s runs or has fired
    callbacks,  \* callbacks[m]: the session that waits for message m
    listeners,  \* the abort listeners, of a signal and the message waited for
    toPhone,    \* messages on their way to the phone
    inflight,   \* messages on their way from the phone
    silent,     \* the phone has stopped answering
    pinging,    \* a ping was sent and no response to it has come
    asked       \* the server has been asked to disconnect the device

vars == <<pc, session, round, signal, callbacks, listeners, toPhone, inflight,
          silent, pinging, asked>>

\* The ids doStart waits for, and where it does.
Awaited == {"version", "ssl", "discovery"}

Waiting == [version |-> "versionQuery", ssl |-> "handshake",
            discovery |-> "serviceDiscovery"]

Busy == {"versionQuery", "reading", "handshake", "writing", "serviceDiscovery"}

ToPhone == {"versionRequest", "handshake", "authComplete", "discoveryResponse",
            "pingRequest"}
FromPhone == {"versionOk", "versionMismatch", "ssl", "discovery",
              "pingResponse", "byeBye"}

\* The two version responses differ in their status only.
MessageId(m) == IF m \in {"versionOk", "versionMismatch"} THEN "version" ELSE m

TypeOK ==
    /\ pc \in Busy \cup {"off", "up", "failed"}
    /\ session \in Signals \cup {"none"}
    /\ round \in 0 .. Rounds
    /\ signal \in [Signals -> {"unused", "armed", "aborted"}]
    /\ callbacks \in [Awaited -> Signals \cup {"none"}]
    /\ listeners \subseteq [signal : Signals, id : Awaited]
    /\ toPhone \in Seq(ToPhone)
    /\ inflight \in Seq(FromPhone)
    /\ silent \in BOOLEAN
    /\ pinging \in BOOLEAN
    /\ asked \in BOOLEAN

Init ==
    /\ pc = "off"
    /\ session = "none"
    /\ round = 0
    /\ signal = [s \in Signals |-> "unused"]
    /\ callbacks = [m \in Awaited |-> "none"]
    /\ listeners = {}
    /\ toPhone = <<>>
    /\ inflight = <<>>
    /\ silent = FALSE
    /\ pinging = FALSE
    /\ asked = FALSE

-----------------------------------------------------------------------------
(***************************************************************************)
(* waitForSpecificMessage(m, signal of session s): the listener is added   *)
(* whether or not the signal has been aborted; if it has, it never fires.  *)
(***************************************************************************)
WaitFor(m, s) ==
    /\ callbacks' = [callbacks EXCEPT ![m] = s]
    /\ listeners' = listeners \cup {[signal |-> s, id |-> m]}

\* The message has come: onMessage forgets the callback and the listener.
\* Mutant: the listener is left on the signal.
Resolve_KeepListener(m) ==
    /\ callbacks' = [callbacks EXCEPT ![m] = "none"]
    /\ UNCHANGED listeners

Resolve(m) ==
    /\ callbacks' = [callbacks EXCEPT ![m] = "none"]
    /\ listeners' = listeners \ {[signal |-> callbacks[m], id |-> m]}

Send(m) == toPhone' = Append(toPhone, m)

-----------------------------------------------------------------------------
(***************************************************************************)
(* doStart.                                                                *)
(***************************************************************************)
\* The dependencies are started, the pinger with them, and doStart is called,
\* which creates a signal, for which a name no timer runs for is used (again),
\* and sends the version request.
Start(s) ==
    /\ pc = "off"
    /\ signal[s] # "armed"
    /\ signal' = [signal EXCEPT ![s] = "armed"]
    /\ session' = s
    /\ pc' = "versionQuery"
    /\ Send("versionRequest")
    /\ WaitFor("version", s)
    /\ UNCHANGED <<round, inflight, silent, pinging, asked>>

\* A message that doStart waits for is the next one from the phone.
Receives(m) ==
    /\ inflight # <<>>
    /\ Head(inflight) = m
    /\ inflight' = Tail(inflight)
    /\ callbacks[MessageId(m)] # "none"
    /\ Resolve(MessageId(m))

ReceiveVersion ==
    /\ Receives("versionOk")
    /\ pc' = "reading"
    /\ UNCHANGED <<session, round, signal, toPhone, silent, pinging, asked>>

ReceiveMismatch ==
    /\ Receives("versionMismatch")
    /\ pc' = "failed"
    /\ UNCHANGED <<session, round, signal, toPhone, silent, pinging, asked>>

\* The engine has a flight for the phone.
HandshakeRead ==
    /\ pc = "reading"
    /\ pc' = "handshake"
    /\ Send("handshake")
    /\ WaitFor("ssl", session)
    /\ UNCHANGED <<session, round, signal, inflight, silent, pinging, asked>>

ReceiveHandshake ==
    /\ Receives("ssl")
    /\ pc' = "writing"
    /\ UNCHANGED <<session, round, signal, toPhone, silent, pinging, asked>>

\* The engine has taken the answer.  Unless it is complete the loop goes on.
HandshakeContinues ==
    /\ pc = "writing"
    /\ round + 1 < Rounds
    /\ round' = round + 1
    /\ pc' = "reading"
    /\ UNCHANGED <<session, signal, callbacks, listeners, toPhone, inflight,
                   silent, pinging, asked>>

HandshakeCompletes ==
    /\ pc = "writing"
    /\ round + 1 = Rounds
    /\ round' = Rounds
    /\ pc' = "serviceDiscovery"
    /\ Send("authComplete")
    /\ WaitFor("discovery", session)
    /\ UNCHANGED <<session, signal, inflight, silent, pinging, asked>>

\* readHandshakeBuffer or writeHandshakeBuffer rejects.
HandshakeFails ==
    /\ pc \in {"reading", "writing"}
    /\ pc' = "failed"
    /\ UNCHANGED <<session, round, signal, callbacks, listeners, toPhone,
                   inflight, silent, pinging, asked>>

ReceiveDiscovery ==
    /\ Receives("discovery")
    /\ pc' = "up"
    /\ Send("discoveryResponse")
    /\ UNCHANGED <<session, round, signal, silent, pinging, asked>>

(***************************************************************************)
(* The timer of session s fires, which it does though doStart has settled  *)
(* or the session is over.  The listeners forget their callbacks and       *)
(* reject their promises; doStart fails if it awaits one of them.          *)
(***************************************************************************)
\* Mutant: onAbort rejects the promise but leaves the callback registered.
AbortFires_KeepCallback(s) ==
    /\ signal[s] = "armed"
    /\ signal' = [signal EXCEPT ![s] = "aborted"]
    /\ listeners' = {l \in listeners : l.signal # s}
    /\ pc' = IF \E l \in listeners : l.signal = s /\ s = session /\ pc = Waiting[l.id]
             THEN "failed" ELSE pc
    /\ UNCHANGED <<session, round, callbacks, toPhone, inflight, silent, pinging, asked>>

\* Mutant: the signal is only looked at, and the wait goes on.
AbortFires_Ignored(s) ==
    /\ signal[s] = "armed"
    /\ UNCHANGED vars

AbortFires(s) ==
    /\ signal[s] = "armed"
    /\ signal' = [signal EXCEPT ![s] = "aborted"]
    /\ callbacks' = [m \in Awaited |->
                       IF [signal |-> s, id |-> m] \in listeners THEN "none" ELSE callbacks[m]]
    /\ listeners' = {l \in listeners : l.signal # s}
    /\ pc' = IF \E l \in listeners : l.signal = s /\ s = session /\ pc = Waiting[l.id]
             THEN "failed" ELSE pc
    /\ UNCHANGED <<session, round, toPhone, inflight, silent, pinging, asked>>

-----------------------------------------------------------------------------
(***************************************************************************)
(* Messages doStart does not wait for.                                     *)
(***************************************************************************)
\* Nobody is registered for the message: it is logged and dropped.
DropMessage ==
    /\ inflight # <<>>
    /\ MessageId(Head(inflight)) \in Awaited
    /\ callbacks[MessageId(Head(inflight))] = "none"
    /\ inflight' = Tail(inflight)
    /\ UNCHANGED <<pc, session, round, signal, callbacks, listeners, toPhone,
                   silent, pinging, asked>>

\* A response carries the timestamp of a ping that was sent, so it is never later
\* than the last one: its age is not what a timeout depends on.
OnPingResponse ==
    /\ inflight # <<>>
    /\ Head(inflight) = "pingResponse"
    /\ inflight' = Tail(inflight)
    /\ pinging' = FALSE
    /\ UNCHANGED <<pc, session, round, signal, callbacks, listeners, toPhone,
                   silent, asked>>

OnByeByeRequest ==
    /\ inflight # <<>>
    /\ Head(inflight) = "byeBye"
    /\ inflight' = Tail(inflight)
    /\ asked' = TRUE
    /\ UNCHANGED <<pc, session, round, signal, callbacks, listeners, toPhone,
                   silent, pinging>>

(***************************************************************************)
(* The interval of the pinger: it asks for a disconnection if its last     *)
(* ping is unanswered, every time, and sends the next one otherwise.       *)
(***************************************************************************)
\* Mutant: sending a ping does not forget the response to the one before.
OnPingTimeout_KeepResponse ==
    /\ pc # "off"
    /\ ~pinging
    /\ "pingRequest" \notin {toPhone[i] : i \in 1 .. Len(toPhone)}
    /\ "pingResponse" \notin {inflight[i] : i \in 1 .. Len(inflight)}
    /\ Send("pingRequest")
    /\ UNCHANGED <<pc, session, round, signal, callbacks, listeners, inflight,
                   silent, pinging, asked>>

OnPingTimeout ==
    /\ pc # "off"
    /\ IF pinging
       THEN asked' = TRUE /\ UNCHANGED <<pinging, toPhone>>
       ELSE pinging' = TRUE /\ Send("pingRequest") /\ UNCHANGED asked
    /\ UNCHANGED <<pc, session, round, signal, callbacks, listeners, inflight, silent>>

(***************************************************************************)
(* stopDependencies, and the end of the connection the messages are on.    *)
(* The lock is held while doStart runs, so it has settled.  The timer of   *)
(* the session's signal is not cancelled.                                  *)
(***************************************************************************)
Stop ==
    /\ pc \in {"up", "failed"}
    /\ pc' = "off"
    /\ round' = 0
    /\ callbacks' = [m \in Awaited |-> "none"]
    /\ toPhone' = <<>>
    /\ inflight' = <<>>
    /\ silent' = FALSE
    /\ pinging' = FALSE
    /\ asked' = FALSE
    /\ UNCHANGED <<session, signal, listeners>>

-----------------------------------------------------------------------------
(***************************************************************************)
(* The phone.                                                              *)
(***************************************************************************)
\* What the phone may answer to a message.
Answers(m) ==
    CASE m = "versionRequest"    -> {<<"versionOk">>, <<"versionMismatch">>}
      [] m = "handshake"         -> {<<"ssl">>}
      [] m = "authComplete"      -> {<<"discovery">>}
      [] m = "discoveryResponse" -> {<<>>}
      [] m = "pingRequest"       -> {<<"pingResponse">>}

PhoneAnswers ==
    /\ ~silent
    /\ toPhone # <<>>
    /\ toPhone' = Tail(toPhone)
    /\ \E a \in Answers(Head(toPhone)) : inflight' = inflight \o a
    /\ UNCHANGED <<pc, session, round, signal, callbacks, listeners, silent,
                   pinging, asked>>

PhoneSaysGoodbye ==
    /\ ~silent
    /\ pc # "off"
    /\ "byeBye" \notin {inflight[i] : i \in 1 .. Len(inflight)}
    /\ inflight' = Append(inflight, "byeBye")
    /\ UNCHANGED <<pc, session, round, signal, callbacks, listeners, toPhone,
                   silent, pinging, asked>>

PhoneFallsSilent ==
    /\ ~silent
    /\ pc # "off"
    /\ silent' = TRUE
    /\ UNCHANGED <<pc, session, round, signal, callbacks, listeners, toPhone,
                   inflight, pinging, asked>>

-----------------------------------------------------------------------------
Receive ==
    \/ ReceiveVersion \/ ReceiveMismatch \/ ReceiveHandshake \/ ReceiveDiscovery
    \/ DropMessage \/ OnPingResponse \/ OnByeByeRequest

Handshake ==
    HandshakeRead \/ HandshakeContinues \/ HandshakeCompletes \/ HandshakeFails

Phone == PhoneAnswers \/ PhoneSaysGoodbye \/ PhoneFallsSilent

Next ==
    \/ Receive \/ Handshake \/ OnPingTimeout \/ Stop \/ Phone
    \/ \E s \in Signals : Start(s) \/ AbortFires(s)

Spec == Init /\ [][Next]_vars

\* The server disconnects when it is asked to, or when doStart has failed.
StopRequired == Stop /\ (asked \/ pc = "failed")

\* Messages arrive, the engine answers, timers fire and the server does what it
\* is asked; nothing is assumed of the phone.
FairSpec ==
    /\ Spec
    /\ WF_vars(Receive)
    /\ WF_vars(Handshake)
    /\ WF_vars(OnPingTimeout)
    /\ WF_vars(StopRequired)
    /\ \A s \in Signals : WF_vars(AbortFires(s))

-----------------------------------------------------------------------------
(***************************************************************************)
(* Safety.                                                                 *)
(***************************************************************************)
\* A callback is registered exactly while doStart waits for its message, in the
\* session it is registered for, and can be aborted unless it is too late.
WaitsAreCurrent ==
    \A m \in Awaited :
        /\ callbacks[m] # "none" <=> pc = Waiting[m]
        /\ callbacks[m] # "none" =>
             /\ callbacks[m] = session
             /\ [signal |-> session, id |-> m] \in listeners

\* Nothing is encrypted before the handshake is complete: the service discovery,
\* the first encrypted exchange, comes after all the rounds of this session.
EncryptedAfterHandshake ==
    pc \in {"serviceDiscovery", "up"} => round = Rounds

\* The timer of a session that is over never touches the one that runs.
AbortHitsOwnSession ==
    [][\A s \in Signals : AbortFires(s) /\ s # session => UNCHANGED <<pc, callbacks>>]_vars

-----------------------------------------------------------------------------
(***************************************************************************)
(* Liveness.                                                               *)
(***************************************************************************)
\* The signal was aborted while doStart was not waiting for a message; nothing
\* will abort its next wait.
AbortLost == pc \in Busy /\ signal[session] = "aborted"

\* doStart settles whatever the phone does, unless its abort is lost.
SettlesUnlessAbortLost == pc \in Busy ~> pc \notin Busy \/ AbortLost

\* A phone that falls silent is noticed in every phase of the session.
SilentPhoneNoticed == pc # "off" /\ silent ~> pc = "off" \/ asked

=============================================================================
