----------------------- MODULE BluetoothDevice_proofs -----------------------
(***************************************************************************)
(* Proofs about a Bluetooth device, for any number of attempts and of      *)
(* calls that wait for the lock: its state keeps its types, the waits of   *)
(* the profile handler are the ones that somebody is in, the loss of a     *)
(* connected device is noticed, and so is the end of a wait for a message. *)
(***************************************************************************)
EXTENDS BluetoothDevice, TLAPS

Reasons == {"user", "self", "profile", "disconnect"}

CallsType == calls \in Seq(Reasons) /\ Len(calls) <= MaxCalls

DeviceType ==
    /\ state \in {"available", "self-connecting", "connecting", "connected",
                  "disconnecting"}
    /\ holder \in {"none", "user", "self", "disconnect"}
    /\ pc \in Awaits \cup {"idle"}
    /\ transport \in BOOLEAN

ProfileType ==
    /\ profile \in {"none", "open", "destroyed"}
    /\ connectionCallback \in BOOLEAN
    /\ disconnectionCallback \in Attempts \cup {"close", None}
    /\ guards \subseteq Attempts
    /\ current \in Attempts \cup {None}

WifiType ==
    /\ attempt \in [Attempts -> [phase : {"wifi", "tcp", "over"},
                                 doing : {"writing", "waiting", "responding",
                                          "nothing"}]]
    /\ messageCallbacks \in [MessageTypes -> Attempts \cup {None}]
    /\ listeners \subseteq Attempts \X MessageTypes

Types == CallsType /\ DeviceType /\ ProfileType /\ WifiType

-----------------------------------------------------------------------------
(***************************************************************************)
(* What the actions are made of.                                           *)
(***************************************************************************)
LEMMA CallType ==
    ASSUME CallsType, NEW c \in Reasons, Call(c)
    PROVE  CallsType'
BY BluetoothAssumption DEF CallsType, Call

LEMMA GrantedType ==
    ASSUME CallsType, NEW c \in Reasons, Granted(c)
    PROVE  CallsType'
BY BluetoothAssumption DEF CallsType, Granted

LEMMA CloseProfileType ==
    ASSUME NEW socket \in {"none", "open", "destroyed"},
           NEW callback \in Attempts \cup {"close", None},
           CloseProfile(socket, callback)
    PROVE  /\ profile' \in {"none", "open", "destroyed"}
           /\ disconnectionCallback' \in Attempts \cup {"close", None}
           /\ pc' \in Awaits
BY DEF CloseProfile, Awaits

LEMMA RejectType ==
    ASSUME ProfileType, pc \in Awaits \cup {"idle"}, NEW a \in Attempts, Reject(a)
    PROVE  ProfileType' /\ pc' \in Awaits \cup {"idle"}
<1>1. ClearedBy({a}) \in Attempts \cup {"close", None}
  BY DEF ClearedBy, ProfileType
<1>2. CASE current = a
  BY <1>1, <1>2, CloseProfileType DEF Reject, ProfileType
<1>3. CASE current # a
  BY <1>1, <1>3 DEF Reject, ProfileType
<1>4. QED
  BY <1>2, <1>3

LEMMA StartAttemptType ==
    ASSUME ProfileType, WifiType, NEW a \in Attempts,
           NEW socket \in {"none", "open", "destroyed"}, StartAttempt(a, socket),
           connectionCallback' \in BOOLEAN
    PROVE  ProfileType' /\ WifiType' /\ pc' \in Awaits
<1>1. CASE messageCallbacks["connectStatus"] # None
  BY <1>1, CloseProfileType DEF StartAttempt, ProfileType, WifiType
<1>2. CASE messageCallbacks["connectStatus"] = None
  BY <1>2 DEF StartAttempt, ProfileType, WifiType, MessageTypes, Awaits
<1>3. QED
  BY <1>1, <1>2

LEMMA BeginDisconnectType ==
    ASSUME DeviceType, ProfileType, WifiType,
           NEW h \in {"user", "disconnect"}, NEW ended \in BOOLEAN,
           BeginDisconnect(h, ended)
    PROVE  DeviceType' /\ ProfileType' /\ WifiType'
<1>1. CASE ended
  BY <1>1 DEF BeginDisconnect, wifiVars, DeviceType, ProfileType, WifiType, Awaits
<1>2. CASE ~ended
  BY <1>2, CloseProfileType
  DEF BeginDisconnect, wifiVars, DeviceType, ProfileType, WifiType
<1>3. QED
  BY <1>1, <1>2

LEMMA ClearType ==
    ASSUME WifiType, NEW a \in Attempts, ClearAndAbort(a)
    PROVE  /\ messageCallbacks' \in [MessageTypes -> Attempts \cup {None}]
           /\ listeners' \subseteq Attempts \X MessageTypes
BY DEF WifiType, ClearAndAbort

LEMMA DoingType ==
    ASSUME WifiType, NEW a \in Attempts
    PROVE  Doing(a) \in {"writing", "responding", "nothing"}
BY DEF WifiType, Doing

LEMMA WifiFailsType ==
    ASSUME ProfileType, WifiType, pc \in Awaits \cup {"idle"},
           NEW a \in Attempts, NEW next \in {"writing", "responding", "nothing"},
           WifiFails(a, next)
    PROVE  ProfileType' /\ WifiType' /\ pc' \in Awaits \cup {"idle"}
BY RejectType, ClearType DEF WifiFails, WifiType

LEMMA AwaitProfileType ==
    ASSUME ProfileType, WifiType, NEW a \in Attempts, AwaitProfile(a)
    PROVE  ProfileType' /\ WifiType' /\ pc' \in Awaits
<1>1. CASE profile # "none" /\ StartAttempt(a, profile) /\ UNCHANGED connectionCallback
  BY <1>1, StartAttemptType DEF ProfileType
<1>2. CASE ~(profile # "none" /\ StartAttempt(a, profile) /\ UNCHANGED connectionCallback)
  BY <1>2 DEF AwaitProfile, ProfileType, WifiType, Awaits, wifiVars
<1>3. QED
  BY <1>1, <1>2

-----------------------------------------------------------------------------
LEMMA TypeInit == Init => Types
<1> SUFFICES ASSUME Init PROVE Types
  OBVIOUS
<1>1. CallsType
  BY BluetoothAssumption DEF Init, CallsType
<1>2. DeviceType /\ ProfileType
  BY DEF Init, DeviceType, ProfileType, Awaits
<1>3. WifiType
  BY DEF Init, WifiType, Over
<1>4. QED
  BY <1>1, <1>2, <1>3 DEF Types

LEMMA EnvironmentType == ASSUME Types, Environment PROVE Types'
<1> USE DEF Types
<1>1. CASE UserConnects \/ Disconnects
  BY <1>1, CallType
  DEF UserConnects, Disconnects, profileVars, wifiVars, Reasons, DeviceType, ProfileType,
      WifiType
<1>2. CASE TransportEnds
  BY <1>2, CallType
  DEF TransportEnds, profileVars, wifiVars, Reasons, DeviceType, ProfileType, WifiType
<1>3. CASE ProfileUnexpected
  <2>1. CallsType'
    BY <1>3, CallType DEF ProfileUnexpected, Reasons, CallsType
  <2>2. QED
    BY <1>3, <2>1
    DEF ProfileUnexpected, wifiVars, DeviceType, ProfileType, WifiType
<1>4. ASSUME NEW a \in Attempts, ProfileExpected(a) PROVE Types'
  BY <1>4, StartAttemptType
  DEF ProfileExpected, DeviceType, CallsType
<1>5. CASE TcpConnected
  <2>1. WifiType'
    BY <1>5 DEF TcpConnected, WifiType, Listening
  <2>2. DeviceType'
    BY <1>5 DEF TcpConnected, DeviceType, Awaits
  <2>3. ProfileType'
    BY <1>5 DEF TcpConnected, ProfileType, ClearedBy
  <2>4. QED
    BY <1>5, <2>1, <2>2, <2>3 DEF TcpConnected, CallsType
<1>6. ASSUME NEW a \in Attempts, OnNetworkInfoRequest(a) PROVE Types'
  BY <1>6, ZenonT(30)
  DEF OnNetworkInfoRequest, profileVars, CallsType, DeviceType, ProfileType, WifiType
<1>7. ASSUME NEW a \in Attempts, OnConnectStatus(a) PROVE Types'
  <2>1. WifiType'
    BY <1>7, ClearType, DoingType DEF OnConnectStatus, WifiType
  <2>2. QED
    BY <1>7, <2>1 DEF OnConnectStatus, profileVars, CallsType, DeviceType, ProfileType
<1>8. ASSUME NEW a \in Attempts, OnConnectStatusBad(a) PROVE Types'
  BY <1>8, WifiFailsType, DoingType DEF OnConnectStatusBad, CallsType, DeviceType
<1>9. QED
  BY <1>1, <1>2, <1>3, <1>4, <1>5, <1>6, <1>7, <1>8 DEF Environment

LEMMA ServeType == ASSUME Types, Serve PROVE Types'
<1> USE DEF Types
<1>1. CASE Disconnect
  <2>1. PICK reason \in {"profile", "disconnect"} :
          /\ Granted(reason)
          /\ \/ BeginDisconnect("disconnect", reason = "profile")
             \/ Refused
    BY <1>1 DEF Disconnect
  <2>2. CallsType'
    BY <2>1, GrantedType DEF Reasons
  <2>3. CASE Refused
    BY <2>2, <2>3
    DEF Refused, profileVars, wifiVars, DeviceType, ProfileType, WifiType
  <2>4. CASE BeginDisconnect("disconnect", reason = "profile")
    BY <2>2, <2>4, BeginDisconnectType
  <2>5. QED
    BY <2>1, <2>3, <2>4
<1>2. CASE UserConnect
  <2>1. CallsType'
    BY <1>2, GrantedType DEF UserConnect, Reasons
  <2>2. CASE state = "connected"
    BY <1>2, <2>1, <2>2, BeginDisconnectType DEF UserConnect
  <2>3. CASE state # "connected"
    BY <1>2, <2>1, <2>3
    DEF UserConnect, profileVars, wifiVars, DeviceType, ProfileType, WifiType, Awaits
  <2>4. QED
    BY <2>2, <2>3
<1>3. CASE RefuseSelfConnect
  <2>1. CallsType'
    BY <1>3, GrantedType DEF RefuseSelfConnect, Reasons
  <2>2. CASE BeginDisconnect("disconnect", FALSE)
    BY <2>1, <2>2, BeginDisconnectType
  <2>3. CASE Refused
    BY <2>1, <2>3
    DEF Refused, profileVars, wifiVars, DeviceType, ProfileType, WifiType
  <2>4. QED
    BY <1>3, <2>2, <2>3 DEF RefuseSelfConnect
<1>4. ASSUME NEW a \in Attempts, SelfConnect(a) PROVE Types'
  <2>1. CallsType'
    BY <1>4, GrantedType DEF SelfConnect, Reasons
  <2>2. QED
    BY <1>4, <2>1, AwaitProfileType DEF SelfConnect, DeviceType
<1>5. QED
  BY <1>1, <1>2, <1>3, <1>4 DEF Serve

LEMMA SettleType == ASSUME Types, Settle PROVE Types'
<1> USE DEF Types
<1>1. CASE PairingFails \/ ProfileTimeout \/ Parted \/ Started
  <2>1. CallsType' /\ WifiType'
    BY <1>1 DEF PairingFails, ProfileTimeout, Parted, Started, wifiVars, CallsType, WifiType
  <2>2. DeviceType' /\ ProfileType'
    BY <1>1
    DEF PairingFails, ProfileTimeout, Parted, Started, Idle, profileVars, DeviceType,
        ProfileType, Awaits
  <2>3. QED
    BY <2>1, <2>2
<1>2. CASE StartFails
  BY <1>2, BeginDisconnectType DEF StartFails, CallsType
<1>3. ASSUME NEW a \in Attempts, Paired(a) PROVE Types'
  BY <1>3, AwaitProfileType DEF Paired, DeviceType, CallsType
<1>4. QED
  BY <1>1, <1>2, <1>3 DEF Settle

LEMMA AttemptType ==
    ASSUME Types, NEW a \in Attempts, AttemptEnds(a) \/ WriteEnds(a)
    PROVE  Types'
<1> USE DEF Types
<1>1. CASE WifiTimeout(a)
  BY <1>1, WifiFailsType, DoingType DEF WifiTimeout, CallsType, DeviceType
<1>2. CASE TcpTimeout(a)
  <2>1. ProfileType' /\ pc' \in Awaits \cup {"idle"}
    BY <1>2, RejectType DEF TcpTimeout, DeviceType
  <2>2. WifiType'
    BY <1>2 DEF TcpTimeout, WifiType
  <2>3. QED
    BY <1>2, <2>1, <2>2 DEF TcpTimeout, CallsType, DeviceType
<1>3. CASE WifiFails(a, "nothing") /\ UNCHANGED <<state, calls, holder, transport>>
  BY <1>3, WifiFailsType DEF CallsType, DeviceType
<1>4. CASE WriteFails(a) \/ ResponseWritten(a)
  <2>1. CASE /\ attempt' = [attempt EXCEPT ![a].doing = "nothing"]
             /\ UNCHANGED <<state, calls, holder, pc, profileVars, current,
                            messageCallbacks, listeners, transport>>
    BY <2>1 DEF profileVars, CallsType, DeviceType, ProfileType, WifiType
  <2>2. QED
    BY <1>3, <1>4, <2>1 DEF WriteFails, ResponseWritten, profileVars
<1>5. CASE RequestWritten(a)
  <2>1. CASE WifiFails(a, "nothing")
    BY <1>3, <1>5, <2>1 DEF RequestWritten
  <2>2. CASE ~WifiFails(a, "nothing")
    <3>1. UNCHANGED <<state, calls, holder, pc, profileVars, current, transport>>
      BY <1>5, <2>2 DEF RequestWritten
    <3>2. WifiType'
      BY <1>5, <2>2 DEF RequestWritten, WifiType, MessageTypes
    <3>3. QED
      BY <3>1, <3>2 DEF profileVars, CallsType, DeviceType, ProfileType
  <2>3. QED
    BY <2>1, <2>2
<1>6. QED
  BY <1>1, <1>2, <1>4, <1>5 DEF AttemptEnds, WriteEnds

LEMMA TypeNext == Types /\ [Next]_vars => Types'
<1> SUFFICES ASSUME Types, [Next]_vars PROVE Types'
  OBVIOUS
<1> USE DEF Types
<1>1. CASE ProfileCloses
  <2>1. CallsType'
    BY <1>1, CallType DEF ProfileCloses, Reasons, CallsType
  <2>2. QED
    BY <1>1, <2>1
    DEF ProfileCloses, wifiVars, DeviceType, ProfileType, WifiType, Awaits
<1>2. CASE UNCHANGED vars
  BY <1>2
  DEF vars, profileVars, wifiVars, CallsType, DeviceType, ProfileType, WifiType
<1>3. QED
  BY <1>1, <1>2, EnvironmentType, ServeType, SettleType, AttemptType DEF Next

-----------------------------------------------------------------------------
(***************************************************************************)
(* The waits of the profile handler.  An attempt that has been left behind *)
(* or is over has no listener that could still clear a wait.               *)
(***************************************************************************)
GuardedByCurrent == guards = IF current = None THEN {} ELSE {current}

WaitInv == GuardedByCurrent /\ WaitsAreAwaited

\* All that takes part in it.
waitVars == <<pc, connectionCallback, disconnectionCallback, guards, current>>

LEMMA WaitInvStutters == WaitInv /\ UNCHANGED waitVars => WaitInv'
BY DEF WaitInv, GuardedByCurrent, WaitsAreAwaited, waitVars

\* profileHandler.disconnect, when no wait is registered.
LEMMA CloseProfileWaits ==
    ASSUME NEW socket, CloseProfile(socket, None), ~connectionCallback',
           guards' = {}, current' = None
    PROVE  WaitInv'
BY BluetoothAssumption DEF CloseProfile, WaitInv, GuardedByCurrent, WaitsAreAwaited

\* Only the attempt connectImpl awaits has a wait to give up.
LEMMA RejectWaits ==
    ASSUME WaitInv, Types, NEW a \in Attempts, Reject(a)
    PROVE  WaitInv'
<1>1. CASE current = a
  <2>1. guards = {a} /\ pc = "linking" /\ ~connectionCallback
    BY <1>1, BluetoothAssumption DEF WaitInv, GuardedByCurrent, WaitsAreAwaited
  <2>2. ClearedBy({a}) = None /\ guards' = {} /\ current' = None
    BY <1>1, <2>1 DEF Reject, ClearedBy
  <2>3. CloseProfile(profile, None) /\ ~connectionCallback'
    BY <1>1, <2>1, <2>2 DEF Reject
  <2>4. QED
    BY <2>2, <2>3, CloseProfileWaits
<1>2. CASE current # a
  <2>1. guards \cap {a} = {}
    BY <1>2 DEF WaitInv, GuardedByCurrent
  <2>2. UNCHANGED waitVars
    BY <1>2, <2>1 DEF Reject, ClearedBy, waitVars
  <2>3. QED
    BY <2>2, WaitInvStutters
<1>3. QED
  BY <1>1, <1>2

\* An attempt begins when connectImpl is in no wait but that for its socket.
LEMMA StartAttemptWaits ==
    ASSUME WaitInv, NEW a \in Attempts, NEW socket, StartAttempt(a, socket),
           pc \in {"idle", "pairing", "profile"}, ~connectionCallback'
    PROVE  WaitInv'
<1>1. disconnectionCallback = None /\ current = None /\ guards = {}
  BY DEF WaitInv, GuardedByCurrent, WaitsAreAwaited
<1>2. CASE messageCallbacks["connectStatus"] # None
  BY <1>1, <1>2, CloseProfileWaits DEF StartAttempt
<1>3. CASE messageCallbacks["connectStatus"] = None
  BY <1>1, <1>3, BluetoothAssumption
  DEF StartAttempt, WaitInv, GuardedByCurrent, WaitsAreAwaited
<1>4. QED
  BY <1>2, <1>3

LEMMA AwaitProfileWaits ==
    ASSUME WaitInv, NEW a \in Attempts, AwaitProfile(a), pc \in {"idle", "pairing"}
    PROVE  WaitInv'
<1>1. ~connectionCallback
  BY DEF WaitInv, WaitsAreAwaited
<1>2. CASE StartAttempt(a, profile) /\ UNCHANGED connectionCallback
  BY <1>1, <1>2, StartAttemptWaits
<1>3. CASE /\ connectionCallback' = TRUE
           /\ pc' = "profile"
           /\ UNCHANGED <<disconnectionCallback, guards, current>>
  BY <1>3 DEF WaitInv, GuardedByCurrent, WaitsAreAwaited
<1>4. QED
  BY <1>2, <1>3 DEF AwaitProfile

LEMMA BeginDisconnectWaits ==
    ASSUME WaitInv, NEW h, NEW ended \in BOOLEAN, BeginDisconnect(h, ended),
           pc \in {"idle", "starting"}
    PROVE  WaitInv'
<1>1. /\ disconnectionCallback = None /\ current = None /\ guards = {}
      /\ ~connectionCallback
  BY DEF WaitInv, GuardedByCurrent, WaitsAreAwaited
<1>2. UNCHANGED <<connectionCallback, guards, current>>
  BY DEF BeginDisconnect
<1>3. CASE pc' = "parting" /\ UNCHANGED disconnectionCallback
  BY <1>1, <1>2, <1>3 DEF WaitInv, GuardedByCurrent, WaitsAreAwaited
<1>4. CASE CloseProfile(profile, disconnectionCallback)
  BY <1>1, <1>2, <1>4, CloseProfileWaits
<1>5. QED
  BY <1>3, <1>4 DEF BeginDisconnect

-----------------------------------------------------------------------------
LEMMA WaitInvInit == Init => WaitInv
BY DEF Init, WaitInv, GuardedByCurrent, WaitsAreAwaited

LEMMA EnvironmentWaits == ASSUME Types, WaitInv, Environment PROVE WaitInv'
<1>1. CASE \/ UserConnects \/ Disconnects \/ TransportEnds \/ ProfileUnexpected
           \/ \E a \in Attempts : OnNetworkInfoRequest(a) \/ OnConnectStatus(a)
  <2>1. UNCHANGED waitVars
    BY <1>1
    DEF UserConnects, Disconnects, TransportEnds, ProfileUnexpected,
        OnNetworkInfoRequest, OnConnectStatus, profileVars, waitVars
  <2>2. QED
    BY <2>1, WaitInvStutters
<1>2. ASSUME NEW a \in Attempts, ProfileExpected(a) PROVE WaitInv'
  <2>1. pc = "profile" /\ ~connectionCallback'
    BY <1>2 DEF ProfileExpected, WaitInv, WaitsAreAwaited
  <2>2. QED
    BY <1>2, <2>1, StartAttemptWaits DEF ProfileExpected
<1>3. CASE TcpConnected
  <2>1. CASE current \in Listening
    <3>1. current \in Attempts /\ guards = {current} /\ pc = "linking"
      BY <2>1, BluetoothAssumption
      DEF Listening, WaitInv, GuardedByCurrent, WaitsAreAwaited
    <3>2. disconnectionCallback' = None /\ guards' = {}
      BY <1>3, <2>1, <3>1 DEF TcpConnected, ClearedBy
    <3>3. pc' = "starting" /\ current' = None /\ UNCHANGED connectionCallback
      BY <1>3, <2>1 DEF TcpConnected
    <3>4. QED
      BY <3>1, <3>2, <3>3 DEF WaitInv, GuardedByCurrent, WaitsAreAwaited
  <2>2. CASE current \notin Listening
    <3>1. guards \cap Listening = {}
      BY <2>2 DEF WaitInv, GuardedByCurrent
    <3>2. UNCHANGED waitVars
      BY <1>3, <2>2, <3>1 DEF TcpConnected, ClearedBy, waitVars
    <3>3. QED
      BY <3>2, WaitInvStutters
  <2>3. QED
    BY <2>1, <2>2
<1>4. ASSUME NEW a \in Attempts, OnConnectStatusBad(a) PROVE WaitInv'
  BY <1>4, RejectWaits DEF OnConnectStatusBad, WifiFails
<1>5. QED
  BY <1>1, <1>2, <1>3, <1>4 DEF Environment

LEMMA ServeWaits == ASSUME WaitInv, Serve PROVE WaitInv'
<1>1. pc = "idle"
  BY DEF Serve, Disconnect, UserConnect, RefuseSelfConnect, SelfConnect, Granted
<1>2. ASSUME NEW h, NEW ended \in BOOLEAN, BeginDisconnect(h, ended)
      PROVE  WaitInv'
  BY <1>1, <1>2, BeginDisconnectWaits
<1>3. CASE \E a \in Attempts : AwaitProfile(a)
  BY <1>1, <1>3, AwaitProfileWaits
<1>4. CASE pc' = "pairing" /\ UNCHANGED <<profileVars, current>>
  BY <1>1, <1>4
  DEF profileVars, WaitInv, GuardedByCurrent, WaitsAreAwaited
<1>5. CASE Refused
  BY <1>5, WaitInvStutters DEF Refused, profileVars, waitVars
<1>6. CASE Disconnect
  <2>1. PICK reason \in {"profile", "disconnect"} :
          BeginDisconnect("disconnect", reason = "profile") \/ Refused
    BY <1>6 DEF Disconnect
  <2>2. QED
    BY <1>2, <1>5, <2>1, Zenon
<1>7. CASE UserConnect
  <2>1. \/ BeginDisconnect("user", FALSE)
        \/ pc' = "pairing" /\ UNCHANGED <<profileVars, current>>
    BY <1>7 DEF UserConnect
  <2>2. QED
    BY <1>2, <1>4, <2>1
<1>8. CASE RefuseSelfConnect
  <2>1. BeginDisconnect("disconnect", FALSE) \/ Refused
    BY <1>8 DEF RefuseSelfConnect
  <2>2. QED
    BY <1>2, <1>5, <2>1, Zenon
<1>9. QED
  BY <1>3, <1>6, <1>7, <1>8 DEF Serve, SelfConnect

LEMMA SettleWaits == ASSUME WaitInv, Settle PROVE WaitInv'
<1>1. CASE PairingFails \/ Parted \/ Started
  <2>1. /\ pc \in {"pairing", "parting", "starting"} /\ pc' \in {"pairing", "idle"}
        /\ UNCHANGED <<connectionCallback, disconnectionCallback, guards, current>>
    BY <1>1 DEF PairingFails, Parted, Started, Idle, profileVars
  <2>2. QED
    BY <2>1 DEF WaitInv, GuardedByCurrent, WaitsAreAwaited
<1>2. CASE ProfileTimeout
  BY <1>2 DEF ProfileTimeout, WaitInv, GuardedByCurrent, WaitsAreAwaited
<1>3. CASE StartFails
  BY <1>3, BeginDisconnectWaits DEF StartFails
<1>4. ASSUME NEW a \in Attempts, Paired(a) PROVE WaitInv'
  BY <1>4, AwaitProfileWaits DEF Paired
<1>5. QED
  BY <1>1, <1>2, <1>3, <1>4 DEF Settle

LEMMA AttemptWaits ==
    ASSUME Types, WaitInv, NEW a \in Attempts, AttemptEnds(a) \/ WriteEnds(a)
    PROVE  WaitInv'
<1>1. CASE Reject(a)
  BY <1>1, RejectWaits
<1>2. CASE UNCHANGED waitVars
  BY <1>2, WaitInvStutters
<1>3. QED
  BY <1>1, <1>2
  DEF AttemptEnds, WriteEnds, WifiTimeout, TcpTimeout, RequestWritten, ResponseWritten,
      WriteFails, WifiFails, profileVars, waitVars

LEMMA WaitInvNext == Types /\ WaitInv /\ [Next]_vars => WaitInv'
<1> SUFFICES ASSUME Types, WaitInv, [Next]_vars PROVE WaitInv'
  OBVIOUS
<1>1. CASE ProfileCloses
  <2>1. CASE disconnectionCallback = None
    <3>1. guards \ {disconnectionCallback} = guards
      BY <2>1, BluetoothAssumption DEF Types, ProfileType
    <3>2. UNCHANGED waitVars
      BY <1>1, <2>1, <3>1 DEF ProfileCloses, waitVars
    <3>3. QED
      BY <3>2, WaitInvStutters
  <2>2. CASE disconnectionCallback # None
    <3>1. pc \in {"closing", "linking"} /\ ~connectionCallback
      BY <2>2 DEF WaitInv, WaitsAreAwaited
    <3>2. guards' = {} /\ current' = None /\ disconnectionCallback' = None
      BY <1>1, <2>2, <3>1, BluetoothAssumption
      DEF ProfileCloses, WaitInv, GuardedByCurrent, WaitsAreAwaited
    <3>3. pc' = "parting" /\ UNCHANGED connectionCallback
      BY <1>1, <2>2 DEF ProfileCloses
    <3>4. QED
      BY <3>1, <3>2, <3>3 DEF WaitInv, GuardedByCurrent, WaitsAreAwaited
  <2>3. QED
    BY <2>1, <2>2
<1>2. CASE UNCHANGED vars
  BY <1>2, WaitInvStutters DEF vars, profileVars, waitVars
<1>3. QED
  BY <1>1, <1>2, EnvironmentWaits, ServeWaits, SettleWaits, AttemptWaits DEF Next

\* Whatever phone, BlueZ and users do, the state of a Bluetooth device is of the
\* types the model gives it, and no more calls wait than are let.
THEOREM TypeCorrect == Spec => []TypeOK
<1>1. Types => TypeOK
  BY DEF Types, TypeOK, CallsType, Reasons, DeviceType, ProfileType, WifiType
<1>2. QED
  BY <1>1, TypeInit, TypeNext, PTL DEF Spec

\* BluetoothProfileHandler has one callback for a socket and one for the end of
\* a socket.  However attempts are left behind, fail late or are aborted, each
\* is registered exactly while the holder of the lock is in the wait it is for.
THEOREM WaitsStayAwaited == Spec => []WaitsAreAwaited
<1>1. WaitInv => WaitsAreAwaited
  BY DEF WaitInv
<1>2. QED
  BY <1>1, TypeInit, TypeNext, WaitInvInit, WaitInvNext, PTL DEF Spec

-----------------------------------------------------------------------------
(***************************************************************************)
(* Loss of the profile or of the transport.  A connected device is not in  *)
(* a wait of connectImpl, and the attempt that is awaited has its socket.  *)
(***************************************************************************)
LossInv ==
    /\ state = "connected" => pc \in {"idle", "starting"}
    /\ pc = "linking" => profile # "none"
    /\ LossIsNoticed

lossVars == <<state, calls, pc, profile, transport>>

LEMMA LossStutters == LossInv /\ UNCHANGED lossVars => LossInv'
BY DEF LossInv, LossIsNoticed, Asked, lossVars

\* A step to another state than connected.
LEMMA NotConnected ==
    ASSUME state' # "connected", pc' = "linking" => profile' # "none"
    PROVE  LossInv'
BY DEF LossInv, LossIsNoticed

\* One more call is on its way, and those before it still are.
LEMMA CallAsked ==
    ASSUME CallsType, NEW c \in Reasons, Call(c), NEW R
    PROVE  /\ Asked(R) => Asked(R)'
           /\ c \in R => Asked(R)'
<1>1. calls \in Seq(Reasons) /\ calls' = Append(calls, c)
  BY DEF CallsType, Call
<1>2. /\ Len(calls) \in Nat /\ Len(calls') = Len(calls) + 1
      /\ \A i \in 1 .. Len(calls) : calls'[i] = calls[i]
      /\ calls'[Len(calls) + 1] = c
  BY <1>1
<1>3. Len(calls) + 1 \in 1 .. Len(calls') /\ \A i \in 1 .. Len(calls) : i \in 1 .. Len(calls')
  BY <1>2
<1>4. QED
  BY <1>2, <1>3 DEF Asked

LEMMA CallLoss ==
    ASSUME CallsType, LossInv, NEW c \in Reasons, Call(c),
           UNCHANGED <<pc, profile, transport>>, state' = "connected" => state = "connected"
    PROVE  LossInv'
<1>1. /\ Asked({"disconnect"}) => Asked({"disconnect"})'
      /\ Asked({"profile", "disconnect"}) => Asked({"profile", "disconnect"})'
  BY CallAsked
<1>2. QED
  BY <1>1 DEF LossInv, LossIsNoticed

LEMMA CloseProfileLoss ==
    ASSUME NEW socket, NEW callback, CloseProfile(socket, callback), state' # "connected"
    PROVE  LossInv'
BY NotConnected DEF CloseProfile

LEMMA StartAttemptLoss ==
    ASSUME NEW a \in Attempts, NEW socket, socket # "none", StartAttempt(a, socket),
           state' # "connected"
    PROVE  LossInv'
BY NotConnected, CloseProfileLoss DEF StartAttempt

LEMMA RejectLoss ==
    ASSUME LossInv, WaitInv, NEW a \in Attempts, Reject(a), UNCHANGED <<state, calls, transport>>
    PROVE  LossInv'
<1>1. CASE current = a
  <2>1. pc = "linking"
    BY <1>1, BluetoothAssumption DEF WaitInv, WaitsAreAwaited
  <2>2. state' # "connected"
    BY <2>1 DEF LossInv
  <2>3. QED
    BY <1>1, <2>2, CloseProfileLoss DEF Reject
<1>2. CASE current # a
  BY <1>2, LossStutters DEF Reject, lossVars
<1>3. QED
  BY <1>1, <1>2

LEMMA AwaitProfileLoss ==
    ASSUME NEW a \in Attempts, AwaitProfile(a), state' # "connected"
    PROVE  LossInv'
BY StartAttemptLoss, NotConnected DEF AwaitProfile

LEMMA BeginDisconnectLoss ==
    ASSUME NEW h, NEW ended \in BOOLEAN, BeginDisconnect(h, ended)
    PROVE  LossInv'
<1>1. state' = "disconnecting"
  BY DEF BeginDisconnect
<1>2. CASE pc' = "parting"
  BY <1>1, <1>2, NotConnected
<1>3. CASE CloseProfile(profile, disconnectionCallback)
  BY <1>1, <1>3, CloseProfileLoss
<1>4. QED
  BY <1>2, <1>3 DEF BeginDisconnect

LEMMA EnvironmentLoss == ASSUME Types, WaitInv, LossInv, Environment PROVE LossInv'
<1>1. CASE UserConnects \/ Disconnects
  BY <1>1, CallLoss DEF UserConnects, Disconnects, profileVars, Reasons, Types
<1>2. CASE TransportEnds
  <2>1. Call("disconnect") /\ UNCHANGED <<state, pc, profile>> /\ CallsType
    BY <1>2 DEF TransportEnds, profileVars, Types
  <2>2. Asked({"disconnect"})' /\ Asked({"profile", "disconnect"})'
    BY <2>1, CallAsked DEF Reasons
  <2>3. QED
    BY <2>1, <2>2 DEF LossInv, LossIsNoticed
<1>3. CASE ProfileUnexpected
  <2>1. profile' = "open" /\ UNCHANGED <<pc, transport>>
    BY <1>3 DEF ProfileUnexpected
  <2>2. CASE state = "available"
    BY <1>3, <2>1, <2>2, NotConnected DEF ProfileUnexpected
  <2>3. CASE state # "available"
    BY <1>3, <2>1, <2>3 DEF ProfileUnexpected, LossInv, LossIsNoticed, Asked
  <2>4. QED
    BY <2>2, <2>3
<1>4. ASSUME NEW a \in Attempts, ProfileExpected(a) PROVE LossInv'
  <2>1. state' # "connected"
    BY <1>4 DEF ProfileExpected, WaitInv, WaitsAreAwaited, LossInv
  <2>2. QED
    BY <1>4, <2>1, StartAttemptLoss DEF ProfileExpected
<1>5. CASE TcpConnected
  <2>1. CASE current \in Listening
    <3>1. pc = "linking"
      BY <2>1, BluetoothAssumption DEF Listening, WaitInv, WaitsAreAwaited
    <3>2. profile' # "none" /\ transport' = TRUE /\ pc' = "starting"
      BY <1>5, <2>1, <3>1 DEF TcpConnected, LossInv
    <3>3. QED
      BY <3>2 DEF LossInv, LossIsNoticed
  <2>2. CASE current \notin Listening
    BY <1>5, <2>2, LossStutters DEF TcpConnected, lossVars
  <2>3. QED
    BY <2>1, <2>2
<1>6. ASSUME NEW a \in Attempts, OnNetworkInfoRequest(a) \/ OnConnectStatus(a)
      PROVE  LossInv'
  BY <1>6, LossStutters DEF OnNetworkInfoRequest, OnConnectStatus, profileVars, lossVars
<1>7. ASSUME NEW a \in Attempts, OnConnectStatusBad(a) PROVE LossInv'
  BY <1>7, RejectLoss DEF OnConnectStatusBad, WifiFails
<1>8. QED
  BY <1>1, <1>2, <1>3, <1>4, <1>5, <1>6, <1>7 DEF Environment

LEMMA ServeLoss == ASSUME LossInv, Serve PROVE LossInv'
<1>1. ASSUME NEW c, Granted(c), Refused, state # "connected" PROVE LossInv'
  BY <1>1, NotConnected DEF Refused, profileVars, LossInv
<1>2. CASE Disconnect
  <2>1. PICK reason \in {"profile", "disconnect"} :
          /\ Granted(reason)
          /\ \/ BeginDisconnect("disconnect", reason = "profile")
             \/ Refused /\ state # "connected"
    BY <1>2 DEF Disconnect
  <2>2. CASE BeginDisconnect("disconnect", reason = "profile")
    BY <2>2, BeginDisconnectLoss
  <2>3. QED
    BY <1>1, <2>1, <2>2
<1>3. CASE UserConnect
  <2>1. \/ BeginDisconnect("user", FALSE)
        \/ state' = "connecting" /\ pc' = "pairing"
    BY <1>3 DEF UserConnect
  <2>2. QED
    BY <2>1, BeginDisconnectLoss, NotConnected
<1>4. CASE RefuseSelfConnect
  <2>1. \/ BeginDisconnect("disconnect", FALSE)
        \/ Granted("self") /\ Refused /\ state # "connected"
    BY <1>4 DEF RefuseSelfConnect
  <2>2. CASE BeginDisconnect("disconnect", FALSE)
    BY <2>2, BeginDisconnectLoss
  <2>3. QED
    BY <1>1, <2>1, <2>2
<1>5. ASSUME NEW a \in Attempts, SelfConnect(a) PROVE LossInv'
  BY <1>5, AwaitProfileLoss DEF SelfConnect
<1>6. QED
  BY <1>2, <1>3, <1>4, <1>5 DEF Serve

LEMMA SettleLoss == ASSUME LossInv, Settle PROVE LossInv'
<1>1. CASE PairingFails \/ Parted
  BY <1>1, NotConnected DEF PairingFails, Parted, Idle
<1>2. CASE ProfileTimeout
  <2>1. state' # "connected" /\ pc' = "parting"
    BY <1>2 DEF ProfileTimeout, LossInv
  <2>2. QED
    BY <2>1, NotConnected
<1>3. CASE Started
  BY <1>3 DEF Started, Idle, profileVars, LossInv, LossIsNoticed, Asked
<1>4. CASE StartFails
  BY <1>4, BeginDisconnectLoss DEF StartFails
<1>5. ASSUME NEW a \in Attempts, Paired(a) PROVE LossInv'
  <2>1. state' # "connected"
    BY <1>5 DEF Paired, LossInv
  <2>2. QED
    BY <1>5, <2>1, AwaitProfileLoss DEF Paired
<1>6. QED
  BY <1>1, <1>2, <1>3, <1>4, <1>5 DEF Settle

LEMMA AttemptLoss ==
    ASSUME WaitInv, LossInv, NEW a \in Attempts, AttemptEnds(a) \/ WriteEnds(a)
    PROVE  LossInv'
<1>1. UNCHANGED <<state, calls, transport>>
  BY DEF AttemptEnds, WriteEnds, WifiTimeout, TcpTimeout, RequestWritten,
         ResponseWritten, WriteFails
<1>2. Reject(a) \/ UNCHANGED lossVars
  BY <1>1 DEF AttemptEnds, WriteEnds, WifiTimeout, TcpTimeout, RequestWritten,
              ResponseWritten, WriteFails, WifiFails, profileVars, lossVars
<1>3. QED
  BY <1>1, <1>2, RejectLoss, LossStutters

LEMMA LossNext == Types /\ WaitInv /\ LossInv /\ [Next]_vars => LossInv'
<1> SUFFICES ASSUME Types, WaitInv, LossInv, [Next]_vars PROVE LossInv'
  OBVIOUS
<1>1. CASE ProfileCloses
  <2>1. CASE disconnectionCallback = None
    <3>1. Call("profile") /\ CallsType /\ UNCHANGED <<state, pc, transport>>
      BY <1>1, <2>1 DEF ProfileCloses, Types
    <3>2. /\ Asked({"profile", "disconnect"})'
          /\ Asked({"disconnect"}) => Asked({"disconnect"})'
      BY <3>1, CallAsked DEF Reasons
    <3>3. pc # "linking"
      BY <2>1, BluetoothAssumption DEF WaitInv, WaitsAreAwaited
    <3>4. QED
      BY <3>1, <3>2, <3>3 DEF LossInv, LossIsNoticed
  <2>2. CASE disconnectionCallback # None
    <3>1. pc \in {"closing", "linking"}
      BY <2>2 DEF WaitInv, WaitsAreAwaited
    <3>2. state' # "connected" /\ pc' = "parting"
      BY <1>1, <2>2, <3>1 DEF ProfileCloses, LossInv
    <3>3. QED
      BY <3>2, NotConnected
  <2>3. QED
    BY <2>1, <2>2
<1>2. CASE UNCHANGED vars
  BY <1>2, LossStutters DEF vars, profileVars, lossVars
<1>3. QED
  BY <1>1, <1>2, EnvironmentLoss, ServeLoss, SettleLoss, AttemptLoss DEF Next

\* However phone and BlueZ interleave with connectImpl, a connected device whose
\* profile or transport is gone has a call on its way that disconnects it: the
\* wait that could swallow the loss is over by the time the device is connected.
THEOREM LossStaysNoticed == Spec => []LossIsNoticed
<1>1. Init => LossInv
  BY DEF Init, LossInv, LossIsNoticed
<1>2. LossInv => LossIsNoticed
  BY DEF LossInv
<1>3. QED
  BY <1>1, <1>2, TypeInit, TypeNext, WaitInvInit, WaitInvNext, LossNext, PTL DEF Spec

-----------------------------------------------------------------------------
(***************************************************************************)
(* Waits for a message, those of one attempt at a time.                    *)
(***************************************************************************)
Ending(a) == \A t \in MessageTypes : messageCallbacks[t] = a =>
    \/ attempt[a].phase = "wifi" /\ <<a, t>> \in listeners
    \/ /\ t = "networkInfoRequest"
       /\ attempt[a].phase # "wifi" /\ attempt[a].doing = "waiting"

LEMMA EndingStutters == MessageWaitsEnd /\ UNCHANGED wifiVars => MessageWaitsEnd'
BY DEF MessageWaitsEnd, wifiVars

\* What attempt a does to its own waits leaves those of another alone, and
\* nobody's callback becomes that of another.
LEMMA EndingOther ==
    ASSUME MessageWaitsEnd, NEW b \in Attempts, attempt'[b] = attempt[b],
           \A t \in MessageTypes : messageCallbacks'[t] = b => messageCallbacks[t] = b,
           \A t \in MessageTypes : <<b, t>> \in listeners => <<b, t>> \in listeners'
    PROVE  Ending(b)'
BY DEF MessageWaitsEnd, Ending

\* The abort of an attempt that awaits WiFi ends all its waits.
LEMMA ClearEnds ==
    ASSUME Types, MessageWaitsEnd, NEW a \in Attempts, attempt[a].phase = "wifi",
           ClearAndAbort(a), NEW x, attempt' = [attempt EXCEPT ![a] = x]
    PROVE  MessageWaitsEnd'
<1>1. \A t \in MessageTypes :
          messageCallbacks'[t] = IF <<a, t>> \in listeners THEN None ELSE messageCallbacks[t]
  BY DEF ClearAndAbort
<1>2. ASSUME NEW t \in MessageTypes PROVE messageCallbacks'[t] # a
  <2>1. <<a, t>> \notin listeners => messageCallbacks[t] # a
    BY DEF MessageWaitsEnd
  <2>2. a # None
    BY BluetoothAssumption
  <2>3. QED
    BY <1>1, <2>1, <2>2
<1>3. Ending(a)'
  BY <1>2 DEF Ending
<1>4. ASSUME NEW b \in Attempts, b # a PROVE Ending(b)'
  <2>1. attempt'[b] = attempt[b]
    BY <1>4
  <2>2. \A t \in MessageTypes : messageCallbacks'[t] = b => messageCallbacks[t] = b
    BY <1>1, BluetoothAssumption
  <2>3. \A t \in MessageTypes : <<b, t>> \in listeners => <<b, t>> \in listeners'
    BY <1>4 DEF ClearAndAbort
  <2>4. QED
    BY <2>1, <2>2, <2>3, EndingOther
<1>5. QED
  BY <1>3, <1>4 DEF MessageWaitsEnd, Ending

LEMMA StartAttemptEnds ==
    ASSUME Types, MessageWaitsEnd, NEW a \in Attempts, NEW socket, StartAttempt(a, socket)
    PROVE  MessageWaitsEnd'
<1>1. \A t \in MessageTypes : messageCallbacks[t] # a
  BY DEF StartAttempt, Free
<1>2. ASSUME NEW b \in Attempts, b # a PROVE Ending(b)'
  <2>1. /\ attempt'[b] = attempt[b]
        /\ \A t \in MessageTypes : messageCallbacks'[t] = b => messageCallbacks[t] = b
        /\ \A t \in MessageTypes : <<b, t>> \in listeners => <<b, t>> \in listeners'
    BY <1>2 DEF StartAttempt, Types, WifiType
  <2>2. QED
    BY <2>1, EndingOther
<1>3. Ending(a)'
  <2>1. CASE messageCallbacks["connectStatus"] # None
    BY <1>1, <2>1 DEF StartAttempt, Ending
  <2>2. CASE messageCallbacks["connectStatus"] = None
    <3>1. attempt'[a].phase = "wifi" /\ <<a, "connectStatus">> \in listeners'
      BY <2>2 DEF StartAttempt, Types, WifiType
    <3>2. \A t \in MessageTypes : messageCallbacks'[t] = a => t = "connectStatus"
      BY <1>1, <2>2 DEF StartAttempt, Types, WifiType
    <3>3. QED
      BY <3>1, <3>2 DEF Ending
  <2>3. QED
    BY <2>1, <2>2
<1>4. QED
  BY <1>2, <1>3 DEF MessageWaitsEnd, Ending

LEMMA AwaitProfileEnds ==
    ASSUME Types, MessageWaitsEnd, NEW a \in Attempts, AwaitProfile(a)
    PROVE  MessageWaitsEnd'
BY StartAttemptEnds, EndingStutters DEF AwaitProfile

\* Attempt a goes on, while it is not the one that waits.
LEMMA DoingEnds ==
    ASSUME Types, MessageWaitsEnd, NEW a \in Attempts,
           attempt[a].doing \in {"writing", "responding"},
           attempt' = [attempt EXCEPT ![a].doing = "nothing"],
           UNCHANGED <<messageCallbacks, listeners>>
    PROVE  MessageWaitsEnd'
<1>1. \A b \in Attempts : b # a => attempt'[b] = attempt[b]
  OBVIOUS
<1>2. attempt'[a].phase = attempt[a].phase
  BY DEF Types, WifiType
<1>3. QED
  BY <1>1, <1>2 DEF MessageWaitsEnd

LEMMA RequestEnds ==
    ASSUME Types, MessageWaitsEnd, NEW a \in Attempts, RequestWritten(a)
    PROVE  MessageWaitsEnd'
<1>1. CASE messageCallbacks["networkInfoRequest"] = None
  <2>1. /\ attempt' = [attempt EXCEPT ![a].doing = "waiting"]
        /\ messageCallbacks' = [messageCallbacks EXCEPT !["networkInfoRequest"] = a]
        /\ listeners' = IF attempt[a].phase = "wifi"
                        THEN listeners \cup {<<a, "networkInfoRequest">>} ELSE listeners
    BY <1>1 DEF RequestWritten
  <2>2. attempt'[a].phase = attempt[a].phase /\ attempt'[a].doing = "waiting"
    BY <2>1 DEF Types, WifiType
  <2>3. \A t \in MessageTypes : t # "networkInfoRequest" =>
            messageCallbacks'[t] = messageCallbacks[t]
    BY <2>1 DEF Types, WifiType
  <2>4. Ending(a)'
    BY <2>1, <2>2, <2>3 DEF MessageWaitsEnd, Ending
  <2>5. ASSUME NEW b \in Attempts, b # a PROVE Ending(b)'
    <3>1. /\ attempt'[b] = attempt[b]
          /\ \A t \in MessageTypes : messageCallbacks'[t] = b => messageCallbacks[t] = b
          /\ \A t \in MessageTypes : <<b, t>> \in listeners => <<b, t>> \in listeners'
      BY <2>1, <2>5 DEF Types, WifiType
    <3>2. QED
      BY <3>1, EndingOther
  <2>6. QED
    BY <2>4, <2>5 DEF MessageWaitsEnd, Ending
<1>2. CASE WifiFails(a, "nothing") /\ attempt[a].phase = "wifi"
  BY <1>2, ClearEnds DEF WifiFails
<1>3. CASE /\ attempt[a].phase # "wifi"
           /\ attempt' = [attempt EXCEPT ![a].doing = "nothing"]
           /\ UNCHANGED <<messageCallbacks, listeners>>
  BY <1>3, DoingEnds DEF RequestWritten
<1>4. QED
  BY <1>1, <1>2, <1>3 DEF RequestWritten

LEMMA EnvironmentEnds == ASSUME Types, MessageWaitsEnd, Environment PROVE MessageWaitsEnd'
<1>1. CASE UserConnects \/ Disconnects \/ TransportEnds \/ ProfileUnexpected
  BY <1>1, EndingStutters DEF UserConnects, Disconnects, TransportEnds, ProfileUnexpected
<1>2. ASSUME NEW a \in Attempts, ProfileExpected(a) PROVE MessageWaitsEnd'
  BY <1>2, StartAttemptEnds DEF ProfileExpected
<1>3. CASE TcpConnected
  <2>1. \A a \in Attempts : /\ attempt'[a].phase = "wifi" <=> attempt[a].phase = "wifi"
                            /\ attempt'[a].doing = attempt[a].doing
    BY <1>3 DEF TcpConnected, Listening, Types, WifiType
  <2>2. UNCHANGED <<messageCallbacks, listeners>>
    BY <1>3 DEF TcpConnected
  <2>3. QED
    BY <2>1, <2>2 DEF MessageWaitsEnd
<1>4. ASSUME NEW a \in Attempts, OnNetworkInfoRequest(a) PROVE MessageWaitsEnd'
  <2>1. /\ messageCallbacks' = [messageCallbacks EXCEPT !["networkInfoRequest"] = None]
        /\ listeners' = listeners \ {<<a, "networkInfoRequest">>}
        /\ attempt' = [attempt EXCEPT ![a].doing = "responding"]
    BY <1>4 DEF OnNetworkInfoRequest
  <2>2. \A b \in Attempts : attempt'[b].phase = attempt[b].phase
                            /\ (b # a => attempt'[b] = attempt[b])
    BY <2>1 DEF Types, WifiType
  <2>3. \A b \in Attempts, t \in MessageTypes : messageCallbacks'[t] = b =>
            messageCallbacks[t] = b /\ t # "networkInfoRequest"
    BY <2>1, BluetoothAssumption DEF Types, WifiType
  <2>4. \A b \in Attempts, t \in MessageTypes :
            t # "networkInfoRequest" /\ <<b, t>> \in listeners => <<b, t>> \in listeners'
    BY <2>1
  <2>5. QED
    BY <2>2, <2>3, <2>4 DEF MessageWaitsEnd
<1>5. ASSUME NEW a \in Attempts, OnConnectStatus(a) \/ OnConnectStatusBad(a)
      PROVE  MessageWaitsEnd'
  <2>1. attempt[a].phase = "wifi"
    BY <1>5 DEF OnConnectStatus, OnConnectStatusBad, Delivered, MessageWaitsEnd, MessageTypes
  <2>2. ClearAndAbort(a) /\ \E x : attempt' = [attempt EXCEPT ![a] = x]
    BY <1>5 DEF OnConnectStatus, OnConnectStatusBad, WifiFails
  <2>3. QED
    BY <2>1, <2>2, ClearEnds
<1>6. QED
  BY <1>1, <1>2, <1>3, <1>4, <1>5 DEF Environment

LEMMA LockEnds == ASSUME Types, MessageWaitsEnd, Serve \/ Settle PROVE MessageWaitsEnd'
<1>1. CASE \E a \in Attempts : AwaitProfile(a)
  BY <1>1, AwaitProfileEnds
<1>2. CASE UNCHANGED wifiVars
  BY <1>2, EndingStutters
<1>3. QED
  BY <1>1, <1>2
  DEF Serve, Settle, Disconnect, UserConnect, RefuseSelfConnect, SelfConnect, Refused,
      BeginDisconnect, PairingFails, ProfileTimeout, Parted, Started, StartFails, Paired

LEMMA AttemptEnding ==
    ASSUME Types, MessageWaitsEnd, NEW a \in Attempts, AttemptEnds(a) \/ WriteEnds(a)
    PROVE  MessageWaitsEnd'
<1>1. CASE WifiTimeout(a)
  BY <1>1, ClearEnds DEF WifiTimeout, WifiFails
<1>2. CASE TcpTimeout(a)
  <2>1. /\ attempt[a].phase = "tcp" /\ attempt' = [attempt EXCEPT ![a].phase = "over"]
        /\ UNCHANGED <<messageCallbacks, listeners>>
    BY <1>2 DEF TcpTimeout
  <2>2. \A b \in Attempts : /\ attempt'[b].phase = "wifi" <=> attempt[b].phase = "wifi"
                            /\ attempt'[b].doing = attempt[b].doing
    BY <2>1 DEF Types, WifiType
  <2>3. QED
    BY <2>1, <2>2 DEF MessageWaitsEnd
<1>3. CASE WriteFails(a)
  <2>1. CASE attempt[a].phase = "wifi"
    BY <1>3, <2>1, ClearEnds DEF WriteFails, WifiFails
  <2>2. CASE attempt[a].phase # "wifi"
    BY <1>3, <2>2, DoingEnds DEF WriteFails
  <2>3. QED
    BY <2>1, <2>2
<1>4. CASE ResponseWritten(a)
  BY <1>4, DoingEnds DEF ResponseWritten
<1>5. QED
  BY <1>1, <1>2, <1>3, <1>4, RequestEnds DEF AttemptEnds, WriteEnds

LEMMA EndsNext == Types /\ MessageWaitsEnd /\ [Next]_vars => MessageWaitsEnd'
<1> SUFFICES ASSUME Types, MessageWaitsEnd, [Next]_vars PROVE MessageWaitsEnd'
  OBVIOUS
<1>1. CASE ProfileCloses \/ UNCHANGED vars
  BY <1>1, EndingStutters DEF ProfileCloses, vars
<1>2. QED
  BY <1>1, EnvironmentEnds, LockEnds, AttemptEnding DEF Next

\* Whoever waits for a message of the phone awaits WiFi, with an abort listener
\* and so a timer that will end the wait; the only wait without one is that of
\* an attempt that was aborted while it wrote its first message.
THEOREM MessageWaitsStayBounded == Spec => []MessageWaitsEnd
<1>1. Init => MessageWaitsEnd
  BY BluetoothAssumption DEF Init, MessageWaitsEnd
<1>2. QED
  BY <1>1, TypeInit, TypeNext, EndsNext, PTL DEF Spec

=============================================================================
