---------------------------- MODULE VideoChannel ----------------------------
(***************************************************************************)
(* The way of a video stream from the phone to a page of the web client,   *)
(* and of the video focus the other way.                                   *)
(*                                                                         *)
(* The phone starts and stops the channel and sends the configuration of   *)
(* the codec and the frames; NodeVideoService passes them on as IPC        *)
(* notifications to the sockets that are subscribed at that moment.  In    *)
(* the page, the decoder registers for them when the channel starts, and   *)
(* the video store tells the phone, through calls to the service, whether  *)
(* the video is displayed.  The phone streams while its focus is           *)
(* projected.                                                              *)
(*                                                                         *)
(* Page and server exchange messages over a socket, in order, each at its  *)
(* own pace.  The phone is external: it stops the channel before it starts *)
(* it again.  What it sends is handled by the server when it is sent; only *)
(* the focus it is told takes time to reach it.                            *)
(***************************************************************************)
EXTENDS Naturals, Sequences, SequencesExt

CONSTANTS  \* bounds of the environment
    MaxSessions,  \* sessions with a phone
    MaxStarts,    \* starts of the channel
    MaxMedia,     \* media notifications on the way to the page
    MaxLag,       \* messages on the way when the channel starts or stops
    MaxRequests,  \* focus requests of the phone
    MaxPages,     \* times a page is opened
    MaxShows,     \* times a Video component is mounted
    MaxOther      \* steps of a second page

ASSUME VideoChannelAssumption ==
    {MaxSessions, MaxStarts, MaxMedia, MaxLag, MaxRequests, MaxPages,
     MaxShows, MaxOther} \subseteq Nat

VARIABLES
    session,         \* the service is started
    channelStarted,  \* its configurationIndex is set
    codecState,      \* its codecState
    codecBuffer,     \* its codecBuffer holds a configuration
    subscribed,      \* subscribed[n]: the socket's count for notification n
    otherOpen,       \* a second page is open and subscribed
    phone,           \* what the phone does
    focus,           \* the last focus the phone has been told
    toPhone,         \* focus notifications on their way to the phone
    toServer,        \* messages on their way from the page
    toClient,        \* messages on their way to the page
    page,            \* the page: store, decoder and worker
    starts,          \* starts of the channel so far
    told,            \* the page was sent the channelStart of this start
    missed,          \* starts whose configuration or key frame it was not sent
    unstopped,       \* it was sent a channelStart but not the channelStop
    spent            \* steps of the environment so far

server == <<session, channelStarted, codecState, codecBuffer>>
history == <<starts, told, missed, unstopped>>
vars == <<server, subscribed, otherOpen, phone, focus, toPhone, toServer,
          toClient, page, history, spent>>

Focus == {"native", "projected"}

\* What the decoder registers for when the channel starts.
DecoderNames == <<"codecConfig", "firstFrame", "data", "channelStop">>
Names == ToSet(DecoderNames) \cup {"channelStart", "focusRequest"}

CodecStates == {"STOPPED", "WAITING_FOR_CONFIG", "WAITING_FOR_FIRST_FRAME",
                "STARTED"}

Notifications ==
    [name : {"channelStart", "channelStop"}]
        \cup [name : {"focusRequest"}, mode : Focus]
        \cup [name : {"codecConfig", "firstFrame", "data"},
              start : 1 .. MaxStarts]
Replies == [name : {"getChannelStarted"}, result : BOOLEAN]

Subscribe(n, on) == [kind |-> "subscribe", name |-> n, subscribe |-> on]
GetChannelStarted == [kind |-> "getChannelStarted"]
SendFocus(f) == [kind |-> "sendVideoFocusNotification", focus |-> f]

Requests ==
    [kind : {"subscribe"}, name : Names, subscribe : BOOLEAN]
        \cup [kind : {"getChannelStarted", "close"}]
        \cup [kind : {"sendVideoFocusNotification"}, focus : Focus]

\* A page before it is opened.  shown counts the mounted Video components,
\* usageCount those and the ones whose timer of 500 ms runs.  stopListeners
\* are the listeners of channelStop, in order; the decoder is in it as often
\* as in those of codecConfig, firstFrame and data.  rejected are the starts
\* of which the worker was given a frame it could not decode, garbled those of
\* which it decoded one with the configuration of another start, stray whether
\* the phone was told to project with nothing displayed.
NoPage ==
    [open |-> FALSE, initialized |-> FALSE, shown |-> 0, usageCount |-> 0,
     stopListeners |-> <<>>, acceptData |-> FALSE, worker |-> "unconfigured",
     config |-> 0, rejected |-> {}, garbled |-> {}, stray |-> FALSE]

TypeOK ==
    /\ session \in BOOLEAN /\ channelStarted \in BOOLEAN
    /\ codecState \in CodecStates /\ codecBuffer \in BOOLEAN
    /\ subscribed \in [Names -> 0 .. MaxStarts + 1]
    /\ otherOpen \in BOOLEAN
    /\ phone \in {"away", "new", "idle", "streaming"}
    /\ focus \in Focus
    /\ toPhone \in Seq(Focus)
    /\ toServer \in Seq(Requests)
    /\ toClient \in Seq(Notifications \cup Replies)
    /\ page.open \in BOOLEAN /\ page.initialized \in BOOLEAN
    /\ page.shown \in 0 .. 2 /\ page.usageCount \in page.shown .. MaxShows
    /\ page.stopListeners \in Seq({"decoder", "store"})
    /\ page.worker \in {"unconfigured", "configured", "decoding"}
    /\ page.config \in 0 .. MaxStarts
    /\ page.rejected \cup page.garbled \cup missed \subseteq 1 .. MaxStarts
    /\ told \in BOOLEAN /\ unstopped \in BOOLEAN
    /\ starts \in 0 .. MaxStarts

Init ==
    /\ session = FALSE
    /\ channelStarted = FALSE
    /\ codecState = "STOPPED"
    /\ codecBuffer = FALSE
    /\ subscribed = [n \in Names |-> 0]
    /\ otherOpen = FALSE
    /\ phone = "away"
    /\ focus = "native"
    /\ toPhone = <<>>
    /\ toServer = <<>>
    /\ toClient = <<>>
    /\ page = NoPage
    /\ starts = 0
    /\ told = FALSE
    /\ missed = {}
    /\ unstopped = FALSE
    /\ spent = [sessions |-> 0, requests |-> 0, pages |-> 0, shows |-> 0,
                other |-> 0]

Spend(item, limit) ==
    /\ spent[item] < limit
    /\ spent' = [spent EXCEPT ![item] = @ + 1]

-----------------------------------------------------------------------------
(***************************************************************************)
(* The server: the service's methods, as the values they give the queues   *)
(***************************************************************************)

\* A notification goes to a socket that is subscribed when it is sent.
Notify(queue, m) ==
    IF subscribed[m.name] > 0 THEN Append(queue, m) ELSE queue

\* What is sent without a session is dropped.
TellPhone(f) == IF session THEN Append(toPhone, f) ELSE toPhone

ChannelStart ==
    /\ channelStarted' = TRUE
    /\ codecState' = "WAITING_FOR_CONFIG"
    /\ toClient' = Notify(toClient, [name |-> "channelStart"])
    /\ told' = (subscribed["channelStart"] > 0)
    /\ UNCHANGED codecBuffer

ChannelStop ==
    /\ channelStarted' = FALSE
    /\ codecBuffer' = FALSE
    /\ codecState' = "STOPPED"
    /\ toClient' = Notify(Notify(toClient,
                                 [name |-> "focusRequest", mode |-> "native"]),
                          [name |-> "channelStop"])
    /\ told' = FALSE
    /\ unstopped' = (unstopped \/ (told /\ subscribed["channelStop"] = 0))

Send(name) ==
    /\ toClient' = Notify(toClient, [name |-> name, start |-> starts])
    /\ missed' = IF name # "data" /\ subscribed[name] = 0
                 THEN missed \cup {starts}
                 ELSE missed

\* good: the buffer parses as a configuration, or holds a key frame.
HandleData(good) ==
    \/ /\ codecState = "STARTED"
       /\ Send("data")
       /\ UNCHANGED server
    \/ /\ codecState = "WAITING_FOR_CONFIG" /\ good
       /\ Send("codecConfig")
       /\ codecBuffer' = TRUE
       /\ codecState' = "WAITING_FOR_FIRST_FRAME"
       /\ UNCHANGED <<session, channelStarted>>
    \/ /\ codecState = "WAITING_FOR_FIRST_FRAME" /\ good
       /\ Send("firstFrame")
       /\ codecBuffer' = FALSE
       /\ codecState' = "STARTED"
       /\ UNCHANGED <<session, channelStarted>>
    \/ /\ codecState = "STOPPED" \/ (~good /\ codecState # "STARTED")
       /\ UNCHANGED <<server, toClient, missed>>

\* Mutant: nothing is done when the last client goes.
NoClients_Ignored(count, other) == toPhone

\* onNoChannelStartClients, when the last subscription to channelStart goes.
NoClients(count, other) ==
    IF count = 0 /\ ~other THEN TellPhone("native") ELSE toPhone

-----------------------------------------------------------------------------
(***************************************************************************)
(* The phone and its session                                               *)
(***************************************************************************)

SessionStarts ==
    /\ ~session
    /\ Spend("sessions", MaxSessions)
    /\ session' = TRUE
    /\ phone' = "new"
    /\ focus' = "native"
    /\ toPhone' = <<>>
    /\ UNCHANGED <<channelStarted, codecState, codecBuffer, subscribed,
                   otherOpen, toServer, toClient, page, history>>

\* stop: the service stops its channel, started or not.
SessionEnds ==
    /\ session
    /\ ChannelStop
    /\ session' = FALSE
    /\ phone' = "away"
    /\ toPhone' = <<>>
    /\ UNCHANGED <<subscribed, otherOpen, focus, toServer, page, starts,
                   missed, spent>>

\* onSetupRequest and afterSetup: the clients may project now.
PhoneSetsUp ==
    /\ phone = "new"
    /\ phone' = "idle"
    /\ toClient' = Notify(toClient,
                          [name |-> "focusRequest", mode |-> "projected"])
    /\ UNCHANGED <<server, subscribed, otherOpen, focus, toPhone, toServer,
                   page, history, spent>>

PhoneTakesFocus ==
    /\ toPhone # <<>>
    /\ focus' = Head(toPhone)
    /\ toPhone' = Tail(toPhone)
    /\ UNCHANGED <<server, subscribed, otherOpen, phone, toServer, toClient,
                   page, history, spent>>

\* The bound on how far the page may be behind the phone.
Lags == Len(toServer) + Len(toClient) > MaxLag

PhoneStartsChannel ==
    /\ phone = "idle" /\ focus = "projected"
    /\ starts < MaxStarts /\ ~Lags
    /\ starts' = starts + 1
    /\ phone' = "streaming"
    /\ ChannelStart
    /\ UNCHANGED <<session, subscribed, otherOpen, focus, toPhone, toServer,
                   page, missed, unstopped, spent>>

PhoneStopsChannel ==
    /\ phone = "streaming" /\ ~Lags
    /\ phone' = "idle"
    /\ ChannelStop
    /\ UNCHANGED <<session, subscribed, otherOpen, focus, toPhone, toServer,
                   page, starts, missed, spent>>

OnTheWay(name) == Len(SelectSeq(toClient, LAMBDA m : m.name = name))

PhoneSendsMedia ==
    /\ phone = "streaming"
    /\ OnTheWay("codecConfig") + OnTheWay("firstFrame") + OnTheWay("data")
           < MaxMedia
    /\ \E good \in BOOLEAN : HandleData(good)
    /\ UNCHANGED <<subscribed, otherOpen, phone, focus, toPhone, toServer,
                   page, starts, told, unstopped, spent>>

\* onVideoFocusRequest: the user asks the phone for the car's own screen, or
\* for the phone's; the service passes the request on.
PhoneRequestsFocus ==
    /\ phone \in {"idle", "streaming"}
    /\ Spend("requests", MaxRequests)
    /\ \E f \in Focus :
           toClient' = Notify(toClient, [name |-> "focusRequest", mode |-> f])
    /\ UNCHANGED <<server, subscribed, otherOpen, phone, focus, toPhone,
                   toServer, page, history>>

-----------------------------------------------------------------------------
(***************************************************************************)
(* The server and its sockets                                              *)
(***************************************************************************)

\* handleSocketSubscribe: a count that would be negative is refused.
ServerSubscribes(m) ==
    LET count == IF m.subscribe THEN subscribed[m.name] + 1
                                ELSE subscribed[m.name] - 1
    IN /\ m.kind = "subscribe"
       /\ subscribed' = IF ~m.subscribe /\ subscribed[m.name] = 0
                        THEN subscribed
                        ELSE [subscribed EXCEPT ![m.name] = count]
       /\ toPhone' = IF m.name = "channelStart" /\ subscribed' # subscribed
                     THEN NoClients(count, otherOpen)
                     ELSE toPhone
       /\ UNCHANGED <<toClient, told, missed, unstopped>>

ServerAnswers(m) ==
    /\ m.kind = "getChannelStarted"
    /\ toClient' = Append(toClient, [name |-> "getChannelStarted",
                                     result |-> channelStarted])
    /\ UNCHANGED <<subscribed, toPhone, told, missed, unstopped>>

ServerSendsFocus(m) ==
    /\ m.kind = "sendVideoFocusNotification"
    /\ toPhone' = TellPhone(m.focus)
    /\ UNCHANGED <<subscribed, toClient, told, missed, unstopped>>

\* onSocketClose: the socket is removed from every notification.  What was
\* on its way to it is lost with it.
ServerClosesSocket(m) ==
    /\ m.kind = "close"
    /\ subscribed' = [n \in Names |-> 0]
    /\ toPhone' = NoClients(0, otherOpen)
    /\ toClient' = <<>>
    /\ told' = FALSE
    /\ missed' = {}
    /\ unstopped' = FALSE

ServerReceives ==
    /\ toServer # <<>>
    /\ LET m == Head(toServer)
       IN \/ ServerSubscribes(m)
          \/ ServerAnswers(m)
          \/ ServerSendsFocus(m)
          \/ ServerClosesSocket(m)
    /\ toServer' = Tail(toServer)
    /\ UNCHANGED <<server, otherOpen, phone, focus, page, starts, spent>>

\* A second page, as far as the phone and the service see it.
OtherPage ==
    /\ Spend("other", MaxOther)
    /\ \/ /\ ~otherOpen
          /\ otherOpen' = TRUE
          /\ UNCHANGED toPhone
       \/ /\ otherOpen
          /\ \E f \in Focus : toPhone' = TellPhone(f)
          /\ UNCHANGED otherOpen
       \/ /\ otherOpen
          /\ otherOpen' = FALSE
          /\ toPhone' = NoClients(subscribed["channelStart"], FALSE)
    /\ UNCHANGED <<server, subscribed, phone, focus, toServer, toClient, page,
                   history>>

-----------------------------------------------------------------------------
(***************************************************************************)
(* The page                                                                *)
(***************************************************************************)

\* initializeDecoders registers for channelStart before the page is mounted.
\* A page is opened again once the server has noticed that it was closed.
PageOpens ==
    /\ ~page.open
    /\ toServer = <<>>
    /\ Spend("pages", MaxPages)
    /\ page' = [NoPage EXCEPT !.open = TRUE]
    /\ toServer' = <<Subscribe("channelStart", TRUE)>>
    /\ UNCHANGED <<server, subscribed, otherOpen, phone, focus, toPhone,
                   toClient, history>>

\* What has not arrived when the socket closes is lost; had it arrived, the
\* page would be one that closes later.
PageCloses ==
    /\ page.open
    /\ page' = NoPage
    /\ toServer' = <<[kind |-> "close"]>>
    /\ UNCHANGED <<server, subscribed, otherOpen, phone, focus, toPhone,
                   toClient, history, spent>>

\* The store's initialize, by the first component that uses it.
StoreInitializes ==
    /\ page.open /\ ~page.initialized
    /\ page' = [page EXCEPT !.initialized = TRUE,
                            !.stopListeners = Append(@, "store")]
    /\ toServer' = toServer \o <<Subscribe("channelStop", TRUE),
                                 Subscribe("focusRequest", TRUE)>>
    /\ UNCHANGED <<server, subscribed, otherOpen, phone, focus, toPhone,
                   toClient, history, spent>>

\* The store's start asks the service first; OnReply is what follows.
StartIf(displayed) == IF displayed THEN <<GetChannelStarted>> ELSE <<>>

\* onVideoVisible, at most twice at a time: the view that comes is mounted
\* before the one that goes is unmounted.
VideoShown ==
    /\ page.initialized /\ page.shown < 2
    /\ Spend("shows", MaxShows)
    /\ page' = [page EXCEPT !.shown = @ + 1, !.usageCount = @ + 1]
    /\ toServer' = toServer \o StartIf(page.usageCount = 0)
    /\ UNCHANGED <<server, subscribed, otherOpen, phone, focus, toPhone,
                   toClient, history>>

\* onVideoHidden only sets the timer.
VideoHidden ==
    /\ page.shown > 0
    /\ page' = [page EXCEPT !.shown = @ - 1]
    /\ UNCHANGED <<server, subscribed, otherOpen, phone, focus, toPhone,
                   toServer, toClient, history, spent>>

\* Mutant: the timer of a component that was hidden tells the phone, though
\* another one is displayed.
HideTimer_Eager ==
    /\ page.usageCount > page.shown
    /\ page' = [page EXCEPT !.usageCount = @ - 1, !.stray = FALSE]
    /\ toServer' = Append(toServer, SendFocus("native"))
    /\ UNCHANGED <<server, subscribed, otherOpen, phone, focus, toPhone,
                   toClient, history, spent>>

\* Mutant: the count is compared before it is decreased.
HideTimer_OffByOne ==
    /\ page.usageCount > page.shown
    /\ page' = [page EXCEPT !.usageCount = @ - 1]
    /\ toServer' = toServer \o (IF page.usageCount = 0
                                THEN <<SendFocus("native")>> ELSE <<>>)
    /\ UNCHANGED <<server, subscribed, otherOpen, phone, focus, toPhone,
                   toClient, history, spent>>

HideTimer ==
    /\ page.usageCount > page.shown
    /\ IF page.usageCount = 1
       THEN /\ page' = [page EXCEPT !.usageCount = 0, !.stray = FALSE]
            /\ toServer' = Append(toServer, SendFocus("native"))
       ELSE /\ page' = [page EXCEPT !.usageCount = @ - 1]
            /\ UNCHANGED toServer
    /\ UNCHANGED <<server, subscribed, otherOpen, phone, focus, toPhone,
                   toClient, history, spent>>

Listening == "decoder" \in ToSet(page.stopListeners)

SubscribeAll(on) ==
    [i \in 1 .. Len(DecoderNames) |-> Subscribe(DecoderNames[i], on)]

\* What a listener of channelStop sends: the decoder removes its listeners,
\* the store restarts a video that is displayed.
StopSends(listener, displayed) ==
    IF listener = "decoder" THEN SubscribeAll(FALSE) ELSE StartIf(displayed)

\* handleOn runs through the list itself: a listener that removes itself
\* moves the next one to its place, and that one is not called.
Visit(run, displayed) ==
    IF run.at > Len(run.left)
    THEN run
    ELSE [left |-> IF run.left[run.at] = "decoder"
                   THEN RemoveFirst(run.left, "decoder")
                   ELSE run.left,
          at |-> run.at + 1,
          reset |-> run.reset \/ run.left[run.at] = "decoder",
          sent |-> run.sent \o StopSends(run.left[run.at], displayed)]

HandleOn(listeners, displayed) ==
    LET run[n \in 0 .. Len(listeners)] ==
          IF n = 0
          THEN [left |-> listeners, at |-> 1, reset |-> FALSE, sent |-> <<>>]
          ELSE Visit(run[n - 1], displayed)
    IN  run[Len(listeners)]

OnChannelStart(m) ==
    /\ m.name = "channelStart"
    /\ page' = [page EXCEPT !.acceptData = TRUE,
                            !.stopListeners = Append(@, "decoder")]
    /\ toServer' = toServer \o SubscribeAll(TRUE)

\* Mutant: the decoder keeps its listeners when the channel stops.
OnChannelStop_KeepsListeners(m) ==
    /\ m.name = "channelStop"
    /\ page' = [page EXCEPT !.acceptData = FALSE, !.worker = "unconfigured"]
    /\ toServer' = toServer \o StartIf(page.usageCount # 0)

\* Mutant: the worker is not reset when the channel stops.
OnChannelStop_NoReset(m) ==
    LET run == HandleOn(page.stopListeners, page.usageCount # 0)
    IN /\ m.name = "channelStop"
       /\ page' = [page EXCEPT !.stopListeners = run.left]
       /\ toServer' = toServer \o run.sent

\* The decoder, if it is called, resets the worker.
OnChannelStop(m) ==
    LET run == HandleOn(page.stopListeners, page.usageCount # 0)
    IN /\ m.name = "channelStop"
       /\ page' = [page EXCEPT
                     !.stopListeners = run.left,
                     !.acceptData = @ /\ ~run.reset,
                     !.worker = IF run.reset THEN "unconfigured" ELSE @]
       /\ toServer' = toServer \o run.sent

OnCodecConfig(m) ==
    /\ m.name = "codecConfig"
    /\ page' = IF Listening
               THEN [page EXCEPT !.worker = "configured", !.config = m.start]
               ELSE page
    /\ UNCHANGED toServer

\* The worker takes a key frame once it is configured, other frames after
\* one.  With the listeners registered twice a frame is posted once: its
\* buffer is gone with the first post.
OnFrame(m) ==
    LET accepted == m.name = "firstFrame" \/ page.acceptData
        decodes == IF m.name = "firstFrame"
                   THEN page.worker # "unconfigured"
                   ELSE page.worker = "decoding"
    IN /\ m.name \in {"firstFrame", "data"}
       /\ page' =
            CASE ~(Listening /\ accepted) -> page
              [] Listening /\ accepted /\ ~decodes ->
                    [page EXCEPT !.rejected = @ \cup {m.start}]
              [] OTHER ->
                    [page EXCEPT !.worker = "decoding",
                                 !.garbled = IF page.config = m.start THEN @
                                             ELSE @ \cup {m.start}]
       /\ UNCHANGED toServer

\* The store's listener for focusRequest; both modes restart the video.
OnFocusRequest(m) ==
    /\ m.name = "focusRequest"
    /\ toServer' = toServer \o StartIf(page.initialized /\ page.usageCount # 0)
    /\ UNCHANGED page

\* start goes on, whatever is displayed by now.
OnReply(m) ==
    /\ m.name = "getChannelStarted"
    /\ toServer' = toServer \o (IF m.result THEN <<SendFocus("native")>>
                                            ELSE <<>>)
                            \o <<SendFocus("projected")>>
    /\ page' = [page EXCEPT !.stray = (page.usageCount = 0)]

PageReceives ==
    /\ page.open
    /\ toClient # <<>>
    /\ LET m == Head(toClient)
       IN \/ OnChannelStart(m)
          \/ OnChannelStop(m)
          \/ OnCodecConfig(m)
          \/ OnFrame(m)
          \/ OnFocusRequest(m)
          \/ OnReply(m)
    /\ toClient' = Tail(toClient)
    /\ UNCHANGED <<server, subscribed, otherOpen, phone, focus, toPhone,
                   history, spent>>

-----------------------------------------------------------------------------
Next ==
    \/ SessionStarts \/ SessionEnds
    \/ PhoneSetsUp \/ PhoneTakesFocus \/ PhoneStartsChannel
    \/ PhoneStopsChannel \/ PhoneSendsMedia \/ PhoneRequestsFocus
    \/ ServerReceives \/ OtherPage
    \/ PageOpens \/ PageCloses \/ StoreInitializes
    \/ VideoShown \/ VideoHidden \/ HideTimer \/ PageReceives

Spec == Init /\ [][Next]_vars

-----------------------------------------------------------------------------
(***************************************************************************)
(* Properties                                                              *)
(***************************************************************************)

\* The assertions of handleData hold: no configuration is kept while the
\* service waits for one, and one is while it waits for the first frame.
CodecAssertions ==
    /\ codecState = "WAITING_FOR_CONFIG" => ~codecBuffer
    /\ codecState = "WAITING_FOR_FIRST_FRAME" => codecBuffer
    /\ codecState # "STOPPED" => session /\ channelStarted

\* How often the decoder is registered.
Registrations ==
    Cardinality({i \in DOMAIN page.stopListeners :
                     page.stopListeners[i] = "decoder"})

\* The decoder is registered at most once, unless the server stopped a
\* channel before it had the page's subscription to channelStop.
DecoderListensOnce ==
    unstopped \/ Registrations <= 1

\* Each frame the worker is given it decodes, with the configuration of the
\* frame's own start, unless the configuration or the key frame of that start
\* was sent before the page had subscribed.  Even then it decodes none with
\* the configuration of another start, if the page was told of every stop.
DecodesOwnStart ==
    /\ page.rejected \cup page.garbled \subseteq missed
    /\ unstopped \/ page.garbled = {}

\* What the phone's focus will be when it has taken all it was told.
FocusTold == IF toPhone = <<>> THEN focus ELSE Last(toPhone)

\* When nobody is subscribed to the channel any more the phone has been told
\* to stop projecting.
NativeWithoutClients ==
    session /\ subscribed["channelStart"] = 0 /\ ~otherOpen
        => FocusTold = "native"

Settled ==
    /\ session /\ phone # "new"
    /\ page.open /\ page.shown = page.usageCount
    /\ toPhone = <<>> /\ toServer = <<>> /\ toClient = <<>>

\* Once everything has arrived a page that displays the video has the phone
\* project, whatever restarts and stops came before.
DisplayedIsProjected ==
    Settled /\ page.shown > 0 => focus = "projected"

\* Once everything has arrived a page that does not display the video has
\* the phone not project, unless a start went on after the last view was
\* hidden.
HiddenIsNative ==
    Settled /\ page.shown = 0 /\ ~page.stray => focus = "native"

=============================================================================
