------------------------ MODULE VideoChannel_proofs ------------------------
(***************************************************************************)
(* The way of the video, proved for any number of sessions, starts, pages  *)
(* and messages: the assertions of NodeVideoService on its codec state,    *)
(* what the phone is told when nobody watches, that the decoder listens    *)
(* once, that the frames of a start are decoded with its own               *)
(* configuration, and the types of the state, with how often a page is     *)
(* subscribed; with no page but one, also that the phone projects just     *)
(* when the page displays the video.                                       *)
(***************************************************************************)
EXTENDS VideoChannel, SequenceTheorems, FiniteSetTheorems,
        WellFoundedInduction, TLAPS

CodecType ==
    /\ session \in BOOLEAN
    /\ codecState \in CodecStates
    /\ codecBuffer \in BOOLEAN
    /\ phone \in {"away", "new", "idle", "streaming"}

\* What every way a channel ends has to leave behind for the next start: the
\* phone does not stream without a session, and while it does not stream the
\* codec is stopped and keeps nothing.
CodecInv ==
    /\ CodecType
    /\ session <=> phone # "away"
    /\ phone # "streaming" => codecState = "STOPPED"
    /\ codecState # "STOPPED" => channelStarted
    /\ codecBuffer <=> codecState = "WAITING_FOR_FIRST_FRAME"

LEMMA CodecInvInit == Init => CodecInv
BY DEF Init, CodecInv, CodecType, CodecStates

codecVars == <<server, phone>>

\* The focus, the sockets and the pages leave the service's codec alone.
LEMMA OthersLeaveCodec ==
    ASSUME \/ PhoneTakesFocus \/ PhoneRequestsFocus
           \/ ServerReceives \/ OtherPage \/ PageOpens \/ PageCloses
           \/ StoreInitializes \/ VideoShown \/ VideoHidden \/ HideTimer
           \/ PageReceives \/ UNCHANGED vars
    PROVE  UNCHANGED codecVars
BY Zenon DEF codecVars, PhoneTakesFocus, PhoneRequestsFocus, ServerReceives,
   OtherPage, PageOpens, PageCloses, StoreInitializes, VideoShown, VideoHidden,
   HideTimer, PageReceives, vars

LEMMA CodecInvStep ==
    ASSUME CodecInv, [Next]_vars
    PROVE  CodecInv'
<1> USE DEF CodecInv, CodecType, CodecStates
<1>1. CASE SessionStarts
    BY <1>1 DEF SessionStarts
<1>2. CASE SessionEnds
    BY <1>2 DEF SessionEnds, ChannelStop
<1>3. CASE PhoneSetsUp
    BY <1>3 DEF PhoneSetsUp, server
<1>4. CASE PhoneStartsChannel
    BY <1>4 DEF PhoneStartsChannel, ChannelStart
<1>5. CASE PhoneStopsChannel
    BY <1>5 DEF PhoneStopsChannel, ChannelStop
<1>6. CASE PhoneSendsMedia
    <2>1. PICK good \in BOOLEAN : HandleData(good)
        BY <1>6 DEF PhoneSendsMedia
    <2>2. phone = "streaming" /\ phone' = phone
        BY <1>6 DEF PhoneSendsMedia
    <2>3. CASE UNCHANGED server
        BY <2>2, <2>3 DEF server
    <2>4. CASE /\ codecState # "STOPPED"
               /\ \/ /\ codecBuffer' = TRUE
                     /\ codecState' = "WAITING_FOR_FIRST_FRAME"
                  \/ /\ codecBuffer' = FALSE
                     /\ codecState' = "STARTED"
               /\ UNCHANGED <<session, channelStarted>>
        BY <2>2, <2>4
    <2> QED
        BY <2>1, <2>3, <2>4 DEF HandleData
<1>7. CASE UNCHANGED codecVars
    BY <1>7 DEF codecVars, server
<1> QED
    BY <1>1, <1>2, <1>3, <1>4, <1>5, <1>6, <1>7, OthersLeaveCodec DEF Next

\* The assertions of handleData hold, and the codec runs only in a started
\* channel of a session.
THEOREM AssertionsHold == Spec => []CodecAssertions
<1>1. CodecInv => CodecAssertions
    BY DEF CodecInv, CodecType, CodecAssertions
<1> QED
    BY CodecInvInit, CodecInvStep, <1>1, PTL DEF Spec

-----------------------------------------------------------------------------
(***************************************************************************)
(* Numbers.  Every set of them has a least element, and so what holds of 0 *)
(* and of a number's successor holds of all.                               *)
(***************************************************************************)
LEMMA LeastNumber ==
    ASSUME NEW S \in SUBSET Nat, S # {}
    PROVE  \E x \in S : \A y \in S : x <= y
<1>1. IsWellFoundedOn(OpToRel(<, Nat), Nat)
    BY NatLessThanWellFounded
<1>2. \E x \in S : \A y \in S : ~(<<y, x>> \in OpToRel(<, Nat))
    BY <1>1, WFMin
<1>3. \A x, y \in Nat : <<y, x>> \in OpToRel(<, Nat) <=> y < x
    BY DEF OpToRel
<1>4. PICK x \in S : \A y \in S : ~(y < x)
    <2>1. \A y \in S : y \in Nat
        OBVIOUS
    <2> QED
        BY <1>2, <1>3, <2>1, Zenon
<1>5. \A y \in S : x <= y
    BY <1>4
<1> QED
    BY <1>5

LEMMA Induction ==
    ASSUME NEW S \in SUBSET Nat, 0 \in S, \A n \in S : n + 1 \in S
    PROVE  S = Nat
<1> SUFFICES ASSUME Nat \ S # {} PROVE FALSE
    OBVIOUS
<1>1. PICK x \in Nat \ S : \A y \in Nat \ S : x <= y
    BY LeastNumber
<1>2. x # 0 /\ x - 1 \in Nat
    BY <1>1
<1>3. x - 1 \in S
    BY <1>1, <1>2
<1>4. (x - 1) + 1 = x
    BY <1>2
<1> QED
    BY <1>1, <1>3, <1>4

-----------------------------------------------------------------------------
(***************************************************************************)
(* The listeners of channelStop.  handleOn stops before the end of the     *)
(* list when listeners removed themselves; if the decoder is in the list   *)
(* once, it is called, and is not in it afterwards.                        *)
(***************************************************************************)
Listeners == {"decoder", "store"}

StopMessages ==
    {Subscribe(DecoderNames[i], FALSE) : i \in 1 .. Len(DecoderNames)}
        \cup {GetChannelStarted}

Once(s) == \A i, l \in 1 .. Len(s) : s[i] = "decoder" /\ s[l] = "decoder" => i = l

Without(s) == \A i \in 1 .. Len(s) : s[i] # "decoder"

\* The list without the first registration of the decoder.
LEMMA RemoveDecoder ==
    ASSUME NEW s \in Seq(Listeners), NEW p \in 1 .. Len(s), s[p] = "decoder"
    PROVE  /\ RemoveFirst(s, "decoder") \in Seq(Listeners)
           /\ Once(s) => Without(RemoveFirst(s, "decoder"))
<1> DEFINE I == {i \in 1 .. Len(s) : s[i] = "decoder"}
           q == Min(I)
<1>0. Len(s) \in Nat /\ \A i \in 1 .. Len(s) : s[i] \in Listeners
    BY ElementOfSeq, LenProperties
<1>1. q \in I
    <2>1. I \in SUBSET Nat /\ I # {}
        BY <1>0
    <2>2. \E x \in I : \A y \in I : x <= y
        BY <2>1, LeastNumber
    <2> QED
        BY <2>2 DEF Min
<1>2. SelectInSeq(s, LAMBDA v : v = "decoder") = q
    BY <1>1 DEF SelectInSeq
<1>3. RemoveFirst(s, "decoder") = RemoveAt(s, q)
    BY <1>2, Zenon DEF RemoveFirst
<1> HIDE DEF q
<1> DEFINE a == SubSeq(s, 1, q - 1)
           b == SubSeq(s, q + 1, Len(s))
<1>4. q \in 1 .. Len(s) /\ s[q] = "decoder"
    BY <1>1
<1>5. /\ a \in Seq(Listeners) /\ Len(a) = q - 1
      /\ \A i \in 1 .. Len(a) : a[i] = s[i]
    BY <1>0, <1>4, SubSeqProperties
<1>6. /\ b \in Seq(Listeners) /\ Len(b) = Len(s) - q
      /\ \A i \in 1 .. Len(b) : b[i] = s[q + i]
    BY <1>0, <1>4, SubSeqProperties
<1>7. RemoveFirst(s, "decoder") = a \o b
    BY <1>3 DEF RemoveAt
<1> HIDE DEF a, b, I
<1>8. /\ a \o b \in Seq(Listeners) /\ Len(a \o b) = Len(a) + Len(b)
      /\ \A i \in 1 .. Len(a) : (a \o b)[i] = a[i]
      /\ \A i \in 1 .. Len(b) : (a \o b)[Len(a) + i] = b[i]
    <2>1. Len(a) \in Nat /\ Len(b) \in Nat
        BY <1>5, <1>6, LenProperties
    <2>2. /\ a \o b \in Seq(Listeners) /\ Len(a \o b) = Len(a) + Len(b)
          /\ \A i \in 1 .. Len(a) + Len(b) :
                (a \o b)[i] = IF i <= Len(a) THEN a[i] ELSE b[i - Len(a)]
        BY <1>5, <1>6, ConcatProperties
    <2> QED
        BY <2>1, <2>2
<1>9. ASSUME Once(s), NEW i \in 1 .. Len(a \o b)
      PROVE  (a \o b)[i] # "decoder"
    <2>1. CASE i < q
        <3>1. i \in 1 .. Len(a) /\ i \in 1 .. Len(s) /\ i # q
            BY <1>0, <1>4, <1>5, <2>1
        <3>2. (a \o b)[i] = s[i]
            BY <1>5, <1>8, <3>1
        <3> QED
            BY <1>4, <1>9, <3>1, <3>2 DEF Once
    <2>2. CASE i >= q
        <3> DEFINE j == i - Len(a)
        <3>1. j \in 1 .. Len(b) /\ Len(a) + j = i /\ q + j \in 1 .. Len(s) /\ q + j # q
            BY <1>0, <1>4, <1>5, <1>6, <1>8, <2>2
        <3> HIDE DEF j
        <3>2. (a \o b)[i] = s[q + j]
            BY <1>6, <1>8, <3>1
        <3> QED
            BY <1>4, <1>9, <3>1, <3>2 DEF Once
    <2> QED
        BY <1>4, <1>0, <1>8, <2>1, <2>2, <1>5, <1>6
<1> QED
    BY <1>7, <1>8, <1>9 DEF Without

\* What is sent is a message.
LEMMA NamesAre ==
    /\ Names = {"codecConfig", "firstFrame", "data", "channelStop",
                "channelStart", "focusRequest"}
    /\ Len(DecoderNames) = 4
    /\ \A i \in 1 .. Len(DecoderNames) :
          DecoderNames[i] \in {"codecConfig", "firstFrame", "data", "channelStop"}
BY DEF Names, DecoderNames, ToSet

LEMMA Messages ==
    /\ \A n \in Names, on \in BOOLEAN :
          /\ Subscribe(n, on) \in Requests
          /\ Subscribe(n, on).kind = "subscribe" /\ Subscribe(n, on).name = n
          /\ Subscribe(n, on).subscribe = on
    /\ GetChannelStarted \in Requests
    /\ GetChannelStarted.kind = "getChannelStarted"
    /\ \A f \in Focus :
          /\ SendFocus(f) \in Requests
          /\ SendFocus(f).kind = "sendVideoFocusNotification"
          /\ SendFocus(f).focus = f
    /\ [kind |-> "close"] \in Requests
    /\ \A m \in Requests :
          /\ m.kind = "subscribe" => m.name \in Names /\ m.subscribe \in BOOLEAN
          /\ m.kind = "sendVideoFocusNotification" => m.focus \in Focus
          /\ m.kind = "close" => m = [kind |-> "close"]
<1>1. \A m \in Requests :
          \/ m \in [kind : {"subscribe"}, name : Names, subscribe : BOOLEAN]
          \/ m \in [kind : {"getChannelStarted", "close"}]
          \/ m \in [kind : {"sendVideoFocusNotification"}, focus : Focus]
    BY DEF Requests
<1>2. \A m \in Requests :
          /\ m.kind = "subscribe" => m.name \in Names /\ m.subscribe \in BOOLEAN
          /\ m.kind = "sendVideoFocusNotification" => m.focus \in Focus
          /\ m.kind = "close" => m = [kind |-> "close"]
    BY <1>1
<1>3. \A n \in Names, on \in BOOLEAN : Subscribe(n, on) \in Requests
    BY DEF Requests, Subscribe
<1>4. GetChannelStarted \in Requests /\ [kind |-> "close"] \in Requests
    BY DEF Requests, GetChannelStarted
<1>5. \A f \in Focus : SendFocus(f) \in Requests
    BY DEF Requests, SendFocus
<1> QED
    BY <1>2, <1>3, <1>4, <1>5 DEF Subscribe, SendFocus, GetChannelStarted

LEMMA StopMessageTypes ==
    /\ StopMessages \subseteq Requests
    /\ \A m \in StopMessages :
          /\ m.kind \in {"subscribe", "getChannelStarted"}
          /\ m.kind = "subscribe" =>
               /\ ~m.subscribe
               /\ m.name \in {"codecConfig", "firstFrame", "data", "channelStop"}
<1>1. ASSUME NEW i \in 1 .. Len(DecoderNames)
      PROVE  LET m == Subscribe(DecoderNames[i], FALSE)
             IN  /\ m \in Requests /\ m.kind = "subscribe" /\ ~m.subscribe
                 /\ m.name = DecoderNames[i]
                 /\ DecoderNames[i] \in {"codecConfig", "firstFrame", "data",
                                         "channelStop"}
    <2>1. DecoderNames[i] \in Names
        BY NamesAre
    <2> QED
        BY <2>1, NamesAre, Messages, ZenonT(30)
<1>2. GetChannelStarted \in Requests /\ GetChannelStarted.kind = "getChannelStarted"
    BY Messages
<1>3. ASSUME NEW m \in StopMessages
      PROVE  \/ m = GetChannelStarted
             \/ \E i \in 1 .. Len(DecoderNames) : m = Subscribe(DecoderNames[i], FALSE)
    BY DEF StopMessages
<1>4. ASSUME NEW m \in StopMessages
      PROVE  /\ m \in Requests
             /\ m.kind \in {"subscribe", "getChannelStarted"}
             /\ m.kind = "subscribe" =>
                  /\ ~m.subscribe
                  /\ m.name \in {"codecConfig", "firstFrame", "data", "channelStop"}
    <2>1. CASE m = GetChannelStarted
        BY <1>2, <2>1
    <2>2. ASSUME NEW i \in 1 .. Len(DecoderNames),
                 m = Subscribe(DecoderNames[i], FALSE)
          PROVE  <1>4!2
        BY <1>1, <2>2
    <2> QED
        BY <1>3, <2>1, <2>2
<1> QED
    BY <1>4

LEMMA FourLong ==
    ASSUME NEW S, NEW f \in [1 .. 4 -> S]
    PROVE  f \in Seq(S) /\ Len(f) = 4
<1>1. Seq(S) = UNION {[1 .. n -> S] : n \in Nat}
    BY SeqDef, Zenon
<1>2. [1 .. 4 -> S] \in {[1 .. n -> S] : n \in Nat}
    OBVIOUS
<1>3. f \in Seq(S)
    BY <1>1, <1>2, Zenon
<1>4. 1 .. Len(f) = 1 .. 4 /\ Len(f) \in Nat
    BY <1>3, LenProperties
<1>5. Len(f) = 4
    <2>1. 4 \in 1 .. Len(f) /\ ~(5 \in 1 .. Len(f))
        BY <1>4
    <2> QED
        BY <1>4, <2>1
<1> QED
    BY <1>3, <1>5

LEMMA StopSendsType ==
    ASSUME NEW listener \in Listeners, NEW displayed \in BOOLEAN
    PROVE  StopSends(listener, displayed) \in Seq(StopMessages)
<1>1. SubscribeAll(FALSE) \in Seq(StopMessages)
    <2>1. \A i \in 1 .. 4 : Subscribe(DecoderNames[i], FALSE) \in StopMessages
        BY NamesAre DEF StopMessages
    <2>2. SubscribeAll(FALSE) = [i \in 1 .. 4 |-> Subscribe(DecoderNames[i], FALSE)]
        BY NamesAre DEF SubscribeAll
    <2>3. SubscribeAll(FALSE) \in [1 .. 4 -> StopMessages]
        BY <2>1, <2>2
    <2> QED
        BY <2>3, FourLong
<1>2. <<GetChannelStarted>> \in Seq(StopMessages) /\ <<>> \in Seq(StopMessages)
    BY DEF StopMessages
<1> QED
    BY <1>1, <1>2 DEF StopSends, StartIf

FirstRun(s) == [left |-> s, at |-> 1, reset |-> FALSE, sent |-> <<>>]

\* The first N listeners have been visited as handleOn visits them.
IsRun(s, displayed, N, r) ==
    r = [n \in 0 .. N |-> IF n = 0 THEN FirstRun(s)
                          ELSE Visit(r[n - 1], displayed)]

\* The recursion has a solution.
LEMMA RunExists ==
    ASSUME NEW s, NEW displayed
    PROVE  \A N \in Nat : \E r : IsRun(s, displayed, N, r)
<1> DEFINE Is(N, r) == IsRun(s, displayed, N, r)
           S == {N \in Nat : \E r : Is(N, r)}
<1>1. 0 \in S
    <2>1. Is(0, [n \in 0 .. 0 |-> FirstRun(s)])
        BY DEF IsRun
    <2> QED
        BY <2>1
<1>2. ASSUME NEW N \in S PROVE N + 1 \in S
    <2>1. PICK r : Is(N, r)
        OBVIOUS
    <2> DEFINE q == [n \in 0 .. N + 1 |-> IF n = 0 THEN FirstRun(s)
                                          ELSE Visit(r[n - 1], displayed)]
    <2>2. \A n \in 0 .. N : r[n] = IF n = 0 THEN FirstRun(s)
                                   ELSE Visit(r[n - 1], displayed)
        BY <2>1 DEF IsRun
    <2>3. \A n \in 0 .. N : q[n] = r[n]
        BY <2>2
    <2>4. \A n \in 0 .. N + 1 : n # 0 => n - 1 \in 0 .. N
        OBVIOUS
    <2>5. \A n \in 0 .. N + 1 : n # 0 => q[n - 1] = r[n - 1]
        BY <2>3, <2>4
    <2>6. q = [n \in 0 .. N + 1 |-> IF n = 0 THEN FirstRun(s)
                                    ELSE Visit(q[n - 1], displayed)]
        BY <2>5
    <2> HIDE DEF q
    <2>7. Is(N + 1, q)
        BY <2>6 DEF IsRun
    <2> QED
        BY <2>7
<1> HIDE DEF Is
<1>3. S = Nat
    BY <1>1, <1>2, Induction
<1> QED
    BY <1>3 DEF Is

\* After n listeners: unless the decoder was called, the list is as it was
\* and the first n are other listeners.
Visited(s, n, run) ==
    /\ run \in [left : Seq(Listeners), at : Nat \ {0}, reset : BOOLEAN,
                sent : Seq(StopMessages)]
    /\ ~run.reset => /\ run.left = s /\ run.at = n + 1
                     /\ \A i \in 1 .. n : s[i] # "decoder"
    /\ run.reset /\ Once(s) => Without(run.left)

LEMMA VisitNext ==
    ASSUME NEW s \in Seq(Listeners), NEW displayed \in BOOLEAN,
           NEW n \in Nat, n < Len(s), NEW run, Visited(s, n, run)
    PROVE  Visited(s, n + 1, Visit(run, displayed))
<1>0. /\ run.left \in Seq(Listeners) /\ run.at \in Nat \ {0}
      /\ run.reset \in BOOLEAN /\ run.sent \in Seq(StopMessages)
      /\ Len(run.left) \in Nat /\ Len(s) \in Nat
    BY LenProperties DEF Visited
<1>1. CASE run.at > Len(run.left)
    <2>1. run.reset
        BY <1>0, <1>1 DEF Visited
    <2> QED
        BY <1>1, <2>1 DEF Visited, Visit
<1>2. CASE ~(run.at > Len(run.left))
    <2> DEFINE l == run.left[run.at]
               next == Visit(run, displayed)
    <2>1. run.at \in 1 .. Len(run.left) /\ l \in Listeners
        BY <1>0, <1>2, ElementOfSeq
    <2>2. next = [left |-> IF l = "decoder" THEN RemoveFirst(run.left, "decoder")
                           ELSE run.left,
                  at |-> run.at + 1,
                  reset |-> run.reset \/ l = "decoder",
                  sent |-> run.sent \o StopSends(l, displayed)]
        BY <1>2 DEF Visit
    <2>3. run.sent \o StopSends(l, displayed) \in Seq(StopMessages)
        BY <1>0, <2>1, StopSendsType, ConcatProperties
    <2> HIDE DEF next
    <2>4. CASE l = "decoder"
        <3> DEFINE left == RemoveFirst(run.left, "decoder")
        <3>1. left \in Seq(Listeners) /\ (Once(run.left) => Without(left))
            BY <1>0, <2>1, <2>4, RemoveDecoder
        <3>2. Once(s) => ~run.reset
            BY <2>1, <2>4 DEF Visited, Without
        <3>3. Once(s) => Without(left)
            BY <3>1, <3>2 DEF Visited
        <3> HIDE DEF left
        <3>4. next = [left |-> left, at |-> run.at + 1, reset |-> TRUE,
                      sent |-> run.sent \o StopSends(l, displayed)]
            BY <2>2, <2>4 DEF left
        <3>5. next \in [left : Seq(Listeners), at : Nat \ {0}, reset : BOOLEAN,
                        sent : Seq(StopMessages)]
            BY <1>0, <2>3, <3>1, <3>4
        <3>6. next.reset /\ next.left = left
            BY <3>4
        <3>7. Visited(s, n + 1, next)
            BY <3>3, <3>5, <3>6 DEF Visited
        <3> QED
            BY <3>7 DEF next
    <2>5. CASE l # "decoder"
        <3>1. next = [left |-> run.left, at |-> run.at + 1, reset |-> run.reset,
                      sent |-> run.sent \o StopSends(l, displayed)]
            BY <1>0, <2>2, <2>5
        <3>2. ASSUME ~run.reset PROVE \A i \in 1 .. n + 1 : s[i] # "decoder"
            BY <2>5, <3>2 DEF Visited
        <3>3. next \in [left : Seq(Listeners), at : Nat \ {0}, reset : BOOLEAN,
                        sent : Seq(StopMessages)]
            BY <1>0, <2>3, <3>1
        <3>4. /\ next.reset = run.reset /\ next.left = run.left
              /\ next.at = run.at + 1
            BY <3>1
        <3>5. ~next.reset => next.left = s /\ next.at = (n + 1) + 1
            BY <3>4 DEF Visited
        <3>6. next.reset /\ Once(s) => Without(next.left)
            BY <3>4 DEF Visited
        <3>7. Visited(s, n + 1, next)
            BY <3>2, <3>3, <3>4, <3>5, <3>6 DEF Visited
        <3> QED
            BY <3>7 DEF next
    <2> QED
        BY <2>4, <2>5
<1> QED
    BY <1>1, <1>2

\* What handleOn leaves, and sends.
LEMMA HandleOnType ==
    ASSUME NEW s \in Seq(Listeners), NEW displayed \in BOOLEAN
    PROVE  Visited(s, Len(s), HandleOn(s, displayed))
<1> DEFINE N == Len(s)
           run == CHOOSE r : IsRun(s, displayed, N, r)
<1>0. N \in Nat
    BY LenProperties
<1>1. IsRun(s, displayed, N, run)
    <2>1. \E r : IsRun(s, displayed, N, r)
        BY <1>0, RunExists
    <2> QED
        BY <2>1, Zenon
<1>2. HandleOn(s, displayed) = run[N]
    BY DEF HandleOn, FirstRun, IsRun
<1> HIDE DEF run
<1>3. /\ run[0] = FirstRun(s)
      /\ \A n \in 0 .. N : n # 0 => run[n] = Visit(run[n - 1], displayed)
    BY <1>0, <1>1 DEF IsRun
<1> DEFINE S == {n \in Nat : n <= N => Visited(s, n, run[n])}
<1>4. 0 \in S
    <2>1. <<>> \in Seq(StopMessages)
        OBVIOUS
    <2>2. FirstRun(s) \in [left : Seq(Listeners), at : Nat \ {0},
                           reset : BOOLEAN, sent : Seq(StopMessages)]
        BY <2>1 DEF FirstRun
    <2>3. Visited(s, 0, FirstRun(s))
        BY <2>2 DEF FirstRun, Visited
    <2> QED
        BY <1>3, <2>3
<1>5. ASSUME NEW n \in S PROVE n + 1 \in S
    <2>1. CASE n + 1 <= N
        <3>1. Visited(s, n, run[n]) /\ n < N /\ n \in Nat
            BY <1>0, <2>1
        <3>2. run[n + 1] = Visit(run[n], displayed)
            BY <1>0, <1>3, <2>1
        <3>3. Visited(s, n + 1, run[n + 1])
            BY <3>1, <3>2, VisitNext
        <3> QED
            BY <3>3
    <2> QED
        BY <2>1
<1> HIDE DEF S
<1>6. S = Nat
    BY <1>4, <1>5, Induction DEF S
<1> QED
    BY <1>0, <1>2, <1>6 DEF S

LEMMA HandleOnLeaves ==
    ASSUME NEW s \in Seq(Listeners), NEW displayed \in BOOLEAN
    PROVE  LET run == HandleOn(s, displayed)
           IN  /\ run.left \in Seq(Listeners) /\ run.reset \in BOOLEAN
               /\ run.sent \in Seq(StopMessages)
               /\ Once(s) => Without(run.left)
               /\ ~run.reset => run.left = s /\ Without(s)
<1> DEFINE run == HandleOn(s, displayed)
<1>1. Visited(s, Len(s), run)
    BY HandleOnType
<1> HIDE DEF run
<1>2. ~run.reset => run.left = s /\ Without(s)
    BY <1>1 DEF Visited, Without
<1>3. Once(s) => Without(run.left)
    BY <1>1, <1>2 DEF Visited
<1> QED
    BY <1>1, <1>2, <1>3 DEF Visited, run

-----------------------------------------------------------------------------
(***************************************************************************)
(* Queues                                                                  *)
(***************************************************************************)
LEMMA Longer ==
    ASSUME NEW S, NEW a \in Seq(S), NEW b \in Seq(S)
    PROVE  /\ a \o b \in Seq(S) /\ Len(a) \in Nat /\ Len(b) \in Nat
           /\ Len(a \o b) = Len(a) + Len(b)
           /\ \A i \in 1 .. Len(a) : (a \o b)[i] = a[i]
           /\ \A i \in 1 .. Len(b) : (a \o b)[Len(a) + i] = b[i]
           /\ \A i \in 1 .. Len(a \o b) :
                 \/ i \in 1 .. Len(a)
                 \/ i - Len(a) \in 1 .. Len(b) /\ (a \o b)[i] = b[i - Len(a)]
<1>1. Len(a) \in Nat /\ Len(b) \in Nat
    BY LenProperties
<1>2. /\ a \o b \in Seq(S) /\ Len(a \o b) = Len(a) + Len(b)
      /\ \A i \in 1 .. Len(a) + Len(b) :
            (a \o b)[i] = IF i <= Len(a) THEN a[i] ELSE b[i - Len(a)]
    BY ConcatProperties
<1> QED
    BY <1>1, <1>2

LEMMA OneMore ==
    ASSUME NEW S, NEW a \in Seq(S), NEW x \in S
    PROVE  /\ Append(a, x) \in Seq(S) /\ Len(a) \in Nat
           /\ Len(Append(a, x)) = Len(a) + 1
           /\ \A i \in 1 .. Len(a) : Append(a, x)[i] = a[i]
           /\ Append(a, x)[Len(a) + 1] = x
BY AppendProperties, LenProperties

LEMMA OneLess ==
    ASSUME NEW S, NEW q \in Seq(S), q # <<>>
    PROVE  /\ Tail(q) \in Seq(S) /\ Len(q) \in Nat /\ 1 \in 1 .. Len(q)
           /\ Len(Tail(q)) = Len(q) - 1
           /\ \A i \in 1 .. Len(q) - 1 : Tail(q)[i] = q[i + 1]
           /\ Head(q) = q[1] /\ Head(q) \in S
<1>1. Len(q) \in Nat /\ (Len(q) = 0 => q = <<>>)
    BY LenProperties, EmptySeq
<1>2. Len(q) # 0
    BY <1>1
<1>3. Head(q) \in S /\ Tail(q) \in Seq(S) /\ Len(Tail(q)) = Len(q) - 1
      /\ \A i \in 1 .. Len(Tail(q)) : Tail(q)[i] = q[i + 1]
    BY HeadTailProperties
<1>4. Head(q) = q[1]
    OBVIOUS
<1> QED
    BY <1>1, <1>2, <1>3, <1>4

-----------------------------------------------------------------------------
(***************************************************************************)
(* The types of the state.  The counts of a page and of its subscriptions  *)
(* are only numbers here; their bounds come later.                         *)
(***************************************************************************)
Starts == 1 .. MaxStarts
Downstream == Notifications \cup Replies

PhoneTypes ==
    /\ channelStarted \in BOOLEAN
    /\ otherOpen \in BOOLEAN
    /\ focus \in Focus
    /\ toPhone \in Seq(Focus)
    /\ subscribed \in [Names -> Nat]
    /\ toServer \in Seq(Requests)

ClientTypes ==
    /\ toClient \in Seq(Downstream)
    /\ starts \in 0 .. MaxStarts
    /\ codecState # "STOPPED" => starts \in Starts
    /\ missed \in SUBSET Starts
    /\ told \in BOOLEAN /\ unstopped \in BOOLEAN

Spent == [sessions : Nat, requests : Nat, pages : Nat, shows : Nat, other : Nat]

PageTypes ==
    /\ page \in [open : BOOLEAN, initialized : BOOLEAN, shown : 0 .. 2,
                 usageCount : Nat, stopListeners : Seq(Listeners),
                 acceptData : BOOLEAN,
                 worker : {"unconfigured", "configured", "decoding"},
                 config : 0 .. MaxStarts, rejected : SUBSET Starts,
                 garbled : SUBSET Starts, stray : BOOLEAN]
    /\ spent \in Spent
    /\ page.shown <= page.usageCount /\ page.usageCount <= spent.shows
    /\ spent.shows <= MaxShows

Types == PhoneTypes /\ ClientTypes /\ PageTypes

LEMMA Bounds == MaxStarts \in Nat /\ MaxShows \in Nat
BY VideoChannelAssumption

LEMMA TypesInit == Init => Types
<1> SUFFICES ASSUME Init PROVE Types
    OBVIOUS
<1>0. /\ <<>> \in Seq(Focus) /\ <<>> \in Seq(Requests)
      /\ <<>> \in Seq(Downstream) /\ {} \in SUBSET Starts
    OBVIOUS
<1>1. PhoneTypes
    <2>1. [n \in Names |-> 0] \in [Names -> Nat]
        OBVIOUS
    <2>2. "native" \in Focus
        BY DEF Focus
    <2> QED
        BY <1>0, <2>1, <2>2 DEF Init, PhoneTypes
<1>2. ClientTypes
    <2>1. 0 \in 0 .. MaxStarts
        BY Bounds
    <2> QED
        BY <1>0, <2>1 DEF Init, ClientTypes
<1>3. PageTypes
    BY Bounds DEF Init, PageTypes, NoPage, Spent, Starts
<1> QED
    BY <1>1, <1>2, <1>3 DEF Types

\* What the server sends.
LEMMA ServerMessages ==
    /\ [name |-> "channelStart"] \in Downstream
    /\ [name |-> "channelStop"] \in Downstream
    /\ \A f \in Focus : [name |-> "focusRequest", mode |-> f] \in Downstream
    /\ \A n \in {"codecConfig", "firstFrame", "data"}, k \in Starts :
          [name |-> n, start |-> k] \in Downstream
    /\ \A b \in BOOLEAN : [name |-> "getChannelStarted", result |-> b] \in Downstream
BY DEF Downstream, Notifications, Replies, Starts

LEMMA DownstreamFields ==
    ASSUME NEW m \in Downstream
    PROVE  /\ m.name \in {"channelStart", "channelStop", "focusRequest",
                          "codecConfig", "firstFrame", "data", "getChannelStarted"}
           /\ m.name \in {"codecConfig", "firstFrame", "data"} => m.start \in Starts
           /\ m.name = "getChannelStarted" => m.result \in BOOLEAN
<1>1. \/ m \in [name : {"channelStart", "channelStop"}]
      \/ m \in [name : {"focusRequest"}, mode : Focus]
      \/ m \in [name : {"codecConfig", "firstFrame", "data"}, start : 1 .. MaxStarts]
      \/ m \in [name : {"getChannelStarted"}, result : BOOLEAN]
    BY DEF Downstream, Notifications, Replies
<1> QED
    BY <1>1 DEF Starts

LEMMA Notified ==
    ASSUME NEW queue \in Seq(Downstream), NEW m \in Downstream
    PROVE  /\ Notify(queue, m) \in Seq(Downstream)
           /\ Notify(queue, m) \in {queue, Append(queue, m)}
           /\ subscribed[m.name] > 0 => Notify(queue, m) = Append(queue, m)
           /\ ~(subscribed[m.name] > 0) => Notify(queue, m) = queue
BY OneMore DEF Notify

\* What a page sends.
LEMMA PageMessages ==
    /\ \A on \in BOOLEAN : SubscribeAll(on) \in Seq(Requests)
    /\ \A b \in BOOLEAN : StartIf(b) \in Seq(Requests)
    /\ <<Subscribe("channelStop", TRUE), Subscribe("focusRequest", TRUE)>>
          \in Seq(Requests)
    /\ <<Subscribe("channelStart", TRUE)>> \in Seq(Requests)
    /\ <<[kind |-> "close"]>> \in Seq(Requests)
    /\ \A f \in Focus : <<SendFocus(f)>> \in Seq(Requests)
<1>1. /\ \A n \in Names, on \in BOOLEAN : Subscribe(n, on) \in Requests
      /\ GetChannelStarted \in Requests /\ [kind |-> "close"] \in Requests
      /\ \A f \in Focus : SendFocus(f) \in Requests
    BY Messages
<1>2. \A on \in BOOLEAN : SubscribeAll(on) \in Seq(Requests)
    <2> SUFFICES ASSUME NEW on \in BOOLEAN PROVE SubscribeAll(on) \in Seq(Requests)
        OBVIOUS
    <2>1. \A i \in 1 .. 4 : DecoderNames[i] \in Names
        BY NamesAre
    <2>2. SubscribeAll(on) = [i \in 1 .. 4 |-> Subscribe(DecoderNames[i], on)]
        BY NamesAre DEF SubscribeAll
    <2>3. SubscribeAll(on) \in [1 .. 4 -> Requests]
        BY <1>1, <2>1, <2>2
    <2> QED
        BY <2>3, FourLong
<1>3. \A b \in BOOLEAN : StartIf(b) \in Seq(Requests)
    BY <1>1 DEF StartIf
<1>4. {"channelStop", "focusRequest", "channelStart"} \subseteq Names
    BY NamesAre
<1>5. /\ Subscribe("channelStop", TRUE) \in Requests
      /\ Subscribe("focusRequest", TRUE) \in Requests
      /\ Subscribe("channelStart", TRUE) \in Requests
    BY <1>1, <1>4
<1>6. \A m, k \in Requests : <<m>> \in Seq(Requests) /\ <<m, k>> \in Seq(Requests)
    OBVIOUS
<1> QED
    BY <1>1, <1>2, <1>3, <1>5, <1>6, Zenon

\* The start of a channel, and its end.
Prolongs(q, r) ==
    /\ r \in Seq(Downstream)
    /\ Len(q) <= Len(r)
    /\ \A i \in 1 .. Len(q) : r[i] = q[i]

LEMMA Prolonged ==
    ASSUME NEW queue \in Seq(Downstream), NEW m \in Downstream
    PROVE  LET r == Notify(queue, m)
           IN  /\ Prolongs(queue, r)
               /\ \A i \in 1 .. Len(r) : i \in 1 .. Len(queue) \/ r[i] = m
               /\ subscribed[m.name] > 0 =>
                    Len(r) = Len(queue) + 1 /\ r[Len(queue) + 1] = m
               /\ ~(subscribed[m.name] > 0) => r = queue
<1> DEFINE r == Notify(queue, m)
<1>0. Len(queue) \in Nat
    BY LenProperties
<1>1. CASE subscribed[m.name] > 0
    <2>1. r = Append(queue, m)
        BY <1>1, Notified
    <2> HIDE DEF r
    <2>2. /\ r \in Seq(Downstream) /\ Len(r) = Len(queue) + 1
          /\ \A i \in 1 .. Len(queue) : r[i] = queue[i]
          /\ r[Len(queue) + 1] = m
        BY <2>1, OneMore
    <2>3. \A i \in 1 .. Len(r) : i \in 1 .. Len(queue) \/ i = Len(queue) + 1
        BY <1>0, <2>2
    <2>4. \A i \in 1 .. Len(r) : i \in 1 .. Len(queue) \/ r[i] = m
        BY <2>2, <2>3
    <2> QED
        BY <1>0, <1>1, <2>2, <2>4 DEF Prolongs, r
<1>2. CASE ~(subscribed[m.name] > 0)
    <2>1. r = queue
        BY <1>2, Notified
    <2> QED
        BY <1>0, <1>2, <2>1 DEF Prolongs
<1> QED
    BY <1>1, <1>2

LEMMA StopSent ==
    ASSUME Types, ChannelStop
    PROVE  /\ Prolongs(toClient, toClient')
           /\ \A i \in 1 .. Len(toClient') :
                 \/ i \in 1 .. Len(toClient)
                 \/ toClient'[i].name \in {"focusRequest", "channelStop"}
           /\ subscribed["channelStop"] > 0 =>
                /\ Len(toClient') > Len(toClient)
                /\ toClient'[Len(toClient')].name = "channelStop"
           /\ ~(subscribed["channelStop"] > 0) /\ ~(subscribed["focusRequest"] > 0)
                => toClient' = toClient
<1> DEFINE f == [name |-> "focusRequest", mode |-> "native"]
           m == [name |-> "channelStop"]
           q == Notify(toClient, f)
           r == Notify(q, m)
<1>1. toClient \in Seq(Downstream) /\ f \in Downstream /\ m \in Downstream
    BY ServerMessages DEF Types, ClientTypes, Focus
<1>2. toClient' = r
    BY DEF ChannelStop
<1>3. f.name = "focusRequest" /\ m.name = "channelStop"
    OBVIOUS
<1> HIDE DEF f, m
<1>4. /\ Prolongs(toClient, q)
      /\ \A i \in 1 .. Len(q) : i \in 1 .. Len(toClient) \/ q[i] = f
      /\ ~(subscribed["focusRequest"] > 0) => q = toClient
    BY <1>1, <1>3, Prolonged
<1> HIDE DEF q
<1>5. /\ Prolongs(q, r)
      /\ \A i \in 1 .. Len(r) : i \in 1 .. Len(q) \/ r[i] = m
      /\ subscribed["channelStop"] > 0 =>
            Len(r) = Len(q) + 1 /\ r[Len(q) + 1] = m
      /\ ~(subscribed["channelStop"] > 0) => r = q
    BY <1>1, <1>3, <1>4, Prolonged DEF Prolongs
<1>6. Len(toClient) \in Nat /\ Len(q) \in Nat /\ Len(r) \in Nat
    BY <1>1, <1>4, <1>5, LenProperties DEF Prolongs
<1> HIDE DEF r
<1>7. Prolongs(toClient, r)
    BY <1>4, <1>5, <1>6 DEF Prolongs
<1>8. ASSUME NEW i \in 1 .. Len(r)
      PROVE  i \in 1 .. Len(toClient) \/ r[i].name \in {"focusRequest", "channelStop"}
    <2>1. CASE i \in 1 .. Len(q)
        BY <1>3, <1>4, <1>5, <2>1 DEF Prolongs
    <2>2. CASE r[i] = m
        BY <1>3, <2>2
    <2> QED
        BY <1>5, <2>1, <2>2
<1>9. subscribed["channelStop"] > 0 =>
          Len(r) > Len(toClient) /\ r[Len(r)].name = "channelStop"
    BY <1>3, <1>4, <1>5, <1>6 DEF Prolongs
<1> QED
    BY <1>2, <1>4, <1>5, <1>7, <1>8, <1>9

LEMMA Focuses ==
    ASSUME toPhone \in Seq(Focus), NEW f \in Focus
    PROVE  /\ TellPhone(f) \in Seq(Focus)
           /\ \A count, other : NoClients(count, other) \in Seq(Focus)
<1>1. Append(toPhone, f) \in Seq(Focus) /\ Append(toPhone, "native") \in Seq(Focus)
    BY OneMore DEF Focus
<1> QED
    BY <1>1 DEF TellPhone, NoClients

\* What an open page sends: never that it closed, never about channelStart.
\* Only a message of the server makes it leave the media, only the start of the
\* channel has it subscribe to them, only its initialization subscribes to the
\* focus, and only a reply or the timer tells the phone a focus.
Sent == {m \in Requests : /\ m.kind # "close"
                          /\ m.kind = "subscribe" => m.name # "channelStart"}

Says(m) == m.kind = "sendVideoFocusNotification"
About(m, n) == m.kind = "subscribe" /\ m.name = n
Media == {"codecConfig", "firstFrame", "data"}

Sends(a) ==
    /\ toServer' = toServer \o a
    /\ ~PageReceives => \A i \in 1 .. Len(a), n \in Media : ~About(a[i], n)
    /\ \A i \in 1 .. Len(a), n \in Media :
          About(a[i], n) /\ a[i].subscribe => Head(toClient).name = "channelStart"
    /\ \A i \in 1 .. Len(a) :
          About(a[i], "focusRequest") => a[i].subscribe /\ StoreInitializes
    /\ \A i \in 1 .. Len(a) :
          Says(a[i]) => HideTimer \/ (PageReceives /\ Head(toClient).name = "getChannelStarted")

LEMMA PageSends ==
    ASSUME Types,
           StoreInitializes \/ VideoShown \/ HideTimer \/ PageReceives
    PROVE  \E a \in Seq(Sent) : Sends(a)
<1> DEFINE p == Head(toClient)
<1>1. CASE StoreInitializes
    <2> DEFINE x == Subscribe("channelStop", TRUE)
               y == Subscribe("focusRequest", TRUE)
    <2>1. /\ x \in Sent /\ y \in Sent /\ ~Says(x) /\ ~Says(y) /\ y.subscribe
          /\ \A n \in Media : ~About(x, n) /\ ~About(y, n)
          /\ ~About(x, "focusRequest")
        BY NamesAre DEF Sent, Requests, Subscribe, Says, About, Media
    <2>2. toServer' = toServer \o <<x, y>>
        BY <1>1 DEF StoreInitializes
    <2> HIDE DEF x, y
    <2>3. /\ <<x, y>> \in Seq(Sent)
          /\ \A i \in 1 .. Len(<<x, y>>) : <<x, y>>[i] = x \/ <<x, y>>[i] = y
        BY <2>1
    <2>4. Sends(<<x, y>>)
        BY <1>1, <2>1, <2>2, <2>3 DEF Sends
    <2> QED
        BY <2>3, <2>4
<1>2. ASSUME NEW b \in BOOLEAN, toServer' = toServer \o StartIf(b)
      PROVE  \E a \in Seq(Sent) : Sends(a)
    <2> DEFINE g == GetChannelStarted
    <2>1. g \in Sent /\ ~Says(g) /\ \A n \in Names : ~About(g, n)
        BY Messages DEF Sent, Says, About, GetChannelStarted
    <2>2. Media \subseteq Names /\ "focusRequest" \in Names
        BY NamesAre DEF Media
    <2>3. StartIf(b) = IF b THEN <<g>> ELSE <<>>
        BY DEF StartIf
    <2> HIDE DEF g
    <2>4. /\ <<g>> \in Seq(Sent) /\ \A i \in 1 .. Len(<<g>>) : <<g>>[i] = g
          /\ <<>> \in Seq(Sent) /\ Len(<<>>) = 0
        BY <2>1
    <2>5. CASE b
        <3>1. Sends(<<g>>)
            BY <1>2, <2>1, <2>2, <2>3, <2>4, <2>5 DEF Sends
        <3> QED
            BY <2>4, <3>1
    <2>6. CASE ~b
        <3>1. Sends(<<>>)
            BY <1>2, <2>3, <2>4, <2>6 DEF Sends
        <3> QED
            BY <2>4, <3>1
    <2> QED
        BY <2>5, <2>6
<1>3. CASE VideoShown
    <2>1. toServer' = toServer \o StartIf(page.usageCount = 0)
        BY <1>3 DEF VideoShown
    <2> QED
        BY <1>2, <2>1
<1>4. toServer' = toServer => \E a \in Seq(Sent) : Sends(a)
    <2>1. <<>> \in Seq(Sent) /\ Len(<<>>) = 0 /\ toServer \o <<>> = toServer
        BY ConcatEmptySeq DEF Types, PhoneTypes
    <2>2. toServer' = toServer => Sends(<<>>)
        BY <2>1 DEF Sends
    <2> QED
        BY <2>1, <2>2
<1>5. \A f \in Focus : SendFocus(f) \in Sent
    BY Messages DEF Sent, SendFocus
<1>6. CASE HideTimer
    <2> DEFINE x == SendFocus("native")
    <2>1. /\ x \in Sent /\ \A n : ~About(x, n)
        BY <1>5 DEF About, Focus, SendFocus
    <2>2. toServer' = toServer \/ toServer' = Append(toServer, x)
        BY <1>6 DEF HideTimer
    <2> HIDE DEF x
    <2>3. /\ Append(toServer, x) = toServer \o <<x>> /\ <<x>> \in Seq(Sent)
          /\ \A i \in 1 .. Len(<<x>>) : <<x>>[i] = x
        BY <2>1, AppendIsConcat, Messages DEF Types, PhoneTypes, Sent
    <2>4. toServer' = Append(toServer, x) => Sends(<<x>>)
        BY <1>6, <2>1, <2>3 DEF Sends
    <2> QED
        BY <1>4, <2>2, <2>3, <2>4
<1>7. CASE PageReceives /\ (OnChannelStart(p) \/ OnChannelStop(p))
    <2>1. PICK a \in Seq(Sent) :
              /\ toServer' = toServer \o a
              /\ \A i \in 1 .. Len(a) : ~About(a[i], "focusRequest") /\ ~Says(a[i])
              /\ p.name = "channelStart" \/ \A i \in 1 .. Len(a), n \in Media :
                                                About(a[i], n) => ~a[i].subscribe
        <3>1. CASE OnChannelStart(p)
            <4> DEFINE a == SubscribeAll(TRUE)
            <4>1. toServer' = toServer \o a
                BY <3>1 DEF OnChannelStart
            <4>2. a = [i \in 1 .. 4 |-> Subscribe(DecoderNames[i], TRUE)]
                BY NamesAre DEF SubscribeAll
            <4> HIDE DEF a
            <4>3. ASSUME NEW i \in 1 .. 4
                  PROVE  a[i] \in Sent /\ ~About(a[i], "focusRequest") /\ ~Says(a[i])
                <5>1. /\ DecoderNames[i] \in Names
                      /\ DecoderNames[i] # "channelStart" /\ DecoderNames[i] # "focusRequest"
                    BY NamesAre
                <5> QED
                    BY <4>2, <5>1, Messages DEF Sent, About, Says
            <4>4. a \in Seq(Sent) /\ Len(a) = 4
                BY <4>2, <4>3, FourLong
            <4>5. p.name = "channelStart"
                BY <3>1 DEF OnChannelStart
            <4> QED
                BY <4>1, <4>3, <4>4, <4>5
        <3>2. CASE OnChannelStop(p)
            <4> DEFINE a == HandleOn(page.stopListeners, page.usageCount # 0).sent
            <4>1. toServer' = toServer \o a
                BY <3>2 DEF OnChannelStop
            <4>2. a \in Seq(StopMessages)
                BY HandleOnLeaves DEF Types, PageTypes
            <4> HIDE DEF a
            <4>3. \A m \in StopMessages :
                      /\ m \in Sent /\ ~About(m, "focusRequest") /\ ~Says(m)
                      /\ \A n \in Media : About(m, n) => ~m.subscribe
                BY StopMessageTypes DEF Sent, About, Says
            <4>4. a \in Seq(Sent) /\ \A i \in 1 .. Len(a) : a[i] \in StopMessages
                BY <4>2, <4>3, ElementOfSeq
            <4> QED
                BY <4>1, <4>3, <4>4
        <3> QED
            BY <1>7, <3>1, <3>2
    <2> QED
        BY <1>7, <2>1 DEF Sends
<1>8. CASE PageReceives /\ (OnCodecConfig(p) \/ OnFrame(p))
    BY <1>4, <1>8 DEF OnCodecConfig, OnFrame
<1>9. CASE PageReceives /\ OnFocusRequest(p)
    <2>1. toServer' = toServer \o StartIf(page.initialized /\ page.usageCount # 0)
        BY <1>9 DEF OnFocusRequest
    <2>2. (page.initialized /\ page.usageCount # 0) \in BOOLEAN
        BY DEF Types, PageTypes
    <2> QED
        BY <1>2, <2>1, <2>2
<1>10. CASE PageReceives /\ OnReply(p)
    <2> DEFINE x == SendFocus("native")
               y == SendFocus("projected")
    <2>1. x \in Sent /\ y \in Sent /\ (\A n : ~About(x, n) /\ ~About(y, n))
        BY <1>5 DEF About, Focus, SendFocus
    <2>2. p.name = "getChannelStarted"
        BY <1>10 DEF OnReply
    <2>3. toServer' = toServer \o (IF p.result THEN <<x>> ELSE <<>>) \o <<y>>
        BY <1>10 DEF OnReply
    <2> HIDE DEF x, y
    <2> DEFINE b == IF p.result THEN <<x>> ELSE <<>>
               a == b \o <<y>>
    <2>4. /\ b \in Seq(Sent) /\ <<y>> \in Seq(Sent)
          /\ a \in Seq(Sent)
        BY <2>1
    <2>5. toServer' = toServer \o a
        <3>1. toServer \in Seq(Requests)
            BY DEF Types, PhoneTypes
        <3>2. b \in Seq(Requests) /\ <<y>> \in Seq(Requests)
            BY <2>1 DEF Sent
        <3>3. toServer' = (toServer \o b) \o <<y>>
            BY <2>3
        <3> HIDE DEF b
        <3> QED
            BY <3>1, <3>2, <3>3, ConcatAssociative
    <2>7. \A n : \A i \in 1 .. Len(a) : ~About(a[i], n)
        <3>1. \A i \in 1 .. Len(b) : b[i] = x
            OBVIOUS
        <3> HIDE DEF b
        <3>2. \A i \in 1 .. Len(a) : \/ i \in 1 .. Len(b) /\ a[i] = b[i]
                                     \/ \E l \in 1 .. Len(<<y>>) : a[i] = <<y>>[l]
            BY <2>4, Longer
        <3>3. \A i \in 1 .. Len(a) : a[i] = x \/ a[i] = y
            BY <3>1, <3>2
        <3> HIDE DEF a
        <3> QED
            BY <2>1, <3>3
    <2> HIDE DEF a
    <2>6. Sends(a)
        BY <1>10, <2>2, <2>5, <2>7 DEF Sends
    <2> QED
        BY <2>4, <2>6
<1> QED
    BY <1>1, <1>3, <1>6, <1>7, <1>8, <1>9, <1>10 DEF PageReceives

LEMMA PhoneTypesStep ==
    ASSUME CodecInv, Types, [Next]_vars
    PROVE  PhoneTypes'
<1> USE DEF Types, PhoneTypes
<1>1. CASE SessionStarts \/ SessionEnds
    <2>1. /\ channelStarted' \in BOOLEAN /\ toPhone' = <<>> /\ focus' \in Focus
          /\ UNCHANGED <<otherOpen, subscribed, toServer>>
        BY <1>1 DEF SessionStarts, SessionEnds, ChannelStop, Focus
    <2> QED
        BY <2>1
<1>2. CASE PhoneSetsUp \/ PhoneSendsMedia \/ PhoneRequestsFocus \/ VideoHidden
    <2>1. UNCHANGED <<channelStarted, otherOpen, focus, toPhone, subscribed, toServer>>
        BY <1>2 DEF PhoneSetsUp, PhoneSendsMedia, PhoneRequestsFocus, VideoHidden,
            HandleData, server
    <2> QED
        BY <2>1
<1>3. CASE PhoneTakesFocus
    <2>1. Head(toPhone) \in Focus /\ Tail(toPhone) \in Seq(Focus)
        BY <1>3, OneLess DEF PhoneTakesFocus
    <2> QED
        BY <1>3, <2>1 DEF PhoneTakesFocus, server
<1>4. CASE PhoneStartsChannel \/ PhoneStopsChannel
    <2>1. /\ channelStarted' \in BOOLEAN
          /\ UNCHANGED <<otherOpen, focus, toPhone, subscribed, toServer>>
        BY <1>4 DEF PhoneStartsChannel, PhoneStopsChannel, ChannelStart, ChannelStop
    <2> QED
        BY <2>1
<1>5. CASE ServerReceives
    <2> DEFINE m == Head(toServer)
    <2>1. m \in Requests /\ Tail(toServer) \in Seq(Requests)
        BY <1>5, OneLess DEF ServerReceives
    <2>2. /\ toServer' = Tail(toServer) /\ UNCHANGED <<channelStarted, otherOpen, focus>>
          /\ \/ ServerSubscribes(m) \/ ServerAnswers(m)
             \/ ServerSendsFocus(m) \/ ServerClosesSocket(m)
        BY <1>5 DEF ServerReceives, server
    <2> HIDE DEF m
    <2>3. toPhone' \in Seq(Focus)
        <3>1. \A count, other : NoClients(count, other) \in Seq(Focus)
            BY Focuses DEF Focus
        <3>2. CASE ServerSubscribes(m)
            BY <3>1, <3>2 DEF ServerSubscribes
        <3>3. CASE ServerSendsFocus(m)
            BY <2>1, <3>3, Messages, Focuses DEF ServerSendsFocus
        <3>4. CASE ServerAnswers(m) \/ ServerClosesSocket(m)
            BY <3>1, <3>4 DEF ServerAnswers, ServerClosesSocket
        <3> QED
            BY <2>2, <3>2, <3>3, <3>4
    <2>4. subscribed' \in [Names -> Nat]
        <3>1. CASE ServerSubscribes(m)
            <4>1. m.name \in Names /\ m.subscribe \in BOOLEAN
                BY <2>1, <3>1, Messages DEF ServerSubscribes
            <4>2. /\ subscribed[m.name] \in Nat
                  /\ \/ subscribed' = subscribed
                     \/ subscribed' = [subscribed EXCEPT ![m.name] = subscribed[m.name] + 1]
                     \/ /\ subscribed[m.name] # 0
                        /\ subscribed' = [subscribed EXCEPT ![m.name] = subscribed[m.name] - 1]
                BY <3>1, <4>1 DEF ServerSubscribes
            <4> QED
                BY <4>1, <4>2
        <3>2. CASE ~ServerSubscribes(m)
            BY <2>2, <3>2 DEF ServerAnswers, ServerSendsFocus, ServerClosesSocket
        <3> QED
            BY <3>1, <3>2
    <2> QED
        BY <2>1, <2>2, <2>3, <2>4
<1>6. CASE OtherPage
    <2>1. \A f \in Focus : TellPhone(f) \in Seq(Focus)
        BY Focuses
    <2>2. \A count, other : NoClients(count, other) \in Seq(Focus)
        BY Focuses DEF Focus
    <2>3. toPhone' \in Seq(Focus) /\ otherOpen' \in BOOLEAN
        BY <1>6, <2>1, <2>2 DEF OtherPage
    <2> QED
        BY <1>6, <2>3 DEF OtherPage, server
<1>7. CASE PageOpens \/ PageCloses \/ StoreInitializes \/ VideoShown \/ HideTimer
           \/ PageReceives
    <2>1. UNCHANGED <<channelStarted, otherOpen, focus, toPhone, subscribed>>
        BY <1>7 DEF PageOpens, PageCloses, StoreInitializes, VideoShown, HideTimer,
            PageReceives, server
    <2>2. CASE PageOpens \/ PageCloses
        BY <2>1, <2>2, PageMessages DEF PageOpens, PageCloses
    <2>3. CASE ~(PageOpens \/ PageCloses)
        <3>1. PICK a \in Seq(Sent) : toServer' = toServer \o a
            BY <1>7, <2>3, PageSends DEF Sends
        <3>2. a \in Seq(Requests)
            BY DEF Sent
        <3>3. toServer' \in Seq(Requests)
            BY <3>1, <3>2, Longer
        <3> QED
            BY <2>1, <3>3
    <2> QED
        BY <2>2, <2>3
<1>8. CASE UNCHANGED vars
    BY <1>8 DEF vars, server
<1> QED
    BY <1>1, <1>2, <1>3, <1>4, <1>5, <1>6, <1>7, <1>8 DEF Next

LEMMA ClientTypesStep ==
    ASSUME CodecInv, Types, [Next]_vars
    PROVE  ClientTypes'
<1> USE DEF ClientTypes
<1>0. Types => ClientTypes /\ PhoneTypes
    BY DEF Types
<1>1. CASE SessionEnds \/ PhoneStopsChannel
    <2>1. ChannelStop /\ UNCHANGED <<starts, missed>>
        BY <1>1 DEF SessionEnds, PhoneStopsChannel
    <2>2. /\ toClient' \in Seq(Downstream) /\ codecState' = "STOPPED"
          /\ told' = FALSE /\ unstopped' \in BOOLEAN
        BY <2>1, StopSent DEF ChannelStop, Prolongs, Types
    <2> QED
        BY <1>0, <2>1, <2>2
<1>2. CASE PhoneStartsChannel
    <2>1. toClient' \in Seq(Downstream)
        BY <1>0, <1>2, Notified, ServerMessages DEF PhoneStartsChannel, ChannelStart
    <2>2. starts' \in Starts /\ starts' \in 0 .. MaxStarts
        BY <1>0, <1>2, Bounds DEF PhoneStartsChannel, Starts
    <2>3. told' \in BOOLEAN /\ UNCHANGED <<missed, unstopped>>
        BY <1>2 DEF PhoneStartsChannel, ChannelStart
    <2> QED
        BY <1>0, <2>1, <2>2, <2>3
<1>3. CASE PhoneSendsMedia
    <2>1. PICK good \in BOOLEAN : HandleData(good)
        BY <1>3 DEF PhoneSendsMedia
    <2>2. UNCHANGED <<starts, told, unstopped>>
        BY <1>3 DEF PhoneSendsMedia
    <2>3. CASE UNCHANGED <<codecState, toClient, missed>>
        BY <1>0, <2>2, <2>3
    <2>4. ASSUME NEW n \in Media, Send(n), codecState # "STOPPED"
          PROVE  ClientTypes'
        <3>1. starts \in Starts
            BY <1>0, <2>4
        <3>2. [name |-> n, start |-> starts] \in Downstream
            BY <2>4, <3>1, ServerMessages DEF Media
        <3>3. toClient' \in Seq(Downstream)
            BY <1>0, <2>4, <3>2, Notified DEF Send
        <3>4. missed' \in SUBSET Starts
            BY <1>0, <2>4, <3>1 DEF Send
        <3> QED
            BY <1>0, <2>2, <3>1, <3>3, <3>4
    <2> QED
        BY <2>1, <2>3, <2>4 DEF HandleData, Media, server
<1>4. CASE SessionStarts \/ PhoneTakesFocus \/ OtherPage \/ PageOpens \/ PageCloses
           \/ StoreInitializes \/ VideoShown \/ VideoHidden \/ HideTimer
    <2>1. UNCHANGED <<toClient, starts, codecState, missed, told, unstopped>>
        BY <1>4 DEF SessionStarts, PhoneTakesFocus, OtherPage, PageOpens, PageCloses,
            StoreInitializes, VideoShown, VideoHidden, HideTimer, server, history
    <2> QED
        BY <1>0, <2>1
<1>5. CASE PhoneSetsUp \/ PhoneRequestsFocus
    <2>1. PICK f \in Focus :
              toClient' = Notify(toClient, [name |-> "focusRequest", mode |-> f])
        BY <1>5 DEF PhoneSetsUp, PhoneRequestsFocus, Focus
    <2>2. toClient' \in Seq(Downstream)
        BY <1>0, <2>1, Notified, ServerMessages
    <2>3. UNCHANGED <<starts, codecState, missed, told, unstopped>>
        BY <1>5 DEF PhoneSetsUp, PhoneRequestsFocus, server, history
    <2> QED
        BY <1>0, <2>2, <2>3
<1>6. CASE ServerReceives
    <2> DEFINE m == Head(toServer)
    <2>1. /\ UNCHANGED <<starts, codecState>>
          /\ \/ ServerSubscribes(m) \/ ServerAnswers(m)
             \/ ServerSendsFocus(m) \/ ServerClosesSocket(m)
        BY <1>6 DEF ServerReceives, server
    <2> HIDE DEF m
    <2>2. CASE ServerAnswers(m)
        <3>1. [name |-> "getChannelStarted", result |-> channelStarted] \in Downstream
            BY <1>0, ServerMessages DEF PhoneTypes
        <3>2. toClient' \in Seq(Downstream)
            BY <1>0, <2>2, <3>1, OneMore DEF ServerAnswers
        <3> QED
            BY <1>0, <2>1, <2>2, <3>2 DEF ServerAnswers
    <2>3. CASE ServerClosesSocket(m)
        <3>1. <<>> \in Seq(Downstream) /\ {} \in SUBSET Starts
            OBVIOUS
        <3> QED
            BY <1>0, <2>1, <2>3, <3>1 DEF ServerClosesSocket
    <2>4. CASE ServerSubscribes(m) \/ ServerSendsFocus(m)
        BY <1>0, <2>1, <2>4 DEF ServerSubscribes, ServerSendsFocus
    <2> QED
        BY <2>1, <2>2, <2>3, <2>4
<1>7. CASE PageReceives
    <2>1. Tail(toClient) \in Seq(Downstream)
        BY <1>0, <1>7, OneLess DEF PageReceives
    <2> QED
        BY <1>0, <1>7, <2>1 DEF PageReceives, server, history
<1>8. CASE UNCHANGED vars
    BY <1>0, <1>8 DEF vars, server, history
<1> QED
    BY <1>1, <1>2, <1>3, <1>4, <1>5, <1>6, <1>7, <1>8 DEF Next

LEMMA Spending ==
    ASSUME spent \in Spent, NEW limit,
           NEW item \in {"sessions", "requests", "pages", "shows", "other"},
           Spend(item, limit)
    PROVE  /\ spent' \in Spent
           /\ item # "shows" => spent'.shows = spent.shows
           /\ item = "shows" => spent'.shows = spent.shows + 1 /\ spent.shows < limit
<1>1. CASE item = "sessions"
    BY <1>1 DEF Spend, Spent
<1>2. CASE item = "requests"
    BY <1>2 DEF Spend, Spent
<1>3. CASE item = "pages"
    BY <1>3 DEF Spend, Spent
<1>4. CASE item = "shows"
    BY <1>4 DEF Spend, Spent
<1>5. CASE item = "other"
    BY <1>5 DEF Spend, Spent
<1> QED
    BY <1>1, <1>2, <1>3, <1>4, <1>5

LEMMA PageTypesStep ==
    ASSUME Types, [Next]_vars
    PROVE  PageTypes'
<1>0. Types => PageTypes
    BY DEF Types
<1> DEFINE Record == [open : BOOLEAN, initialized : BOOLEAN, shown : 0 .. 2,
                 usageCount : Nat, stopListeners : Seq(Listeners),
                 acceptData : BOOLEAN,
                 worker : {"unconfigured", "configured", "decoding"},
                 config : 0 .. MaxStarts, rejected : SUBSET Starts,
                 garbled : SUBSET Starts, stray : BOOLEAN]
<1>1. /\ page \in Record /\ spent \in Spent
      /\ page.shown <= page.usageCount /\ page.usageCount <= spent.shows
      /\ spent.shows <= MaxShows
    BY <1>0 DEF PageTypes
<1>r. /\ page.shown \in 0 .. 2 /\ page.usageCount \in Nat
      /\ spent.shows \in Nat /\ MaxShows \in Nat
    BY <1>1, Bounds DEF Spent
<1>2. ASSUME page' \in Record, UNCHANGED spent,
             page'.shown <= page'.usageCount, page'.usageCount <= page.usageCount
      PROVE  PageTypes'
    BY <1>1, <1>2, Bounds DEF PageTypes, Spent
<1>3. NoPage \in Record /\ [NoPage EXCEPT !.open = TRUE] \in Record
    <2>1. <<>> \in Seq(Listeners) /\ {} \in SUBSET Starts /\ 0 \in 0 .. MaxStarts
        BY Bounds
    <2>2. NoPage \in Record
        BY <2>1 DEF NoPage
    <2> QED
        BY <2>2
<1>4. CASE UNCHANGED <<page, spent>>
    BY <1>1, <1>4 DEF PageTypes
<1>5. CASE SessionEnds \/ PhoneSetsUp \/ PhoneTakesFocus \/ PhoneStartsChannel
           \/ PhoneStopsChannel \/ PhoneSendsMedia \/ ServerReceives
           \/ UNCHANGED vars
    <2>1. UNCHANGED <<page, spent>>
        BY <1>5 DEF SessionEnds, PhoneSetsUp, PhoneTakesFocus, PhoneStartsChannel,
            PhoneStopsChannel, PhoneSendsMedia, ServerReceives, vars
    <2> QED
        BY <1>4, <2>1
<1>6. CASE SessionStarts \/ PhoneRequestsFocus \/ OtherPage
    <2>1. UNCHANGED page /\ spent' \in Spent /\ spent'.shows = spent.shows
        BY <1>1, <1>6, Spending DEF SessionStarts, PhoneRequestsFocus, OtherPage
    <2> QED
        BY <1>1, <2>1 DEF PageTypes
<1>7. CASE PageOpens
    <2>1. page' = [NoPage EXCEPT !.open = TRUE] /\ spent' \in Spent /\ spent'.shows = spent.shows
        BY <1>1, <1>7, Spending DEF PageOpens
    <2>2. page' \in Record /\ page'.shown = 0 /\ page'.usageCount = 0
        BY <1>3, <2>1 DEF NoPage
    <2>3. page'.shown <= page'.usageCount /\ page'.usageCount <= spent'.shows
        BY <1>r, <2>1, <2>2
    <2>4. spent'.shows <= MaxShows
        BY <1>1, <2>1
    <2> QED
        BY <2>1, <2>2, <2>3, <2>4 DEF PageTypes
<1>8. CASE PageCloses
    <2>1. page' \in Record /\ page'.shown = 0 /\ page'.usageCount = 0 /\ UNCHANGED spent
        BY <1>3, <1>8 DEF NoPage, PageCloses
    <2> QED
        BY <1>1, <1>2, <2>1
<1>9. CASE VideoShown
    <2>1. /\ spent' \in Spent /\ spent'.shows = spent.shows + 1 /\ spent.shows < MaxShows
        BY <1>1, <1>9, Spending DEF VideoShown
    <2>2. /\ page' \in Record /\ page'.shown = page.shown + 1
          /\ page'.usageCount = page.usageCount + 1
        <3>1. page.shown + 1 \in 0 .. 2 /\ page.usageCount + 1 \in Nat
            BY <1>r, <1>9 DEF VideoShown
        <3>2. page' = [page EXCEPT !.shown = page.shown + 1,
                                   !.usageCount = page.usageCount + 1]
            BY <1>9 DEF VideoShown
        <3> QED
            BY <1>1, <3>1, <3>2
    <2>3. page'.shown <= page'.usageCount /\ page'.usageCount <= spent'.shows
        BY <1>1, <1>r, <2>1, <2>2
    <2>4. spent'.shows <= MaxShows
        BY <1>r, <2>1
    <2> QED
        BY <2>1, <2>2, <2>3, <2>4 DEF PageTypes
<1>10. CASE VideoHidden
    <2>1. /\ page' \in Record /\ page'.shown = page.shown - 1
          /\ page'.usageCount = page.usageCount /\ UNCHANGED spent
        BY <1>1, <1>10 DEF VideoHidden
    <2> QED
        BY <1>1, <1>2, <2>1
<1>11. CASE HideTimer
    <2>1. /\ page' \in Record /\ page'.shown = page.shown
          /\ page'.usageCount = page.usageCount - 1 /\ UNCHANGED spent
          /\ page.usageCount > page.shown
        <3>1. page.usageCount - 1 \in Nat /\ page.usageCount > page.shown
            BY <1>r, <1>11 DEF HideTimer
        <3>2. \/ /\ page.usageCount = 1
                 /\ page' = [page EXCEPT !.usageCount = 0, !.stray = FALSE]
              \/ page' = [page EXCEPT !.usageCount = page.usageCount - 1]
            BY <1>11 DEF HideTimer
        <3>3. UNCHANGED spent
            BY <1>11 DEF HideTimer
        <3> DEFINE left == page.usageCount - 1
        <3>4. CASE page' = [page EXCEPT !.usageCount = left]
            <4>1. left \in Nat
                BY <3>1
            <4> HIDE DEF left
            <4>2. page' \in Record /\ page'.shown = page.shown /\ page'.usageCount = left
                BY <1>1, <3>4, <4>1
            <4> QED
                BY <3>1, <3>3, <4>2 DEF left
        <3>5. CASE /\ page.usageCount = 1
                   /\ page' = [page EXCEPT !.usageCount = 0, !.stray = FALSE]
            <4>1. page' \in Record /\ page'.shown = page.shown /\ page'.usageCount = 0
                BY <1>1, <3>5
            <4> QED
                BY <3>1, <3>3, <3>5, <4>1
        <3> QED
            BY <3>2, <3>4, <3>5
    <2>2. page'.shown <= page'.usageCount /\ page'.usageCount <= page.usageCount
        BY <1>r, <2>1
    <2> QED
        BY <1>2, <2>1, <2>2
<1>12. CASE StoreInitializes
    <2>1. Append(page.stopListeners, "store") \in Seq(Listeners)
        BY <1>1, OneMore DEF Listeners
    <2>2. /\ page' \in Record /\ page'.shown = page.shown
          /\ page'.usageCount = page.usageCount /\ UNCHANGED spent
        BY <1>1, <1>12, <2>1 DEF StoreInitializes
    <2> QED
        BY <1>1, <1>2, <2>2
<1>13. CASE PageReceives
    <2> DEFINE m == Head(toClient)
    <2>1. m \in Downstream /\ UNCHANGED spent
        BY <1>13, OneLess DEF PageReceives, Types, ClientTypes
    <2>2. \/ OnChannelStart(m) \/ OnChannelStop(m) \/ OnCodecConfig(m)
          \/ OnFrame(m) \/ OnFocusRequest(m) \/ OnReply(m)
        BY <1>13 DEF PageReceives
    <2> HIDE DEF m
    <2>3. ASSUME page' \in Record, page'.shown = page.shown,
                 page'.usageCount = page.usageCount
          PROVE  PageTypes'
        BY <1>1, <1>2, <2>1, <2>3
    <2>4. CASE OnChannelStart(m)
        <3>1. Append(page.stopListeners, "decoder") \in Seq(Listeners)
            BY <1>1, OneMore DEF Listeners
        <3> QED
            BY <1>1, <2>3, <2>4, <3>1 DEF OnChannelStart
    <2>5. CASE OnChannelStop(m)
        <3> DEFINE run == HandleOn(page.stopListeners, page.usageCount # 0)
        <3>1. run.left \in Seq(Listeners) /\ run.reset \in BOOLEAN
            BY <1>1, HandleOnLeaves
        <3>2. page' = [page EXCEPT !.stopListeners = run.left,
                                   !.acceptData = page.acceptData /\ ~run.reset,
                                   !.worker = IF run.reset THEN "unconfigured" ELSE page.worker]
            BY <2>5 DEF OnChannelStop
        <3> HIDE DEF run
        <3>3. /\ (page.acceptData /\ ~run.reset) \in BOOLEAN
              /\ (IF run.reset THEN "unconfigured" ELSE page.worker)
                    \in {"unconfigured", "configured", "decoding"}
            BY <1>1, <3>1
        <3> DEFINE acceptData == page.acceptData /\ ~run.reset
                   worker == IF run.reset THEN "unconfigured" ELSE page.worker
        <3>4. page' = [page EXCEPT !.stopListeners = run.left,
                                   !.acceptData = acceptData, !.worker = worker]
            BY <3>2
        <3>5. acceptData \in BOOLEAN /\ worker \in {"unconfigured", "configured", "decoding"}
            BY <3>3
        <3> HIDE DEF acceptData, worker, Record
        <3>6. page' \in Record /\ page'.shown = page.shown /\ page'.usageCount = page.usageCount
            BY <1>1, <3>1, <3>4, <3>5 DEF Record
        <3> QED
            BY <2>3, <3>6
    <2>6. CASE OnCodecConfig(m)
        <3>1. m.start \in 0 .. MaxStarts
            BY <2>1, <2>6, DownstreamFields, Bounds DEF OnCodecConfig, Starts
        <3> QED
            BY <1>1, <2>3, <2>6, <3>1 DEF OnCodecConfig
    <2>7. CASE OnFrame(m)
        <3>1. m.start \in Starts
            BY <2>1, <2>7, DownstreamFields DEF OnFrame
        <3>2. \/ page' = page
              \/ page' = [page EXCEPT !.rejected = page.rejected \cup {m.start}]
              \/ \E g \in {page.garbled, page.garbled \cup {m.start}} :
                     page' = [page EXCEPT !.worker = "decoding", !.garbled = g]
            BY <2>7 DEF OnFrame
        <3>3. CASE page' = page
            BY <1>1, <2>3, <3>3
        <3>4. CASE page' = [page EXCEPT !.rejected = page.rejected \cup {m.start}]
            BY <1>1, <2>3, <3>1, <3>4
        <3>5. ASSUME NEW g \in {page.garbled, page.garbled \cup {m.start}},
                     page' = [page EXCEPT !.worker = "decoding", !.garbled = g]
              PROVE  PageTypes'
            <4>1. g \in SUBSET Starts
                BY <1>1, <3>1
            <4> QED
                BY <1>1, <2>3, <3>5, <4>1
        <3> QED
            BY <3>2, <3>3, <3>4, <3>5
    <2>8. CASE OnFocusRequest(m)
        BY <1>1, <2>3, <2>8 DEF OnFocusRequest
    <2>9. CASE OnReply(m)
        BY <1>1, <2>3, <2>9 DEF OnReply
    <2> QED
        BY <2>2, <2>4, <2>5, <2>6, <2>7, <2>8, <2>9
<1> QED
    BY <1>5, <1>6, <1>7, <1>8, <1>9, <1>10, <1>11, <1>12, <1>13 DEF Next

LEMMA Typed == Spec => [](CodecInv /\ Types)
<1>1. Init => CodecInv /\ Types
    BY CodecInvInit, TypesInit
<1>2. CodecInv /\ Types /\ [Next]_vars => (CodecInv /\ Types)'
    <2> SUFFICES ASSUME CodecInv, Types, [Next]_vars
                 PROVE  (CodecInv /\ Types)'
        OBVIOUS
    <2>1. CodecInv'
        BY CodecInvStep
    <2>2. PhoneTypes' /\ ClientTypes' /\ PageTypes'
        BY PhoneTypesStep, ClientTypesStep, PageTypesStep
    <2> QED
        BY <2>1, <2>2 DEF Types
<1> QED
    BY <1>1, <1>2, PTL DEF Spec

-----------------------------------------------------------------------------
(***************************************************************************)
(* The socket.  A page that is gone has left at most its close on the way; *)
(* until the server has an open page's subscription to channelStart, which *)
(* is the first thing the page sends, the page has been told nothing.      *)
(***************************************************************************)
Unheard ==
    /\ subscribed = [n \in Names |-> 0]
    /\ toClient = <<>> /\ ~told /\ ~unstopped

ClosedSocket ==
    ~page.open =>
        /\ page = NoPage
        /\ \/ toServer = <<>> /\ Unheard
           \/ toServer = <<[kind |-> "close"]>>

OpenSocket ==
    page.open => \A i \in 1 .. Len(toServer) :
        /\ toServer[i].kind # "close"
        /\ About(toServer[i], "channelStart") =>
              i = 1 /\ toServer[i].subscribe /\ subscribed["channelStart"] = 0

Unknown ==
    page.open /\ subscribed["channelStart"] = 0 =>
        /\ Unheard /\ ~Listening
        /\ 1 \in 1 .. Len(toServer) /\ About(toServer[1], "channelStart")
        /\ \A i \in 1 .. Len(toServer), n \in Media : ~About(toServer[i], n)

SocketInv == ClosedSocket /\ OpenSocket /\ Unknown

LEMMA Listens ==
    ASSUME Types
    PROVE  Listening <=> ~Without(page.stopListeners)
<1>1. page.stopListeners \in Seq(Listeners)
    BY DEF Types, PageTypes
<1>2. DOMAIN page.stopListeners = 1 .. Len(page.stopListeners)
    BY <1>1, LenProperties
<1> QED
    BY <1>2 DEF Listening, ToSet, Without

LEMMA SocketInit == Init => SocketInv
BY DEF Init, SocketInv, ClosedSocket, OpenSocket, Unknown, Unheard, NoPage

\* Nothing is sent to a page that has not subscribed.
LEMMA NothingHeard ==
    ASSUME Types, Unheard, NEW m \in Downstream, m.name \in Names
    PROVE  Notify(toClient, m) = toClient
BY DEF Unheard, Notify

LEMMA SocketSame ==
    ASSUME SocketInv, UNCHANGED <<page, toServer, subscribed>>, Unheard => Unheard'
    PROVE  SocketInv'
<1>1. ClosedSocket'
    BY DEF SocketInv, ClosedSocket
<1>2. OpenSocket'
    BY DEF SocketInv, OpenSocket
<1>3. Unknown'
    BY DEF SocketInv, Unknown, Listening
<1> QED
    BY <1>1, <1>2, <1>3 DEF SocketInv

LEMMA SocketStep ==
    ASSUME Types, Types', SocketInv, [Next]_vars
    PROVE  SocketInv'
<1>0. /\ toClient \in Seq(Downstream) /\ toServer \in Seq(Requests)
      /\ Len(toServer) \in Nat /\ subscribed \in [Names -> Nat]
      /\ "channelStart" \in Names /\ "channelStop" \in Names
      /\ "focusRequest" \in Names /\ Media \subseteq Names
    BY NamesAre, LenProperties DEF Types, ClientTypes, PhoneTypes, Media
<1>u. Unheard => /\ ~(subscribed["channelStart"] > 0)
                 /\ ~(subscribed["channelStop"] > 0)
                 /\ ~(subscribed["focusRequest"] > 0)
    BY <1>0 DEF Unheard
<1>1. CASE SessionStarts \/ PhoneTakesFocus \/ OtherPage \/ UNCHANGED vars
    <2>1. UNCHANGED <<page, toServer, subscribed, toClient, told, unstopped>>
        BY <1>1 DEF SessionStarts, PhoneTakesFocus, OtherPage, vars, history
    <2> QED
        BY <2>1, SocketSame DEF Unheard
<1>2. CASE SessionEnds \/ PhoneStopsChannel
    <2>1. ChannelStop /\ UNCHANGED <<page, toServer, subscribed>>
        BY <1>2 DEF SessionEnds, PhoneStopsChannel
    <2>2. Unheard => Unheard'
        <3>1. Unheard => toClient' = toClient
            BY <1>u, <2>1, StopSent
        <3>2. ~told' /\ (Unheard => ~unstopped')
            BY <2>1 DEF ChannelStop, Unheard
        <3> QED
            BY <2>1, <3>1, <3>2 DEF Unheard
    <2> QED
        BY <2>1, <2>2, SocketSame
<1>3. CASE PhoneSetsUp \/ PhoneRequestsFocus
    <2>1. PICK f \in Focus :
              toClient' = Notify(toClient, [name |-> "focusRequest", mode |-> f])
        BY <1>3 DEF PhoneSetsUp, PhoneRequestsFocus, Focus
    <2>2. UNCHANGED <<page, toServer, subscribed, told, unstopped>>
        BY <1>3 DEF PhoneSetsUp, PhoneRequestsFocus, history
    <2>3. Unheard => toClient' = toClient
        BY <1>0, <2>1, NothingHeard, ServerMessages
    <2> QED
        BY <2>2, <2>3, SocketSame DEF Unheard
<1>4. CASE PhoneStartsChannel
    <2>1. /\ UNCHANGED <<page, toServer, subscribed, unstopped>>
          /\ toClient' = Notify(toClient, [name |-> "channelStart"])
          /\ told' = (subscribed["channelStart"] > 0)
        BY <1>4 DEF PhoneStartsChannel, ChannelStart
    <2>2. Unheard => toClient' = toClient
        BY <1>0, <2>1, NothingHeard, ServerMessages
    <2>3. Unheard => ~told'
        BY <1>u, <2>1, Zenon
    <2> QED
        BY <2>1, <2>2, <2>3, SocketSame DEF Unheard
<1>5. CASE PhoneSendsMedia
    <2>1. PICK good \in BOOLEAN : HandleData(good)
        BY <1>5 DEF PhoneSendsMedia
    <2>2. UNCHANGED <<page, toServer, subscribed, told, unstopped>>
        BY <1>5 DEF PhoneSendsMedia
    <2>3. Unheard => toClient' = toClient
        <3>1. \/ toClient' = toClient
              \/ \E n \in Media : Send(n) /\ codecState # "STOPPED"
            BY <2>1 DEF HandleData, Media
        <3>2. ASSUME NEW n \in Media, Send(n), codecState # "STOPPED", Unheard
              PROVE  toClient' = toClient
            <4>1. [name |-> n, start |-> starts] \in Downstream
                BY <3>2, ServerMessages DEF Media, Types, ClientTypes
            <4> QED
                BY <1>0, <3>2, <4>1, NothingHeard DEF Send
        <3> QED
            BY <3>1, <3>2
    <2> QED
        BY <2>2, <2>3, SocketSame DEF Unheard
<1>6. CASE PageOpens
    <2> DEFINE x == Subscribe("channelStart", TRUE)
    <2>1. /\ page' = [NoPage EXCEPT !.open = TRUE] /\ toServer' = <<x>>
          /\ UNCHANGED <<subscribed, toClient, told, unstopped>>
          /\ ~page.open /\ toServer = <<>>
        BY <1>6 DEF PageOpens, history
    <2>2. Unheard
        BY <2>1 DEF SocketInv, ClosedSocket
    <2>3. Unheard' /\ subscribed' = subscribed /\ page'.open
        BY <2>1, <2>2 DEF Unheard, NoPage
    <2>4. /\ x.kind # "close" /\ About(x, "channelStart") /\ x.subscribe
          /\ \A n \in Media : ~About(x, n)
        BY DEF Subscribe, About, Media
    <2>5. ~Listening'
        BY <2>1 DEF NoPage, Listening, ToSet
    <2> HIDE DEF x
    <2>6. Len(<<x>>) = 1 /\ <<x>>[1] = x
        OBVIOUS
    <2>7. subscribed'["channelStart"] = 0
        BY <1>0, <2>3 DEF Unheard
    <2>8. OpenSocket' /\ Unknown'
        BY <2>1, <2>3, <2>4, <2>5, <2>6, <2>7 DEF OpenSocket, Unknown
    <2> QED
        BY <2>3, <2>8 DEF SocketInv, ClosedSocket
<1>7. CASE PageCloses
    <2>1. page' = NoPage /\ toServer' = <<[kind |-> "close"]>> /\ ~page'.open
        BY <1>7 DEF PageCloses, NoPage
    <2> QED
        BY <2>1 DEF SocketInv, ClosedSocket, OpenSocket, Unknown
<1>8. CASE VideoHidden
    <2>1. /\ page.open <=> page'.open
          /\ page'.stopListeners = page.stopListeners
          /\ page.open
          /\ UNCHANGED <<toServer, subscribed, toClient, told, unstopped>>
        BY <1>8 DEF VideoHidden, history, Types, PageTypes, SocketInv, ClosedSocket, NoPage
    <2> QED
        BY <2>1 DEF SocketInv, ClosedSocket, OpenSocket, Unknown, Unheard, Listening
<1>9. CASE StoreInitializes \/ VideoShown \/ HideTimer \/ PageReceives
    <2>1. page.open
        BY <1>9 DEF StoreInitializes, VideoShown, HideTimer, PageReceives,
            SocketInv, ClosedSocket, NoPage
    <2>2. /\ page'.open /\ UNCHANGED <<subscribed, told, unstopped>>
          /\ ~PageReceives =>
                /\ UNCHANGED toClient
                /\ \/ page'.stopListeners = page.stopListeners
                   \/ page'.stopListeners = Append(page.stopListeners, "store")
        <3>1. CASE StoreInitializes
            BY <2>1, <3>1 DEF StoreInitializes, Types, PageTypes, history
        <3>2. CASE VideoShown
            BY <2>1, <3>2 DEF VideoShown, Types, PageTypes, history
        <3>3. CASE HideTimer
            BY <2>1, <3>3 DEF HideTimer, Types, PageTypes, history
        <3>4. CASE PageReceives
            <4>1. page'.open
                BY <2>1, <3>4 DEF PageReceives, OnChannelStart, OnChannelStop,
                   OnCodecConfig, OnFrame, OnFocusRequest, OnReply, Types, PageTypes
            <4> QED
                BY <3>4, <4>1 DEF PageReceives, history
        <3> QED
            BY <1>9, <3>1, <3>2, <3>3, <3>4
    <2>3. PICK a \in Seq(Sent) : Sends(a)
        BY <1>9, PageSends
    <2>4. toServer' = toServer \o a /\ a \in Seq(Requests) /\ \A i \in 1 .. Len(a) : a[i] \in Sent
        BY <2>3, ElementOfSeq DEF Sends, Sent
    <2>5. /\ Len(toServer') \in Nat /\ Len(toServer) <= Len(toServer')
          /\ \A i \in 1 .. Len(toServer) : toServer'[i] = toServer[i]
          /\ \A i \in 1 .. Len(toServer') :
                \/ i \in 1 .. Len(toServer) /\ toServer'[i] = toServer[i]
                \/ i - Len(toServer) \in 1 .. Len(a) /\ toServer'[i] = a[i - Len(toServer)]
        <3>1. Len(a) \in Nat
            BY LenProperties
        <3> QED
            BY <1>0, <2>4, <3>1, Longer
    <2>6. OpenSocket'
        <3> SUFFICES ASSUME NEW i \in 1 .. Len(toServer')
                     PROVE  /\ toServer'[i].kind # "close"
                            /\ About(toServer'[i], "channelStart") =>
                                 i = 1 /\ toServer'[i].subscribe /\ subscribed'["channelStart"] = 0
            BY DEF OpenSocket
        <3>1. CASE i \in 1 .. Len(toServer) /\ toServer'[i] = toServer[i]
            BY <2>1, <2>2, <3>1 DEF SocketInv, OpenSocket
        <3>2. CASE i - Len(toServer) \in 1 .. Len(a) /\ toServer'[i] = a[i - Len(toServer)]
            <4>1. toServer'[i] \in Sent
                BY <2>4, <3>2
            <4> QED
                BY <4>1 DEF Sent, About
        <3> QED
            BY <2>5, <3>1, <3>2
    <2>7. Unknown'
        <3> SUFFICES ASSUME subscribed["channelStart"] = 0 PROVE Unknown'
            BY <2>2 DEF Unknown
        <3>1. /\ Unheard /\ ~Listening /\ 1 \in 1 .. Len(toServer)
              /\ About(toServer[1], "channelStart")
              /\ \A i \in 1 .. Len(toServer), n \in Media : ~About(toServer[i], n)
            BY <2>1 DEF SocketInv, Unknown
        <3>2. ~PageReceives
            BY <3>1 DEF PageReceives, Unheard
        <3>3. Unheard'
            BY <2>2, <3>1, <3>2 DEF Unheard
        <3>4. ~Listening'
            <4>1. Without(page.stopListeners) /\ page.stopListeners \in Seq(Listeners)
                BY <3>1, Listens DEF Types, PageTypes
            <4>2. Without(Append(page.stopListeners, "store"))
                <5> DEFINE s == page.stopListeners
                           t == Append(s, "store")
                <5>1. "store" \in Listeners /\ s \in Seq(Listeners)
                    BY <4>1 DEF Listeners
                <5> HIDE DEF s
                <5>2. /\ Len(t) = Len(s) + 1 /\ Len(s) \in Nat
                      /\ \A i \in 1 .. Len(s) : t[i] = s[i]
                      /\ t[Len(s) + 1] = "store"
                    BY <5>1, OneMore
                <5> HIDE DEF t
                <5>3. Without(s)
                    BY <4>1 DEF s
                <5>4. \A i \in 1 .. Len(t) : i \in 1 .. Len(s) \/ i = Len(s) + 1
                    BY <5>2
                <5>5. Without(t)
                    BY <5>2, <5>3, <5>4 DEF Without
                <5> QED
                    BY <5>5 DEF s, t
            <4>3. Without(page'.stopListeners)
                BY <2>2, <3>2, <4>1, <4>2
            <4>4. Types' => (Listening' <=> ~Without(page'.stopListeners))
                <5>1. Types' => page'.stopListeners \in Seq(Listeners)
                    BY DEF Types, PageTypes
                <5>2. Types' => DOMAIN page'.stopListeners = 1 .. Len(page'.stopListeners)
                    BY <5>1, LenProperties
                <5> QED
                    BY <5>2 DEF Listening, ToSet, Without
            <4> QED
                BY <4>3, <4>4
        <3>5. ASSUME NEW i \in 1 .. Len(toServer'), NEW n \in Media
              PROVE  ~About(toServer'[i], n)
            <4>1. \A l \in 1 .. Len(a) : ~About(a[l], n)
                BY <2>3, <3>2 DEF Sends
            <4> QED
                BY <2>5, <3>1, <4>1
        <3>6. 1 \in 1 .. Len(toServer') /\ About(toServer'[1], "channelStart")
            BY <2>5, <3>1, <1>0
        <3> QED
            BY <3>3, <3>4, <3>5, <3>6 DEF Unknown
    <2> QED
        BY <2>2, <2>6, <2>7 DEF SocketInv, ClosedSocket
<1>10. CASE ServerReceives
    <2> DEFINE m == Head(toServer)
    <2>1. /\ toServer # <<>> /\ toServer' = Tail(toServer)
          /\ \/ ServerSubscribes(m) \/ ServerAnswers(m)
             \/ ServerSendsFocus(m) \/ ServerClosesSocket(m)
          /\ UNCHANGED page
        BY <1>10 DEF ServerReceives
    <2>2. /\ Len(toServer') = Len(toServer) - 1 /\ 1 \in 1 .. Len(toServer)
          /\ \A i \in 1 .. Len(toServer) - 1 : toServer'[i] = toServer[i + 1]
          /\ m = toServer[1] /\ m \in Requests
        BY <1>0, <2>1, OneLess
    <2> HIDE DEF m
    <2>3. CASE ~page.open
        <3>1. toServer = <<[kind |-> "close"]>>
            BY <2>1, <2>3 DEF SocketInv, ClosedSocket
        <3>2. m.kind = "close" /\ toServer' = <<>>
            BY <2>1, <2>2, <3>1
        <3>3. Unheard'
            BY <2>1, <3>2 DEF ServerSubscribes, ServerAnswers, ServerSendsFocus,
               ServerClosesSocket, Unheard
        <3> QED
            BY <2>1, <2>3, <3>2, <3>3 DEF SocketInv, ClosedSocket, OpenSocket, Unknown
    <2>4. CASE page.open
        <3>1. m.kind # "close"
            BY <2>2, <2>4 DEF SocketInv, OpenSocket
        <3>2. About(m, "channelStart") => m.subscribe /\ subscribed["channelStart"] = 0
            BY <2>2, <2>4 DEF SocketInv, OpenSocket
        <3>3. subscribed["channelStart"] = 0 => About(m, "channelStart")
            BY <2>2, <2>4 DEF SocketInv, Unknown
        <3>4. subscribed'["channelStart"] # 0
            <4>1. CASE About(m, "channelStart")
                <5>1. ServerSubscribes(m) /\ m.name = "channelStart" /\ m.subscribe
                    BY <2>1, <3>2, <4>1 DEF ServerSubscribes, ServerAnswers, ServerSendsFocus,
                       ServerClosesSocket, About
                <5>2. subscribed' = [subscribed EXCEPT !["channelStart"] = subscribed["channelStart"] + 1]
                    BY <5>1 DEF ServerSubscribes
                <5> QED
                    BY <1>0, <3>2, <4>1, <5>2
            <4>2. CASE ~About(m, "channelStart")
                <5>1. \/ subscribed' = subscribed
                      \/ /\ m.kind = "subscribe"
                         /\ \E k : subscribed' = [subscribed EXCEPT ![m.name] = k]
                    BY <2>1, <3>1 DEF ServerSubscribes, ServerAnswers, ServerSendsFocus,
                       ServerClosesSocket
                <5>2. subscribed'["channelStart"] = subscribed["channelStart"]
                    BY <1>0, <4>2, <5>1 DEF About
                <5> QED
                    BY <3>3, <4>2, <5>2
            <4> QED
                BY <4>1, <4>2
        <3>5. ASSUME NEW i \in 1 .. Len(toServer')
              PROVE  toServer'[i].kind # "close" /\ ~About(toServer'[i], "channelStart")
            <4>1. i + 1 \in 1 .. Len(toServer) /\ i + 1 # 1 /\ toServer'[i] = toServer[i + 1]
                BY <1>0, <2>2
            <4> QED
                BY <2>4, <4>1 DEF SocketInv, OpenSocket
        <3> QED
            BY <2>1, <2>4, <3>4, <3>5 DEF SocketInv, ClosedSocket, OpenSocket, Unknown
    <2> QED
        BY <2>3, <2>4
<1> QED
    BY <1>1, <1>2, <1>3, <1>4, <1>5, <1>6, <1>7, <1>8, <1>9, <1>10 DEF Next

-----------------------------------------------------------------------------
(***************************************************************************)
(* What the phone has been told when it has taken everything.              *)
(***************************************************************************)
LEMMA TakenAsTold ==
    ASSUME Types, PhoneTakesFocus
    PROVE  FocusTold' = FocusTold
<1> DEFINE q == toPhone
<1>1. /\ q # <<>> /\ focus' = Head(q) /\ toPhone' = Tail(q) /\ q \in Seq(Focus)
    BY DEF PhoneTakesFocus, Types, PhoneTypes
<1> HIDE DEF q
<1> DEFINE t == Tail(q)
<1>2. /\ t \in Seq(Focus) /\ Len(q) \in Nat /\ 1 \in 1 .. Len(q)
      /\ Len(t) = Len(q) - 1 /\ Head(q) = q[1]
      /\ \A i \in 1 .. Len(q) - 1 : t[i] = q[i + 1]
    BY <1>1, OneLess
<1>3. FocusTold = q[Len(q)] /\ toPhone' = t
    BY <1>1 DEF FocusTold, Last, q
<1> HIDE DEF t
<1>e. \A s \in Seq(Focus) : s # <<>> => Len(s) # 0
    BY EmptySeq
<1>4. CASE Len(q) = 1
    <2>1. t = <<>>
        BY <1>2, <1>4, <1>e
    <2> QED
        BY <1>1, <1>2, <1>3, <1>4, <2>1 DEF FocusTold
<1>5. CASE Len(q) # 1
    <2>1. Len(q) - 1 \in 1 .. Len(q) - 1 /\ (Len(q) - 1) + 1 = Len(q)
        BY <1>2, <1>5
    <2>2. t # <<>>
        <3>1. Len(<<>>) = 0 /\ Len(t) # 0
            BY <1>2, <1>5
        <3> QED
            BY <3>1
    <2>3. t[Len(t)] = q[Len(q)]
        BY <1>2, <2>1
    <2> QED
        BY <1>3, <2>2, <2>3 DEF FocusTold, Last
<1> QED
    BY <1>4, <1>5

LEMMA ToldFocus ==
    ASSUME Types, NEW f \in Focus, toPhone' = TellPhone(f), UNCHANGED <<session, focus>>
    PROVE  /\ session => FocusTold' = f
           /\ ~session => FocusTold' = FocusTold
<1>1. toPhone \in Seq(Focus)
    BY DEF Types, PhoneTypes
<1>2. CASE session
    <2> DEFINE q == Append(toPhone, f)
    <2>1. toPhone' = q
        BY <1>2 DEF TellPhone
    <2>2. q \in Seq(Focus) /\ Len(q) = Len(toPhone) + 1 /\ q[Len(toPhone) + 1] = f
          /\ Len(toPhone) \in Nat
        BY <1>1, OneMore
    <2> HIDE DEF q
    <2>3. q # <<>> /\ q[Len(q)] = f
        BY <2>2
    <2> QED
        BY <1>2, <2>1, <2>3 DEF FocusTold, Last
<1>3. CASE ~session
    BY <1>3 DEF TellPhone, FocusTold
<1> QED
    BY <1>2, <1>3

LEMMA FocusSame ==
    ASSUME UNCHANGED <<focus, toPhone>>
    PROVE  FocusTold' = FocusTold
BY DEF FocusTold

\* What the server does with the first message on its way from a page.
LEMMA ServerStep ==
    ASSUME Types, ServerReceives
    PROVE  /\ toServer # <<>> /\ toServer' = Tail(toServer)
           /\ Len(toServer) \in Nat /\ 1 \in 1 .. Len(toServer)
           /\ Len(toServer') = Len(toServer) - 1
           /\ \A i \in 1 .. Len(toServer') :
                 i + 1 \in 1 .. Len(toServer) /\ toServer'[i] = toServer[i + 1]
           /\ \A i \in 1 .. Len(toServer) :
                 i # 1 => i - 1 \in 1 .. Len(toServer') /\ toServer'[i - 1] = toServer[i]
           /\ toServer[1] \in Requests
           /\ \/ ServerSubscribes(toServer[1]) \/ ServerAnswers(toServer[1])
              \/ ServerSendsFocus(toServer[1]) \/ ServerClosesSocket(toServer[1])
           /\ UNCHANGED <<server, otherOpen, phone, focus, page, starts, spent>>
<1> DEFINE m == Head(toServer)
<1>1. /\ toServer # <<>> /\ toServer' = Tail(toServer)
      /\ \/ ServerSubscribes(m) \/ ServerAnswers(m)
         \/ ServerSendsFocus(m) \/ ServerClosesSocket(m)
      /\ UNCHANGED <<server, otherOpen, phone, focus, page, starts, spent>>
    BY DEF ServerReceives
<1>2. /\ Len(toServer') = Len(toServer) - 1 /\ 1 \in 1 .. Len(toServer)
      /\ Len(toServer) \in Nat
      /\ \A i \in 1 .. Len(toServer) - 1 : toServer'[i] = toServer[i + 1]
      /\ m = toServer[1] /\ m \in Requests
    BY <1>1, OneLess DEF Types, PhoneTypes
<1> HIDE DEF m
<1>3. \A i \in 1 .. Len(toServer') :
          i + 1 \in 1 .. Len(toServer) /\ toServer'[i] = toServer[i + 1]
    BY <1>2
<1>4. \A i \in 1 .. Len(toServer) :
          i # 1 => i - 1 \in 1 .. Len(toServer') /\ toServer'[i - 1] = toServer[i]
    <2> TAKE i \in 1 .. Len(toServer)
    <2>1. CASE i # 1
        <3>1. i - 1 \in 1 .. Len(toServer) - 1 /\ (i - 1) + 1 = i
            BY <1>2, <2>1
        <3> QED
            BY <1>2, <3>1
    <2> QED
        BY <2>1
<1> QED
    BY <1>1, <1>2, <1>3, <1>4

\* What an open page does: what it sends comes last.
LEMMA PageStep ==
    ASSUME Types, SocketInv,
           StoreInitializes \/ VideoShown \/ HideTimer \/ PageReceives
    PROVE  /\ page.open
           /\ \E a \in Seq(Sent) :
                 /\ Sends(a)
                 /\ Len(a) \in Nat /\ Len(toServer) \in Nat
                 /\ Len(toServer') = Len(toServer) + Len(a)
                 /\ \A i \in 1 .. Len(toServer) : toServer'[i] = toServer[i]
                 /\ \A i \in 1 .. Len(a) : a[i] \in Sent /\ toServer'[Len(toServer) + i] = a[i]
                 /\ \A i \in 1 .. Len(toServer') :
                       \/ i \in 1 .. Len(toServer) /\ toServer'[i] = toServer[i]
                       \/ i - Len(toServer) \in 1 .. Len(a) /\ toServer'[i] = a[i - Len(toServer)]
           /\ UNCHANGED <<server, subscribed, otherOpen, phone, focus, toPhone, history>>
<1>1. page.open
    BY DEF StoreInitializes, VideoShown, HideTimer, PageReceives, SocketInv,
       ClosedSocket, NoPage
<1>2. PICK a \in Seq(Sent) : Sends(a)
    BY PageSends
<1>3. toServer' = toServer \o a /\ a \in Seq(Requests) /\ toServer \in Seq(Requests)
      /\ \A i \in 1 .. Len(a) : a[i] \in Sent
    BY <1>2, ElementOfSeq DEF Sends, Sent, Types, PhoneTypes
<1>4. UNCHANGED <<server, subscribed, otherOpen, phone, focus, toPhone, history>>
    BY DEF StoreInitializes, VideoShown, HideTimer, PageReceives
<1>5. /\ Len(a) \in Nat /\ Len(toServer) \in Nat
      /\ Len(toServer') = Len(toServer) + Len(a)
      /\ \A i \in 1 .. Len(toServer) : toServer'[i] = toServer[i]
      /\ \A i \in 1 .. Len(a) : a[i] \in Sent /\ toServer'[Len(toServer) + i] = a[i]
      /\ \A i \in 1 .. Len(toServer') :
            \/ i \in 1 .. Len(toServer) /\ toServer'[i] = toServer[i]
            \/ i - Len(toServer) \in 1 .. Len(a) /\ toServer'[i] = a[i - Len(toServer)]
    BY <1>3, Longer
<1> QED
    BY <1>1, <1>2, <1>4, <1>5

\* Only a page that is subscribed to channelStart, or another one, makes the
\* phone project: the last one that goes tells it to stop.
LEMMA NativeStep ==
    ASSUME CodecInv, Types, SocketInv, NativeWithoutClients, [Next]_vars
    PROVE  NativeWithoutClients'
<1> USE DEF NativeWithoutClients
<1>1. CASE SessionStarts \/ SessionEnds
    BY <1>1 DEF SessionStarts, SessionEnds, FocusTold
<1>2. CASE PhoneTakesFocus
    <2>1. UNCHANGED <<session, subscribed, otherOpen>>
        BY <1>2 DEF PhoneTakesFocus, server
    <2> QED
        BY <1>2, <2>1, TakenAsTold
<1>3. CASE \/ PhoneSetsUp \/ PhoneStartsChannel \/ PhoneStopsChannel \/ PhoneSendsMedia
           \/ PhoneRequestsFocus \/ PageOpens \/ PageCloses \/ StoreInitializes
           \/ VideoShown \/ VideoHidden \/ HideTimer \/ PageReceives \/ UNCHANGED vars
    <2>1. UNCHANGED <<session, subscribed, otherOpen, focus, toPhone>>
        BY <1>3 DEF PhoneSetsUp, PhoneStartsChannel, PhoneStopsChannel, PhoneSendsMedia,
           PhoneRequestsFocus, PageOpens, PageCloses, StoreInitializes, VideoShown,
           VideoHidden, HideTimer, PageReceives, vars, server, HandleData
    <2> QED
        BY <2>1, FocusSame
<1>4. CASE ServerReceives
    <2> DEFINE m == toServer[1]
    <2>1. /\ \/ ServerSubscribes(m) \/ ServerAnswers(m)
             \/ ServerSendsFocus(m) \/ ServerClosesSocket(m)
          /\ 1 \in 1 .. Len(toServer)
          /\ UNCHANGED <<session, otherOpen, focus>>
        BY <1>4, ServerStep DEF server
    <2>2. "native" \in Focus /\ session \in BOOLEAN
        BY DEF Focus, CodecInv, CodecType
    <2>3. ASSUME NEW count, NEW other, toPhone' = NoClients(count, other)
          PROVE  \/ count = 0 /\ ~other /\ (session => FocusTold' = "native")
                 \/ ~(count = 0 /\ ~other) /\ FocusTold' = FocusTold
        BY <2>1, <2>2, <2>3, ToldFocus, FocusSame DEF NoClients
    <2>4. CASE ServerSubscribes(m)
        <3> DEFINE count == IF m.subscribe THEN subscribed[m.name] + 1
                                           ELSE subscribed[m.name] - 1
        <3>1. /\ m.name \in Names
              /\ \/ subscribed' = subscribed
                 \/ subscribed' = [subscribed EXCEPT ![m.name] = count]
              /\ toPhone' = IF m.name = "channelStart" /\ subscribed' # subscribed
                            THEN NoClients(count, otherOpen) ELSE toPhone
            BY <2>4, ServerStep, <1>4, Messages DEF ServerSubscribes
        <3>2. subscribed \in [Names -> Nat] /\ "channelStart" \in Names
            BY NamesAre DEF Types, PhoneTypes
        <3> HIDE DEF count, m
        <3>3. CASE m.name = "channelStart" /\ subscribed' # subscribed
            <4>1. subscribed'["channelStart"] = count /\ toPhone' = NoClients(count, otherOpen)
                BY <3>1, <3>2, <3>3
            <4> QED
                BY <2>1, <2>3, <4>1
        <3>4. CASE ~(m.name = "channelStart" /\ subscribed' # subscribed)
            <4>1. subscribed'["channelStart"] = subscribed["channelStart"] /\ toPhone' = toPhone
                BY <3>1, <3>2, <3>4
            <4> QED
                BY <2>1, <4>1, FocusSame
        <3> QED
            BY <3>3, <3>4
    <2>5. CASE ServerAnswers(m)
        BY <2>1, <2>5, FocusSame DEF ServerAnswers
    <2>6. CASE ServerSendsFocus(m)
        <3>1. ~About(m, "channelStart") /\ m.kind # "close"
            BY <2>6 DEF ServerSendsFocus, About
        <3>2. CASE page.open
            BY <2>1, <2>6, <3>1, <3>2 DEF SocketInv, Unknown, ServerSendsFocus
        <3>3. CASE ~page.open
            BY <2>1, <3>1, <3>3 DEF SocketInv, ClosedSocket
        <3> QED
            BY <3>2, <3>3
    <2>7. CASE ServerClosesSocket(m)
        <3>1. toPhone' = NoClients(0, otherOpen)
            BY <2>7 DEF ServerClosesSocket
        <3> QED
            BY <2>1, <2>3, <3>1
    <2> QED
        BY <2>1, <2>4, <2>5, <2>6, <2>7
<1>5. CASE OtherPage
    <2>1. UNCHANGED <<session, subscribed, focus>>
        BY <1>5 DEF OtherPage, server
    <2>2. CASE otherOpen'
        BY <2>2
    <2>3. CASE ~otherOpen'
        <3>1. toPhone' = NoClients(subscribed["channelStart"], FALSE)
            <4>1. \/ otherOpen' = TRUE
                  \/ otherOpen /\ otherOpen' = otherOpen
                  \/ toPhone' = NoClients(subscribed["channelStart"], FALSE)
                BY <1>5, Zenon DEF OtherPage
            <4>2. ASSUME otherOpen, otherOpen' = otherOpen PROVE FALSE
                <5>1. otherOpen = TRUE
                    BY <4>2 DEF Types, PhoneTypes
                <5>2. otherOpen' = TRUE
                    BY <4>2, <5>1
                <5> QED
                    BY <2>3, <5>2
            <4>3. otherOpen' # TRUE
                BY <2>3
            <4> QED
                BY <4>1, <4>2, <4>3, Zenon
        <3>2. subscribed["channelStart"] = 0 => toPhone' = TellPhone("native")
            BY <3>1 DEF NoClients
        <3> QED
            BY <2>1, <3>2, ToldFocus DEF Focus
    <2> QED
        BY <2>2, <2>3
<1> QED
    BY <1>1, <1>2, <1>3, <1>4, <1>5 DEF Next

\* When nobody is subscribed to the channel any more the phone has been told
\* to stop projecting.
THEOREM NobodyMakesItProject == Spec => []NativeWithoutClients
<1>1. Init => SocketInv /\ NativeWithoutClients
    BY SocketInit DEF Init, NativeWithoutClients
<1>2. CodecInv /\ Types /\ Types' /\ SocketInv /\ NativeWithoutClients /\ [Next]_vars
          => SocketInv' /\ NativeWithoutClients'
    BY SocketStep, NativeStep
<1> QED
    BY <1>1, <1>2, Typed, PTL DEF Spec

-----------------------------------------------------------------------------
(***************************************************************************)
(* The focus the page decides on.  Of f and g, the phone will have f when  *)
(* it has been told all that is on its way: the page says f after every g, *)
(* or it does not say g any more and the phone has been told f.            *)
(***************************************************************************)
Speaks(q, i, f) == Says(q[i]) /\ q[i].focus = f

LastSaid(q, f, g) ==
    \E i \in 1 .. Len(q) :
        Speaks(q, i, f) /\ \A l \in 1 .. Len(q) : Speaks(q, l, g) => l < i

NeverSaid(q, g) == \A l \in 1 .. Len(q) : ~Speaks(q, l, g)

WillBe(f, g) ==
    \/ LastSaid(toServer, f, g)
    \/ NeverSaid(toServer, g) /\ (session => FocusTold = f)

LEMMA WillBeTold ==
    ASSUME Types, NEW f \in Focus, NEW g \in Focus, f # g, WillBe(f, g),
           UNCHANGED toServer,
           (FocusTold' = FocusTold /\ UNCHANGED session) \/ (session' => FocusTold' = f)
    PROVE  WillBe(f, g)'
<1>1. CASE LastSaid(toServer, f, g)
    BY <1>1 DEF WillBe
<1>2. CASE NeverSaid(toServer, g) /\ (session => FocusTold = f)
    <2>1. session' => FocusTold' = f
        BY <1>2
    <2> QED
        BY <1>2, <2>1 DEF WillBe
<1> QED
    BY <1>1, <1>2 DEF WillBe

\* An open page's subscriptions do not tell the phone anything.
LEMMA ServerTells ==
    ASSUME Types, SocketInv, page.open, ServerReceives
    PROVE  LET m == toServer[1]
           IN  \/ Says(m) /\ m.focus \in Focus /\ toPhone' = TellPhone(m.focus)
               \/ ~Says(m) /\ toPhone' = toPhone
<1> DEFINE m == toServer[1]
<1>1. /\ \/ ServerSubscribes(m) \/ ServerAnswers(m)
         \/ ServerSendsFocus(m) \/ ServerClosesSocket(m)
      /\ 1 \in 1 .. Len(toServer) /\ m \in Requests
    BY ServerStep
<1>2. m.kind # "close" /\ (About(m, "channelStart") => m.subscribe)
    BY <1>1 DEF SocketInv, OpenSocket
<1> HIDE DEF m
<1>3. CASE ServerSubscribes(m)
    <2>1. ~Says(m) /\ m.kind = "subscribe" /\ m.name \in Names
        BY <1>1, <1>3, Messages DEF ServerSubscribes, Says
    <2>2. CASE m.name = "channelStart"
        <3>1. m.subscribe
            BY <1>2, <2>1, <2>2 DEF About
        <3>2. subscribed[m.name] + 1 # 0
            BY <2>1 DEF Types, PhoneTypes
        <3>3. NoClients(subscribed[m.name] + 1, otherOpen) = toPhone
            BY <3>2 DEF NoClients
        <3> QED
            BY <1>3, <2>1, <3>1, <3>3 DEF ServerSubscribes, m
    <2>3. CASE m.name # "channelStart"
        BY <1>3, <2>1, <2>3 DEF ServerSubscribes, m
    <2> QED
        BY <2>2, <2>3
<1>4. CASE ServerAnswers(m)
    BY <1>4 DEF ServerAnswers, Says, m
<1>5. CASE ServerSendsFocus(m)
    BY <1>1, <1>5, Messages DEF ServerSendsFocus, Says, m
<1>6. CASE ServerClosesSocket(m)
    BY <1>2, <1>6 DEF ServerClosesSocket
<1> QED
    BY <1>1, <1>3, <1>4, <1>5, <1>6

LEMMA WillBeTaken ==
    ASSUME Types, SocketInv, page.open, ServerReceives,
           NEW f \in Focus, NEW g \in Focus, f # g, WillBe(f, g)
    PROVE  WillBe(f, g)'
<1> DEFINE q == toServer
           r == toServer'
<1>1. /\ Len(q) \in Nat /\ 1 \in 1 .. Len(q) /\ Len(r) = Len(q) - 1
      /\ \A i \in 1 .. Len(r) : i + 1 \in 1 .. Len(q) /\ r[i] = q[i + 1]
      /\ \A i \in 1 .. Len(q) : i # 1 => i - 1 \in 1 .. Len(r) /\ r[i - 1] = q[i]
      /\ UNCHANGED <<session, focus>>
    BY ServerStep DEF server
<1>2. \/ Says(q[1]) /\ q[1].focus \in Focus /\ toPhone' = TellPhone(q[1].focus)
      \/ ~Says(q[1]) /\ toPhone' = toPhone
    BY ServerTells
<1>3. Focus = {f, g}
    BY DEF Focus
<1>4. WillBe(f, g) <=> LastSaid(q, f, g) \/ (NeverSaid(q, g) /\ (session => FocusTold = f))
    BY DEF WillBe
<1>5. WillBe(f, g)' <=> LastSaid(r, f, g) \/ (NeverSaid(r, g) /\ (session' => FocusTold' = f))
    BY DEF WillBe
<1>6. \/ Says(q[1]) /\ q[1].focus \in Focus /\ (session => FocusTold' = q[1].focus)
      \/ ~Says(q[1]) /\ FocusTold' = FocusTold
    BY <1>1, <1>2, ToldFocus, FocusSame
<1> HIDE DEF q, r
<1>7. ASSUME NEW i \in 1 .. Len(q), i # 1, Speaks(q, i, f),
             \A l \in 1 .. Len(q) : Speaks(q, l, g) => l < i
      PROVE  LastSaid(r, f, g)
    <2>1. PICK p \in 1 .. Len(r) : p = i - 1 /\ r[p] = q[i]
        BY <1>1, <1>7
    <2>2. Speaks(r, p, f)
        BY <1>7, <2>1 DEF Speaks
    <2>3. ASSUME NEW l \in 1 .. Len(r), Speaks(r, l, g) PROVE l < p
        <3>1. l + 1 \in 1 .. Len(q) /\ Speaks(q, l + 1, g)
            BY <1>1, <2>3 DEF Speaks
        <3>2. l + 1 < i
            BY <1>7, <3>1
        <3> QED
            BY <1>1, <2>1, <3>2
    <2> QED
        BY <2>2, <2>3 DEF LastSaid
<1>8. NeverSaid(q, g) => NeverSaid(r, g)
    BY <1>1 DEF NeverSaid, Speaks
<1>9. CASE LastSaid(q, f, g)
    <2>1. PICK i \in 1 .. Len(q) :
              Speaks(q, i, f) /\ \A l \in 1 .. Len(q) : Speaks(q, l, g) => l < i
        BY <1>9 DEF LastSaid
    <2>2. CASE i = 1
        <3>1. \A l \in 1 .. Len(q) : ~(l < 1)
            BY <1>1
        <3>2. NeverSaid(q, g)
            BY <2>1, <2>2, <3>1 DEF NeverSaid
        <3>3. session => FocusTold' = f
            BY <1>6, <2>1, <2>2 DEF Speaks
        <3> QED
            BY <1>1, <1>5, <1>8, <3>2, <3>3
    <2>3. CASE i # 1
        BY <1>5, <1>7, <2>1, <2>3
    <2> QED
        BY <2>2, <2>3
<1>10. CASE NeverSaid(q, g) /\ (session => FocusTold = f)
    <2>1. Says(q[1]) => q[1].focus = f
        BY <1>1, <1>3, <1>6, <1>10 DEF NeverSaid, Speaks
    <2>2. session => FocusTold' = f
        BY <1>6, <1>10, <2>1
    <2> QED
        BY <1>1, <1>5, <1>8, <1>10, <2>2
<1> QED
    BY <1>4, <1>9, <1>10

\* The page says nothing more, or says f last.
LEMMA WillBeSent ==
    ASSUME NEW f \in Focus, NEW g \in Focus, f # g, NEW q, NEW r, NEW a,
           Len(q) \in Nat, Len(a) \in Nat, Len(r) = Len(q) + Len(a),
           \A i \in 1 .. Len(q) : r[i] = q[i],
           \A i \in 1 .. Len(r) :
               \/ i \in 1 .. Len(q)
               \/ i - Len(q) \in 1 .. Len(a) /\ r[i] = a[i - Len(q)]
    PROVE  /\ (\A i \in 1 .. Len(a) : ~Says(a[i])) =>
                 /\ LastSaid(q, f, g) => LastSaid(r, f, g)
                 /\ NeverSaid(q, g) => NeverSaid(r, g)
           /\ Len(a) # 0 /\ Speaks(r, Len(r), f) => LastSaid(r, f, g)
<1>1. ASSUME \A i \in 1 .. Len(a) : ~Says(a[i]), LastSaid(q, f, g)
      PROVE  LastSaid(r, f, g)
    <2>1. PICK i \in 1 .. Len(q) :
              Speaks(q, i, f) /\ \A l \in 1 .. Len(q) : Speaks(q, l, g) => l < i
        BY <1>1 DEF LastSaid
    <2>2. i \in 1 .. Len(r) /\ Speaks(r, i, f)
        BY <2>1 DEF Speaks
    <2>3. ASSUME NEW l \in 1 .. Len(r), Speaks(r, l, g) PROVE l < i
        <3>1. CASE l \in 1 .. Len(q)
            BY <2>1, <2>3, <3>1 DEF Speaks
        <3>2. CASE l - Len(q) \in 1 .. Len(a) /\ r[l] = a[l - Len(q)]
            BY <1>1, <2>3, <3>2 DEF Speaks
        <3> QED
            BY <3>1, <3>2
    <2> QED
        BY <2>2, <2>3 DEF LastSaid
<1>2. ASSUME \A i \in 1 .. Len(a) : ~Says(a[i]), NeverSaid(q, g)
      PROVE  NeverSaid(r, g)
    <2> SUFFICES ASSUME NEW l \in 1 .. Len(r) PROVE ~Speaks(r, l, g)
        BY DEF NeverSaid
    <2>1. CASE l \in 1 .. Len(q)
        BY <1>2, <2>1 DEF NeverSaid, Speaks
    <2>2. CASE l - Len(q) \in 1 .. Len(a) /\ r[l] = a[l - Len(q)]
        BY <1>2, <2>2 DEF Speaks
    <2> QED
        BY <2>1, <2>2
<1>3. ASSUME Len(a) # 0, Speaks(r, Len(r), f) PROVE LastSaid(r, f, g)
    <2>1. Len(r) \in 1 .. Len(r)
        BY <1>3
    <2>2. ASSUME NEW l \in 1 .. Len(r), Speaks(r, l, g) PROVE l < Len(r)
        <3>1. l # Len(r)
            BY <1>3, <2>2 DEF Speaks
        <3> QED
            BY <3>1
    <2> QED
        BY <1>3, <2>1, <2>2 DEF LastSaid
<1> QED
    BY <1>1, <1>2, <1>3

\* What a message of the server does to the counts of a page.
LEMMA PageHears ==
    ASSUME Types, PageReceives
    PROVE  /\ page'.open /\ page'.shown = page.shown
           /\ page'.usageCount = page.usageCount
           /\ page'.initialized = page.initialized
           /\ Head(toClient).name # "getChannelStarted" => page'.stray = page.stray
           /\ Head(toClient).name = "getChannelStarted" => OnReply(Head(toClient))
           /\ Head(toClient).name = "focusRequest" => OnFocusRequest(Head(toClient))
<1> DEFINE m == Head(toClient)
<1>1. /\ page.open
      /\ \/ OnChannelStart(m) \/ OnChannelStop(m) \/ OnCodecConfig(m)
         \/ OnFrame(m) \/ OnFocusRequest(m) \/ OnReply(m)
    BY DEF PageReceives
<1> HIDE DEF m
<1>2. CASE OnChannelStart(m)
    BY <1>1, <1>2 DEF OnChannelStart, Types, PageTypes, m
<1>3. CASE OnChannelStop(m)
    BY <1>1, <1>3 DEF OnChannelStop, Types, PageTypes, m
<1>4. CASE OnCodecConfig(m)
    BY <1>1, <1>4 DEF OnCodecConfig, Types, PageTypes, m
<1>5. CASE OnFrame(m)
    BY <1>1, <1>5 DEF OnFrame, Types, PageTypes, m
<1>6. CASE OnFocusRequest(m)
    BY <1>1, <1>6 DEF OnFocusRequest, Types, PageTypes, m
<1>7. CASE OnReply(m)
    BY <1>1, <1>7 DEF OnReply, Types, PageTypes, m
<1> QED
    BY <1>1, <1>2, <1>3, <1>4, <1>5, <1>6, <1>7

\* The last thing said by the timer, and by a start that goes on.
LEMMA SaidLast ==
    ASSUME Types
    PROVE  /\ HideTimer /\ page.usageCount = 1 =>
                LastSaid(toServer', "native", "projected")
           /\ PageReceives /\ Head(toClient).name = "getChannelStarted" =>
                LastSaid(toServer', "projected", "native")
<1>0. /\ toServer \in Seq(Requests) /\ {"native", "projected"} = Focus
      /\ \A f \in Focus : /\ SendFocus(f) \in Requests /\ Says(SendFocus(f))
                          /\ SendFocus(f).focus = f
    BY Messages DEF Types, PhoneTypes, Focus, Says
<1>1. ASSUME NEW q \in Seq(Requests), NEW f \in Focus, NEW g \in Focus, f # g
      PROVE  LastSaid(q \o <<SendFocus(f)>>, f, g)
    <2> DEFINE r == q \o <<SendFocus(f)>>
               x == SendFocus(f)
    <2>1. x \in Requests /\ Says(x) /\ x.focus = f
        BY <1>0
    <2> HIDE DEF x
    <2>2. <<x>> \in Seq(Requests) /\ Len(<<x>>) = 1 /\ <<x>>[1] = x
        BY <2>1
    <2>3. r = q \o <<x>>
        BY DEF x
    <2> HIDE DEF r
    <2>4. /\ Len(q) \in Nat /\ Len(r) = Len(q) + Len(<<x>>)
          /\ \A i \in 1 .. Len(q) : r[i] = q[i]
          /\ \A i \in 1 .. Len(<<x>>) : r[Len(q) + i] = <<x>>[i]
          /\ \A i \in 1 .. Len(r) :
                \/ i \in 1 .. Len(q)
                \/ i - Len(q) \in 1 .. Len(<<x>>) /\ r[i] = <<x>>[i - Len(q)]
        BY <2>2, <2>3, Longer
    <2>5. r[Len(r)] = x
        BY <2>2, <2>4
    <2> DEFINE a == <<x>>
    <2>a. /\ Len(a) = 1 /\ Len(r) = Len(q) + Len(a)
          /\ \A i \in 1 .. Len(r) :
                \/ i \in 1 .. Len(q)
                \/ i - Len(q) \in 1 .. Len(a) /\ r[i] = a[i - Len(q)]
        BY <2>2, <2>4
    <2> HIDE DEF a
    <2>6. Speaks(r, Len(r), f)
        BY <2>1, <2>5 DEF Speaks
    <2>7. Len(a) \in Nat /\ Len(a) # 0
        BY <2>a
    <2>8. LastSaid(r, f, g)
        BY <1>1, <2>4, <2>6, <2>7, <2>a, WillBeSent
    <2> QED
        BY <2>8 DEF r
<1>2. ASSUME HideTimer, page.usageCount = 1
      PROVE  LastSaid(toServer', "native", "projected")
    <2>1. toServer' = Append(toServer, SendFocus("native"))
        BY <1>2 DEF HideTimer
    <2>2. toServer' = toServer \o <<SendFocus("native")>>
        BY <1>0, <2>1, AppendIsConcat
    <2> QED
        BY <1>0, <1>1, <2>2
<1>3. ASSUME PageReceives, Head(toClient).name = "getChannelStarted"
      PROVE  LastSaid(toServer', "projected", "native")
    <2> DEFINE m == Head(toClient)
               b == IF m.result THEN <<SendFocus("native")>> ELSE <<>>
    <2>1. toServer' = (toServer \o b) \o <<SendFocus("projected")>>
        BY <1>3, PageHears DEF OnReply
    <2>2. b \in Seq(Requests)
        BY <1>0
    <2> HIDE DEF b
    <2>3. toServer \o b \in Seq(Requests)
        BY <1>0, <2>2, Longer
    <2> QED
        BY <1>0, <1>1, <2>1, <2>3
<1> QED
    BY <1>2, <1>3

NativeWill ==
    page.open /\ page.usageCount = 0 /\ ~page.stray => WillBe("native", "projected")

\* With no other page, a page that shows nothing will have the phone not
\* project, unless a start went on after the last view was hidden.
LEMMA NativeWillStep ==
    ASSUME CodecInv, Types, SocketInv, ~otherOpen, NativeWithoutClients, NativeWill,
           [Next]_vars, ~OtherPage
    PROVE  NativeWill'
<1>0. "native" \in Focus /\ "projected" \in Focus /\ page.usageCount \in Nat
    BY DEF Focus, Types, PageTypes
<1>1. ASSUME UNCHANGED <<page, toServer>>,
             (FocusTold' = FocusTold /\ UNCHANGED session) \/ (session' => FocusTold' = "native")
      PROVE  NativeWill'
    BY <1>0, <1>1, WillBeTold DEF NativeWill
<1>2. CASE SessionStarts \/ SessionEnds
    <2>1. /\ UNCHANGED <<page, toServer>>
          /\ session' => FocusTold' = "native"
        BY <1>2 DEF SessionStarts, SessionEnds, FocusTold
    <2> QED
        BY <1>1, <2>1
<1>3. CASE PhoneTakesFocus
    <2>1. UNCHANGED <<page, toServer, session>>
        BY <1>3 DEF PhoneTakesFocus, server
    <2> QED
        BY <1>1, <1>3, <2>1, TakenAsTold
<1>4. CASE \/ PhoneSetsUp \/ PhoneStartsChannel \/ PhoneStopsChannel \/ PhoneSendsMedia
           \/ PhoneRequestsFocus \/ UNCHANGED vars
    <2>1. UNCHANGED <<page, toServer, session, focus, toPhone>>
        BY <1>4 DEF PhoneSetsUp, PhoneStartsChannel, PhoneStopsChannel, PhoneSendsMedia,
           PhoneRequestsFocus, vars, server, HandleData
    <2> QED
        BY <1>1, <2>1, FocusSame
<1>5. CASE ServerReceives
    <2>1. UNCHANGED page
        BY <1>5 DEF ServerReceives
    <2> QED
        BY <1>0, <1>5, <2>1, WillBeTaken DEF NativeWill
<1>6. CASE PageOpens
    <2> DEFINE x == Subscribe("channelStart", TRUE)
    <2>1. /\ ~page.open /\ toServer = <<>> /\ toServer' = <<x>>
          /\ UNCHANGED <<session, focus, toPhone>>
        BY <1>6 DEF PageOpens, server
    <2>2. subscribed["channelStart"] = 0
        BY <2>1, NamesAre DEF SocketInv, ClosedSocket, Unheard
    <2>3. session' => FocusTold' = "native"
        BY <2>1, <2>2, FocusSame DEF NativeWithoutClients
    <2>4. ~Says(x)
        BY DEF Says, Subscribe
    <2> HIDE DEF x
    <2>5. NeverSaid(<<x>>, "projected")
        BY <2>4 DEF NeverSaid, Speaks
    <2> QED
        BY <2>1, <2>3, <2>5 DEF NativeWill, WillBe
<1>7. CASE PageCloses
    BY <1>7 DEF PageCloses, NoPage, NativeWill
<1>8. CASE VideoHidden
    <2>1. /\ page'.open = page.open /\ page'.usageCount = page.usageCount
          /\ page'.stray = page.stray
          /\ UNCHANGED <<toServer, session, focus, toPhone>>
        BY <1>8 DEF VideoHidden, server, Types, PageTypes
    <2> QED
        BY <1>0, <2>1, WillBeTold, FocusSame DEF NativeWill
<1>9. CASE StoreInitializes \/ VideoShown \/ HideTimer \/ PageReceives
    <2>1. page.open /\ UNCHANGED <<session, focus, toPhone>>
        BY <1>9, PageStep DEF server
    <2>2. PICK a \in Seq(Sent) :
              /\ Sends(a) /\ Len(a) \in Nat /\ Len(toServer) \in Nat
              /\ Len(toServer') = Len(toServer) + Len(a)
              /\ \A i \in 1 .. Len(toServer) : toServer'[i] = toServer[i]
              /\ \A i \in 1 .. Len(toServer') :
                    \/ i \in 1 .. Len(toServer) /\ toServer'[i] = toServer[i]
                    \/ i - Len(toServer) \in 1 .. Len(a) /\ toServer'[i] = a[i - Len(toServer)]
        BY <1>9, PageStep
    <2>3. ASSUME \A i \in 1 .. Len(a) : ~Says(a[i]), WillBe("native", "projected")
          PROVE  WillBe("native", "projected")'
        <3>1. /\ LastSaid(toServer, "native", "projected") =>
                    LastSaid(toServer', "native", "projected")
              /\ NeverSaid(toServer, "projected") => NeverSaid(toServer', "projected")
            BY <1>0, <2>2, <2>3, WillBeSent
        <3> QED
            BY <2>1, <2>3, <3>1, FocusSame DEF WillBe
    <2>4. CASE HideTimer
        <3>1. CASE page.usageCount = 1
            BY <2>4, <3>1, SaidLast DEF NativeWill, WillBe
        <3>2. CASE page.usageCount # 1
            <4>1. page'.usageCount = page.usageCount - 1 /\ page.usageCount > page.shown
                  /\ page.shown \in 0 .. 2
                BY <2>4, <3>2 DEF HideTimer, Types, PageTypes
            <4> QED
                BY <1>0, <3>2, <4>1 DEF NativeWill
        <3> QED
            BY <3>1, <3>2
    <2>5. CASE PageReceives /\ Head(toClient).name = "getChannelStarted"
        <3>1. page'.usageCount = page.usageCount /\ page'.stray = (page.usageCount = 0)
            BY <2>5, PageHears DEF OnReply, Types, PageTypes
        <3> QED
            BY <3>1 DEF NativeWill
    <2>6. CASE ~HideTimer /\ ~(PageReceives /\ Head(toClient).name = "getChannelStarted")
        <3>1. \A i \in 1 .. Len(a) : ~Says(a[i])
            BY <2>2, <2>6 DEF Sends
        <3>2. CASE VideoShown
            <4>1. page'.usageCount = page.usageCount + 1
                BY <3>2 DEF VideoShown, Types, PageTypes
            <4> QED
                BY <1>0, <4>1 DEF NativeWill
        <3>3. CASE StoreInitializes
            <4>1. page'.usageCount = page.usageCount /\ page'.stray = page.stray
                BY <3>3 DEF StoreInitializes, Types, PageTypes
            <4> QED
                BY <2>1, <2>3, <3>1, <4>1 DEF NativeWill
        <3>4. CASE PageReceives
            <4>1. page'.usageCount = page.usageCount /\ page'.stray = page.stray
                BY <2>6, <3>4, PageHears
            <4> QED
                BY <2>1, <2>3, <3>1, <4>1 DEF NativeWill
        <3> QED
            BY <1>9, <2>6, <3>2, <3>3, <3>4
    <2> QED
        BY <2>4, <2>5, <2>6
<1> QED
    BY <1>2, <1>3, <1>4, <1>5, <1>6, <1>7, <1>8, <1>9 DEF Next

LEMMA NobodyElse ==
    ASSUME MaxOther = 0, Types
    PROVE  ~OtherPage
<1>1. spent["other"] \in Nat
    BY DEF Types, PageTypes, Spent
<1>2. OtherPage => spent["other"] < MaxOther
    BY Zenon DEF OtherPage, Spend
<1> QED
    BY <1>1, <1>2

LEMMA OtherStep ==
    ASSUME Types, ~OtherPage, [Next]_vars
    PROVE  UNCHANGED otherOpen
BY DEF Next, vars, SessionStarts, SessionEnds, PhoneSetsUp, PhoneTakesFocus,
   PhoneStartsChannel, PhoneStopsChannel, PhoneSendsMedia, PhoneRequestsFocus,
   ServerReceives, PageOpens, PageCloses, StoreInitializes, VideoShown,
   VideoHidden, HideTimer, PageReceives

LEMMA FocusInit == Init => ~otherOpen /\ NativeWill
BY DEF Init, NativeWill, NoPage

\* Without another page, once everything has arrived a page that does not
\* display the video has the phone not project, unless a start went on after
\* the last view was hidden.
THEOREM HiddenMakesItNative ==
    ASSUME MaxOther = 0
    PROVE  Spec => []HiddenIsNative
<1>1. Init => SocketInv /\ NativeWithoutClients /\ ~otherOpen /\ NativeWill
    BY SocketInit, FocusInit DEF Init, NativeWithoutClients
<1>2. CodecInv /\ Types /\ Types' /\ SocketInv /\ NativeWithoutClients /\ ~otherOpen
          /\ NativeWill /\ [Next]_vars
          => SocketInv' /\ NativeWithoutClients' /\ ~otherOpen' /\ NativeWill'
    <2> SUFFICES ASSUME CodecInv, Types, Types', SocketInv, NativeWithoutClients,
                        ~otherOpen, NativeWill, [Next]_vars
                 PROVE  SocketInv' /\ NativeWithoutClients' /\ ~otherOpen' /\ NativeWill'
        OBVIOUS
    <2>1. ~OtherPage
        BY NobodyElse
    <2>2. ~otherOpen'
        <3>1. otherOpen' = otherOpen
            BY <2>1, OtherStep
        <3> QED
            BY <3>1, Zenon
    <2> QED
        BY <2>1, <2>2, SocketStep, NativeStep, NativeWillStep
<1>3. Types /\ NativeWill => HiddenIsNative
    <2> SUFFICES ASSUME Types, NativeWill, Settled, page.shown = 0, ~page.stray
                 PROVE  focus = "native"
        BY DEF HiddenIsNative
    <2>1. toServer = <<>> /\ toPhone = <<>> /\ session /\ page.open /\ page.usageCount = 0
        BY DEF Settled
    <2>2. ~LastSaid(toServer, "native", "projected")
        BY <2>1 DEF LastSaid
    <2>3. FocusTold = "native"
        BY <2>1, <2>2 DEF NativeWill, WillBe
    <2> QED
        BY <2>1, <2>3 DEF FocusTold
<1> QED
    BY <1>1, <1>2, <1>3, Typed, PTL DEF Spec

-----------------------------------------------------------------------------
(***************************************************************************)
(* A page that displays the video.  It has asked whether the channel is    *)
(* started and not yet gone on, or will have the phone project.  When the  *)
(* phone has set up, the request of the focus makes it ask: the page is    *)
(* subscribed to it, or will be before what it asks next is answered.      *)
(***************************************************************************)
Asked(q) == \E i \in 1 .. Len(q) : q[i].kind = "getChannelStarted"

Answering(q) ==
    \E i \in 1 .. Len(q) : q[i].name \in {"getChannelStarted", "focusRequest"}

HearsFocus ==
    /\ page.usageCount > 0 => page.initialized
    /\ page.open /\ page.initialized =>
          \/ subscribed["focusRequest"] > 0
          \/ \E i \in 1 .. Len(toServer) : About(toServer[i], "focusRequest")
    /\ page.open => \A i \in 1 .. Len(toServer) :
          About(toServer[i], "focusRequest") =>
              /\ toServer[i].subscribe
              /\ page.usageCount > 0 =>
                    \E j \in 1 .. Len(toServer) :
                        i < j /\ toServer[j].kind = "getChannelStarted"

ProjectedWill ==
    session /\ phone # "new" /\ page.usageCount > 0 =>
        Asked(toServer) \/ Answering(toClient) \/ WillBe("projected", "native")

LEMMA HearsFocusStep ==
    ASSUME Types, SocketInv, HearsFocus, [Next]_vars
    PROVE  HearsFocus'
<1>0. page.usageCount \in Nat /\ page.initialized \in BOOLEAN /\ page.open \in BOOLEAN
      /\ subscribed \in [Names -> Nat] /\ "focusRequest" \in Names
    BY NamesAre DEF Types, PageTypes, PhoneTypes
<1>1. CASE UNCHANGED <<toServer, subscribed>> /\ page'.open = page.open
           /\ page'.initialized = page.initialized /\ page'.usageCount = page.usageCount
    BY <1>1 DEF HearsFocus
<1>2. CASE \/ SessionStarts \/ SessionEnds \/ PhoneSetsUp \/ PhoneTakesFocus
           \/ PhoneStartsChannel \/ PhoneStopsChannel \/ PhoneSendsMedia
           \/ PhoneRequestsFocus \/ OtherPage \/ UNCHANGED vars
    <2>1. UNCHANGED <<page, toServer, subscribed>>
        BY <1>2 DEF SessionStarts, SessionEnds, PhoneSetsUp, PhoneTakesFocus,
           PhoneStartsChannel, PhoneStopsChannel, PhoneSendsMedia,
           PhoneRequestsFocus, OtherPage, vars
    <2> QED
        BY <1>1, <2>1
<1>3. CASE VideoHidden
    <2>1. UNCHANGED <<toServer, subscribed>> /\ page'.open = page.open
           /\ page'.initialized = page.initialized /\ page'.usageCount = page.usageCount
        BY <1>3 DEF VideoHidden, Types, PageTypes
    <2> QED
        BY <1>1, <2>1
<1>4. CASE PageCloses
    BY <1>4 DEF PageCloses, NoPage, HearsFocus
<1>5. CASE PageOpens
    <2> DEFINE x == Subscribe("channelStart", TRUE)
    <2>1. page' = [NoPage EXCEPT !.open = TRUE] /\ toServer' = <<x>>
        BY <1>5 DEF PageOpens
    <2>2. page'.usageCount = 0 /\ ~page'.initialized
        BY <2>1 DEF NoPage
    <2>3. ~About(x, "focusRequest")
        BY DEF About, Subscribe
    <2> HIDE DEF x
    <2>4. \A i \in 1 .. Len(<<x>>) : ~About(<<x>>[i], "focusRequest")
        BY <2>3
    <2> QED
        BY <2>1, <2>2, <2>4 DEF HearsFocus
<1>6. CASE ServerReceives
    <2> DEFINE q == toServer
               r == toServer'
    <2>1. /\ Len(q) \in Nat /\ 1 \in 1 .. Len(q) /\ Len(r) = Len(q) - 1
          /\ \A i \in 1 .. Len(r) : i + 1 \in 1 .. Len(q) /\ r[i] = q[i + 1]
          /\ \A i \in 1 .. Len(q) : i # 1 => i - 1 \in 1 .. Len(r) /\ r[i - 1] = q[i]
          /\ \/ ServerSubscribes(q[1]) \/ ServerAnswers(q[1])
             \/ ServerSendsFocus(q[1]) \/ ServerClosesSocket(q[1])
          /\ UNCHANGED page
        BY <1>6, ServerStep
    <2> SUFFICES ASSUME page.open PROVE HearsFocus'
        BY <1>0, <2>1 DEF HearsFocus, SocketInv, ClosedSocket, NoPage
    <2>2. q[1].kind # "close"
        BY <2>1 DEF SocketInv, OpenSocket
    <2>3. About(q[1], "focusRequest") => q[1].subscribe
        BY <2>1 DEF HearsFocus
    <2> HIDE DEF q, r
    <2>4. /\ About(q[1], "focusRequest") => subscribed'["focusRequest"] > 0
          /\ ~About(q[1], "focusRequest") => subscribed'["focusRequest"] = subscribed["focusRequest"]
        <3>1. CASE About(q[1], "focusRequest")
            <4>1. ServerSubscribes(q[1]) /\ q[1].name = "focusRequest" /\ q[1].subscribe
                BY <2>1, <2>3, <3>1 DEF ServerSubscribes, ServerAnswers, ServerSendsFocus,
                   ServerClosesSocket, About
            <4>2. subscribed' = [subscribed EXCEPT !["focusRequest"] = subscribed["focusRequest"] + 1]
                BY <4>1 DEF ServerSubscribes
            <4> QED
                BY <1>0, <3>1, <4>2
        <3>2. CASE ~About(q[1], "focusRequest")
            <4>1. \/ subscribed' = subscribed
                  \/ /\ q[1].kind = "subscribe"
                     /\ \E k : subscribed' = [subscribed EXCEPT ![q[1].name] = k]
                BY <2>1, <2>2 DEF ServerSubscribes, ServerAnswers, ServerSendsFocus,
                   ServerClosesSocket
            <4> QED
                BY <1>0, <3>2, <4>1 DEF About
        <3> QED
            BY <3>1, <3>2
    <2>5. page.initialized => \/ subscribed'["focusRequest"] > 0
                              \/ \E i \in 1 .. Len(r) : About(r[i], "focusRequest")
        <3>1. page.initialized => \/ subscribed["focusRequest"] > 0
                                  \/ \E i \in 1 .. Len(q) : About(q[i], "focusRequest")
            BY DEF HearsFocus, q
        <3>2. ASSUME NEW i \in 1 .. Len(q), i # 1, About(q[i], "focusRequest")
              PROVE  \E l \in 1 .. Len(r) : About(r[l], "focusRequest")
            <4>1. i - 1 \in 1 .. Len(r) /\ About(r[i - 1], "focusRequest")
                BY <2>1, <3>2
            <4> QED
                BY <4>1
        <3> QED
            BY <2>4, <3>1, <3>2
    <2>6. ASSUME NEW i \in 1 .. Len(r), About(r[i], "focusRequest")
          PROVE  /\ r[i].subscribe
                 /\ page.usageCount > 0 =>
                       \E j \in 1 .. Len(r) : i < j /\ r[j].kind = "getChannelStarted"
        <3>1. i + 1 \in 1 .. Len(q) /\ r[i] = q[i + 1]
            BY <2>1
        <3>2. /\ q[i + 1].subscribe
              /\ page.usageCount > 0 =>
                    \E j \in 1 .. Len(q) : i + 1 < j /\ q[j].kind = "getChannelStarted"
            BY <2>6, <3>1 DEF HearsFocus, q
        <3>3. ASSUME NEW j \in 1 .. Len(q), i + 1 < j, q[j].kind = "getChannelStarted"
              PROVE  \E l \in 1 .. Len(r) : i < l /\ r[l].kind = "getChannelStarted"
            <4>1. j # 1 /\ i < j - 1
                BY <3>3
            <4>2. j - 1 \in 1 .. Len(r) /\ r[j - 1].kind = "getChannelStarted"
                BY <2>1, <3>3, <4>1
            <4> QED
                BY <4>1, <4>2
        <3> QED
            BY <3>1, <3>2, <3>3
    <2>7. page.usageCount > 0 => page.initialized
        BY DEF HearsFocus
    <2> QED
        BY <2>1, <2>5, <2>6, <2>7 DEF HearsFocus, r
<1>7. CASE StoreInitializes \/ VideoShown \/ HideTimer \/ PageReceives
    <2>1. page.open /\ UNCHANGED subscribed
        BY <1>7, PageStep
    <2>2. PICK a \in Seq(Sent) :
              /\ Sends(a) /\ Len(a) \in Nat /\ Len(toServer) \in Nat
              /\ Len(toServer') = Len(toServer) + Len(a)
              /\ \A i \in 1 .. Len(toServer) : toServer'[i] = toServer[i]
              /\ \A i \in 1 .. Len(a) : a[i] \in Sent /\ toServer'[Len(toServer) + i] = a[i]
              /\ \A i \in 1 .. Len(toServer') :
                    \/ i \in 1 .. Len(toServer) /\ toServer'[i] = toServer[i]
                    \/ i - Len(toServer) \in 1 .. Len(a) /\ toServer'[i] = a[i - Len(toServer)]
        BY <1>7, PageStep
    <2>3. CASE StoreInitializes
        <3>1. /\ page'.usageCount = 0
              /\ toServer' = toServer \o <<Subscribe("channelStop", TRUE),
                                           Subscribe("focusRequest", TRUE)>>
            BY <1>0, <2>3 DEF StoreInitializes, HearsFocus, Types, PageTypes
        <3>2. \E i \in 1 .. Len(toServer') : About(toServer'[i], "focusRequest")
            <4> DEFINE x == Subscribe("channelStop", TRUE)
                       y == Subscribe("focusRequest", TRUE)
            <4>1. x \in Requests /\ y \in Requests /\ About(y, "focusRequest")
                BY NamesAre, Messages DEF About
            <4>2. toServer' = toServer \o <<x, y>>
                BY <3>1
            <4> HIDE DEF x, y
            <4>3. toServer \in Seq(Requests) /\ <<x, y>> \in Seq(Requests)
                  /\ Len(<<x, y>>) = 2 /\ <<x, y>>[2] = y /\ 2 \in 1 .. 2
                BY <4>1 DEF Types, PhoneTypes
            <4> DEFINE b == <<x, y>>
            <4> HIDE DEF b
            <4>4. b \in Seq(Requests) /\ Len(b) = 2 /\ b[2] = y /\ toServer' = toServer \o b
                BY <4>2, <4>3 DEF b
            <4>5. /\ Len(toServer') = Len(toServer) + Len(b) /\ Len(toServer) \in Nat
                  /\ \A i \in 1 .. Len(b) : toServer'[Len(toServer) + i] = b[i]
                <5>1. toServer \in Seq(Requests)
                    BY <4>3
                <5>2. b \in Seq(Requests) /\ toServer' = toServer \o b
                    BY <4>4
                <5>3. /\ Len(toServer \o b) = Len(toServer) + Len(b) /\ Len(toServer) \in Nat
                      /\ \A i \in 1 .. Len(b) : (toServer \o b)[Len(toServer) + i] = b[i]
                    BY <5>1, <5>2, Longer
                <5> QED
                    BY <5>2, <5>3, Zenon
            <4>6. Len(toServer) + 2 \in 1 .. Len(toServer') /\ toServer'[Len(toServer) + 2] = y
                BY <4>4, <4>5
            <4> QED
                BY <4>1, <4>6
        <3>3. ASSUME NEW i \in 1 .. Len(toServer'), About(toServer'[i], "focusRequest")
              PROVE  toServer'[i].subscribe
            <4>1. CASE i \in 1 .. Len(toServer) /\ toServer'[i] = toServer[i]
                BY <2>1, <3>3, <4>1 DEF HearsFocus
            <4>2. CASE i - Len(toServer) \in 1 .. Len(a) /\ toServer'[i] = a[i - Len(toServer)]
                BY <2>2, <3>3, <4>2 DEF Sends
            <4> QED
                BY <2>2, <4>1, <4>2
        <3>4. page'.usageCount = 0
            BY <3>1
        <3>5. page'.usageCount > 0 <=> FALSE
            BY <3>4
        <3> QED
            BY <3>2, <3>3, <3>5 DEF HearsFocus
    <2>4. ASSUME ~StoreInitializes,
                 page'.initialized = page.initialized,
                 page'.usageCount > 0 => page.initialized,
                 page'.usageCount > 0 =>
                    \/ page.usageCount > 0
                    \/ Len(a) # 0 /\ toServer'[Len(toServer')].kind = "getChannelStarted"
          PROVE  HearsFocus'
        <3>1. \A i \in 1 .. Len(toServer') : About(toServer'[i], "focusRequest") =>
                  i \in 1 .. Len(toServer) /\ toServer'[i] = toServer[i]
            BY <2>2, <2>4 DEF Sends
        <3>2. page.initialized => \/ subscribed["focusRequest"] > 0
                                  \/ \E i \in 1 .. Len(toServer') : About(toServer'[i], "focusRequest")
            <4>1. page.initialized => \/ subscribed["focusRequest"] > 0
                                      \/ \E i \in 1 .. Len(toServer) : About(toServer[i], "focusRequest")
                BY <2>1 DEF HearsFocus
            <4>2. \A i \in 1 .. Len(toServer) : i \in 1 .. Len(toServer')
                BY <2>2
            <4> QED
                BY <2>2, <4>1, <4>2
        <3>3. ASSUME NEW i \in 1 .. Len(toServer'), About(toServer'[i], "focusRequest")
              PROVE  /\ toServer'[i].subscribe
                     /\ page'.usageCount > 0 =>
                           \E j \in 1 .. Len(toServer') :
                              i < j /\ toServer'[j].kind = "getChannelStarted"
            <4>1. i \in 1 .. Len(toServer) /\ toServer'[i] = toServer[i]
                BY <3>1, <3>3
            <4>2. /\ toServer[i].subscribe
                  /\ page.usageCount > 0 =>
                        \E j \in 1 .. Len(toServer) : i < j /\ toServer[j].kind = "getChannelStarted"
                BY <2>1, <3>3, <4>1 DEF HearsFocus
            <4>3. ASSUME NEW j \in 1 .. Len(toServer), i < j, toServer[j].kind = "getChannelStarted"
                  PROVE  \E l \in 1 .. Len(toServer') :
                              i < l /\ toServer'[l].kind = "getChannelStarted"
                <5>1. j \in 1 .. Len(toServer') /\ toServer'[j] = toServer[j]
                    BY <2>2
                <5> QED
                    BY <4>3, <5>1
            <4>4. Len(a) # 0 => Len(toServer') \in 1 .. Len(toServer') /\ i < Len(toServer')
                BY <2>2, <4>1
            <4> QED
                BY <2>4, <4>1, <4>2, <4>3, <4>4
        <3> QED
            BY <2>1, <2>4, <3>2, <3>3 DEF HearsFocus
    <2>5. CASE VideoShown
        <3>1. /\ page'.initialized = page.initialized /\ page.initialized
              /\ toServer' = toServer \o StartIf(page.usageCount = 0)
              /\ ~StoreInitializes
            BY <2>5 DEF VideoShown, Types, PageTypes, StoreInitializes
        <3>2. page.usageCount = 0 =>
                  Len(a) # 0 /\ toServer'[Len(toServer')].kind = "getChannelStarted"
            <4> DEFINE g == GetChannelStarted
            <4>1. g \in Requests /\ g.kind = "getChannelStarted"
                BY Messages
            <4>2. page.usageCount = 0 => toServer' = toServer \o <<g>>
                BY <3>1 DEF StartIf
            <4> HIDE DEF g
            <4>3. <<g>> \in Seq(Requests) /\ Len(<<g>>) = 1 /\ <<g>>[1] = g
                BY <4>1
            <4>4. toServer \in Seq(Requests)
                BY DEF Types, PhoneTypes
            <4>5. page.usageCount = 0 =>
                      Len(toServer') = Len(toServer) + 1 /\ toServer'[Len(toServer) + 1] = g
                BY <4>2, <4>3, <4>4, Longer
            <4> QED
                BY <2>2, <4>1, <4>5
        <3>3. /\ page'.initialized = page.initialized /\ page.initialized
              /\ ~StoreInitializes
            BY <3>1
        <3>4. page.usageCount > 0 \/ page.usageCount = 0
            BY <1>0
        <3> QED
            BY <2>4, <3>2, <3>3, <3>4
    <2>6. CASE HideTimer
        <3>1. /\ page'.initialized = page.initialized /\ ~StoreInitializes
              /\ page'.usageCount > 0 => page.usageCount > 0
            <4>1. page.usageCount > page.shown /\ page.shown \in 0 .. 2
                BY <2>6 DEF HideTimer, Types, PageTypes
            <4>2. page.initialized
                BY <1>0, <4>1 DEF HearsFocus
            <4>3. page'.initialized = page.initialized
                BY <2>6 DEF HideTimer, Types, PageTypes
            <4> QED
                BY <1>0, <4>1, <4>2, <4>3 DEF StoreInitializes
        <3> QED
            BY <2>4, <3>1 DEF HearsFocus
    <2>7. CASE PageReceives
        <3>1. page'.initialized = page.initialized /\ page'.usageCount = page.usageCount
            BY <2>7, PageHears
        <3>2. ~StoreInitializes \/ StoreInitializes
            OBVIOUS
        <3> QED
            BY <2>3, <2>4, <3>1 DEF HearsFocus
    <2> QED
        BY <1>7, <2>3, <2>5, <2>6, <2>7
<1> QED
    BY <1>2, <1>3, <1>4, <1>5, <1>6, <1>7 DEF Next

LEMMA StartAsks ==
    ASSUME Types, toServer' = toServer \o StartIf(TRUE)
    PROVE  Asked(toServer')
<1> DEFINE g == GetChannelStarted
           b == <<g>>
<1>1. g \in Requests /\ g.kind = "getChannelStarted"
    BY Messages
<1>2. toServer' = toServer \o b /\ toServer \in Seq(Requests)
    BY DEF StartIf, Types, PhoneTypes
<1> HIDE DEF g
<1>3. b \in Seq(Requests) /\ Len(b) = 1 /\ b[1] = g
    BY <1>1
<1> HIDE DEF b
<1> DEFINE q == toServer
           r == q \o b
<1>4. q \in Seq(Requests) /\ b \in Seq(Requests) /\ toServer' = r
    BY <1>2, <1>3
<1> HIDE DEF q
<1>5. /\ Len(r) = Len(q) + Len(b) /\ Len(q) \in Nat
      /\ \A i \in 1 .. Len(b) : r[Len(q) + i] = b[i]
    BY <1>4, Longer
<1> HIDE DEF r
<1>6. Len(q) + 1 \in 1 .. Len(r) /\ r[Len(q) + 1] = g
    BY <1>3, <1>5
<1> QED
    BY <1>1, <1>4, <1>6 DEF Asked

\* What is on its way to the page stays, with what the server adds.
LEMMA AnsweringProlonged ==
    ASSUME NEW q, NEW r, Prolongs(q, r), Len(q) \in Nat, Answering(q)
    PROVE  Answering(r)
<1>1. PICK i \in 1 .. Len(q) : q[i].name \in {"getChannelStarted", "focusRequest"}
    BY DEF Answering
<1>2. Len(r) \in Nat
    BY LenProperties DEF Prolongs
<1>3. i \in 1 .. Len(r) /\ r[i] = q[i]
    BY <1>1, <1>2 DEF Prolongs
<1> QED
    BY <1>1, <1>3 DEF Answering

LEMMA ProjectedWillStep ==
    ASSUME CodecInv, Types, SocketInv, HearsFocus, ProjectedWill,
           [Next]_vars, ~OtherPage
    PROVE  ProjectedWill'
<1>0. /\ "native" \in Focus /\ "projected" \in Focus
      /\ toClient \in Seq(Downstream) /\ Len(toClient) \in Nat
      /\ page.usageCount \in Nat
    BY LenProperties DEF Focus, Types, ClientTypes, PageTypes
<1>1. CASE SessionStarts \/ SessionEnds
    BY <1>1 DEF SessionStarts, SessionEnds, ProjectedWill
<1>2. ASSUME UNCHANGED <<page, toServer>>, session' = session, FocusTold' = FocusTold,
             Answering(toClient) => Answering(toClient'),
             phone' # "new" => \/ phone # "new"
                               \/ Asked(toServer) \/ Answering(toClient')
      PROVE  ProjectedWill'
    <2>1. WillBe("projected", "native") => WillBe("projected", "native")'
        BY <1>0, <1>2, WillBeTold
    <2> QED
        BY <1>2, <2>1 DEF ProjectedWill
<1>3. CASE PhoneTakesFocus
    <2>1. UNCHANGED <<page, toServer, session, phone, toClient>>
        BY <1>3 DEF PhoneTakesFocus, server
    <2> QED
        BY <1>2, <1>3, <2>1, TakenAsTold
<1>4. CASE PhoneSetsUp \/ PhoneRequestsFocus
    <2>1. PICK f \in Focus :
              toClient' = Notify(toClient, [name |-> "focusRequest", mode |-> f])
        BY <1>4 DEF PhoneSetsUp, PhoneRequestsFocus, Focus
    <2> DEFINE m == [name |-> "focusRequest", mode |-> f]
    <2>2. m \in Downstream /\ m.name = "focusRequest" /\ toClient' = Notify(toClient, m)
        BY <2>1, ServerMessages
    <2> HIDE DEF m
    <2>3. /\ Prolongs(toClient, toClient')
          /\ subscribed["focusRequest"] > 0 =>
                /\ Len(toClient') = Len(toClient) + 1
                /\ toClient'[Len(toClient) + 1].name = "focusRequest"
        BY <1>0, <2>2, Prolonged
    <2>4. Answering(toClient) => Answering(toClient')
        BY <1>0, <2>3, AnsweringProlonged
    <2>5. subscribed["focusRequest"] > 0 => Answering(toClient')
        <3>1. Len(toClient') = Len(toClient) + 1 =>
                  Len(toClient) + 1 \in 1 .. Len(toClient')
            BY <1>0
        <3> QED
            BY <2>3, <3>1 DEF Answering
    <2>6. UNCHANGED <<page, toServer, session, focus, toPhone>>
        BY <1>4 DEF PhoneSetsUp, PhoneRequestsFocus, server
    <2>7. CASE page.usageCount > 0
        <3>1. page.open /\ page.initialized
            BY <1>0, <2>7 DEF HearsFocus, SocketInv, ClosedSocket, NoPage
        <3>2. subscribed["focusRequest"] > 0 \/ Asked(toServer)
            BY <2>7, <3>1 DEF HearsFocus, Asked
        <3> QED
            BY <1>2, <2>4, <2>5, <2>6, <3>2, FocusSame
    <2>8. CASE ~(page.usageCount > 0)
        BY <2>6, <2>8 DEF ProjectedWill
    <2> QED
        BY <2>7, <2>8
<1>5. CASE PhoneStartsChannel \/ PhoneStopsChannel \/ PhoneSendsMedia \/ UNCHANGED vars
    <2>1. UNCHANGED <<page, toServer, session, focus, toPhone>>
        BY <1>5 DEF PhoneStartsChannel, PhoneStopsChannel, PhoneSendsMedia, vars, server,
           HandleData
    <2>2. phone' # "new" => phone # "new"
        BY <1>5 DEF PhoneStartsChannel, PhoneStopsChannel, PhoneSendsMedia, vars
    <2>3. CASE PhoneStopsChannel
        <3>1. Prolongs(toClient, toClient')
            BY <2>3, StopSent DEF PhoneStopsChannel
        <3> QED
            BY <1>0, <1>2, <2>1, <2>2, <3>1, FocusSame, AnsweringProlonged
    <2>4. CASE PhoneStartsChannel
        <3>1. Prolongs(toClient, toClient')
            BY <1>0, <2>4, Prolonged, ServerMessages DEF PhoneStartsChannel, ChannelStart
        <3> QED
            BY <1>0, <1>2, <2>1, <2>2, <3>1, FocusSame, AnsweringProlonged
    <2>5. CASE PhoneSendsMedia
        <3>1. PICK good \in BOOLEAN : HandleData(good)
            BY <2>5 DEF PhoneSendsMedia
        <3>2. \/ toClient' = toClient
              \/ \E n \in Media : Send(n) /\ codecState # "STOPPED"
            BY <3>1 DEF HandleData, Media
        <3>3. ASSUME NEW n \in Media, Send(n), codecState # "STOPPED"
              PROVE  Prolongs(toClient, toClient')
            <4>1. [name |-> n, start |-> starts] \in Downstream
                BY <3>3, ServerMessages DEF Media, Types, ClientTypes
            <4> QED
                BY <1>0, <3>3, <4>1, Prolonged DEF Send
        <3> QED
            BY <1>0, <1>2, <2>1, <2>2, <3>2, <3>3, FocusSame, AnsweringProlonged
    <2>6. CASE UNCHANGED vars
        BY <1>2, <2>1, <2>2, <2>6, FocusSame DEF vars
    <2> QED
        BY <1>5, <2>3, <2>4, <2>5, <2>6
<1>6. CASE PageOpens \/ PageCloses
    <2>1. page' = NoPage \/ page' = [NoPage EXCEPT !.open = TRUE]
        BY <1>6 DEF PageOpens, PageCloses
    <2>2. page'.usageCount = 0
        BY <2>1 DEF NoPage
    <2> QED
        BY <2>2 DEF ProjectedWill
<1>7. CASE VideoHidden
    <2>1. /\ page'.usageCount = page.usageCount
          /\ UNCHANGED <<toServer, toClient, session, phone, focus, toPhone>>
        BY <1>7 DEF VideoHidden, server, Types, PageTypes
    <2>2. WillBe("projected", "native") => WillBe("projected", "native")'
        BY <1>0, <2>1, WillBeTold, FocusSame
    <2> QED
        BY <2>1, <2>2 DEF ProjectedWill
<1>8. CASE ServerReceives
    <2> DEFINE q == toServer
               r == toServer'
    <2>1. /\ Len(q) \in Nat /\ 1 \in 1 .. Len(q)
          /\ \A i \in 1 .. Len(q) : i # 1 => i - 1 \in 1 .. Len(r) /\ r[i - 1] = q[i]
          /\ \/ ServerSubscribes(q[1]) \/ ServerAnswers(q[1])
             \/ ServerSendsFocus(q[1]) \/ ServerClosesSocket(q[1])
          /\ UNCHANGED <<session, phone, page>>
        BY <1>8, ServerStep DEF server
    <2> SUFFICES ASSUME session, phone # "new", page.usageCount > 0
                 PROVE  Asked(r) \/ Answering(toClient') \/ WillBe("projected", "native")'
        BY <2>1 DEF ProjectedWill
    <2>2. page.open
        BY <1>0 DEF SocketInv, ClosedSocket, NoPage
    <2>3. q[1].kind # "close"
        BY <2>1, <2>2 DEF SocketInv, OpenSocket
    <2>4. WillBe("projected", "native") => WillBe("projected", "native")'
        BY <1>0, <1>8, <2>2, WillBeTaken
    <2>5. Answering(toClient) => Answering(toClient')
        <3>1. CASE ServerAnswers(q[1])
            <4> DEFINE m == [name |-> "getChannelStarted", result |-> channelStarted]
            <4>1. m \in Downstream /\ toClient' = Append(toClient, m)
                BY <3>1, ServerMessages DEF ServerAnswers, Types, PhoneTypes
            <4> HIDE DEF m
            <4>2. Prolongs(toClient, toClient')
                BY <1>0, <4>1, OneMore DEF Prolongs
            <4> QED
                BY <1>0, <4>2, AnsweringProlonged
        <3>2. CASE ~ServerAnswers(q[1])
            BY <2>1, <2>3, <3>2 DEF ServerSubscribes, ServerSendsFocus, ServerClosesSocket
        <3> QED
            BY <3>1, <3>2
    <2>6. ASSUME NEW i \in 1 .. Len(q), q[i].kind = "getChannelStarted"
          PROVE  Asked(r) \/ Answering(toClient')
        <3>1. CASE i = 1
            <4> DEFINE m == [name |-> "getChannelStarted", result |-> channelStarted]
            <4>1. ServerAnswers(q[1])
                BY <2>1, <2>6, <3>1 DEF ServerSubscribes, ServerSendsFocus, ServerClosesSocket
            <4>2. m \in Downstream /\ toClient' = Append(toClient, m)
                  /\ m.name = "getChannelStarted"
                BY <4>1, ServerMessages DEF ServerAnswers, Types, PhoneTypes
            <4> HIDE DEF m
            <4>3. /\ Len(toClient') = Len(toClient) + 1
                  /\ toClient'[Len(toClient) + 1] = m
                BY <1>0, <4>2, OneMore
            <4>4. Len(toClient) + 1 \in 1 .. Len(toClient')
                BY <1>0, <4>3
            <4> QED
                BY <4>2, <4>3, <4>4 DEF Answering
        <3>2. CASE i # 1
            <4>1. i - 1 \in 1 .. Len(r) /\ r[i - 1].kind = "getChannelStarted"
                BY <2>1, <2>6, <3>2
            <4> QED
                BY <4>1 DEF Asked
        <3> QED
            BY <3>1, <3>2
    <2>7. Asked(q) => Asked(r) \/ Answering(toClient')
        BY <2>6 DEF Asked
    <2> QED
        BY <2>4, <2>5, <2>7 DEF ProjectedWill
<1>9. CASE StoreInitializes \/ VideoShown \/ HideTimer \/ PageReceives
    <2>1. page.open /\ UNCHANGED <<session, phone, focus, toPhone>>
        BY <1>9, PageStep DEF server
    <2>2. PICK a \in Seq(Sent) :
              /\ Sends(a) /\ Len(a) \in Nat /\ Len(toServer) \in Nat
              /\ Len(toServer') = Len(toServer) + Len(a)
              /\ \A i \in 1 .. Len(toServer) : toServer'[i] = toServer[i]
              /\ \A i \in 1 .. Len(toServer') :
                    \/ i \in 1 .. Len(toServer) /\ toServer'[i] = toServer[i]
                    \/ i - Len(toServer) \in 1 .. Len(a) /\ toServer'[i] = a[i - Len(toServer)]
        BY <1>9, PageStep
    <2>3. Asked(toServer) => Asked(toServer')
        <3>1. \A i \in 1 .. Len(toServer) : i \in 1 .. Len(toServer')
            BY <2>2
        <3> QED
            BY <2>2, <3>1 DEF Asked
    <2>4. ASSUME \A i \in 1 .. Len(a) : ~Says(a[i]), WillBe("projected", "native")
          PROVE  WillBe("projected", "native")'
        <3>1. /\ LastSaid(toServer, "projected", "native") =>
                    LastSaid(toServer', "projected", "native")
              /\ NeverSaid(toServer, "native") => NeverSaid(toServer', "native")
            BY <1>0, <2>2, <2>4, WillBeSent
        <3> QED
            BY <2>1, <2>4, <3>1, FocusSame DEF WillBe
    <2>5. CASE StoreInitializes
        <3>1. page'.usageCount = 0
            BY <1>0, <2>5 DEF StoreInitializes, HearsFocus, Types, PageTypes
        <3> QED
            BY <3>1 DEF ProjectedWill
    <2>6. CASE VideoShown
        <3>1. CASE page.usageCount = 0
            <4>1. toServer' = toServer \o StartIf(TRUE)
                BY <2>6, <3>1 DEF VideoShown
            <4> QED
                BY <4>1, StartAsks DEF ProjectedWill
        <3>2. CASE page.usageCount # 0
            <4>1. /\ UNCHANGED toClient /\ page.usageCount > 0
                  /\ toServer' = toServer \o StartIf(FALSE)
                <5>1. (page.usageCount = 0) = FALSE
                    BY <3>2
                <5>2. UNCHANGED toClient /\ toServer' = toServer \o StartIf(page.usageCount = 0)
                    BY <2>6 DEF VideoShown
                <5>3. StartIf(page.usageCount = 0) = StartIf(FALSE)
                    BY <5>1, Zenon
                <5>4. page.usageCount > 0
                    BY <1>0, <3>2
                <5> QED
                    BY <5>2, <5>3, <5>4
            <4>2. toServer' = toServer
                BY <4>1, ConcatEmptySeq DEF StartIf, Types, PhoneTypes
            <4>3. WillBe("projected", "native") => WillBe("projected", "native")'
                BY <1>0, <2>1, <4>2, WillBeTold, FocusSame
            <4> QED
                BY <2>1, <4>1, <4>2, <4>3 DEF ProjectedWill
        <3> QED
            BY <3>1, <3>2
    <2>7. CASE HideTimer
        <3>1. CASE page.usageCount = 1
            <4>1. page'.usageCount = 0
                BY <2>7, <3>1 DEF HideTimer, Types, PageTypes
            <4> QED
                BY <4>1 DEF ProjectedWill
        <3>2. CASE page.usageCount # 1
            <4>1. UNCHANGED <<toServer, toClient>> /\ page.usageCount > 0
                BY <1>0, <2>7, <3>2 DEF HideTimer, Types, PageTypes
            <4>2. WillBe("projected", "native") => WillBe("projected", "native")'
                BY <1>0, <2>1, <4>1, WillBeTold, FocusSame
            <4> QED
                BY <2>1, <4>1, <4>2 DEF ProjectedWill
        <3> QED
            BY <3>1, <3>2
    <2>8. CASE PageReceives /\ ~HideTimer
        <3> DEFINE m == Head(toClient)
        <3>1. page'.usageCount = page.usageCount /\ page'.initialized = page.initialized
            BY <2>8, PageHears
        <3>2. CASE m.name = "getChannelStarted"
            BY <2>8, <3>2, SaidLast DEF ProjectedWill, WillBe
        <3>3. CASE m.name = "focusRequest"
            <4>1. toServer' = toServer \o StartIf(page.initialized /\ page.usageCount # 0)
                BY <2>8, <3>3, PageHears DEF OnFocusRequest
            <4>2. CASE page.usageCount > 0
                <5>1. (page.initialized /\ page.usageCount # 0) = TRUE
                    BY <4>2 DEF HearsFocus
                <5>2. toServer' = toServer \o StartIf(TRUE)
                    BY <4>1, <5>1
                <5> QED
                    BY <5>2, StartAsks DEF ProjectedWill
            <4>3. CASE ~(page.usageCount > 0)
                BY <3>1, <4>3 DEF ProjectedWill
            <4> QED
                BY <4>2, <4>3
        <3>4. CASE m.name \notin {"getChannelStarted", "focusRequest"}
            <4>1. \A i \in 1 .. Len(a) : ~Says(a[i])
                BY <2>2, <2>8, <3>4 DEF Sends
            <4>2. Answering(toClient) => Answering(toClient')
                <5>1. toClient' = Tail(toClient) /\ toClient # <<>>
                    BY <2>8 DEF PageReceives
                <5>2. /\ m = toClient[1] /\ Len(toClient') = Len(toClient) - 1
                      /\ \A i \in 1 .. Len(toClient) - 1 : toClient'[i] = toClient[i + 1]
                    BY <1>0, <5>1, OneLess
                <5> HIDE DEF m
                <5>3. ASSUME NEW i \in 1 .. Len(toClient),
                             toClient[i].name \in {"getChannelStarted", "focusRequest"}
                      PROVE  Answering(toClient')
                    <6>1. i # 1
                        BY <3>4, <5>2, <5>3
                    <6>2. i - 1 \in 1 .. Len(toClient) - 1 /\ (i - 1) + 1 = i
                        BY <1>0, <6>1
                    <6>3. toClient'[i - 1] = toClient[i] /\ i - 1 \in 1 .. Len(toClient')
                        BY <5>2, <6>2
                    <6> QED
                        BY <5>3, <6>3 DEF Answering
                <5> QED
                    BY <5>3 DEF Answering
            <4> QED
                BY <2>1, <2>3, <2>4, <3>1, <4>1, <4>2 DEF ProjectedWill
        <3> QED
            BY <3>2, <3>3, <3>4
    <2> QED
        BY <1>9, <2>5, <2>6, <2>7, <2>8
<1> QED
    BY <1>1, <1>3, <1>4, <1>5, <1>6, <1>7, <1>8, <1>9 DEF Next

\* Without another page, once everything has arrived a page that displays the
\* video has the phone project, whatever restarts and stops came before.
THEOREM DisplayedMakesItProject ==
    ASSUME MaxOther = 0
    PROVE  Spec => []DisplayedIsProjected
<1>1. Init => SocketInv /\ HearsFocus /\ ProjectedWill
    <2>1. Init => HearsFocus /\ ProjectedWill
        BY DEF Init, NoPage, HearsFocus, ProjectedWill
    <2> QED
        BY <2>1, SocketInit
<1>2. CodecInv /\ Types /\ Types' /\ SocketInv /\ HearsFocus /\ ProjectedWill /\ [Next]_vars
          => SocketInv' /\ HearsFocus' /\ ProjectedWill'
    BY NobodyElse, SocketStep, HearsFocusStep, ProjectedWillStep
<1>3. Types /\ ProjectedWill => DisplayedIsProjected
    <2> SUFFICES ASSUME Types, ProjectedWill, Settled, page.shown > 0
                 PROVE  focus = "projected"
        BY DEF DisplayedIsProjected
    <2>1. /\ toServer = <<>> /\ toClient = <<>> /\ toPhone = <<>>
          /\ session /\ phone # "new" /\ page.usageCount > 0
        BY DEF Settled
    <2>2. /\ ~LastSaid(toServer, "projected", "native")
          /\ ~Asked(toServer) /\ ~Answering(toClient)
        BY <2>1 DEF LastSaid, Asked, Answering
    <2>3. FocusTold = "projected"
        BY <2>1, <2>2 DEF ProjectedWill, WillBe
    <2> QED
        BY <2>1, <2>3 DEF FocusTold
<1> QED
    BY <1>1, <1>2, <1>3, Typed, PTL DEF Spec

-----------------------------------------------------------------------------
(***************************************************************************)
(* The starts and the stops of the channel on their way to the page.  The  *)
(* decoder that listens counts as a start that has arrived, at place 0.    *)
(***************************************************************************)
Name(q, i, n) == i \in 1 .. Len(q) /\ q[i].name = n

StartAt(q, on, i) == (i = 0 /\ on) \/ Name(q, i, "channelStart")

StopBetween(q, i, l) == \E j \in 1 .. Len(q) : i < j /\ j < l /\ Name(q, j, "channelStop")

\* Between two starts there is a stop.
Separate(q, on) ==
    \A i, l \in 0 .. Len(q) :
        StartAt(q, on, i) /\ StartAt(q, on, l) /\ i < l => StopBetween(q, i, l)

\* After every start there is a stop.
AllStopped(q, on) ==
    \A i \in 0 .. Len(q) : StartAt(q, on, i) => StopBetween(q, i, Len(q) + 1)

LEMMA StopStays ==
    ASSUME NEW q, NEW r, Prolongs(q, r), Len(q) \in Nat, NEW i \in Nat, NEW l \in Nat,
           StopBetween(q, i, l)
    PROVE  StopBetween(r, i, l)
<1>1. PICK j \in 1 .. Len(q) : i < j /\ j < l /\ Name(q, j, "channelStop")
    BY DEF StopBetween
<1>2. Len(r) \in Nat
    BY LenProperties DEF Prolongs
<1>3. j \in 1 .. Len(r) /\ Name(r, j, "channelStop")
    BY <1>1, <1>2 DEF Prolongs, Name
<1> QED
    BY <1>1, <1>3 DEF StopBetween

\* The server adds no start.
LEMMA NoStartAdded ==
    ASSUME NEW q, NEW r, Prolongs(q, r), Len(q) \in Nat, NEW on \in BOOLEAN,
           \A i \in 1 .. Len(r) : i \in 1 .. Len(q) \/ r[i].name # "channelStart"
    PROVE  /\ Separate(q, on) => Separate(r, on)
           /\ AllStopped(q, on) => AllStopped(r, on)
           /\ Len(r) > Len(q) /\ r[Len(r)].name = "channelStop" => AllStopped(r, on)
<1>1. Len(r) \in Nat /\ Len(q) <= Len(r)
    BY LenProperties DEF Prolongs
<1>2. ASSUME NEW i \in 0 .. Len(r), StartAt(r, on, i)
      PROVE  i \in 0 .. Len(q) /\ StartAt(q, on, i)
    <2>1. CASE i = 0 /\ on
        BY <2>1 DEF StartAt
    <2>2. CASE Name(r, i, "channelStart")
        <3>1. i \in 1 .. Len(q) /\ r[i] = q[i]
            BY <2>2 DEF Name, Prolongs
        <3> QED
            BY <2>2, <3>1 DEF Name, StartAt
    <2> QED
        BY <1>2, <2>1, <2>2 DEF StartAt
<1>3. ASSUME Separate(q, on) PROVE Separate(r, on)
    <2> SUFFICES ASSUME NEW i \in 0 .. Len(r), NEW l \in 0 .. Len(r),
                        StartAt(r, on, i), StartAt(r, on, l), i < l
                 PROVE  StopBetween(r, i, l)
        BY DEF Separate
    <2>1. StopBetween(q, i, l)
        BY <1>2, <1>3 DEF Separate
    <2> QED
        BY <2>1, StopStays
<1>4. ASSUME AllStopped(q, on) PROVE AllStopped(r, on)
    <2> SUFFICES ASSUME NEW i \in 0 .. Len(r), StartAt(r, on, i)
                 PROVE  StopBetween(r, i, Len(r) + 1)
        BY DEF AllStopped
    <2>1. StopBetween(q, i, Len(q) + 1)
        BY <1>2, <1>4 DEF AllStopped
    <2>2. StopBetween(r, i, Len(q) + 1)
        BY <2>1, StopStays
    <2> QED
        BY <1>1, <2>2 DEF StopBetween
<1>5. ASSUME Len(r) > Len(q), r[Len(r)].name = "channelStop"
      PROVE  AllStopped(r, on)
    <2> SUFFICES ASSUME NEW i \in 0 .. Len(r), StartAt(r, on, i)
                 PROVE  StopBetween(r, i, Len(r) + 1)
        BY DEF AllStopped
    <2>1. i \in 0 .. Len(q)
        BY <1>2
    <2>2. Len(r) \in 1 .. Len(r) /\ i < Len(r) /\ Len(r) < Len(r) + 1
        BY <1>1, <1>5, <2>1
    <2>3. Name(r, Len(r), "channelStop")
        BY <1>5, <2>2 DEF Name
    <2> QED
        BY <2>2, <2>3 DEF StopBetween
<1> QED
    BY <1>3, <1>4, <1>5

\* The server adds a start after everything was stopped.
LEMMA StartAdded ==
    ASSUME NEW q, NEW r, Prolongs(q, r), Len(q) \in Nat, NEW on \in BOOLEAN,
           Len(r) <= Len(q) + 1, Separate(q, on), AllStopped(q, on)
    PROVE  Separate(r, on)
<1>1. Len(r) \in Nat /\ Len(q) <= Len(r)
    BY LenProperties DEF Prolongs
<1> SUFFICES ASSUME NEW i \in 0 .. Len(r), NEW l \in 0 .. Len(r),
                    StartAt(r, on, i), StartAt(r, on, l), i < l
             PROVE  StopBetween(r, i, l)
    BY DEF Separate
<1>2. ASSUME NEW k \in 0 .. Len(q), StartAt(r, on, k) PROVE StartAt(q, on, k)
    BY <1>1, <1>2 DEF StartAt, Name, Prolongs
<1>3. i \in 0 .. Len(q) /\ StartAt(q, on, i)
    BY <1>1, <1>2
<1>4. CASE l \in 0 .. Len(q)
    <2>1. StopBetween(q, i, l)
        BY <1>2, <1>3, <1>4 DEF Separate
    <2> QED
        BY <2>1, StopStays
<1>5. CASE l = Len(q) + 1
    <2>1. StopBetween(q, i, l)
        BY <1>3, <1>5 DEF AllStopped
    <2> QED
        BY <2>1, StopStays
<1> QED
    BY <1>1, <1>4, <1>5

\* The page takes the first message: the decoder listens after a start and
\* does not after a stop.
LEMMA StartTaken ==
    ASSUME NEW q \in Seq(Downstream), q # <<>>, NEW on \in BOOLEAN, NEW off \in BOOLEAN,
           Separate(q, on),
           \/ q[1].name = "channelStop" /\ ~off
           \/ q[1].name = "channelStart"
           \/ q[1].name \notin {"channelStart", "channelStop"} /\ off = on
    PROVE  /\ q[1].name = "channelStart" => ~on
           /\ Separate(Tail(q), off)
           /\ AllStopped(q, on) => AllStopped(Tail(q), off)
<1> DEFINE r == Tail(q)
<1>1. /\ Len(q) \in Nat /\ 1 \in 1 .. Len(q) /\ Len(r) = Len(q) - 1
      /\ \A i \in 1 .. Len(q) - 1 : r[i] = q[i + 1]
    BY OneLess
<1> HIDE DEF r
<1>2. ASSUME q[1].name = "channelStart" PROVE ~on
    <2>1. StartAt(q, on, 1) /\ 0 \in 0 .. Len(q) /\ 1 \in 0 .. Len(q) /\ 0 < 1
        BY <1>1, <1>2 DEF StartAt, Name
    <2>2. on => StartAt(q, on, 0)
        BY DEF StartAt
    <2>3. ~StopBetween(q, 0, 1)
        BY DEF StopBetween
    <2> QED
        BY <2>1, <2>2, <2>3 DEF Separate
<1>3. ASSUME NEW i \in 0 .. Len(r), StartAt(r, off, i)
      PROVE  \E k \in 0 .. Len(q) : /\ StartAt(q, on, k) /\ k <= i + 1
                                    /\ k = i + 1 \/ (k = 0 /\ q[1].name # "channelStop")
    <2>1. CASE Name(r, i, "channelStart")
        <3>1. i + 1 \in 1 .. Len(q) /\ r[i] = q[i + 1]
            BY <1>1, <2>1 DEF Name
        <3>2. i + 1 \in 0 .. Len(q) /\ StartAt(q, on, i + 1) /\ i + 1 <= i + 1
            BY <2>1, <3>1 DEF Name, StartAt
        <3> QED
            BY <3>2
    <2>2. CASE i = 0 /\ off
        <3>1. CASE q[1].name = "channelStart"
            <4>1. StartAt(q, on, 1) /\ 1 \in 0 .. Len(q) /\ 1 = i + 1
                BY <1>1, <2>2, <3>1 DEF StartAt, Name
            <4> QED
                BY <4>1
        <3>2. CASE q[1].name \notin {"channelStart", "channelStop"} /\ off = on
            <4>1. StartAt(q, on, 0) /\ 0 \in 0 .. Len(q) /\ 0 <= i + 1
                BY <1>1, <2>2, <3>2 DEF StartAt
            <4> QED
                BY <3>2, <4>1
        <3> QED
            BY <2>2, <3>1, <3>2
    <2> QED
        BY <1>3, <2>1, <2>2 DEF StartAt
<1>4. ASSUME NEW i \in 0 .. Len(r), NEW k \in Nat, k = i + 1 \/ (k = 0 /\ q[1].name # "channelStop"),
             NEW l \in Nat, StopBetween(q, k, l + 1), k <= i + 1, i = 0 \/ k # 0
      PROVE  StopBetween(r, i, l)
    <2>1. PICK j \in 1 .. Len(q) : k < j /\ j < l + 1 /\ Name(q, j, "channelStop")
        BY <1>4 DEF StopBetween
    <2>2. j # 1
        BY <1>4, <2>1 DEF Name
    <2>3. j - 1 \in 1 .. Len(r) /\ (j - 1) + 1 = j /\ j - 1 < l /\ i < j - 1
        BY <1>1, <1>4, <2>1, <2>2
    <2>4. Name(r, j - 1, "channelStop")
        BY <1>1, <2>1, <2>3 DEF Name
    <2> QED
        BY <2>3, <2>4 DEF StopBetween
<1>5. Separate(r, off)
    <2> SUFFICES ASSUME NEW i \in 0 .. Len(r), NEW l \in 0 .. Len(r),
                        StartAt(r, off, i), StartAt(r, off, l), i < l
                 PROVE  StopBetween(r, i, l)
        BY DEF Separate
    <2>1. l + 1 \in 0 .. Len(q) /\ StartAt(q, on, l + 1)
        <3>1. Name(r, l, "channelStart")
            BY DEF StartAt
        <3>2. l + 1 \in 1 .. Len(q) /\ r[l] = q[l + 1]
            BY <1>1, <3>1 DEF Name
        <3> QED
            BY <3>1, <3>2 DEF StartAt, Name
    <2>2. PICK k \in 0 .. Len(q) : /\ StartAt(q, on, k) /\ k <= i + 1
                                   /\ k = i + 1 \/ (k = 0 /\ q[1].name # "channelStop")
        BY <1>3
    <2>3. k < l + 1
        BY <1>1, <2>2
    <2>4. StopBetween(q, k, l + 1)
        BY <2>1, <2>2, <2>3 DEF Separate
    <2>5. i = 0 \/ k # 0 \/ StopBetween(q, i + 1, l + 1)
        <3>1. CASE i # 0
            <4>1. Name(r, i, "channelStart")
                BY <3>1 DEF StartAt
            <4>2. i + 1 \in 1 .. Len(q) /\ r[i] = q[i + 1]
                BY <1>1, <4>1 DEF Name
            <4>3. StartAt(q, on, i + 1) /\ i + 1 \in 0 .. Len(q) /\ i + 1 < l + 1
                BY <1>1, <4>1, <4>2 DEF StartAt, Name
            <4> QED
                BY <2>1, <4>3 DEF Separate
        <3> QED
            BY <3>1
    <2>6. i + 1 \in Nat /\ i + 1 <= i + 1 /\ i + 1 # 0 /\ l \in Nat /\ k \in Nat
        BY <1>1
    <2> QED
        BY <1>4, <2>2, <2>4, <2>5, <2>6
<1>6. ASSUME AllStopped(q, on) PROVE AllStopped(r, off)
    <2> SUFFICES ASSUME NEW i \in 0 .. Len(r), StartAt(r, off, i)
                 PROVE  StopBetween(r, i, Len(r) + 1)
        BY DEF AllStopped
    <2>1. Len(q) + 1 = (Len(r) + 1) + 1 /\ Len(r) + 1 \in Nat
        BY <1>1
    <2>2. CASE i = 0
        <3>1. PICK k \in 0 .. Len(q) : /\ StartAt(q, on, k) /\ k <= i + 1
                                       /\ k = i + 1 \/ (k = 0 /\ q[1].name # "channelStop")
            BY <1>3
        <3>2. StopBetween(q, k, (Len(r) + 1) + 1) /\ k \in Nat
            BY <1>6, <2>1, <3>1 DEF AllStopped
        <3> QED
            BY <1>4, <2>1, <2>2, <3>1, <3>2
    <2>3. CASE i # 0
        <3>1. Name(r, i, "channelStart")
            BY <2>3 DEF StartAt
        <3>2. i + 1 \in 0 .. Len(q) /\ StartAt(q, on, i + 1)
            BY <1>1, <3>1 DEF StartAt, Name
        <3>3. StopBetween(q, i + 1, (Len(r) + 1) + 1) /\ i + 1 \in Nat /\ i + 1 # 0
            BY <1>1, <1>6, <2>1, <3>2 DEF AllStopped
        <3> QED
            BY <1>4, <2>1, <3>3
    <2> QED
        BY <2>2, <2>3
<1> QED
    BY <1>2, <1>5, <1>6 DEF r

LEMMA ListensNext ==
    ASSUME Types'
    PROVE  Listening' <=> ~Without(page'.stopListeners)
<1>1. page'.stopListeners \in Seq(Listeners)
    BY DEF Types, PageTypes
<1>2. DOMAIN page'.stopListeners = 1 .. Len(page'.stopListeners)
    BY <1>1, LenProperties
<1> QED
    BY <1>2 DEF Listening, ToSet, Without

LEMMA AddListener ==
    ASSUME NEW s \in Seq(Listeners), NEW x \in Listeners
    PROVE  /\ Once(s) /\ (x = "store" \/ Without(s)) => Once(Append(s, x))
           /\ x = "store" => (Without(Append(s, x)) <=> Without(s))
           /\ x = "decoder" => ~Without(Append(s, x))
<1> DEFINE t == Append(s, x)
<1>1. /\ Len(t) = Len(s) + 1 /\ Len(s) \in Nat
      /\ \A i \in 1 .. Len(s) : t[i] = s[i]
      /\ t[Len(s) + 1] = x
    BY OneMore
<1> HIDE DEF t
<1>2. \A i \in 1 .. Len(t) : i \in 1 .. Len(s) \/ i = Len(s) + 1
    BY <1>1
<1>3. Len(s) + 1 \in 1 .. Len(t) /\ \A i \in 1 .. Len(s) : i \in 1 .. Len(t)
    BY <1>1
<1>4. ASSUME Once(s), x = "store" \/ Without(s) PROVE Once(t)
    <2> SUFFICES ASSUME NEW i \in 1 .. Len(t), NEW l \in 1 .. Len(t),
                        t[i] = "decoder", t[l] = "decoder"
                 PROVE  i = l
        BY DEF Once
    <2>1. CASE x = "store"
        <3>1. i \in 1 .. Len(s) /\ l \in 1 .. Len(s)
            BY <1>1, <1>2, <2>1
        <3> QED
            BY <1>1, <1>4, <3>1 DEF Once
    <2>2. CASE Without(s)
        <3>1. i = Len(s) + 1 /\ l = Len(s) + 1
            BY <1>1, <1>2, <2>2 DEF Without
        <3> QED
            BY <3>1
    <2> QED
        BY <1>4, <2>1, <2>2
<1>5. ASSUME x = "store" PROVE Without(t) <=> Without(s)
    <2>1. Without(t) => Without(s)
        BY <1>1, <1>3 DEF Without
    <2>2. Without(s) => Without(t)
        BY <1>1, <1>2, <1>5 DEF Without
    <2> QED
        BY <2>1, <2>2
<1>6. x = "decoder" => ~Without(t)
    BY <1>1, <1>3 DEF Without
<1> QED
    BY <1>4, <1>5, <1>6 DEF t

LEMMA ListenersHeard ==
    ASSUME Types, PageReceives
    PROVE  LET m == toClient[1]
               s == page.stopListeners
           IN  /\ toClient # <<>> /\ toClient' = Tail(toClient) /\ m \in Downstream
               /\ m = Head(toClient)
               /\ \/ /\ m.name = "channelStart"
                     /\ page'.stopListeners = Append(s, "decoder")
                  \/ /\ m.name = "channelStop"
                     /\ page'.stopListeners = HandleOn(s, page.usageCount # 0).left
                  \/ /\ m.name \notin {"channelStart", "channelStop"}
                     /\ page'.stopListeners = s
<1> DEFINE m == toClient[1]
<1>1. /\ toClient # <<>> /\ toClient' = Tail(toClient) /\ m = Head(toClient)
      /\ m \in Downstream
    BY OneLess DEF PageReceives, Types, ClientTypes
<1>2. \/ OnChannelStart(m) \/ OnChannelStop(m) \/ OnCodecConfig(m)
      \/ OnFrame(m) \/ OnFocusRequest(m) \/ OnReply(m)
    BY <1>1 DEF PageReceives
<1> HIDE DEF m
<1>3. CASE OnChannelStart(m)
    BY <1>1, <1>3 DEF OnChannelStart, Types, PageTypes, m
<1>4. CASE OnChannelStop(m)
    BY <1>1, <1>4 DEF OnChannelStop, Types, PageTypes, m
<1>5. CASE OnCodecConfig(m)
    BY <1>1, <1>5 DEF OnCodecConfig, Types, PageTypes, m
<1>6. CASE OnFrame(m)
    <2>1. page'.stopListeners = page.stopListeners
        BY <1>6 DEF OnFrame, Types, PageTypes
    <2> QED
        BY <1>1, <1>6, <2>1 DEF OnFrame, m
<1>7. CASE OnFocusRequest(m) \/ OnReply(m)
    BY <1>1, <1>7 DEF OnFocusRequest, OnReply, Types, PageTypes, m
<1> QED
    BY <1>2, <1>3, <1>4, <1>5, <1>6, <1>7

ToldInv == told => phone = "streaming"

OnceInv ==
    ~unstopped =>
        /\ Once(page.stopListeners)
        /\ Separate(toClient, Listening)
        /\ ~told => AllStopped(toClient, Listening)

LEMMA ToldStep ==
    ASSUME CodecInv, Types, ToldInv, [Next]_vars
    PROVE  ToldInv'
<1>0. told \in BOOLEAN
    BY DEF Types, ClientTypes
<1>1. CASE SessionEnds \/ PhoneStopsChannel
    BY <1>1 DEF SessionEnds, PhoneStopsChannel, ChannelStop, ToldInv
<1>2. CASE PhoneStartsChannel
    BY <1>2 DEF PhoneStartsChannel, ToldInv
<1>3. CASE SessionStarts
    <2>1. phone = "away" /\ told' = told
        BY <1>3 DEF SessionStarts, CodecInv, CodecType, history
    <2> QED
        BY <1>0, <2>1 DEF ToldInv
<1>4. CASE PhoneSetsUp
    <2>1. phone = "new" /\ told' = told
        BY <1>4 DEF PhoneSetsUp, history
    <2> QED
        BY <1>0, <2>1 DEF ToldInv
<1>5. CASE ServerReceives
    <2>1. phone' = phone /\ told' \in {told, FALSE}
        BY <1>5, ServerStep DEF ServerSubscribes, ServerAnswers, ServerSendsFocus,
           ServerClosesSocket
    <2> QED
        BY <1>0, <2>1 DEF ToldInv
<1>6. CASE \/ PhoneTakesFocus \/ PhoneSendsMedia \/ PhoneRequestsFocus \/ OtherPage
           \/ PageOpens \/ PageCloses \/ StoreInitializes \/ VideoShown \/ VideoHidden
           \/ HideTimer \/ PageReceives \/ UNCHANGED vars
    <2>1. phone' = phone /\ told' = told
        BY <1>6 DEF PhoneTakesFocus, PhoneSendsMedia, PhoneRequestsFocus, OtherPage,
           PageOpens, PageCloses, StoreInitializes, VideoShown, VideoHidden, HideTimer,
           PageReceives, vars, history
    <2> QED
        BY <1>0, <2>1 DEF ToldInv
<1> QED
    BY <1>1, <1>2, <1>3, <1>4, <1>5, <1>6 DEF Next

LEMMA OnceStep ==
    ASSUME CodecInv, Types, Types', SocketInv, ToldInv, OnceInv, [Next]_vars
    PROVE  OnceInv'
<1>0. /\ toClient \in Seq(Downstream) /\ Len(toClient) \in Nat
      /\ page.stopListeners \in Seq(Listeners)
      /\ Listening \in BOOLEAN /\ told \in BOOLEAN /\ unstopped \in BOOLEAN
      /\ subscribed \in [Names -> Nat] /\ "channelStop" \in Names
    BY LenProperties, NamesAre DEF Types, ClientTypes, PageTypes, PhoneTypes, Listening
<1>1. ASSUME page'.stopListeners = page.stopListeners
      PROVE  Listening' = Listening
    BY <1>1 DEF Listening
<1>2. ASSUME page'.stopListeners = page.stopListeners, unstopped' = unstopped,
             told' = told, Prolongs(toClient, toClient'),
             \A i \in 1 .. Len(toClient') :
                 i \in 1 .. Len(toClient) \/ toClient'[i].name # "channelStart"
      PROVE  OnceInv'
    <2>1. /\ Separate(toClient, Listening) => Separate(toClient', Listening)
          /\ AllStopped(toClient, Listening) => AllStopped(toClient', Listening)
        BY <1>0, <1>2, NoStartAdded
    <2> QED
        BY <1>1, <1>2, <2>1 DEF OnceInv
<1>3. Prolongs(toClient, toClient)
    BY <1>0 DEF Prolongs
<1>4. CASE UNCHANGED <<toClient, unstopped, told>> /\ page'.stopListeners = page.stopListeners
    BY <1>2, <1>3, <1>4
<1>5. CASE \/ SessionStarts \/ PhoneTakesFocus \/ OtherPage \/ VideoShown \/ VideoHidden
           \/ HideTimer \/ UNCHANGED vars
    <2>1. UNCHANGED <<toClient, unstopped, told>> /\ page'.stopListeners = page.stopListeners
        BY <1>5 DEF SessionStarts, PhoneTakesFocus, OtherPage, VideoShown, VideoHidden,
           HideTimer, vars, history, Types, PageTypes
    <2> QED
        BY <1>4, <2>1
<1>6. CASE SessionEnds \/ PhoneStopsChannel
    <2>1. ChannelStop /\ page' = page
        BY <1>6 DEF SessionEnds, PhoneStopsChannel
    <2>2. /\ Prolongs(toClient, toClient')
          /\ \A i \in 1 .. Len(toClient') :
                i \in 1 .. Len(toClient) \/ toClient'[i].name # "channelStart"
          /\ subscribed["channelStop"] > 0 =>
                Len(toClient') > Len(toClient) /\ toClient'[Len(toClient')].name = "channelStop"
        <3>1. \A i \in 1 .. Len(toClient') :
                  \/ i \in 1 .. Len(toClient)
                  \/ toClient'[i].name \in {"focusRequest", "channelStop"}
            BY <2>1, StopSent
        <3>2. \A i \in 1 .. Len(toClient') :
                  i \in 1 .. Len(toClient) \/ toClient'[i].name # "channelStart"
            BY <3>1
        <3> QED
            BY <2>1, <3>2, StopSent
    <2>3. CASE unstopped' = FALSE
        <3>1. ~unstopped /\ (told => subscribed["channelStop"] > 0)
            <4>1. unstopped' = (unstopped \/ (told /\ subscribed["channelStop"] = 0))
                BY <2>1 DEF ChannelStop
            <4>2. ~(unstopped \/ (told /\ subscribed["channelStop"] = 0))
                BY <2>3, <4>1
            <4>3. subscribed["channelStop"] = 0 \/ subscribed["channelStop"] > 0
                BY <1>0
            <4> QED
                BY <4>2, <4>3
        <3>2. Once(page.stopListeners) /\ Separate(toClient, Listening)
              /\ (~told => AllStopped(toClient, Listening))
            BY <3>1 DEF OnceInv
        <3>3. Separate(toClient', Listening) /\ AllStopped(toClient', Listening)
            BY <1>0, <2>2, <3>1, <3>2, NoStartAdded
        <3> QED
            BY <1>1, <2>1, <3>2, <3>3 DEF OnceInv
    <2>4. CASE unstopped' # FALSE
        <3>1. unstopped' \in BOOLEAN
            BY DEF Types, ClientTypes
        <3> QED
            BY <2>4, <3>1 DEF OnceInv
    <2> QED
        BY <2>3, <2>4
<1>7. CASE PhoneSetsUp \/ PhoneRequestsFocus
    <2>1. PICK f \in Focus :
              toClient' = Notify(toClient, [name |-> "focusRequest", mode |-> f])
        BY <1>7 DEF PhoneSetsUp, PhoneRequestsFocus, Focus
    <2> DEFINE m == [name |-> "focusRequest", mode |-> f]
    <2>2. m \in Downstream /\ m.name = "focusRequest" /\ toClient' = Notify(toClient, m)
        BY <2>1, ServerMessages
    <2> HIDE DEF m
    <2>3. /\ Prolongs(toClient, toClient')
          /\ \A i \in 1 .. Len(toClient') : i \in 1 .. Len(toClient) \/ toClient'[i] = m
        BY <1>0, <2>2, Prolonged
    <2>4. page' = page /\ told' = told /\ unstopped' = unstopped
        BY <1>7 DEF PhoneSetsUp, PhoneRequestsFocus, history
    <2> QED
        BY <1>2, <2>2, <2>3, <2>4
<1>8. CASE PhoneSendsMedia
    <2>1. PICK good \in BOOLEAN : HandleData(good)
        BY <1>8 DEF PhoneSendsMedia
    <2>2. page' = page /\ told' = told /\ unstopped' = unstopped
        BY <1>8 DEF PhoneSendsMedia
    <2>3. \/ toClient' = toClient
          \/ \E n \in Media : Send(n) /\ codecState # "STOPPED"
        BY <2>1 DEF HandleData, Media
    <2>4. ASSUME NEW n \in Media, Send(n), codecState # "STOPPED"
          PROVE  OnceInv'
        <3> DEFINE m == [name |-> n, start |-> starts]
        <3>1. m \in Downstream /\ m.name # "channelStart" /\ toClient' = Notify(toClient, m)
            BY <2>4, ServerMessages DEF Media, Types, ClientTypes, Send
        <3> HIDE DEF m
        <3>2. /\ Prolongs(toClient, toClient')
              /\ \A i \in 1 .. Len(toClient') : i \in 1 .. Len(toClient) \/ toClient'[i] = m
            BY <1>0, <3>1, Prolonged
        <3> QED
            BY <1>2, <2>2, <3>1, <3>2
    <2> QED
        BY <1>4, <2>2, <2>3, <2>4
<1>9. CASE PhoneStartsChannel
    <2> DEFINE m == [name |-> "channelStart"]
    <2>1. /\ phone = "idle" /\ page' = page /\ unstopped' = unstopped
          /\ toClient' = Notify(toClient, m)
          /\ told' = (subscribed["channelStart"] > 0)
        BY <1>9 DEF PhoneStartsChannel, ChannelStart
    <2>2. m \in Downstream /\ m.name = "channelStart"
        BY ServerMessages
    <2> HIDE DEF m
    <2>3. ~told
        BY <2>1 DEF ToldInv
    <2>4. /\ Prolongs(toClient, toClient')
          /\ subscribed["channelStart"] > 0 => Len(toClient') = Len(toClient) + 1
          /\ ~(subscribed["channelStart"] > 0) => toClient' = toClient
        BY <1>0, <2>1, <2>2, Prolonged
    <2>5. Len(toClient') <= Len(toClient) + 1
        BY <1>0, <2>4
    <2>6. ~unstopped => Separate(toClient', Listening)
        BY <1>0, <2>3, <2>4, <2>5, StartAdded DEF OnceInv
    <2>7. ~told' => toClient' = toClient
        BY <2>1, <2>4, Zenon
    <2>8. ~unstopped /\ ~told' => AllStopped(toClient', Listening)
        BY <2>3, <2>7, Zenon DEF OnceInv
    <2>9. Listening' = Listening
        BY <1>1, <2>1
    <2>10. ~unstopped => Once(page'.stopListeners)
        BY <2>1 DEF OnceInv
    <2>11. ~unstopped' <=> ~unstopped
        BY <2>1
    <2> QED
        BY <2>6, <2>8, <2>9, <2>10, <2>11 DEF OnceInv
<1>10. CASE StoreInitializes
    <2>1. /\ page'.stopListeners = Append(page.stopListeners, "store")
          /\ UNCHANGED <<toClient, told, unstopped>>
        BY <1>10 DEF StoreInitializes, history, Types, PageTypes
    <2>2. "store" \in Listeners
        BY DEF Listeners
    <2>3. /\ Once(page.stopListeners) => Once(page'.stopListeners)
          /\ Without(page'.stopListeners) <=> Without(page.stopListeners)
        BY <1>0, <2>1, <2>2, AddListener
    <2>4. Listening' = Listening
        <3>1. Listening' <=> Listening
            BY <2>3, Listens, ListensNext
        <3>2. Listening' \in BOOLEAN
            BY DEF Listening
        <3> QED
            BY <1>0, <3>1, <3>2
    <2> QED
        BY <2>1, <2>3, <2>4 DEF OnceInv
<1>11. CASE PageOpens \/ PageCloses
    <2>1. /\ UNCHANGED <<toClient, told, unstopped>>
          /\ page' = NoPage \/ page' = [NoPage EXCEPT !.open = TRUE]
        BY <1>11 DEF PageOpens, PageCloses, history
    <2>2. page'.stopListeners = <<>>
        BY <2>1 DEF NoPage
    <2>3. Once(page'.stopListeners) /\ Without(page'.stopListeners)
        BY <2>2 DEF Once, Without
    <2>4. Listening' = FALSE
        <3>1. Listening' \in BOOLEAN
            BY DEF Listening
        <3> QED
            BY <2>3, <3>1, ListensNext
    <2>5. /\ Separate(toClient, Listening) => Separate(toClient, FALSE)
          /\ AllStopped(toClient, Listening) => AllStopped(toClient, FALSE)
        BY DEF Separate, AllStopped, StartAt
    <2> QED
        BY <2>1, <2>3, <2>4, <2>5 DEF OnceInv
<1>12. CASE ServerReceives
    <2> DEFINE m == toServer[1]
    <2>1. /\ \/ ServerSubscribes(m) \/ ServerAnswers(m)
             \/ ServerSendsFocus(m) \/ ServerClosesSocket(m)
          /\ 1 \in 1 .. Len(toServer) /\ page' = page
        BY <1>12, ServerStep
    <2> HIDE DEF m
    <2>2. CASE ServerSubscribes(m) \/ ServerSendsFocus(m)
        BY <1>4, <2>1, <2>2 DEF ServerSubscribes, ServerSendsFocus
    <2>3. CASE ServerAnswers(m)
        <3> DEFINE x == [name |-> "getChannelStarted", result |-> channelStarted]
        <3>1. x \in Downstream /\ x.name # "channelStart" /\ toClient' = Append(toClient, x)
              /\ told' = told /\ unstopped' = unstopped
            BY <2>3, ServerMessages DEF ServerAnswers, Types, PhoneTypes
        <3> HIDE DEF x
        <3>2. /\ toClient' \in Seq(Downstream) /\ Len(toClient') = Len(toClient) + 1
              /\ \A i \in 1 .. Len(toClient) : toClient'[i] = toClient[i]
              /\ toClient'[Len(toClient) + 1] = x
            BY <1>0, <3>1, OneMore
        <3>3. Prolongs(toClient, toClient')
            BY <1>0, <3>2 DEF Prolongs
        <3>4. \A i \in 1 .. Len(toClient') : i \in 1 .. Len(toClient) \/ i = Len(toClient) + 1
            BY <1>0, <3>2
        <3> QED
            BY <1>2, <2>1, <3>1, <3>2, <3>3, <3>4
    <2>4. CASE ServerClosesSocket(m)
        <3>1. ~page.open
            BY <2>1, <2>4 DEF SocketInv, OpenSocket, ServerClosesSocket, m
        <3>2. page.stopListeners = <<>>
            BY <3>1 DEF SocketInv, ClosedSocket, NoPage
        <3>3. Once(page'.stopListeners) /\ Without(page'.stopListeners)
            BY <2>1, <3>2 DEF Once, Without
        <3>4. Listening' = FALSE
            <4>1. Listening' \in BOOLEAN
                BY DEF Listening
            <4> QED
                BY <3>3, <4>1, ListensNext
        <3>5. toClient' = <<>> /\ Len(<<>>) = 0
            BY <2>4 DEF ServerClosesSocket
        <3>6. Separate(<<>>, FALSE) /\ AllStopped(<<>>, FALSE)
            BY DEF Separate, AllStopped, StartAt, Name
        <3> QED
            BY <3>3, <3>4, <3>5, <3>6 DEF OnceInv
    <2> QED
        BY <2>1, <2>2, <2>3, <2>4
<1>13. CASE PageReceives
    <2> DEFINE m == toClient[1]
               s == page.stopListeners
               left == HandleOn(s, page.usageCount # 0).left
    <2>1. /\ toClient # <<>> /\ toClient' = Tail(toClient)
          /\ \/ /\ m.name = "channelStart"
                /\ page'.stopListeners = Append(s, "decoder")
             \/ /\ m.name = "channelStop"
                /\ page'.stopListeners = left
             \/ /\ m.name \notin {"channelStart", "channelStop"}
                /\ page'.stopListeners = s
        BY <1>13, ListenersHeard
    <2>2. told' = told /\ unstopped' = unstopped
        BY <1>13 DEF PageReceives, history
    <2>3. SUFFICES ASSUME ~unstopped
                   PROVE  /\ Once(page'.stopListeners)
                          /\ Separate(toClient', Listening')
                          /\ ~told => AllStopped(toClient', Listening')
        BY <2>2 DEF OnceInv
    <2>4. /\ Once(s) /\ Separate(toClient, Listening)
          /\ ~told => AllStopped(toClient, Listening)
        BY <2>3 DEF OnceInv
    <2>5. (page.usageCount # 0) \in BOOLEAN
        OBVIOUS
    <2>6. Without(left) /\ left \in Seq(Listeners)
        BY <1>0, <2>4, <2>5, HandleOnLeaves
    <2> HIDE DEF left
    <2>7. Listening' \in BOOLEAN
        BY DEF Listening
    <2>8. \/ m.name = "channelStop" /\ ~Listening'
          \/ m.name = "channelStart"
          \/ m.name \notin {"channelStart", "channelStop"} /\ Listening' = Listening
        <3>1. page'.stopListeners = left => ~Listening'
            BY <2>6, ListensNext
        <3> QED
            BY <1>1, <2>1, <3>1
    <2>9. /\ m.name = "channelStart" => ~Listening
          /\ Separate(toClient', Listening')
          /\ AllStopped(toClient, Listening) => AllStopped(toClient', Listening')
        <3> DEFINE on == Listening
                   off == Listening'
        <3>1. on \in BOOLEAN /\ off \in BOOLEAN /\ Separate(toClient, on)
              /\ \/ m.name = "channelStop" /\ ~off
                 \/ m.name = "channelStart"
                 \/ m.name \notin {"channelStart", "channelStop"} /\ off = on
            BY <1>0, <2>4, <2>7, <2>8
        <3> HIDE DEF on, off
        <3>2. /\ m.name = "channelStart" => ~on
              /\ Separate(Tail(toClient), off)
              /\ AllStopped(toClient, on) => AllStopped(Tail(toClient), off)
            BY <1>0, <2>1, <3>1, StartTaken
        <3> QED
            BY <2>1, <3>2 DEF on, off
    <2>10. Once(page'.stopListeners)
        <3>1. CASE m.name = "channelStart"
            <4>1. Without(s) /\ "decoder" \in Listeners
                BY <2>9, <3>1, Listens DEF Listeners
            <4> QED
                BY <1>0, <2>1, <2>4, <3>1, <4>1, AddListener
        <3>2. CASE m.name = "channelStop"
            <4>1. page'.stopListeners = left
                BY <2>1, <3>2
            <4> QED
                BY <2>6, <4>1 DEF Without, Once
        <3>3. CASE m.name \notin {"channelStart", "channelStop"}
            BY <2>1, <2>4, <3>3
        <3> QED
            BY <3>1, <3>2, <3>3
    <2> QED
        BY <2>4, <2>9, <2>10
<1> QED
    BY <1>5, <1>6, <1>7, <1>8, <1>9, <1>10, <1>11, <1>12, <1>13 DEF Next

\* The decoder is registered at most once, unless the server stopped a channel
\* before it had the page's subscription to channelStop.
THEOREM ListensOnce == Spec => []DecoderListensOnce
<1>1. Init => SocketInv /\ ToldInv /\ OnceInv
    <2> SUFFICES ASSUME Init PROVE ToldInv /\ OnceInv
        BY SocketInit
    <2>1. /\ toClient = <<>> /\ page.stopListeners = <<>> /\ ~told
          /\ ~("decoder" \in ToSet(<<>>))
        BY DEF Init, NoPage, ToSet
    <2>2. ~Listening
        BY <2>1 DEF Listening
    <2>3. Len(<<>>) = 0
        OBVIOUS
    <2>4. Once(page.stopListeners)
        BY <2>1, <2>3 DEF Once
    <2>5. Separate(toClient, Listening) /\ AllStopped(toClient, Listening)
        BY <2>1, <2>2, <2>3 DEF Separate, AllStopped, StartAt, Name
    <2> QED
        BY <2>1, <2>4, <2>5 DEF ToldInv, OnceInv
<1>2. CodecInv /\ Types /\ Types' /\ SocketInv /\ ToldInv /\ OnceInv /\ [Next]_vars
          => SocketInv' /\ ToldInv' /\ OnceInv'
    BY SocketStep, ToldStep, OnceStep
<1>3. Types /\ OnceInv => DecoderListensOnce
    <2> SUFFICES ASSUME Types, OnceInv, ~unstopped PROVE Registrations <= 1
        BY DEF DecoderListensOnce
    <2> DEFINE s == page.stopListeners
               D == {i \in DOMAIN s : s[i] = "decoder"}
    <2>1. Once(s) /\ DOMAIN s = 1 .. Len(s)
        BY LenProperties DEF OnceInv, Types, PageTypes
    <2>2. \A i, l \in D : i = l
        BY <2>1 DEF Once
    <2>3. Cardinality(D) <= 1
        <3>1. CASE D = {}
            BY <3>1, FS_EmptySet
        <3>2. CASE D # {}
            <4>1. PICK i : i \in D
                BY <3>2
            <4>2. D = {i}
                BY <2>2, <4>1
            <4> QED
                BY <4>2, FS_Singleton
        <3> QED
            BY <3>1, <3>2
    <2> QED
        BY <2>3 DEF Registrations
<1> QED
    BY <1>1, <1>2, <1>3, Typed, PTL DEF Spec


-----------------------------------------------------------------------------
(***************************************************************************)
(* What holds when the page comes to a message on its way: something a     *)
(* message of S brought about, or that held before the first message, and  *)
(* that no message of D has ended since.                                   *)
(***************************************************************************)
Held(q, now, S, D, l) ==
    \E i \in 0 .. Len(q) :
        /\ i < l
        /\ IF i = 0 THEN now ELSE q[i] \in S
        /\ \A j \in 1 .. Len(q) : i < j /\ j < l => q[j] \notin D

\* What the server adds changes nothing of what came before it.
LEMMA HeldBefore ==
    ASSUME NEW q, NEW r, Prolongs(q, r), Len(q) \in Nat, NEW now \in BOOLEAN,
           NEW S, NEW D, NEW l \in Nat, l <= Len(q) + 1
    PROVE  Held(r, now, S, D, l) <=> Held(q, now, S, D, l)
<1>1. /\ Len(r) \in Nat /\ Len(q) <= Len(r)
      /\ \A i \in 1 .. Len(q) : r[i] = q[i]
    BY LenProperties DEF Prolongs
<1>2. ASSUME Held(r, now, S, D, l) PROVE Held(q, now, S, D, l)
    <2>1. PICK i \in 0 .. Len(r) :
              /\ i < l
              /\ IF i = 0 THEN now ELSE r[i] \in S
              /\ \A j \in 1 .. Len(r) : i < j /\ j < l => r[j] \notin D
        BY <1>2 DEF Held
    <2>2. i \in 0 .. Len(q)
        BY <1>1, <2>1
    <2>3. IF i = 0 THEN now ELSE q[i] \in S
        BY <1>1, <2>1, <2>2
    <2>4. \A j \in 1 .. Len(q) : i < j /\ j < l => q[j] \notin D
        BY <1>1, <2>1
    <2> QED
        BY <2>1, <2>2, <2>3, <2>4 DEF Held
<1>3. ASSUME Held(q, now, S, D, l) PROVE Held(r, now, S, D, l)
    <2>1. PICK i \in 0 .. Len(q) :
              /\ i < l
              /\ IF i = 0 THEN now ELSE q[i] \in S
              /\ \A j \in 1 .. Len(q) : i < j /\ j < l => q[j] \notin D
        BY <1>3 DEF Held
    <2>2. i \in 0 .. Len(r)
        BY <1>1
    <2>3. IF i = 0 THEN now ELSE r[i] \in S
        BY <1>1, <2>1
    <2>4. \A j \in 1 .. Len(r) : i < j /\ j < l => r[j] \notin D
        BY <1>1, <2>1
    <2> QED
        BY <2>1, <2>2, <2>3, <2>4 DEF Held
<1> QED
    BY <1>2, <1>3

\* What holds at the end holds on unless the server adds a message that ends
\* it, and nothing else holds there unless it adds one that brings it about.
LEMMA HeldBehind ==
    ASSUME NEW q, NEW r, Prolongs(q, r), Len(q) \in Nat, NEW now \in BOOLEAN,
           NEW S, NEW D
    PROVE  /\ (\A i \in 1 .. Len(r) : i \in 1 .. Len(q) \/ r[i] \notin D)
                 /\ Held(q, now, S, D, Len(q) + 1)
              => Held(r, now, S, D, Len(r) + 1)
           /\ (\A i \in 1 .. Len(r) : i \in 1 .. Len(q) \/ r[i] \notin S)
                 /\ Held(r, now, S, D, Len(r) + 1)
              => Held(q, now, S, D, Len(q) + 1)
           /\ Len(r) > Len(q) /\ r[Len(r)] \in S
              => Held(r, now, S, D, Len(r) + 1)
           /\ Len(r) > Len(q) /\ r[Len(r)] \in D /\ r[Len(r)] \notin S
              => ~Held(r, now, S, D, Len(r) + 1)
<1>1. /\ Len(r) \in Nat /\ Len(q) <= Len(r)
      /\ \A i \in 1 .. Len(q) : r[i] = q[i]
    BY LenProperties DEF Prolongs
<1>2. ASSUME \A i \in 1 .. Len(r) : i \in 1 .. Len(q) \/ r[i] \notin D,
             Held(q, now, S, D, Len(q) + 1)
      PROVE  Held(r, now, S, D, Len(r) + 1)
    <2>1. PICK i \in 0 .. Len(q) :
              /\ i < Len(q) + 1
              /\ IF i = 0 THEN now ELSE q[i] \in S
              /\ \A j \in 1 .. Len(q) : i < j /\ j < Len(q) + 1 => q[j] \notin D
        BY <1>2 DEF Held
    <2>2. i \in 0 .. Len(r) /\ i < Len(r) + 1
        BY <1>1
    <2>3. IF i = 0 THEN now ELSE r[i] \in S
        BY <1>1, <2>1
    <2>4. \A j \in 1 .. Len(r) : i < j /\ j < Len(r) + 1 => r[j] \notin D
        BY <1>1, <1>2, <2>1
    <2> QED
        BY <2>2, <2>3, <2>4 DEF Held
<1>3. ASSUME \A i \in 1 .. Len(r) : i \in 1 .. Len(q) \/ r[i] \notin S,
             Held(r, now, S, D, Len(r) + 1)
      PROVE  Held(q, now, S, D, Len(q) + 1)
    <2>1. PICK i \in 0 .. Len(r) :
              /\ i < Len(r) + 1
              /\ IF i = 0 THEN now ELSE r[i] \in S
              /\ \A j \in 1 .. Len(r) : i < j /\ j < Len(r) + 1 => r[j] \notin D
        BY <1>3 DEF Held
    <2>2. i \in 0 .. Len(q) /\ i < Len(q) + 1
        BY <1>1, <1>3, <2>1
    <2>3. IF i = 0 THEN now ELSE q[i] \in S
        BY <1>1, <2>1, <2>2
    <2>4. \A j \in 1 .. Len(q) : i < j /\ j < Len(q) + 1 => q[j] \notin D
        BY <1>1, <2>1
    <2> QED
        BY <2>2, <2>3, <2>4 DEF Held
<1>4. ASSUME Len(r) > Len(q), r[Len(r)] \in S
      PROVE  Held(r, now, S, D, Len(r) + 1)
    <2>1. /\ Len(r) \in 0 .. Len(r) /\ Len(r) < Len(r) + 1 /\ Len(r) # 0
          /\ \A j \in 1 .. Len(r) : ~(Len(r) < j)
        BY <1>1, <1>4
    <2> QED
        BY <1>4, <2>1 DEF Held
<1>5. ASSUME Len(r) > Len(q), r[Len(r)] \in D, r[Len(r)] \notin S,
             Held(r, now, S, D, Len(r) + 1)
      PROVE  FALSE
    <2>1. PICK i \in 0 .. Len(r) :
              /\ IF i = 0 THEN now ELSE r[i] \in S
              /\ \A j \in 1 .. Len(r) : i < j /\ j < Len(r) + 1 => r[j] \notin D
        BY <1>5 DEF Held
    <2>2. Len(r) \in 1 .. Len(r) /\ Len(r) < Len(r) + 1
        BY <1>1, <1>5
    <2>3. i # Len(r)
        BY <1>5, <2>1, <2>2
    <2>4. i < Len(r)
        BY <1>1, <2>3
    <2> QED
        BY <1>5, <2>1, <2>2, <2>4
<1> QED
    BY <1>2, <1>3, <1>4, <1>5

\* The page takes the first message.
LEMMA HeldTaken ==
    ASSUME NEW q \in Seq(Downstream), q # <<>>, NEW now \in BOOLEAN,
           NEW then \in BOOLEAN, NEW S, NEW D, NEW l \in Nat
    PROVE  /\ Held(q, now, S, D, l + 1)
                 /\ (q[1] \in S \/ (now /\ q[1] \notin D) => then) /\ l > 0
              => Held(Tail(q), then, S, D, l)
           /\ Held(Tail(q), then, S, D, l)
                 /\ (then => q[1] \notin D /\ (now \/ q[1] \in S))
              => Held(q, now, S, D, l + 1)
<1> DEFINE r == Tail(q)
<1>1. /\ Len(q) \in Nat /\ 1 \in 1 .. Len(q) /\ Len(r) = Len(q) - 1
      /\ \A i \in 1 .. Len(q) - 1 : r[i] = q[i + 1]
    BY OneLess
<1> HIDE DEF r
<1>2. ASSUME Held(q, now, S, D, l + 1), l > 0,
             q[1] \in S \/ (now /\ q[1] \notin D) => then
      PROVE  Held(r, then, S, D, l)
    <2>1. PICK i \in 0 .. Len(q) :
              /\ i < l + 1
              /\ IF i = 0 THEN now ELSE q[i] \in S
              /\ \A j \in 1 .. Len(q) : i < j /\ j < l + 1 => q[j] \notin D
        BY <1>2 DEF Held
    <2>2. \A j \in 1 .. Len(r) : j + 1 \in 1 .. Len(q) /\ r[j] = q[j + 1]
        BY <1>1
    <2>3. CASE i \in {0, 1}
        <3>1. then
            <4>1. CASE i = 0
                <5>1. q[1] \notin D /\ now
                    BY <1>1, <1>2, <2>1, <4>1
                <5> QED
                    BY <1>2, <5>1
            <4>2. CASE i = 1
                BY <1>2, <2>1, <4>2
            <4> QED
                BY <2>3, <4>1, <4>2
        <3>2. \A j \in 1 .. Len(r) : 0 < j /\ j < l => r[j] \notin D
            BY <2>1, <2>2, <2>3
        <3>3. 0 \in 0 .. Len(r) /\ 0 < l
            BY <1>1, <1>2
        <3> QED
            BY <3>1, <3>2, <3>3 DEF Held
    <2>4. CASE i \notin {0, 1}
        <3>1. /\ i - 1 \in 0 .. Len(r) /\ i - 1 \in 1 .. Len(q) - 1 /\ i - 1 # 0
              /\ i - 1 < l /\ (i - 1) + 1 = i
            BY <1>1, <2>1, <2>4
        <3>2. r[i - 1] \in S
            BY <1>1, <2>1, <2>4, <3>1
        <3>3. \A j \in 1 .. Len(r) : i - 1 < j /\ j < l => r[j] \notin D
            BY <2>1, <2>2
        <3> QED
            BY <3>1, <3>2, <3>3 DEF Held
    <2> QED
        BY <2>3, <2>4
<1>3. ASSUME Held(r, then, S, D, l),
             then => q[1] \notin D /\ (now \/ q[1] \in S)
      PROVE  Held(q, now, S, D, l + 1)
    <2>1. PICK i \in 0 .. Len(r) :
              /\ i < l
              /\ IF i = 0 THEN then ELSE r[i] \in S
              /\ \A j \in 1 .. Len(r) : i < j /\ j < l => r[j] \notin D
        BY <1>3 DEF Held
    <2>2. \A j \in 1 .. Len(q) : j = 1 \/ (j - 1 \in 1 .. Len(r) /\ q[j] = r[j - 1])
        BY <1>1
    <2>3. CASE i # 0
        <3>1. i + 1 \in 0 .. Len(q) /\ i + 1 < l + 1 /\ i + 1 # 0
            BY <1>1, <2>1
        <3>2. q[i + 1] \in S
            BY <1>1, <2>1, <2>3
        <3>3. \A j \in 1 .. Len(q) : i + 1 < j /\ j < l + 1 => q[j] \notin D
            BY <2>1, <2>2, <2>3
        <3> QED
            BY <3>1, <3>2, <3>3 DEF Held
    <2>4. CASE i = 0
        <3>1. q[1] \notin D /\ (now \/ q[1] \in S)
            BY <1>3, <2>1, <2>4
        <3>2. \A j \in 1 .. Len(q) : 0 < j /\ j < l + 1 => q[j] \notin D
            BY <2>1, <2>2, <2>4, <3>1
        <3>3. \A j \in 1 .. Len(q) : 1 < j /\ j < l + 1 => q[j] \notin D
            BY <3>2
        <3>4. /\ 0 \in 0 .. Len(q) /\ 0 < l + 1
              /\ 1 \in 0 .. Len(q) /\ 1 < l + 1 /\ 1 # 0
            BY <1>1, <2>1, <2>4
        <3> QED
            BY <3>1, <3>2, <3>3, <3>4 DEF Held
    <2> QED
        BY <2>3, <2>4
<1> QED
    BY <1>2, <1>3 DEF r

-----------------------------------------------------------------------------
(***************************************************************************)
(* A page that came after the start of a channel hears nothing of it.      *)
(***************************************************************************)
HeardInv ==
    page.open /\ phone = "streaming" /\ ~told =>
        /\ \A i \in 1 .. Len(toClient) : toClient[i].name # "channelStart"
        /\ \A n \in Media : subscribed[n] = 0
        /\ \A i \in 1 .. Len(toServer), n \in Media :
              About(toServer[i], n) => ~toServer[i].subscribe

LEMMA HeardStep ==
    ASSUME CodecInv, Types, Types', SocketInv, HeardInv, [Next]_vars
    PROVE  HeardInv'
<1>0. /\ toClient \in Seq(Downstream) /\ Len(toClient) \in Nat
      /\ subscribed \in [Names -> Nat] /\ told \in BOOLEAN /\ page.open \in BOOLEAN
      /\ Media \subseteq Names
    BY LenProperties, NamesAre DEF Types, ClientTypes, PageTypes, PhoneTypes, Media
<1>1. ASSUME page'.open = page.open, phone' = "streaming" => phone = "streaming",
             UNCHANGED <<told, subscribed, toServer>>,
             Prolongs(toClient, toClient'),
             \A i \in 1 .. Len(toClient') :
                 i \in 1 .. Len(toClient) \/ toClient'[i].name # "channelStart"
      PROVE  HeardInv'
    <2> SUFFICES ASSUME page.open /\ phone = "streaming" /\ ~told
                 PROVE  \A i \in 1 .. Len(toClient') : toClient'[i].name # "channelStart"
        BY <1>1 DEF HeardInv
    <2> QED
        BY <1>1 DEF HeardInv, Prolongs
<1>2. Prolongs(toClient, toClient)
    BY <1>0 DEF Prolongs
<1>3. CASE SessionStarts \/ PhoneTakesFocus \/ OtherPage \/ VideoHidden \/ UNCHANGED vars
    <2>1. /\ page'.open = page.open
          /\ phone' = "streaming" => phone = "streaming"
          /\ UNCHANGED <<told, subscribed, toServer, toClient>>
        BY <1>3 DEF SessionStarts, PhoneTakesFocus, OtherPage, VideoHidden, vars, history,
           Types, PageTypes
    <2> QED
        BY <1>1, <1>2, <2>1
<1>4. CASE SessionEnds \/ PhoneStopsChannel
    BY <1>4 DEF SessionEnds, PhoneStopsChannel, HeardInv
<1>5. CASE PhoneSetsUp
    BY <1>5 DEF PhoneSetsUp, HeardInv
<1>6. CASE PhoneRequestsFocus
    <2>1. PICK f \in Focus :
              toClient' = Notify(toClient, [name |-> "focusRequest", mode |-> f])
        BY <1>6 DEF PhoneRequestsFocus
    <2> DEFINE m == [name |-> "focusRequest", mode |-> f]
    <2>2. m \in Downstream /\ m.name = "focusRequest" /\ toClient' = Notify(toClient, m)
        BY <2>1, ServerMessages
    <2> HIDE DEF m
    <2>3. /\ Prolongs(toClient, toClient')
          /\ \A i \in 1 .. Len(toClient') : i \in 1 .. Len(toClient) \/ toClient'[i] = m
        BY <1>0, <2>2, Prolonged
    <2>4. page' = page /\ phone' = phone /\ UNCHANGED <<told, subscribed, toServer>>
        BY <1>6 DEF PhoneRequestsFocus, history
    <2> QED
        BY <1>1, <2>2, <2>3, <2>4
<1>7. CASE PhoneSendsMedia
    <2>1. PICK good \in BOOLEAN : HandleData(good)
        BY <1>7 DEF PhoneSendsMedia
    <2>2. page' = page /\ phone' = phone /\ UNCHANGED <<told, subscribed, toServer>>
        BY <1>7 DEF PhoneSendsMedia
    <2>3. \/ toClient' = toClient
          \/ \E n \in Media : Send(n) /\ codecState # "STOPPED"
        BY <2>1 DEF HandleData, Media
    <2>4. ASSUME NEW n \in Media, Send(n), codecState # "STOPPED"
          PROVE  HeardInv'
        <3> DEFINE m == [name |-> n, start |-> starts]
        <3>1. m \in Downstream /\ m.name # "channelStart" /\ toClient' = Notify(toClient, m)
            BY <2>4, ServerMessages DEF Media, Types, ClientTypes, Send
        <3> HIDE DEF m
        <3>2. /\ Prolongs(toClient, toClient')
              /\ \A i \in 1 .. Len(toClient') : i \in 1 .. Len(toClient) \/ toClient'[i] = m
            BY <1>0, <3>1, Prolonged
        <3> QED
            BY <1>1, <2>2, <3>1, <3>2
    <2> QED
        BY <1>1, <1>2, <2>2, <2>3, <2>4
<1>8. CASE PhoneStartsChannel
    <2> DEFINE m == [name |-> "channelStart"]
    <2>1. /\ page' = page /\ UNCHANGED <<subscribed, toServer>>
          /\ toClient' = Notify(toClient, m)
          /\ told' = (subscribed["channelStart"] > 0)
        BY <1>8 DEF PhoneStartsChannel, ChannelStart
    <2>2. m \in Downstream /\ m.name = "channelStart" /\ "channelStart" \in Names
        BY ServerMessages, NamesAre
    <2> HIDE DEF m
    <2> SUFFICES ASSUME page.open, ~told' PROVE HeardInv'
        BY <2>1 DEF HeardInv
    <2>3. ~(subscribed["channelStart"] > 0)
        BY <2>1
    <2>4. subscribed["channelStart"] = 0
        BY <1>0, <2>2, <2>3
    <2>5. /\ Unheard
          /\ \A i \in 1 .. Len(toServer), n \in Media : ~About(toServer[i], n)
        BY <2>4 DEF SocketInv, Unknown
    <2>6. toClient' = <<>> /\ Len(<<>>) = 0 /\ \A n \in Media : subscribed[n] = 0
        BY <1>0, <2>1, <2>2, <2>3, <2>5, Notified DEF Unheard
    <2> QED
        BY <2>1, <2>5, <2>6 DEF HeardInv
<1>9. CASE PageOpens
    <2> DEFINE x == Subscribe("channelStart", TRUE)
    <2>1. /\ ~page.open /\ toServer = <<>> /\ toServer' = <<x>>
          /\ UNCHANGED <<toClient, subscribed>>
        BY <1>9 DEF PageOpens
    <2>2. \A n \in Media : ~About(x, n)
        BY DEF Media, About, Subscribe
    <2>3. Unheard
        BY <2>1 DEF SocketInv, ClosedSocket
    <2> HIDE DEF x
    <2>4. /\ \A i \in 1 .. Len(<<x>>) : <<x>>[i] = x
          /\ toClient' = <<>> /\ Len(<<>>) = 0
          /\ \A n \in Media : subscribed'[n] = 0
        BY <1>0, <2>1, <2>3 DEF Unheard
    <2> QED
        BY <2>1, <2>2, <2>4 DEF HeardInv
<1>10. CASE PageCloses
    BY <1>10 DEF PageCloses, NoPage, HeardInv
<1>11. CASE StoreInitializes \/ VideoShown \/ HideTimer \/ PageReceives
    <2> SUFFICES ASSUME phone = "streaming", ~told PROVE HeardInv'
        BY <1>11, PageStep DEF HeardInv, history
    <2>1. /\ page.open
          /\ \E a \in Seq(Sent) :
                /\ Sends(a)
                /\ \A i \in 1 .. Len(toServer') :
                      \/ i \in 1 .. Len(toServer) /\ toServer'[i] = toServer[i]
                      \/ i - Len(toServer) \in 1 .. Len(a)
                            /\ toServer'[i] = a[i - Len(toServer)]
          /\ UNCHANGED subscribed
        BY <1>11, PageStep
    <2>2. PICK a \in Seq(Sent) :
                /\ Sends(a)
                /\ \A i \in 1 .. Len(toServer') :
                      \/ i \in 1 .. Len(toServer) /\ toServer'[i] = toServer[i]
                      \/ i - Len(toServer) \in 1 .. Len(a)
                            /\ toServer'[i] = a[i - Len(toServer)]
        BY <2>1
    <2>3. /\ \A i \in 1 .. Len(toClient) : toClient[i].name # "channelStart"
          /\ \A n \in Media : subscribed[n] = 0
          /\ \A i \in 1 .. Len(toServer), n \in Media :
                About(toServer[i], n) => ~toServer[i].subscribe
        BY <2>1 DEF HeardInv
    <2>4. \A i \in 1 .. Len(toClient') : toClient'[i].name # "channelStart"
        <3>1. CASE PageReceives
            <4>1. toClient # <<>> /\ toClient' = Tail(toClient)
                BY <3>1 DEF PageReceives
            <4> DEFINE r == Tail(toClient)
            <4>2. /\ Len(r) = Len(toClient) - 1
                  /\ \A i \in 1 .. Len(toClient) - 1 : r[i] = toClient[i + 1]
                BY <1>0, <4>1, OneLess
            <4> HIDE DEF r
            <4>3. \A i \in 1 .. Len(r) : r[i].name # "channelStart"
                BY <1>0, <2>3, <4>2
            <4> QED
                BY <4>1, <4>3 DEF r
        <3>2. CASE ~PageReceives
            <4>1. toClient' = toClient
                BY <1>11, <3>2 DEF StoreInitializes, VideoShown, HideTimer
            <4> QED
                BY <2>3, <4>1
        <3> QED
            BY <3>1, <3>2
    <2>5. \A i \in 1 .. Len(a), n \in Media : About(a[i], n) => ~a[i].subscribe
        <3>1. CASE PageReceives
            <4>1. Head(toClient).name # "channelStart"
                BY <1>0, <2>3, <3>1, OneLess DEF PageReceives
            <4> QED
                BY <2>2, <4>1 DEF Sends
        <3> QED
            BY <2>2, <3>1 DEF Sends
    <2>6. \A i \in 1 .. Len(toServer'), n \in Media :
              About(toServer'[i], n) => ~toServer'[i].subscribe
        BY <2>2, <2>3, <2>5
    <2> QED
        BY <2>1, <2>3, <2>4, <2>6 DEF HeardInv
<1>12. CASE ServerReceives
    <2> DEFINE m == toServer[1]
    <2>1. /\ \/ ServerSubscribes(m) \/ ServerAnswers(m)
             \/ ServerSendsFocus(m) \/ ServerClosesSocket(m)
          /\ 1 \in 1 .. Len(toServer) /\ UNCHANGED <<page, phone>>
          /\ \A i \in 1 .. Len(toServer') :
                i + 1 \in 1 .. Len(toServer) /\ toServer'[i] = toServer[i + 1]
        BY <1>12, ServerStep
    <2> SUFFICES ASSUME page.open, phone = "streaming", ~told' PROVE HeardInv'
        BY <2>1 DEF HeardInv
    <2>2. ~ServerClosesSocket(m)
        BY <2>1 DEF SocketInv, OpenSocket, ServerClosesSocket
    <2>3. told' = told
        BY <2>1, <2>2 DEF ServerSubscribes, ServerAnswers, ServerSendsFocus
    <2>4. /\ \A i \in 1 .. Len(toClient) : toClient[i].name # "channelStart"
          /\ \A n \in Media : subscribed[n] = 0
          /\ \A i \in 1 .. Len(toServer), n \in Media :
                About(toServer[i], n) => ~toServer[i].subscribe
        BY <2>3 DEF HeardInv
    <2>5. \A i \in 1 .. Len(toServer'), n \in Media :
              About(toServer'[i], n) => ~toServer'[i].subscribe
        BY <2>1, <2>4
    <2>6. \A n \in Media : subscribed'[n] = 0
        <3>1. CASE ServerSubscribes(m)
            <4>1. CASE m.name \in Media
                <5>1. ~m.subscribe /\ subscribed[m.name] = 0
                    BY <2>1, <2>4, <3>1, <4>1 DEF ServerSubscribes, About
                <5>2. subscribed' = subscribed
                    BY <3>1, <5>1 DEF ServerSubscribes
                <5> QED
                    BY <2>4, <5>2
            <4>2. CASE m.name \notin Media
                <5>1. \E c : subscribed' \in {subscribed, [subscribed EXCEPT ![m.name] = c]}
                    BY <3>1 DEF ServerSubscribes
                <5> QED
                    BY <1>0, <2>4, <4>2, <5>1
            <4> QED
                BY <4>1, <4>2
        <3>2. CASE ServerAnswers(m) \/ ServerSendsFocus(m)
            BY <2>4, <3>2 DEF ServerAnswers, ServerSendsFocus
        <3> QED
            BY <2>1, <2>2, <3>1, <3>2
    <2>7. \A i \in 1 .. Len(toClient') : toClient'[i].name # "channelStart"
        <3>1. CASE ServerSubscribes(m) \/ ServerSendsFocus(m)
            BY <2>4, <3>1 DEF ServerSubscribes, ServerSendsFocus
        <3>2. CASE ServerAnswers(m)
            <4> DEFINE x == [name |-> "getChannelStarted", result |-> channelStarted]
            <4>1. x \in Downstream /\ x.name # "channelStart" /\ toClient' = Append(toClient, x)
                BY <3>2, ServerMessages DEF ServerAnswers, Types, PhoneTypes
            <4> HIDE DEF x
            <4>2. /\ Len(toClient') = Len(toClient) + 1
                  /\ \A i \in 1 .. Len(toClient) : toClient'[i] = toClient[i]
                  /\ toClient'[Len(toClient) + 1] = x
                BY <1>0, <4>1, OneMore
            <4>3. \A i \in 1 .. Len(toClient') :
                      i \in 1 .. Len(toClient) \/ i = Len(toClient) + 1
                BY <1>0, <4>2
            <4> QED
                BY <2>4, <4>1, <4>2, <4>3
        <3> QED
            BY <2>1, <2>2, <3>1, <3>2
    <2> QED
        BY <2>5, <2>6, <2>7 DEF HeardInv
<1> QED
    BY <1>3, <1>4, <1>5, <1>6, <1>7, <1>8, <1>9, <1>10, <1>11, <1>12 DEF Next

-----------------------------------------------------------------------------
(***************************************************************************)
(* The frames of a start come to a worker that has the configuration and   *)
(* the key frame of that start.                                            *)
(***************************************************************************)
Of(n) == {m \in Downstream : m.name = n}
OfStart(n, s) == {m \in Downstream : m.name = n /\ m.start = s}
Stops == Of("channelStop")
Changes == Stops \cup Of("codecConfig")

Accepts(pg) == pg.acceptData = TRUE /\ "decoder" \in ToSet(pg.stopListeners)
ConfigIs(pg, s) == pg.worker # "unconfigured" /\ pg.config = s
DecodesWith(pg, s) == pg.worker = "decoding" /\ pg.config = s

OpenAt(q, pg, l) == Held(q, Accepts(pg), Of("channelStart"), Stops, l)
ConfigAt(q, pg, s, l) == Held(q, ConfigIs(pg, s), OfStart("codecConfig", s), Changes, l)
DecodesAt(q, pg, s, l) == Held(q, DecodesWith(pg, s), OfStart("firstFrame", s), Changes, l)

\* What the message m finds at place l, if its start is not in late.
Finds(q, pg, late, m, l) ==
    /\ m.name \in Media => OpenAt(q, pg, l)
    /\ m.name = "firstFrame" /\ m.start \notin late => ConfigAt(q, pg, m.start, l)
    /\ m.name = "data" /\ m.start \notin late => DecodesAt(q, pg, m.start, l)

AllFind(q, pg, late) == \A p \in 1 .. Len(q) : Finds(q, pg, late, q[p], p)

\* What the next message of the phone would find.
Ready ==
    told =>
        /\ OpenAt(toClient, page, Len(toClient) + 1)
        /\ starts \notin missed =>
              /\ codecState = "WAITING_FOR_FIRST_FRAME" =>
                    ConfigAt(toClient, page, starts, Len(toClient) + 1)
              /\ codecState = "STARTED" =>
                    DecodesAt(toClient, page, starts, Len(toClient) + 1)

FrameInv == page.open => AllFind(toClient, page, missed) /\ Ready

LEMMA Registers ==
    \A pg, s : /\ Accepts(pg) \in BOOLEAN /\ ConfigIs(pg, s) \in BOOLEAN
               /\ DecodesWith(pg, s) \in BOOLEAN
BY DEF Accepts, ConfigIs, DecodesWith

LEMMA AtBefore ==
    ASSUME NEW q, NEW r, Prolongs(q, r), Len(q) \in Nat,
           NEW pg, NEW l \in Nat, l <= Len(q) + 1
    PROVE  /\ OpenAt(r, pg, l) <=> OpenAt(q, pg, l)
           /\ \A s : ConfigAt(r, pg, s, l) <=> ConfigAt(q, pg, s, l)
           /\ \A s : DecodesAt(r, pg, s, l) <=> DecodesAt(q, pg, s, l)
BY HeldBefore, Registers DEF OpenAt, ConfigAt, DecodesAt

\* The end moves behind what the server adds.
LEMMA AtEnd ==
    ASSUME NEW q, NEW r, Prolongs(q, r), Len(q) \in Nat,
           NEW pg
    PROVE  /\ (\A i \in 1 .. Len(r) : i \in 1 .. Len(q) \/ r[i] \notin Stops)
                 /\ OpenAt(q, pg, Len(q) + 1)
              => OpenAt(r, pg, Len(r) + 1)
           /\ (\A i \in 1 .. Len(r) : i \in 1 .. Len(q) \/ r[i] \notin Changes)
              => \A s : /\ ConfigAt(q, pg, s, Len(q) + 1) => ConfigAt(r, pg, s, Len(r) + 1)
                        /\ DecodesAt(q, pg, s, Len(q) + 1) => DecodesAt(r, pg, s, Len(r) + 1)
           /\ Len(r) > Len(q) =>
                /\ r[Len(r)] \in Of("channelStart") => OpenAt(r, pg, Len(r) + 1)
                /\ \A s : /\ r[Len(r)] \in OfStart("codecConfig", s)
                                => ConfigAt(r, pg, s, Len(r) + 1)
                          /\ r[Len(r)] \in OfStart("firstFrame", s)
                                => DecodesAt(r, pg, s, Len(r) + 1)
<1>1. /\ (\A i \in 1 .. Len(r) : i \in 1 .. Len(q) \/ r[i] \notin Stops)
            /\ OpenAt(q, pg, Len(q) + 1)
         => OpenAt(r, pg, Len(r) + 1)
      /\ Len(r) > Len(q) /\ r[Len(r)] \in Of("channelStart") => OpenAt(r, pg, Len(r) + 1)
    BY HeldBehind, Registers DEF OpenAt
<1>2. \A s : /\ (\A i \in 1 .. Len(r) : i \in 1 .. Len(q) \/ r[i] \notin Changes)
                   /\ ConfigAt(q, pg, s, Len(q) + 1)
                => ConfigAt(r, pg, s, Len(r) + 1)
             /\ Len(r) > Len(q) /\ r[Len(r)] \in OfStart("codecConfig", s)
                => ConfigAt(r, pg, s, Len(r) + 1)
    <2> TAKE s
    <2> DEFINE now == ConfigIs(pg, s)
               S == OfStart("codecConfig", s)
    <2>1. /\ now \in BOOLEAN
          /\ \A t, l : t = q \/ t = r => ConfigAt(t, pg, s, l) = Held(t, now, S, Changes, l)
        BY Registers DEF ConfigAt
    <2> HIDE DEF now
    <2> QED
        BY <2>1, HeldBehind
<1>3. \A s : /\ (\A i \in 1 .. Len(r) : i \in 1 .. Len(q) \/ r[i] \notin Changes)
                   /\ DecodesAt(q, pg, s, Len(q) + 1)
                => DecodesAt(r, pg, s, Len(r) + 1)
             /\ Len(r) > Len(q) /\ r[Len(r)] \in OfStart("firstFrame", s)
                => DecodesAt(r, pg, s, Len(r) + 1)
    BY HeldBehind, Registers DEF DecodesAt
<1> QED
    BY <1>1, <1>2, <1>3

\* A message that is added finds what the next message would find; those
\* before it find what they found.
LEMMA AllFindMore ==
    ASSUME NEW q, NEW r, Prolongs(q, r), Len(q) \in Nat, NEW late, NEW later,
           NEW pg, late \subseteq later, AllFind(q, pg, late),
           \A i \in 1 .. Len(r) :
               \/ i \in 1 .. Len(q) \/ r[i].name \notin Media
               \/ i = Len(q) + 1 /\ Finds(q, pg, later, r[i], i)
    PROVE  AllFind(r, pg, later)
<1> SUFFICES ASSUME NEW i \in 1 .. Len(r)
             PROVE  Finds(r, pg, later, r[i], i)
    BY DEF AllFind
<1>1. CASE i \in 1 .. Len(q)
    <2>1. Finds(q, pg, late, r[i], i)
        BY <1>1 DEF AllFind, Prolongs
    <2>2. i \in Nat /\ i <= Len(q) + 1
        BY <1>1
    <2> QED
        BY <2>1, <2>2, AtBefore DEF Finds
<1>2. CASE r[i].name \notin Media
    BY <1>2 DEF Finds, Media
<1>3. CASE i = Len(q) + 1 /\ Finds(q, pg, later, r[i], i)
    <2>1. i \in Nat /\ i <= Len(q) + 1
        BY <1>3
    <2> QED
        BY <1>3, <2>1, AtBefore DEF Finds
<1> QED
    BY <1>1, <1>2, <1>3

LEMMA AtFirst ==
    ASSUME NEW q, NEW now \in BOOLEAN, NEW S, NEW D, Held(q, now, S, D, 1)
    PROVE  now
BY DEF Held

\* What the first message finds is what the page has.
LEMMA FindsFirst ==
    ASSUME NEW q, NEW pg, NEW late, NEW m, Finds(q, pg, late, m, 1)
    PROVE  /\ m.name \in Media => Accepts(pg)
           /\ m.name = "firstFrame" /\ m.start \notin late => ConfigIs(pg, m.start)
           /\ m.name = "data" /\ m.start \notin late => DecodesWith(pg, m.start)
BY AtFirst, Registers DEF Finds, OpenAt, ConfigAt, DecodesAt

\* What becomes of the page with a message that finds what it should.
TookOpen(pg, qg, m) ==
    m.name = "channelStart" \/ (Accepts(pg) /\ m.name # "channelStop") => Accepts(qg)
TookStart(pg, qg, late, m) ==
    \A s : s \notin late =>
        /\ m.name = "codecConfig" /\ m.start = s => ConfigIs(qg, s)
        /\ ConfigIs(pg, s) /\ m.name \notin {"codecConfig", "channelStop"}
              => ConfigIs(qg, s)
        /\ m.name = "firstFrame" /\ m.start = s => DecodesWith(qg, s)
        /\ DecodesWith(pg, s) /\ m.name \notin {"codecConfig", "channelStop"}
              => DecodesWith(qg, s)
TookFrame(pg, qg, late) ==
    pg.rejected \cup pg.garbled \subseteq late =>
        qg.rejected \cup qg.garbled \subseteq late
Took(pg, qg, late, m) ==
    TookOpen(pg, qg, m) /\ TookStart(pg, qg, late, m) /\ TookFrame(pg, qg, late)

\* What a message leaves alone.
LEMMA TookAlone ==
    ASSUME NEW pg, NEW qg, NEW late, NEW m
    PROVE  /\ qg.acceptData = pg.acceptData /\ qg.stopListeners = pg.stopListeners
                 /\ m.name # "channelStart"
              => TookOpen(pg, qg, m)
           /\ qg.worker = pg.worker /\ qg.config = pg.config
                 /\ m.name \notin {"codecConfig", "firstFrame"}
              => TookStart(pg, qg, late, m)
           /\ qg.rejected = pg.rejected /\ qg.garbled = pg.garbled => TookFrame(pg, qg, late)
<1>1. ASSUME qg.acceptData = pg.acceptData, qg.stopListeners = pg.stopListeners,
             m.name # "channelStart"
      PROVE  TookOpen(pg, qg, m)
    BY <1>1, Zenon DEF TookOpen, Accepts
<1>2. ASSUME qg.worker = pg.worker, qg.config = pg.config,
             m.name \notin {"codecConfig", "firstFrame"}
      PROVE  TookStart(pg, qg, late, m)
    BY <1>2 DEF TookStart, ConfigIs, DecodesWith
<1>3. ASSUME qg.rejected = pg.rejected, qg.garbled = pg.garbled
      PROVE  TookFrame(pg, qg, late)
    BY <1>3, Zenon DEF TookFrame
<1> QED
    BY <1>1, <1>2, <1>3

LEMMA PageTook ==
    ASSUME Types, PageReceives, Finds(toClient, page, missed, toClient[1], 1)
    PROVE  Took(page, page', missed, toClient[1])
<1> DEFINE m == toClient[1]
<1>1. \/ OnChannelStart(m) \/ OnChannelStop(m) \/ OnCodecConfig(m)
      \/ OnFrame(m) \/ OnFocusRequest(m) \/ OnReply(m)
    BY OneLess DEF PageReceives, Types, ClientTypes
<1>2. /\ m.name \in Media => Accepts(page)
      /\ m.name = "firstFrame" /\ m.start \notin missed => ConfigIs(page, m.start)
      /\ m.name = "data" /\ m.start \notin missed => DecodesWith(page, m.start)
    BY FindsFirst DEF Types, PageTypes
<1> SUFFICES Took(page, page', missed, m)
    OBVIOUS
<1> HIDE DEF m
<1>3. CASE OnChannelStart(m)
    <2>1. /\ m.name = "channelStart"
          /\ page' = [page EXCEPT !.acceptData = TRUE,
                                  !.stopListeners = Append(page.stopListeners, "decoder")]
        BY <1>3 DEF OnChannelStart
    <2> DEFINE s == Append(page.stopListeners, "decoder")
    <2>2. "decoder" \in ToSet(s)
        <3>1. page.stopListeners \in Seq(Listeners) /\ "decoder" \in Listeners
            BY DEF Types, PageTypes, Listeners
        <3>2. s \in Seq(Listeners) /\ ~Without(s)
            BY <3>1, AddListener, OneMore
        <3>3. DOMAIN s = 1 .. Len(s)
            BY <3>2, LenProperties
        <3> QED
            BY <3>2, <3>3 DEF ToSet, Without
    <2> HIDE DEF s
    <2>3. /\ page'.acceptData = TRUE /\ page'.stopListeners = s
          /\ page'.worker = page.worker /\ page'.config = page.config
          /\ page'.rejected = page.rejected /\ page'.garbled = page.garbled
        BY <2>1 DEF Types, PageTypes, s
    <2> QED
        <3>1. TookOpen(page, page', m)
            BY <2>2, <2>3 DEF TookOpen, Accepts
        <3>2. TookStart(page, page', missed, m) /\ TookFrame(page, page', missed)
            BY <2>1, <2>3, TookAlone
        <3> QED
            BY <3>1, <3>2 DEF Took
<1>4. CASE OnChannelStop(m)
    <2>1. /\ m.name = "channelStop"
          /\ page'.rejected = page.rejected /\ page'.garbled = page.garbled
        BY <1>4 DEF OnChannelStop, Types, PageTypes
    <2> QED
        BY <2>1, TookAlone DEF Took, TookOpen, TookStart
<1>5. CASE OnCodecConfig(m)
    <2>1. m.name = "codecConfig"
        BY <1>5 DEF OnCodecConfig
    <2>2. Accepts(page) /\ Listening
        BY <1>2, <2>1 DEF Media, Accepts, Listening
    <2>3. page' = [page EXCEPT !.worker = "configured", !.config = m.start]
        BY <1>5, <2>2 DEF OnCodecConfig
    <2>4. /\ page'.acceptData = page.acceptData /\ page'.stopListeners = page.stopListeners
          /\ page'.worker = "configured" /\ page'.config = m.start
          /\ page'.rejected = page.rejected /\ page'.garbled = page.garbled
        BY <2>3 DEF Types, PageTypes
    <2> QED
        <3>1. TookOpen(page, page', m) /\ TookFrame(page, page', missed)
            BY <2>1, <2>4, TookAlone
        <3>2. TookStart(page, page', missed, m)
            BY <2>1, <2>4 DEF TookStart, ConfigIs
        <3> QED
            BY <3>1, <3>2 DEF Took
<1>6. CASE OnFrame(m)
    <2>1. m.name \in {"firstFrame", "data"} /\ Accepts(page) /\ Listening /\ page.acceptData
        BY <1>2, <1>6 DEF OnFrame, Media, Accepts, Listening
    <2> DEFINE decodes == IF m.name = "firstFrame"
                          THEN page.worker # "unconfigured"
                          ELSE page.worker = "decoding"
    <2>2. /\ ~decodes => page' = [page EXCEPT !.rejected = @ \cup {m.start}]
          /\ decodes => page' = [page EXCEPT !.worker = "decoding",
                                             !.garbled = IF page.config = m.start THEN @
                                                         ELSE @ \cup {m.start}]
        BY <1>6, <2>1 DEF OnFrame
    <2>3. m.start \notin missed => decodes /\ page.config = m.start
        BY <1>2, <2>1 DEF ConfigIs, DecodesWith
    <2>4. CASE decodes
        <3>1. /\ page'.acceptData = page.acceptData
              /\ page'.stopListeners = page.stopListeners
              /\ page'.worker = "decoding" /\ page'.config = page.config
              /\ page'.rejected = page.rejected
              /\ page'.garbled \subseteq page.garbled \cup {m.start}
              /\ page.config = m.start => page'.garbled = page.garbled
            BY <2>2, <2>4 DEF Types, PageTypes
        <3> HIDE DEF decodes
        <3> QED
            <4>1. TookOpen(page, page', m)
                BY <2>1, <3>1, TookAlone
            <4>2. TookStart(page, page', missed, m)
                BY <2>1, <2>3, <3>1 DEF TookStart, ConfigIs, DecodesWith
            <4>3. TookFrame(page, page', missed)
                BY <2>3, <3>1 DEF TookFrame
            <4> QED
                BY <4>1, <4>2, <4>3 DEF Took
    <2>5. CASE ~decodes
        <3>1. /\ page'.acceptData = page.acceptData
              /\ page'.stopListeners = page.stopListeners
              /\ page'.worker = page.worker /\ page'.config = page.config
              /\ page'.rejected = page.rejected \cup {m.start}
              /\ page'.garbled = page.garbled
            BY <2>2, <2>5 DEF Types, PageTypes
        <3> HIDE DEF decodes
        <3> QED
            <4>1. TookOpen(page, page', m)
                BY <2>1, <3>1, TookAlone
            <4>2. TookStart(page, page', missed, m)
                BY <2>1, <2>3, <2>5, <3>1 DEF TookStart, ConfigIs, DecodesWith
            <4>3. TookFrame(page, page', missed)
                BY <2>3, <2>5, <3>1 DEF TookFrame
            <4> QED
                BY <4>1, <4>2, <4>3 DEF Took
    <2> QED
        BY <2>4, <2>5
<1>7. CASE OnFocusRequest(m) \/ OnReply(m)
    <2>1. /\ m.name \in {"focusRequest", "getChannelStarted"}
          /\ page'.acceptData = page.acceptData /\ page'.stopListeners = page.stopListeners
          /\ page'.worker = page.worker /\ page'.config = page.config
          /\ page'.rejected = page.rejected /\ page'.garbled = page.garbled
        BY <1>7 DEF OnFocusRequest, OnReply, Types, PageTypes
    <2> QED
        BY <2>1, TookAlone DEF Took
<1> QED
    BY <1>1, <1>3, <1>4, <1>5, <1>6, <1>7

LEMMA OpenTaken ==
    ASSUME NEW q \in Seq(Downstream), q # <<>>, NEW pg, NEW qg,
           TookOpen(pg, qg, q[1]), NEW l \in Nat, l > 0, NEW k, k = l + 1,
           NEW r, r = Tail(q), OpenAt(q, pg, k)
    PROVE  OpenAt(r, qg, l)
<1> DEFINE m == q[1]
           S == Of("channelStart")
<1>0. m \in Downstream
    BY OneLess
<1>1. m \in S \/ (Accepts(pg) /\ m \notin Stops) => Accepts(qg)
    BY <1>0 DEF TookOpen, Of, Stops
<1>2. /\ Held(q, Accepts(pg), S, Stops, l + 1)
      /\ OpenAt(r, qg, l) = Held(Tail(q), Accepts(qg), S, Stops, l)
    BY DEF OpenAt
<1> HIDE DEF S
<1> QED
    BY <1>1, <1>2, HeldTaken, Registers

LEMMA StartsTaken ==
    ASSUME NEW q \in Seq(Downstream), q # <<>>, NEW pg, NEW qg, NEW late,
           TookStart(pg, qg, late, q[1]), NEW l \in Nat, l > 0, NEW k, k = l + 1,
           NEW r, r = Tail(q), NEW s, s \notin late
    PROVE  /\ ConfigAt(q, pg, s, k) => ConfigAt(r, qg, s, l)
           /\ DecodesAt(q, pg, s, k) => DecodesAt(r, qg, s, l)
<1> DEFINE m == q[1]
           S == OfStart("codecConfig", s)
           F == OfStart("firstFrame", s)
<1>0. m \in Downstream
    BY OneLess
<1>1. m \in S \/ (ConfigIs(pg, s) /\ m \notin Changes) => ConfigIs(qg, s)
    BY <1>0 DEF TookStart, Of, OfStart, Stops, Changes
<1>2. m \in F \/ (DecodesWith(pg, s) /\ m \notin Changes) => DecodesWith(qg, s)
    BY <1>0 DEF TookStart, Of, OfStart, Stops, Changes
<1>3. /\ ConfigAt(q, pg, s, k) = Held(q, ConfigIs(pg, s), S, Changes, l + 1)
      /\ ConfigAt(r, qg, s, l) = Held(Tail(q), ConfigIs(qg, s), S, Changes, l)
    BY DEF ConfigAt
<1>4. /\ DecodesAt(q, pg, s, k) = Held(q, DecodesWith(pg, s), F, Changes, l + 1)
      /\ DecodesAt(r, qg, s, l) = Held(Tail(q), DecodesWith(qg, s), F, Changes, l)
    BY DEF DecodesAt
<1> HIDE DEF S, F
<1>5. ConfigAt(q, pg, s, k) => ConfigAt(r, qg, s, l)
    BY <1>1, <1>3, HeldTaken, Registers
<1>6. DecodesAt(q, pg, s, k) => DecodesAt(r, qg, s, l)
    BY <1>2, <1>4, HeldTaken, Registers
<1> QED
    BY <1>5, <1>6

LEMMA AllFindLess ==
    ASSUME NEW q \in Seq(Downstream), q # <<>>, NEW pg, NEW qg, NEW late,
           Took(pg, qg, late, q[1]), AllFind(q, pg, late)
    PROVE  AllFind(Tail(q), qg, late)
<1> DEFINE r == Tail(q)
<1>1. /\ Len(q) \in Nat /\ Len(r) = Len(q) - 1
      /\ \A i \in 1 .. Len(q) - 1 : r[i] = q[i + 1]
    BY OneLess
<1> SUFFICES ASSUME NEW i \in 1 .. Len(r)
             PROVE  Finds(r, qg, late, r[i], i)
    BY DEF AllFind
<1> HIDE DEF r
<1>2. i + 1 \in 1 .. Len(q) /\ r[i] = q[i + 1] /\ i \in Nat /\ i > 0
    BY <1>1
<1>3. Finds(q, pg, late, r[i], i + 1)
    BY <1>2 DEF AllFind
<1> DEFINE k == i + 1
<1>4. i \in Nat /\ i > 0 /\ k = i + 1
    BY <1>2
<1> HIDE DEF k
<1>5. r = Tail(q)
    BY Zenon DEF r
<1>6. OpenAt(q, pg, k) => OpenAt(r, qg, i)
    <2>1. TookOpen(pg, qg, q[1])
        BY DEF Took
    <2> QED
        BY <1>4, <1>5, <2>1, OpenTaken
<1>7. ASSUME NEW s, s \notin late
      PROVE  /\ ConfigAt(q, pg, s, k) => ConfigAt(r, qg, s, i)
             /\ DecodesAt(q, pg, s, k) => DecodesAt(r, qg, s, i)
    BY <1>4, <1>5, <1>7, StartsTaken DEF Took
<1> QED
    BY <1>3, <1>4, <1>6, <1>7 DEF Finds

\* A page of which only what is displayed changes is the same to the messages.
Alike(pg, qg) ==
    /\ qg.open = pg.open /\ qg.acceptData = pg.acceptData
    /\ "decoder" \in ToSet(qg.stopListeners) <=> "decoder" \in ToSet(pg.stopListeners)
    /\ qg.worker = pg.worker /\ qg.config = pg.config
    /\ qg.rejected = pg.rejected /\ qg.garbled = pg.garbled

LEMMA AlikeFinds ==
    ASSUME NEW pg, NEW qg, Alike(pg, qg), NEW q, NEW late
    PROVE  /\ \A l : OpenAt(q, qg, l) = OpenAt(q, pg, l)
           /\ \A s, l : ConfigAt(q, qg, s, l) = ConfigAt(q, pg, s, l)
           /\ \A s, l : DecodesAt(q, qg, s, l) = DecodesAt(q, pg, s, l)
           /\ AllFind(q, qg, late) = AllFind(q, pg, late)
<1>1. Accepts(qg) = Accepts(pg)
    <2>1. ("decoder" \in ToSet(qg.stopListeners)) = ("decoder" \in ToSet(pg.stopListeners))
        BY DEF Alike
    <2> QED
        BY <2>1, Zenon DEF Alike, Accepts
<1>2. \A s : ConfigIs(qg, s) = ConfigIs(pg, s) /\ DecodesWith(qg, s) = DecodesWith(pg, s)
    BY Zenon DEF Alike, ConfigIs, DecodesWith
<1>3. /\ \A l : OpenAt(q, qg, l) = OpenAt(q, pg, l)
      /\ \A s, l : ConfigAt(q, qg, s, l) = ConfigAt(q, pg, s, l)
      /\ \A s, l : DecodesAt(q, qg, s, l) = DecodesAt(q, pg, s, l)
    BY <1>1, <1>2, Zenon DEF OpenAt, ConfigAt, DecodesAt
<1>4. \A m, l : Finds(q, qg, late, m, l) = Finds(q, pg, late, m, l)
    BY <1>3, Zenon DEF Finds
<1>5. AllFind(q, qg, late) = AllFind(q, pg, late)
    BY <1>4, Zenon DEF AllFind
<1> QED
    BY <1>3, <1>5

DecodedInv == page.rejected \cup page.garbled \subseteq missed

\* The phone does not send and the page does not receive.
LEMMA FrameSame ==
    ASSUME Types, FrameInv, DecodedInv, Alike(page, page'),
           UNCHANGED <<told, missed, starts, codecState>>,
           Prolongs(toClient, toClient'),
           \A i \in 1 .. Len(toClient') :
               \/ i \in 1 .. Len(toClient)
               \/ toClient'[i].name \in {"focusRequest", "getChannelStarted"}
    PROVE  FrameInv' /\ DecodedInv'
<1>0. Len(toClient) \in Nat /\ told \in BOOLEAN
    BY LenProperties DEF Types, ClientTypes
<1>1. DecodedInv'
    BY DEF DecodedInv, Alike
<1>2. SUFFICES ASSUME page.open PROVE AllFind(toClient', page', missed) /\ Ready'
    BY <1>1 DEF FrameInv, Alike
<1>3. AllFind(toClient, page, missed) /\ Ready
    BY <1>2 DEF FrameInv
<1>4. AllFind(toClient', page, missed)
    <2>1. \A i \in 1 .. Len(toClient') :
              i \in 1 .. Len(toClient) \/ toClient'[i].name \notin Media
        BY DEF Media
    <2>2. missed \subseteq missed
        OBVIOUS
    <2> QED
        BY <1>0, <1>3, <2>1, <2>2, AllFindMore
<1>5. /\ \A i \in 1 .. Len(toClient') : i \in 1 .. Len(toClient) \/ toClient'[i] \notin Stops
      /\ \A i \in 1 .. Len(toClient') : i \in 1 .. Len(toClient) \/ toClient'[i] \notin Changes
    BY DEF Stops, Changes, Of
<1>6. /\ OpenAt(toClient, page, Len(toClient) + 1) => OpenAt(toClient', page, Len(toClient') + 1)
      /\ \A s : /\ ConfigAt(toClient, page, s, Len(toClient) + 1)
                      => ConfigAt(toClient', page, s, Len(toClient') + 1)
                /\ DecodesAt(toClient, page, s, Len(toClient) + 1)
                      => DecodesAt(toClient', page, s, Len(toClient') + 1)
    BY <1>0, <1>5, AtEnd
<1>7. /\ \A l : OpenAt(toClient', page', l) = OpenAt(toClient', page, l)
      /\ \A s, l : ConfigAt(toClient', page', s, l) = ConfigAt(toClient', page, s, l)
      /\ \A s, l : DecodesAt(toClient', page', s, l) = DecodesAt(toClient', page, s, l)
      /\ AllFind(toClient', page', missed) = AllFind(toClient', page, missed)
    BY AlikeFinds
<1>8. Ready'
    <2> SUFFICES ASSUME told
                 PROVE  /\ OpenAt(toClient', page', Len(toClient') + 1)
                        /\ starts \notin missed =>
                              /\ codecState = "WAITING_FOR_FIRST_FRAME" =>
                                    ConfigAt(toClient', page', starts, Len(toClient') + 1)
                              /\ codecState = "STARTED" =>
                                    DecodesAt(toClient', page', starts, Len(toClient') + 1)
        BY DEF Ready
    <2>1. /\ OpenAt(toClient, page, Len(toClient) + 1)
          /\ starts \notin missed =>
                /\ codecState = "WAITING_FOR_FIRST_FRAME" =>
                      ConfigAt(toClient, page, starts, Len(toClient) + 1)
                /\ codecState = "STARTED" =>
                      DecodesAt(toClient, page, starts, Len(toClient) + 1)
        BY <1>3 DEF Ready
    <2> QED
        BY <1>6, <1>7, <2>1
<1> QED
    BY <1>4, <1>7, <1>8

LEMMA FrameStopped ==
    ASSUME Types, FrameInv, DecodedInv, ChannelStop, UNCHANGED <<page, missed>>
    PROVE  FrameInv' /\ DecodedInv'
<1>0. Len(toClient) \in Nat
    BY LenProperties DEF Types, ClientTypes
<1>1. DecodedInv' /\ told' = FALSE
    BY DEF DecodedInv, ChannelStop
<1>2. /\ Prolongs(toClient, toClient')
      /\ \A i \in 1 .. Len(toClient') :
            \/ i \in 1 .. Len(toClient)
            \/ toClient'[i].name \in {"focusRequest", "channelStop"}
    BY StopSent
<1>3. \A i \in 1 .. Len(toClient') :
          i \in 1 .. Len(toClient) \/ toClient'[i].name \notin Media
    BY <1>2 DEF Media
<1>4. missed \subseteq missed
    OBVIOUS
<1>5. page.open => AllFind(toClient', page, missed)
    BY <1>0, <1>2, <1>3, <1>4, AllFindMore DEF FrameInv
<1> QED
    BY <1>1, <1>5 DEF FrameInv, Ready

LEMMA FrameStarted ==
    ASSUME CodecInv, Types, FrameInv, DecodedInv, PhoneStartsChannel
    PROVE  FrameInv' /\ DecodedInv'
<1> DEFINE m == [name |-> "channelStart"]
<1>0. Len(toClient) \in Nat /\ toClient \in Seq(Downstream)
    BY LenProperties DEF Types, ClientTypes
<1>1. /\ page' = page /\ missed' = missed /\ toClient' = Notify(toClient, m)
      /\ told' = (subscribed["channelStart"] > 0)
      /\ codecState' = "WAITING_FOR_CONFIG"
    BY DEF PhoneStartsChannel, ChannelStart
<1>2. m \in Downstream /\ m.name = "channelStart"
    BY ServerMessages
<1> HIDE DEF m
<1>3. DecodedInv'
    BY <1>1 DEF DecodedInv
<1>4. /\ Prolongs(toClient, toClient')
      /\ \A i \in 1 .. Len(toClient') : i \in 1 .. Len(toClient) \/ toClient'[i] = m
      /\ subscribed["channelStart"] > 0 =>
            Len(toClient') = Len(toClient) + 1 /\ toClient'[Len(toClient) + 1] = m
    BY <1>0, <1>1, <1>2, Prolonged
<1>5. \A i \in 1 .. Len(toClient') :
          i \in 1 .. Len(toClient) \/ toClient'[i].name \notin Media
    BY <1>2, <1>4 DEF Media
<1>6. missed \subseteq missed
    OBVIOUS
<1>7. page.open => AllFind(toClient', page, missed)
    BY <1>0, <1>4, <1>5, <1>6, AllFindMore DEF FrameInv
<1>8. told' => OpenAt(toClient', page, Len(toClient') + 1)
    <2> SUFFICES ASSUME told' PROVE OpenAt(toClient', page, Len(toClient') + 1)
        OBVIOUS
    <2>1. Len(toClient') = Len(toClient) + 1 /\ toClient'[Len(toClient')] = m
        BY <1>1, <1>4
    <2>2. Len(toClient') > Len(toClient) /\ toClient'[Len(toClient')] \in Of("channelStart")
        BY <1>0, <1>2, <2>1 DEF Of
    <2> QED
        BY <1>0, <1>4, <2>2, AtEnd
<1> QED
    BY <1>1, <1>3, <1>7, <1>8 DEF FrameInv, Ready

\* The phone sends a message of the stream: the page finds what it should when
\* it comes to it.
LEMMA FrameSent ==
    ASSUME Types, FrameInv, HeardInv, page.open, phone = "streaming",
           UNCHANGED <<told, page, starts>>, NEW n \in Media, Send(n),
           codecState # "STOPPED",
           n = "codecConfig" => codecState' = "WAITING_FOR_FIRST_FRAME",
           n = "firstFrame" => /\ codecState = "WAITING_FOR_FIRST_FRAME"
                               /\ codecState' = "STARTED",
           n = "data" => codecState = "STARTED" /\ codecState' = "STARTED"
    PROVE  FrameInv'
<1> DEFINE m == [name |-> n, start |-> starts]
           l == Len(toClient) + 1
           k == Len(toClient') + 1
<1>0. /\ toClient \in Seq(Downstream) /\ Len(toClient) \in Nat /\ told \in BOOLEAN
      /\ subscribed \in [Names -> Nat] /\ n \in Names
    BY LenProperties, NamesAre DEF Types, ClientTypes, PhoneTypes, Media
<1>1. /\ m \in Downstream /\ m.name = n /\ m.start = starts
      /\ toClient' = Notify(toClient, m)
      /\ missed' = IF n # "data" /\ subscribed[n] = 0 THEN missed \cup {starts} ELSE missed
    BY ServerMessages DEF Media, Types, ClientTypes, Send
<1> HIDE DEF m
<1>2. /\ Prolongs(toClient, toClient')
      /\ \A i \in 1 .. Len(toClient') : i \in 1 .. Len(toClient) \/ toClient'[i] = m
      /\ subscribed[n] > 0 => Len(toClient') = l /\ toClient'[l] = m
      /\ ~(subscribed[n] > 0) => toClient' = toClient
    BY <1>0, <1>1, Prolonged
<1>3. AllFind(toClient, page, missed) /\ Ready /\ missed \subseteq missed'
    BY <1>1 DEF FrameInv
<1>4. told =>
          /\ OpenAt(toClient, page, l)
          /\ starts \notin missed =>
                /\ codecState = "WAITING_FOR_FIRST_FRAME" => ConfigAt(toClient, page, starts, l)
                /\ codecState = "STARTED" => DecodesAt(toClient, page, starts, l)
    BY <1>3 DEF Ready
<1>5. SUFFICES /\ AllFind(toClient', page, missed')
               /\ told =>
                    /\ OpenAt(toClient', page, k)
                    /\ starts \notin missed' =>
                         /\ codecState' = "WAITING_FOR_FIRST_FRAME" =>
                               ConfigAt(toClient', page, starts, k)
                         /\ codecState' = "STARTED" => DecodesAt(toClient', page, starts, k)
    BY DEF FrameInv, Ready
<1>6. CASE ~(subscribed[n] > 0)
    <2>1. toClient' = toClient /\ subscribed[n] = 0 /\ k = l
        BY <1>0, <1>2, <1>6
    <2>2. \A i \in 1 .. Len(toClient') : i \in 1 .. Len(toClient)
        BY <2>1
    <2>3. AllFind(toClient', page, missed')
        BY <1>0, <1>2, <1>3, <2>2, AllFindMore
    <2>4. n # "data" => starts \in missed'
        BY <1>1, <2>1
    <2>5. n = "data" => missed' = missed
        BY <1>1
    <2> QED
        BY <1>4, <2>1, <2>3, <2>4, <2>5
<1>7. CASE subscribed[n] > 0
    <2>1. /\ Len(toClient') = l /\ toClient'[l] = m /\ missed' = missed
          /\ \A i \in 1 .. Len(toClient') : i \in 1 .. Len(toClient) \/ i = l
        BY <1>0, <1>1, <1>2, <1>7
    <2>2. told
        <3>1. subscribed[n] # 0
            BY <1>0, <1>7
        <3> QED
            BY <3>1 DEF HeardInv
    <2>3. Finds(toClient, page, missed, m, l)
        BY <1>1, <1>4, <2>2 DEF Finds
    <2>4. AllFind(toClient', page, missed')
        <3>1. \A i \in 1 .. Len(toClient') :
                  \/ i \in 1 .. Len(toClient) \/ toClient'[i].name \notin Media
                  \/ i = Len(toClient) + 1 /\ Finds(toClient, page, missed', toClient'[i], i)
            BY <2>1, <2>3
        <3> QED
            BY <1>0, <1>2, <1>3, <3>1, AllFindMore
    <2>5. m \notin Stops /\ (n # "codecConfig" => m \notin Changes)
        BY <1>1 DEF Stops, Changes, Of, Media
    <2>6. \A i \in 1 .. Len(toClient') : i \in 1 .. Len(toClient) \/ toClient'[i] \notin Stops
        BY <1>2, <2>5
    <2>7. OpenAt(toClient', page, k)
        BY <1>0, <1>2, <1>4, <2>2, <2>6, AtEnd
    <2>8. Len(toClient') > Len(toClient) /\ toClient'[Len(toClient')] = m
        BY <1>0, <2>1
    <2>9. /\ n = "codecConfig" => ConfigAt(toClient', page, starts, k)
          /\ n = "firstFrame" => DecodesAt(toClient', page, starts, k)
        <3>1. /\ n = "codecConfig" => m \in OfStart("codecConfig", starts)
              /\ n = "firstFrame" => m \in OfStart("firstFrame", starts)
            BY <1>1 DEF OfStart
        <3> QED
            BY <1>0, <1>2, <2>8, <3>1, AtEnd
    <2>10. n = "data" /\ starts \notin missed => DecodesAt(toClient', page, starts, k)
        <3> SUFFICES ASSUME n = "data", starts \notin missed
                     PROVE  DecodesAt(toClient', page, starts, k)
            OBVIOUS
        <3>1. \A i \in 1 .. Len(toClient') :
                  i \in 1 .. Len(toClient) \/ toClient'[i] \notin Changes
            BY <1>2, <2>5
        <3>2. DecodesAt(toClient, page, starts, l)
            BY <1>4, <2>2
        <3> QED
            BY <1>0, <1>2, <3>1, <3>2, AtEnd
    <2>11. n \in {"codecConfig", "firstFrame", "data"}
        BY DEF Media
    <2> QED
        BY <2>1, <2>4, <2>7, <2>9, <2>10, <2>11
<1> QED
    BY <1>6, <1>7

LEMMA FrameMedia ==
    ASSUME Types, HeardInv, FrameInv, DecodedInv, PhoneSendsMedia
    PROVE  FrameInv' /\ DecodedInv'
<1>1. PICK good \in BOOLEAN : HandleData(good)
    BY DEF PhoneSendsMedia
<1>2. phone = "streaming" /\ UNCHANGED <<told, page, starts>>
    BY DEF PhoneSendsMedia
<1>3. \/ UNCHANGED <<toClient, missed, codecState>>
      \/ \E n \in Media :
            /\ Send(n) /\ codecState # "STOPPED"
            /\ n = "codecConfig" => codecState' = "WAITING_FOR_FIRST_FRAME"
            /\ n = "firstFrame" => /\ codecState = "WAITING_FOR_FIRST_FRAME"
                                   /\ codecState' = "STARTED"
            /\ n = "data" => codecState = "STARTED" /\ codecState' = "STARTED"
    <2>1. {"codecConfig", "firstFrame", "data"} = Media
        BY DEF Media
    <2> QED
        BY <1>1, <2>1 DEF HandleData, server
<1>4. CASE UNCHANGED <<toClient, missed, codecState>>
    <2>1. Alike(page, page') /\ Prolongs(toClient, toClient)
        BY <1>2, LenProperties DEF Alike, Prolongs, Types, ClientTypes
    <2> QED
        BY <1>2, <1>4, <2>1, FrameSame
<1>5. ASSUME NEW n \in Media, Send(n), codecState # "STOPPED",
             n = "codecConfig" => codecState' = "WAITING_FOR_FIRST_FRAME",
             n = "firstFrame" => /\ codecState = "WAITING_FOR_FIRST_FRAME"
                                 /\ codecState' = "STARTED",
             n = "data" => codecState = "STARTED" /\ codecState' = "STARTED"
      PROVE  FrameInv' /\ DecodedInv'
    <2>1. DecodedInv'
        BY <1>2, <1>5 DEF DecodedInv, Send
    <2>2. page.open => FrameInv'
        BY <1>2, <1>5, FrameSent
    <2>3. ~page.open => FrameInv'
        BY <1>2 DEF FrameInv
    <2> QED
        BY <2>1, <2>2, <2>3
<1> QED
    BY <1>3, <1>4, <1>5

\* The page takes a message.
LEMMA FrameTaken ==
    ASSUME Types, FrameInv, DecodedInv, PageReceives
    PROVE  FrameInv' /\ DecodedInv'
<1> DEFINE m == toClient[1]
           r == Tail(toClient)
           l == Len(r) + 1
           k == Len(toClient) + 1
<1>1. /\ toClient \in Seq(Downstream) /\ toClient # <<>> /\ toClient' = r
      /\ page.open /\ UNCHANGED <<told, missed, starts, codecState>>
    BY DEF PageReceives, Types, ClientTypes, server, history
<1>2. /\ Len(toClient) \in Nat /\ 1 \in 1 .. Len(toClient) /\ Len(r) = Len(toClient) - 1
    BY <1>1, OneLess
<1>3. AllFind(toClient, page, missed) /\ Ready
    BY <1>1 DEF FrameInv
<1>4. Took(page, page', missed, m)
    <2>1. Finds(toClient, page, missed, toClient[1], 1)
        BY <1>2, <1>3 DEF AllFind
    <2> QED
        BY <2>1, PageTook
<1> HIDE DEF m
<1>5. DecodedInv'
    BY <1>1, <1>4 DEF Took, TookFrame, DecodedInv
<1>6. AllFind(r, page', missed)
    BY <1>1, <1>3, <1>4, AllFindLess DEF m
<1> HIDE DEF r
<1>7. l \in Nat /\ l > 0 /\ k = l + 1
    BY <1>2
<1> HIDE DEF l, k
<1>8. OpenAt(toClient, page, k) => OpenAt(r, page', l)
    <2>1. TookOpen(page, page', toClient[1]) /\ r = Tail(toClient)
        BY <1>4, Zenon DEF Took, m, r
    <2> QED
        BY <1>1, <1>7, <2>1, OpenTaken
<1>9. ASSUME starts \notin missed
      PROVE  /\ ConfigAt(toClient, page, starts, k) => ConfigAt(r, page', starts, l)
             /\ DecodesAt(toClient, page, starts, k) => DecodesAt(r, page', starts, l)
    <2>1. TookStart(page, page', missed, toClient[1]) /\ r = Tail(toClient)
        BY <1>4, Zenon DEF Took, m, r
    <2> QED
        BY <1>1, <1>7, <1>9, <2>1, StartsTaken
<1>10. told =>
          /\ OpenAt(toClient, page, k)
          /\ starts \notin missed =>
                /\ codecState = "WAITING_FOR_FIRST_FRAME" => ConfigAt(toClient, page, starts, k)
                /\ codecState = "STARTED" => DecodesAt(toClient, page, starts, k)
    BY <1>3 DEF Ready, k
<1>11. told =>
          /\ OpenAt(r, page', l)
          /\ starts \notin missed =>
                /\ codecState = "WAITING_FOR_FIRST_FRAME" => ConfigAt(r, page', starts, l)
                /\ codecState = "STARTED" => DecodesAt(r, page', starts, l)
    BY <1>8, <1>9, <1>10
<1>12. Ready'
    BY <1>1, <1>11 DEF Ready, l
<1> QED
    BY <1>1, <1>5, <1>6, <1>12 DEF FrameInv

LEMMA FrameStep ==
    ASSUME CodecInv, Types, Types', SocketInv, HeardInv, FrameInv, DecodedInv, [Next]_vars
    PROVE  FrameInv' /\ DecodedInv'
<1>0. /\ toClient \in Seq(Downstream) /\ Len(toClient) \in Nat
      /\ Prolongs(toClient, toClient)
    BY LenProperties DEF Types, ClientTypes, Prolongs
<1>1. ASSUME Alike(page, page'), UNCHANGED <<toClient, told, missed, starts, codecState>>
      PROVE  FrameInv' /\ DecodedInv'
    BY <1>0, <1>1, FrameSame
<1>2. CASE \/ SessionStarts \/ PhoneTakesFocus \/ OtherPage \/ VideoShown \/ VideoHidden
           \/ HideTimer \/ UNCHANGED vars
    <2>1. UNCHANGED <<toClient, told, missed, starts, codecState>>
        BY <1>2 DEF SessionStarts, PhoneTakesFocus, OtherPage, VideoShown, VideoHidden,
           HideTimer, vars, history, server
    <2>2. Alike(page, page')
        <3>1. /\ page'.open = page.open /\ page'.acceptData = page.acceptData
              /\ page'.stopListeners = page.stopListeners
              /\ page'.worker = page.worker /\ page'.config = page.config
              /\ page'.rejected = page.rejected /\ page'.garbled = page.garbled
            BY <1>2 DEF SessionStarts, PhoneTakesFocus, OtherPage, VideoShown, VideoHidden,
               HideTimer, vars, Types, PageTypes
        <3> QED
            BY <3>1 DEF Alike
    <2> QED
        BY <1>1, <2>1, <2>2
<1>3. CASE StoreInitializes
    <2>1. /\ page'.open = page.open /\ page'.acceptData = page.acceptData
          /\ page'.stopListeners = Append(page.stopListeners, "store")
          /\ page'.worker = page.worker /\ page'.config = page.config
          /\ page'.rejected = page.rejected /\ page'.garbled = page.garbled
          /\ UNCHANGED <<toClient, told, missed, starts, codecState>>
        BY <1>3 DEF StoreInitializes, history, server, Types, PageTypes
    <2>2. page.stopListeners \in Seq(Listeners) /\ "store" \in Listeners
        BY DEF Listeners, Types, PageTypes
    <2>3. Without(page'.stopListeners) <=> Without(page.stopListeners)
        BY <2>1, <2>2, AddListener
    <2>4. Listening' <=> Listening
        BY <2>3, Listens, ListensNext
    <2>5. Alike(page, page')
        BY <2>1, <2>4 DEF Alike, Listening
    <2> QED
        BY <1>1, <2>1, <2>5
<1>4. CASE SessionEnds \/ PhoneStopsChannel
    BY <1>4, FrameStopped DEF SessionEnds, PhoneStopsChannel
<1>5. CASE PhoneSetsUp \/ PhoneRequestsFocus
    <2>1. PICK f \in Focus :
              toClient' = Notify(toClient, [name |-> "focusRequest", mode |-> f])
        BY <1>5 DEF PhoneSetsUp, PhoneRequestsFocus, Focus
    <2> DEFINE m == [name |-> "focusRequest", mode |-> f]
    <2>2. m \in Downstream /\ m.name = "focusRequest" /\ toClient' = Notify(toClient, m)
        BY <2>1, ServerMessages
    <2> HIDE DEF m
    <2>3. /\ Prolongs(toClient, toClient')
          /\ \A i \in 1 .. Len(toClient') : i \in 1 .. Len(toClient) \/ toClient'[i] = m
        BY <1>0, <2>2, Prolonged
    <2>4. Alike(page, page') /\ UNCHANGED <<told, missed, starts, codecState>>
        BY <1>5 DEF PhoneSetsUp, PhoneRequestsFocus, history, server, Alike
    <2>5. \A i \in 1 .. Len(toClient') :
              \/ i \in 1 .. Len(toClient)
              \/ toClient'[i].name \in {"focusRequest", "getChannelStarted"}
        BY <2>2, <2>3
    <2> QED
        BY <2>3, <2>4, <2>5, FrameSame
<1>6. CASE PhoneStartsChannel
    BY <1>6, FrameStarted
<1>7. CASE PhoneSendsMedia
    BY <1>7, FrameMedia
<1>8. CASE PageOpens
    <2>1. /\ ~page.open /\ toServer = <<>> /\ page' = [NoPage EXCEPT !.open = TRUE]
          /\ UNCHANGED <<toClient, told, missed>>
        BY <1>8 DEF PageOpens, history
    <2>2. toClient' = <<>> /\ ~told' /\ Len(<<>>) = 0
        BY <2>1 DEF SocketInv, ClosedSocket, Unheard
    <2>3. page'.rejected = {} /\ page'.garbled = {}
        BY <2>1 DEF NoPage
    <2>4. DecodedInv'
        BY <2>3 DEF DecodedInv
    <2>5. AllFind(toClient', page', missed')
        BY <2>2 DEF AllFind
    <2> QED
        BY <2>2, <2>4, <2>5 DEF FrameInv, Ready
<1>9. CASE PageCloses
    <2>1. page'.open = FALSE /\ page'.rejected = {} /\ page'.garbled = {}
        BY <1>9 DEF PageCloses, NoPage
    <2> QED
        BY <2>1 DEF FrameInv, DecodedInv
<1>10. CASE ServerReceives
    <2> DEFINE m == toServer[1]
    <2>1. /\ \/ ServerSubscribes(m) \/ ServerAnswers(m)
             \/ ServerSendsFocus(m) \/ ServerClosesSocket(m)
          /\ 1 \in 1 .. Len(toServer) /\ page' = page
        BY <1>10, ServerStep
    <2>2. UNCHANGED <<starts, codecState>> /\ Alike(page, page')
        BY <1>10, <2>1 DEF ServerReceives, server, Alike
    <2> HIDE DEF m
    <2>3. CASE ServerSubscribes(m) \/ ServerSendsFocus(m)
        <3>1. UNCHANGED <<toClient, told, missed>>
            BY <2>3 DEF ServerSubscribes, ServerSendsFocus
        <3> QED
            BY <1>1, <2>2, <3>1
    <2>4. CASE ServerAnswers(m)
        <3> DEFINE x == [name |-> "getChannelStarted", result |-> channelStarted]
        <3>1. x \in Downstream /\ x.name = "getChannelStarted"
              /\ toClient' = Append(toClient, x) /\ told' = told /\ missed' = missed
            BY <2>4, ServerMessages DEF ServerAnswers, Types, PhoneTypes
        <3> HIDE DEF x
        <3>2. /\ toClient' \in Seq(Downstream) /\ Len(toClient') = Len(toClient) + 1
              /\ \A i \in 1 .. Len(toClient) : toClient'[i] = toClient[i]
              /\ toClient'[Len(toClient) + 1] = x
            BY <1>0, <3>1, OneMore
        <3>3. Prolongs(toClient, toClient')
            BY <1>0, <3>2 DEF Prolongs
        <3>4. \A i \in 1 .. Len(toClient') : i \in 1 .. Len(toClient) \/ i = Len(toClient) + 1
            BY <1>0, <3>2
        <3>5. \A i \in 1 .. Len(toClient') :
                  \/ i \in 1 .. Len(toClient)
                  \/ toClient'[i].name \in {"focusRequest", "getChannelStarted"}
            BY <3>1, <3>2, <3>4
        <3> QED
            BY <2>2, <3>1, <3>3, <3>5, FrameSame
    <2>5. CASE ServerClosesSocket(m)
        <3>1. ~page.open
            BY <2>1, <2>5 DEF SocketInv, OpenSocket, ServerClosesSocket, m
        <3>2. page' = page /\ page.rejected = {} /\ page.garbled = {}
            BY <2>1, <3>1 DEF SocketInv, ClosedSocket, NoPage
        <3> QED
            BY <3>1, <3>2 DEF FrameInv, DecodedInv
    <2> QED
        BY <2>1, <2>3, <2>4, <2>5
<1>11. CASE PageReceives
    BY <1>11, FrameTaken
<1> QED
    BY <1>2, <1>3, <1>4, <1>5, <1>6, <1>7, <1>8, <1>9, <1>10, <1>11 DEF Next

-----------------------------------------------------------------------------
(***************************************************************************)
(* A page that was told of every stop has no configuration left of another *)
(* start when it comes to a frame.                                         *)
(***************************************************************************)
ConfiguredAt(q, pg, s, l) == Held(q, ConfigIs(pg, s), OfStart("codecConfig", s), Stops, l)

Frames == {"firstFrame", "data"}

NoneOther(q, pg) ==
    \A p \in 1 .. Len(q), s \in 0 .. MaxStarts :
        q[p].name \in Frames /\ s # q[p].start => ~ConfiguredAt(q, pg, s, p)

\* The end of the queue: between two starts there is no configuration.
NoneBehind ==
    \A s \in 0 .. MaxStarts :
        (told /\ s = starts) \/ ~ConfiguredAt(toClient, page, s, Len(toClient) + 1)

CleanInv ==
    page.open /\ ~unstopped =>
        /\ page.worker # "unconfigured" => Listening
        /\ page.garbled = {}
        /\ NoneOther(toClient, page)
        /\ NoneBehind

LEMMA ConfiguredBefore ==
    ASSUME NEW q, NEW r, Prolongs(q, r), Len(q) \in Nat,
           NEW pg, NEW s, NEW l \in Nat, l <= Len(q) + 1
    PROVE  ConfiguredAt(r, pg, s, l) <=> ConfiguredAt(q, pg, s, l)
BY HeldBefore, Registers DEF ConfiguredAt

LEMMA ConfiguredBehind ==
    ASSUME NEW q, NEW r, Prolongs(q, r), Len(q) \in Nat, NEW pg, NEW s
    PROVE  /\ (\A i \in 1 .. Len(r) :
                   i \in 1 .. Len(q) \/ r[i] \notin OfStart("codecConfig", s))
                 /\ ConfiguredAt(r, pg, s, Len(r) + 1)
              => ConfiguredAt(q, pg, s, Len(q) + 1)
           /\ Len(r) > Len(q) /\ r[Len(r)] \in Stops => ~ConfiguredAt(r, pg, s, Len(r) + 1)
<1> DEFINE now == ConfigIs(pg, s)
           S == OfStart("codecConfig", s)
<1>1. /\ now \in BOOLEAN
      /\ \A t, l : ConfiguredAt(t, pg, s, l) = Held(t, now, S, Stops, l)
    BY Registers DEF ConfiguredAt
<1>2. \A m \in Stops : m \notin S
    BY DEF Stops, Of, OfStart
<1> HIDE DEF now, S
<1>3. /\ (\A i \in 1 .. Len(r) : i \in 1 .. Len(q) \/ r[i] \notin S)
            /\ Held(r, now, S, Stops, Len(r) + 1)
         => Held(q, now, S, Stops, Len(q) + 1)
      /\ Len(r) > Len(q) /\ r[Len(r)] \in Stops /\ r[Len(r)] \notin S
         => ~Held(r, now, S, Stops, Len(r) + 1)
    BY <1>1, HeldBehind
<1> QED
    BY <1>1, <1>2, <1>3 DEF S

LEMMA NoneOtherMore ==
    ASSUME NEW q, NEW r, Prolongs(q, r), Len(q) \in Nat, NEW pg, NoneOther(q, pg),
           \A i \in 1 .. Len(r) :
               \/ i \in 1 .. Len(q) \/ r[i].name \notin Frames
               \/ /\ i = Len(q) + 1
                  /\ \A s \in 0 .. MaxStarts :
                        s # r[i].start => ~ConfiguredAt(q, pg, s, Len(q) + 1)
    PROVE  NoneOther(r, pg)
<1> SUFFICES ASSUME NEW p \in 1 .. Len(r), NEW s \in 0 .. MaxStarts,
                    r[p].name \in Frames, s # r[p].start
             PROVE  ~ConfiguredAt(r, pg, s, p)
    BY DEF NoneOther
<1>1. CASE p \in 1 .. Len(q)
    <2>1. ~ConfiguredAt(q, pg, s, p)
        BY <1>1 DEF NoneOther, Prolongs
    <2>2. p \in Nat /\ p <= Len(q) + 1
        BY <1>1
    <2> QED
        BY <2>1, <2>2, ConfiguredBefore
<1>2. CASE p \notin 1 .. Len(q)
    <2>1. p = Len(q) + 1 /\ ~ConfiguredAt(q, pg, s, p)
        BY <1>2
    <2>2. p \in Nat /\ p <= Len(q) + 1
        BY <2>1
    <2> QED
        BY <2>1, <2>2, ConfiguredBefore
<1> QED
    BY <1>1, <1>2

\* A message other than a stop that leaves or sets the configuration.
LEMMA ConfiguredTaken ==
    ASSUME NEW q \in Seq(Downstream), q # <<>>, NEW pg, NEW qg, NEW s,
           ConfigIs(qg, s) => q[1] \notin Stops
                              /\ (ConfigIs(pg, s) \/ q[1] \in OfStart("codecConfig", s)),
           NEW l \in Nat, NEW k, k = l + 1, NEW r, r = Tail(q), ConfiguredAt(r, qg, s, l)
    PROVE  ConfiguredAt(q, pg, s, k)
<1> DEFINE now == ConfigIs(pg, s)
           then == ConfigIs(qg, s)
           S == OfStart("codecConfig", s)
<1>1. /\ now \in BOOLEAN /\ then \in BOOLEAN
      /\ then => q[1] \notin Stops /\ (now \/ q[1] \in S)
      /\ Held(Tail(q), then, S, Stops, l)
      /\ ConfiguredAt(q, pg, s, k) = Held(q, now, S, Stops, l + 1)
    BY Registers DEF ConfiguredAt
<1> HIDE DEF now, then, S
<1>2. Held(q, now, S, Stops, l + 1)
    BY <1>1, HeldTaken
<1> QED
    BY <1>1, <1>2

LEMMA NoneOtherLess ==
    ASSUME NEW q \in Seq(Downstream), q # <<>>, NEW pg, NEW qg,
           \A s \in 0 .. MaxStarts :
               ConfigIs(qg, s) => q[1] \notin Stops
                                  /\ (ConfigIs(pg, s) \/ q[1] \in OfStart("codecConfig", s)),
           NoneOther(q, pg)
    PROVE  NoneOther(Tail(q), qg)
<1> DEFINE r == Tail(q)
<1>1. /\ Len(q) \in Nat /\ Len(r) = Len(q) - 1
      /\ \A i \in 1 .. Len(q) - 1 : r[i] = q[i + 1]
    BY OneLess
<1>r. r = Tail(q)
    OBVIOUS
<1> HIDE DEF r
<1> SUFFICES ASSUME NEW p \in 1 .. Len(r), NEW s \in 0 .. MaxStarts,
                    r[p].name \in Frames, s # r[p].start, ConfiguredAt(r, qg, s, p)
             PROVE  FALSE
    BY <1>r DEF NoneOther
<1> DEFINE k == p + 1
<1>2. k \in 1 .. Len(q) /\ r[p] = q[k] /\ p \in Nat /\ k = p + 1
    BY <1>1
<1> HIDE DEF k
<1>3. ConfiguredAt(q, pg, s, k)
    BY <1>r, <1>2, ConfiguredTaken
<1> QED
    BY <1>2, <1>3 DEF NoneOther

\* What a message leaves of the worker's configuration: a stop nothing.
LEMMA PageConfigured ==
    ASSUME Types, Types', PageReceives, page.worker # "unconfigured" => Listening
    PROVE  LET m == toClient[1]
           IN  /\ page'.worker # "unconfigured" => Listening'
               /\ \A s : ConfigIs(page', s) =>
                     m \notin Stops /\ (ConfigIs(page, s) \/ m \in OfStart("codecConfig", s))
               /\ \/ page'.garbled = page.garbled
                  \/ /\ m.name \in Frames
                     /\ \E s \in 0 .. MaxStarts : s # m.start /\ ConfigIs(page, s)
<1> DEFINE m == toClient[1]
<1>1. /\ m \in Downstream
      /\ \/ OnChannelStart(m) \/ OnChannelStop(m) \/ OnCodecConfig(m)
         \/ OnFrame(m) \/ OnFocusRequest(m) \/ OnReply(m)
    BY OneLess DEF PageReceives, Types, ClientTypes
<1>2. page.stopListeners \in Seq(Listeners) /\ page.config \in 0 .. MaxStarts
    BY DEF Types, PageTypes
<1> SUFFICES /\ page'.worker # "unconfigured" => Listening'
             /\ \A s : ConfigIs(page', s) =>
                   m \notin Stops /\ (ConfigIs(page, s) \/ m \in OfStart("codecConfig", s))
             /\ \/ page'.garbled = page.garbled
                \/ /\ m.name \in Frames
                   /\ \E s \in 0 .. MaxStarts : s # m.start /\ ConfigIs(page, s)
    OBVIOUS
<1> HIDE DEF m
<1>3. m \in Stops => m.name = "channelStop"
    BY DEF Stops, Of
<1>4. CASE OnChannelStart(m)
    <2>1. /\ m.name = "channelStart" /\ page'.worker = page.worker
          /\ page'.config = page.config /\ page'.garbled = page.garbled
          /\ page'.stopListeners = Append(page.stopListeners, "decoder")
        BY <1>4 DEF OnChannelStart, Types, PageTypes
    <2>2. "decoder" \in Listeners
        BY DEF Listeners
    <2>3. ~Without(page'.stopListeners)
        BY <1>2, <2>1, <2>2, AddListener
    <2>4. Listening'
        BY <2>3, ListensNext
    <2> QED
        BY <1>3, <2>1, <2>4 DEF ConfigIs
<1>5. CASE OnChannelStop(m)
    <2> DEFINE run == HandleOn(page.stopListeners, page.usageCount # 0)
    <2>1. page' = [page EXCEPT !.stopListeners = run.left,
                               !.acceptData = @ /\ ~run.reset,
                               !.worker = IF run.reset THEN "unconfigured" ELSE @]
        BY <1>5 DEF OnChannelStop
    <2>2. (page.usageCount # 0) \in BOOLEAN
        OBVIOUS
    <2>3. ~run.reset => Without(page.stopListeners)
        BY <1>2, <2>2, HandleOnLeaves
    <2> HIDE DEF run
    <2>4. /\ page'.worker = IF run.reset THEN "unconfigured" ELSE page.worker
          /\ page'.garbled = page.garbled
        BY <2>1 DEF Types, PageTypes
    <2>5. page'.worker = "unconfigured"
        BY <2>3, <2>4, Listens
    <2> QED
        BY <2>4, <2>5 DEF ConfigIs
<1>6. CASE OnCodecConfig(m)
    <2>1. m.name = "codecConfig"
        BY <1>6 DEF OnCodecConfig
    <2>2. CASE Listening
        <3>1. page' = [page EXCEPT !.worker = "configured", !.config = m.start]
            BY <1>6, <2>2 DEF OnCodecConfig
        <3>2. /\ page'.stopListeners = page.stopListeners /\ page'.config = m.start
              /\ page'.garbled = page.garbled
            BY <3>1 DEF Types, PageTypes
        <3>3. Listening'
            BY <2>2, <3>2 DEF Listening
        <3>4. \A s : ConfigIs(page', s) => m \in OfStart("codecConfig", s)
            BY <1>1, <2>1, <3>2 DEF ConfigIs, OfStart, m
        <3> QED
            BY <1>3, <2>1, <3>2, <3>3, <3>4
    <2>3. CASE ~Listening
        <3>1. page' = page /\ page.worker = "unconfigured"
            BY <1>6, <2>3 DEF OnCodecConfig
        <3> QED
            BY <3>1 DEF ConfigIs
    <2> QED
        BY <2>2, <2>3
<1>7. CASE OnFrame(m)
    <2> DEFINE decodes == IF m.name = "firstFrame"
                          THEN page.worker # "unconfigured"
                          ELSE page.worker = "decoding"
    <2>1. /\ m.name \in Frames
          /\ \/ page' = page
             \/ ~decodes /\ page' = [page EXCEPT !.rejected = @ \cup {m.start}]
             \/ /\ decodes /\ Listening
                /\ page' = [page EXCEPT !.worker = "decoding",
                                        !.garbled = IF page.config = m.start THEN @
                                                    ELSE @ \cup {m.start}]
        BY <1>7 DEF OnFrame, Frames
    <2>2. /\ page'.stopListeners = page.stopListeners /\ page'.config = page.config
          /\ \/ page'.worker = page.worker /\ page'.garbled = page.garbled
             \/ /\ page.worker # "unconfigured" /\ Listening
                /\ page.config = m.start => page'.garbled = page.garbled
        BY <2>1 DEF Types, PageTypes
    <2>3. Listening' <=> Listening
        BY <2>2 DEF Listening
    <2>4. \A s : ConfigIs(page', s) => ConfigIs(page, s)
        BY <2>2 DEF ConfigIs
    <2>5. /\ page'.garbled = page.garbled
             \/ \E s \in 0 .. MaxStarts : s # m.start /\ ConfigIs(page, s)
        BY <1>2, <2>2 DEF ConfigIs
    <2>6. m.name # "channelStop"
        BY <2>1 DEF Frames
    <2>7. page'.worker # "unconfigured" => Listening'
        BY <2>2, <2>3
    <2> QED
        BY <1>3, <2>1, <2>4, <2>5, <2>6, <2>7
<1>8. CASE OnFocusRequest(m) \/ OnReply(m)
    <2>1. /\ m.name # "channelStop" /\ page'.worker = page.worker
          /\ page'.config = page.config /\ page'.garbled = page.garbled
          /\ page'.stopListeners = page.stopListeners
        BY <1>8 DEF OnFocusRequest, OnReply, Types, PageTypes
    <2>2. Listening' <=> Listening
        BY <2>1 DEF Listening
    <2> QED
        BY <1>3, <2>1, <2>2 DEF ConfigIs
<1> QED
    BY <1>1, <1>4, <1>5, <1>6, <1>7, <1>8 DEF m

\* The page takes a message.
LEMMA CleanTaken ==
    ASSUME Types, Types', CleanInv, PageReceives
    PROVE  CleanInv'
<1> DEFINE m == toClient[1]
           r == Tail(toClient)
           l == Len(r) + 1
           k == Len(toClient) + 1
<1>1. /\ toClient \in Seq(Downstream) /\ toClient # <<>> /\ toClient' = r
      /\ page.open /\ UNCHANGED <<told, starts, unstopped>>
    BY DEF PageReceives, Types, ClientTypes, history
<1>2. Len(toClient) \in Nat /\ 1 \in 1 .. Len(toClient) /\ Len(r) = Len(toClient) - 1
    BY <1>1, OneLess
<1> SUFFICES ASSUME ~unstopped
             PROVE  /\ page'.worker # "unconfigured" => Listening'
                    /\ page'.garbled = {}
                    /\ NoneOther(r, page')
                    /\ NoneBehind'
    BY <1>1 DEF CleanInv
<1>3. /\ page.worker # "unconfigured" => Listening
      /\ page.garbled = {}
      /\ NoneOther(toClient, page)
      /\ NoneBehind
    BY <1>1 DEF CleanInv
<1>4. /\ page'.worker # "unconfigured" => Listening'
      /\ \A s : ConfigIs(page', s) =>
            m \notin Stops /\ (ConfigIs(page, s) \/ m \in OfStart("codecConfig", s))
      /\ \/ page'.garbled = page.garbled
         \/ /\ m.name \in Frames
            /\ \E s \in 0 .. MaxStarts : s # m.start /\ ConfigIs(page, s)
    BY <1>3, PageConfigured
<1>5. page'.garbled = {}
    <2> SUFFICES ASSUME NEW s \in 0 .. MaxStarts, m.name \in Frames, s # m.start,
                        ConfigIs(page, s)
                 PROVE  FALSE
        BY <1>3, <1>4
    <2>1. ConfiguredAt(toClient, page, s, 1)
        <3>1. 0 \in 0 .. Len(toClient) /\ 0 < 1 /\ \A j \in 1 .. Len(toClient) : ~(j < 1)
            BY <1>2
        <3> QED
            BY <3>1 DEF ConfiguredAt, Held
    <2> QED
        BY <1>2, <1>3, <2>1 DEF NoneOther
<1>6. NoneOther(r, page')
    BY <1>1, <1>3, <1>4, NoneOtherLess
<1>7. r = Tail(toClient) /\ k = l + 1 /\ l \in Nat
    BY <1>2
<1>8. \A s \in 0 .. MaxStarts : (told /\ s = starts) \/ ~ConfiguredAt(toClient, page, s, k)
    BY <1>3 DEF NoneBehind
<1> HIDE DEF r, m, l, k
<1>9. \A s \in 0 .. MaxStarts : (told /\ s = starts) \/ ~ConfiguredAt(r, page', s, l)
    <2> SUFFICES ASSUME NEW s \in 0 .. MaxStarts, ConfiguredAt(r, page', s, l)
                 PROVE  ConfiguredAt(toClient, page, s, k)
        BY <1>8
    <2>1. ConfigIs(page', s) =>
              toClient[1] \notin Stops
              /\ (ConfigIs(page, s) \/ toClient[1] \in OfStart("codecConfig", s))
        BY <1>4, Zenon DEF m
    <2> QED
        BY <1>1, <1>7, <2>1, ConfiguredTaken
<1>10. NoneBehind'
    BY <1>1, <1>9 DEF NoneBehind, l
<1> QED
    BY <1>4, <1>5, <1>6, <1>10

LEMMA AlikeConfigured ==
    ASSUME NEW pg, NEW qg, Alike(pg, qg), NEW q
    PROVE  /\ \A s, l : ConfiguredAt(q, qg, s, l) = ConfiguredAt(q, pg, s, l)
           /\ NoneOther(q, qg) = NoneOther(q, pg)
<1>1. \A s : ConfigIs(qg, s) = ConfigIs(pg, s)
    BY Zenon DEF Alike, ConfigIs
<1>2. \A s, l : ConfiguredAt(q, qg, s, l) = ConfiguredAt(q, pg, s, l)
    BY <1>1, Zenon DEF ConfiguredAt
<1> QED
    BY <1>2, Zenon DEF NoneOther

\* The page receives nothing, and no configuration or frame is sent to it.
LEMMA CleanSame ==
    ASSUME Types, CleanInv, Alike(page, page'), unstopped' = unstopped,
           NEW p, NEW n, p = toClient, n = toClient',
           Prolongs(p, n),
           \A i \in 1 .. Len(n) : i \in 1 .. Len(p) \/ n[i].name \notin Media,
           \A s \in 0 .. MaxStarts : (told /\ s = starts) => (told' /\ s = starts')
    PROVE  CleanInv'
<1>0. Len(p) \in Nat
    BY LenProperties DEF Types, ClientTypes
<1>1. SUFFICES ASSUME page.open, ~unstopped
               PROVE  /\ page'.worker # "unconfigured" => Listening'
                      /\ page'.garbled = {}
                      /\ NoneOther(n, page')
                      /\ NoneBehind'
    BY DEF CleanInv, Alike
<1>2. /\ page.worker # "unconfigured" => Listening
      /\ page.garbled = {}
      /\ NoneOther(p, page)
      /\ NoneBehind
    BY <1>1 DEF CleanInv
<1>3. /\ page'.worker # "unconfigured" => Listening'
      /\ page'.garbled = {}
    BY <1>2 DEF Alike, Listening
<1>4. NoneOther(n, page)
    <2>1. \A i \in 1 .. Len(n) : i \in 1 .. Len(p) \/ n[i].name \notin Frames
        BY DEF Media, Frames
    <2> QED
        BY <1>0, <1>2, <2>1, NoneOtherMore
<1>5. ASSUME NEW s \in 0 .. MaxStarts, ConfiguredAt(n, page, s, Len(n) + 1)
      PROVE  ConfiguredAt(p, page, s, Len(p) + 1)
    <2>1. \A i \in 1 .. Len(n) : i \in 1 .. Len(p) \/ n[i] \notin OfStart("codecConfig", s)
        BY DEF Media, OfStart
    <2> QED
        BY <1>0, <1>5, <2>1, ConfiguredBehind
<1>6. \A s \in 0 .. MaxStarts : (told /\ s = starts) \/ ~ConfiguredAt(p, page, s, Len(p) + 1)
    BY <1>2 DEF NoneBehind
<1>7. /\ \A s, l : ConfiguredAt(n, page', s, l) = ConfiguredAt(n, page, s, l)
      /\ NoneOther(n, page') = NoneOther(n, page)
    BY AlikeConfigured
<1>8. NoneBehind'
    <2>1. \A s \in 0 .. MaxStarts :
              (told' /\ s = starts') \/ ~ConfiguredAt(n, page', s, Len(n) + 1)
        BY <1>5, <1>6, <1>7
    <2> QED
        BY <2>1 DEF NoneBehind
<1> QED
    BY <1>3, <1>4, <1>7, <1>8

\* The channel ends.
LEMMA CleanStopped ==
    ASSUME Types, CleanInv, ChannelStop, page' = page, starts' = starts
    PROVE  CleanInv'
<1>0. /\ Len(toClient) \in Nat /\ told \in BOOLEAN /\ unstopped \in BOOLEAN
      /\ subscribed \in [Names -> Nat] /\ "channelStop" \in Names
    BY LenProperties, NamesAre DEF Types, ClientTypes, PhoneTypes
<1>1. /\ Prolongs(toClient, toClient')
      /\ \A i \in 1 .. Len(toClient') :
            \/ i \in 1 .. Len(toClient)
            \/ toClient'[i].name \in {"focusRequest", "channelStop"}
      /\ subscribed["channelStop"] > 0 =>
            Len(toClient') > Len(toClient) /\ toClient'[Len(toClient')].name = "channelStop"
    BY StopSent
<1>2. told' = FALSE /\ unstopped' = (unstopped \/ (told /\ subscribed["channelStop"] = 0))
    BY DEF ChannelStop
<1>3. \A i \in 1 .. Len(toClient') :
          i \in 1 .. Len(toClient) \/ toClient'[i].name \notin Media
    BY <1>1 DEF Media
<1>4. SUFFICES ASSUME page.open, ~unstopped, ~(told /\ subscribed["channelStop"] = 0)
               PROVE  /\ page.worker # "unconfigured" => Listening'
                      /\ page.garbled = {}
                      /\ NoneOther(toClient', page)
                      /\ NoneBehind'
    BY <1>2 DEF CleanInv
<1>5. /\ page.worker # "unconfigured" => Listening
      /\ page.garbled = {}
      /\ NoneOther(toClient, page)
      /\ NoneBehind
    BY <1>4 DEF CleanInv
<1>6. page.worker # "unconfigured" => Listening'
    BY <1>5 DEF Listening
<1>7. NoneOther(toClient', page)
    <2>1. \A i \in 1 .. Len(toClient') :
              i \in 1 .. Len(toClient) \/ toClient'[i].name \notin Frames
        BY <1>3 DEF Media, Frames
    <2> QED
        BY <1>0, <1>1, <1>5, <2>1, NoneOtherMore
<1>8. ASSUME NEW s \in 0 .. MaxStarts
      PROVE  ~ConfiguredAt(toClient', page, s, Len(toClient') + 1)
    <2>1. CASE subscribed["channelStop"] > 0
        <3>1. toClient'[Len(toClient')] \in Stops /\ Len(toClient') > Len(toClient)
            <4>1. /\ Len(toClient') > Len(toClient) /\ toClient' \in Seq(Downstream)
                  /\ toClient'[Len(toClient')].name = "channelStop"
                BY <1>1, <2>1 DEF Prolongs
            <4>2. Len(toClient') \in 1 .. Len(toClient')
                BY <1>0, <4>1, LenProperties
            <4> QED
                BY <4>1, <4>2, ElementOfSeq DEF Stops, Of
        <3> QED
            BY <1>0, <1>1, <3>1, ConfiguredBehind
    <2>2. CASE ~(subscribed["channelStop"] > 0)
        <3>1. ~told
            BY <1>0, <1>4, <2>2
        <3>2. ~ConfiguredAt(toClient, page, s, Len(toClient) + 1)
            BY <1>5, <1>8, <3>1 DEF NoneBehind
        <3>3. \A i \in 1 .. Len(toClient') :
                  i \in 1 .. Len(toClient) \/ toClient'[i] \notin OfStart("codecConfig", s)
            BY <1>3 DEF OfStart, Media
        <3> QED
            BY <1>0, <1>1, <3>2, <3>3, ConfiguredBehind
    <2> QED
        BY <2>1, <2>2
<1>9. NoneBehind'
    BY <1>8 DEF NoneBehind
<1> QED
    BY <1>5, <1>6, <1>7, <1>9

\* The phone sends a message of the stream.
LEMMA CleanMedia ==
    ASSUME Types, HeardInv, CleanInv, PhoneSendsMedia
    PROVE  CleanInv'
<1>0. /\ toClient \in Seq(Downstream) /\ Len(toClient) \in Nat /\ told \in BOOLEAN
      /\ subscribed \in [Names -> Nat] /\ Media \subseteq Names
    BY LenProperties, NamesAre DEF Types, ClientTypes, PhoneTypes, Media
<1>1. PICK good \in BOOLEAN : HandleData(good)
    BY DEF PhoneSendsMedia
<1>2. phone = "streaming" /\ UNCHANGED <<told, page, starts, unstopped>>
    BY DEF PhoneSendsMedia
<1>3. toClient' = toClient \/ \E n \in Media : Send(n) /\ codecState # "STOPPED"
    BY <1>1 DEF HandleData, Media
<1>4. CASE toClient' = toClient
    <2>1. Alike(page, page') /\ Prolongs(toClient, toClient)
        BY <1>0, <1>2 DEF Alike, Prolongs
    <2> QED
        BY <1>2, <1>4, <2>1, CleanSame
<1>5. ASSUME NEW n \in Media, Send(n), codecState # "STOPPED", toClient' # toClient
      PROVE  CleanInv'
    <2> DEFINE m == [name |-> n, start |-> starts]
    <2>1. /\ m \in Downstream /\ m.name = n /\ m.start = starts
          /\ toClient' = Notify(toClient, m)
        BY <1>5, ServerMessages DEF Media, Types, ClientTypes, Send
    <2> HIDE DEF m
    <2>2. /\ Prolongs(toClient, toClient')
          /\ \A i \in 1 .. Len(toClient') : i \in 1 .. Len(toClient) \/ toClient'[i] = m
          /\ subscribed[n] > 0 =>
                Len(toClient') = Len(toClient) + 1 /\ toClient'[Len(toClient) + 1] = m
          /\ ~(subscribed[n] > 0) => toClient' = toClient
        BY <1>0, <2>1, Prolonged
    <2>3. SUFFICES ASSUME page.open, ~unstopped
                   PROVE  /\ page.worker # "unconfigured" => Listening'
                          /\ page.garbled = {}
                          /\ NoneOther(toClient', page)
                          /\ NoneBehind'
        BY <1>2 DEF CleanInv
    <2>4. /\ page.worker # "unconfigured" => Listening
          /\ page.garbled = {}
          /\ NoneOther(toClient, page)
          /\ NoneBehind
        BY <2>3 DEF CleanInv
    <2>5. page.worker # "unconfigured" => Listening'
        BY <1>2, <2>4 DEF Listening
    <2>6. subscribed[n] > 0 /\ subscribed[n] # 0
        BY <1>0, <1>5, <2>2
    <2>7. told
        BY <1>2, <2>3, <2>6 DEF HeardInv
    <2>8. \A s \in 0 .. MaxStarts :
              s # starts => ~ConfiguredAt(toClient, page, s, Len(toClient) + 1)
        BY <2>4 DEF NoneBehind
    <2>9. NoneOther(toClient', page)
        <3>1. \A i \in 1 .. Len(toClient') :
                  \/ i \in 1 .. Len(toClient) \/ toClient'[i].name \notin Frames
                  \/ /\ i = Len(toClient) + 1
                     /\ \A s \in 0 .. MaxStarts : s # toClient'[i].start =>
                           ~ConfiguredAt(toClient, page, s, Len(toClient) + 1)
            <4>1. \A i \in 1 .. Len(toClient') :
                      \/ i \in 1 .. Len(toClient)
                      \/ i = Len(toClient) + 1 /\ toClient'[i].start = starts
                BY <1>0, <2>1, <2>2, <2>6
            <4> QED
                BY <2>8, <4>1
        <3> QED
            BY <1>0, <2>2, <2>4, <3>1, NoneOtherMore
    <2>10. NoneBehind'
        <3> SUFFICES ASSUME NEW s \in 0 .. MaxStarts, s # starts
                     PROVE  ~ConfiguredAt(toClient', page, s, Len(toClient') + 1)
            BY <1>2, <2>7 DEF NoneBehind
        <3>1. m \notin OfStart("codecConfig", s)
            BY <2>1 DEF OfStart
        <3>2. \A i \in 1 .. Len(toClient') :
                  i \in 1 .. Len(toClient) \/ toClient'[i] \notin OfStart("codecConfig", s)
            BY <2>2, <3>1
        <3> QED
            BY <1>0, <2>2, <2>8, <3>2, ConfiguredBehind
    <2> QED
        BY <2>4, <2>5, <2>9, <2>10
<1> QED
    BY <1>3, <1>4, <1>5

LEMMA CleanStep ==
    ASSUME CodecInv, Types, Types', SocketInv, ToldInv, HeardInv, CleanInv, [Next]_vars
    PROVE  CleanInv'
<1>0. /\ toClient \in Seq(Downstream) /\ Len(toClient) \in Nat
      /\ Prolongs(toClient, toClient)
    BY LenProperties DEF Types, ClientTypes, Prolongs
<1>1. ASSUME Alike(page, page'), UNCHANGED <<toClient, told, starts, unstopped>>
      PROVE  CleanInv'
    BY <1>0, <1>1, CleanSame
<1>2. CASE \/ SessionStarts \/ PhoneTakesFocus \/ OtherPage \/ VideoShown \/ VideoHidden
           \/ HideTimer \/ UNCHANGED vars
    <2>1. UNCHANGED <<toClient, told, starts, unstopped>>
        BY <1>2 DEF SessionStarts, PhoneTakesFocus, OtherPage, VideoShown, VideoHidden,
           HideTimer, vars, history
    <2>2. Alike(page, page')
        <3>1. /\ page'.open = page.open /\ page'.acceptData = page.acceptData
              /\ page'.stopListeners = page.stopListeners
              /\ page'.worker = page.worker /\ page'.config = page.config
              /\ page'.rejected = page.rejected /\ page'.garbled = page.garbled
            BY <1>2 DEF SessionStarts, PhoneTakesFocus, OtherPage, VideoShown, VideoHidden,
               HideTimer, vars, Types, PageTypes
        <3> QED
            BY <3>1 DEF Alike
    <2> QED
        BY <1>1, <2>1, <2>2
<1>3. CASE StoreInitializes
    <2>1. /\ page'.open = page.open /\ page'.acceptData = page.acceptData
          /\ page'.stopListeners = Append(page.stopListeners, "store")
          /\ page'.worker = page.worker /\ page'.config = page.config
          /\ page'.rejected = page.rejected /\ page'.garbled = page.garbled
          /\ UNCHANGED <<toClient, told, starts, unstopped>>
        BY <1>3 DEF StoreInitializes, history, Types, PageTypes
    <2>2. page.stopListeners \in Seq(Listeners) /\ "store" \in Listeners
        BY DEF Listeners, Types, PageTypes
    <2>3. Without(page'.stopListeners) <=> Without(page.stopListeners)
        BY <2>1, <2>2, AddListener
    <2>4. Listening' <=> Listening
        BY <2>3, Listens, ListensNext
    <2>5. Alike(page, page')
        BY <2>1, <2>4 DEF Alike, Listening
    <2> QED
        BY <1>1, <2>1, <2>5
<1>4. CASE SessionEnds \/ PhoneStopsChannel
    BY <1>4, CleanStopped DEF SessionEnds, PhoneStopsChannel
<1>5. CASE PhoneSetsUp \/ PhoneRequestsFocus
    <2>1. PICK f \in Focus :
              toClient' = Notify(toClient, [name |-> "focusRequest", mode |-> f])
        BY <1>5 DEF PhoneSetsUp, PhoneRequestsFocus, Focus
    <2> DEFINE m == [name |-> "focusRequest", mode |-> f]
    <2>2. m \in Downstream /\ m.name = "focusRequest" /\ toClient' = Notify(toClient, m)
        BY <2>1, ServerMessages
    <2> HIDE DEF m
    <2>3. /\ Prolongs(toClient, toClient')
          /\ \A i \in 1 .. Len(toClient') : i \in 1 .. Len(toClient) \/ toClient'[i] = m
        BY <1>0, <2>2, Prolonged
    <2>4. Alike(page, page') /\ UNCHANGED <<told, starts, unstopped>>
        BY <1>5 DEF PhoneSetsUp, PhoneRequestsFocus, history, Alike
    <2>5. \A i \in 1 .. Len(toClient') :
              i \in 1 .. Len(toClient) \/ toClient'[i].name \notin Media
        BY <2>2, <2>3 DEF Media
    <2> QED
        BY <2>3, <2>4, <2>5, CleanSame
<1>6. CASE PhoneStartsChannel
    <2> DEFINE m == [name |-> "channelStart"]
    <2>1. /\ phone = "idle" /\ page' = page /\ unstopped' = unstopped
          /\ toClient' = Notify(toClient, m)
        BY <1>6 DEF PhoneStartsChannel, ChannelStart
    <2>2. m \in Downstream /\ m.name = "channelStart"
        BY ServerMessages
    <2> HIDE DEF m
    <2>3. ~told /\ Alike(page, page')
        BY <2>1 DEF ToldInv, Alike
    <2>4. /\ Prolongs(toClient, toClient')
          /\ \A i \in 1 .. Len(toClient') : i \in 1 .. Len(toClient) \/ toClient'[i] = m
        BY <1>0, <2>1, <2>2, Prolonged
    <2>5. \A i \in 1 .. Len(toClient') :
              i \in 1 .. Len(toClient) \/ toClient'[i].name \notin Media
        BY <2>2, <2>4 DEF Media
    <2> QED
        BY <2>1, <2>3, <2>4, <2>5, CleanSame
<1>7. CASE PhoneSendsMedia
    BY <1>7, CleanMedia
<1>8. CASE PageOpens
    <2>1. /\ ~page.open /\ toServer = <<>> /\ page' = [NoPage EXCEPT !.open = TRUE]
          /\ toClient' = toClient
        BY <1>8 DEF PageOpens
    <2>2. toClient' = <<>> /\ Len(<<>>) = 0
        BY <2>1 DEF SocketInv, ClosedSocket, Unheard
    <2>3. page'.worker = "unconfigured" /\ page'.garbled = {}
        BY <2>1 DEF NoPage
    <2>4. NoneOther(toClient', page')
        BY <2>2 DEF NoneOther
    <2>5. \A s : ~ConfigIs(page', s)
        BY <2>3 DEF ConfigIs
    <2>6. \A s : ~ConfiguredAt(toClient', page', s, Len(toClient') + 1)
        BY <2>2, <2>5 DEF ConfiguredAt, Held
    <2> QED
        BY <2>3, <2>4, <2>6 DEF CleanInv, NoneBehind
<1>9. CASE PageCloses
    <2>1. page'.open = FALSE
        BY <1>9 DEF PageCloses, NoPage
    <2> QED
        BY <2>1 DEF CleanInv
<1>10. CASE ServerReceives
    <2> DEFINE m == toServer[1]
    <2>1. /\ \/ ServerSubscribes(m) \/ ServerAnswers(m)
             \/ ServerSendsFocus(m) \/ ServerClosesSocket(m)
          /\ 1 \in 1 .. Len(toServer) /\ page' = page
        BY <1>10, ServerStep
    <2>2. starts' = starts /\ Alike(page, page')
        BY <1>10, <2>1 DEF ServerReceives, Alike
    <2> HIDE DEF m
    <2>3. CASE ServerSubscribes(m) \/ ServerSendsFocus(m)
        <3>1. UNCHANGED <<toClient, told, unstopped>>
            BY <2>3 DEF ServerSubscribes, ServerSendsFocus
        <3> QED
            BY <1>1, <2>2, <3>1
    <2>4. CASE ServerAnswers(m)
        <3> DEFINE x == [name |-> "getChannelStarted", result |-> channelStarted]
        <3>1. x \in Downstream /\ x.name \notin Media
              /\ toClient' = Append(toClient, x) /\ told' = told /\ unstopped' = unstopped
            BY <2>4, ServerMessages DEF ServerAnswers, Types, PhoneTypes, Media
        <3> HIDE DEF x
        <3>2. /\ toClient' \in Seq(Downstream) /\ Len(toClient') = Len(toClient) + 1
              /\ \A i \in 1 .. Len(toClient) : toClient'[i] = toClient[i]
              /\ toClient'[Len(toClient) + 1] = x
            BY <1>0, <3>1, OneMore
        <3>3. Prolongs(toClient, toClient')
            BY <1>0, <3>2 DEF Prolongs
        <3>4. \A i \in 1 .. Len(toClient') : i \in 1 .. Len(toClient) \/ i = Len(toClient) + 1
            BY <1>0, <3>2
        <3>5. \A i \in 1 .. Len(toClient') :
                  i \in 1 .. Len(toClient) \/ toClient'[i].name \notin Media
            BY <3>1, <3>2, <3>4
        <3> QED
            BY <2>2, <3>1, <3>3, <3>5, CleanSame
    <2>5. CASE ServerClosesSocket(m)
        <3>1. ~page.open
            BY <2>1, <2>5 DEF SocketInv, OpenSocket, ServerClosesSocket, m
        <3> QED
            BY <2>1, <3>1 DEF CleanInv
    <2> QED
        BY <2>1, <2>3, <2>4, <2>5
<1>11. CASE PageReceives
    BY <1>11, CleanTaken
<1> QED
    BY <1>2, <1>3, <1>4, <1>5, <1>6, <1>7, <1>8, <1>9, <1>10, <1>11 DEF Next

\* Each frame the worker is given it decodes, with the configuration of the
\* frame's own start, unless the configuration or the key frame of that start
\* was sent before the page had subscribed; and even then it decodes none with
\* the configuration of another start, if the page was told of every stop.
THEOREM DecodesOwn == Spec => []DecodesOwnStart
<1>1. Init => /\ SocketInv /\ ToldInv /\ HeardInv
              /\ FrameInv /\ DecodedInv /\ CleanInv
    <2> SUFFICES ASSUME Init
                 PROVE  ToldInv /\ HeardInv /\ FrameInv /\ DecodedInv /\ CleanInv
        BY SocketInit
    <2>1. ~told /\ ~page.open /\ page.rejected = {} /\ page.garbled = {}
        BY DEF Init, NoPage
    <2> QED
        BY <2>1 DEF ToldInv, HeardInv, FrameInv, DecodedInv, CleanInv
<1>2. CodecInv /\ Types /\ Types' /\ SocketInv /\ ToldInv /\ HeardInv /\ FrameInv
          /\ DecodedInv /\ CleanInv /\ [Next]_vars
          => /\ SocketInv' /\ ToldInv' /\ HeardInv'
             /\ FrameInv' /\ DecodedInv' /\ CleanInv'
    BY SocketStep, ToldStep, HeardStep, FrameStep, CleanStep
<1>3. SocketInv /\ DecodedInv /\ CleanInv => DecodesOwnStart
    <2> SUFFICES ASSUME SocketInv, DecodedInv, CleanInv, ~unstopped
                 PROVE  page.garbled = {}
        BY DEF DecodedInv, DecodesOwnStart
    <2>1. CASE page.open
        BY <2>1 DEF CleanInv
    <2>2. CASE ~page.open
        BY <2>2 DEF SocketInv, ClosedSocket, NoPage
    <2> QED
        BY <2>1, <2>2
<1> QED
    BY <1>1, <1>2, <1>3, Typed, PTL DEF Spec

-----------------------------------------------------------------------------
(***************************************************************************)
(* How often a message is in a queue.                                      *)
(***************************************************************************)
At(q, x) == {i \in 1 .. Len(q) : q[i] = x}
Times(q, x) == Cardinality(At(q, x))

\* What is nowhere in a queue is in it no times.
LEMMA TimesType ==
    ASSUME NEW S, NEW q \in Seq(S), NEW x
    PROVE  /\ IsFiniteSet(At(q, x)) /\ Times(q, x) \in Nat
           /\ (\A i \in 1 .. Len(q) : q[i] # x) => Times(q, x) = 0
<1>1. Len(q) \in Nat
    BY LenProperties
<1>2. IsFiniteSet(1 .. Len(q))
    BY <1>1, FS_Interval
<1>3. At(q, x) \in SUBSET (1 .. Len(q))
    BY DEF At
<1>4. IsFiniteSet(At(q, x))
    BY <1>2, <1>3, FS_Subset
<1>5. (\A i \in 1 .. Len(q) : q[i] # x) => At(q, x) = {}
    BY DEF At
<1> QED
    BY <1>4, <1>5, FS_CardinalityType, FS_EmptySet DEF Times

\* Of the first message a queue loses one, of the others none.
LEMMA TimesTaken ==
    ASSUME NEW S, NEW q \in Seq(S), q # <<>>, NEW x
    PROVE  /\ Times(Tail(q), x) <= Times(q, x)
           /\ q[1] = x => Times(Tail(q), x) + 1 <= Times(q, x)
<1> DEFINE A == At(q, x) \ {1}
           B == At(Tail(q), x)
           f == [i \in A |-> i - 1]
<1>1. /\ Tail(q) \in Seq(S) /\ Len(q) \in Nat /\ 1 \in 1 .. Len(q)
      /\ Len(Tail(q)) = Len(q) - 1
      /\ \A i \in 1 .. Len(q) - 1 : Tail(q)[i] = q[i + 1]
    BY OneLess
<1>2. /\ IsFiniteSet(At(q, x)) /\ Times(q, x) \in Nat
      /\ IsFiniteSet(B) /\ Times(Tail(q), x) \in Nat
    BY <1>1, TimesType
<1>3. /\ IsFiniteSet(A)
      /\ Cardinality(A) = IF 1 \in At(q, x) THEN Times(q, x) - 1 ELSE Times(q, x)
    BY <1>2, FS_RemoveElement DEF Times
<1>4. ASSUME NEW i \in A PROVE i - 1 \in B
    <2>1. i \in 1 .. Len(q) /\ i # 1 /\ q[i] = x
        BY DEF At
    <2>2. i - 1 \in 1 .. Len(q) - 1 /\ (i - 1) + 1 = i
        BY <1>1, <2>1
    <2> QED
        BY <1>1, <2>1, <2>2 DEF At
<1>5. ASSUME NEW l \in B PROVE l + 1 \in A /\ (l + 1) - 1 = l
    <2>1. l \in 1 .. Len(q) - 1 /\ Tail(q)[l] = x
        BY <1>1 DEF At
    <2>2. l + 1 \in 1 .. Len(q) /\ l + 1 # 1 /\ (l + 1) - 1 = l
        BY <1>1, <2>1
    <2> QED
        BY <1>1, <2>1, <2>2 DEF At
<1>6. f \in Surjection(A, B)
    <2> HIDE DEF A, B
    <2>1. f \in [A -> B]
        BY <1>4
    <2>2. \A l \in B : \E i \in A : f[i] = l
        BY <1>5
    <2> QED
        BY <2>1, <2>2 DEF Surjection
<1>7. Cardinality(B) <= Cardinality(A)
    <2> HIDE DEF A, B, f
    <2> QED
        BY <1>3, <1>6, FS_Surjection
<1>8. q[1] = x => 1 \in At(q, x)
    BY <1>1 DEF At
<1>9. Cardinality(B) = Times(Tail(q), x)
    BY DEF Times
<1> HIDE DEF A, B
<1> QED
    BY <1>2, <1>3, <1>7, <1>8, <1>9

\* A queue that grows has x no more often, or once more.
LEMMA TimesMore ==
    ASSUME NEW S, NEW q \in Seq(S), NEW r \in Seq(S), NEW x,
           Len(q) <= Len(r), \A i \in 1 .. Len(q) : r[i] = q[i]
    PROVE  /\ (\A i \in 1 .. Len(r) : i \in 1 .. Len(q) \/ r[i] # x)
                  => Times(r, x) <= Times(q, x)
           /\ (\A i, l \in 1 .. Len(r) :
                    \/ i \in 1 .. Len(q) \/ l \in 1 .. Len(q)
                    \/ r[i] # x \/ r[l] # x \/ i = l)
                  => Times(r, x) <= Times(q, x) + 1
<1>1. /\ IsFiniteSet(At(q, x)) /\ Times(q, x) \in Nat
      /\ IsFiniteSet(At(r, x)) /\ Times(r, x) \in Nat
    BY TimesType
<1>2. CASE At(r, x) \subseteq At(q, x)
    <2>1. Times(r, x) <= Times(q, x)
        BY <1>1, <1>2, FS_Subset DEF Times
    <2> QED
        BY <1>1, <2>1
<1>3. CASE ~(At(r, x) \subseteq At(q, x))
    <2>1. PICK k \in At(r, x) : k \notin At(q, x)
        BY <1>3
    <2>2. k \in 1 .. Len(r) /\ r[k] = x /\ k \notin 1 .. Len(q)
        BY <2>1 DEF At
    <2>3. ASSUME \A i, l \in 1 .. Len(r) :
                     \/ i \in 1 .. Len(q) \/ l \in 1 .. Len(q)
                     \/ r[i] # x \/ r[l] # x \/ i = l
          PROVE  Times(r, x) <= Times(q, x) + 1
        <3>1. At(r, x) \in SUBSET (At(q, x) \cup {k})
            BY <2>2, <2>3 DEF At
        <3>2. /\ IsFiniteSet(At(q, x) \cup {k})
              /\ Cardinality(At(q, x) \cup {k}) = Times(q, x) + 1
            BY <1>1, <2>1, FS_AddElement DEF Times
        <3>3. Times(r, x) <= Cardinality(At(q, x) \cup {k})
            BY <3>1, <3>2, FS_Subset DEF Times
        <3> QED
            BY <3>2, <3>3
    <2> QED
        BY <2>2, <2>3
<1> QED
    BY <1>2, <1>3

-----------------------------------------------------------------------------
(***************************************************************************)
(* How often a page is subscribed.  A subscription is counted by the       *)
(* server, on its way to it, or, of those the decoder makes when the       *)
(* channel starts, still to come from a start on its way to the page.  The *)
(* page itself makes one to channelStart; its store, when it is            *)
(* initialized, one to channelStop and one to focusRequest; the decoder    *)
(* one to each of its notifications for each start of the channel.         *)
(***************************************************************************)
On(n) == Subscribe(n, TRUE)
Begin == [name |-> "channelStart"]
Decoder == Media \cup {"channelStop"}

Coming(n) == IF n \in Decoder THEN Times(toClient, Begin) ELSE 0

Total(n) == subscribed[n] + Times(toServer, On(n)) + Coming(n)

Allowed(n) ==
    (IF n \in Decoder THEN starts ELSE 0)
        + (IF n = "channelStart" \/ (n \notin Media /\ page.initialized)
           THEN 1 ELSE 0)

Balance == page.open => \A n \in Names : Total(n) <= Allowed(n)

Bounded == \A n \in Names : subscribed[n] <= starts + 1

\* A request to subscribe names its notification.
LEMMA OnIs ==
    ASSUME NEW n \in Names, NEW l \in Names
    PROVE  /\ On(n) \in Requests
           /\ On(n).kind = "subscribe" /\ On(n).subscribe = TRUE /\ On(n).name = n
           /\ On(n) = On(l) => n = l
<1>1. \A k \in Names : /\ Subscribe(k, TRUE) \in Requests
                      /\ Subscribe(k, TRUE).kind = "subscribe"
                      /\ Subscribe(k, TRUE).subscribe = TRUE
                      /\ Subscribe(k, TRUE).name = k
    BY Messages
<1> QED
    BY <1>1 DEF On

\* The types of the counts.
LEMMA Counts ==
    ASSUME Types, NEW n \in Names
    PROVE  /\ subscribed[n] \in Nat /\ starts \in Nat
           /\ Times(toServer, On(n)) \in Nat /\ Times(toClient, Begin) \in Nat
           /\ Coming(n) \in Nat /\ Total(n) \in Nat /\ Allowed(n) \in Nat
           /\ subscribed[n] <= Total(n)
           /\ starts <= MaxStarts /\ Allowed(n) <= starts + 1
<1>1. subscribed[n] \in Nat /\ toServer \in Seq(Requests) /\ toClient \in Seq(Downstream)
    BY DEF Types, PhoneTypes, ClientTypes
<1>2. starts \in Nat /\ starts <= MaxStarts
    BY Bounds DEF Types, ClientTypes
<1>3. Times(toServer, On(n)) \in Nat /\ Times(toClient, Begin) \in Nat
    BY <1>1, TimesType
<1>4. Coming(n) \in Nat
    BY <1>3 DEF Coming
<1>5. Total(n) \in Nat /\ subscribed[n] <= Total(n)
    BY <1>1, <1>3, <1>4 DEF Total
<1>6. Allowed(n) \in Nat /\ Allowed(n) <= starts + 1
    BY <1>2 DEF Allowed
<1> QED
    BY <1>1, <1>2, <1>3, <1>4, <1>5, <1>6

\* What neither a message nor a start adds to.
LEMMA BalanceKept ==
    ASSUME Types, Types', Balance, page'.open => page.open,
           page'.open => page'.initialized = page.initialized,
           starts' = starts,
           \A n \in Names :
               /\ subscribed'[n] <= subscribed[n]
               /\ Times(toServer', On(n)) <= Times(toServer, On(n)),
           Times(toClient', Begin) <= Times(toClient, Begin)
    PROVE  Balance'
<1> SUFFICES ASSUME page'.open, NEW n \in Names
             PROVE  Total(n)' <= Allowed(n)'
    BY DEF Balance
<1>1. Total(n) <= Allowed(n)
    BY DEF Balance
<1>2. Allowed(n)' = Allowed(n)
    BY DEF Allowed
<1>3. /\ subscribed[n] \in Nat /\ subscribed'[n] \in Nat
      /\ Times(toServer, On(n)) \in Nat /\ Times(toServer', On(n)) \in Nat
      /\ Times(toClient, Begin) \in Nat /\ Times(toClient', Begin) \in Nat
      /\ Total(n) \in Nat /\ Allowed(n) \in Nat
    <2>1. /\ subscribed'[n] \in Nat /\ toServer' \in Seq(Requests)
          /\ toClient' \in Seq(Downstream)
        BY DEF Types, PhoneTypes, ClientTypes
    <2> QED
        BY <2>1, Counts, TimesType
<1>4. Coming(n)' <= Coming(n) /\ Coming(n)' \in Nat /\ Coming(n) \in Nat
    BY <1>3 DEF Coming
<1>5. Total(n)' <= Total(n)
    BY <1>3, <1>4 DEF Total
<1>6. Total(n)' \in Nat
    BY <1>3, <1>4 DEF Total
<1> QED
    BY <1>1, <1>2, <1>3, <1>5, <1>6

\* What the server sends but for the start of the channel.
LEMMA NoBegin ==
    ASSUME Types, Prolongs(toClient, toClient'),
           \A i \in 1 .. Len(toClient') :
               i \in 1 .. Len(toClient) \/ toClient'[i].name # "channelStart"
    PROVE  Times(toClient', Begin) <= Times(toClient, Begin)
<1>1. \A i \in 1 .. Len(toClient') : i \in 1 .. Len(toClient) \/ toClient'[i] # Begin
    BY DEF Begin
<1>2. /\ toClient \in Seq(Downstream) /\ toClient' \in Seq(Downstream)
      /\ Len(toClient) <= Len(toClient')
      /\ \A i \in 1 .. Len(toClient) : toClient'[i] = toClient[i]
    BY DEF Types, ClientTypes, Prolongs
<1> QED
    BY <1>1, <1>2, TimesMore

\* The messages of a page that begin no subscription.
Quiet == {m \in Requests : m.kind = "subscribe" => ~m.subscribe}

\* Such messages leave every notification's count as it is.
LEMMA QuietSent ==
    ASSUME Types, NEW a \in Seq(Quiet), toServer' = toServer \o a, NEW n \in Names
    PROVE  Times(toServer', On(n)) <= Times(toServer, On(n))
<1>1. toServer \in Seq(Requests) /\ a \in Seq(Requests)
    BY DEF Types, PhoneTypes, Quiet
<1>2. \A i \in 1 .. Len(a) : a[i] \in Quiet
    BY ElementOfSeq
<1>3. \A m \in Quiet : m # On(n)
    BY OnIs DEF Quiet
<1>4. /\ toServer' \in Seq(Requests) /\ Len(toServer) <= Len(toServer')
      /\ \A i \in 1 .. Len(toServer) : toServer'[i] = toServer[i]
      /\ \A i \in 1 .. Len(toServer') :
            i \in 1 .. Len(toServer) \/ \E l \in 1 .. Len(a) : toServer'[i] = a[l]
    BY <1>1, Longer
<1>5. \A i \in 1 .. Len(toServer') :
          i \in 1 .. Len(toServer) \/ toServer'[i] # On(n)
    BY <1>2, <1>3, <1>4
<1> QED
    BY <1>1, <1>4, <1>5, TimesMore

\* Only the store and the decoder that starts begin subscriptions.
LEMMA QuietPage ==
    ASSUME Types,
           \/ VideoShown \/ HideTimer
           \/ PageReceives /\ Head(toClient).name # "channelStart"
    PROVE  \E a \in Seq(Quiet) : toServer' = toServer \o a
<1> DEFINE p == Head(toClient)
<1>0. toServer \in Seq(Requests)
    BY DEF Types, PhoneTypes
<1>1. <<>> \in Seq(Quiet) /\ toServer \o <<>> = toServer
    BY <1>0, ConcatEmptySeq
<1>2. \A f \in Focus : SendFocus(f) \in Quiet
    BY Messages DEF Quiet
<1>3. \A b \in BOOLEAN : StartIf(b) \in Seq(Quiet)
    <2>1. GetChannelStarted \in Quiet
        BY Messages DEF Quiet
    <2> QED
        BY <1>1, <2>1 DEF StartIf
<1>4. CASE toServer' = toServer
    BY <1>1, <1>4
<1>5. CASE VideoShown
    BY <1>3, <1>5 DEF VideoShown
<1>6. CASE HideTimer
    <2> DEFINE x == SendFocus("native")
    <2>1. x \in Quiet
        BY <1>2 DEF Focus
    <2>2. toServer' = toServer \/ toServer' = Append(toServer, x)
        BY <1>6 DEF HideTimer
    <2> HIDE DEF x
    <2>3. Append(toServer, x) = toServer \o <<x>> /\ <<x>> \in Seq(Quiet)
        BY <1>0, <2>1, AppendIsConcat DEF Quiet
    <2> QED
        BY <1>4, <2>2, <2>3
<1>7. CASE PageReceives /\ OnChannelStop(p)
    <2>1. StopMessages \subseteq Quiet
        BY StopMessageTypes DEF Quiet
    <2>2. HandleOn(page.stopListeners, page.usageCount # 0).sent \in Seq(StopMessages)
        BY HandleOnLeaves DEF Types, PageTypes
    <2>3. HandleOn(page.stopListeners, page.usageCount # 0).sent \in Seq(Quiet)
        BY <2>1, <2>2
    <2> QED
        BY <1>7, <2>3 DEF OnChannelStop
<1>8. CASE PageReceives /\ (OnCodecConfig(p) \/ OnFrame(p))
    BY <1>4, <1>8 DEF OnCodecConfig, OnFrame
<1>9. CASE PageReceives /\ OnFocusRequest(p)
    <2>1. (page.initialized /\ page.usageCount # 0) \in BOOLEAN
        BY DEF Types, PageTypes
    <2> QED
        BY <1>3, <1>9, <2>1 DEF OnFocusRequest
<1>10. CASE PageReceives /\ OnReply(p)
    <2> DEFINE x == SendFocus("native")
               y == SendFocus("projected")
               b == IF p.result THEN <<x>> ELSE <<>>
    <2>1. x \in Quiet /\ y \in Quiet
        BY <1>2 DEF Focus
    <2>2. toServer' = (toServer \o b) \o <<y>>
        BY <1>10 DEF OnReply
    <2> HIDE DEF x, y
    <2>3. b \in Seq(Quiet) /\ <<y>> \in Seq(Quiet) /\ b \o <<y>> \in Seq(Quiet)
        BY <2>1
    <2>4. b \in Seq(Requests) /\ <<y>> \in Seq(Requests)
        BY <2>1 DEF Quiet
    <2> HIDE DEF b
    <2>5. toServer' = toServer \o (b \o <<y>>)
        BY <1>0, <2>2, <2>4, ConcatAssociative
    <2> QED
        BY <2>3, <2>5
<1>11. ~OnChannelStart(p) \/ p.name = "channelStart"
    BY DEF OnChannelStart
<1> QED
    BY <1>5, <1>6, <1>7, <1>8, <1>9, <1>10, <1>11 DEF PageReceives, HideTimer, VideoShown

\* What a page sends with one request for a notification.
LEMMA OnceSent ==
    ASSUME Types, NEW a \in Seq(Requests), toServer' = toServer \o a,
           NEW n \in Names, \A i, l \in 1 .. Len(a) : a[i] = On(n) /\ a[l] = On(n) => i = l
    PROVE  /\ Times(toServer', On(n)) <= Times(toServer, On(n)) + 1
           /\ (\A i \in 1 .. Len(a) : a[i] # On(n))
                  => Times(toServer', On(n)) <= Times(toServer, On(n))
<1>1. toServer \in Seq(Requests)
    BY DEF Types, PhoneTypes
<1>2. /\ toServer' \in Seq(Requests) /\ Len(toServer) \in Nat /\ Len(a) \in Nat
      /\ Len(toServer') = Len(toServer) + Len(a)
      /\ \A i \in 1 .. Len(toServer) : toServer'[i] = toServer[i]
      /\ \A i \in 1 .. Len(toServer') :
            \/ i \in 1 .. Len(toServer)
            \/ i - Len(toServer) \in 1 .. Len(a) /\ toServer'[i] = a[i - Len(toServer)]
    BY <1>1, Longer
<1>3. ASSUME NEW i \in 1 .. Len(toServer'), NEW l \in 1 .. Len(toServer')
      PROVE  \/ i \in 1 .. Len(toServer) \/ l \in 1 .. Len(toServer)
             \/ toServer'[i] # On(n) \/ toServer'[l] # On(n) \/ i = l
    <2> SUFFICES ASSUME i \notin 1 .. Len(toServer), l \notin 1 .. Len(toServer),
                        toServer'[i] = On(n), toServer'[l] = On(n)
                 PROVE  i = l
        OBVIOUS
    <2>1. /\ i - Len(toServer) \in 1 .. Len(a) /\ a[i - Len(toServer)] = On(n)
          /\ l - Len(toServer) \in 1 .. Len(a) /\ a[l - Len(toServer)] = On(n)
        BY <1>2
    <2>2. i - Len(toServer) = l - Len(toServer)
        BY <2>1
    <2> QED
        BY <1>2, <2>2
<1>4. (\A i \in 1 .. Len(a) : a[i] # On(n))
          => \A i \in 1 .. Len(toServer') :
                i \in 1 .. Len(toServer) \/ toServer'[i] # On(n)
    BY <1>2
<1>5. Len(toServer) <= Len(toServer')
    BY <1>2
<1> QED
    BY <1>1, <1>2, <1>3, <1>4, <1>5, TimesMore

\* A start may add its message to what is on the way.
LEMMA StartBalance ==
    ASSUME Types, Types', Balance, PhoneStartsChannel
    PROVE  Balance'
<1> SUFFICES ASSUME page'.open, NEW n \in Names
             PROVE  Total(n)' <= Allowed(n)'
    BY DEF Balance
<1>1. /\ UNCHANGED <<page, subscribed, toServer>> /\ starts' = starts + 1
      /\ toClient' = Notify(toClient, Begin)
    BY DEF PhoneStartsChannel, ChannelStart, Begin
<1>2. Total(n) <= Allowed(n)
    BY <1>1 DEF Balance
<1>3. /\ Times(toClient', Begin) \in Nat /\ Times(toClient, Begin) \in Nat
      /\ Times(toClient', Begin) <= Times(toClient, Begin) + 1
    <2>1. Begin \in Downstream /\ toClient \in Seq(Downstream) /\ toClient' \in Seq(Downstream)
        BY ServerMessages DEF Begin, Types, ClientTypes
    <2>2. toClient' \in {toClient, Append(toClient, Begin)}
        BY <1>1, <2>1, Notified
    <2>3. CASE toClient' = toClient
        BY <2>1, <2>3, TimesType
    <2>4. CASE toClient' = Append(toClient, Begin)
        <3>1. /\ Len(toClient) \in Nat /\ Len(toClient') = Len(toClient) + 1
              /\ \A i \in 1 .. Len(toClient) : toClient'[i] = toClient[i]
            BY <2>1, <2>4, OneMore
        <3>2. \A i \in 1 .. Len(toClient') :
                  i \in 1 .. Len(toClient) \/ i = Len(toClient) + 1
            BY <3>1
        <3>3. \A i, l \in 1 .. Len(toClient') :
                  \/ i \in 1 .. Len(toClient) \/ l \in 1 .. Len(toClient)
                  \/ toClient'[i] # Begin \/ toClient'[l] # Begin \/ i = l
            BY <3>2
        <3>4. Len(toClient) <= Len(toClient')
            BY <3>1
        <3> QED
            BY <2>1, <3>1, <3>3, <3>4, TimesMore, TimesType
    <2> QED
        BY <2>2, <2>3, <2>4
<1>4. /\ subscribed[n] \in Nat /\ Times(toServer, On(n)) \in Nat /\ starts \in Nat
    BY Counts
<1>5. CASE n \in Decoder
    <2>1. /\ Coming(n) = Times(toClient, Begin) /\ Coming(n)' = Times(toClient', Begin)
          /\ Allowed(n)' = Allowed(n) + 1 /\ Allowed(n) \in Nat
        BY <1>1, <1>4, <1>5, Counts DEF Coming, Allowed
    <2> QED
        BY <1>1, <1>2, <1>3, <1>4, <2>1 DEF Total
<1>6. CASE n \notin Decoder
    <2>1. Coming(n) = 0 /\ Coming(n)' = 0 /\ Allowed(n)' = Allowed(n)
        BY <1>1, <1>6 DEF Coming, Allowed
    <2> QED
        BY <1>1, <1>2, <2>1 DEF Total
<1> QED
    BY <1>5, <1>6

\* The server takes a subscription, and counts it.
LEMMA SubscribeBalance ==
    ASSUME Types, Types', Balance, ServerReceives, ServerSubscribes(toServer[1])
    PROVE  Balance'
<1> DEFINE m == toServer[1]
<1>1. /\ toServer # <<>> /\ toServer' = Tail(toServer) /\ m \in Requests
      /\ page' = page /\ starts' = starts
    BY ServerStep DEF history
<1>2. toClient' = toClient
    BY DEF ServerSubscribes
<1>3. /\ m.kind = "subscribe" /\ m.name \in Names /\ m.subscribe \in BOOLEAN
      /\ \/ /\ m.subscribe
            /\ subscribed' = [subscribed EXCEPT ![m.name] = subscribed[m.name] + 1]
         \/ /\ ~m.subscribe
            /\ \/ subscribed' = subscribed
               \/ /\ subscribed[m.name] # 0
                  /\ subscribed' = [subscribed EXCEPT ![m.name] = subscribed[m.name] - 1]
    BY <1>1, Messages DEF ServerSubscribes
<1>4. subscribed \in [Names -> Nat] /\ toServer \in Seq(Requests)
    BY DEF Types, PhoneTypes
<1> HIDE DEF m
<1>5. \A n \in Names : /\ Times(toServer', On(n)) <= Times(toServer, On(n))
                       /\ m = On(n) => Times(toServer', On(n)) + 1 <= Times(toServer, On(n))
    BY <1>1, <1>4, TimesTaken DEF m
<1>6. CASE ~m.subscribe
    <2>1. \A n \in Names : subscribed'[n] <= subscribed[n]
        BY <1>3, <1>4, <1>6
    <2>2. Times(toClient', Begin) <= Times(toClient, Begin)
        BY <1>2, TimesType DEF Types, ClientTypes
    <2> QED
        BY <1>1, <1>5, <2>1, <2>2, BalanceKept
<1>7. CASE m.subscribe
    <2> SUFFICES ASSUME page'.open, NEW n \in Names
                 PROVE  Total(n)' <= Allowed(n)'
        BY DEF Balance
    <2>1. Total(n) <= Allowed(n) /\ Allowed(n)' = Allowed(n) /\ Coming(n)' = Coming(n)
        BY <1>1, <1>2 DEF Balance, Allowed, Coming
    <2>2. /\ subscribed[n] \in Nat /\ Times(toServer, On(n)) \in Nat
          /\ Coming(n) \in Nat /\ Allowed(n) \in Nat
        BY Counts
    <2>3. Times(toServer', On(n)) \in Nat
        BY TimesType DEF Types, PhoneTypes
    <2>4. \/ n = m.name /\ subscribed'[n] = subscribed[n] + 1
          \/ n # m.name /\ subscribed'[n] = subscribed[n]
        BY <1>3, <1>4, <1>7
    <2>5. n = m.name => m = On(n)
        BY <1>1, <1>3, <1>7 DEF Requests, On, Subscribe
    <2>6. subscribed'[n] + Times(toServer', On(n)) <= subscribed[n] + Times(toServer, On(n))
        BY <1>5, <2>2, <2>3, <2>4, <2>5
    <2>7. subscribed'[n] \in Nat
        BY <2>2, <2>4
    <2> QED
        BY <2>1, <2>2, <2>3, <2>6, <2>7 DEF Total
<1> QED
    BY <1>3, <1>6, <1>7

\* The store subscribes to the stop and to the focus requests, once a page.
LEMMA StoreBalance ==
    ASSUME Types, Types', Balance, StoreInitializes
    PROVE  Balance'
<1> SUFFICES ASSUME page'.open, NEW n \in Names
             PROVE  Total(n)' <= Allowed(n)'
    BY DEF Balance
<1> DEFINE x == Subscribe("channelStop", TRUE)
           y == Subscribe("focusRequest", TRUE)
<1>1. /\ toServer' = toServer \o <<x, y>> /\ ~page.initialized /\ page.open
      /\ page'.initialized
      /\ UNCHANGED <<subscribed, toClient, starts>>
    BY DEF StoreInitializes, history, Types, PageTypes
<1>2. /\ x \in Requests /\ y \in Requests
      /\ x = On("channelStop") /\ y = On("focusRequest")
      /\ "channelStop" \in Names /\ "focusRequest" \in Names
    BY NamesAre, Messages DEF On
<1> HIDE DEF x, y
<1>3. /\ <<x, y>> \in Seq(Requests) /\ Len(<<x, y>>) = 2
      /\ <<x, y>>[1] = x /\ <<x, y>>[2] = y
    BY <1>2
<1> DEFINE a == <<x, y>>
<1> HIDE DEF a
<1>4. /\ a \in Seq(Requests) /\ Len(a) = 2 /\ a[1] = x /\ a[2] = y
    BY <1>3 DEF a
<1>5. x = On(n) => n = "channelStop"
    BY <1>2, OnIs
<1>6. y = On(n) => n = "focusRequest"
    BY <1>2, OnIs
<1>7. \A i \in 1 .. Len(a) : i = 1 \/ i = 2
    BY <1>4
<1>8. \A i, l \in 1 .. Len(a) : a[i] = On(n) /\ a[l] = On(n) => i = l
    BY <1>4, <1>5, <1>6, <1>7
<1>9. n \notin {"channelStop", "focusRequest"} => \A i \in 1 .. Len(a) : a[i] # On(n)
    BY <1>4, <1>5, <1>6, <1>7
<1>10. toServer' = toServer \o a
    BY <1>1 DEF a
<1>11. /\ Times(toServer', On(n)) <= Times(toServer, On(n)) + 1
       /\ n \notin {"channelStop", "focusRequest"}
              => Times(toServer', On(n)) <= Times(toServer, On(n))
    BY <1>4, <1>8, <1>9, <1>10, OnceSent
<1>12. Total(n) <= Allowed(n) /\ Coming(n)' = Coming(n) /\ subscribed'[n] = subscribed[n]
    BY <1>1 DEF Balance, Coming
<1>13. /\ subscribed[n] \in Nat /\ Times(toServer, On(n)) \in Nat /\ starts \in Nat
       /\ Coming(n) \in Nat /\ Allowed(n) \in Nat
    BY Counts
<1>14. Times(toServer', On(n)) \in Nat
    BY TimesType DEF Types, PhoneTypes
<1>15. n \in {"channelStop", "focusRequest"} => Allowed(n)' = Allowed(n) + 1
    BY <1>1, <1>13 DEF Allowed, Media, Decoder
<1>16. n \notin {"channelStop", "focusRequest"} => Allowed(n)' = Allowed(n)
    BY <1>1, NamesAre DEF Allowed, Media, Decoder
<1>17. CASE n \in {"channelStop", "focusRequest"}
    BY <1>11, <1>12, <1>13, <1>14, <1>15, <1>17 DEF Total
<1>18. CASE n \notin {"channelStop", "focusRequest"}
    BY <1>11, <1>12, <1>13, <1>14, <1>16, <1>18 DEF Total
<1> QED
    BY <1>17, <1>18

\* The decoder takes the message of the start and subscribes in its place.
LEMMA DecoderBalance ==
    ASSUME Types, Types', Balance, PageReceives, OnChannelStart(Head(toClient))
    PROVE  Balance'
<1> SUFFICES ASSUME page'.open, NEW n \in Names
             PROVE  Total(n)' <= Allowed(n)'
    BY DEF Balance
<1> DEFINE a == SubscribeAll(TRUE)
<1>1. /\ toServer' = toServer \o a /\ toClient # <<>> /\ toClient' = Tail(toClient)
      /\ Head(toClient).name = "channelStart" /\ page.open
      /\ page'.initialized = page.initialized
      /\ UNCHANGED <<subscribed, starts>>
    BY DEF PageReceives, OnChannelStart, history, Types, PageTypes
<1>2. toClient[1] = Begin
    <2>1. Head(toClient) = toClient[1] /\ Head(toClient) \in Downstream
        BY <1>1, OneLess DEF Types, ClientTypes
    <2> QED
        BY <1>1, <2>1 DEF Downstream, Notifications, Replies, Begin
<1>3. Times(toClient', Begin) + 1 <= Times(toClient, Begin)
    BY <1>1, <1>2, TimesTaken DEF Types, ClientTypes
<1>4. a = [i \in 1 .. 4 |-> On(DecoderNames[i])]
    BY NamesAre DEF SubscribeAll, On
<1>5. a \in Seq(Requests)
    BY PageMessages
<1> HIDE DEF a
<1>6. Len(a) = 4
    <2>1. \A i \in 1 .. 4 : On(DecoderNames[i]) \in Requests
        BY NamesAre, OnIs
    <2>2. a \in [1 .. 4 -> Requests]
        BY <1>4, <2>1
    <2> QED
        BY <2>2, FourLong
<1>7. \A i \in 1 .. 4 : DecoderNames[i] \in Names /\ DecoderNames[i] \in Decoder
    BY NamesAre DEF Decoder, Media
<1>8. \A i, l \in 1 .. 4 : DecoderNames[i] = DecoderNames[l] => i = l
    BY DEF DecoderNames
<1>9. \A i \in 1 .. 4 : a[i] = On(n) => DecoderNames[i] = n
    BY <1>4, <1>7, OnIs
<1>10. /\ \A i, l \in 1 .. Len(a) : a[i] = On(n) /\ a[l] = On(n) => i = l
       /\ n \notin Decoder => \A i \in 1 .. Len(a) : a[i] # On(n)
    BY <1>6, <1>7, <1>8, <1>9
<1>11. /\ Times(toServer', On(n)) <= Times(toServer, On(n)) + 1
       /\ n \notin Decoder => Times(toServer', On(n)) <= Times(toServer, On(n))
    BY <1>1, <1>5, <1>10, OnceSent
<1>12. Total(n) <= Allowed(n) /\ Allowed(n)' = Allowed(n)
    BY <1>1 DEF Balance, Allowed
<1>13. /\ subscribed[n] \in Nat /\ Times(toServer, On(n)) \in Nat
       /\ Times(toClient, Begin) \in Nat /\ Allowed(n) \in Nat
    BY Counts
<1>14. Times(toServer', On(n)) \in Nat /\ Times(toClient', Begin) \in Nat
    BY TimesType DEF Types, PhoneTypes, ClientTypes
<1>15. CASE n \in Decoder
    BY <1>1, <1>3, <1>11, <1>12, <1>13, <1>14, <1>15 DEF Total, Coming
<1>16. CASE n \notin Decoder
    BY <1>1, <1>11, <1>12, <1>13, <1>14, <1>16 DEF Total, Coming
<1> QED
    BY <1>15, <1>16

\* A page that opens finds a socket without subscriptions.
LEMMA OpenBalance ==
    ASSUME Types, Types', SocketInv, PageOpens
    PROVE  Balance'
<1> SUFFICES ASSUME page'.open, NEW n \in Names
             PROVE  Total(n)' <= Allowed(n)'
    BY DEF Balance
<1> DEFINE x == Subscribe("channelStart", TRUE)
<1>1. /\ toServer = <<>> /\ toServer' = <<x>> /\ ~page.open
      /\ UNCHANGED <<subscribed, toClient, starts>>
    BY DEF PageOpens, history
<1>2. Unheard
    BY <1>1 DEF SocketInv, ClosedSocket
<1>3. subscribed'[n] = 0 /\ toClient' = <<>>
    BY <1>1, <1>2 DEF Unheard
<1>4. x \in Requests /\ "channelStart" \in Names /\ x = On("channelStart")
    BY NamesAre, Messages DEF On
<1>5. x = On(n) => n = "channelStart"
    BY <1>4, OnIs
<1> HIDE DEF x
<1>6. /\ toServer \in Seq(Requests) /\ <<x>> \in Seq(Requests)
      /\ toServer' = toServer \o <<x>>
      /\ \A i \in 1 .. Len(<<x>>) : i = 1 /\ <<x>>[i] = x
      /\ \A i \in 1 .. Len(toServer) : FALSE
      /\ \A i \in 1 .. Len(toClient') : FALSE
    BY <1>1, <1>3, <1>4
<1>7. /\ Times(toServer', On(n)) <= Times(toServer, On(n)) + 1
      /\ n # "channelStart" => Times(toServer', On(n)) <= Times(toServer, On(n))
    <2>1. \A i, l \in 1 .. Len(<<x>>) : <<x>>[i] = On(n) /\ <<x>>[l] = On(n) => i = l
        BY <1>6
    <2>2. n # "channelStart" => \A i \in 1 .. Len(<<x>>) : <<x>>[i] # On(n)
        BY <1>5, <1>6
    <2> QED
        BY <1>6, <2>1, <2>2, OnceSent
<1>8. Times(toServer, On(n)) = 0 /\ Times(toClient', Begin) = 0
    <2>1. \A i \in 1 .. Len(toServer) : toServer[i] # On(n)
        BY <1>6
    <2>2. \A i \in 1 .. Len(toClient') : toClient'[i] # Begin
        BY <1>6
    <2>3. toClient' \in Seq(Downstream)
        BY DEF Types, ClientTypes
    <2>4. Times(toServer, On(n)) = 0
        BY <1>6, <2>1, TimesType
    <2>5. Times(toClient', Begin) = 0
        BY <2>2, <2>3, TimesType
    <2> QED
        BY <2>4, <2>5
<1>9. Coming(n)' = 0
    BY <1>8 DEF Coming
<1>10. Times(toServer', On(n)) \in Nat
    BY TimesType DEF Types, PhoneTypes
<1>11. Total(n)' = Times(toServer', On(n))
    BY <1>3, <1>9, <1>10 DEF Total
<1>12. starts' \in Nat
    BY <1>1, Bounds DEF Types, ClientTypes
<1>13. Allowed(n)' \in Nat /\ (n = "channelStart" => Allowed(n)' >= 1)
    <2> DEFINE u == IF n \in Decoder THEN starts' ELSE 0
               v == IF n = "channelStart" \/ (n \notin Media /\ page'.initialized)
                    THEN 1 ELSE 0
    <2>1. Allowed(n)' = u + v
        BY Zenon DEF Allowed
    <2>2. u \in Nat /\ v \in {0, 1} /\ (n = "channelStart" => v = 1)
        BY <1>12
    <2> HIDE DEF u, v
    <2> QED
        BY <2>1, <2>2
<1> QED
    BY <1>7, <1>8, <1>10, <1>11, <1>13

\* Whatever happens the balance holds.
LEMMA BalanceStep ==
    ASSUME CodecInv, Types, Types', SocketInv, Balance, [Next]_vars
    PROVE  Balance'
<1>0. /\ toClient \in Seq(Downstream) /\ toServer \in Seq(Requests)
      /\ subscribed \in [Names -> Nat]
    BY DEF Types, PhoneTypes, ClientTypes
<1>1. /\ \A n \in Names : subscribed[n] <= subscribed[n]
      /\ \A n \in Names : Times(toServer, On(n)) <= Times(toServer, On(n))
      /\ Times(toClient, Begin) <= Times(toClient, Begin)
    BY <1>0, Counts, TimesType
<1>2. ASSUME UNCHANGED <<subscribed, toServer, starts>>, page' = page,
             Times(toClient', Begin) <= Times(toClient, Begin)
      PROVE  Balance'
    BY <1>1, <1>2, BalanceKept
<1>3. CASE \/ SessionStarts \/ PhoneTakesFocus \/ OtherPage \/ UNCHANGED vars
    <2>1. UNCHANGED <<subscribed, toServer, toClient, page, starts>>
        BY <1>3 DEF SessionStarts, PhoneTakesFocus, OtherPage, vars, history
    <2> QED
        BY <1>1, <1>2, <2>1
<1>4. CASE SessionEnds \/ PhoneStopsChannel
    <2>1. ChannelStop /\ UNCHANGED <<subscribed, toServer, page, starts>>
        BY <1>4 DEF SessionEnds, PhoneStopsChannel
    <2>2. /\ Prolongs(toClient, toClient')
          /\ \A i \in 1 .. Len(toClient') :
                \/ i \in 1 .. Len(toClient)
                \/ toClient'[i].name \in {"focusRequest", "channelStop"}
        BY <2>1, StopSent
    <2>3. \A i \in 1 .. Len(toClient') :
              i \in 1 .. Len(toClient) \/ toClient'[i].name # "channelStart"
        BY <2>2
    <2>4. Times(toClient', Begin) <= Times(toClient, Begin)
        BY <2>2, <2>3, NoBegin
    <2> QED
        BY <1>2, <2>1, <2>4
<1>5. ASSUME NEW m \in Downstream, m.name # "channelStart",
             toClient' = Notify(toClient, m)
      PROVE  Times(toClient', Begin) <= Times(toClient, Begin)
    <2>1. /\ Prolongs(toClient, toClient')
          /\ \A i \in 1 .. Len(toClient') : i \in 1 .. Len(toClient) \/ toClient'[i] = m
        BY <1>0, <1>5, Prolonged
    <2>2. \A i \in 1 .. Len(toClient') :
              i \in 1 .. Len(toClient) \/ toClient'[i].name # "channelStart"
        BY <1>5, <2>1
    <2> QED
        BY <2>1, <2>2, NoBegin
<1>6. CASE PhoneSetsUp \/ PhoneRequestsFocus
    <2>1. PICK f \in Focus :
              toClient' = Notify(toClient, [name |-> "focusRequest", mode |-> f])
        BY <1>6 DEF PhoneSetsUp, PhoneRequestsFocus, Focus
    <2>2. UNCHANGED <<subscribed, toServer, page, starts>>
        BY <1>6 DEF PhoneSetsUp, PhoneRequestsFocus, history
    <2>3. [name |-> "focusRequest", mode |-> f] \in Downstream
        BY ServerMessages
    <2> QED
        BY <1>2, <1>5, <2>1, <2>2, <2>3
<1>7. CASE PhoneStartsChannel
    BY <1>7, StartBalance
<1>8. CASE PhoneSendsMedia
    <2>1. PICK good \in BOOLEAN : HandleData(good)
        BY <1>8 DEF PhoneSendsMedia
    <2>2. UNCHANGED <<subscribed, toServer, page, starts>>
        BY <1>8 DEF PhoneSendsMedia
    <2>3. CASE toClient' = toClient
        BY <1>1, <1>2, <2>2, <2>3
    <2>4. CASE toClient' # toClient
        <3>1. PICK n \in Media : Send(n) /\ codecState # "STOPPED"
            BY <2>1, <2>4 DEF HandleData, Media
        <3>2. /\ [name |-> n, start |-> starts] \in Downstream
              /\ toClient' = Notify(toClient, [name |-> n, start |-> starts])
            BY <3>1, ServerMessages DEF Send, Media, Types, ClientTypes
        <3>3. n # "channelStart"
            BY DEF Media
        <3> QED
            BY <1>2, <1>5, <2>2, <3>2, <3>3
    <2> QED
        BY <2>3, <2>4
<1>9. CASE ServerReceives
    <2> DEFINE m == toServer[1]
    <2>1. /\ toServer # <<>> /\ toServer' = Tail(toServer)
          /\ page' = page /\ starts' = starts
          /\ \/ ServerSubscribes(m) \/ ServerAnswers(m)
             \/ ServerSendsFocus(m) \/ ServerClosesSocket(m)
        BY <1>9, ServerStep
    <2>2. CASE ServerSubscribes(m)
        BY <1>9, <2>2, SubscribeBalance
    <2>3. CASE ~ServerSubscribes(m)
        <3> HIDE DEF m
        <3>1. \A n \in Names : Times(toServer', On(n)) <= Times(toServer, On(n))
            BY <1>0, <2>1, TimesTaken
        <3>2. \A n \in Names : subscribed'[n] <= subscribed[n]
            BY <1>0, <2>1, <2>3 DEF ServerAnswers, ServerSendsFocus, ServerClosesSocket
        <3>3. Times(toClient', Begin) <= Times(toClient, Begin)
            <4>1. CASE ServerAnswers(m)
                <5>1. PICK x \in Downstream :
                          x.name = "getChannelStarted" /\ toClient' = Append(toClient, x)
                    BY <4>1, ServerMessages DEF ServerAnswers, Types, PhoneTypes
                <5>2. /\ toClient' \in Seq(Downstream) /\ Len(toClient) \in Nat
                      /\ Len(toClient') = Len(toClient) + 1
                      /\ \A i \in 1 .. Len(toClient) : toClient'[i] = toClient[i]
                      /\ toClient'[Len(toClient) + 1] = x
                    BY <1>0, <5>1, OneMore
                <5>3. \A i \in 1 .. Len(toClient') :
                          i \in 1 .. Len(toClient) \/ i = Len(toClient) + 1
                    BY <5>2
                <5>4. \A i \in 1 .. Len(toClient') :
                          i \in 1 .. Len(toClient) \/ toClient'[i].name # "channelStart"
                    BY <5>1, <5>2, <5>3
                <5>5. Prolongs(toClient, toClient')
                    BY <5>2 DEF Prolongs
                <5> QED
                    BY <5>4, <5>5, NoBegin
            <4>2. CASE ServerSendsFocus(m)
                BY <1>1, <4>2 DEF ServerSendsFocus
            <4>3. CASE ServerClosesSocket(m)
                <5>1. toClient' = <<>>
                    BY <4>3 DEF ServerClosesSocket
                <5>2. \A i \in 1 .. Len(toClient') : toClient'[i] # Begin
                    BY <5>1
                <5>3. Times(toClient', Begin) = 0
                    BY <5>2, TimesType DEF Types, ClientTypes
                <5> QED
                    BY <1>0, <5>3, TimesType
            <4> QED
                BY <2>1, <2>3, <4>1, <4>2, <4>3
        <3> QED
            BY <2>1, <3>1, <3>2, <3>3, BalanceKept
    <2> QED
        BY <2>2, <2>3
<1>10. CASE PageOpens
    BY <1>10, OpenBalance
<1>11. CASE PageCloses
    BY <1>11 DEF PageCloses, NoPage, Balance
<1>12. CASE StoreInitializes
    BY <1>12, StoreBalance
<1>13. CASE VideoHidden
    <2>1. /\ page'.open = page.open /\ page'.initialized = page.initialized
          /\ UNCHANGED <<subscribed, toServer, toClient, starts>>
        BY <1>13 DEF VideoHidden, history, Types, PageTypes
    <2> QED
        BY <1>1, <2>1, BalanceKept
<1>14. CASE VideoShown \/ HideTimer
    <2>1. /\ page'.open = page.open /\ page'.initialized = page.initialized
          /\ UNCHANGED <<subscribed, toClient, starts>>
        BY <1>14 DEF VideoShown, HideTimer, history, Types, PageTypes
    <2>2. \A n \in Names : Times(toServer', On(n)) <= Times(toServer, On(n))
        BY <1>14, QuietPage, QuietSent
    <2> QED
        BY <1>1, <2>1, <2>2, BalanceKept
<1>15. CASE PageReceives
    <2>1. CASE OnChannelStart(Head(toClient))
        BY <1>15, <2>1, DecoderBalance
    <2>2. CASE ~OnChannelStart(Head(toClient))
        <3>1. /\ page'.open = page.open /\ page'.initialized = page.initialized
              /\ UNCHANGED <<subscribed, starts>>
              /\ toClient # <<>> /\ toClient' = Tail(toClient)
            BY <1>15, <2>2 DEF PageReceives, OnChannelStop, OnCodecConfig, OnFrame,
               OnFocusRequest, OnReply, history, Types, PageTypes
        <3>2. Times(toClient', Begin) <= Times(toClient, Begin)
            BY <1>0, <3>1, TimesTaken
        <3>3. Head(toClient).name # "channelStart"
            BY <1>15, <2>2 DEF PageReceives, OnChannelStop, OnCodecConfig, OnFrame,
               OnFocusRequest, OnReply
        <3>4. \A n \in Names : Times(toServer', On(n)) <= Times(toServer, On(n))
            BY <1>15, <3>3, QuietPage, QuietSent
        <3> QED
            BY <1>1, <3>1, <3>2, <3>4, BalanceKept
    <2> QED
        BY <2>1, <2>2
<1> QED
    BY <1>3, <1>4, <1>6, <1>7, <1>8, <1>9, <1>10, <1>11, <1>12, <1>13, <1>14,
       <1>15 DEF Next

\* A page that is gone keeps its counts until its socket is closed.
LEMMA BoundedStep ==
    ASSUME Types, Types', SocketInv, Balance', Bounded, [Next]_vars
    PROVE  Bounded'
<1> SUFFICES ASSUME NEW n \in Names PROVE subscribed'[n] <= starts' + 1
    BY DEF Bounded
<1>1. CASE page'.open
    <2>1. Total(n)' <= Allowed(n)'
        BY <1>1 DEF Balance
    <2>2. /\ subscribed'[n] \in Nat /\ starts' \in Nat
          /\ Times(toServer', On(n)) \in Nat /\ Times(toClient', Begin) \in Nat
        <3>1. /\ toServer' \in Seq(Requests) /\ toClient' \in Seq(Downstream)
              /\ subscribed'[n] \in Nat /\ starts' \in Nat
            BY Bounds DEF Types, PhoneTypes, ClientTypes
        <3> QED
            BY <3>1, TimesType
    <2>3. /\ Coming(n)' \in Nat /\ Allowed(n)' \in Nat /\ Allowed(n)' <= starts' + 1
        <3> DEFINE u == IF n \in Decoder THEN starts' ELSE 0
                   v == IF n = "channelStart" \/ (n \notin Media /\ page'.initialized)
                        THEN 1 ELSE 0
        <3>1. Allowed(n)' = u + v
            BY Zenon DEF Allowed
        <3>2. u \in Nat /\ u <= starts' /\ v \in {0, 1}
            BY <2>2
        <3> HIDE DEF u, v
        <3>3. starts' \in Nat
            BY <2>2
        <3>4. u + v \in Nat /\ u + v <= starts' + 1
            <4>1. \A s, k \in Nat : k <= s => k + 0 \in Nat /\ k + 1 \in Nat
                                            /\ k + 0 <= s + 1 /\ k + 1 <= s + 1
                OBVIOUS
            <4> QED
                BY <3>2, <3>3, <4>1
        <3>5. Allowed(n)' \in Nat /\ Allowed(n)' <= starts' + 1
            BY <3>1, <3>4
        <3>6. Coming(n)' \in Nat
            BY <2>2 DEF Coming
        <3> QED
            BY <3>5, <3>6
    <2>4. subscribed'[n] <= Total(n)' /\ Total(n)' \in Nat
        BY <2>2, <2>3 DEF Total
    <2> QED
        BY <2>1, <2>2, <2>3, <2>4
<1>2. CASE ~page'.open
    <2>1. /\ subscribed[n] \in Nat /\ starts \in Nat /\ subscribed[n] <= starts + 1
        BY Counts DEF Bounded
    <2>2. CASE ServerReceives
        <3>1. /\ toServer # <<>> /\ page' = page /\ starts' = starts
              /\ \/ ServerSubscribes(toServer[1]) \/ ServerAnswers(toServer[1])
                 \/ ServerSendsFocus(toServer[1]) \/ ServerClosesSocket(toServer[1])
            BY <2>2, ServerStep
        <3>2. toServer[1].kind = "close"
            BY <1>2, <3>1 DEF SocketInv, ClosedSocket
        <3>3. subscribed' = [l \in Names |-> 0]
            BY <3>1, <3>2 DEF ServerSubscribes, ServerAnswers, ServerSendsFocus,
               ServerClosesSocket
        <3> QED
            BY <2>1, <3>1, <3>3
    <2>3. CASE ~ServerReceives
        <3>1. subscribed' = subscribed /\ (starts' = starts \/ starts' = starts + 1)
            BY <2>3 DEF Next, vars, history, SessionStarts, SessionEnds, PhoneSetsUp,
               PhoneTakesFocus, PhoneStartsChannel, PhoneStopsChannel, PhoneSendsMedia,
               PhoneRequestsFocus, OtherPage, PageOpens, PageCloses, StoreInitializes,
               VideoShown, VideoHidden, HideTimer, PageReceives
        <3> QED
            BY <2>1, <3>1
    <2> QED
        BY <2>2, <2>3
<1> QED
    BY <1>1, <1>2

\* Every variable of the video's way has its type: a socket counts a page's
\* subscription to a notification at most once for each start of the channel
\* and once for the page itself.
THEOREM TypeCorrect == Spec => []TypeOK
<1>1. Init => SocketInv /\ Balance /\ Bounded
    <2> SUFFICES ASSUME Init PROVE Balance /\ Bounded
        BY SocketInit
    <2>1. ~page.open /\ starts = 0 /\ subscribed = [n \in Names |-> 0]
        BY DEF Init, NoPage
    <2> QED
        BY <2>1 DEF Balance, Bounded
<1>2. CodecInv /\ Types /\ Types' /\ SocketInv /\ Balance /\ Bounded /\ [Next]_vars
          => SocketInv' /\ Balance' /\ Bounded'
    BY SocketStep, BalanceStep, BoundedStep
<1>3. CodecInv /\ Types /\ Bounded => TypeOK
    <2> SUFFICES ASSUME CodecInv, Types, Bounded PROVE TypeOK
        OBVIOUS
    <2>1. starts \in 0 .. MaxStarts /\ MaxStarts \in Nat /\ MaxShows \in Nat
        BY Bounds DEF Types, ClientTypes
    <2>2. subscribed \in [Names -> 0 .. MaxStarts + 1]
        <3>1. subscribed \in [Names -> Nat]
            BY DEF Types, PhoneTypes
        <3>2. \A n \in Names : subscribed[n] \in 0 .. MaxStarts + 1
            BY <2>1, <3>1 DEF Bounded
        <3> QED
            BY <3>1, <3>2
    <2>3. /\ page.open \in BOOLEAN /\ page.initialized \in BOOLEAN
          /\ page.shown \in 0 .. 2 /\ page.usageCount \in page.shown .. MaxShows
          /\ page.stopListeners \in Seq({"decoder", "store"})
          /\ page.worker \in {"unconfigured", "configured", "decoding"}
          /\ page.config \in 0 .. MaxStarts
          /\ page.rejected \subseteq Starts /\ page.garbled \subseteq Starts
        <3>1. /\ page.usageCount \in Nat /\ spent.shows \in Nat /\ page.shown \in 0 .. 2
              /\ page.shown <= page.usageCount /\ page.usageCount <= spent.shows
              /\ spent.shows <= MaxShows
            BY DEF Types, PageTypes, Spent
        <3>2. page.usageCount \in page.shown .. MaxShows
            BY <2>1, <3>1
        <3> QED
            BY <3>1, <3>2 DEF Types, PageTypes, Listeners
    <2>4. /\ session \in BOOLEAN /\ codecState \in CodecStates /\ codecBuffer \in BOOLEAN
          /\ phone \in {"away", "new", "idle", "streaming"}
        BY DEF CodecInv, CodecType
    <2>5. /\ channelStarted \in BOOLEAN /\ otherOpen \in BOOLEAN /\ focus \in Focus
          /\ toPhone \in Seq(Focus) /\ toServer \in Seq(Requests)
          /\ toClient \in Seq(Notifications \cup Replies)
          /\ missed \subseteq Starts /\ told \in BOOLEAN /\ unstopped \in BOOLEAN
        BY DEF Types, PhoneTypes, ClientTypes, Downstream
    <2> QED
        BY <2>1, <2>2, <2>3, <2>4, <2>5 DEF TypeOK, Starts
<1> QED
    BY <1>1, <1>2, <1>3, Typed, PTL DEF Spec

=============================================================================
