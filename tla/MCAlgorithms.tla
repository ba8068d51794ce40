---------------------------- MODULE MCAlgorithms ----------------------------
(***************************************************************************)
(* The parts that run by themselves against what they promise: a pure      *)
(* algorithm is given an input of a bounded set and its result is looked   *)
(* at, and the touch screen is given events without end.                   *)
(***************************************************************************)
EXTENDS VideoResolutions, ConfigVariables, FrameWire, TouchScreen

CONSTANTS
    Displays,     \* sizes of displays
    Densities,    \* densities of displays
    MaxConfigs,   \* resolution configs
    MaxTokens,    \* tokens of a template
    MaxMessage    \* bytes of a message of the phone

VARIABLES task, result
vars == <<task, result, touchVars>>

Pending == [kind |-> "pending"]

\* Smaller than every resolution, equal to one, between two, upright, square,
\* and larger than every resolution in one dimension or in both.
SomeDisplays == {<<640, 400>>, <<1280, 720>>, <<1024, 600>>, <<800, 1280>>,
                 <<1000, 1000>>, <<4000, 500>>, <<4000, 4000>>}

\* Left of the canvas, and points of it that are and are not close.
SomePoints == {<<-1, 0>>, <<0, 0>>, <<0, 1>>, <<3, 1>>}

-----------------------------------------------------------------------------
(* The inputs *)

\* Lists of resolution configs in any order: one resolution may be there in
\* two formats, which need not be next to each other, or be there twice.
ResolutionConfigs == {[resolution |-> r, format |-> f] :
                          r \in Resolutions, f \in {"h264", "vp9"}}
VideoTasks ==
    [kind : {"video"}, display : Displays, density : Densities,
     configs : UNION {[1 .. n -> ResolutionConfigs] : n \in 1 .. MaxConfigs}]

\* Variables: a text, one with a marker in it, texts with the pairs that have
\* a meaning in a replacement string, an object and none.
Names == {"A", "B"}
Tokens == {Word("w")} \cup {Marker(n) : n \in Names}
VariableValues ==
    {Text(<<Word("a")>>), Text(<<Word("b"), Marker("B")>>),
     Text(<<Word("a"), Word("$$")>>),
     Text(<<Word("$`"), Word("$&"), Word("$'")>>),
     List(<<Replace("A")>>), Null}
Leaves == {Text(<<Word("w"), Marker("A")>>)}
              \cup {Template(ts) : ts \in BoundedSeq(Tokens, MaxTokens)}
              \cup {Replace(n) : n \in Names}
Files ==
    [kind : {"file"},
     config : {List(<<l, List(<<m>>)>>) : l \in Leaves, m \in Leaves},
     variables : [Names -> VariableValues] \cup {<<>>}]

\* Messages of a service, and messages of the phone in chunks: the frames
\* of two services may alternate, and the bytes are cut at two places.
Message(s, n) == [service |-> s, payload |-> [i \in 1 .. n |-> s * 10 + i]]
Sends == [kind : {"send"}, message : {Message(1, n) : n \in 1 .. MaxMessage}]
FrameBytes(m) == [i \in DOMAIN Split(m) |-> Bytes(Split(m)[i])]
WireOf(m1, m2, alternate) ==
    LET a == FrameBytes(m1)
        b == FrameBytes(m2)
    IN  FlattenSeq(IF alternate THEN FlattenSeq(Interleave(a, b)) ELSE a \o b)
Cuts(m1, m2, alternate) ==
    LET bs == WireOf(m1, m2, alternate)
        n == Len(bs)
        Cut(i, j) == <<SubSeq(bs, 1, i), SubSeq(bs, i + 1, j), SubSeq(bs, j + 1, n)>>
    IN  {Cut(c[1], c[2]) : c \in {c \in (0 .. n) \X (0 .. n) : c[1] <= c[2]}}
Alternations(m1, m2) ==
    IF m1.service # m2.service /\ Len(Split(m1)) = Len(Split(m2))
    THEN BOOLEAN ELSE {FALSE}
Receives ==
    UNION {UNION {{[kind |-> "receive", messages |-> <<m1, m2>>, chunks |-> cs] :
                       cs \in Cuts(m1, m2, alternate)} :
                  alternate \in Alternations(m1, m2)} :
           m1 \in {Message(1, n) : n \in 1 .. MaxMessage},
           m2 \in {Message(s, n) : s \in 1 .. 2, n \in 1 .. MaxMessage}}

-----------------------------------------------------------------------------
Init == /\ task \in VideoTasks \cup Files \cup Sends \cup Receives
                       \cup {[kind |-> "touch"]}
        /\ result = Pending
        /\ TouchInit

Computed(kind, value) ==
    /\ result = Pending /\ task.kind = kind
    /\ result' = [kind |-> "done", value |-> value]
    /\ UNCHANGED <<task, touchVars>>

OfferVideo ==
    Computed("video", VideoConfigs(task.display, task.density, task.configs))
Load == Computed("file", LoadConfig(task))
Send == Computed("send", SendMessage(task.message))
Take == Computed("receive", ReceiveChunks(task.chunks))

Touch == /\ task.kind = "touch" /\ TouchNext
         /\ UNCHANGED <<task, result>>

Next == OfferVideo \/ Load \/ Send \/ Take \/ Touch

Spec == Init /\ [][Next]_vars

-----------------------------------------------------------------------------
(* Properties *)

Done(kind) == task.kind = kind /\ result.kind = "done"

\* What the phone is offered fits the display (VideoResolutions).
VideoConfigsFit ==
    Done("video") =>
        ConfigsFit(task.display, task.density, task.configs, result.value)

\* Each marker of a template is the text of its variable and each replaced
\* string the value of its variable, be it an object; nothing else changes, and
\* loading fails exactly when a variable that is used is missing or has no text
\* to be put in.  A file without variables is taken as it is.  Two exceptions:
\* $$ in a variable's text comes out of a template as $, and nothing is said of
\* a template that uses a text with a marker in it, or with one of the other
\* pairs that have a meaning in a replacement string.
Used(value) ==
    CASE value.kind = "template" -> {t.word : t \in ToSet(Markers(value.tokens))}
      [] value.kind = "replace" -> {value.name}
      [] OTHER -> {}
Missing(value, variables) ==
    \E n \in Used(value) :
        \/ variables[n] = Null
        \/ value.kind = "template" /\ variables[n].kind # "text"
PlainToken(t) == ~t.marker /\ t.word \notin {"$&", "$`", "$'"}
Plain(value, variables) ==
    value.kind = "template" =>
        \A n \in Used(value) : \A t \in ToSet(variables[n].tokens) : PlainToken(t)
Unescaped(t) == IF t = Word("$$") THEN Word("$") ELSE t
TokensFor(t, variables) ==
    IF ~t.marker THEN <<t>>
    ELSE [i \in DOMAIN variables[t.word].tokens |->
              Unescaped(variables[t.word].tokens[i])]
Substituted(value, variables) ==
    CASE value.kind = "template" ->
            Text(FlattenSeq([i \in DOMAIN value.tokens |->
                                 TokensFor(value.tokens[i], variables)]))
      [] value.kind = "replace" -> variables[value.name]
      [] OTHER -> value
FilledIn(value, filled, variables) ==
    Plain(value, variables) => filled = Substituted(value, variables)
ConfigFilledIn ==
    Done("file") =>
        LET variables == task.variables
            first == task.config.items[1]
            second == task.config.items[2].items[1]
        IN  IF variables = <<>> THEN result.value = task.config
            ELSE IF Missing(first, variables) \/ Missing(second, variables)
                 THEN result.value = Failed
            ELSE /\ result.value # Failed
                 /\ FilledIn(first, result.value.items[1], variables)
                 /\ FilledIn(second, result.value.items[2].items[1], variables)

\* Wherever the bytes of the phone are cut, they become its messages again.
\* A message the server sends that fits a frame is received as it was sent;
\* of a longer one the phone gets everything but its beginning, frames that
\* continue a message it has never seen the start of.
FramesRoundTrip ==
    /\ Done("receive") =>
           result.value = [rest |-> <<>>, open |-> Idle,
                           messages |-> task.messages]
    /\ Done("send") =>
           LET frames == result.value
               n == Len(task.message.payload)
           IN  IF n <= MaxPayload
               THEN ReceiveChunks(frames).messages = <<task.message>>
               ELSE \A i \in DOMAIN frames :
                       /\ DecodeBuffer(frames[i]).rest = <<>>
                       /\ ~DecodeBuffer(frames[i]).frames[1].first
=============================================================================
