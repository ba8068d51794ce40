---------------------------- MODULE TouchScreen ----------------------------
(***************************************************************************)
(* The canvas of the video as a touch screen: from the pointer events of   *)
(* the browser to what the phone knows of the fingers on its screen.       *)
(*                                                                         *)
(* The component gives each pointer that is pressed a small id of its own  *)
(* and keeps where it was last.  An event for the phone lists all of them, *)
(* and which one went down, moved or went up.  It goes over IPC, in order, *)
(* to the input service, which drops it without a session.                 *)
(***************************************************************************)
EXTENDS Integers, Sequences, SequencesExt, FiniteSets

CONSTANTS
    Pointers,  \* pointers of the browser
    Points,    \* points of the canvas; a negative coordinate is left or above it
    Throttle,  \* touchEventThrottlePixels, 0 without it
    None       \* a pointer that is not pressed; no id

ASSUME TouchAssumption ==
    /\ Points \subseteq Int \X Int /\ Throttle \in Nat
    /\ IsFiniteSet(Pointers) /\ None \notin Nat \cup Points

VARIABLES
    started,      \* the input service is started
    translation,  \* pointerTranslationMap: the id of each pointer
    positions,    \* pointerPositionMap, in the order of insertion
    where,        \* where the browser saw each pressed pointer last
    touching,     \* the fingers the phone knows of
    heard,        \* an event of this component has reached the phone
    dropped,      \* the id of the finger the last event took off by mistake
    strays        \* ids that went up off the canvas and are listed still

touchVars == <<started, translation, positions, where, touching, heard,
               dropped, strays>>

Pressed == {p \in Pointers : translation[p] # None}
Ids == 0 .. Cardinality(Pointers) - 1
Entry(id, at) == [id |-> id, at |-> at]
Entries == [id : Ids, at : Points]

TouchTypeOK ==
    /\ started \in BOOLEAN /\ heard \in BOOLEAN /\ strays \subseteq Ids
    /\ dropped \in Ids \cup {None}
    /\ translation \in [Pointers -> Ids \cup {None}]
    /\ positions \in Seq(Entries) /\ where \in [Pointers -> Points \cup {None}]
    /\ touching \subseteq Entries

TouchInit ==
    /\ started = FALSE
    /\ translation = [p \in Pointers |-> None] /\ positions = <<>>
    /\ where = [p \in Pointers |-> None]
    /\ touching = {} /\ heard = FALSE /\ dropped = None /\ strays = {}

-----------------------------------------------------------------------------
(* sendPointerEvent *)

Outside(at) == at[1] < 0 \/ at[2] < 0
Distance(m, n) == IF m < n THEN n - m ELSE m - n
Near(at, old) == \A i \in 1 .. 2 : Distance(at[i], old[i]) < Throttle

Listed(id) == \E i \in DOMAIN positions : positions[i].id = id
IndexOf(id, data) == CHOOSE i \in DOMAIN data : data[i].id = id

\* A new entry comes last, a known one stays where it is in the list.
Placed(id, at) ==
    IF Listed(id) THEN ReplaceAt(positions, IndexOf(id, positions), Entry(id, at))
    ELSE Append(positions, Entry(id, at))
Without(id) == IF Listed(id) THEN RemoveAt(positions, IndexOf(id, positions))
               ELSE positions

\* The phone takes the list as it is, less the finger that goes up.
PhoneTold(data, gone) == touching' = ToSet(IF gone = 0 \/ data = <<>> THEN data
                                           ELSE RemoveAt(data, gone))

\* The service has a session or drops the event.
SendTouchEvent(data, gone, mistaken) ==
    IF started
    THEN PhoneTold(data, gone) /\ heard' = TRUE /\ dropped' = mistaken
    ELSE heard' = FALSE /\ dropped' = None /\ UNCHANGED touching

Dropped == UNCHANGED <<positions, touching, heard, dropped, strays>>

SendPlaced(id, at) ==
    /\ positions' = Placed(id, at)
    /\ strays' = strays \ {id}
    /\ SendTouchEvent(positions', 0, None)

SendDown(id, at) == IF Outside(at) THEN Dropped ELSE SendPlaced(id, at)

SendMoved(id, at) ==
    IF \/ Outside(at)
       \/ Listed(id) /\ Near(at, positions[IndexOf(id, positions)].at)
    THEN Dropped ELSE SendPlaced(id, at)

\* The index is missing when a finger goes up that was never listed; the
\* phone reads that as the first finger of the list.
FirstDropped(id) == IF Listed(id) \/ positions = <<>> THEN None ELSE positions[1].id

\* Off the canvas nothing is sent, and the entry is kept.
SendUp(id, at) ==
    IF Outside(at)
    THEN /\ strays' = IF Listed(id) THEN strays \cup {id} ELSE strays
         /\ UNCHANGED <<positions, touching, heard, dropped>>
    ELSE /\ positions' = Without(id)
         /\ strays' = strays \ {id}
         /\ SendTouchEvent(positions, IF Listed(id) THEN IndexOf(id, positions)
                                      ELSE 1, FirstDropped(id))

-----------------------------------------------------------------------------
(* The events of the browser *)

Taken == {translation[p] : p \in Pressed}

\* Mutant: the next id is the number of those in use.
NewTranslatedPointerId_Count == Cardinality(Taken)

\* The least id that no pressed pointer has.
NewTranslatedPointerId ==
    CHOOSE n \in 0 .. Cardinality(Taken) :
        n \notin Taken /\ \A m \in 0 .. n - 1 : m \in Taken

Seen(p, at) == where' = [where EXCEPT ![p] = at]

PointerDown(p, at) ==
    /\ p \notin Pressed
    /\ Seen(p, at)
    /\ translation' = [translation EXCEPT ![p] = NewTranslatedPointerId]
    /\ SendDown(NewTranslatedPointerId, at)
    /\ UNCHANGED started

PointerMove(p, at) ==
    /\ p \in Pressed
    /\ Seen(p, at)
    /\ SendMoved(translation[p], at)
    /\ UNCHANGED <<started, translation>>

\* It goes up, leaves the canvas, or is cancelled.
PointerUp(p, at) ==
    /\ p \in Pressed
    /\ Seen(p, None)
    /\ SendUp(translation[p], at)
    /\ translation' = [translation EXCEPT ![p] = None]
    /\ UNCHANGED started

\* The component goes, with what it knows, and another one comes.
Remount ==
    /\ translation' = [p \in Pointers |-> None]
    /\ where' = [p \in Pointers |-> None]
    /\ positions' = <<>> /\ strays' = {} /\ heard' = FALSE /\ dropped' = None
    /\ UNCHANGED <<started, touching>>

\* A session begins or ends: the phone knows of no fingers.
SessionChanges ==
    /\ started' = ~started
    /\ touching' = {} /\ heard' = FALSE /\ dropped' = None
    /\ UNCHANGED <<translation, positions, where, strays>>

TouchNext ==
    \/ \E p \in Pointers, at \in Points :
          PointerDown(p, at) \/ PointerMove(p, at) \/ PointerUp(p, at)
    \/ Remount
    \/ SessionChanges

TouchSpec == TouchInit /\ [][TouchNext]_touchVars

-----------------------------------------------------------------------------
(* Property *)

\* Once an event of the component has reached the phone, the phone knows each
\* finger on the canvas where it is, to the throttle, and no finger that is
\* not pressed.  Two exceptions, both of pointers that cross the edge of the
\* canvas: of a finger that went up off it the phone is not told, whatever
\* events follow, until its id is used again (`strays`); and when a pointer that
\* was never on the list goes up on the canvas, the phone takes off the first
\* finger of the list, and has it back with the next event (`dropped`).
TouchesFollowPointers ==
    heard =>
        /\ \A p \in Pressed :
              \/ Outside(where[p]) \/ translation[p] = dropped
              \/ \E t \in touching :
                    /\ t.id = translation[p]
                    /\ t.at = where[p] \/ Near(where[p], t.at)
        /\ \A t \in touching :
              \/ t.id \in strays
              \/ \E p \in Pressed : t.id = translation[p]
        /\ Cardinality({t.id : t \in touching}) = Cardinality(touching)
=============================================================================
