--------------------------- MODULE ConnectionSlot ---------------------------
(***************************************************************************)
(* What AndroidAutoServer's connection management promises: a head unit    *)
(* has one slot for a device.  The slot is opened for a device only when   *)
(* it is free, and it is free again only after that device's link has been *)
(* closed, or could not be opened.  How requests are queued, which of them *)
(* are refused and what runs on top of the link is left to the             *)
(* implementation.                                                         *)
(***************************************************************************)
CONSTANTS Devices, NoDevice

VARIABLES
    slot,  \* the device the slot is taken by
    phase  \* how far its link is

slotVars == <<slot, phase>>

Init == slot = NoDevice /\ phase = "free"

Open(d) == phase = "free" /\ slot' = d /\ phase' = "opening"

Opened == phase = "opening" /\ phase' = "open" /\ UNCHANGED slot

OpenFailed == phase = "opening" /\ phase' = "free" /\ slot' = NoDevice

\* The link is closed, by either side, or right after it was opened because
\* nothing could be started on top of it.
Close == phase \in {"opening", "open"} /\ phase' = "closing" /\ UNCHANGED slot

Closed == phase = "closing" /\ phase' = "free" /\ slot' = NoDevice

Next ==
    \/ \E d \in Devices : Open(d)
    \/ Opened \/ OpenFailed \/ Close \/ Closed

SafeSlot == Init /\ [][Next]_slotVars

\* A link that is being opened or closed does not stay so.
SlotSpec == SafeSlot /\ WF_slotVars(Opened \/ OpenFailed \/ Closed)

=============================================================================
