--------------------------- MODULE MessageStreams ---------------------------
(***************************************************************************)
(* What the way in of the message pipeline promises to the services: each  *)
(* channel is a stream of the messages the phone sends in a session, of    *)
(* which more and more have been received.  A message is received after    *)
(* all of it was sent, never twice, and on a sequential channel only after *)
(* those sent before it.  How messages are cut into frames, bytes and      *)
(* records, and what waits for what, is left to the implementation.        *)
(***************************************************************************)
EXTENDS Naturals, Sequences, Functions

CONSTANTS
    Channels,
    Sequential  \* the channels that keep the order of their messages

VARIABLES
    on,    \* there is a session
    sent,  \* messages the phone has sent in it, numbered from 1
    got    \* got[c]: the messages received on channel c, in that order

streamVars == <<on, sent, got>>

NothingSent == [c \in Channels |-> 0]
NothingGot == [c \in Channels |-> <<>>]

Init == on = FALSE /\ sent = NothingSent /\ got = NothingGot

Begin == ~on /\ on' = TRUE /\ sent' = NothingSent /\ got' = NothingGot

End == on /\ on' = FALSE /\ UNCHANGED <<sent, got>>

Send(c) ==
    on /\ sent' = [sent EXCEPT ![c] = @ + 1] /\ UNCHANGED <<on, got>>

\* All of r has been sent, and nothing is there twice or too early.
Legal(c, r) ==
    /\ \A i \in DOMAIN r : r[i] \in 1 .. sent[c]
    /\ IF c \in Sequential THEN \A i \in DOMAIN r : r[i] = i ELSE IsInjective(r)

\* r is q or more.
Continues(r, q) == Len(q) <= Len(r) /\ \A i \in 1 .. Len(q) : r[i] = q[i]

\* Messages of any channels are received at once.
Receive ==
    /\ on
    /\ DOMAIN got' = Channels
    /\ \A c \in Channels : Continues(got'[c], got[c]) /\ Legal(c, got'[c])
    /\ UNCHANGED <<on, sent>>

Next == Begin \/ End \/ (\E c \in Channels : Send(c)) \/ Receive

StreamSpec == Init /\ [][Next]_streamVars

=============================================================================
