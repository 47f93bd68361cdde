------------------------------ MODULE ByteStream ------------------------------
(***************************************************************************)
(* What the subscriber of a connection is promised of the bytes its peer   *)
(* sends: they are shown to it in the order they were received, none of    *)
(* them lost, repeated or mixed with those of another peer, and what it is *)
(* shown does not change while it looks.                                   *)
(***************************************************************************)
EXTENDS Sequences

CONSTANTS Peer, Data, NULL

VARIABLES
  unread, \* what the kernel has received from each peer, not yet shown
  view    \* what a subscriber is being shown

BSInit ==
  /\ unread = [c \in Peer |-> <<>>]
  /\ view = NULL

Received(c, d) ==
  /\ unread' = [unread EXCEPT ![c] = Append(@, d)]
  /\ UNCHANGED view

Show(c) ==
  /\ view = NULL /\ unread[c] # <<>>
  /\ view' = [peer |-> c, data |-> Head(unread[c])]
  /\ unread' = [unread EXCEPT ![c] = Tail(@)]

Taken ==
  /\ view # NULL /\ view' = NULL
  /\ UNCHANGED unread

BSNext ==
  \/ \E c \in Peer, d \in Data : Received(c, d)
  \/ \E c \in Peer : Show(c)
  \/ Taken

BSSpec == BSInit /\ [][BSNext]_<<unread, view>>
=============================================================================
