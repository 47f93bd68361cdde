------------------------------ MODULE ReadStream ------------------------------
(***************************************************************************)
(* The multishot reads of several connections, which share the buffers of  *)
(* one BufferRing: what the buffers contain, and what onRead callbacks are *)
(* shown of it.                                                            *)
(***************************************************************************)
EXTENDS BufferRing, Selection

CONSTANTS
  Peer,  \* connections that read
  Data,  \* what fits into one buffer
  NULL

ASSUME RSAssumption == NULL \notin Data \cup [peer : Peer, data : Data]

VARIABLES
  buffers,  \* contents of the buffers of EventLoop
  peers     \* whose request each of the waiting completions belongs to

rsvars == <<brvars, buffers, peers>>

RSInit ==
  /\ BRInit
  /\ buffers = [id \in BufferId |-> NULL]
  /\ peers = <<>>

\* The kernel completes the multishot read of c; it fills the buffer it has
\* selected with the next bytes of the stream.
ReadMultishot(c, res, flags) ==
  /\ Complete(res, flags)
  /\ peers' = Append(peers, c)
  /\ IF res = 1
       THEN \E d \in Data : buffers' = [buffers EXCEPT ![Select] = d]
       ELSE UNCHANGED buffers

\* Mutant of OnRead: the buffer is given back before the callback.
OnReadReleasing ==
  /\ completions # <<>> /\ ~serving /\ serving' = TRUE
  /\ IF Shown(Head(completions))
       THEN ReleaseBuffer(Head(completions).flags)
       ELSE UNCHANGED <<registered, slots, khead, tail>>
  /\ UNCHANGED <<completions, spurious, buffers, peers>>

\* The callback of onRead (of onError for an error) begins ...
OnRead == Serve /\ UNCHANGED <<buffers, peers>>

\* ... and returns: the buffer is given back.
OnReadReturns == Served /\ peers' = Tail(peers) /\ UNCHANGED buffers

RSNext ==
  \/ \E c \in Peer, res \in {-1, 0, 1}, flags \in BufferFlags : ReadMultishot(c, res, flags)
  \/ OnRead
  \/ OnReadReturns

RSSpec == RSInit /\ [][RSNext]_rsvars

-----------------------------------------------------------------------------

\* ReadEvent::bytes_read of completion i: the first res bytes of the buffer.
BytesRead(i) == IF completions[i].res = 1 THEN buffers[completions[i].flags.id] ELSE NULL

\* What the callback of completion i is shown, and of whom.
Chunk(i) == [peer |-> peers[i], data |-> BytesRead(i)]

\* The completions whose callback has not begun; of these, the bytes of c.
Later ==
  LET all == [i \in 1..Len(completions) |-> Chunk(i)]
  IN  IF serving THEN Tail(all) ELSE all
DataOf(chunks) == [n \in 1..Len(chunks) |-> chunks[n].data]
Unread(c) == DataOf(Filter(Later, [peer : {c}, data : Data]))

View == IF serving /\ Shown(completions[1]) /\ completions[1].res = 1 THEN Chunk(1) ELSE NULL

Stream == INSTANCE ByteStream WITH unread <- [c \in Peer |-> Unread(c)], view <- View

(* The connections that share the ring read as if each had a stream of its  *)
(* own: in order, without loss or mixture, and a buffer does not change     *)
(* while onRead runs.  Holds until an end of file has been released.        *)
ReadsStream ==
  /\ Stream!BSInit
  /\ [][~spurious' => UNCHANGED <<[c \in Peer |-> Unread(c)], View>> \/ Stream!BSNext]_rsvars
=============================================================================
