------------------------------ MODULE BufferRing ------------------------------
(***************************************************************************)
(* ringnet::uring::BufferRing, the buffers the application provides to the *)
(* kernel for multishot reads, and the kernel's side of that ring.  The    *)
(* kernel fills the buffer at its head and names it in the completion; the *)
(* event loop hands a view of it to the subscriber, then release() puts it *)
(* back at the tail.                                                       *)
(***************************************************************************)
EXTENDS Integers, Sequences

CONSTANTS
  NBuffers,       \* buffers.size()
  TailMod,        \* head and tail are 16 bits wide: 2^16 in the code
  MaxCompletions  \* bound: completions of multishot reads waiting to be seen

ASSUME BRAssumption ==
  /\ NBuffers \in Nat \ {0}
  /\ TailMod \in Nat /\ NBuffers < TailMod /\ TailMod % NBuffers = 0
  /\ MaxCompletions \in Nat

VARIABLES
  registered,  \* buffer_ring # nullptr
  slots,       \* buffer ID in each entry of the ring
  khead,       \* the kernel's head
  tail,        \* the tail, written by io_uring_buf_ring_advance
  completions, \* completions of multishot reads, oldest first
  serving,     \* the event loop is handling the oldest one
  spurious     \* history: release() has been called on a completion that
               \* carries no buffer

brvars == <<registered, slots, khead, tail, completions, serving, spurious>>

BufferId == 0 .. NBuffers - 1
Index    == 0 .. TailMod - 1

\* cqe->flags: IORING_CQE_F_BUFFER and the bits above IORING_CQE_BUFFER_SHIFT.
BufferFlags == [buffer : BOOLEAN, id : BufferId]
NoBuffer    == [buffer |-> FALSE, id |-> 0]
Completion  == [res : {-1, 0, 1}, flags : BufferFlags]

BRTypeOK ==
  /\ registered \in BOOLEAN
  /\ slots \in [BufferId -> BufferId]
  /\ khead \in Index /\ tail \in Index
  /\ completions \in Seq(Completion)
  /\ serving \in BOOLEAN /\ (serving => completions # <<>>)
  /\ spurious \in BOOLEAN

\* After the constructor of EventLoop: setupBuffers has added every buffer,
\* or io_uring_setup_buf_ring has failed.
BRInit ==
  /\ registered \in BOOLEAN
  /\ slots = [i \in BufferId |-> i]
  /\ khead = 0
  /\ tail = IF registered THEN NBuffers ELSE 0
  /\ completions = <<>> /\ serving = FALSE /\ spurious = FALSE

-----------------------------------------------------------------------------
(* The kernel.                                                             *)

\* There is a buffer to select.
Available == registered /\ khead # tail

\* The kernel uses up the buffer at the head.
Select == slots[khead % NBuffers]
Selected ==
  /\ khead' = (khead + 1) % TailMod
  /\ UNCHANGED <<registered, slots, tail>>

\* What a multishot read can come back with: data in the selected buffer, end
\* of file (the selected buffer is put back), or an error.
Outcome(res, flags) ==
  \/ Available /\ res = 1 /\ flags = [buffer |-> TRUE, id |-> Select]
  \/ Available /\ res = 0 /\ flags = NoBuffer
  \/ res = -1 /\ flags = NoBuffer

Complete(res, flags) ==
  /\ Len(completions) < MaxCompletions
  /\ Outcome(res, flags)
  /\ IF flags.buffer THEN Selected ELSE UNCHANGED <<registered, slots, khead, tail>>
  /\ completions' = Append(completions, [res |-> res, flags |-> flags])
  /\ UNCHANGED <<serving, spurious>>

-----------------------------------------------------------------------------
(* The event loop.                                                         *)

\* Mutant of Get: the lower bound of the ID is off by one.
GetPositive(flags) == flags.id \in BufferId \ {0}

\* get(): `flags | IORING_CQE_F_BUFFER' is never 0, only the ID is checked.
Get(flags) == flags.id \in BufferId

\* Mutant of ReleaseBuffer: the tail does not wrap around.
ReleaseWide(flags) ==
  /\ slots' = [slots EXCEPT ![tail % NBuffers] = flags.id]
  /\ tail' = tail + 1
  /\ UNCHANGED <<registered, khead>>

\* Mutant of ReleaseBuffer: the entry written is one past the tail.
ReleaseAhead(flags) ==
  /\ slots' = [slots EXCEPT ![(tail + 1) % NBuffers] = flags.id]
  /\ tail' = (tail + 1) % TailMod
  /\ UNCHANGED <<registered, khead>>

\* release(), whose test is the same: io_uring_buf_ring_add at the tail, then
\* io_uring_buf_ring_advance by one.
ReleaseBuffer(flags) ==
  /\ slots' = [slots EXCEPT ![tail % NBuffers] = flags.id]
  /\ tail' = (tail + 1) % TailMod
  /\ UNCHANGED <<registered, khead>>

\* The loop comes to the oldest completion.
Serve ==
  /\ completions # <<>> /\ ~serving
  /\ serving' = TRUE
  /\ UNCHANGED <<registered, slots, khead, tail, completions, spurious>>

\* Mutant of Shown: negative results are not set apart.
ShownAlways(c) == Get(c.flags)

\* A subscriber is shown a buffer: not for a negative result.
Shown(c) == c.res >= 0 /\ Get(c.flags)

\* The subscriber has returned.
Served ==
  /\ serving
  /\ LET c == Head(completions) IN
       IF Shown(c)
         THEN ReleaseBuffer(c.flags) /\ spurious' = (spurious \/ ~c.flags.buffer)
         ELSE UNCHANGED <<registered, slots, khead, tail, spurious>>
  /\ completions' = Tail(completions)
  /\ serving' = FALSE

BRNext ==
  \/ \E res \in {-1, 0, 1}, flags \in BufferFlags : Complete(res, flags)
  \/ Serve
  \/ Served

BRSpec == BRInit /\ [][BRNext]_brvars

-----------------------------------------------------------------------------

\* How many entries the kernel sees, and the buffers in them.
Depth  == (tail - khead) % TailMod
Window == {(khead + i) % NBuffers : i \in 0 .. Depth - 1}

\* The completions that carry a buffer nobody has given back yet.
Carriers == {i \in 1..Len(completions) : completions[i].flags.buffer}

(* The kernel never fills a buffer a subscriber is reading or is about to   *)
(* read, nor offers it twice: a buffer is in one entry of the ring or in    *)
(* one unreleased completion.  Holds until an end of file has been          *)
(* released.                                                                *)
OneOwner ==
  ~spurious /\ registered =>
    /\ Depth <= NBuffers
    /\ \A i, j \in Window : slots[i] = slots[j] => i = j
    /\ \A i, j \in Carriers :
         completions[i].flags.id = completions[j].flags.id => i = j
    /\ \A i \in Window, j \in Carriers : slots[i] # completions[j].flags.id

(* No buffer is lost either: each one is in the ring or in a completion that *)
(* the loop still has to release.                                           *)
NoBufferLost ==
  ~spurious /\ registered =>
    \A id \in BufferId :
      \/ \E i \in Window : slots[i] = id
      \/ \E j \in Carriers : completions[j].flags.id = id

(* get() and release() are never reached without a ring, which release()    *)
(* would dereference: every completion of a multishot read is then an error. *)
RingBeforeBuffers == ~registered => \A i \in 1..Len(completions) : ~Shown(completions[i])

(* get() and release() test for IORING_CQE_F_BUFFER so that a completion      *)
(* without a buffer gives none back: the ring never offers a buffer twice.  *)
OfferedOnce == \A i, j \in Window : slots[i] = slots[j] => i = j
=============================================================================
