--------------------------- MODULE SubmissionQueue ---------------------------
(***************************************************************************)
(* ringnet::uring::SubmissionQueue, the wrapper around the two io_uring    *)
(* rings, together with the part of liburing and of the kernel that it     *)
(* drives.  A request is copied to a block of the request pool, waits in a *)
(* vector of pending requests, is prepared into a submission queue entry   *)
(* (SQE), consumed by the kernel, and comes back as one or several         *)
(* completion queue entries (CQE) whose user_data is the address of the    *)
(* block.                                                                  *)
(*                                                                         *)
(* All calls are made by one thread (the one that runs the event loop, its *)
(* callbacks included); the kernel runs concurrently with it.  The steps   *)
(* of that thread are cut where the kernel can interleave or refuse.       *)
(***************************************************************************)
EXTENDS Selection

CONSTANTS
  Block,       \* addresses the request pool can hand out
  Subscriber,  \* addresses of the event handlers stored in the headers; NULL
               \* is one of them if requests are added without a subscriber
  Kreq,        \* request structures the kernel can have in flight
  NULL,        \* the null pointer, and an unused Kreq
  SqEntries,   \* number of SQEs of the submission ring
  CqEntries,   \* number of CQEs of the completion ring
  Result,      \* values of cqe->res
  Flags,       \* values of cqe->flags other than IORING_CQE_F_MORE
  PushedOps,   \* operations the application requests
  MaxCancels,  \* bound: how many times the application calls cancel()
  Refuses      \* may io_uring_enter leave SQEs unconsumed?

\* enum class Operation
Operation == {"ACCEPT", "CONNECT", "READ", "READ_MULTISHOT", "WRITE"}

MultiShot == {"ACCEPT", "READ_MULTISHOT"}

\* The vectors of PendingRequests that std::apply visits before that of op.
Before(op) == CASE op = "ACCEPT"         -> {}
                [] op = "CONNECT"        -> {"ACCEPT"}
                [] op = "READ"           -> {"ACCEPT", "CONNECT"}
                [] op = "READ_MULTISHOT" -> {"ACCEPT", "CONNECT", "READ"}
                [] op = "WRITE"          -> Operation \ {"WRITE"}

\* RequestHeader: the operation and the subscriber; the rest is payload.
Request == [op : Operation, sub : Subscriber]

(* The req of an SQE, an in-flight operation or a CQE is what the kernel   *)
(* was asked to do, NULL being a cancellation.  The code does not find it  *)
(* in a completion: it reads the block user_data points to.                *)
Sqe == [req : Request \cup {NULL}, user : Block \cup {NULL}]
Cqe == [req : Request \cup {NULL}, user : Block \cup {NULL},
        res : Result, flags : Flags, more : BOOLEAN]

ASSUME SQAssumption ==
  /\ NULL \notin Block /\ NULL \notin Request /\ NULL \notin Sqe
  /\ SqEntries \in Nat \ {0} /\ CqEntries \in Nat \ {0}
  /\ Result \subseteq Int
  /\ PushedOps \subseteq Operation
  /\ MaxCancels \in Nat /\ Refuses \in BOOLEAN

VARIABLES
  pool,     \* blocks currently allocated from request_pool
  mem,      \* what each block holds; deallocation leaves it in place (the pool
            \* of libstdc++ keeps its free list outside the blocks)
  pending,  \* pending_requests: one vector of blocks per type of request
  sq,       \* SQEs obtained by io_uring_get_sqe and not yet consumed
  sqFree,   \* user_data left in the vacant SQE slots, next one to be used first
  inflight, \* operations the kernel has accepted and not finished
  cq,       \* CQEs posted and not yet acknowledged by io_uring_cq_advance
  visible,  \* how many of them are in the ring, the others being on the
            \* kernel's overflow list
  seen,     \* `processed' of forEachCompletion
  count,    \* `pending_requests_count' of preparePendingRequests
  status,   \* what the last submit() returned
  pc,       \* where the calling thread is
  caller,   \* where getNewSubmissionQueueEntry returns to
  cancels,  \* how many times cancel() has been called
  lost,     \* history: blocks whose preparation returned QUEUE_FULL
  cancelled \* history: release() has been called on the CQE of a cancel()

callVars == <<count, status, pc, caller>>
histVars == <<cancels, lost, cancelled>>
ringVars == <<sq, sqFree, inflight>>
cqVars   == <<cq, visible, seen>>
sqvars   == <<pool, mem, pending, ringVars, cqVars, callVars, histVars>>

Status  == {"OK", "AGAIN", "ERROR"}
Place   == {"idle", "prepare", "flush", "enter", "reap", "callback",
            "advance", "crashed"}

SQTypeOK ==
  /\ pool \subseteq Block
  /\ mem \in [Block -> Request \cup {NULL}]
  /\ pending \in [Operation -> Seq(Block)]
  /\ sq \in Seq(Sqe)
  /\ sqFree \in Seq(Block \cup {NULL})
  /\ inflight \in [Kreq -> Sqe \cup {NULL}]
  /\ cq \in Seq(Cqe)
  /\ visible \in 0..Len(cq) /\ visible <= CqEntries
  /\ seen \in 0..visible
  /\ count \in Nat
  /\ status \in Status
  /\ pc \in Place
  /\ caller \in {"idle", "prepare", "callback"}
  /\ cancels \in Nat
  /\ lost \subseteq Block
  /\ cancelled \in BOOLEAN

SQInit ==
  /\ pool = {}
  /\ mem = [b \in Block |-> NULL]
  /\ pending = [o \in Operation |-> <<>>]
  /\ sq = <<>>
  /\ sqFree = [i \in 1..SqEntries |-> NULL]
  /\ inflight = [k \in Kreq |-> NULL]
  /\ cq = <<>> /\ visible = 0 /\ seen = 0
  /\ count = 0 /\ status = "AGAIN"
  /\ pc = "idle" /\ caller = "idle"
  /\ cancels = 0 /\ lost = {} /\ cancelled = FALSE

-----------------------------------------------------------------------------
(* Calls of the application.                                               *)

\* push(): a block of the pool receives the request, its address is appended
\* to the vector of its type.  The pool is bounded by Block.
Push(op, s) ==
  /\ pc \in {"idle", "callback"}
  /\ \E b \in Block \ pool :
       /\ pool' = pool \cup {b}
       /\ mem' = [mem EXCEPT ![b] = [op |-> op, sub |-> s]]
       /\ pending' = [pending EXCEPT ![op] = Append(@, b)]
  /\ UNCHANGED <<ringVars, cqVars, callVars, histVars>>

\* An SQE is taken from the vacant slots and filled.
FillSqe(req, user) ==
  /\ sqFree # <<>>
  /\ sq' = Append(sq, [req |-> req, user |-> user])
  /\ sqFree' = Tail(sqFree)
  /\ UNCHANGED inflight

\* cancel(): io_uring_prep_cancel_fd leaves the user_data of the slot as it
\* was.  Without a vacant slot the SQEs are submitted first.
Cancel ==
  /\ cancels < MaxCancels /\ cancels' = cancels + 1
  /\ pc \in {"idle", "callback"}
  /\ \/ /\ FillSqe(NULL, Head(sqFree))
        /\ UNCHANGED callVars
     \/ /\ sqFree = <<>>
        /\ pc' = "flush" /\ caller' = pc
        /\ UNCHANGED <<ringVars, count, status>>
  /\ UNCHANGED <<pool, mem, pending, cqVars, lost, cancelled>>

-----------------------------------------------------------------------------
(* submit(): preparePendingRequests, then io_uring_submit_and_wait_timeout. *)

Submit ==
  /\ pc = "idle"
  /\ pc' = "prepare" /\ count' = 0
  /\ UNCHANGED <<pool, mem, pending, ringVars, cqVars, status, caller, histVars>>

\* The vector for_each is visiting.
Visiting(op) ==
  /\ pending[op] # <<>>
  /\ \A o \in Before(op) : pending[o] = <<>>

\* Mutant of Prepare: the vector is not cleared.
PrepareKeeping(op) ==
  /\ pc = "prepare" /\ Visiting(op)
  /\ FillSqe(mem[Head(pending[op])], Head(pending[op]))
  /\ count' = count + 1
  /\ UNCHANGED <<pool, mem, pending, cqVars, status, pc, caller, histVars>>

\* Mutant of Prepare: user_data is the address of the last pending request.
PrepareLast(op) ==
  /\ pc = "prepare" /\ Visiting(op)
  /\ FillSqe(mem[Head(pending[op])], pending[op][Len(pending[op])])
  /\ pending' = [pending EXCEPT ![op] = Tail(@)]
  /\ count' = count + 1
  /\ UNCHANGED <<pool, mem, cqVars, status, pc, caller, histVars>>

\* prepare() of the next pending request, with an SQE at hand.
Prepare(op) ==
  /\ pc = "prepare" /\ Visiting(op)
  /\ FillSqe(mem[Head(pending[op])], Head(pending[op]))
  /\ pending' = [pending EXCEPT ![op] = Tail(@)]
  /\ count' = count + 1
  /\ UNCHANGED <<pool, mem, cqVars, status, pc, caller, histVars>>

\* prepare() finds no vacant SQE: getNewSubmissionQueueEntry submits.
PrepareFull(op) ==
  /\ pc = "prepare" /\ Visiting(op) /\ sqFree = <<>>
  /\ pc' = "flush" /\ caller' = "prepare"
  /\ UNCHANGED <<pool, mem, pending, ringVars, cqVars, count, status, histVars>>

\* Mutant of Prepared: one prepared request is taken for none.
PreparedOffByOne ==
  /\ pc = "prepare"
  /\ \A o \in Operation : pending[o] = <<>>
  /\ \/ count <= 1 /\ pc' = "idle" /\ status' = "AGAIN"
     \/ count > 1 /\ pc' = "enter" /\ UNCHANGED status
  /\ UNCHANGED <<pool, mem, pending, ringVars, cqVars, count, caller, histVars>>

\* All the vectors have been visited and are cleared.
Prepared ==
  /\ pc = "prepare"
  /\ \A o \in Operation : pending[o] = <<>>
  /\ \/ count = 0 /\ pc' = "idle" /\ status' = "AGAIN"
     \/ count # 0 /\ pc' = "enter" /\ UNCHANGED status
  /\ UNCHANGED <<pool, mem, pending, ringVars, cqVars, count, caller, histVars>>

\* Inside io_uring_enter: the kernel consumes the oldest SQE.  Its slot is
\* vacant again, with its user_data still in it.
Consume(k) ==
  /\ pc \in {"flush", "enter"}
  /\ sq # <<>> /\ inflight[k] = NULL
  /\ inflight' = [inflight EXCEPT ![k] = Head(sq)]
  /\ sq' = Tail(sq)
  /\ sqFree' = Append(sqFree, Head(sq).user)
  /\ UNCHANGED <<pool, mem, pending, cqVars, callVars, histVars>>

\* Inside io_uring_enter: CQEs leave the overflow list while there is room.
FlushOverflow ==
  /\ pc \in {"flush", "enter"}
  /\ visible < Len(cq) /\ visible < CqEntries
  /\ visible' = visible + 1
  /\ UNCHANGED <<pool, mem, pending, ringVars, cq, seen, callVars, histVars>>

\* io_uring_enter stops consuming: nothing is left, the kernel is out of
\* request structures, or it fails for a reason of its own.
EnterStops ==
  \/ sq = <<>>
  \/ \A k \in Kreq : inflight[k] # NULL
  \/ Refuses

\* io_uring_submit_and_wait_timeout returns: a completion or the timeout
\* (SubmitStatus OK or one of those of shouldContinueSubmitting), or an error.
EndEnter ==
  /\ pc = "enter" /\ EnterStops
  /\ pc' = "idle"
  /\ status' \in IF sq = <<>> THEN {"OK", "AGAIN"} ELSE Status
  /\ UNCHANGED <<pool, mem, pending, ringVars, cqVars, count, caller, histVars>>

\* Mutant of Retry: a request without SQE goes back to the end of its vector.
RetryRequeue(op) ==
  /\ pc = "flush" /\ caller = "prepare" /\ EnterStops /\ Visiting(op)
  /\ pc' = "prepare"
  /\ pending' = IF sqFree = <<>>
                  THEN [pending EXCEPT ![op] = Append(Tail(@), Head(@))] ELSE pending
  /\ UNCHANGED <<pool, mem, ringVars, cqVars, count, status, caller, histVars>>

\* io_uring_submit returned inside prepare(): second try to get an SQE, made
\* by Prepare if there is one.  Otherwise prepare() returns QUEUE_FULL, the
\* request is counted and cleared with the others.
Retry(op) ==
  /\ pc = "flush" /\ caller = "prepare" /\ EnterStops /\ Visiting(op)
  /\ pc' = "prepare"
  /\ \/ /\ sqFree # <<>>
        /\ UNCHANGED <<pending, count, lost>>
     \/ /\ sqFree = <<>>
        /\ pending' = [pending EXCEPT ![op] = Tail(@)]
        /\ count' = count + 1
        /\ lost' = lost \cup {Head(pending[op])}
  /\ UNCHANGED <<pool, mem, ringVars, cqVars, status, caller, cancels, cancelled>>

\* io_uring_submit returned inside cancel(): second try; without an SQE the
\* cancellation is given up.
RetryCancel ==
  /\ pc = "flush" /\ caller # "prepare" /\ EnterStops
  /\ pc' = caller
  /\ \/ FillSqe(NULL, Head(sqFree))
     \/ sqFree = <<>> /\ UNCHANGED ringVars
  /\ UNCHANGED <<pool, mem, pending, cqVars, count, status, caller, histVars>>

-----------------------------------------------------------------------------
(* The kernel finishes operations at any time.                             *)

Alive == pc # "crashed"

\* A CQE goes to the ring if there is room and nothing on the overflow list.
Room == visible = Len(cq) /\ visible < CqEntries

\* A multishot operation that succeeds stays armed (IORING_CQE_F_MORE) unless
\* the kernel ends it, as it must when its CQE overflows.
Post(k, res, flags, more) ==
  /\ Alive /\ inflight[k] # NULL
  /\ more => inflight[k].req # NULL /\ inflight[k].req.op \in MultiShot /\ res >= 0 /\ Room
  /\ cq' = Append(cq, [req |-> inflight[k].req, user |-> inflight[k].user,
                       res |-> res, flags |-> flags, more |-> more])
  /\ visible' = IF Room THEN visible + 1 ELSE visible
  /\ inflight' = IF more THEN inflight ELSE [inflight EXCEPT ![k] = NULL]
  /\ UNCHANGED <<pool, mem, pending, sq, sqFree, seen, callVars, histVars>>

-----------------------------------------------------------------------------
(* forEachCompletion().                                                    *)

Reap ==
  /\ pc = "idle"
  /\ pc' = "reap"
  /\ UNCHANGED <<pool, mem, pending, ringVars, cqVars, count, status, caller, histVars>>

\* The CQE function(cqe) is applied to.
Current == cq[seen + 1]

\* The head of io_uring_for_each_cqe differs from the tail, read anew.
Take ==
  /\ pc = "reap" /\ seen < visible
  /\ pc' = "callback"
  /\ UNCHANGED <<pool, mem, pending, ringVars, cqVars, count, status, caller, histVars>>

\* header->valid() of a block: it has held a request.
Valid(b) == mem[b] # NULL

\* Mutant of Release: multishot requests are deallocated like the others.
ReleaseAll ==
  /\ pc = "callback"
  /\ cancelled' = (cancelled \/ Current.req = NULL)
  /\ pool' = pool \ {Current.user}
  /\ seen' = seen + 1
  /\ pc' = "reap"
  /\ UNCHANGED <<mem, pending, ringVars, cq, visible, count, status, caller, cancels, lost>>

\* Mutant of Release: each CQE is acknowledged as soon as it is processed.
ReleaseSeen ==
  /\ pc = "callback"
  /\ pool' = IF mem[Current.user].op \notin MultiShot THEN pool \ {Current.user} ELSE pool
  /\ cq' = Tail(cq) /\ visible' = visible - 1
  /\ pc' = "reap"
  /\ UNCHANGED <<mem, pending, ringVars, seen, count, status, caller, histVars>>

\* release(cqe), after function(cqe).  It dereferences user_data.
Release ==
  /\ pc = "callback"
  /\ cancelled' = (cancelled \/ Current.req = NULL)
  /\ LET b == Current.user IN
     \/ /\ b = NULL
        /\ pc' = "crashed"
        /\ UNCHANGED <<pool, seen>>
     \/ /\ b # NULL
        /\ pool' = IF Valid(b) /\ mem[b].op \notin MultiShot
                     THEN pool \ {b} ELSE pool
        /\ seen' = seen + 1
        /\ pc' = "reap"
  /\ UNCHANGED <<mem, pending, ringVars, cq, visible, count, status, caller, cancels, lost>>

\* The head meets the tail: the loop ends.
EndReap ==
  /\ pc = "reap" /\ seen = visible
  /\ pc' = "advance"
  /\ UNCHANGED <<pool, mem, pending, ringVars, cqVars, count, status, caller, histVars>>

\* Mutant of Advance: the count of processed CQEs is not reset.
AdvanceKeepingCount ==
  /\ pc = "advance"
  /\ cq' = SubSeq(cq, seen + 1, Len(cq))
  /\ visible' = visible - seen
  /\ pc' = "idle"
  /\ UNCHANGED <<pool, mem, pending, ringVars, seen, count, status, caller, histVars>>

\* Mutant of Advance: all the visible CQEs are acknowledged.
AdvanceAll ==
  /\ pc = "advance"
  /\ cq' = SubSeq(cq, visible + 1, Len(cq))
  /\ visible' = 0 /\ seen' = 0
  /\ pc' = "idle"
  /\ UNCHANGED <<pool, mem, pending, ringVars, count, status, caller, histVars>>

\* io_uring_cq_advance(processed); the kernel may have posted in between.
Advance ==
  /\ pc = "advance"
  /\ cq' = SubSeq(cq, seen + 1, Len(cq))
  /\ visible' = visible - seen
  /\ seen' = 0
  /\ pc' = "idle"
  /\ UNCHANGED <<pool, mem, pending, ringVars, count, status, caller, histVars>>

-----------------------------------------------------------------------------

Kernel == \E k \in Kreq, res \in Result, flags \in Flags, more \in BOOLEAN :
            Post(k, res, flags, more)

SQNext ==
  \/ \E op \in PushedOps, s \in Subscriber : Push(op, s)
  \/ Cancel \/ RetryCancel
  \/ Submit \/ Prepared \/ EndEnter \/ FlushOverflow
  \/ \E op \in Operation : Prepare(op) \/ PrepareFull(op) \/ Retry(op)
  \/ \E k \in Kreq : Consume(k)
  \/ Kernel
  \/ Reap \/ Take \/ Release \/ EndReap \/ Advance

SQSpec == SQInit /\ [][SQNext]_sqvars

-----------------------------------------------------------------------------
(* Where a request is.                                                     *)

InPending(b) == \E o \in Operation : \E i \in 1..Len(pending[o]) : pending[o][i] = b

\* An SQE, an operation or a CQE that belongs to the request in block b.
Of(e, b) == e.req # NULL /\ e.user = b

InSq(b)     == \E i \in 1..Len(sq) : Of(sq[i], b)
InKernel(b) == \E k \in Kreq : inflight[k] # NULL /\ Of(inflight[k], b)
InCq(b)     == \E i \in seen + 1 .. Len(cq) : Of(cq[i], b)

\* e points to an allocated block that still holds the request of e.
Points(e) == e.req # NULL => e.user \in pool /\ mem[e.user] = e.req

(* Every pointer to a request that the program or the kernel still holds,   *)
(* from push() until release(), is to an allocated block that still holds   *)
(* that request, so that reading the header of a completion and casting it  *)
(* to the request type is sound.  Holds until release() meets the CQE of a  *)
(* cancel(), whose user_data is another request's.                          *)
PointersLive ==
  ~cancelled =>
    /\ \A o \in Operation : \A i \in 1..Len(pending[o]) :
         pending[o][i] \in pool /\ mem[pending[o][i]].op = o
    /\ \A i \in 1..Len(sq) : Points(sq[i])
    /\ \A k \in Kreq : inflight[k] # NULL => Points(inflight[k])
    /\ \A i \in seen + 1 .. Len(cq) : Points(cq[i])

\* e and f belong to the same request.
Alike(e, f) == e.req # NULL /\ f.req # NULL /\ e.user = f.user

UniquePending ==
  \A o \in Operation : \A i, j \in 1..Len(pending[o]) :
    pending[o][i] = pending[o][j] => i = j

UniqueSqe == \A i, j \in 1..Len(sq) : Alike(sq[i], sq[j]) => i = j

UniqueOperation ==
  \A k, l \in Kreq :
    inflight[k] # NULL /\ inflight[l] # NULL /\ Alike(inflight[k], inflight[l]) => k = l

UniqueCqe ==
  \A i, j \in seen + 1 .. Len(cq) :
    Alike(cq[i], cq[j]) => i = j \/ cq[i].req.op \in MultiShot

OneStage ==
  \A b \in Block :
    /\ InPending(b) => ~InSq(b) /\ ~InKernel(b) /\ ~InCq(b)
    /\ InSq(b) => ~InKernel(b) /\ ~InCq(b)
    /\ InKernel(b) /\ InCq(b) => mem[b].op \in MultiShot

(* The pool never hands out a block some operation still uses: a block is   *)
(* in a vector of pending requests, or in one SQE, or in one operation of   *)
(* the kernel, or (for a single-shot request) in one unprocessed CQE.       *)
ExclusiveBlocks ==
  ~cancelled =>
    /\ UniquePending /\ UniqueSqe /\ UniqueOperation /\ UniqueCqe
    /\ OneStage

(* No single-shot request is leaked or forgotten: an allocated block is     *)
(* pending, prepared, in the kernel or completed, or its preparation failed *)
(* with QUEUE_FULL.  In particular forEachCompletion acknowledges no CQE it *)
(* has not handed to the event loop.                                        *)
NoLeak ==
  ~cancelled => \A b \in pool :
    \/ InPending(b) \/ InSq(b) \/ InKernel(b) \/ InCq(b)
    \/ b \in lost
    \/ mem[b].op \in MultiShot

\* Which step of its cycle the request of a block has reached.
StageOf(b) ==
  IF b \notin pool       THEN "free"
  ELSE IF InPending(b)   THEN "pending"
  ELSE IF InSq(b)        THEN "prepared"
  ELSE IF InKernel(b)    THEN "submitted"
  ELSE IF InCq(b)        THEN "completed"
  ELSE IF b \in lost     THEN "lost"
  ELSE "spent"

Lifecycle == INSTANCE RequestLifecycle
               WITH stage <- [b \in Block |-> StageOf(b)], content <- mem

(* Every request goes once through the documented cycle (push, prepare,     *)
(* submit, completion processed), whatever the batching, the kernel's       *)
(* refusals and the order of completions.  Holds until release() meets the  *)
(* CQE of a cancel().                                                       *)
FollowsCycle ==
  /\ Lifecycle!LInit
  /\ [][~cancelled' =>
          UNCHANGED <<[b \in Block |-> StageOf(b)], mem>> \/ Lifecycle!LNext]_sqvars

SqesOf(op) == {e \in Sqe : e.req # NULL /\ e.req.op = op}
Users(s)   == [i \in 1..Len(s) |-> s[i].user]

\* The requests of type op that wait to be submitted, in the order the
\* kernel will see them.
Line(op) == Users(Filter(sq, SqesOf(op))) \o pending[op]

Without(s, i) == SubSeq(s, 1, i - 1) \o SubSeq(s, i + 1, Len(s))

(* Requests of one type reach the kernel in the order they were pushed (two *)
(* asyncWrite calls are not swapped by the batching): a step appends to the *)
(* line, serves its head, or drops a request for want of an SQE.  Holds     *)
(* until release() meets the CQE of a cancel(): a request may then wait in  *)
(* a block that another one, of another type, has been written to.          *)
NoOvertaking ==
  [][~cancelled => \A op \in Operation :
       \/ Line(op)' = Line(op)
       \/ \E b \in Block : Line(op)' = Append(Line(op), b)
       \/ Line(op)' = Tail(Line(op))
       \/ sqFree = <<>> /\ \E i \in 1..Len(Line(op)) : Line(op)' = Without(Line(op), i)
    ]_sqvars

(* preparePendingRequests is documented to return "the number of prepared   *)
(* requests": a request it counts has got an SQE.                           *)
CountedIsPrepared == [][count' > count => Len(sq') = Len(sq) + 1]_sqvars

(* A completion without user_data is reported by the event loop and         *)
(* otherwise ignored; release() does not crash on it.                       *)
NoCrash == Alive
=============================================================================
