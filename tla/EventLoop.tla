------------------------------ MODULE EventLoop ------------------------------
(***************************************************************************)
(* ringnet::EventLoop: run() alternates SubmissionQueue::submit() and      *)
(* forEachCompletion(), turns each completion into an event for the        *)
(* subscriber of its request, and gives the buffers of multishot reads     *)
(* back to the BufferRing.  This module composes SubmissionQueue, whose    *)
(* actions it orders and completes, with the operations of BufferRing.     *)
(*                                                                         *)
(* add() and cancel() are called by the thread of the loop, before run()   *)
(* and in callbacks, as in the samples; stop() is called by any thread.    *)
(***************************************************************************)
EXTENDS SubmissionQueue

CONSTANTS NBuffers, TailMod, MaxCompletions

\* Those of BufferRing.
ASSUME ELAssumption ==
  /\ NBuffers \in Nat \ {0}
  /\ TailMod \in Nat /\ NBuffers < TailMod /\ TailMod % NBuffers = 0

VARIABLES
  registered, slots, khead, tail, \* the ring of provided buffers
  at,              \* where the thread is in run()
  should_continue, \* the flag stop() clears
  event,           \* what the callback in progress has been called with
  spurious         \* history: a buffer has been given back for a completion
                   \* without buffer

loopVars == <<at, should_continue, event>>
bufVars  == <<registered, slots, khead, tail>>
elvars   == <<sqvars, bufVars, loopVars, spurious>>

\* No callback is running.
NoEvent == [to |-> NULL, type |-> "none"]

\* BufferRing sees the unprocessed completions of multishot reads.
IsRead(c)         == c.req # NULL /\ c.req.op = "READ_MULTISHOT"
Unprocessed       == SubSeq(cq, seen + 1, Len(cq))
Results(s)        == [i \in 1..Len(s) |-> [res |-> s[i].res, flags |-> s[i].flags]]
BufferCompletions == Results(Filter(Unprocessed, {c \in Cqe : IsRead(c)}))
Ring == INSTANCE BufferRing
          WITH completions <- BufferCompletions,
               serving <- event # NoEvent /\ IsRead(Current)

Here == {"outside", "check", "submit", "completions", "error", "returned"}

\* An event goes to a subscriber; to NULL stands for error_handler.
Report(message) == [to |-> NULL, type |-> message]
Event   == [to : Subscriber \cup {NULL},
            type : Operation \cup {"none", "ERROR", "Malformed completion queue entry",
                     "Invalid request header", "No subscriber", "Invalid buffer ID"}]

ELTypeOK ==
  /\ at \in Here
  /\ should_continue \in BOOLEAN
  /\ event \in Event
  /\ event # NoEvent => pc \in {"callback", "flush", "crashed"}

ELInit ==
  /\ at = "outside" /\ should_continue = TRUE
  /\ event = NoEvent
  /\ SQInit /\ Ring!BRInit

-----------------------------------------------------------------------------
(* Calls of the application.                                               *)

\* Code of the application runs before run(), in a callback of a completion
\* and in the callback that reports a failed submission.
UserCode == at \in {"outside", "error"} \/ pc = "callback"

\* add(): it always returns OK.
Add(op, s) ==
  /\ UserCode
  /\ Push(op, s)
  /\ UNCHANGED <<bufVars, loopVars, spurious>>

CancelFd ==
  /\ UserCode
  /\ Cancel
  /\ UNCHANGED <<bufVars, loopVars, spurious>>

Stop ==
  /\ should_continue
  /\ should_continue' = FALSE
  /\ UNCHANGED <<sqvars, bufVars, at, event, spurious>>

-----------------------------------------------------------------------------
(* run().                                                                  *)

Run ==
  /\ at = "outside" /\ pc = "idle"
  /\ at' = "check"
  /\ UNCHANGED <<sqvars, bufVars, should_continue, event, spurious>>

\* while (should_continue) submit()
While ==
  /\ at = "check"
  /\ \/ should_continue /\ Submit /\ at' = "submit"
     \/ ~should_continue /\ at' = "returned" /\ UNCHANGED sqvars
  /\ UNCHANGED <<bufVars, should_continue, event, spurious>>

\* The steps inside submit(), and inside cancel() when it has to submit.
Submitting ==
  /\ \/ Prepared \/ EndEnter \/ FlushOverflow \/ RetryCancel
     \/ \E op \in Operation : Prepare(op) \/ PrepareFull(op) \/ Retry(op)
     \/ \E k \in Kreq : Consume(k)
  /\ UNCHANGED <<bufVars, loopVars, spurious>>

ForEachCompletion ==
  /\ at = "submit"
  /\ Reap
  /\ at' = "completions"
  /\ UNCHANGED <<bufVars, should_continue, event, spurious>>

\* The event a completion becomes: the early returns of the lambda, then the
\* switch on the operation found in the block.
EventOf(c) ==
  IF c.user = NULL                   THEN Report("Malformed completion queue entry")
  ELSE IF ~Valid(c.user)             THEN Report("Invalid request header")
  ELSE LET header == mem[c.user] IN
       IF header.sub = NULL          THEN Report("No subscriber")
       ELSE IF c.res < 0             THEN [to |-> header.sub, type |-> "ERROR"]
       ELSE IF header.op = "READ_MULTISHOT" /\ ~Ring!Get(c.flags)
                                     THEN Report("Invalid buffer ID")
       ELSE [to |-> header.sub, type |-> header.op]

Dispatch ==
  /\ Take
  /\ event' = EventOf(Current)
  /\ UNCHANGED <<bufVars, at, should_continue, spurious>>

\* Mutant of CallbackReturns: the buffer is not given back.
CallbackKeepsBuffer ==
  /\ Release
  /\ event' = NoEvent
  /\ UNCHANGED <<bufVars, spurious, at, should_continue>>

\* Mutant of CallbackReturns: the event outlives its callback.
CallbackStays ==
  /\ Release
  /\ UNCHANGED <<bufVars, spurious, loopVars>>

\* The callback returns; a multishot read gives its buffer back, then the
\* request is released.
CallbackReturns ==
  /\ event.type = "READ_MULTISHOT" => registered
  /\ Release
  /\ event' = NoEvent
  /\ IF event.type = "READ_MULTISHOT"
       THEN /\ Ring!ReleaseBuffer(Current.flags)
            /\ spurious' = (spurious \/ ~Current.flags.buffer)
       ELSE UNCHANGED <<bufVars, spurious>>
  /\ UNCHANGED <<at, should_continue>>

\* BufferRing::release() dereferences a null buffer_ring.
NullRing ==
  /\ pc = "callback" /\ event.type = "READ_MULTISHOT" /\ ~registered
  /\ pc' = "crashed"
  /\ UNCHANGED <<pool, mem, pending, ringVars, cqVars, count, status, caller, histVars>>
  /\ UNCHANGED <<bufVars, loopVars, spurious>>

NoMoreCompletions ==
  /\ EndReap
  /\ UNCHANGED <<bufVars, loopVars, spurious>>

\* The end of an iteration: a failed submission is reported.
EndIteration ==
  /\ Advance
  /\ at' = IF status = "ERROR" THEN "error" ELSE "check"
  /\ UNCHANGED <<bufVars, should_continue, event, spurious>>

ErrorReported ==
  /\ at = "error" /\ pc = "idle"
  /\ at' = "check"
  /\ UNCHANGED <<sqvars, bufVars, should_continue, event, spurious>>

-----------------------------------------------------------------------------
(* The kernel: a multishot read uses the provided buffers.  Of the results *)
(* of the other operations the loop only tells errors apart.               *)

KernelPosts(k, res, flags, more) ==
  /\ Post(k, res, flags, more)
  /\ IF IsRead(inflight[k])
       THEN /\ Ring!Outcome(res, flags) /\ (res <= 0 => ~more)
            /\ IF flags.buffer THEN Ring!Selected ELSE UNCHANGED bufVars
       ELSE res # 0 /\ flags = Ring!NoBuffer /\ UNCHANGED bufVars
  /\ UNCHANGED <<loopVars, spurious>>

\* run() has returned, or the process is dead.
Terminated == (at = "returned" \/ ~Alive) /\ UNCHANGED elvars

LoopSteps ==
  \/ Run \/ While \/ Submitting \/ ForEachCompletion \/ Dispatch
  \/ CallbackReturns \/ NullRing \/ NoMoreCompletions \/ EndIteration \/ ErrorReported

ELNext ==
  \/ \E op \in PushedOps, s \in Subscriber : Add(op, s)
  \/ CancelFd \/ Stop
  \/ LoopSteps
  \/ \E k \in Kreq, res \in Result, flags \in Flags, more \in BOOLEAN :
       KernelPosts(k, res, flags, more)
  \/ Terminated

ELSpec == ELInit /\ [][ELNext]_elvars

\* A connection or a write that the kernel has accepted ends, if only with an
\* error; a read or an accept may wait for its peer for ever.
KernelProgress(k) ==
  /\ inflight[k] # NULL /\ inflight[k].req # NULL
  /\ inflight[k].req.op \in {"CONNECT", "WRITE"}
  /\ \E res \in Result, flags \in Flags, more \in BOOLEAN :
       KernelPosts(k, res, flags, more)

\* The kernel accepts an SQE.
Consumes == Submitting /\ \E k \in Kreq : Consume(k)

\* The thread that runs the loop is scheduled and its callbacks return; the
\* kernel does not refuse the submission queue for ever (EAGAIN, EINTR and
\* EBUSY are transient).
ELFairness ==
  /\ WF_elvars(LoopSteps)
  /\ \A k \in Kreq : WF_elvars(KernelProgress(k))
  /\ SF_elvars(Consumes)

ELFairSpec == ELSpec /\ ELFairness

-----------------------------------------------------------------------------

(* A completion becomes one event, for the subscriber that was given to     *)
(* add() with the request and of the type of that request, or an error:     *)
(* what the loop reads through user_data is still the request the kernel    *)
(* has completed.                                                           *)
RightEvent ==
  event # NoEvent /\ Current.req # NULL /\ ~cancelled =>
    event = IF Current.req.sub = NULL THEN Report("No subscriber")
            ELSE [to   |-> Current.req.sub,
                  type |-> IF Current.res < 0 THEN "ERROR" ELSE Current.req.op]

\* The lambda has returned early, for want of a subscriber: the buffer that a
\* read may have brought is not given back.
Unaddressed == event.type = "No subscriber" /\ event' = NoEvent

(* The loop uses the provided buffers as BufferRing allows: a buffer is     *)
(* given back once, after the callback that reads it, in the order the      *)
(* completions were posted; the one exception is a read added without a     *)
(* subscriber.  Holds until release() meets the CQE of a cancel(), which    *)
(* may be taken for that of a multishot read.                               *)
UsesBufferRing ==
  /\ Ring!BRInit
  /\ [][~cancelled' /\ ~Unaddressed => UNCHANGED Ring!brvars \/ Ring!BRNext]_elvars

(* stop() takes effect: run() returns, however many completions keep coming *)
(* and whatever the callbacks add.                                          *)
StopReturns == ~should_continue ~> at = "returned"

(* "Add a request to be prepared, then submitted. The associated subscriber *)
(* will be notified once the request is completed": a single-shot request   *)
(* that has been added is submitted and completed, handed to its subscriber *)
(* and released, unless the loop is stopped.                                *)
Notified ==
  \A b \in Block :
    (b \in pool /\ mem[b].op \notin MultiShot) ~> (b \notin pool \/ ~should_continue)

(* The same, unless a completion meanwhile goes to the kernel's overflow    *)
(* list: neither multishot reads that flood the completion ring nor the     *)
(* early return of submit() starve a write.                                 *)
NotifiedUnlessOverflow ==
  \A b \in Block :
    (b \in pool /\ mem[b].op \notin MultiShot)
      ~> (b \notin pool \/ ~should_continue \/ visible < Len(cq))
=============================================================================
