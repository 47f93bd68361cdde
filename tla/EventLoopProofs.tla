--------------------------- MODULE EventLoopProofs ---------------------------
(***************************************************************************)
(* Proofs about EventLoop, for any sizes of the rings and of the pool, any *)
(* number of buffers and any number of calls to cancel().                  *)
(***************************************************************************)
EXTENDS EventLoop, SubmissionQueueProofs, SelectionProofs

\* The steps of run() and of the callbacks are steps of the queue, but for the
\* one that dereferences a missing buffer ring.
LEMMA LoopUsesQueue ==
  ASSUME [ELNext]_elvars, ~NullRing
  PROVE  [SQNext]_sqvars
<1>1. CASE UNCHANGED elvars
  BY <1>1 DEF elvars
<1>2. ASSUME NEW op \in PushedOps, NEW s \in Subscriber, Add(op, s) PROVE SQNext
  BY <1>2 DEF Add, SQNext
<1>3. CASE CancelFd
  BY <1>3 DEF CancelFd, SQNext
<1>4. CASE Stop \/ Run \/ ErrorReported \/ Terminated
  BY <1>4 DEF Stop, Run, ErrorReported, Terminated, elvars
<1>5. CASE While
  BY <1>5 DEF While, SQNext
<1>6. CASE Submitting
  <2>1. CASE Prepared \/ EndEnter \/ FlushOverflow \/ RetryCancel
    BY <2>1 DEF SQNext
  <2>2. ASSUME NEW op \in Operation, Prepare(op) \/ PrepareFull(op) \/ Retry(op) PROVE SQNext
    BY <2>2 DEF SQNext
  <2>3. ASSUME NEW k \in Kreq, Consume(k) PROVE SQNext
    BY <2>3 DEF SQNext
  <2> QED
    BY <1>6, <2>1, <2>2, <2>3 DEF Submitting
<1>7. CASE ForEachCompletion \/ Dispatch \/ CallbackReturns \/ NoMoreCompletions \/ EndIteration
  BY <1>7 DEF ForEachCompletion, Dispatch, CallbackReturns, NoMoreCompletions, EndIteration, SQNext
<1>8. ASSUME NEW k \in Kreq, NEW res \in Result, NEW flags \in Flags, NEW more \in BOOLEAN,
             KernelPosts(k, res, flags, more)
      PROVE  SQNext
  <2>1. Kernel
    BY <1>8 DEF KernelPosts, Kernel
  <2> QED
    BY <2>1 DEF SQNext
<1> QED
  BY <1>1, <1>2, <1>3, <1>4, <1>5, <1>6, <1>7, <1>8 DEF ELNext, LoopSteps

LEMMA NullRingSafe ==
  ASSUME SafeInv, NullRing
  PROVE  SafeInv'
<1>1. /\ UNCHANGED <<pool, mem, pending, sq, sqFree, inflight, cq, visible, seen, count, status>>
      /\ UNCHANGED <<caller, cancels, lost, cancelled>> /\ pc' = "crashed"
  BY DEF NullRing, ringVars, cqVars, histVars
<1>2. Written' /\ Safe'
  BY <1>1, SafeFrame
<1>3. SQTypeOK'
  BY <1>1 DEF SafeInv, TypeInv, SQTypeOK, Place
<1>4. Position'
  BY <1>1 DEF Position, InCallback
<1> QED
  BY <1>2, <1>3, <1>4 DEF SafeInv, TypeInv

-----------------------------------------------------------------------------
(* The inductive invariant: a callback runs while its completion is the    *)
(* current one, and the identifiers of buffers that the kernel and the     *)
(* completions hold are those of buffers.                                  *)

EventPlace ==
  /\ event # NoEvent => InCallback \/ pc = "crashed"
  /\ InCallback => event # NoEvent

BuffersTyped ==
  /\ slots \in [Ring!BufferId -> Ring!BufferId]
  /\ khead \in Nat /\ tail \in Nat
  /\ \A i \in 1..Len(cq) : cq[i].flags.id \in Ring!BufferId

LoopTyped ==
  /\ at \in Here
  /\ should_continue \in BOOLEAN
  /\ event \in Event

LoopInv == SafeInv /\ LoopTyped /\ EventPlace /\ BuffersTyped /\ RightEvent

LEMMA LoopInit == ELInit => LoopInv
<1> SUFFICES ASSUME ELInit PROVE LoopInv
  OBVIOUS
<1>1. SafeInv /\ cq = <<>>
  BY SafeInit DEF ELInit, SQInit
<1>2. BuffersTyped
  BY <1>1, ELAssumption DEF ELInit, BuffersTyped, Ring!BRInit, Ring!BufferId
<1>3. LoopTyped
  BY DEF ELInit, LoopTyped, Here, Event, NoEvent
<1> QED
  BY <1>1, <1>2, <1>3 DEF ELInit, SQInit, LoopInv, EventPlace, InCallback, RightEvent

LEMMA SafeStepLoop == LoopInv /\ [ELNext]_elvars => SafeInv'
  BY LoopUsesQueue, SafeStep, NullRingSafe DEF LoopInv

-----------------------------------------------------------------------------
(* The steps, by what they do to the current completion.                   *)

\* The callback in progress, if any, goes on with the same completion.
StaysPut ==
  /\ UNCHANGED <<event, bufVars, cq, seen, cancelled>>
  /\ event # NoEvent /\ InCallback => InCallback' \/ pc' = "crashed"
  /\ InCallback' => InCallback
  /\ pc = "crashed" => pc' = "crashed"
  /\ at' \in Here /\ should_continue' \in BOOLEAN

LEMMA PutInv ==
  ASSUME LoopInv, StaysPut
  PROVE  LoopTyped' /\ EventPlace' /\ BuffersTyped' /\ RightEvent'
<1>1. UNCHANGED <<event, registered, slots, khead, tail, cq, seen, cancelled>>
  BY DEF StaysPut, bufVars
<1>2. LoopTyped'
  BY <1>1 DEF StaysPut, LoopInv, LoopTyped
<1>3. EventPlace'
  BY <1>1 DEF StaysPut, LoopInv, EventPlace
<1>4. BuffersTyped'
  BY <1>1 DEF LoopInv, BuffersTyped
<1>5. RightEvent'
  BY <1>1 DEF LoopInv, RightEvent, Current
<1> QED
  BY <1>2, <1>3, <1>4, <1>5

LEMMA CallsStayPut ==
  ASSUME LoopInv,
         \/ UNCHANGED elvars
         \/ \E op \in PushedOps, s \in Subscriber : Add(op, s)
         \/ CancelFd \/ Stop \/ Terminated
  PROVE  StaysPut
<1> USE DEF StaysPut, InCallback, LoopInv, LoopTyped, Here, loopVars, callVars, cqVars, histVars
<1>1. CASE UNCHANGED elvars \/ Terminated
  BY <1>1 DEF Terminated, elvars, sqvars
<1>2. ASSUME NEW op \in PushedOps, NEW s \in Subscriber, Add(op, s) PROVE StaysPut
  BY <1>2 DEF Add, Push
<1>3. CASE CancelFd
  BY <1>3 DEF CancelFd, Cancel
<1>4. CASE Stop
  BY <1>4 DEF Stop, sqvars
<1> QED
  BY <1>1, <1>2, <1>3, <1>4

LEMMA LoopStaysPut ==
  ASSUME LoopInv, \/ Run \/ While \/ Submitting \/ ForEachCompletion
                  \/ NullRing \/ NoMoreCompletions \/ ErrorReported
  PROVE  StaysPut
<1> USE DEF StaysPut, InCallback, LoopInv, LoopTyped, Here, loopVars, callVars, cqVars, histVars
<1>1. CASE Run \/ ErrorReported
  BY <1>1 DEF Run, ErrorReported, sqvars
<1>2. CASE While
  BY <1>2 DEF While, Submit, sqvars
<1>3. CASE Submitting
  <2>1. CASE Prepared \/ EndEnter \/ FlushOverflow \/ RetryCancel
    BY <1>3, <2>1 DEF Submitting, Prepared, EndEnter, FlushOverflow, RetryCancel
  <2>2. ASSUME NEW op \in Operation, Prepare(op) \/ PrepareFull(op) \/ Retry(op) PROVE StaysPut
    BY <1>3, <2>2 DEF Submitting, Prepare, PrepareFull, Retry
  <2>3. ASSUME NEW k \in Kreq, Consume(k) PROVE StaysPut
    BY <1>3, <2>3 DEF Submitting, Consume
  <2> QED
    BY <1>3, <2>1, <2>2, <2>3 DEF Submitting
<1>4. CASE ForEachCompletion
  BY <1>4 DEF ForEachCompletion, Reap
<1>5. CASE NullRing
  BY <1>5 DEF NullRing
<1>6. CASE NoMoreCompletions
  BY <1>6 DEF NoMoreCompletions, EndReap
<1> QED
  BY <1>1, <1>2, <1>3, <1>4, <1>5, <1>6

\* The completion of a callback: io_uring keeps it until it is acknowledged.
LEMMA CurrentIs ==
  ASSUME LoopInv, seen < visible
  PROVE  /\ seen \in Nat /\ seen + 1 \in 1..Len(cq) /\ seen + 1 \in seen + 1 .. Len(cq)
         /\ cq \in Seq(Cqe) /\ Current = cq[seen + 1] /\ Current \in Cqe
         /\ Current.flags.id \in Ring!BufferId
         /\ ~cancelled => Points(Current)
<1>1. /\ cq \in Seq(Cqe) /\ seen \in Nat /\ visible \in 0..Len(cq) /\ seen \in 0..visible
  BY DEF LoopInv, SafeInv, TypeInv, SQTypeOK
<1>2. seen + 1 \in 1..Len(cq) /\ seen + 1 \in seen + 1 .. Len(cq)
  BY <1>1
<1>3. Current = cq[seen + 1] /\ Current \in Cqe
  BY <1>1, <1>2 DEF Current
<1>4. Current.flags.id \in Ring!BufferId
  BY <1>2, <1>3 DEF LoopInv, BuffersTyped
<1>5. ~cancelled => Points(cq[seen + 1])
  BY <1>2 DEF LoopInv, SafeInv, Safe, PointersLive
<1> QED
  BY <1>1, <1>2, <1>3, <1>4, <1>5

\* The lambda always reports something.
LEMMA EventOfIs ==
  ASSUME LoopInv, seen < visible
  PROVE  EventOf(Current) # NoEvent
<1>1. PICK c \in Cqe : c = Current
  BY CurrentIs
<1>2. c.user # NULL /\ mem[c.user] # NULL => mem[c.user].op # "none"
  BY <1>1 DEF Cqe, LoopInv, SafeInv, TypeInv, SQTypeOK, Request, Operation
<1>3. EventOf(c).type # "none"
  BY <1>2 DEF EventOf, Report, Valid
<1> QED
  BY <1>1, <1>3 DEF NoEvent

LEMMA DispatchInv ==
  ASSUME LoopInv, Dispatch
  PROVE  LoopTyped' /\ EventPlace' /\ BuffersTyped' /\ RightEvent'
<1>1. /\ UNCHANGED <<registered, slots, khead, tail, cq, seen, mem, cancelled, at, should_continue>>
      /\ seen < visible /\ pc' = "callback" /\ event' = EventOf(Current)
  BY DEF Dispatch, Take, bufVars, cqVars, histVars
<1>2. PICK c : c = Current
  OBVIOUS
<1>3. /\ c \in Cqe /\ c.flags.id \in Ring!BufferId
      /\ ~cancelled => Points(c)
      /\ event' = EventOf(c) /\ Current' = c
  BY <1>1, <1>2, CurrentIs DEF Current
<1>4. mem \in [Block -> Request \cup {NULL}] /\ pool \subseteq Block
  BY DEF LoopInv, SafeInv, TypeInv, SQTypeOK
<1>5. c.user # NULL /\ mem[c.user] # NULL => mem[c.user] \in Request
  BY <1>3, <1>4 DEF Cqe
<1>6. event' \in Event
  BY <1>3, <1>5 DEF EventOf, Event, Report, Valid, Request, Operation
<1>7. RightEvent'
  <2> SUFFICES ASSUME c.req # NULL, ~cancelled
               PROVE  event' = IF c.req.sub = NULL THEN Report("No subscriber")
                               ELSE [to |-> c.req.sub, type |-> IF c.res < 0 THEN "ERROR" ELSE c.req.op]
    BY <1>1, <1>3 DEF RightEvent, Report
  <2>1. c.user \in pool /\ mem[c.user] = c.req
    BY <1>3 DEF Points
  <2>2. c.user # NULL /\ Valid(c.user) /\ Ring!Get(c.flags)
    BY <1>3, <1>4, <2>1, SQAssumption DEF Valid, Ring!Get
  <2> QED
    BY <1>3, <2>1, <2>2 DEF EventOf, Report
<1>8. LoopTyped' /\ EventPlace' /\ BuffersTyped'
  <2>1. event' # NoEvent
    BY <1>1, EventOfIs
  <2> QED
    BY <1>1, <1>6, <2>1 DEF LoopInv, LoopTyped, EventPlace, InCallback, BuffersTyped
<1> QED
  BY <1>7, <1>8

LEMMA CallbackInv ==
  ASSUME LoopInv, CallbackReturns
  PROVE  LoopTyped' /\ EventPlace' /\ BuffersTyped' /\ RightEvent'
<1>1. /\ event' = NoEvent /\ UNCHANGED <<cq, at, should_continue>>
      /\ \/ Ring!ReleaseBuffer(Current.flags)
         \/ UNCHANGED <<slots, khead, tail>>
  BY DEF CallbackReturns, Release, bufVars
<1>2. LoopTyped' /\ EventPlace' /\ RightEvent'
  <2>1. ~InCallback'
    BY DEF CallbackReturns, Release, InCallback
  <2> QED
    BY <1>1, <2>1 DEF LoopInv, LoopTyped, EventPlace, RightEvent, Event, NoEvent
<1>3. seen < visible
  BY DEF CallbackReturns, Release, LoopInv, SafeInv, TypeInv, Position, InCallback
<1>4. PICK id \in Ring!BufferId : id = Current.flags.id
  BY <1>3, CurrentIs
<1>5. slots' \in [Ring!BufferId -> Ring!BufferId] /\ khead' \in Nat /\ tail' \in Nat
  <2>1. CASE UNCHANGED <<slots, khead, tail>>
    BY <2>1 DEF LoopInv, BuffersTyped
  <2>2. CASE Ring!ReleaseBuffer(Current.flags)
    <3>1. /\ slots' = [slots EXCEPT ![tail % NBuffers] = id]
          /\ tail' = (tail + 1) % TailMod /\ khead' = khead
      BY <1>4, <2>2 DEF Ring!ReleaseBuffer
    <3>2. (tail + 1) % TailMod \in Nat
      BY ELAssumption DEF LoopInv, BuffersTyped
    <3> QED
      BY <1>4, <3>1, <3>2 DEF LoopInv, BuffersTyped
  <2> QED
    BY <1>1, <2>1, <2>2
<1> QED
  BY <1>1, <1>2, <1>5 DEF LoopInv, BuffersTyped

LEMMA IterationInv ==
  ASSUME LoopInv, EndIteration
  PROVE  LoopTyped' /\ EventPlace' /\ BuffersTyped' /\ RightEvent'
<1>1. /\ UNCHANGED <<registered, slots, khead, tail, should_continue, event>>
      /\ pc = "advance" /\ pc' = "idle" /\ cq' = SubSeq(cq, seen + 1, Len(cq)) /\ at' \in Here
  BY DEF EndIteration, Advance, bufVars, Here
<1>2. event = NoEvent
  BY <1>1 DEF LoopInv, EventPlace, InCallback
<1>3. cq \in Seq(Cqe) /\ seen \in 0..Len(cq)
  BY DEF LoopInv, SafeInv, TypeInv, SQTypeOK
<1>4. \A i \in 1..Len(cq') : i + seen \in 1..Len(cq) /\ cq'[i] = cq[i + seen]
  BY <1>1, <1>3
<1>5. BuffersTyped'
  BY <1>1, <1>4 DEF LoopInv, BuffersTyped
<1> QED
  BY <1>1, <1>2, <1>5 DEF LoopInv, LoopTyped, EventPlace, InCallback, RightEvent

LEMMA KernelInv ==
  ASSUME LoopInv, NEW k \in Kreq, NEW res \in Result, NEW flags \in Flags, NEW more \in BOOLEAN,
         KernelPosts(k, res, flags, more)
  PROVE  LoopTyped' /\ EventPlace' /\ BuffersTyped' /\ RightEvent'
<1> DEFINE new == [req |-> inflight[k].req, user |-> inflight[k].user,
                   res |-> res, flags |-> flags, more |-> more]
<1>1. /\ UNCHANGED <<at, should_continue, event, seen, pc, caller, cancelled>>
      /\ cq' = Append(cq, new) /\ pc # "crashed"
  BY DEF KernelPosts, Post, Alive, loopVars, callVars, histVars
<1>2. new \in Cqe /\ cq \in Seq(Cqe)
  <2>1. inflight[k] \in Sqe
    BY DEF KernelPosts, Post, LoopInv, SafeInv, TypeInv, SQTypeOK
  <2> QED
    BY <2>1 DEF Sqe, Cqe, LoopInv, SafeInv, TypeInv, SQTypeOK
<1>3. new.flags = flags
  OBVIOUS
<1> HIDE DEF new
<1>4. flags.id \in Ring!BufferId
  <2>1. 0 \in Ring!BufferId
    BY ELAssumption DEF Ring!BufferId
  <2>2. CASE flags = Ring!NoBuffer
    BY <2>1, <2>2 DEF Ring!NoBuffer
  <2>3. CASE flags = [buffer |-> TRUE, id |-> Ring!Select]
    <3>1. khead % NBuffers \in Ring!BufferId
      BY ELAssumption DEF Ring!BufferId, LoopInv, BuffersTyped
    <3> QED
      BY <2>3, <3>1 DEF Ring!Select, LoopInv, BuffersTyped
  <2> QED
    BY <2>2, <2>3 DEF KernelPosts, Ring!Outcome
<1>5. slots' = slots /\ khead' \in Nat /\ tail' = tail
  <2>1. (khead + 1) % TailMod \in Nat
    BY ELAssumption DEF LoopInv, BuffersTyped
  <2> QED
    BY <2>1 DEF KernelPosts, Ring!Selected, bufVars, LoopInv, BuffersTyped
<1>6. /\ Len(cq) \in Nat /\ Len(cq') = Len(cq) + 1 /\ cq'[Len(cq) + 1] = new
      /\ \A i \in 1..Len(cq) : i \in 1..Len(cq') /\ cq'[i] = cq[i]
      /\ \A i \in 1..Len(cq') : i \in 1..Len(cq) \/ i = Len(cq) + 1
  BY <1>1, <1>2, AppendFacts
<1>7. BuffersTyped'
  <2>1. \A i \in 1..Len(cq') : cq'[i].flags.id \in Ring!BufferId
    BY <1>3, <1>4, <1>6 DEF LoopInv, BuffersTyped
  <2> QED
    BY <1>5, <2>1 DEF LoopInv, BuffersTyped
<1>8. RightEvent'
  <2>1. CASE event = NoEvent
    BY <1>1, <2>1 DEF RightEvent
  <2>2. CASE event # NoEvent
    <3>1. seen < visible
      BY <1>1, <2>2 DEF LoopInv, EventPlace, SafeInv, TypeInv, Position
    <3>2. Current' = Current
      BY <1>1, <1>6, <3>1, CurrentIs DEF Current
    <3> QED
      BY <1>1, <3>2 DEF LoopInv, RightEvent
  <2> QED
    BY <2>1, <2>2
<1> QED
  BY <1>1, <1>7, <1>8 DEF LoopInv, LoopTyped, EventPlace, InCallback

LEMMA LoopStep == LoopInv /\ [ELNext]_elvars => LoopInv'
<1> SUFFICES ASSUME LoopInv, [ELNext]_elvars
             PROVE  LoopTyped' /\ EventPlace' /\ BuffersTyped' /\ RightEvent'
  BY SafeStepLoop DEF LoopInv
<1>1. CASE \/ UNCHANGED elvars
           \/ \E op \in PushedOps, s \in Subscriber : Add(op, s)
           \/ CancelFd \/ Stop \/ Terminated
  BY <1>1, CallsStayPut, PutInv
<1>2. CASE \/ Run \/ While \/ Submitting \/ ForEachCompletion
           \/ NullRing \/ NoMoreCompletions \/ ErrorReported
  BY <1>2, LoopStaysPut, PutInv
<1> QED
  BY <1>1, <1>2, DispatchInv, CallbackInv, IterationInv, KernelInv DEF ELNext, LoopSteps

LEMMA LoopAlways == ELSpec => []LoopInv
  BY LoopInit, LoopStep, PTL DEF ELSpec

(* The loop keeps its types; an event lives no longer than the callback it  *)
(* has been handed to.                                                      *)
THEOREM LoopTypeCorrect == ELSpec => []ELTypeOK
<1>1. LoopInv => ELTypeOK
  BY DEF LoopInv, LoopTyped, EventPlace, InCallback, ELTypeOK
<1> QED
  BY <1>1, LoopAlways, PTL

(* Every completion is turned into the event of its own request, for the    *)
(* subscriber given with it, until a cancellation's completion is released. *)
THEOREM EventsAreRight == ELSpec => []RightEvent
<1>1. LoopInv => RightEvent
  BY DEF LoopInv
<1> QED
  BY <1>1, LoopAlways, PTL

(* The properties of the queue hold in the loop: its callbacks, which add   *)
(* and cancel requests while a completion is at hand, use it as it allows.  *)
THEOREM LoopKeepsBlocks == ELSpec => [](SQTypeOK /\ PointersLive /\ ExclusiveBlocks /\ NoLeak)
<1>1. LoopInv => SQTypeOK /\ PointersLive /\ ExclusiveBlocks /\ NoLeak
  BY DEF LoopInv, SafeInv, TypeInv, Safe
<1> QED
  BY <1>1, LoopAlways, PTL

-----------------------------------------------------------------------------
(* The loop and BufferRing.                                                *)

\* What a step does to the unprocessed completions.
LEMMA UnprocessedIs ==
  ASSUME LoopInv
  PROVE  /\ Unprocessed \in Seq(Cqe)
         /\ seen < visible => Unprocessed # <<>> /\ Head(Unprocessed) = Current
         /\ UNCHANGED <<cq, seen>> => Unprocessed' = Unprocessed
         /\ \A e \in Cqe : cq' = Append(cq, e) /\ seen' = seen => Unprocessed' = Append(Unprocessed, e)
         /\ seen < visible /\ cq' = cq /\ seen' = seen + 1 => Unprocessed' = Tail(Unprocessed)
         /\ cq' = Unprocessed /\ seen' = 0 => Unprocessed' = Unprocessed
<1>1. PICK s \in Seq(Cqe), n \in Nat : s = cq /\ n = seen /\ n <= Len(s) /\ (seen < visible => n < Len(s))
  BY DEF LoopInv, SafeInv, TypeInv, SQTypeOK
<1>2. PICK u : u = SubSeq(s, n + 1, Len(s))
  OBVIOUS
<1>3. /\ u \in Seq(Cqe) /\ Len(u) = Len(s) - n /\ \A i \in 1..Len(s) - n : u[i] = s[n + i]
  BY <1>1, <1>2
<1>4. Unprocessed = u /\ Unprocessed' = SubSeq(cq', seen' + 1, Len(cq'))
  BY <1>1, <1>2 DEF Unprocessed
<1>5. seen < visible => u # <<>> /\ Head(u) = Current
  BY <1>1, <1>3 DEF Current
<1>6. UNCHANGED <<cq, seen>> => Unprocessed' = u
  BY <1>4 DEF Unprocessed
<1>7. ASSUME NEW e \in Cqe PROVE SubSeq(Append(s, e), n + 1, Len(Append(s, e))) = Append(u, e)
  <2> Append(s, e) \in Seq(Cqe)
    BY <1>1, <1>7
  <2>1. PICK t \in Seq(Cqe) : t = Append(s, e)
    OBVIOUS
  <2>2. PICK a : a = SubSeq(t, n + 1, Len(t))
    OBVIOUS
  <2>3. /\ Len(s) \in Nat /\ Len(t) = Len(s) + 1 /\ t[Len(s) + 1] = e
        /\ \A i \in 1..Len(s) : t[i] = s[i]
    BY <2>1, AppendFacts
  <2>4. a \in Seq(Cqe) /\ Len(a) = Len(u) + 1 /\ a[Len(u) + 1] = e /\ \A i \in 1..Len(u) : a[i] = u[i]
    <3>1. n <= Len(t)
      BY <1>1, <2>3
    <3>2. a \in Seq(Cqe) /\ Len(a) = Len(t) - n /\ \A i \in 1..Len(t) - n : a[i] = t[n + i]
      BY <2>2, <3>1
    <3>3. Len(a) = Len(u) + 1
      BY <1>1, <1>3, <2>3, <3>2
    <3>4. a[Len(u) + 1] = e
      <4>1. Len(u) + 1 \in 1..Len(t) - n /\ n + (Len(u) + 1) = Len(s) + 1
        BY <1>1, <1>3, <2>3
      <4> QED
        BY <2>3, <3>2, <4>1
    <3>5. ASSUME NEW i \in 1..Len(u) PROVE a[i] = u[i]
      <4>1. i \in 1..Len(t) - n /\ i \in 1..Len(s) - n /\ n + i \in 1..Len(s)
        BY <1>1, <1>3, <2>3
      <4> QED
        BY <1>3, <2>3, <3>2, <4>1
    <3> QED
      BY <3>2, <3>3, <3>4, <3>5
  <2>5. a = Append(u, e)
    BY <1>3, <2>4
  <2> QED
    BY <2>1, <2>2, <2>5
<1>8. ASSUME n < Len(s) PROVE SubSeq(s, n + 1 + 1, Len(s)) = Tail(u)
  <2>1. PICK a : a = SubSeq(s, n + 1 + 1, Len(s))
    OBVIOUS
  <2>2. a \in Seq(Cqe) /\ Len(a) = Len(u) - 1 /\ \A i \in 1..Len(u) - 1 : a[i] = s[n + 1 + i]
    BY <1>1, <1>3, <1>8, <2>1
  <2>3. Tail(u) \in Seq(Cqe) /\ Len(Tail(u)) = Len(u) - 1 /\ \A i \in 1..Len(u) - 1 : Tail(u)[i] = u[i + 1]
    BY <1>1, <1>3, <1>8
  <2>4. \A i \in 1..Len(u) - 1 : u[i + 1] = s[n + (i + 1)] /\ n + (i + 1) = n + 1 + i
    BY <1>1, <1>3, <1>8
  <2>5. a = Tail(u)
    BY <1>3, <2>2, <2>3, <2>4
  <2> QED
    BY <2>1, <2>5
<1>9. SubSeq(u, 0 + 1, Len(u)) = u
  BY <1>3
<1> QED
  BY <1>1, <1>3, <1>4, <1>5, <1>6, <1>7, <1>8, <1>9

Outcomes == [res : Result, flags : Flags]

\* What BufferRing sees of completions added at the end or at the front.
LEMMA ResultsIs ==
  ASSUME NEW s \in Seq(Cqe), NEW e \in Cqe
  PROVE  LET r == [res |-> e.res, flags |-> e.flags] IN
         /\ Results(s) \in Seq(Outcomes)
         /\ Results(Append(s, e)) = Append(Results(s), r)
         /\ Results(<<e>> \o s) = <<r>> \o Results(s)
<1>1. PICK r \in Outcomes : r = [res |-> e.res, flags |-> e.flags]
  BY DEF Cqe, Outcomes
<1>2. \A x \in Cqe : [res |-> x.res, flags |-> x.flags] \in Outcomes
  BY DEF Cqe, Outcomes
<1>3. Results(s) \in Seq(Outcomes) /\ Len(Results(s)) = Len(s)
  BY <1>2 DEF Results
<1>4. Results(Append(s, e)) = Append(Results(s), r)
  BY <1>1, <1>2, <1>3 DEF Results
<1>5. Results(<<e>> \o s) = <<r>> \o Results(s)
  BY <1>1, <1>2, <1>3 DEF Results
<1> QED
  BY <1>1, <1>3, <1>4, <1>5

Reads == {c \in Cqe : IsRead(c)}

\* The kernel posts a completion.
LEMMA CompletionsGrow ==
  ASSUME LoopInv, NEW e \in Cqe, cq' = Append(cq, e), seen' = seen
  PROVE  BufferCompletions' =
           IF IsRead(e) THEN Append(BufferCompletions, [res |-> e.res, flags |-> e.flags])
                        ELSE BufferCompletions
<1>1. PICK u \in Seq(Cqe) : u = Unprocessed /\ Unprocessed' = Append(u, e)
  BY UnprocessedIs
<1>2. Filter(Append(u, e), Reads) = IF e \in Reads THEN Append(Filter(u, Reads), e) ELSE Filter(u, Reads)
  BY FilterAppend
<1>3. Filter(u, Reads) \in Seq(Cqe)
  BY FilterType
<1>4. Results(Append(Filter(u, Reads), e)) =
        Append(Results(Filter(u, Reads)), [res |-> e.res, flags |-> e.flags])
  BY <1>3, ResultsIs
<1>5. /\ BufferCompletions = Results(Filter(u, Reads))
      /\ BufferCompletions' = Results(Filter(Append(u, e), Reads))
  BY <1>1 DEF BufferCompletions, Reads, Results, IsRead
<1>6. e \in Reads <=> IsRead(e)
  BY DEF Reads
<1> QED
  BY <1>2, <1>4, <1>5, <1>6

\* The current completion has been processed.
LEMMA CompletionsShrink ==
  ASSUME LoopInv, seen < visible, cq' = cq, seen' = seen + 1
  PROVE  /\ BufferCompletions' \in Seq(Outcomes)
         /\ BufferCompletions =
              IF IsRead(Current)
                THEN <<[res |-> Current.res, flags |-> Current.flags]>> \o BufferCompletions'
                ELSE BufferCompletions'
<1>1. PICK u \in Seq(Cqe), e \in Cqe :
        u = Unprocessed /\ Unprocessed' = Tail(u) /\ u # <<>> /\ e = Head(u) /\ e = Current
  BY UnprocessedIs, CurrentIs
<1>2. Filter(u, Reads) = IF e \in Reads THEN <<e>> \o Filter(Tail(u), Reads) ELSE Filter(Tail(u), Reads)
  BY <1>1, FilterTail
<1>3. Filter(Tail(u), Reads) \in Seq(Cqe)
  <2>1. Tail(u) \in Seq(Cqe)
    BY <1>1
  <2> QED
    BY <2>1, FilterType
<1>4. /\ Results(Filter(Tail(u), Reads)) \in Seq(Outcomes)
      /\ Results(<<e>> \o Filter(Tail(u), Reads)) =
           <<[res |-> e.res, flags |-> e.flags]>> \o Results(Filter(Tail(u), Reads))
  BY <1>3, ResultsIs
<1>5. /\ BufferCompletions = Results(Filter(u, Reads))
      /\ BufferCompletions' = Results(Filter(Tail(u), Reads))
  BY <1>1 DEF BufferCompletions, Reads, Results, IsRead
<1>6. e \in Reads <=> IsRead(e)
  BY DEF Reads
<1> QED
  BY <1>1, <1>2, <1>4, <1>5, <1>6

\* Nothing is completed or processed, or only acknowledged.
LEMMA CompletionsStay ==
  ASSUME LoopInv, UNCHANGED <<cq, seen>> \/ (cq' = Unprocessed /\ seen' = 0)
  PROVE  BufferCompletions' = BufferCompletions
<1>1. Unprocessed' = Unprocessed
  BY UnprocessedIs
<1> QED
  BY <1>1 DEF BufferCompletions, Results, IsRead

\* A step of the loop that leaves the buffers alone.
LEMMA RingStays ==
  ASSUME LoopInv, StaysPut \/ EndIteration, spurious' = spurious
  PROVE  UNCHANGED Ring!brvars
<1>1. UNCHANGED <<registered, slots, khead, tail, event>>
  BY DEF StaysPut, EndIteration, bufVars
<1>2. CASE StaysPut
  <2>1. UNCHANGED <<cq, seen>>
    BY <1>2 DEF StaysPut
  <2> QED
    BY <1>1, <2>1, CompletionsStay DEF Ring!brvars, Current, IsRead
<1>3. CASE EndIteration
  <2>1. cq' = Unprocessed /\ seen' = 0 /\ event = NoEvent
    BY <1>3 DEF EndIteration, Advance, Unprocessed, LoopInv, EventPlace, InCallback
  <2>2. (event # NoEvent /\ IsRead(Current))' = (event # NoEvent /\ IsRead(Current))
    BY <1>1, <2>1
  <2> QED
    BY <1>1, <2>1, <2>2, CompletionsStay DEF Ring!brvars
<1> QED
  BY <1>2, <1>3

\* The callback of a read begins: the loop comes to its buffer.
LEMMA DispatchServes ==
  ASSUME LoopInv, Dispatch
  PROVE  UNCHANGED Ring!brvars \/ Ring!Serve
<1>1. /\ UNCHANGED <<registered, slots, khead, tail, cq, seen, mem, spurious>>
      /\ seen < visible /\ pc = "reap" /\ event' = EventOf(Current)
  BY DEF Dispatch, Take, bufVars, cqVars
<1>2. BufferCompletions' = BufferCompletions /\ Current' = Current
  BY <1>1, CompletionsStay DEF Current
<1>3. event = NoEvent
  BY <1>1 DEF LoopInv, EventPlace, InCallback
<1>4. event' # NoEvent
  BY <1>1, EventOfIs
<1>5. CASE ~IsRead(Current)
  <2>1. (event # NoEvent /\ IsRead(Current))' = (event # NoEvent /\ IsRead(Current))
    BY <1>2, <1>5 DEF IsRead
  <2> QED
    BY <1>1, <1>2, <2>1 DEF Ring!brvars
<1>6. CASE IsRead(Current)
  <2>1. BufferCompletions # <<>>
    <3>1. PICK u \in Seq(Cqe), e \in Cqe :
            u = Unprocessed /\ u # <<>> /\ e = Head(u) /\ e = Current
      BY <1>1, UnprocessedIs, CurrentIs
    <3>2. Filter(u, Reads) = <<e>> \o Filter(Tail(u), Reads)
      BY <1>6, <3>1, FilterTail DEF Reads
    <3>3. Tail(u) \in Seq(Cqe)
      BY <3>1
    <3>4. PICK f \in Seq(Cqe) : f = Filter(Tail(u), Reads)
      BY <3>3, FilterType
    <3>5. Len(<<e>> \o f) # 0 /\ Len(<<e>> \o f) \in Nat
      BY <3>1, <3>4
    <3>6. BufferCompletions = Results(<<e>> \o f)
      BY <3>1, <3>2, <3>4 DEF BufferCompletions, Reads
    <3> QED
      BY <3>5, <3>6 DEF Results
  <2>2. (event # NoEvent /\ IsRead(Current)) = FALSE /\ (event # NoEvent /\ IsRead(Current))' = TRUE
    BY <1>2, <1>3, <1>4, <1>6 DEF IsRead
  <2> QED
    BY <1>1, <1>2, <2>1, <2>2 DEF Ring!Serve
<1> QED
  BY <1>5, <1>6

\* It returns: its buffer, and no other, is given back.
LEMMA CallbackServed ==
  ASSUME LoopInv, CallbackReturns, ~cancelled', ~Unaddressed
  PROVE  UNCHANGED Ring!brvars \/ Ring!Served
<1>1. /\ seen < visible /\ pc = "callback" /\ cq' = cq /\ event' = NoEvent
      /\ cancelled' = (cancelled \/ Current.req = NULL)
  BY DEF CallbackReturns, Release, LoopInv, SafeInv, TypeInv, Position, InCallback
<1>2. PICK c \in Cqe : c = Current /\ c.flags.id \in Ring!BufferId /\ (~cancelled => Points(c))
  BY <1>1, CurrentIs
<1>3. ~cancelled /\ c.req # NULL /\ c.user # NULL
  BY <1>1, <1>2, SQAssumption DEF Points, LoopInv, SafeInv, TypeInv, SQTypeOK
<1>4. seen' = seen + 1
  BY <1>2, <1>3 DEF CallbackReturns, Release
<1>5. [res |-> c.res, flags |-> c.flags] \in Outcomes
  BY DEF Outcomes, Cqe
<1>6. PICK r \in Outcomes : r = [res |-> c.res, flags |-> c.flags]
  BY <1>5
<1>7. BufferCompletions = IF IsRead(c) THEN <<r>> \o BufferCompletions' ELSE BufferCompletions'
  BY <1>1, <1>2, <1>4, <1>6, CompletionsShrink
<1>8. r.res = c.res /\ r.flags = c.flags
  BY <1>6
<1>9. event # NoEvent
  BY <1>1 DEF LoopInv, EventPlace, InCallback
<1>10. event.type = IF c.res < 0 THEN "ERROR" ELSE c.req.op
  <2>1. event = IF c.req.sub = NULL THEN Report("No subscriber")
                ELSE [to |-> c.req.sub, type |-> IF c.res < 0 THEN "ERROR" ELSE c.req.op]
    BY <1>2, <1>3, <1>9 DEF LoopInv, RightEvent, Report
  <2>2. c.req.sub # NULL
    BY <1>1, <2>1 DEF Unaddressed, Report
  <2> QED
    BY <2>1, <2>2
<1>11. (event # NoEvent /\ IsRead(Current))' = FALSE
  BY <1>1
<1>12. CASE ~IsRead(c)
  <2>1. event.type # "READ_MULTISHOT"
    BY <1>3, <1>10, <1>12 DEF IsRead
  <2>2. UNCHANGED <<registered, slots, khead, tail, spurious>>
    BY <2>1 DEF CallbackReturns, bufVars
  <2>3. (event # NoEvent /\ IsRead(Current)) = FALSE
    BY <1>2, <1>12
  <2> QED
    BY <1>7, <1>11, <1>12, <2>2, <2>3 DEF Ring!brvars
<1>13. CASE IsRead(c)
  <2>1. (event # NoEvent /\ IsRead(Current)) = TRUE
    BY <1>2, <1>9, <1>13
  <2>2. BufferCompletions' \in Seq(Outcomes)
    BY <1>1, <1>4, CompletionsShrink
  <2>3. Head(BufferCompletions) = r /\ BufferCompletions' = Tail(BufferCompletions)
    <3>1. PICK s \in Seq(Outcomes) : s = BufferCompletions'
      BY <2>2
    <3>2. Head(<<r>> \o s) = r /\ Tail(<<r>> \o s) = s
      BY <1>6, <3>1
    <3> QED
      BY <1>7, <1>13, <3>1, <3>2, Zenon
  <2>4. Ring!Get(c.flags)
    BY <1>2 DEF Ring!Get
  <2>5. c.res \in Int
    BY <1>2, SQAssumption DEF Cqe
  <2>6. Ring!Shown(r) <=> c.res >= 0
    BY <1>8, <2>4 DEF Ring!Shown, Ring!Get
  <2>7. event.type = "READ_MULTISHOT" <=> c.res >= 0
    BY <1>10, <1>13, <2>5 DEF IsRead
  <2>8. IF Ring!Shown(r)
          THEN Ring!ReleaseBuffer(r.flags) /\ spurious' = (spurious \/ ~r.flags.buffer)
          ELSE UNCHANGED <<registered, slots, khead, tail, spurious>>
    BY <1>2, <1>8, <2>6, <2>7 DEF CallbackReturns, bufVars
  <2> QED
    BY <1>11, <2>1, <2>3, <2>8 DEF Ring!Served
<1> QED
  BY <1>12, <1>13

\* MaxCompletions bounds BufferRing, not the loop.
Bounded == Len(BufferCompletions) < MaxCompletions

\* The kernel completes a read with a buffer of the ring, or without.
LEMMA KernelCompletes ==
  ASSUME LoopInv, Bounded, NEW k \in Kreq, NEW res \in Result, NEW flags \in Flags,
         NEW more \in BOOLEAN, KernelPosts(k, res, flags, more)
  PROVE  UNCHANGED Ring!brvars \/ Ring!BRNext
<1>1. PICK e : e = [req |-> inflight[k].req, user |-> inflight[k].user,
                    res |-> res, flags |-> flags, more |-> more]
  OBVIOUS
<1>2. /\ e \in Cqe /\ e.res = res /\ e.flags = flags /\ (IsRead(e) <=> IsRead(inflight[k]))
  <2>1. inflight[k] \in Sqe
    BY DEF KernelPosts, Post, LoopInv, SafeInv, TypeInv, SQTypeOK
  <2> QED
    BY <1>1, <2>1 DEF Sqe, Cqe, IsRead
<1>3. cq' = Append(cq, e) /\ UNCHANGED <<seen, event, spurious>>
  BY <1>1 DEF KernelPosts, Post, loopVars
<1>4. BufferCompletions' =
        IF IsRead(e) THEN Append(BufferCompletions, [res |-> res, flags |-> flags])
                     ELSE BufferCompletions
  BY <1>2, <1>3, CompletionsGrow
<1>5. (event # NoEvent /\ IsRead(Current))' = (event # NoEvent /\ IsRead(Current))
  <2>1. CASE event = NoEvent
    BY <1>3, <2>1
  <2>2. CASE event # NoEvent
    <3>1. seen < visible
      BY <2>2 DEF KernelPosts, Post, Alive, LoopInv, EventPlace, SafeInv, TypeInv, Position
    <3>2. cq \in Seq(Cqe) /\ seen + 1 \in 1..Len(cq)
      BY <3>1, CurrentIs
    <3>3. Current' = Current
      BY <1>2, <1>3, <3>2, AppendFacts DEF Current
    <3> QED
      BY <1>3, <3>3 DEF IsRead
  <2> QED
    BY <2>1, <2>2
<1>6. CASE ~IsRead(e)
  <2>1. UNCHANGED <<registered, slots, khead, tail>>
    BY <1>2, <1>6 DEF KernelPosts, bufVars
  <2> QED
    BY <1>3, <1>4, <1>5, <1>6, <2>1 DEF Ring!brvars
<1>7. CASE IsRead(e)
  <2>1. /\ Ring!Outcome(res, flags)
        /\ IF flags.buffer THEN Ring!Selected ELSE UNCHANGED <<registered, slots, khead, tail>>
    BY <1>2, <1>7 DEF KernelPosts, bufVars
  <2>2. res \in {-1, 0, 1} /\ flags \in Ring!BufferFlags
    <3>1. 0 \in Ring!BufferId /\ khead % NBuffers \in Ring!BufferId
      BY ELAssumption DEF Ring!BufferId, LoopInv, BuffersTyped
    <3>2. Ring!Select \in Ring!BufferId
      BY <3>1 DEF Ring!Select, LoopInv, BuffersTyped
    <3>3. flags \in {[buffer |-> TRUE, id |-> Ring!Select], [buffer |-> FALSE, id |-> 0]}
      BY <2>1 DEF Ring!Outcome, Ring!NoBuffer
    <3>4. res \in {-1, 0, 1}
      BY <2>1 DEF Ring!Outcome
    <3>5. \A b \in BOOLEAN, i \in Ring!BufferId : [buffer |-> b, id |-> i] \in Ring!BufferFlags
      BY DEF Ring!BufferFlags
    <3>6. TRUE \in BOOLEAN /\ FALSE \in BOOLEAN
      OBVIOUS
    <3>7. flags \in Ring!BufferFlags
      BY <3>1, <3>2, <3>3, <3>5, <3>6, Zenon
    <3> QED
      BY <3>4, <3>7
  <2>3. Ring!Complete(res, flags)
    BY <1>3, <1>4, <1>5, <1>7, <2>1 DEF Ring!Complete, Bounded
  <2> QED
    BY <2>2, <2>3 DEF Ring!BRNext
<1> QED
  BY <1>6, <1>7

LEMMA LoopUsesRing ==
  ASSUME LoopInv, Bounded, [ELNext]_elvars, ~cancelled', ~Unaddressed
  PROVE  UNCHANGED Ring!brvars \/ Ring!BRNext
<1>1. CASE \/ UNCHANGED elvars
           \/ \E op \in PushedOps, s \in Subscriber : Add(op, s)
           \/ CancelFd \/ Stop \/ Terminated
  <2>1. spurious' = spurious
    BY <1>1 DEF elvars, Add, CancelFd, Stop, Terminated
  <2> QED
    BY <1>1, <2>1, CallsStayPut, RingStays
<1>2. CASE \/ Run \/ While \/ Submitting \/ ForEachCompletion
           \/ NullRing \/ NoMoreCompletions \/ ErrorReported
  <2>1. spurious' = spurious
    BY <1>2 DEF Run, While, Submitting, ForEachCompletion, NullRing, NoMoreCompletions, ErrorReported
  <2> QED
    BY <1>2, <2>1, LoopStaysPut, RingStays
<1>3. CASE EndIteration
  <2>1. spurious' = spurious
    BY <1>3 DEF EndIteration
  <2> QED
    BY <1>3, <2>1, RingStays
<1>4. CASE Dispatch
  BY <1>4, DispatchServes DEF Ring!BRNext
<1>5. CASE CallbackReturns
  BY <1>5, CallbackServed DEF Ring!BRNext
<1> QED
  BY <1>1, <1>2, <1>3, <1>4, <1>5, KernelCompletes DEF ELNext, LoopSteps

(* The loop gives buffers back as BufferRing expects, once and in order, as *)
(* long as the bound that keeps BufferRing finite is not met.               *)
THEOREM LoopFollowsRing == ELSpec /\ []Bounded => UsesBufferRing
<1>1. ELInit => Ring!BRInit
  BY DEF ELInit
<1>2. LoopInv /\ Bounded /\ [ELNext]_elvars =>
        [~cancelled' /\ ~Unaddressed => UNCHANGED Ring!brvars \/ Ring!BRNext]_elvars
  BY LoopUsesRing
<1> QED
  BY <1>1, <1>2, LoopAlways, PTL DEF ELSpec, UsesBufferRing
=============================================================================
