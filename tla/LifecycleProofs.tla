--------------------------- MODULE LifecycleProofs ---------------------------
(***************************************************************************)
(* SubmissionQueue implements RequestLifecycle and keeps the order of the  *)
(* requests of a type, for any number of blocks, subscribers and kernel    *)
(* requests and any size of the two rings.                                 *)
(***************************************************************************)
EXTENDS SubmissionQueueProofs, SelectionProofs

\* A request that got no SQE is nowhere.
LostApart ==
  ~cancelled =>
    /\ lost \subseteq pool
    /\ \A b \in lost : ~InPending(b) /\ ~InSq(b) /\ ~InKernel(b) /\ ~InCq(b)

CycleInv == SafeInv /\ LostApart

\* What a step of the queue does to the requests, as long as no completion of
\* a cancel() has been released.
Movement ==
  \/ NothingMoves /\ UNCHANGED <<pool, mem, lost>>
  \/ PushMoves /\ UNCHANGED lost
  \/ PrepareMoves /\ UNCHANGED <<pool, mem, lost>>
  \/ RetryMoves /\ UNCHANGED <<pool, mem>>
  \/ ConsumeMoves /\ UNCHANGED <<pool, mem, lost>>
  \/ PostMoves /\ UNCHANGED <<pool, mem, lost>>
  \/ ReleaseMoves /\ UNCHANGED <<mem, lost>>

LEMMA StepsMove ==
  ASSUME SafeInv, [SQNext]_sqvars, ~cancelled'
  PROVE  ~cancelled /\ SafeInv' /\ Movement
<1>1. ~cancelled
  BY DEF SQNext, sqvars, histVars, Kernel, Push, Cancel, RetryCancel, Submit, Prepared, EndEnter,
       FlushOverflow, Prepare, PrepareFull, Retry, Consume, Post, Reap, Take, Release,
       EndReap, Advance
<1> SUFFICES Movement
  BY <1>1, SafeStep
<1>2. ASSUME pool' = pool, mem' = mem, pending' = pending, sq' = sq, inflight' = inflight,
             cq' = cq, seen' = seen, lost' = lost, cancelled' = cancelled
      PROVE  Movement
  <2>1. NothingMoves
    BY <1>2, SafeFrame
  <2> QED
    BY <1>2, <2>1 DEF Movement
<1>3. CASE \/ UNCHANGED sqvars
           \/ Submit \/ Prepared \/ EndEnter \/ FlushOverflow \/ Reap \/ Take \/ EndReap
  BY <1>2, <1>3 DEF Submit, Prepared, EndEnter, FlushOverflow, Reap, Take, EndReap, sqvars,
       ringVars, cqVars, histVars
<1>4. ASSUME NEW op \in Operation, PrepareFull(op) PROVE Movement
  BY <1>2, <1>4 DEF PrepareFull, ringVars, cqVars, histVars
<1>5. CASE Cancel \/ RetryCancel
  <2>1. /\ pool' = pool /\ mem' = mem /\ lost' = lost /\ pending' = pending
        /\ cq' = cq /\ seen' = seen /\ cancelled' = cancelled
    BY <1>5 DEF Cancel, RetryCancel, cqVars, histVars
  <2>2. CASE FillSqe(NULL, Head(sqFree))
    <3>1. NothingMoves
      BY <1>1, <2>1, <2>2, SafeFillCancel DEF FillSqe
    <3> QED
      BY <2>1, <3>1 DEF Movement
  <2>3. CASE UNCHANGED ringVars
    BY <1>2, <2>1, <2>3 DEF ringVars
  <2> QED
    BY <1>5, <2>2, <2>3 DEF Cancel, RetryCancel, ringVars
<1>6. ASSUME NEW op \in PushedOps, NEW s \in Subscriber, Push(op, s) PROVE Movement
  BY <1>1, <1>6, SafePush DEF Push, histVars, Movement
<1>7. ASSUME NEW op \in Operation, Prepare(op) PROVE Movement
  BY <1>1, <1>7, SafePrepare DEF Prepare, histVars, Movement
<1>8. ASSUME NEW op \in Operation, Retry(op) PROVE Movement
  BY <1>1, <1>8, SafeRetry DEF Retry, Movement
<1>9. ASSUME NEW k \in Kreq, Consume(k) PROVE Movement
  BY <1>1, <1>9, SafeConsume DEF Consume, histVars, Movement
<1>10. CASE Kernel
  <2>1. PICK k \in Kreq, res \in Result, flags \in Flags, more \in BOOLEAN :
          Post(k, res, flags, more)
    BY <1>10 DEF Kernel
  <2>2. PostMoves
    BY <1>1, <2>1, SafePost
  <2>3. pool' = pool /\ mem' = mem /\ lost' = lost
    BY <2>1 DEF Post, histVars
  <2> QED
    BY <2>2, <2>3 DEF Movement
<1>11. CASE Release
  <2>1. ReleaseMoves
    BY <1>1, <1>11, SafeRelease
  <2>2. mem' = mem /\ lost' = lost
    BY <1>11 DEF Release
  <2> QED
    BY <2>1, <2>2 DEF Movement
<1>12. CASE Advance
  <2>1. NothingMoves
    BY <1>1, <1>12, SafeAdvance
  <2>2. pool' = pool /\ mem' = mem /\ lost' = lost
    BY <1>12 DEF Advance, histVars
  <2> QED
    BY <2>1, <2>2 DEF Movement
<1> QED
  BY <1>3, <1>4, <1>5, <1>6, <1>7, <1>8, <1>9, <1>10, <1>11, <1>12 DEF SQNext

LEMMA CycleInit == SQInit => CycleInv
  BY SafeInit DEF SQInit, CycleInv, LostApart

LEMMA CycleStep == CycleInv /\ [SQNext]_sqvars => CycleInv'
<1> SUFFICES ASSUME CycleInv, [SQNext]_sqvars, ~cancelled' PROVE LostApart'
  BY SafeStep DEF CycleInv, LostApart
<1>1. ~cancelled /\ SafeInv' /\ Movement
  BY StepsMove DEF CycleInv
<1>2. /\ lost \subseteq pool /\ pool \subseteq Block
      /\ \A b \in lost : ~InPending(b) /\ ~InSq(b) /\ ~InKernel(b) /\ ~InCq(b)
  BY <1>1 DEF CycleInv, LostApart, SafeInv, TypeInv, SQTypeOK
<1>3. CASE NothingMoves /\ UNCHANGED <<pool, mem, lost>>
  BY <1>2, <1>3 DEF NothingMoves, Unmoved, LostApart
<1>4. ASSUME NEW b \in Block, OnlyMoves(b), b \notin lost, lost' = lost, lost \subseteq pool'
      PROVE  LostApart'
  BY <1>2, <1>4 DEF OnlyMoves, Unmoved, LostApart
<1>5. CASE PushMoves /\ UNCHANGED lost
  BY <1>2, <1>4, <1>5 DEF PushMoves
<1>6. CASE PrepareMoves /\ UNCHANGED <<pool, mem, lost>>
  BY <1>2, <1>4, <1>6 DEF PrepareMoves
<1>7. CASE RetryMoves /\ UNCHANGED <<pool, mem>>
  <2>1. ASSUME NEW b \in pool, OnlyMoves(b), lost' = lost \cup {b},
               ~InPending(b)', ~InSq(b)', ~InKernel(b)', ~InCq(b)'
        PROVE  LostApart'
    BY <1>2, <1>7, <2>1 DEF OnlyMoves, Unmoved, LostApart
  <2> QED
    BY <1>3, <1>7, <2>1 DEF RetryMoves
<1>8. CASE ConsumeMoves /\ UNCHANGED <<pool, mem, lost>>
  BY <1>2, <1>3, <1>4, <1>8 DEF ConsumeMoves
<1>9. CASE PostMoves /\ UNCHANGED <<pool, mem, lost>>
  BY <1>2, <1>3, <1>4, <1>9 DEF PostMoves
<1>10. CASE ReleaseMoves /\ UNCHANGED <<mem, lost>>
  BY <1>2, <1>4, <1>10 DEF ReleaseMoves
<1> QED
  BY <1>1, <1>3, <1>5, <1>6, <1>7, <1>8, <1>9, <1>10 DEF Movement

-----------------------------------------------------------------------------
(* The refinement.                                                         *)

\* The stages are told apart by where the request is.
LEMMA StageIs ==
  ASSUME SafeInv, ~cancelled, NEW b \in Block
  PROVE  /\ b \notin pool => StageOf(b) = "free"
         /\ b \in pool /\ InPending(b) => StageOf(b) = "pending"
         /\ b \in pool /\ InSq(b) => StageOf(b) = "prepared"
         /\ b \in pool /\ InKernel(b) => StageOf(b) = "submitted"
         /\ b \in pool /\ InCq(b) /\ ~InKernel(b) => StageOf(b) = "completed"
         /\ b \in pool /\ b \in lost /\ ~InPending(b) /\ ~InSq(b) /\ ~InKernel(b) /\ ~InCq(b)
              => StageOf(b) = "lost"
         /\ b \in pool /\ b \notin lost /\ ~InPending(b) /\ ~InSq(b) /\ ~InKernel(b) /\ ~InCq(b)
              => StageOf(b) = "spent"
<1>1. /\ InPending(b) => ~InSq(b) /\ ~InKernel(b) /\ ~InCq(b)
      /\ InSq(b) => ~InKernel(b) /\ ~InCq(b)
  BY DEF SafeInv, Safe, ExclusiveBlocks, OneStage
<1> QED
  BY <1>1 DEF StageOf

\* The same of the state after a step.
LEMMA StageIsThen ==
  ASSUME SafeInv', ~cancelled', NEW b \in Block
  PROVE  /\ b \notin pool' => StageOf(b)' = "free"
         /\ b \in pool' /\ InPending(b)' => StageOf(b)' = "pending"
         /\ b \in pool' /\ InSq(b)' => StageOf(b)' = "prepared"
         /\ b \in pool' /\ InKernel(b)' => StageOf(b)' = "submitted"
         /\ b \in pool' /\ InCq(b)' /\ ~InKernel(b)' => StageOf(b)' = "completed"
         /\ b \in pool' /\ b \in lost' /\ ~InPending(b)' /\ ~InSq(b)' /\ ~InKernel(b)' /\ ~InCq(b)'
              => StageOf(b)' = "lost"
         /\ b \in pool' /\ b \notin lost' /\ ~InPending(b)' /\ ~InSq(b)' /\ ~InKernel(b)' /\ ~InCq(b)'
              => StageOf(b)' = "spent"
<1>1. /\ InPending(b)' => ~InSq(b)' /\ ~InKernel(b)' /\ ~InCq(b)'
      /\ InSq(b)' => ~InKernel(b)' /\ ~InCq(b)'
  BY DEF SafeInv, Safe, ExclusiveBlocks, OneStage
<1> QED
  BY <1>1 DEF StageOf

Stages == [b \in Block |-> StageOf(b)]

\* A request whose place, allocation and loss a step leaves alone keeps its
\* stage; if that holds of all but one, the step moves that one.
LEMMA StageMoves ==
  ASSUME NEW b \in Block, OnlyMoves(b),
         \A c \in Block : c # b => (c \in pool' <=> c \in pool) /\ (c \in lost' <=> c \in lost)
  PROVE  Stages' = [Stages EXCEPT ![b] = StageOf(b)']
<1>1. \A c \in Block : c # b => StageOf(c)' = StageOf(c)
  BY DEF OnlyMoves, Unmoved, StageOf
<1>2. StageOf(b)' = Stages'[b]
  BY DEF Stages
<1> QED
  BY <1>1, <1>2 DEF Stages

LEMMA StageStays ==
  ASSUME NothingMoves, UNCHANGED <<pool, lost>>
  PROVE  Stages' = Stages
<1>1. \A c \in Block : StageOf(c)' = StageOf(c)
  BY DEF NothingMoves, Unmoved, StageOf
<1> QED
  BY <1>1 DEF Stages

\* A step of the queue is a step of the cycle, or leaves it alone.
LEMMA CycleMoves ==
  ASSUME CycleInv, [SQNext]_sqvars, ~cancelled'
  PROVE  UNCHANGED <<Stages, mem>> \/ Lifecycle!LNext
<1>1. ~cancelled /\ SafeInv /\ SafeInv' /\ Movement
  BY StepsMove DEF CycleInv
<1>2. /\ lost \subseteq pool /\ pool \subseteq Block
      /\ \A b \in lost : ~InPending(b) /\ ~InSq(b) /\ ~InKernel(b) /\ ~InCq(b)
      /\ mem \in [Block -> Request \cup {NULL}]
  BY <1>1 DEF CycleInv, LostApart, SafeInv, TypeInv, SQTypeOK
<1>3. CASE NothingMoves /\ UNCHANGED <<pool, mem, lost>>
  BY <1>3, StageStays
<1>4. ASSUME NEW b \in Block, NEW from, NEW to, StageOf(b) = from, StageOf(b)' = to, OnlyMoves(b),
             \A c \in Block : c # b => (c \in pool' <=> c \in pool) /\ (c \in lost' <=> c \in lost)
      PROVE  Lifecycle!Moves(b, from, to)
  <2>1. Stages[b] = from /\ Stages' = [Stages EXCEPT ![b] = to]
    BY <1>4, StageMoves DEF Stages
  <2> QED
    BY <2>1 DEF Stages, Lifecycle!Moves
<1>5. CASE PushMoves /\ UNCHANGED lost
  <2>1. PICK b \in Block \ pool, r \in Request :
          /\ pool' = pool \cup {b} /\ mem' = [mem EXCEPT ![b] = r]
          /\ InPending(b)' /\ OnlyMoves(b)
    BY <1>5 DEF PushMoves
  <2>2. StageOf(b) = "free" /\ StageOf(b)' = "pending"
    BY <1>1, <2>1, StageIs, StageIsThen
  <2>3. Lifecycle!Moves(b, "free", "pending")
    BY <1>4, <1>5, <2>1, <2>2
  <2> QED
    BY <2>1, <2>3 DEF Lifecycle!LNext, Lifecycle!Pushed
<1>6. CASE PrepareMoves /\ UNCHANGED <<pool, mem, lost>>
  <2>1. PICK b \in pool : InPending(b) /\ InSq(b)' /\ OnlyMoves(b)
    BY <1>6 DEF PrepareMoves
  <2>2. b \in Block /\ StageOf(b) = "pending" /\ StageOf(b)' = "prepared"
    BY <1>1, <1>2, <1>6, <2>1, StageIs, StageIsThen
  <2>3. Lifecycle!Moves(b, "pending", "prepared")
    BY <1>4, <1>6, <2>1, <2>2
  <2> QED
    BY <1>6, <2>2, <2>3 DEF Lifecycle!LNext, Lifecycle!Advances
<1>7. CASE RetryMoves /\ UNCHANGED <<pool, mem>>
  <2>1. CASE NothingMoves /\ lost' = lost
    BY <1>3, <1>7, <2>1
  <2>2. ASSUME NEW b \in pool, InPending(b), ~InPending(b)', OnlyMoves(b),
               ~InSq(b)', ~InKernel(b)', ~InCq(b)', lost' = lost \cup {b}
        PROVE  Lifecycle!LNext
    <3>1. b \in Block /\ StageOf(b) = "pending" /\ StageOf(b)' = "lost"
      BY <1>1, <1>2, <1>7, <2>2, StageIs, StageIsThen
    <3>2. Lifecycle!Moves(b, "pending", "lost")
      BY <1>4, <1>7, <2>2, <3>1
    <3> QED
      BY <1>7, <3>1, <3>2 DEF Lifecycle!LNext, Lifecycle!Advances
  <2> QED
    BY <1>7, <2>1, <2>2 DEF RetryMoves
<1>8. CASE ConsumeMoves /\ UNCHANGED <<pool, mem, lost>>
  <2>1. ASSUME NEW b \in pool, InSq(b), InKernel(b)', OnlyMoves(b)
        PROVE  Lifecycle!LNext
    <3>1. b \in Block /\ StageOf(b) = "prepared" /\ StageOf(b)' = "submitted"
      BY <1>1, <1>2, <1>8, <2>1, StageIs, StageIsThen
    <3>2. Lifecycle!Moves(b, "prepared", "submitted")
      BY <1>4, <1>8, <2>1, <3>1
    <3> QED
      BY <1>8, <3>1, <3>2 DEF Lifecycle!LNext, Lifecycle!Advances
  <2> QED
    BY <1>3, <1>8, <2>1 DEF ConsumeMoves
<1>9. CASE PostMoves /\ UNCHANGED <<pool, mem, lost>>
  <2>1. ASSUME NEW b \in pool, InKernel(b), InCq(b)', OnlyMoves(b)
        PROVE  UNCHANGED Stages \/ Lifecycle!LNext
    <3>1. b \in Block /\ StageOf(b) = "submitted"
      BY <1>1, <1>2, <2>1, StageIs
    <3>2. CASE InKernel(b)'
      <4>1. StageOf(b)' = "submitted"
        BY <1>1, <1>9, <2>1, <3>1, <3>2, StageIsThen
      <4>2. Stages' = [Stages EXCEPT ![b] = StageOf(b)']
        BY <1>9, <2>1, <3>1, StageMoves
      <4> QED
        BY <3>1, <4>1, <4>2 DEF Stages
    <3>3. CASE ~InKernel(b)'
      <4>1. StageOf(b)' = "completed"
        BY <1>1, <1>9, <2>1, <3>1, <3>3, StageIsThen
      <4>2. Lifecycle!Moves(b, "submitted", "completed")
        BY <1>4, <1>9, <2>1, <3>1, <4>1
      <4> QED
        BY <1>9, <3>1, <4>2 DEF Lifecycle!LNext, Lifecycle!Advances
    <3> QED
      BY <3>2, <3>3
  <2> QED
    BY <1>3, <1>9, <2>1 DEF PostMoves
<1>10. CASE ReleaseMoves /\ UNCHANGED <<mem, lost>>
  <2>1. PICK b \in pool :
          /\ InCq(b) /\ OnlyMoves(b)
          /\ InPending(b)' <=> InPending(b)
          /\ InSq(b)' <=> InSq(b)
          /\ InKernel(b)' <=> InKernel(b)
          /\ pool' = IF mem[b].op \in MultiShot THEN pool ELSE pool \ {b}
    BY <1>10 DEF ReleaseMoves
  <2>2. /\ b \in Block /\ b \notin lost /\ ~InPending(b) /\ ~InSq(b)
        /\ InKernel(b) => mem[b].op \in MultiShot
        /\ \A c \in Block : c # b => (c \in pool' <=> c \in pool) /\ (c \in lost' <=> c \in lost)
    BY <1>1, <1>2, <1>10, <2>1 DEF SafeInv, Safe, ExclusiveBlocks, OneStage
  <2>3. Stages' = [Stages EXCEPT ![b] = StageOf(b)']
    BY <2>1, <2>2, StageMoves
  <2>4. CASE InKernel(b) \/ (mem[b].op \in MultiShot /\ InCq(b)')
    <3>1. pool' = pool /\ b \in pool'
      BY <2>1, <2>2, <2>4
    <3>2. StageOf(b)' = StageOf(b)
      BY <1>1, <2>1, <2>2, <2>4, <3>1, StageIs, StageIsThen
    <3> QED
      BY <1>10, <2>2, <2>3, <3>2 DEF Stages
  <2>5. CASE ~InKernel(b) /\ mem[b].op \in MultiShot /\ ~InCq(b)'
    <3>1. StageOf(b) = "completed" /\ StageOf(b)' = "spent"
      BY <1>1, <1>10, <2>1, <2>2, <2>5, StageIs, StageIsThen
    <3>2. Lifecycle!Moves(b, "completed", "spent")
      BY <1>4, <2>1, <2>2, <3>1
    <3> QED
      BY <1>10, <2>2, <2>5, <3>2 DEF Lifecycle!LNext, Lifecycle!Retired
  <2>6. CASE mem[b].op \notin MultiShot
    <3>1. StageOf(b) = "completed" /\ StageOf(b)' = "free"
      BY <1>1, <2>1, <2>2, <2>6, StageIs, StageIsThen
    <3>2. Lifecycle!Moves(b, "completed", "free")
      BY <1>4, <2>1, <2>2, <3>1
    <3> QED
      BY <1>10, <2>2, <2>6, <3>2 DEF Lifecycle!LNext, Lifecycle!Retired
  <2> QED
    BY <2>2, <2>4, <2>5, <2>6
<1> QED
  BY <1>1, <1>3, <1>5, <1>6, <1>7, <1>8, <1>9, <1>10 DEF Movement

(* SubmissionQueue implements RequestLifecycle, until the completion of a   *)
(* cancel() is released: whatever the sizes of the rings, the batching, the *)
(* kernel's refusals and the order of completions, a request goes through   *)
(* the documented cycle step by step, and its block is not written before   *)
(* the cycle has ended.                                                     *)
THEOREM QueueFollowsCycle == SQSpec => FollowsCycle
<1>1. SQInit => Lifecycle!LInit
  BY DEF SQInit, Lifecycle!LInit, StageOf
<1>2. CycleInv /\ [SQNext]_sqvars =>
        [~cancelled' => UNCHANGED <<Stages, mem>> \/ Lifecycle!LNext]_sqvars
  BY CycleMoves
<1>3. CycleInv /\ [SQNext]_sqvars =>
        [~cancelled' => UNCHANGED <<[b \in Block |-> StageOf(b)], mem>> \/ Lifecycle!LNext]_sqvars
  BY <1>2 DEF Stages
<1> QED
  BY <1>1, <1>3, CycleInit, CycleStep, PTL DEF SQSpec, FollowsCycle

-----------------------------------------------------------------------------
(* The order of the requests.                                              *)

\* The users of the SQEs of a type, when an SQE is added or consumed.
LEMMA UsersIs ==
  ASSUME NEW s \in Seq(Sqe), NEW e \in Sqe
  PROVE  /\ Users(s) \in Seq(Block \cup {NULL})
         /\ Users(Append(s, e)) = Append(Users(s), e.user)
         /\ Users(<<e>> \o s) = <<e.user>> \o Users(s)
<1> DEFINE B == Block \cup {NULL}
<1>1. \A x \in Sqe : x.user \in B
  BY DEF Sqe
<1> HIDE DEF B
<1>2. Users(s) \in Seq(B) /\ Len(Users(s)) = Len(s)
  BY <1>1 DEF Users
<1>3. Users(Append(s, e)) = Append(Users(s), e.user)
  BY <1>1, <1>2 DEF Users
<1>4. Users(<<e>> \o s) = <<e.user>> \o Users(s)
  BY <1>1, <1>2 DEF Users
<1> QED
  BY <1>2, <1>3, <1>4 DEF B

LEMMA LineTyped ==
  ASSUME SafeInv, NEW op \in Operation
  PROVE  /\ sq \in Seq(Sqe) /\ pending[op] \in Seq(Block \cup {NULL})
         /\ pending \in [Operation -> Seq(Block)]
         /\ Filter(sq, SqesOf(op)) \in Seq(Sqe)
         /\ Users(Filter(sq, SqesOf(op))) \in Seq(Block \cup {NULL})
<1>1. sq \in Seq(Sqe) /\ pending \in [Operation -> Seq(Block)]
  BY DEF SafeInv, TypeInv, SQTypeOK
<1>2. Filter(sq, SqesOf(op)) \in Seq(Sqe)
  BY <1>1, FilterType
<1>3. [req |-> NULL, user |-> NULL] \in Sqe
  BY DEF Sqe
<1>4. Users(Filter(sq, SqesOf(op))) \in Seq(Block \cup {NULL})
  BY <1>2, <1>3, UsersIs
<1>5. pending[op] \in Seq(Block \cup {NULL})
  <2>1. pending[op] \in Seq(Block)
    BY <1>1
  <2> QED
    BY <2>1
<1> QED
  BY <1>1, <1>2, <1>4, <1>5

\* Adding an SQE for request r, or for none.
LEMMA FillLine ==
  ASSUME SafeInv, NEW op \in Operation, NEW r \in Request \cup {NULL}, NEW user \in Block \cup {NULL},
         sq' = Append(sq, [req |-> r, user |-> user])
  PROVE  Users(Filter(sq', SqesOf(op))) =
           IF r # NULL /\ r.op = op THEN Append(Users(Filter(sq, SqesOf(op))), user)
                                    ELSE Users(Filter(sq, SqesOf(op)))
<1> DEFINE e == [req |-> r, user |-> user]
<1>1. e \in Sqe /\ e.user = user /\ (e \in SqesOf(op) <=> r # NULL /\ r.op = op)
  BY DEF Sqe, SqesOf
<1> HIDE DEF e
<1>2. sq' = Append(sq, e)
  BY DEF e
<1>3. Filter(sq', SqesOf(op)) =
        IF e \in SqesOf(op) THEN Append(Filter(sq, SqesOf(op)), e) ELSE Filter(sq, SqesOf(op))
  BY <1>1, <1>2, LineTyped, FilterAppend
<1>4. Users(Append(Filter(sq, SqesOf(op)), e)) = Append(Users(Filter(sq, SqesOf(op))), user)
  BY <1>1, LineTyped, UsersIs
<1> QED
  BY <1>1, <1>3, <1>4

\* What a step may do to a line.
Orderly(op) ==
  \/ Line(op)' = Line(op)
  \/ \E b \in Block : Line(op)' = Append(Line(op), b)
  \/ Line(op)' = Tail(Line(op))
  \/ sqFree = <<>> /\ \E i \in 1..Len(Line(op)) : Line(op)' = Without(Line(op), i)

LEMMA PushOrder ==
  ASSUME SafeInv, NEW o \in PushedOps, NEW s \in Subscriber, Push(o, s), NEW op \in Operation
  PROVE  Orderly(op)
<1>1. PICK b \in Block : pending' = [pending EXCEPT ![o] = Append(@, b)]
  BY DEF Push
<1>2. sq' = sq
  BY DEF Push, ringVars
<1>3. CASE op = o
  <2>1. pending'[op] = Append(pending[op], b)
    BY <1>1, <1>3, LineTyped
  <2>2. Line(op)' = Append(Line(op), b)
    BY <1>2, <2>1, LineTyped, AppendConcat DEF Line
  <2> QED
    BY <2>2 DEF Orderly
<1>4. CASE op # o
  BY <1>1, <1>2, <1>4, LineTyped DEF Line, Orderly
<1> QED
  BY <1>3, <1>4

LEMMA CancelOrder ==
  ASSUME SafeInv, Cancel \/ RetryCancel, NEW op \in Operation
  PROVE  Orderly(op)
<1>1. pending' = pending
  BY DEF Cancel, RetryCancel
<1>2. CASE sq' = sq
  BY <1>1, <1>2 DEF Line, Orderly
<1>3. CASE sq' # sq
  <2>1. FillSqe(NULL, Head(sqFree))
    BY <1>3 DEF Cancel, RetryCancel, ringVars
  <2>2. Head(sqFree) \in Block \cup {NULL}
    BY <2>1 DEF FillSqe, SafeInv, TypeInv, SQTypeOK
  <2>3. Users(Filter(sq', SqesOf(op))) = Users(Filter(sq, SqesOf(op)))
    BY <2>1, <2>2, FillLine DEF FillSqe
  <2> QED
    BY <1>1, <2>3 DEF Line, Orderly
<1> QED
  BY <1>2, <1>3

LEMMA PrepareOrder ==
  ASSUME SafeInv, ~cancelled, NEW o \in Operation, Prepare(o), NEW op \in Operation
  PROVE  Orderly(op)
<1>1. PICK b : b = Head(pending[o])
  OBVIOUS
<1>2. /\ pending[o] # <<>> /\ pending' = [pending EXCEPT ![o] = Tail(@)]
      /\ sq' = Append(sq, [req |-> mem[b], user |-> b])
  BY <1>1 DEF Prepare, FillSqe, Visiting
<1>3. b \in Block /\ b \in pool /\ mem[b].op = o /\ mem[b] \in Request
  <2>1. pending[o] \in Seq(Block) /\ 1 \in 1..Len(pending[o]) /\ b = pending[o][1] /\ b \in Block
    BY <1>1, <1>2, LineTyped
  <2> QED
    BY <2>1 DEF SafeInv, Safe, PointersLive, Written
<1>4. Users(Filter(sq', SqesOf(op))) =
        IF o = op THEN Append(Users(Filter(sq, SqesOf(op))), b) ELSE Users(Filter(sq, SqesOf(op)))
  BY <1>2, <1>3, FillLine, SQAssumption
<1>5. CASE op = o
  <2>1. pending'[op] = Tail(pending[op]) /\ pending[op] # <<>> /\ b = Head(pending[op])
    BY <1>1, <1>2, <1>5, LineTyped
  <2>2. Line(op)' = Line(op)
    BY <1>4, <1>5, <2>1, LineTyped, MoveHead DEF Line
  <2> QED
    BY <2>2 DEF Orderly
<1>6. CASE op # o
  BY <1>2, <1>4, <1>6, LineTyped DEF Line, Orderly
<1> QED
  BY <1>5, <1>6

LEMMA RetryOrder ==
  ASSUME SafeInv, NEW o \in Operation, Retry(o), NEW op \in Operation
  PROVE  Orderly(op)
<1>1. sq' = sq /\ pending[o] # <<>>
  BY DEF Retry, ringVars, Visiting
<1>2. CASE pending' = pending
  BY <1>1, <1>2 DEF Line, Orderly
<1>3. CASE pending' # pending
  <2>1. sqFree = <<>> /\ pending' = [pending EXCEPT ![o] = Tail(@)]
    BY <1>3 DEF Retry
  <2>2. CASE op = o
    <3>1. PICK s : s = Users(Filter(sq, SqesOf(op)))
      OBVIOUS
    <3>2. /\ s \in Seq(Block \cup {NULL}) /\ pending[op] \in Seq(Block \cup {NULL})
          /\ pending[op] # <<>>
          /\ pending'[op] = Tail(pending[op])
      BY <1>1, <2>1, <2>2, <3>1, LineTyped
    <3>3. Line(op) = s \o pending[op] /\ Line(op)' = s \o Tail(pending[op])
      BY <1>1, <3>1, <3>2 DEF Line
    <3>4. PICK t \in Seq(Block \cup {NULL}) : t = pending[op]
      BY <3>2
    <3>5. PICK l : l = s \o t
      OBVIOUS
    <3>6. PICK i : i = Len(s) + 1
      OBVIOUS
    <3>7. t # <<>> /\ i - 1 = Len(s) /\ i + 1 = Len(s) + 2
      BY <3>2, <3>4, <3>6
    <3>8. /\ Len(s) + 1 \in 1..Len(s \o t)
          /\ SubSeq(s \o t, 1, Len(s)) \o SubSeq(s \o t, Len(s) + 2, Len(s \o t)) = s \o Tail(t)
      BY <3>2, <3>7, DropSecond, Zenon
    <3>9. i \in 1..Len(l) /\ SubSeq(l, 1, i - 1) \o SubSeq(l, i + 1, Len(l)) = s \o Tail(t)
      BY <3>5, <3>6, <3>7, <3>8, Zenon
    <3>10. i \in 1..Len(Line(op)) /\ Line(op)' = Without(Line(op), i)
      BY <3>3, <3>4, <3>5, <3>9, Zenon DEF Without
    <3> QED
      BY <2>1, <3>10 DEF Orderly
  <2>3. CASE op # o
    BY <1>1, <2>1, <2>3, LineTyped DEF Line, Orderly
  <2> QED
    BY <2>2, <2>3
<1> QED
  BY <1>2, <1>3

LEMMA ConsumeOrder ==
  ASSUME SafeInv, NEW k \in Kreq, Consume(k), NEW op \in Operation
  PROVE  Orderly(op)
<1>1. sq # <<>> /\ sq' = Tail(sq) /\ pending' = pending
  BY DEF Consume
<1> DEFINE rest == Filter(sq', SqesOf(op))
<1>2. /\ Head(sq) \in Sqe /\ sq' \in Seq(Sqe)
      /\ Filter(sq, SqesOf(op)) = IF Head(sq) \in SqesOf(op) THEN <<Head(sq)>> \o rest ELSE rest
  BY <1>1, LineTyped, FilterTail
<1>3. PICK e \in Sqe : e = Head(sq)
  BY <1>2
<1>4. rest \in Seq(Sqe) /\ e.user \in Block \cup {NULL}
  BY <1>2, FilterType DEF Sqe
<1>5. Users(rest) \in Seq(Block \cup {NULL}) /\ Users(<<e>> \o rest) = <<e.user>> \o Users(rest)
  BY <1>4, UsersIs
<1>6. Line(op)' = Users(rest) \o pending[op]
  BY <1>1 DEF Line
<1>7. CASE e \in SqesOf(op)
  <2>1. Line(op) = (<<e.user>> \o Users(rest)) \o pending[op]
    BY <1>2, <1>3, <1>5, <1>7 DEF Line
  <2>2. PICK u, p \in Seq(Block \cup {NULL}), x \in Block \cup {NULL} :
          u = Users(rest) /\ p = pending[op] /\ x = e.user
    BY <1>4, <1>5, LineTyped
  <2>3. Tail((<<x>> \o u) \o p) = u \o p
    BY TailConcat, Zenon
  <2>4. Line(op)' = Tail(Line(op))
    BY <1>6, <2>1, <2>2, <2>3, Zenon
  <2> QED
    BY <2>4 DEF Orderly
<1>8. CASE e \notin SqesOf(op)
  BY <1>2, <1>3, <1>6, <1>8 DEF Line, Orderly
<1> QED
  BY <1>7, <1>8

LEMMA StepOrder ==
  ASSUME SafeInv, ~cancelled, [SQNext]_sqvars, NEW op \in Operation
  PROVE  Orderly(op)
<1>1. CASE UNCHANGED <<sq, pending>>
  BY <1>1 DEF Line, Orderly
<1>2. CASE \/ UNCHANGED sqvars \/ Submit \/ Prepared \/ EndEnter \/ FlushOverflow \/ Kernel
           \/ Reap \/ Take \/ Release \/ EndReap \/ Advance
  BY <1>1, <1>2 DEF sqvars, Submit, Prepared, EndEnter, FlushOverflow, Kernel, Post, Reap, Take,
       Release, EndReap, Advance, ringVars
<1>3. ASSUME NEW o \in Operation, PrepareFull(o) PROVE Orderly(op)
  BY <1>1, <1>3 DEF PrepareFull, ringVars
<1> QED
  BY <1>2, <1>3, PushOrder, CancelOrder, PrepareOrder, RetryOrder, ConsumeOrder DEF SQNext

(* Whatever the batching and the kernel's refusals, requests of one type    *)
(* are handed to the kernel in the order of the calls to push().            *)
THEOREM OrderIsKept == SQSpec => NoOvertaking
<1>1. SafeInv /\ [SQNext]_sqvars =>
        [~cancelled => \A op \in Operation :
           \/ Line(op)' = Line(op)
           \/ \E b \in Block : Line(op)' = Append(Line(op), b)
           \/ Line(op)' = Tail(Line(op))
           \/ sqFree = <<>> /\ \E i \in 1..Len(Line(op)) : Line(op)' = Without(Line(op), i)]_sqvars
  BY StepOrder DEF Orderly
<1> QED
  BY <1>1, SafeAlways, PTL DEF SQSpec, NoOvertaking

=============================================================================
