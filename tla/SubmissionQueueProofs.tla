------------------------ MODULE SubmissionQueueProofs ------------------------
(***************************************************************************)
(* Proofs about SubmissionQueue, for any number of blocks, subscribers and *)
(* kernel requests, any size of the two rings and any number of calls to   *)
(* cancel().                                                               *)
(***************************************************************************)
EXTENDS SubmissionQueue, TLAPS

-----------------------------------------------------------------------------
(* Sequences, index by index.                                              *)

LEMMA AppendFacts ==
  ASSUME NEW S, NEW s \in Seq(S), NEW e \in S
  PROVE  /\ Len(s) \in Nat /\ Len(Append(s, e)) = Len(s) + 1
         /\ Append(s, e)[Len(s) + 1] = e
         /\ \A i \in 1..Len(s) : i \in 1..Len(Append(s, e)) /\ Append(s, e)[i] = s[i]
         /\ \A i \in 1..Len(Append(s, e)) : i \in 1..Len(s) \/ i = Len(s) + 1
  OBVIOUS

LEMMA TailFacts ==
  ASSUME NEW S, NEW s \in Seq(S), s # <<>>
  PROVE  /\ Tail(s) \in Seq(S)
         /\ 1 \in 1..Len(s) /\ Head(s) = s[1] /\ Head(s) \in S
         /\ \A i \in 1..Len(Tail(s)) : i + 1 \in 1..Len(s) /\ Tail(s)[i] = s[i + 1]
         /\ \A j \in 1..Len(s) :
              j = 1 \/ (j - 1 \in 1..Len(Tail(s)) /\ Tail(s)[j - 1] = s[j])
  OBVIOUS

-----------------------------------------------------------------------------
(* Type correctness.  SQTypeOK is not inductive: release() counts one more *)
(* processed CQE, which is within the visible ones because forEachCompletion *)
(* has one at hand as long as its callback runs.                            *)

\* The callback of a completion is running, possibly inside cancel().
InCallback == pc = "callback" \/ (pc = "flush" /\ caller = "callback")

Position == InCallback => seen < visible

TypeInv == SQTypeOK /\ Position

LEMMA TypeInit == SQInit => TypeInv
<1> SUFFICES ASSUME SQInit PROVE TypeInv
  OBVIOUS
<1> USE DEF SQInit
<1>1. sqFree \in Seq(Block \cup {NULL})
  <2> DEFINE S == Block \cup {NULL}
  <2>1. SqEntries \in Nat /\ sqFree \in [1..SqEntries -> S]
    BY SQAssumption
  <2> QED
    BY <2>1
<1>2. /\ mem \in [Block -> Request \cup {NULL}]
      /\ pending \in [Operation -> Seq(Block)]
      /\ inflight \in [Kreq -> Sqe \cup {NULL}]
  OBVIOUS
<1>3. visible \in 0..Len(cq) /\ visible <= CqEntries /\ seen \in 0..visible
  BY SQAssumption
<1>4. /\ pool \subseteq Block /\ lost \subseteq Block
      /\ cancelled \in BOOLEAN
  OBVIOUS
<1>6. /\ sq \in Seq(Sqe) /\ cq \in Seq(Cqe)
      /\ count \in Nat /\ cancels \in Nat
  OBVIOUS
<1>5. /\ status \in Status /\ pc \in Place /\ caller \in {"idle", "prepare", "callback"}
      /\ ~InCallback
  BY DEF Status, Place, InCallback
<1> QED
  BY <1>1, <1>2, <1>3, <1>4, <1>5, <1>6 DEF TypeInv, SQTypeOK, Position

\* Filling an SQE for a request of the pool, or reusing what is in the slot.
LEMMA FillType ==
  ASSUME SQTypeOK, NEW req \in Request \cup {NULL}, NEW user, FillSqe(req, user),
         user \in Block \/ user = Head(sqFree)
  PROVE  sq' \in Seq(Sqe) /\ sqFree' \in Seq(Block \cup {NULL})
<1> USE DEF SQTypeOK, FillSqe
<1>1. sqFree # <<>> /\ sqFree \in Seq(Block \cup {NULL})
  OBVIOUS
<1>2. Head(sqFree) \in Block \cup {NULL} /\ Tail(sqFree) \in Seq(Block \cup {NULL})
  BY <1>1
<1>3. [req |-> req, user |-> user] \in Sqe
  BY <1>2 DEF Sqe
<1> QED
  BY <1>2, <1>3

LEMMA TypeCalls ==
  ASSUME TypeInv,
         \/ \E op \in PushedOps, s \in Subscriber : Push(op, s)
         \/ Cancel \/ RetryCancel \/ Submit \/ Prepared
  PROVE  TypeInv'
<1> USE SQAssumption DEF TypeInv, SQTypeOK, Position, InCallback, Status, Place,
         callVars, histVars, ringVars, cqVars
<1>1. ASSUME NEW op \in PushedOps, NEW s \in Subscriber, Push(op, s) PROVE TypeInv'
  BY <1>1 DEF Push, Request
<1>2. CASE Cancel
  <2>1. CASE sqFree = <<>>
    BY <1>2, <2>1 DEF Cancel, FillSqe
  <2>2. CASE FillSqe(NULL, Head(sqFree)) /\ UNCHANGED callVars
    BY <1>2, <2>2, FillType DEF Cancel, FillSqe
  <2> QED
    BY <1>2, <2>1, <2>2 DEF Cancel
<1>3. CASE RetryCancel
  <2>1. CASE sqFree = <<>>
    BY <1>3, <2>1 DEF RetryCancel, FillSqe
  <2>2. CASE FillSqe(NULL, Head(sqFree))
    BY <1>3, <2>2, FillType DEF RetryCancel, FillSqe
  <2> QED
    BY <1>3, <2>1, <2>2 DEF RetryCancel
<1>4. CASE Submit
  BY <1>4 DEF Submit
<1>5. CASE Prepared
  BY <1>5 DEF Prepared
<1> QED
  BY <1>1, <1>2, <1>3, <1>4, <1>5

LEMMA TypeSubmit ==
  ASSUME TypeInv,
         \/ EndEnter \/ FlushOverflow
         \/ \E op \in Operation : Prepare(op) \/ PrepareFull(op) \/ Retry(op)
         \/ \E k \in Kreq : Consume(k)
  PROVE  TypeInv'
<1> USE SQAssumption DEF TypeInv, SQTypeOK, Position, InCallback, Status, Place,
         callVars, histVars, ringVars, cqVars
<1>1. CASE EndEnter
  BY <1>1 DEF EndEnter
<1>2. CASE FlushOverflow
  BY <1>2 DEF FlushOverflow
<1>3. ASSUME NEW op \in Operation, Prepare(op) PROVE TypeInv'
  <2>1. pending[op] \in Seq(Block) /\ pending[op] # <<>>
    BY <1>3 DEF Prepare, Visiting
  <2>2. Head(pending[op]) \in Block /\ Tail(pending[op]) \in Seq(Block)
    BY <2>1
  <2>3. mem[Head(pending[op])] \in Request \cup {NULL}
    BY <2>2
  <2>4. sq' \in Seq(Sqe) /\ sqFree' \in Seq(Block \cup {NULL})
    BY <1>3, <2>2, <2>3, FillType DEF Prepare
  <2>5. pending' \in [Operation -> Seq(Block)]
    <3>1. pending' = [pending EXCEPT ![op] = Tail(pending[op])]
      BY <1>3 DEF Prepare
    <3> QED
      BY <2>2, <3>1
  <2> QED
    BY <1>3, <2>4, <2>5 DEF Prepare, FillSqe
<1>4. ASSUME NEW op \in Operation, PrepareFull(op) PROVE TypeInv'
  BY <1>4 DEF PrepareFull
<1>5. ASSUME NEW op \in Operation, Retry(op) PROVE TypeInv'
  <2>1. pending[op] \in Seq(Block) /\ pending[op] # <<>>
    BY <1>5 DEF Retry, Visiting
  <2>2. Head(pending[op]) \in Block /\ Tail(pending[op]) \in Seq(Block)
    BY <2>1
  <2>3. pending' \in [Operation -> Seq(Block)] /\ lost' \subseteq Block /\ count' \in Nat
    <3>1. CASE UNCHANGED <<pending, count, lost>>
      BY <3>1
    <3>2. CASE /\ pending' = [pending EXCEPT ![op] = Tail(pending[op])]
               /\ count' = count + 1 /\ lost' = lost \cup {Head(pending[op])}
      BY <2>2, <3>2
    <3> QED
      BY <1>5, <3>1, <3>2 DEF Retry
  <2> QED
    BY <1>5, <2>3 DEF Retry
<1>6. ASSUME NEW k \in Kreq, Consume(k) PROVE TypeInv'
  <2>1. Head(sq) \in Sqe /\ Tail(sq) \in Seq(Sqe)
    BY <1>6 DEF Consume
  <2>2. Head(sq).user \in Block \cup {NULL}
    BY <2>1 DEF Sqe
  <2>3. sqFree' \in Seq(Block \cup {NULL})
    BY <1>6, <2>2 DEF Consume
  <2>4. inflight' \in [Kreq -> Sqe \cup {NULL}] /\ sq' \in Seq(Sqe)
    BY <1>6, <2>1 DEF Consume
  <2> QED
    BY <1>6, <2>3, <2>4 DEF Consume
<1> QED
  BY <1>1, <1>2, <1>3, <1>4, <1>5, <1>6

LEMMA TypePost ==
  ASSUME TypeInv, NEW k \in Kreq, NEW res \in Result, NEW flags \in Flags,
         NEW more \in BOOLEAN, Post(k, res, flags, more)
  PROVE  TypeInv'
<1> USE SQAssumption DEF TypeInv, SQTypeOK, Post
<1> DEFINE new == [req |-> inflight[k].req, user |-> inflight[k].user,
                   res |-> res, flags |-> flags, more |-> more]
<1>1. inflight[k] \in Sqe
  OBVIOUS
<1>2. new \in Cqe
  BY <1>1 DEF Sqe, Cqe
<1>3. cq' \in Seq(Cqe) /\ Len(cq') = Len(cq) + 1
  BY <1>2
<1>4. inflight' \in [Kreq -> Sqe \cup {NULL}]
  OBVIOUS
<1>5. visible' \in 0..Len(cq') /\ visible' <= CqEntries /\ visible' >= visible
  BY <1>3 DEF Room
<1>6. seen' \in 0..visible' /\ Position'
  BY <1>5 DEF Position, InCallback, callVars
<1> QED
  BY <1>3, <1>4, <1>5, <1>6 DEF callVars, histVars

LEMMA TypeReap ==
  ASSUME TypeInv, Reap \/ Take \/ Release \/ EndReap \/ Advance
  PROVE  TypeInv'
<1> USE SQAssumption DEF TypeInv, SQTypeOK, Position, InCallback, Status, Place,
         callVars, histVars, ringVars, cqVars
<1>1. CASE Reap
  BY <1>1 DEF Reap
<1>2. CASE Take
  BY <1>2 DEF Take
<1>3. CASE Release
  <2>1. pool' \subseteq Block /\ cancelled' \in BOOLEAN
    BY <1>3 DEF Release
  <2>2. seen' \in 0..visible' /\ visible' = visible /\ pc' \in {"reap", "crashed"}
    BY <1>3 DEF Release
  <2> QED
    BY <1>3, <2>1, <2>2 DEF Release
<1>4. CASE EndReap
  BY <1>4 DEF EndReap
<1>5. CASE Advance
  <2>1. cq' \in Seq(Cqe) /\ Len(cq') = Len(cq) - seen
    BY <1>5 DEF Advance
  <2>2. visible' \in 0..Len(cq') /\ visible' <= CqEntries /\ seen' \in 0..visible'
    BY <1>5, <2>1 DEF Advance
  <2> QED
    BY <1>5, <2>1, <2>2 DEF Advance
<1> QED
  BY <1>1, <1>2, <1>3, <1>4, <1>5

LEMMA TypeStep == TypeInv /\ [SQNext]_sqvars => TypeInv'
<1> SUFFICES ASSUME TypeInv, [SQNext]_sqvars PROVE TypeInv'
  OBVIOUS
<1>1. CASE UNCHANGED sqvars
  BY <1>1 DEF TypeInv, SQTypeOK, Position, InCallback, sqvars, callVars, histVars, ringVars, cqVars
<1>2. CASE Kernel
  BY <1>2, TypePost DEF Kernel
<1> QED
  BY <1>1, <1>2, TypeCalls, TypeSubmit, TypeReap DEF SQNext

(* Every variable keeps its type: in particular the number of processed     *)
(* CQEs never exceeds the visible ones, nor these the completion ring, so   *)
(* that io_uring_cq_advance never passes the kernel's tail.                 *)
THEOREM TypeCorrect == SQSpec => []SQTypeOK
<1>1. SQSpec => []TypeInv
  BY TypeInit, TypeStep, PTL DEF SQSpec
<1>2. TypeInv => SQTypeOK
  BY DEF TypeInv
<1> QED
  BY <1>1, <1>2, PTL

-----------------------------------------------------------------------------
(* Safety of the blocks.  The three properties hold together or not at all: *)
(* a pointer stays live because release() frees a block nobody else uses    *)
(* (ExclusiveBlocks), which holds because push() gets a block nobody points *)
(* to (PointersLive).  Nothing more is needed than the type invariant and   *)
(* the fact that an allocated block has been written.                       *)

Written == \A b \in pool : mem[b] \in Request

Safe == PointersLive /\ ExclusiveBlocks /\ NoLeak

SafeInv == TypeInv /\ Written /\ Safe

LEMMA SafeInit == SQInit => SafeInv
<1> SUFFICES ASSUME SQInit PROVE SafeInv
  OBVIOUS
<1> USE DEF SQInit
<1>1. \A o \in Operation : pending[o] = <<>>
  OBVIOUS
<1>2. /\ \A b : ~InPending(b) /\ ~InSq(b) /\ ~InKernel(b) /\ ~InCq(b)
      /\ \A o \in Operation : 1..Len(pending[o]) = {}
      /\ 1..Len(sq) = {} /\ seen + 1 .. Len(cq) = {}
  BY <1>1 DEF InPending, InSq, InKernel, InCq
<1>3. PointersLive /\ NoLeak /\ Written
  BY <1>2 DEF PointersLive, NoLeak, Written
<1>4. ExclusiveBlocks
  BY <1>2 DEF ExclusiveBlocks, UniquePending, UniqueSqe, UniqueOperation, UniqueCqe, OneStage
<1> QED
  BY <1>3, <1>4, TypeInit DEF SafeInv, Safe

\* A step leaves the request of c where it is; it moves that of b at most.
Unmoved(c) ==
  /\ InPending(c)' <=> InPending(c)
  /\ InSq(c)' <=> InSq(c)
  /\ InKernel(c)' <=> InKernel(c)
  /\ InCq(c)' <=> InCq(c)

OnlyMoves(b) == \A c \in Block : c # b => Unmoved(c)

NothingMoves == \A c \in Block : Unmoved(c)

\* The steps that move no request.
LEMMA SafeFrame ==
  ASSUME SafeInv, UNCHANGED <<pool, mem, pending, sq, inflight, cq, seen, lost, cancelled>>
  PROVE  Written' /\ Safe' /\ NothingMoves
<1>1. NothingMoves
  BY DEF NothingMoves, Unmoved, InPending, InSq, InKernel, InCq, Of
<1> QED
  BY <1>1 DEF SafeInv, Safe, Written, PointersLive, ExclusiveBlocks, NoLeak, UniquePending,
         UniqueSqe, UniqueOperation, UniqueCqe, OneStage, InPending, InSq, InKernel, InCq,
         Points, Alike, Of

PushMoves ==
  \E b \in Block \ pool, r \in Request :
    /\ pool' = pool \cup {b} /\ mem' = [mem EXCEPT ![b] = r]
    /\ InPending(b)' /\ OnlyMoves(b)

LEMMA SafePush ==
  ASSUME SafeInv, ~cancelled, NEW op \in PushedOps, NEW s \in Subscriber, Push(op, s)
  PROVE  Written' /\ Safe' /\ PushMoves
<1>1. PICK b \in Block \ pool :
        /\ pool' = pool \cup {b}
        /\ mem' = [mem EXCEPT ![b] = [op |-> op, sub |-> s]]
        /\ pending' = [pending EXCEPT ![op] = Append(@, b)]
  BY DEF Push
<1>2. /\ UNCHANGED <<sq, inflight, cq, seen, lost, cancelled>>
      /\ pool \subseteq Block
      /\ mem \in [Block -> Request \cup {NULL}]
      /\ pending \in [Operation -> Seq(Block)]
      /\ op \in Operation
  BY SQAssumption DEF Push, ringVars, cqVars, histVars, SafeInv, TypeInv, SQTypeOK
<1>3. /\ PointersLive /\ NoLeak /\ Written
      /\ UniquePending /\ UniqueSqe /\ UniqueOperation /\ UniqueCqe /\ OneStage
  BY DEF SafeInv, Safe, ExclusiveBlocks
<1>4. /\ \A c \in Block : c # b => mem'[c] = mem[c]
      /\ mem'[b] \in Request /\ mem'[b].op = op
  BY <1>1, <1>2 DEF Request
<1>5. Written'
  BY <1>1, <1>2, <1>3, <1>4 DEF Written
<1>6. /\ pending'[op] = Append(pending[op], b) /\ pending[op] \in Seq(Block)
      /\ \A o \in Operation : o # op => pending'[o] = pending[o]
  BY <1>1, <1>2
<1>7. /\ Len(pending[op]) \in Nat /\ Len(pending'[op]) = Len(pending[op]) + 1
      /\ pending'[op][Len(pending[op]) + 1] = b
      /\ \A i \in 1..Len(pending[op]) : i \in 1..Len(pending'[op]) /\ pending'[op][i] = pending[op][i]
      /\ \A i \in 1..Len(pending'[op]) : i \in 1..Len(pending[op]) \/ i = Len(pending[op]) + 1
  BY <1>1, <1>6, AppendFacts
<1>8. ~InPending(b) /\ ~InSq(b) /\ ~InKernel(b) /\ ~InCq(b)
  BY <1>1, <1>3 DEF PointersLive, Points, InPending, InSq, InKernel, InCq, Of
<1>9. \A c : InPending(c)' <=> InPending(c) \/ c = b
  <2>1. ASSUME NEW c, InPending(c)' PROVE InPending(c) \/ c = b
    <3>1. PICK o \in Operation : \E i \in 1..Len(pending'[o]) : pending'[o][i] = c
      BY <2>1 DEF InPending
    <3>2. CASE o = op
      BY <1>7, <3>1, <3>2 DEF InPending
    <3>3. CASE o # op
      BY <1>6, <3>1, <3>3 DEF InPending
    <3> QED
      BY <3>2, <3>3
  <2>2. ASSUME NEW c, InPending(c) PROVE InPending(c)'
    <3>1. PICK o \in Operation : \E i \in 1..Len(pending[o]) : pending[o][i] = c
      BY <2>2 DEF InPending
    <3>2. CASE o = op
      BY <1>7, <3>1, <3>2 DEF InPending
    <3>3. CASE o # op
      BY <1>6, <3>1, <3>3 DEF InPending
    <3> QED
      BY <3>2, <3>3
  <2>3. InPending(b)'
    <3>1. Len(pending[op]) + 1 \in 1..Len(pending'[op])
      BY <1>7
    <3> QED
      BY <1>2, <1>7, <3>1 DEF InPending
  <2> QED
    BY <2>1, <2>2, <2>3
<1>10. \A c : /\ InSq(c)' <=> InSq(c)
              /\ InKernel(c)' <=> InKernel(c)
              /\ InCq(c)' <=> InCq(c)
  BY <1>2 DEF InSq, InKernel, InCq, Of
<1>11. PointersLive'
  <2>1. \A e : Points(e) => Points(e)'
    BY <1>1, <1>2, <1>4 DEF Points
  <2>2. \A o \in Operation : \A i \in 1..Len(pending'[o]) :
          pending'[o][i] \in pool' /\ mem'[pending'[o][i]].op = o
    BY <1>1, <1>2, <1>3, <1>4, <1>6, <1>7 DEF PointersLive
  <2> QED
    BY <1>2, <1>3, <2>1, <2>2 DEF PointersLive
<1>12. UniquePending'
  <2>1. \A i \in 1..Len(pending[op]) : pending[op][i] # b
    BY <1>2, <1>8 DEF InPending
  <2>2. ASSUME NEW o \in Operation, NEW i \in 1..Len(pending'[o]), NEW j \in 1..Len(pending'[o]),
               pending'[o][i] = pending'[o][j]
        PROVE  i = j
    <3>1. CASE o = op
      BY <1>2, <1>3, <1>7, <2>1, <2>2, <3>1 DEF UniquePending
    <3>2. CASE o # op
      BY <1>3, <1>6, <2>2, <3>2 DEF UniquePending
    <3> QED
      BY <3>1, <3>2
  <2> QED
    BY <2>2 DEF UniquePending
<1>13. UniqueSqe' /\ UniqueOperation' /\ UniqueCqe'
  <2>1. UniqueSqe'
    BY <1>2, <1>3 DEF UniqueSqe, Alike
  <2>2. UniqueOperation'
    BY <1>2, <1>3 DEF UniqueOperation, Alike
  <2>3. UniqueCqe'
    BY <1>2, <1>3 DEF UniqueCqe, Alike
  <2> QED
    BY <2>1, <2>2, <2>3
<1>14. OneStage'
  BY <1>3, <1>4, <1>8, <1>9, <1>10 DEF OneStage
<1>15. NoLeak'
  BY <1>1, <1>2, <1>3, <1>4, <1>9, <1>10 DEF NoLeak
<1>16. PushMoves
  BY <1>1, <1>2, <1>4, <1>9, <1>10, SQAssumption DEF PushMoves, OnlyMoves, Unmoved, Request
<1> QED
  BY <1>5, <1>11, <1>12, <1>13, <1>14, <1>15, <1>16 DEF Safe, ExclusiveBlocks

\* What holds of the vectors once the head of one of them has been visited.
LEMMA PopPending ==
  ASSUME SafeInv, ~cancelled, NEW op \in Operation, pending[op] # <<>>,
         pending' = [pending EXCEPT ![op] = Tail(@)], UNCHANGED <<pool, mem>>
  PROVE  /\ Head(pending[op]) \in pool /\ mem[Head(pending[op])].op = op
         /\ InPending(Head(pending[op]))
         /\ \A c : InPending(c)' <=> InPending(c) /\ c # Head(pending[op])
         /\ \A o \in Operation : \A i \in 1..Len(pending'[o]) :
              pending'[o][i] \in pool' /\ mem'[pending'[o][i]].op = o
         /\ UniquePending'
<1> DEFINE h == Head(pending[op])
<1>1. pending \in [Operation -> Seq(Block)]
  BY DEF SafeInv, TypeInv, SQTypeOK
<1>2. /\ UniquePending
      /\ \A o \in Operation : \A i \in 1..Len(pending[o]) :
           pending[o][i] \in pool /\ mem[pending[o][i]].op = o
  BY DEF SafeInv, Safe, ExclusiveBlocks, PointersLive
<1>3. /\ pending'[op] = Tail(pending[op]) /\ pending[op] \in Seq(Block)
      /\ \A o \in Operation : o # op => pending'[o] = pending[o]
  BY <1>1
<1>4. /\ 1 \in 1..Len(pending[op]) /\ h = pending[op][1]
      /\ \A i \in 1..Len(pending'[op]) :
           i + 1 \in 1..Len(pending[op]) /\ pending'[op][i] = pending[op][i + 1]
      /\ \A j \in 1..Len(pending[op]) :
           j = 1 \/ (j - 1 \in 1..Len(pending'[op]) /\ pending'[op][j - 1] = pending[op][j])
  <2> DEFINE p == pending[op]
  <2>1. p \in Seq(Block) /\ p # <<>>
    BY <1>3
  <2>2. pending'[op] = Tail(p) /\ h = Head(p)
    BY <1>3
  <2> HIDE DEF p, h
  <2>3. /\ 1 \in 1..Len(p) /\ Head(p) = p[1]
        /\ \A i \in 1..Len(Tail(p)) : i + 1 \in 1..Len(p) /\ Tail(p)[i] = p[i + 1]
        /\ \A j \in 1..Len(p) : j = 1 \/ (j - 1 \in 1..Len(Tail(p)) /\ Tail(p)[j - 1] = p[j])
    BY <2>1, TailFacts
  <2> QED
    BY <2>2, <2>3 DEF p
<1>5. h \in pool /\ mem[h].op = op /\ InPending(h)
  BY <1>2, <1>4 DEF InPending
<1>6. ASSUME NEW o \in Operation, NEW i \in 1..Len(pending'[o])
      PROVE  /\ \E j \in 1..Len(pending[o]) : pending[o][j] = pending'[o][i]
             /\ pending'[o][i] # h
  <2>1. CASE o = op
    <3>1. i \in Nat /\ i + 1 # 1 /\ i + 1 \in 1..Len(pending[op])
      BY <1>4, <2>1
    <3>2. pending'[op][i] = pending[op][i + 1]
      BY <1>4, <2>1
    <3>3. pending[op][i + 1] # pending[op][1]
      BY <1>2, <1>4, <3>1 DEF UniquePending
    <3> QED
      BY <1>4, <2>1, <3>1, <3>2, <3>3
  <2>2. CASE o # op
    BY <1>2, <1>3, <1>5, <2>2
  <2> QED
    BY <2>1, <2>2
<1>7. ASSUME NEW c, InPending(c), c # h PROVE InPending(c)'
  <2>1. PICK o \in Operation : \E i \in 1..Len(pending[o]) : pending[o][i] = c
    BY <1>7 DEF InPending
  <2>2. CASE o = op
    <3>1. PICK j \in 1..Len(pending[op]) : pending[op][j] = c
      BY <2>1, <2>2
    <3>2. j - 1 \in 1..Len(pending'[op]) /\ pending'[op][j - 1] = c
      BY <1>4, <1>7, <3>1
    <3> QED
      BY <3>2 DEF InPending
  <2>3. CASE o # op
    BY <1>3, <2>1, <2>3 DEF InPending
  <2> QED
    BY <2>2, <2>3
<1>8. \A c : InPending(c)' <=> InPending(c) /\ c # h
  <2>1. ASSUME NEW c, InPending(c)' PROVE InPending(c) /\ c # h
    <3>1. PICK o \in Operation : \E i \in 1..Len(pending'[o]) : pending'[o][i] = c
      BY <2>1 DEF InPending
    <3>2. PICK i \in 1..Len(pending'[o]) : pending'[o][i] = c
      BY <3>1
    <3>3. (\E j \in 1..Len(pending[o]) : pending[o][j] = c) /\ c # h
      BY <1>6, <3>2
    <3> QED
      BY <3>3 DEF InPending
  <2> QED
    BY <1>7, <2>1
<1>9. \A o \in Operation : \A i \in 1..Len(pending'[o]) :
        pending'[o][i] \in pool' /\ mem'[pending'[o][i]].op = o
  BY <1>2, <1>6
<1>10. UniquePending'
  <2>1. ASSUME NEW o \in Operation, NEW i \in 1..Len(pending'[o]), NEW j \in 1..Len(pending'[o]),
               pending'[o][i] = pending'[o][j]
        PROVE  i = j
    <3>1. CASE o = op
      <4>1. /\ i + 1 \in 1..Len(pending[op]) /\ j + 1 \in 1..Len(pending[op])
            /\ pending[op][i + 1] = pending[op][j + 1]
        BY <1>4, <2>1, <3>1
      <4>2. i + 1 = j + 1 /\ i \in Int /\ j \in Int
        BY <1>2, <4>1 DEF UniquePending
      <4> QED
        BY <4>2
    <3>2. CASE o # op
      BY <1>2, <1>3, <2>1, <3>2 DEF UniquePending
    <3> QED
      BY <3>1, <3>2
  <2> QED
    BY <2>1 DEF UniquePending
<1> QED
  BY <1>5, <1>8, <1>9, <1>10

\* What holds of the submission queue once one more SQE has been filled.
LEMMA FillEffect ==
  ASSUME SafeInv, ~cancelled, NEW req \in Request \cup {NULL}, NEW user,
         FillSqe(req, user), user \in Block \/ user = Head(sqFree),
         req # NULL => ~InSq(user)
  PROVE  /\ \A c : InSq(c)' <=> InSq(c) \/ (req # NULL /\ c = user)
         /\ \A i \in 1..Len(sq') :
              (\E j \in 1..Len(sq) : sq'[i] = sq[j]) \/ sq'[i] = [req |-> req, user |-> user]
         /\ UniqueSqe'
<1> DEFINE new == [req |-> req, user |-> user]
<1>1. sq \in Seq(Sqe) /\ sq' = Append(sq, new) /\ UniqueSqe
  BY DEF SafeInv, Safe, ExclusiveBlocks, TypeInv, SQTypeOK, FillSqe
<1>2. new \in Sqe
  <2>1. Head(sqFree) \in Block \cup {NULL}
    BY DEF SafeInv, TypeInv, SQTypeOK, FillSqe
  <2> QED
    BY <2>1 DEF Sqe
<1>3. /\ Len(sq) \in Nat /\ Len(sq') = Len(sq) + 1
      /\ sq'[Len(sq) + 1] = new
      /\ \A i \in 1..Len(sq) : i \in 1..Len(sq') /\ sq'[i] = sq[i]
      /\ \A i \in 1..Len(sq') : i \in 1..Len(sq) \/ i = Len(sq) + 1
  <2> HIDE DEF new
  <2> QED
    BY <1>1, <1>2, AppendFacts
<1>4. Len(sq) + 1 \in 1..Len(sq')
  BY <1>3
<1>5. \A c : InSq(c)' <=> InSq(c) \/ (req # NULL /\ c = user)
  <2>1. \A c : Of(new, c) <=> req # NULL /\ c = user
    BY DEF Of
  <2> HIDE DEF new
  <2>2. ASSUME NEW c, InSq(c)' PROVE InSq(c) \/ Of(new, c)
    <3>1. PICK i \in 1..Len(sq') : Of(sq'[i], c)
      BY <2>2 DEF InSq, Of
    <3> QED
      BY <1>3, <3>1 DEF InSq
  <2>3. ASSUME NEW c, InSq(c) \/ Of(new, c) PROVE InSq(c)'
    BY <1>3, <1>4, <2>3 DEF InSq, Of
  <2> QED
    BY <2>1, <2>2, <2>3
<1>6. UniqueSqe'
  <2>1. \A i \in 1..Len(sq) : ~Alike(sq[i], new) /\ ~Alike(new, sq[i])
    BY DEF Alike, InSq, Of
  <2> HIDE DEF new
  <2>2. ASSUME NEW i \in 1..Len(sq'), NEW j \in 1..Len(sq'), Alike(sq'[i], sq'[j])
        PROVE  i = j
    BY <1>1, <1>3, <2>1, <2>2 DEF UniqueSqe
  <2> QED
    BY <2>2 DEF UniqueSqe, Alike
<1>7. \A i \in 1..Len(sq') : (\E j \in 1..Len(sq) : sq'[i] = sq[j]) \/ sq'[i] = new
  <2> HIDE DEF new
  <2> QED
    BY <1>3
<1> QED
  BY <1>5, <1>6, <1>7

PrepareMoves == \E b \in pool : InPending(b) /\ InSq(b)' /\ OnlyMoves(b)

LEMMA SafePrepare ==
  ASSUME SafeInv, ~cancelled, NEW op \in Operation, Prepare(op)
  PROVE  Written' /\ Safe' /\ PrepareMoves
<1> DEFINE h == Head(pending[op])
<1>1. /\ pending' = [pending EXCEPT ![op] = Tail(@)] /\ pending[op] # <<>>
      /\ UNCHANGED <<pool, mem, inflight, cq, seen, lost, cancelled>>
      /\ FillSqe(mem[h], h)
  BY DEF Prepare, Visiting, FillSqe, cqVars, histVars
<1>2. /\ PointersLive /\ NoLeak /\ Written
      /\ UniquePending /\ UniqueSqe /\ UniqueOperation /\ UniqueCqe /\ OneStage
      /\ pool \subseteq Block
  BY DEF SafeInv, Safe, ExclusiveBlocks, TypeInv, SQTypeOK
<1>3. /\ h \in pool /\ mem[h].op = op /\ InPending(h)
      /\ \A c : InPending(c)' <=> InPending(c) /\ c # h
      /\ \A o \in Operation : \A i \in 1..Len(pending'[o]) :
           pending'[o][i] \in pool' /\ mem'[pending'[o][i]].op = o
      /\ UniquePending'
  BY <1>1, PopPending
<1>4. h \in Block /\ mem[h] \in Request /\ mem[h] # NULL /\ ~InSq(h)
  BY <1>2, <1>3, SQAssumption DEF Written, OneStage
<1>5. /\ \A c : InSq(c)' <=> InSq(c) \/ c = h
      /\ \A i \in 1..Len(sq') :
           (\E j \in 1..Len(sq) : sq'[i] = sq[j]) \/ sq'[i] = [req |-> mem[h], user |-> h]
      /\ UniqueSqe'
  <2> HIDE DEF h
  <2> QED
    BY <1>1, <1>4, FillEffect
<1> HIDE DEF h
<1>6. \A c : (InKernel(c)' <=> InKernel(c)) /\ (InCq(c)' <=> InCq(c))
  BY <1>1 DEF InKernel, InCq, Of
<1>7. PointersLive'
  <2>2. Points([req |-> mem[h], user |-> h])
    BY <1>3 DEF Points
  <2>3. (\A i \in 1..Len(sq) : Points(sq[i]))'
    BY <1>1, <1>2, <1>5, <2>2 DEF PointersLive, Points
  <2>4. (\A k \in Kreq : inflight[k] # NULL => Points(inflight[k]))'
    BY <1>1, <1>2 DEF PointersLive, Points
  <2>5. (\A i \in seen + 1 .. Len(cq) : Points(cq[i]))'
    BY <1>1, <1>2 DEF PointersLive, Points
  <2> QED
    BY <1>3, <2>3, <2>4, <2>5 DEF PointersLive
<1>8. UniqueOperation' /\ UniqueCqe' /\ Written'
  BY <1>1, <1>2 DEF UniqueOperation, UniqueCqe, Alike, Written
<1>9. OneStage'
  BY <1>1, <1>2, <1>3, <1>5, <1>6 DEF OneStage
<1>10. NoLeak'
  BY <1>1, <1>2, <1>3, <1>5, <1>6 DEF NoLeak
<1>11. PrepareMoves
  BY <1>3, <1>5, <1>6 DEF PrepareMoves, OnlyMoves, Unmoved
<1> QED
  BY <1>3, <1>5, <1>7, <1>8, <1>9, <1>10, <1>11 DEF Safe, ExclusiveBlocks

LEMMA SafeFillCancel ==
  ASSUME SafeInv, ~cancelled, FillSqe(NULL, Head(sqFree)),
         UNCHANGED <<pool, mem, pending, inflight, cq, seen, lost, cancelled>>
  PROVE  Written' /\ Safe' /\ NothingMoves
<1>1. /\ PointersLive /\ NoLeak /\ Written
      /\ UniquePending /\ UniqueSqe /\ UniqueOperation /\ UniqueCqe /\ OneStage
  BY DEF SafeInv, Safe, ExclusiveBlocks
<1>2. /\ \A c : InSq(c)' <=> InSq(c)
      /\ \A i \in 1..Len(sq') :
           (\E j \in 1..Len(sq) : sq'[i] = sq[j]) \/ sq'[i] = [req |-> NULL, user |-> Head(sqFree)]
      /\ UniqueSqe'
  BY FillEffect
<1>3. \A c : /\ InPending(c)' <=> InPending(c)
             /\ InKernel(c)' <=> InKernel(c)
             /\ InCq(c)' <=> InCq(c)
  BY DEF InPending, InKernel, InCq, Of
<1>4. PointersLive'
  <2>1. (\A i \in 1..Len(sq) : Points(sq[i]))'
    BY <1>1, <1>2 DEF PointersLive, Points
  <2>2. (\A k \in Kreq : inflight[k] # NULL => Points(inflight[k]))'
    BY <1>1 DEF PointersLive, Points
  <2>3. (\A i \in seen + 1 .. Len(cq) : Points(cq[i]))'
    BY <1>1 DEF PointersLive, Points
  <2> QED
    BY <1>1, <2>1, <2>2, <2>3 DEF PointersLive
<1>5. UniquePending' /\ UniqueOperation' /\ UniqueCqe' /\ Written'
  BY <1>1 DEF UniquePending, UniqueOperation, UniqueCqe, Alike, Written
<1>6. OneStage' /\ NoLeak'
  BY <1>1, <1>2, <1>3 DEF OneStage, NoLeak
<1>7. NothingMoves
  BY <1>2, <1>3 DEF NothingMoves, Unmoved
<1> QED
  BY <1>2, <1>4, <1>5, <1>6, <1>7 DEF Safe, ExclusiveBlocks

RetryMoves ==
  \/ NothingMoves /\ lost' = lost
  \/ \E b \in pool : /\ InPending(b) /\ ~InPending(b)' /\ OnlyMoves(b)
                     /\ ~InSq(b)' /\ ~InKernel(b)' /\ ~InCq(b)'
                     /\ lost' = lost \cup {b}

LEMMA SafeRetry ==
  ASSUME SafeInv, ~cancelled, NEW op \in Operation, Retry(op)
  PROVE  Written' /\ Safe' /\ RetryMoves
<1>1. UNCHANGED <<pool, mem, sq, inflight, cq, seen, cancelled>> /\ pending[op] # <<>>
  BY DEF Retry, Visiting, ringVars, cqVars
<1>2. CASE UNCHANGED <<pending, lost>>
  BY <1>1, <1>2, SafeFrame DEF RetryMoves
<1>3. CASE pending' = [pending EXCEPT ![op] = Tail(@)] /\ lost' = lost \cup {Head(pending[op])}
  <2> DEFINE h == Head(pending[op])
  <2>1. /\ PointersLive /\ NoLeak /\ Written
        /\ UniqueSqe /\ UniqueOperation /\ UniqueCqe /\ OneStage
    BY DEF SafeInv, Safe, ExclusiveBlocks
  <2>2. /\ \A c : InPending(c)' <=> InPending(c) /\ c # h
        /\ \A o \in Operation : \A i \in 1..Len(pending'[o]) :
             pending'[o][i] \in pool' /\ mem'[pending'[o][i]].op = o
        /\ UniquePending'
    BY <1>1, <1>3, PopPending
  <2>3. lost' = lost \cup {h}
    BY <1>3
  <2> HIDE DEF h
  <2>4. \A c : /\ InSq(c)' <=> InSq(c)
               /\ InKernel(c)' <=> InKernel(c)
               /\ InCq(c)' <=> InCq(c)
    BY <1>1 DEF InSq, InKernel, InCq, Of
  <2>5. PointersLive'
    <3>1. (\A i \in 1..Len(sq) : Points(sq[i]))'
      BY <1>1, <2>1 DEF PointersLive, Points
    <3>2. (\A k \in Kreq : inflight[k] # NULL => Points(inflight[k]))'
      BY <1>1, <2>1 DEF PointersLive, Points
    <3>3. (\A i \in seen + 1 .. Len(cq) : Points(cq[i]))'
      BY <1>1, <2>1 DEF PointersLive, Points
    <3> QED
      BY <2>2, <3>1, <3>2, <3>3 DEF PointersLive
  <2>6. UniqueSqe' /\ UniqueOperation' /\ UniqueCqe' /\ Written'
    BY <1>1, <2>1 DEF UniqueSqe, UniqueOperation, UniqueCqe, Alike, Written
  <2>7. OneStage'
    BY <1>1, <2>1, <2>2, <2>4 DEF OneStage
  <2>8. NoLeak'
    BY <1>1, <2>1, <2>2, <2>3, <2>4 DEF NoLeak
  <2>9. h \in pool /\ InPending(h) /\ ~InSq(h) /\ ~InKernel(h) /\ ~InCq(h)
    <3>1. h \in pool /\ InPending(h)
      BY <1>1, <1>3, PopPending DEF h
    <3> QED
      BY <2>1, <3>1 DEF OneStage, SafeInv, TypeInv, SQTypeOK
  <2>10. RetryMoves
    BY <2>2, <2>3, <2>4, <2>9 DEF RetryMoves, OnlyMoves, Unmoved
  <2> QED
    BY <2>2, <2>5, <2>6, <2>7, <2>8, <2>10 DEF Safe, ExclusiveBlocks
<1> QED
  BY <1>2, <1>3 DEF Retry

ConsumeMoves ==
  \/ NothingMoves
  \/ \E b \in pool : InSq(b) /\ InKernel(b)' /\ OnlyMoves(b)

LEMMA SafeConsume ==
  ASSUME SafeInv, ~cancelled, NEW k \in Kreq, Consume(k)
  PROVE  Written' /\ Safe' /\ ConsumeMoves
<1> DEFINE h == Head(sq)
<1>1. /\ UNCHANGED <<pool, mem, pending, cq, seen, lost, cancelled>>
      /\ sq' = Tail(sq) /\ sq # <<>> /\ sq \in Seq(Sqe)
      /\ inflight[k] = NULL /\ inflight' = [inflight EXCEPT ![k] = h]
      /\ inflight \in [Kreq -> Sqe \cup {NULL}]
  BY DEF Consume, cqVars, histVars, SafeInv, TypeInv, SQTypeOK
<1>2. /\ PointersLive /\ NoLeak /\ Written
      /\ UniquePending /\ UniqueSqe /\ UniqueOperation /\ UniqueCqe /\ OneStage
      /\ pool \subseteq Block
  BY DEF SafeInv, Safe, ExclusiveBlocks, TypeInv, SQTypeOK
<1>3. /\ h \in Sqe /\ 1 \in 1..Len(sq) /\ h = sq[1]
      /\ \A i \in 1..Len(sq') : i + 1 \in 1..Len(sq) /\ sq'[i] = sq[i + 1]
      /\ \A j \in 1..Len(sq) : j = 1 \/ (j - 1 \in 1..Len(sq') /\ sq'[j - 1] = sq[j])
  BY <1>1, TailFacts
<1> HIDE DEF h
<1>4. /\ inflight'[k] = h /\ h # NULL
      /\ \A l \in Kreq : l # k => inflight'[l] = inflight[l]
  BY <1>1, <1>3, SQAssumption
<1>5. \A i \in 1..Len(sq') : ~Alike(h, sq'[i])
  <2>1. ASSUME NEW i \in 1..Len(sq'), Alike(h, sq'[i]) PROVE FALSE
    <3>1. i + 1 \in 1..Len(sq) /\ sq'[i] = sq[i + 1] /\ i + 1 # 1
      BY <1>3
    <3>2. Alike(sq[1], sq[i + 1])
      BY <1>3, <2>1, <3>1
    <3> QED
      BY <1>2, <1>3, <3>1, <3>2 DEF UniqueSqe
  <2> QED
    BY <2>1
<1>6. \A c : /\ InSq(c) <=> InSq(c)' \/ Of(h, c)
             /\ ~(InSq(c)' /\ Of(h, c))
  <2>1. ASSUME NEW c, InSq(c) PROVE InSq(c)' \/ Of(h, c)
    <3>1. PICK j \in 1..Len(sq) : Of(sq[j], c)
      BY <2>1 DEF InSq
    <3> QED
      BY <1>3, <3>1 DEF InSq, Of
  <2>2. ASSUME NEW c, InSq(c)' PROVE InSq(c) /\ ~Of(h, c)
    <3>1. PICK j \in 1..Len(sq') : Of(sq'[j], c)
      BY <2>2 DEF InSq, Of
    <3>2. Of(sq[j + 1], c) /\ j + 1 \in 1..Len(sq)
      BY <1>3, <3>1
    <3>3. ~Of(h, c)
      BY <1>5, <3>1 DEF Of, Alike
    <3> QED
      BY <3>2, <3>3 DEF InSq
  <2>3. ASSUME NEW c, Of(h, c) PROVE InSq(c)
    BY <1>3, <2>3 DEF InSq
  <2> QED
    BY <2>1, <2>2, <2>3
<1>7. \A c : InKernel(c)' <=> InKernel(c) \/ Of(h, c)
  BY <1>1, <1>4 DEF InKernel, Of
<1>8. \A c : /\ InPending(c)' <=> InPending(c)
             /\ InCq(c)' <=> InCq(c)
  BY <1>1 DEF InPending, InCq, Of
<1>9. PointersLive'
  <2>1. (\A i \in 1..Len(sq) : Points(sq[i]))'
    BY <1>1, <1>2, <1>3 DEF PointersLive, Points
  <2>2. Points(h)
    BY <1>2, <1>3 DEF PointersLive
  <2>3. (\A l \in Kreq : inflight[l] # NULL => Points(inflight[l]))'
    BY <1>1, <1>2, <1>4, <2>2 DEF PointersLive, Points
  <2>4. (\A i \in seen + 1 .. Len(cq) : Points(cq[i]))'
    BY <1>1, <1>2 DEF PointersLive, Points
  <2> QED
    BY <1>1, <1>2, <2>1, <2>3, <2>4 DEF PointersLive
<1>10. UniqueSqe'
  <2>1. ASSUME NEW i \in 1..Len(sq'), NEW j \in 1..Len(sq'), Alike(sq'[i], sq'[j]) PROVE i = j
    <3>1. /\ i + 1 \in 1..Len(sq) /\ j + 1 \in 1..Len(sq)
          /\ Alike(sq[i + 1], sq[j + 1])
      BY <1>3, <2>1
    <3>2. i + 1 = j + 1 /\ i \in Int /\ j \in Int
      BY <1>2, <3>1 DEF UniqueSqe
    <3> QED
      BY <3>2
  <2> QED
    BY <2>1 DEF UniqueSqe, Alike
<1>11. UniqueOperation'
  <2>1. ASSUME NEW l \in Kreq, l # k, inflight[l] # NULL
        PROVE  ~Alike(inflight[l], h) /\ ~Alike(h, inflight[l])
    <3>1. SUFFICES ASSUME h.req # NULL, inflight[l].req # NULL, inflight[l].user = h.user
                   PROVE  FALSE
      BY DEF Alike
    <3>2. h.user \in Block /\ InSq(h.user) /\ InKernel(h.user)
      BY <1>2, <1>3, <2>1, <3>1 DEF InSq, InKernel, Of, PointersLive, Points
    <3> QED
      BY <1>2, <3>2 DEF OneStage
  <2> QED
    BY <1>2, <1>4, <2>1 DEF UniqueOperation, Alike
<1>12. UniquePending' /\ UniqueCqe' /\ Written'
  BY <1>1, <1>2 DEF UniquePending, UniqueCqe, Alike, Written
<1>13. OneStage'
  BY <1>1, <1>2, <1>6, <1>7, <1>8 DEF OneStage
<1>14. NoLeak'
  BY <1>1, <1>2, <1>6, <1>7, <1>8 DEF NoLeak
<1>15. ConsumeMoves
  <2>1. CASE h.req = NULL
    BY <1>6, <1>7, <1>8, <2>1 DEF ConsumeMoves, NothingMoves, Unmoved, Of
  <2>2. CASE h.req # NULL
    <3>1. PICK b \in pool : Of(h, b) /\ \A c : Of(h, c) => c = b
      BY <1>2, <1>3, <2>2 DEF PointersLive, Points, Of
    <3>2. InSq(b) /\ InKernel(b)' /\ OnlyMoves(b)
      BY <1>6, <1>7, <1>8, <3>1 DEF OnlyMoves, Unmoved
    <3> QED
      BY <3>1, <3>2 DEF ConsumeMoves
  <2> QED
    BY <2>1, <2>2
<1> QED
  BY <1>9, <1>10, <1>11, <1>12, <1>13, <1>14, <1>15 DEF Safe, ExclusiveBlocks

PostMoves ==
  \/ NothingMoves
  \/ \E b \in pool : InKernel(b) /\ InCq(b)' /\ OnlyMoves(b)

LEMMA SafePost ==
  ASSUME SafeInv, ~cancelled, NEW k \in Kreq, NEW res \in Result, NEW flags \in Flags,
         NEW more \in BOOLEAN, Post(k, res, flags, more)
  PROVE  Written' /\ Safe' /\ PostMoves
<1> DEFINE e   == inflight[k]
           new == [req |-> e.req, user |-> e.user, res |-> res, flags |-> flags, more |-> more]
<1>1. /\ UNCHANGED <<pool, mem, pending, sq, seen, lost, cancelled>>
      /\ cq' = Append(cq, new) /\ cq \in Seq(Cqe)
      /\ e # NULL /\ e \in Sqe
      /\ inflight \in [Kreq -> Sqe \cup {NULL}]
      /\ seen \in 0..Len(cq)
  BY DEF Post, callVars, histVars, SafeInv, TypeInv, SQTypeOK
<1>2. /\ PointersLive /\ NoLeak /\ Written
      /\ UniquePending /\ UniqueSqe /\ UniqueOperation /\ UniqueCqe /\ OneStage
      /\ pool \subseteq Block
  BY DEF SafeInv, Safe, ExclusiveBlocks, TypeInv, SQTypeOK
<1>3. new \in Cqe /\ new.req = e.req /\ new.user = e.user
  BY <1>1 DEF Sqe, Cqe
<1>4. /\ more => e.req # NULL /\ e.req.op \in MultiShot /\ inflight' = inflight
      /\ ~more => inflight' = [inflight EXCEPT ![k] = NULL]
  BY DEF Post
<1> HIDE DEF new
<1>5. /\ Len(cq) \in Nat /\ Len(cq') = Len(cq) + 1
      /\ cq'[Len(cq) + 1] = new
      /\ \A i \in 1..Len(cq) : i \in 1..Len(cq') /\ cq'[i] = cq[i]
  BY <1>1, <1>3, AppendFacts
<1>6. /\ Len(cq) + 1 \in seen' + 1 .. Len(cq')
      /\ \A i \in seen + 1 .. Len(cq) : i \in seen' + 1 .. Len(cq') /\ cq'[i] = cq[i]
      /\ \A i \in seen' + 1 .. Len(cq') : i \in seen + 1 .. Len(cq) \/ i = Len(cq) + 1
  BY <1>1, <1>5
<1>7. Points(e) /\ \A c : Of(e, c) => InKernel(c)
  BY <1>1, <1>2 DEF PointersLive, InKernel
<1> HIDE DEF e
<1>8. \A c : InCq(c)' <=> InCq(c) \/ Of(e, c)
  <2>1. \A c : Of(new, c) <=> Of(e, c)
    BY <1>3 DEF Of
  <2>2. ASSUME NEW c, InCq(c)' PROVE InCq(c) \/ Of(new, c)
    <3>1. PICK i \in seen' + 1 .. Len(cq') : Of(cq'[i], c)
      BY <2>2 DEF InCq, Of
    <3> QED
      BY <1>5, <1>6, <3>1 DEF InCq
  <2>3. ASSUME NEW c, InCq(c) PROVE InCq(c)'
    BY <1>6, <2>3 DEF InCq, Of
  <2>4. ASSUME NEW c, Of(new, c) PROVE InCq(c)'
    BY <1>5, <1>6, <2>4 DEF InCq, Of
  <2> QED
    BY <2>1, <2>2, <2>3, <2>4
<1>9. /\ \A l \in Kreq : inflight'[l] # NULL => inflight'[l] = inflight[l]
      /\ \A c : InKernel(c)' => InKernel(c)
      /\ \A c : InKernel(c) => InKernel(c)' \/ Of(e, c)
      /\ \A c : ~more /\ Of(e, c) => ~InKernel(c)'
  <2>1. \A l \in Kreq : inflight'[l] # NULL => inflight'[l] = inflight[l]
    BY <1>1, <1>4
  <2>2. \A c : InKernel(c)' => InKernel(c)
    BY <2>1 DEF InKernel, Of
  <2>3. \A c : InKernel(c) => InKernel(c)' \/ Of(e, c)
    BY <1>1, <1>4 DEF InKernel, Of, e
  <2>4. ASSUME NEW c, ~more, Of(e, c), InKernel(c)' PROVE FALSE
    <3>1. PICK l \in Kreq : inflight'[l] # NULL /\ Of(inflight'[l], c)
      BY <2>4 DEF InKernel, Of
    <3>2. l # k /\ inflight'[l] = inflight[l]
      BY <1>1, <1>4, <2>4, <3>1
    <3>3. Alike(inflight[l], inflight[k])
      BY <2>4, <3>1, <3>2 DEF Alike, Of, e
    <3> QED
      BY <1>1, <1>2, <3>1, <3>2, <3>3 DEF UniqueOperation, e
  <2> QED
    BY <2>1, <2>2, <2>3, <2>4
<1>10. \A c : (InPending(c)' <=> InPending(c)) /\ (InSq(c)' <=> InSq(c))
  BY <1>1 DEF InPending, InSq, Of
<1>11. PointersLive'
  <2>1. (\A i \in 1..Len(sq) : Points(sq[i]))'
    BY <1>1, <1>2 DEF PointersLive, Points
  <2>2. (\A l \in Kreq : inflight[l] # NULL => Points(inflight[l]))'
    BY <1>1, <1>2, <1>9 DEF PointersLive, Points
  <2>3. (\A i \in seen + 1 .. Len(cq) : Points(cq[i]))'
    BY <1>1, <1>2, <1>3, <1>5, <1>6, <1>7 DEF PointersLive, Points
  <2> QED
    BY <1>1, <1>2, <2>1, <2>2, <2>3 DEF PointersLive
<1>12. UniqueOperation'
  BY <1>2, <1>9 DEF UniqueOperation, Alike
<1>13. UniqueCqe'
  <2>1. ASSUME NEW i \in seen + 1 .. Len(cq), Alike(cq[i], new) \/ Alike(new, cq[i])
        PROVE  cq[i].req.op \in MultiShot /\ new.req.op \in MultiShot
    <3>1. cq[i].req # NULL /\ e.req # NULL /\ cq[i].user = e.user
      BY <1>3, <2>1 DEF Alike
    <3>2. InKernel(e.user) /\ InCq(e.user)
      BY <1>7, <3>1 DEF InCq, Of
    <3>3. e.user \in Block /\ mem[e.user] = e.req /\ mem[e.user] = cq[i].req
      BY <1>2, <1>7, <3>1 DEF Points, PointersLive
    <3> QED
      BY <1>2, <1>3, <3>2, <3>3 DEF OneStage
  <2>2. ASSUME NEW i \in seen' + 1 .. Len(cq'), NEW j \in seen' + 1 .. Len(cq'),
               Alike(cq'[i], cq'[j]), i # j
        PROVE  cq'[i].req.op \in MultiShot
    BY <1>2, <1>5, <1>6, <2>1, <2>2 DEF UniqueCqe
  <2> QED
    BY <2>2 DEF UniqueCqe, Alike
<1>14. UniquePending' /\ UniqueSqe' /\ Written'
  BY <1>1, <1>2 DEF UniquePending, UniqueSqe, Alike, Written
<1>15. OneStage'
  <2>1. ASSUME NEW b \in Block, InKernel(b)', InCq(b)' PROVE mem'[b].op \in MultiShot
    <3>1. CASE InCq(b)
      BY <1>1, <1>2, <1>9, <2>1, <3>1 DEF OneStage
    <3>2. CASE Of(e, b)
      BY <1>1, <1>4, <1>7, <1>9, <2>1, <3>2 DEF Of, Points
    <3> QED
      BY <1>8, <2>1, <3>1, <3>2
  <2>2. ASSUME NEW b \in Block, InPending(b)' \/ InSq(b)' PROVE ~InKernel(b)' /\ ~InCq(b)'
    BY <1>2, <1>7, <1>8, <1>9, <1>10, <2>2 DEF OneStage
  <2>3. \A b \in Block : InPending(b)' => ~InSq(b)'
    BY <1>2, <1>10 DEF OneStage
  <2> QED
    BY <2>1, <2>2, <2>3 DEF OneStage
<1>16. NoLeak'
  BY <1>1, <1>2, <1>8, <1>9, <1>10 DEF NoLeak
<1>17. PostMoves
  <2>1. CASE e.req = NULL
    BY <1>8, <1>9, <1>10, <2>1 DEF PostMoves, NothingMoves, Unmoved, Of
  <2>2. CASE e.req # NULL
    <3>1. PICK b \in pool : Of(e, b) /\ \A c : Of(e, c) => c = b
      BY <1>7, <2>2 DEF Points, Of
    <3>2. InKernel(b) /\ InCq(b)' /\ OnlyMoves(b)
      BY <1>7, <1>8, <1>9, <1>10, <3>1 DEF OnlyMoves, Unmoved
    <3> QED
      BY <3>1, <3>2 DEF PostMoves
  <2> QED
    BY <2>1, <2>2
<1> QED
  BY <1>11, <1>12, <1>13, <1>14, <1>15, <1>16, <1>17 DEF Safe, ExclusiveBlocks

LEMMA SafeAdvance ==
  ASSUME SafeInv, ~cancelled, Advance
  PROVE  Written' /\ Safe' /\ NothingMoves
<1>1. /\ UNCHANGED <<pool, mem, pending, sq, inflight, lost, cancelled>>
      /\ cq' = SubSeq(cq, seen + 1, Len(cq)) /\ seen' = 0
      /\ cq \in Seq(Cqe) /\ seen \in 0..Len(cq)
  BY DEF Advance, ringVars, histVars, SafeInv, TypeInv, SQTypeOK
<1>2. /\ PointersLive /\ NoLeak /\ Written
      /\ UniquePending /\ UniqueSqe /\ UniqueOperation /\ UniqueCqe /\ OneStage
  BY DEF SafeInv, Safe, ExclusiveBlocks
<1>3. /\ \A i \in seen' + 1 .. Len(cq') :
           i + seen \in seen + 1 .. Len(cq) /\ cq'[i] = cq[i + seen]
      /\ \A i \in seen + 1 .. Len(cq) :
           i - seen \in seen' + 1 .. Len(cq') /\ cq'[i - seen] = cq[i]
  BY <1>1
<1>4. \A c : InCq(c)' <=> InCq(c)
  <2>1. ASSUME NEW c, InCq(c)' PROVE InCq(c)
    <3>1. PICK i \in seen' + 1 .. Len(cq') : Of(cq'[i], c)
      BY <2>1 DEF InCq, Of
    <3> QED
      BY <1>3, <3>1 DEF InCq
  <2>2. ASSUME NEW c, InCq(c) PROVE InCq(c)'
    BY <1>3, <2>2 DEF InCq, Of
  <2> QED
    BY <2>1, <2>2
<1>5. \A c : /\ InPending(c)' <=> InPending(c)
             /\ InSq(c)' <=> InSq(c)
             /\ InKernel(c)' <=> InKernel(c)
  BY <1>1 DEF InPending, InSq, InKernel, Of
<1>6. PointersLive'
  <2>1. (\A i \in 1..Len(sq) : Points(sq[i]))'
    BY <1>1, <1>2 DEF PointersLive, Points
  <2>2. (\A k \in Kreq : inflight[k] # NULL => Points(inflight[k]))'
    BY <1>1, <1>2 DEF PointersLive, Points
  <2>3. (\A i \in seen + 1 .. Len(cq) : Points(cq[i]))'
    BY <1>1, <1>2, <1>3 DEF PointersLive, Points
  <2> QED
    BY <1>1, <1>2, <2>1, <2>2, <2>3 DEF PointersLive
<1>7. UniqueCqe'
  <2>1. ASSUME NEW i \in seen' + 1 .. Len(cq'), NEW j \in seen' + 1 .. Len(cq'),
               Alike(cq'[i], cq'[j]), i # j
        PROVE  cq'[i].req.op \in MultiShot
    <3>1. i + seen # j + seen
      BY <1>1, <2>1
    <3> QED
      BY <1>2, <1>3, <2>1, <3>1 DEF UniqueCqe
  <2> QED
    BY <2>1 DEF UniqueCqe, Alike
<1>8. UniquePending' /\ UniqueSqe' /\ UniqueOperation' /\ Written'
  BY <1>1, <1>2 DEF UniquePending, UniqueSqe, UniqueOperation, Alike, Written
<1>9. OneStage' /\ NoLeak'
  BY <1>1, <1>2, <1>4, <1>5 DEF OneStage, NoLeak
<1>10. NothingMoves
  BY <1>4, <1>5 DEF NothingMoves, Unmoved
<1> QED
  BY <1>6, <1>7, <1>8, <1>9, <1>10 DEF Safe, ExclusiveBlocks

ReleaseMoves ==
  \E b \in pool :
    /\ InCq(b) /\ OnlyMoves(b)
    /\ InPending(b)' <=> InPending(b)
    /\ InSq(b)' <=> InSq(b)
    /\ InKernel(b)' <=> InKernel(b)
    /\ pool' = IF mem[b].op \in MultiShot THEN pool ELSE pool \ {b}

LEMMA SafeRelease ==
  ASSUME SafeInv, ~cancelled, ~cancelled', Release
  PROVE  Written' /\ Safe' /\ ReleaseMoves
<1>0. PICK b : b = Current.user
  OBVIOUS
<1>1. /\ UNCHANGED <<mem, pending, sq, inflight, cq, lost>>
      /\ cq \in Seq(Cqe) /\ seen \in Nat /\ seen < Len(cq)
      /\ pool \subseteq Block
  BY DEF Release, ringVars, SafeInv, TypeInv, SQTypeOK, Position, InCallback
<1>2. /\ PointersLive /\ NoLeak /\ Written
      /\ UniquePending /\ UniqueSqe /\ UniqueOperation /\ UniqueCqe /\ OneStage
  BY DEF SafeInv, Safe, ExclusiveBlocks
<1>3. seen + 1 \in seen + 1 .. Len(cq) /\ Current = cq[seen + 1] /\ Current.req # NULL
  <2>1. Current.req # NULL
    BY DEF Release
  <2> QED
    BY <1>1, <2>1 DEF Current
<1>4. /\ b \in pool /\ b \in Block /\ mem[b] = Current.req /\ Valid(b) /\ InCq(b)
      /\ Of(Current, b)
  <2>1. Points(cq[seen + 1])
    BY <1>2, <1>3 DEF PointersLive
  <2>2. b \in pool /\ b \in Block /\ mem[b] = Current.req
    BY <1>0, <1>1, <1>3, <2>1 DEF Points
  <2>3. Of(cq[seen + 1], b)
    BY <1>0, <1>3 DEF Of
  <2> QED
    BY <1>3, <2>2, <2>3 DEF Valid, InCq
<1>5. /\ seen' = seen + 1
      /\ mem[b].op \in MultiShot => pool' = pool
      /\ mem[b].op \notin MultiShot => pool' = pool \ {b}
  BY <1>0, <1>4, SQAssumption DEF Release
<1>6. \A i \in seen' + 1 .. Len(cq') : i \in seen + 1 .. Len(cq) /\ cq'[i] = cq[i] /\ i # seen + 1
  BY <1>1, <1>5
<1>7. \A c : InCq(c)' => InCq(c)
  BY <1>6 DEF InCq, Of
<1>8. \A c : InCq(c) => InCq(c)' \/ c = b
  <2>1. ASSUME NEW c, InCq(c), c # b PROVE InCq(c)'
    <3>1. PICK i \in seen + 1 .. Len(cq) : Of(cq[i], c)
      BY <2>1 DEF InCq
    <3>2. i # seen + 1
      BY <1>3, <1>4, <2>1, <3>1 DEF Of
    <3>3. i \in seen' + 1 .. Len(cq') /\ Of(cq'[i], c)
      BY <1>1, <1>5, <3>1, <3>2
    <3> QED
      BY <3>3 DEF InCq, Of
  <2> QED
    BY <2>1
<1>9. mem[b].op \notin MultiShot =>
        ~InPending(b) /\ ~InSq(b) /\ ~InKernel(b) /\ ~InCq(b)'
  <2>1. ASSUME mem[b].op \notin MultiShot, InCq(b)' PROVE FALSE
    <3>1. PICK i \in seen' + 1 .. Len(cq') : Of(cq'[i], b)
      BY <2>1 DEF InCq, Of
    <3>2. Alike(cq[seen + 1], cq[i]) /\ i \in seen + 1 .. Len(cq) /\ i # seen + 1
      BY <1>3, <1>4, <1>6, <3>1 DEF Alike, Of
    <3> QED
      BY <1>2, <1>3, <1>4, <2>1, <3>2 DEF UniqueCqe
  <2> QED
    BY <1>2, <1>4, <2>1 DEF OneStage
<1>10. \A c : /\ InPending(c)' <=> InPending(c)
              /\ InSq(c)' <=> InSq(c)
              /\ InKernel(c)' <=> InKernel(c)
  BY <1>1 DEF InPending, InSq, InKernel, Of
<1>11. PointersLive'
  <2>1. ASSUME NEW o \in Operation, NEW i \in 1..Len(pending[o])
        PROVE  pending[o][i] \in pool' /\ mem'[pending[o][i]].op = o
    <3>1. pending[o][i] \in pool /\ mem[pending[o][i]].op = o /\ InPending(pending[o][i])
      BY <1>2 DEF PointersLive, InPending
    <3> QED
      BY <1>1, <1>5, <1>9, <3>1
  <2>2. (\A i \in 1..Len(sq) : Points(sq[i]))'
    <3>1. ASSUME NEW i \in 1..Len(sq), sq[i].req # NULL
          PROVE  sq[i].user \in pool' /\ mem'[sq[i].user] = sq[i].req
      <4>1. sq[i].user \in pool /\ mem[sq[i].user] = sq[i].req /\ InSq(sq[i].user)
        BY <1>2, <3>1 DEF PointersLive, Points, InSq, Of
      <4> QED
        BY <1>1, <1>5, <1>9, <4>1
    <3> QED
      BY <1>1, <3>1 DEF Points
  <2>3. (\A k \in Kreq : inflight[k] # NULL => Points(inflight[k]))'
    <3>1. ASSUME NEW k \in Kreq, inflight[k] # NULL, inflight[k].req # NULL
          PROVE  inflight[k].user \in pool' /\ mem'[inflight[k].user] = inflight[k].req
      <4>1. /\ inflight[k].user \in pool /\ mem[inflight[k].user] = inflight[k].req
            /\ InKernel(inflight[k].user)
        BY <1>2, <3>1 DEF PointersLive, Points, InKernel, Of
      <4> QED
        BY <1>1, <1>5, <1>9, <4>1
    <3> QED
      BY <1>1, <3>1 DEF Points
  <2>4. (\A i \in seen + 1 .. Len(cq) : Points(cq[i]))'
    <3>1. ASSUME NEW i \in seen' + 1 .. Len(cq'), cq'[i].req # NULL
          PROVE  cq'[i].user \in pool' /\ mem'[cq'[i].user] = cq'[i].req
      <4>1. cq'[i].user \in pool /\ mem[cq'[i].user] = cq'[i].req
        BY <1>2, <1>6, <3>1 DEF PointersLive, Points
      <4>2. PICK u : u = cq'[i].user
        OBVIOUS
      <4>3. InCq(u)'
        BY <3>1, <4>2 DEF InCq, Of
      <4> QED
        BY <1>1, <1>5, <1>9, <4>1, <4>2, <4>3
    <3> QED
      BY <3>1 DEF Points
  <2> QED
    BY <1>1, <2>1, <2>2, <2>3, <2>4 DEF PointersLive
<1>12. UniqueCqe'
  BY <1>2, <1>6 DEF UniqueCqe, Alike
<1>13. UniquePending' /\ UniqueSqe' /\ UniqueOperation'
  BY <1>1, <1>2 DEF UniquePending, UniqueSqe, UniqueOperation, Alike
<1>14. Written'
  BY <1>1, <1>2, <1>5 DEF Written
<1>15. OneStage'
  BY <1>1, <1>2, <1>7, <1>10 DEF OneStage
<1>16. NoLeak'
  BY <1>1, <1>2, <1>5, <1>8, <1>10 DEF NoLeak
<1>17. ReleaseMoves
  BY <1>4, <1>5, <1>7, <1>8, <1>10 DEF ReleaseMoves, OnlyMoves, Unmoved
<1> QED
  BY <1>11, <1>12, <1>13, <1>14, <1>15, <1>16, <1>17 DEF Safe, ExclusiveBlocks

LEMMA SafeStep == SafeInv /\ [SQNext]_sqvars => SafeInv'
<1> SUFFICES ASSUME SafeInv, [SQNext]_sqvars PROVE Written' /\ Safe'
  BY TypeStep DEF SafeInv
<1>1. CASE cancelled'
  <2>1. Written'
    <3>1. CASE \E op \in PushedOps, s \in Subscriber : Push(op, s)
      <4>1. PICK op \in PushedOps, s \in Subscriber : Push(op, s)
        BY <3>1
      <4>2. [op |-> op, sub |-> s] \in Request /\ mem \in [Block -> Request \cup {NULL}]
        BY SQAssumption DEF Request, SafeInv, TypeInv, SQTypeOK
      <4> QED
        BY <4>1, <4>2 DEF Push, SafeInv, Written
    <3>2. CASE ~(\E op \in PushedOps, s \in Subscriber : Push(op, s))
      <4>1. mem' = mem /\ pool' \subseteq pool
        BY <3>2 DEF SQNext, sqvars, Kernel, Cancel, RetryCancel, Submit, Prepared, EndEnter,
             FlushOverflow, Prepare, PrepareFull, Retry, Consume, Post, Reap, Take, Release,
             EndReap, Advance
      <4> QED
        BY <4>1 DEF SafeInv, Written
    <3> QED
      BY <3>1, <3>2
  <2> QED
    BY <1>1, <2>1 DEF Safe, PointersLive, ExclusiveBlocks, NoLeak
<1>2. CASE ~cancelled'
  <2> USE <1>2
  <2>1. ~cancelled
    BY DEF SQNext, sqvars, histVars, Kernel, Push, Cancel, RetryCancel, Submit, Prepared, EndEnter,
         FlushOverflow, Prepare, PrepareFull, Retry, Consume, Post, Reap, Take, Release,
         EndReap, Advance
  <2>2. CASE UNCHANGED sqvars
    BY <2>2, SafeFrame DEF sqvars, ringVars, cqVars, histVars
  <2>3. CASE Submit \/ Prepared \/ EndEnter \/ FlushOverflow \/ Reap \/ Take \/ EndReap
    BY <2>3, SafeFrame DEF Submit, Prepared, EndEnter, FlushOverflow, Reap, Take, EndReap,
         ringVars, cqVars, histVars
  <2>4. ASSUME NEW op \in Operation, PrepareFull(op) PROVE Written' /\ Safe'
    BY <2>4, SafeFrame DEF PrepareFull, ringVars, cqVars, histVars
  <2>5. CASE Cancel \/ RetryCancel
    <3>1. CASE FillSqe(NULL, Head(sqFree))
      BY <2>1, <2>5, <3>1, SafeFillCancel DEF Cancel, RetryCancel, FillSqe, cqVars, histVars
    <3>2. CASE UNCHANGED ringVars
      BY <2>5, <3>2, SafeFrame DEF Cancel, RetryCancel, ringVars, cqVars, histVars
    <3> QED
      BY <2>5, <3>1, <3>2 DEF Cancel, RetryCancel, ringVars
  <2>6. CASE Kernel
    BY <2>1, <2>6, SafePost DEF Kernel
  <2> QED
    BY <2>1, <2>2, <2>3, <2>4, <2>5, <2>6, SafePush, SafePrepare, SafeRetry, SafeConsume,
       SafeRelease, SafeAdvance DEF SQNext
<1> QED
  BY <1>1, <1>2

LEMMA SafeAlways == SQSpec => []SafeInv
  BY SafeInit, SafeStep, PTL DEF SQSpec

(* Until a cancellation's completion is released, no pointer held by the    *)
(* program or by the kernel dangles.                                        *)
THEOREM PointersStayLive == SQSpec => []PointersLive
<1>1. SafeInv => PointersLive
  BY DEF SafeInv, Safe
<1> QED
  BY <1>1, SafeAlways, PTL

(* Under the same condition, no block is used by two requests, and release() *)
(* never frees a block that is still in use.                                *)
THEOREM BlocksStayExclusive == SQSpec => []ExclusiveBlocks
<1>1. SafeInv => ExclusiveBlocks
  BY DEF SafeInv, Safe
<1> QED
  BY <1>1, SafeAlways, PTL

(* Under the same condition, the only requests that are forgotten are those *)
(* whose preparation returned QUEUE_FULL.                                   *)
THEOREM NothingLeaks == SQSpec => []NoLeak
<1>1. SafeInv => NoLeak
  BY DEF SafeInv, Safe
<1> QED
  BY <1>1, SafeAlways, PTL

=============================================================================
