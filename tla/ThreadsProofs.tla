---------------------------- MODULE ThreadsProofs ----------------------------
(***************************************************************************)
(* The mutexes of ringnet, for any number of threads, handlers and         *)
(* requests: nobody waits in a circle, no pushed request is forgotten, no  *)
(* callback is replaced while it runs.                                     *)
(***************************************************************************)
EXTENDS Threads, TLAPS

LoopPlaces == {"submit", "visit", "clear", "enter", "completions", "handle", "release"}

\* Where the threads can be, and what they keep there.
Positions ==
  /\ \A t \in Actor : pc[t] \in {"on", "assign", "handle"} => target[t] \in Slot
  /\ \A t \in Thread : pc[t] \notin LoopPlaces
  /\ pc["loop"] \in LoopPlaces => handling = NULL
  /\ \A t \in Actor : mine[t] # NULL <=> pc[t] \in {"allocate", "push", "append"}
  /\ pc["loop"] \notin {"visit", "clear"} => visited = 0

\* Who holds the mutexes follows from where the threads are.
Preparing(t) == pc[t] = "append" \/ (t = "loop" /\ pc[t] \in {"visit", "clear"})
Uses(t, h) ==
  \/ pc[t] = "assign" /\ target[t][1] = h
  \/ t = "loop" /\ handling # NULL /\ handling[1] = h

Holding ==
  /\ \A t \in Actor : owner["pending"] = t <=> Preparing(t)
  /\ \A t \in Actor, h \in Handler : owner[h] = t <=> Uses(t, h)
  /\ pc["loop"] = "assign" /\ handling # NULL => target["loop"][1] # handling[1]
  /\ pc["loop"] = "clear" => visited = Len(pending)

\* A block is with one thread, or pending, or with the kernel.
Blocks ==
  /\ \A t, u \in Actor : mine[t] # NULL /\ mine[t] = mine[u] => t = u
  /\ \A t \in Actor : mine[t] \notin submitted /\ mine[t] \notin waiting
  /\ \A i \in 1..visited : pending[i] \in submitted

TypeInv   == ThreadsTypeOK /\ Positions
MutexInv  == TypeInv /\ Holding
ThreadsInv == MutexInv /\ Blocks /\ NothingForgotten

\* The disjuncts of ThreadsNext, for a thread t, a block b and a slot.
Step(t, b, slot) ==
  \/ Push(t) \/ Allocated(t) \/ LockPending(t) \/ AppendPending(t)
  \/ Cancel(t) \/ Cancelled(t)
  \/ LockHandler(t) \/ Assign(t)
  \/ slot \in Slot /\ On(t, slot)
  \/ Run \/ Submit \/ Visit \/ Visited \/ Clear \/ Entered
  \/ b \in submitted \cup {NULL} /\ slot \in Slot /\ Event(b, slot)
  \/ Handle \/ HandleNothing \/ CallbackReturns \/ Released \/ NextIteration

\* A slot belongs to a handler, whose mutex is not that of the pending requests.
LEMMA SlotHandler == \A slot \in Slot : slot[1] \in Handler /\ slot # NULL /\ slot[1] # "pending"
BY ThreadsAssumption DEF Slot

\* How the loop leaves handle().
LEMMA Leaving ==
  ASSUME ThreadsTypeOK, NEW from, Leave(from)
  PROVE  /\ ~raced /\ pc["loop"] = from
         /\ \E to \in {"release", "completions"} : pc' = [pc EXCEPT !["loop"] = to]
         /\ completed' \in Block \cup {NULL}
         /\ raced' \in BOOLEAN
<1>1. completed' \in Block \cup {NULL}
  BY DEF Leave, ThreadsTypeOK
<1>2. raced' \in BOOLEAN
  BY DEF Leave, Enters, ThreadsTypeOK
<1>3. QED BY <1>1, <1>2 DEF Moves, Leave

\* push() appends a block.
LEMMA Appending ==
  ASSUME TypeInv, NEW t \in Actor, AppendPending(t)
  PROVE  /\ pending' \in Seq(Block) /\ Len(pending') = Len(pending) + 1
         /\ pending'[Len(pending')] = mine[t]
         /\ \A i \in 1..Len(pending) : pending'[i] = pending[i]
BY DEF TypeInv, ThreadsTypeOK, Positions, AppendPending, Moves

(* Types and positions are preserved by every action. *)
LEMMA TypeStep ==
  ASSUME TypeInv, NEW t \in Actor, NEW b, NEW slot, Step(t, b, slot)
  PROVE  TypeInv'
<1> USE ThreadsAssumption, SlotHandler
     DEF Moves, dataVars, queueVars, Actor, Mutex, Place, InPool, InRing, LoopPlaces,
         TypeInv, ThreadsTypeOK, Positions
<1>1. CASE Push(t)
  BY <1>1 DEF Push, InUse, Enters
<1>2. CASE Allocated(t)
  BY <1>2 DEF Allocated
<1>3. CASE LockPending(t)
  BY <1>3 DEF LockPending, Lock
<1>4. CASE AppendPending(t)
  BY <1>4, Appending DEF AppendPending, Unlock
<1>5. CASE Cancel(t)
  BY <1>5 DEF Cancel, Enters
<1>6. CASE Cancelled(t)
  BY <1>6 DEF Cancelled
<1>7. CASE slot \in Slot /\ On(t, slot)
  BY <1>7 DEF On
<1>8. CASE LockHandler(t)
  BY <1>8 DEF LockHandler, Lock
<1>9. CASE Assign(t)
  BY <1>9 DEF Assign, Unlock
<1>10. CASE Run
  BY <1>10 DEF Run
<1>11. CASE Submit
  BY <1>11 DEF Submit, Lock, Enters
<1>12. CASE Visit
  BY <1>12 DEF Visit
<1>13. CASE Visited
  BY <1>13 DEF Visited
<1>14. CASE Clear
  BY <1>14 DEF Clear, Unlock
<1>15. CASE Entered
  BY <1>15 DEF Entered
<1>16. CASE b \in submitted \cup {NULL} /\ slot \in Slot /\ Event(b, slot)
  BY <1>16 DEF Event
<1>17. CASE Handle
  BY <1>17 DEF Handle, Lock
<1>18. CASE HandleNothing
  BY <1>18, Leaving DEF HandleNothing
<1>19. CASE CallbackReturns
  BY <1>19, Leaving DEF CallbackReturns, Unlock
<1>20. CASE Released
  BY <1>20 DEF Released
<1>21. CASE NextIteration
  BY <1>21 DEF NextIteration
<1>22. QED BY <1>1, <1>2, <1>3, <1>4, <1>5, <1>6, <1>7, <1>8, <1>9, <1>10, <1>11, <1>12, <1>13, <1>14, <1>15, <1>16, <1>17, <1>18, <1>19, <1>20, <1>21 DEF Step

(* The mutexes are held by those who are in their critical sections. *)
LEMMA HoldingStep ==
  ASSUME MutexInv, TypeInv', NEW t \in Actor, NEW b, NEW slot, Step(t, b, slot)
  PROVE  Holding'
<1> USE ThreadsAssumption, SlotHandler
     DEF Moves, dataVars, queueVars, Actor, Mutex, Place, InPool, InRing, LoopPlaces,
         MutexInv, TypeInv, ThreadsTypeOK, Positions, Holding, Preparing, Uses
<1>1. CASE Push(t)
  BY <1>1 DEF Push, InUse, Enters
<1>2. CASE Allocated(t)
  BY <1>2 DEF Allocated
<1>3. CASE LockPending(t)
  BY <1>3 DEF LockPending, Lock
<1>4. CASE AppendPending(t)
  BY <1>4, Appending DEF AppendPending, Unlock
<1>5. CASE Cancel(t)
  BY <1>5 DEF Cancel, Enters
<1>6. CASE Cancelled(t)
  BY <1>6 DEF Cancelled
<1>7. CASE slot \in Slot /\ On(t, slot)
  BY <1>7 DEF On
<1>8. CASE LockHandler(t)
  BY <1>8 DEF LockHandler, Lock
<1>9. CASE Assign(t)
  BY <1>9 DEF Assign, Unlock
<1>10. CASE Run
  BY <1>10 DEF Run
<1>11. CASE Submit
  BY <1>11 DEF Submit, Lock, Enters
<1>12. CASE Visit
  BY <1>12 DEF Visit
<1>13. CASE Visited
  BY <1>13 DEF Visited
<1>14. CASE Clear
  BY <1>14 DEF Clear, Unlock
<1>15. CASE Entered
  BY <1>15 DEF Entered
<1>16. CASE b \in submitted \cup {NULL} /\ slot \in Slot /\ Event(b, slot)
  BY <1>16 DEF Event
<1>17. CASE Handle
  BY <1>17 DEF Handle, Lock
<1>18. CASE HandleNothing
  BY <1>18, Leaving DEF HandleNothing
<1>19. CASE CallbackReturns
  BY <1>19, Leaving DEF CallbackReturns, Unlock
<1>20. CASE Released
  BY <1>20 DEF Released
<1>21. CASE NextIteration
  BY <1>21 DEF NextIteration
<1>22. QED BY <1>1, <1>2, <1>3, <1>4, <1>5, <1>6, <1>7, <1>8, <1>9, <1>10, <1>11, <1>12, <1>13, <1>14, <1>15, <1>16, <1>17, <1>18, <1>19, <1>20, <1>21 DEF Step

(* No block is handed out twice, and what is pending is either visited or    *)
(* waits.                                                                    *)
LEMMA BlocksStep ==
  ASSUME ThreadsInv, TypeInv', NEW t \in Actor, NEW b, NEW slot, Step(t, b, slot)
  PROVE  Blocks' /\ NothingForgotten'
<1> USE ThreadsAssumption DEF ThreadsInv, MutexInv, TypeInv, ThreadsTypeOK, Moves
<1>1. CASE Push(t)
  <2>1. PICK c \in Block \ InUse : mine' = [mine EXCEPT ![t] = c]
    BY <1>1 DEF Push
  <2>2. c \notin submitted /\ c \notin waiting /\ c # NULL /\ \A u \in Actor : mine[u] # c
    BY DEF InUse
  <2>3. UNCHANGED queueVars
    BY <1>1 DEF Push, dataVars
  <2>4. Blocks'
    BY <2>1, <2>2, <2>3 DEF Blocks, queueVars
  <2>5. QED BY <2>3, <2>4 DEF NothingForgotten, queueVars
<1>2. CASE AppendPending(t)
  <2>1. /\ mine[t] \in Block
        /\ waiting' = waiting \cup {mine[t]} /\ UNCHANGED <<visited, submitted>>
        /\ mine' = [mine EXCEPT ![t] = NULL]
    BY <1>2 DEF AppendPending, Positions
  <2>2. /\ Len(pending') = Len(pending) + 1 /\ pending'[Len(pending')] = mine[t]
        /\ \A i \in 1..Len(pending) : pending'[i] = pending[i]
    BY <1>2, Appending
  <2>3. \A i \in 1..Len(pending) : pending[i] # mine[t]
    BY DEF Blocks, NothingForgotten
  <2>4. Blocks'
    <3>1. \A u \in Actor : mine'[u] = IF u = t THEN NULL ELSE mine[u]
      BY <2>1
    <3>2. \A u \in Actor \ {t} : mine[u] # mine[t]
      BY <2>1 DEF Blocks
    <3>3. NULL \notin submitted /\ NULL \notin waiting'
      BY <2>1
    <3>4. \A i \in 1..visited : pending'[i] \in submitted
      <4>1. \A i \in 1..visited : pending'[i] = pending[i]
        BY <2>2
      <4>2. QED BY <4>1 DEF Blocks
    <3>5. QED BY <2>1, <3>1, <3>2, <3>3, <3>4 DEF Blocks
  <2>5. waiting' = {pending'[i] : i \in visited' + 1 .. Len(pending')}
    <3>1. \A i \in visited + 1 .. Len(pending) : pending'[i] = pending[i]
      BY <2>2
    <3>2. \A x : x \in waiting => \E i \in visited + 1 .. Len(pending') : x = pending'[i]
      BY <2>2, <3>1 DEF NothingForgotten
    <3>3. \A i \in visited + 1 .. Len(pending') : i = Len(pending') \/ pending'[i] \in waiting
      BY <2>2, <3>1 DEF NothingForgotten
    <3>4. Len(pending') \in visited + 1 .. Len(pending')
      BY <2>1, <2>2
    <3>5. QED BY <2>1, <2>2, <3>2, <3>3, <3>4
  <2>6. \A i, j \in 1..Len(pending') : pending'[i] = pending'[j] => i = j
    BY <2>2, <2>3 DEF NothingForgotten
  <2>7. QED BY <2>4, <2>5, <2>6 DEF NothingForgotten
<1>3. CASE Visit
  <2>1. /\ visited < Len(pending) /\ visited' = visited + 1 /\ UNCHANGED <<pending, mine>>
        /\ submitted' = submitted \cup {pending[visited + 1]}
        /\ waiting' = waiting \ {pending[visited + 1]}
    BY <1>3 DEF Visit
  <2>2. pending[visited + 1] \in waiting
    BY <2>1 DEF NothingForgotten
  <2>3. Blocks'
    BY <2>1, <2>2 DEF Blocks
  <2>4. waiting' = {pending[i] : i \in visited + 2 .. Len(pending)}
    BY <2>1 DEF NothingForgotten
  <2>5. QED BY <2>1, <2>3, <2>4 DEF NothingForgotten
<1>4. CASE Clear
  <2>1. waiting = {}
    BY <1>4 DEF Clear, Holding, NothingForgotten
  <2>2. pending' = <<>> /\ visited' = 0 /\ UNCHANGED <<submitted, waiting, mine>>
    BY <1>4 DEF Clear
  <2>3. QED BY <2>1, <2>2 DEF Blocks, NothingForgotten
<1>5. CASE Released
  <2>1. visited = 0
    BY <1>5 DEF Released, Positions
  <2>2. submitted' \subseteq submitted /\ UNCHANGED <<pending, visited, waiting, mine>>
    BY <1>5 DEF Released
  <2>3. Blocks'
    BY <2>1, <2>2 DEF Blocks
  <2>4. QED BY <2>2, <2>3 DEF NothingForgotten
<1>6. CASE UNCHANGED <<queueVars, mine>>
  BY <1>6 DEF Blocks, NothingForgotten, queueVars
<1>7. QED
  BY <1>1, <1>2, <1>3, <1>4, <1>5, <1>6
  DEF Step, Allocated, LockPending, Cancel, Cancelled, LockHandler, Assign, On, Run, Submit,
      Visited, Entered, Event, Handle, HandleNothing, CallbackReturns, NextIteration,
      dataVars, queueVars

(* The invariant holds at the start. *)
LEMMA InvInit == ThreadsInit => ThreadsInv
<1> SUFFICES ASSUME ThreadsInit PROVE ThreadsInv
  OBVIOUS
<1> USE ThreadsAssumption DEF ThreadsInit
<1>1. ThreadsTypeOK
  <2>1. pc \in [Actor -> Place] /\ owner \in [Mutex -> Actor \cup {NULL}]
    BY DEF Place
  <2>2. pending \in Seq(Block) /\ visited \in 0..Len(pending)
    OBVIOUS
  <2>3. QED BY <2>1, <2>2 DEF ThreadsTypeOK
<1>2. Positions
  BY DEF Positions, Actor, LoopPlaces
<1>3. Holding
  BY DEF Holding, Preparing, Uses, Actor, Mutex
<1>4. Blocks /\ NothingForgotten
  BY DEF Blocks, NothingForgotten
<1>5. QED BY <1>1, <1>2, <1>3, <1>4 DEF ThreadsInv, MutexInv, TypeInv

(* A step of the specification is one of Step, or changes nothing. *)
LEMMA Steps ==
  ASSUME [ThreadsNext]_thvars
  PROVE  \/ \E t \in Actor : \E b, slot : Step(t, b, slot)
         \/ UNCHANGED thvars
<1>1. "loop" \in Actor
  BY DEF Actor
<1>2. QED BY <1>1 DEF ThreadsNext, Step, Halted

(* Every step preserves the invariant. *)
LEMMA InvStep == ThreadsInv /\ [ThreadsNext]_thvars => ThreadsInv'
<1> SUFFICES ASSUME ThreadsInv, [ThreadsNext]_thvars PROVE ThreadsInv'
  OBVIOUS
<1>1. ASSUME NEW t \in Actor, NEW b, NEW slot, Step(t, b, slot)
      PROVE  ThreadsInv'
  BY <1>1, TypeStep, HoldingStep, BlocksStep DEF ThreadsInv, MutexInv
<1>2. CASE UNCHANGED thvars
  BY <1>2 DEF thvars, dataVars, queueVars, ThreadsInv, MutexInv, TypeInv, ThreadsTypeOK,
     Positions, Holding, Preparing, Uses, Blocks, NothingForgotten
<1>3. QED BY <1>1, <1>2, Steps

(* At every step of any number of threads the variables have their types. *)
THEOREM ThreadsTypeCorrect == ThreadsSpec => []ThreadsTypeOK
<1>1. ThreadsInv => ThreadsTypeOK
  BY DEF ThreadsInv, MutexInv, TypeInv
<1>2. QED BY InvInit, InvStep, <1>1, PTL DEF ThreadsSpec

(* push() and preparePendingRequests: a request pushed by any thread is in   *)
(* the vector until it has been visited, and visited once.                   *)
THEOREM NoRequestForgotten == ThreadsSpec => []NothingForgotten
<1>1. ThreadsInv => NothingForgotten
  BY DEF ThreadsInv
<1>2. QED BY InvInit, InvStep, <1>1, PTL DEF ThreadsSpec

(* handle() and on(): only Assign changes a callback, and whoever is there   *)
(* holds the mutex that the loop would hold if the callback were running.    *)
THEOREM CallbackStays == ThreadsSpec => CallbackKept
<1> DEFINE Kept == handling # NULL => callback'[handling] = callback[handling]
<1>1. ThreadsInv /\ [ThreadsNext]_thvars => [Kept]_thvars
  <2> SUFFICES ASSUME ThreadsInv, [ThreadsNext]_thvars, handling # NULL
               PROVE  callback'[handling] = callback[handling]
    OBVIOUS
  <2>1. ASSUME NEW t \in Actor, Assign(t) PROVE callback'[handling] = callback[handling]
    <3>1. target[t] \in Slot /\ handling \in Slot /\ pc[t] = "assign"
      BY <2>1 DEF Moves, Assign, ThreadsInv, MutexInv, TypeInv, ThreadsTypeOK, Positions
    <3>2. target[t][1] # handling[1]
      <4>1. CASE t = "loop"
        BY <3>1, <4>1 DEF ThreadsInv, MutexInv, Holding
      <4>2. CASE t # "loop"
        <5>1. target[t][1] \in Handler /\ handling[1] \in Handler
          BY <3>1, SlotHandler
        <5>2. owner[target[t][1]] = t
          BY <3>1, <5>1 DEF ThreadsInv, MutexInv, Holding, Uses
        <5>3. owner[handling[1]] = "loop"
          BY <5>1 DEF ThreadsInv, MutexInv, Holding, Uses, Actor
        <5>4. QED BY <4>2, <5>2, <5>3
      <4>3. QED BY <4>1, <4>2
    <3>3. PICK f : callback' = [callback EXCEPT ![target[t]] = f]
      BY <2>1 DEF Assign
    <3>4. QED BY <3>1, <3>2, <3>3 DEF ThreadsInv, MutexInv, TypeInv, ThreadsTypeOK
  <2>2. CASE UNCHANGED callback
    BY <2>2
  <2>3. QED
    BY <2>1, <2>2, Steps
    DEF Step, Push, Allocated, LockPending, AppendPending, Cancel, Cancelled, LockHandler, On,
        Run, Submit, Visit, Visited, Clear, Entered, Event, Handle, HandleNothing,
        CallbackReturns, Released, NextIteration, dataVars, thvars
<1>2. QED BY InvInit, InvStep, <1>1, PTL DEF ThreadsSpec, CallbackKept

(* A thread that holds a mutex, the loop apart, waits for nothing: it is     *)
(* appending to the vector or assigning a callback.                          *)
LEMMA HoldersRun ==
  ASSUME ThreadsInv, NEW t \in Actor \ {"loop"}, NEW m \in Mutex, owner[m] = t
  PROVE  Awaits(t) = {}
<1>1. pc[t] \in {"append", "assign"}
  BY ThreadsAssumption DEF ThreadsInv, MutexInv, Holding, Preparing, Uses, Mutex
<1>2. QED BY <1>1 DEF Awaits

(* The mutexes of ringnet are never taken in a circle: among threads that    *)
(* wait for each other the loop would have to hold what it waits for itself, *)
(* and it does only in a callback that sets one of its own handler.          *)
THEOREM NoCircle == ThreadsSpec => []NoCircularWait
<1>1. ThreadsInv => NoCircularWait
  <2> SUFFICES ASSUME ThreadsInv, NEW S \in SUBSET Actor, S # {}, Stuck(S)
               PROVE  "loop" \in S /\ ReplacesItself
    BY DEF NoCircularWait
  <2>1. \A t \in Actor : Awaits(t) \subseteq Mutex
    BY SlotHandler DEF ThreadsInv, MutexInv, TypeInv, Positions, Awaits, Mutex
  <2>2. \A t \in S : \E m \in Awaits(t) : owner[m] = "loop" /\ "loop" \in S
    BY <2>1, HoldersRun DEF Stuck
  <2>3. "loop" \in S
    BY <2>2
  <2>4. PICK m \in Awaits("loop") : owner[m] = "loop"
    BY <2>2, <2>3
  <2>5. m # "pending"
    BY <2>4 DEF ThreadsInv, MutexInv, Holding, Preparing, Awaits, Actor
  <2>6. pc["loop"] \in {"on", "handle"} /\ m = target["loop"][1]
    BY <2>4, <2>5 DEF Awaits
  <2>7. m \in Handler
    BY <2>1, <2>3, <2>4, <2>5 DEF Mutex
  <2>8. handling # NULL /\ handling[1] = m
    BY <2>4, <2>6, <2>7 DEF ThreadsInv, MutexInv, Holding, Uses, Actor
  <2>9. pc["loop"] = "on"
    BY <2>6, <2>8 DEF ThreadsInv, MutexInv, TypeInv, Positions, LoopPlaces
  <2>10. QED BY <2>3, <2>6, <2>8, <2>9 DEF ReplacesItself
<1>2. QED BY InvInit, InvStep, <1>1, PTL DEF ThreadsSpec
=============================================================================
