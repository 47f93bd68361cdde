------------------------------- MODULE Threads -------------------------------
(***************************************************************************)
(* The threads that call ringnet and the mutexes that keep them apart: the *)
(* one of the pending requests and the one of each EventHandler.  The loop *)
(* holds an EventHandler's mutex for as long as a callback runs, and the   *)
(* callback may call the library.                                          *)
(*                                                                         *)
(* The pool of requests and the submission ring have no mutex: two threads *)
(* inside one of them are a data race, after which nothing is followed.    *)
(* SubmissionQueue and EventLoop model what the steps do when one thread   *)
(* makes all the calls.                                                    *)
(***************************************************************************)
EXTENDS Naturals, Sequences

CONSTANTS
  Thread,    \* threads of the application, beside that of the loop
  Handler,   \* EventHandlers: the subscribers and that of the ErrorHandler
  EventType, \* types of events, for each of which a handler has a callback
  Callback,  \* functions that are set as callbacks
  Block,     \* blocks of the request pool
  NULL

Actor == Thread \cup {"loop"}
Mutex == Handler \cup {"pending"}
Slot  == Handler \X EventType  \* an entry of the tuple of callbacks of a handler

ASSUME ThreadsAssumption ==
  "loop" \notin Thread /\ "pending" \notin Handler
  /\ NULL \notin Actor \cup Slot \cup Callback \cup Block

VARIABLES
  pc,        \* where each thread is
  target,    \* the handler it calls handle() or on() of, and the type
  mine,      \* the block it has got from the pool
  owner,     \* who holds each mutex
  callback,  \* handlers, of each EventHandler
  handling,  \* the entry whose callback is running
  completed, \* the block of the completion the loop handles
  pending,   \* the vector of pending requests
  visited,   \* how many of them for_each has visited
  submitted, \* blocks the kernel has been given
  waiting,   \* history: blocks appended by push(), not prepared
  raced      \* history: two threads have been in the pool or in the ring

queueVars == <<pending, visited, submitted, waiting>>
dataVars == <<callback, handling, completed, queueVars>>
thvars == <<pc, target, mine, owner, dataVars, raced>>

InPool == {"allocate", "release"}
InRing == {"cancel", "visit", "enter"}
Place  == InPool \cup InRing \cup
          {"user",                           \* code of the application
           "push", "append", "on", "assign", \* inside the calls of that name
           "submit", "clear", "completions", "handle"}

ThreadsTypeOK ==
  /\ pc \in [Actor -> Place]
  /\ target \in [Actor -> Slot \cup {NULL}]
  /\ mine \in [Actor -> Block \cup {NULL}]
  /\ owner \in [Mutex -> Actor \cup {NULL}]
  /\ callback \in [Slot -> Callback \cup {NULL}]
  /\ handling \in Slot \cup {NULL}
  /\ completed \in Block \cup {NULL}
  /\ pending \in Seq(Block)
  /\ visited \in 0..Len(pending)
  /\ submitted \subseteq Block /\ waiting \subseteq Block
  /\ raced \in BOOLEAN

\* The constructor of ErrorHandler sets a callback, as the application may have.
ThreadsInit ==
  /\ pc = [t \in Actor |-> "user"]
  /\ target = [t \in Actor |-> NULL]
  /\ mine = [t \in Actor |-> NULL]
  /\ owner = [m \in Mutex |-> NULL]
  /\ callback \in [Slot -> Callback \cup {NULL}]
  /\ handling = NULL /\ completed = NULL
  /\ pending = <<>> /\ visited = 0
  /\ submitted = {} /\ waiting = {}
  /\ raced = FALSE

Moves(t, from, to) ==
  /\ ~raced
  /\ pc[t] = from /\ pc' = [pc EXCEPT ![t] = to]

\* A thread enters a structure that has no mutex.
Enters(t, places) == raced' = \E u \in Actor \ {t} : pc[u] \in places

Lock(t, m)   == owner[m] = NULL /\ owner' = [owner EXCEPT ![m] = t]
Unlock(m)    == owner' = [owner EXCEPT ![m] = NULL]

-----------------------------------------------------------------------------
(* Calls of the application, from any thread and from callbacks.           *)

InUse == submitted \cup waiting \cup {mine[t] : t \in Actor}

\* push(): allocate, from a pool that is not synchronised, ...
Push(t) ==
  /\ Moves(t, "user", "allocate") /\ Enters(t, InPool)
  /\ \E b \in Block \ InUse : mine' = [mine EXCEPT ![t] = b]
  /\ UNCHANGED <<target, owner, dataVars>>

Allocated(t) ==
  /\ Moves(t, "allocate", "push")
  /\ UNCHANGED <<target, mine, owner, dataVars, raced>>

\* ... then lock the mutex and append.
LockPending(t) ==
  /\ Moves(t, "push", "append") /\ Lock(t, "pending")
  /\ UNCHANGED <<target, mine, dataVars, raced>>

AppendPending(t) ==
  /\ Moves(t, "append", "user") /\ Unlock("pending")
  /\ pending' = Append(pending, mine[t])
  /\ waiting' = waiting \cup {mine[t]}
  /\ mine' = [mine EXCEPT ![t] = NULL]
  /\ UNCHANGED <<target, callback, handling, completed, visited, submitted, raced>>

\* cancel(): an SQE is taken, without a mutex.
Cancel(t) ==
  /\ Moves(t, "user", "cancel") /\ Enters(t, InRing)
  /\ UNCHANGED <<target, mine, owner, dataVars>>

Cancelled(t) ==
  /\ Moves(t, "cancel", "user")
  /\ UNCHANGED <<target, mine, owner, dataVars, raced>>

\* on(): what onError, onRead, onConnection and the like call.
On(t, slot) ==
  /\ Moves(t, "user", "on")
  /\ target' = [target EXCEPT ![t] = slot]
  /\ UNCHANGED <<mine, owner, dataVars, raced>>

\* Mutant of LockHandler: the mutex is not looked at.
LockHandlerNot(t) ==
  /\ Moves(t, "on", "assign")
  /\ UNCHANGED <<target, mine, owner, dataVars, raced>>

LockHandler(t) ==
  /\ Moves(t, "on", "assign") /\ Lock(t, target[t][1])
  /\ UNCHANGED <<target, mine, dataVars, raced>>

Assign(t) ==
  /\ Moves(t, "assign", "user") /\ Unlock(target[t][1])
  /\ \E f \in Callback : callback' = [callback EXCEPT ![target[t]] = f]
  /\ target' = [target EXCEPT ![t] = NULL]
  /\ UNCHANGED <<mine, handling, completed, queueVars, raced>>

-----------------------------------------------------------------------------
(* run().                                                                  *)

\* Mutant of Submit: the mutex is not taken.
SubmitUnlocked ==
  /\ Moves("loop", "submit", "visit") /\ Enters("loop", InRing)
  /\ UNCHANGED <<target, mine, owner, dataVars>>

\* preparePendingRequests: for_each and clear under the mutex.
Submit ==
  /\ Moves("loop", "submit", "visit") /\ Enters("loop", InRing)
  /\ Lock("loop", "pending")
  /\ UNCHANGED <<target, mine, dataVars>>

\* Mutant of Visit: a request that cannot be prepared is reported to its
\* subscriber right away.
VisitReporting ==
  /\ visited < Len(pending)
  /\ visited' = visited + 1
  /\ waiting' = waiting \ {pending[visited + 1]}
  /\ \E slot \in Slot : target' = [target EXCEPT !["loop"] = slot]
  /\ Moves("loop", "visit", "handle")
  /\ UNCHANGED <<mine, owner, callback, handling, completed, pending, submitted, raced>>

Visit ==
  /\ visited < Len(pending)
  /\ Moves("loop", "visit", "visit")
  /\ visited' = visited + 1
  /\ submitted' = submitted \cup {pending[visited + 1]}
  /\ waiting' = waiting \ {pending[visited + 1]}
  /\ UNCHANGED <<target, mine, owner, callback, handling, completed, pending, raced>>

Visited ==
  /\ visited = Len(pending)
  /\ Moves("loop", "visit", "clear")
  /\ UNCHANGED <<target, mine, owner, dataVars, raced>>

\* Mutant of Clear: the count goes on from one visit to the next.
ClearKeepingCount ==
  /\ Moves("loop", "clear", IF visited = 0 THEN "completions" ELSE "enter")
  /\ pending' = <<>>
  /\ Unlock("pending")
  /\ UNCHANGED <<target, mine, callback, handling, completed, visited, submitted, waiting, raced>>

\* The count is that of the visit; io_uring_enter is skipped if it is 0.
Clear ==
  /\ Moves("loop", "clear", IF visited = 0 THEN "completions" ELSE "enter")
  /\ raced' = (visited # 0 /\ \E t \in Thread : pc[t] \in InRing)
  /\ pending' = <<>> /\ visited' = 0
  /\ Unlock("pending")
  /\ UNCHANGED <<target, mine, callback, handling, completed, submitted, waiting>>

Entered ==
  /\ Moves("loop", "enter", "completions")
  /\ UNCHANGED <<target, mine, owner, dataVars, raced>>

\* A completion (of block b), or a failed submission (b is NULL), becomes an
\* event for a subscriber or for the error handler.
Event(b, slot) ==
  /\ Moves("loop", "completions", "handle")
  /\ target' = [target EXCEPT !["loop"] = slot]
  /\ completed' = b
  /\ UNCHANGED <<mine, owner, callback, handling, queueVars, raced>>

\* handle(): the mutex is held while the callback runs.
Handle ==
  /\ Moves("loop", "handle", "user") /\ Lock("loop", target["loop"][1])
  /\ callback[target["loop"]] # NULL
  /\ handling' = target["loop"]
  /\ target' = [target EXCEPT !["loop"] = NULL]
  /\ UNCHANGED <<mine, callback, completed, queueVars, raced>>

\* handle() has returned: release() of a single-shot request, or on with the
\* loop over completions.
Leave(from) ==
  \/ /\ completed # NULL
     /\ Moves("loop", from, "release") /\ Enters("loop", InPool)
     /\ UNCHANGED completed
  \/ Moves("loop", from, "completions") /\ completed' = NULL /\ UNCHANGED raced

\* Nobody has set a callback.
HandleNothing ==
  /\ Leave("handle")
  /\ owner[target["loop"][1]] = NULL /\ callback[target["loop"]] = NULL
  /\ target' = [target EXCEPT !["loop"] = NULL]
  /\ UNCHANGED <<mine, owner, callback, handling, queueVars>>

CallbackReturns ==
  /\ handling # NULL
  /\ Leave("user")
  /\ Unlock(handling[1]) /\ handling' = NULL
  /\ UNCHANGED <<target, mine, callback, queueVars>>

Released ==
  /\ Moves("loop", "release", "completions")
  /\ submitted' = submitted \ {completed} /\ completed' = NULL
  /\ UNCHANGED <<target, mine, owner, callback, handling, pending, visited, waiting, raced>>

NextIteration ==
  /\ Moves("loop", "completions", "submit")
  /\ UNCHANGED <<target, mine, owner, dataVars, raced>>

Run ==
  /\ handling = NULL
  /\ Moves("loop", "user", "submit")
  /\ UNCHANGED <<target, mine, owner, dataVars, raced>>

-----------------------------------------------------------------------------

\* The mutex a thread waits for, and those who wait only for each other.
Awaits(t) == CASE pc[t] = "push"            -> {"pending"}
               [] t = "loop" /\ pc[t] = "submit" -> {"pending"}
               [] pc[t] \in {"on", "handle"} -> {target[t][1]}
               [] OTHER                     -> {}

Stuck(S) == \A t \in S : \E m \in Awaits(t) : owner[m] \in S

\* A callback that sets a callback of its own handler waits for itself.
ReplacesItself ==
  pc["loop"] = "on" /\ handling # NULL /\ target["loop"][1] = handling[1]

\* The threads stay where they are: deadlocked, or after a data race.
Halted == (raced \/ ReplacesItself) /\ UNCHANGED thvars

ThreadsNext ==
  \/ \E t \in Actor :
       \/ Push(t) \/ Allocated(t) \/ LockPending(t) \/ AppendPending(t)
       \/ Cancel(t) \/ Cancelled(t)
       \/ LockHandler(t) \/ Assign(t)
       \/ \E slot \in Slot : On(t, slot)
  \/ Run \/ Submit \/ Visit \/ Visited \/ Clear \/ Entered
  \/ \E b \in submitted \cup {NULL}, slot \in Slot : Event(b, slot)
  \/ Handle \/ HandleNothing \/ CallbackReturns \/ Released \/ NextIteration
  \/ Halted

ThreadsSpec == ThreadsInit /\ [][ThreadsNext]_thvars

-----------------------------------------------------------------------------

(* The mutexes are never taken in a circle, although callbacks run with one *)
(* held and take the others: the threads that wait for each other are the   *)
(* loop, in a callback that replaces a callback of its own handler, and     *)
(* those who wait for it.                                                   *)
NoCircularWait ==
  \A S \in SUBSET Actor : S # {} /\ Stuck(S) => "loop" \in S /\ ReplacesItself

(* No request pushed while the pending ones are being prepared is cleared   *)
(* with them: what push() has appended is in the vector until for_each has  *)
(* visited it, once.                                                        *)
NothingForgotten ==
  /\ waiting = {pending[i] : i \in visited + 1 .. Len(pending)}
  /\ \A i, j \in 1..Len(pending) : pending[i] = pending[j] => i = j

(* A std::function is not replaced while it runs, by any thread.            *)
CallbackKept ==
  [][handling # NULL => callback'[handling] = callback[handling]]_thvars
=============================================================================
