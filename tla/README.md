# Verification of ringnet

ringnet is a small C++ library for asynchronous TCP on top of Linux's io_uring.
This directory holds TLA+ models of its core, the TLC configurations that check
them on small instances, and theorems about them checked by TLAPS.

## The system

| Part | State | Operations | Correct when |
|---|---|---|---|
| `SubmissionQueue` (`uring/submissionQueue`, `pendingRequests`, `requestPool`, `requests`) | pool of request blocks, one vector of pending requests per type, submission and completion ring | `push`, `cancel`, `submit`, `forEachCompletion` | a request goes once through its cycle; no block is used after its release, shared or leaked |
| `BufferRing` (`uring/bufferRing`) | ring of buffers offered to the kernel for multishot reads | `setupBuffers`, `get`, `release` | a buffer is either offered to the kernel or being read by a subscriber |
| `EventLoop` (`eventLoop`, `events`) | the two above, `should_continue` | `run`, `add`, `cancel`, `stop` | a completion becomes the event of its own request; added requests end in a notification; `stop` is obeyed |
| `ErrorHandler`, `EventHandler` | table of callbacks, a mutex held while a callback runs | `handle`, `on` | no circular wait; a callback is not replaced while it runs |
| `Connection` | socket, subscriber | `asyncRead`, `asyncWrite`, moves, destructor | no completion reaches a destroyed subscriber; its bytes come in order |
| `Acceptor`, `Connector` | socket, subscriber, status | `listen`, `asyncConnect`, callbacks, destructor | the status follows what the socket does; can be used again after an error |
| sockets, `FileDescriptor` | owned descriptor | RAII, wrappers of system calls | one owner, closed once; a success is reported as such |
| status, chrono and trait utilities, samples, benchmarks, tests | none of their own | | |

How they interact. `Connection`, `Acceptor` and `Connector` call `EventLoop::add`
with a request and the address of their subscriber (an `EventHandler`). The
request is copied to a block of the pool, and the block's address is the
`user_data` of its submission queue entry (SQE) and of its completions (CQE).
`EventLoop::run` alternates `submit` and `forEachCompletion`; for each CQE it
reads the block, calls the subscriber found there and releases the block. A
callback may add and cancel requests. The destructors of the network classes
call `EventLoop::cancel`.

What is hard here: the kernel consumes SQEs partially and posts completions at
any time; a block's address travels through the kernel and is dereferenced much
later; callbacks change the queue in the middle of the loop over completions;
full rings; overflowing completions; buffers shared with the kernel and between
connections; the 16-bit tail of the buffer ring; descriptors and addresses that
are reused; threads that push while the loop prepares, and mutexes held while
callbacks run. `PROJECT.json` lists each hazard at its line.

## Modules

| Module | Role |
|---|---|
| `SubmissionQueue` | the queue, with the kernel's side of the rings |
| `RequestLifecycle` | abstract: the cycle of one request, as the header of `SubmissionQueue` documents it |
| `BufferRing` | the buffer ring, with the kernel's side |
| `ByteStream` | abstract: what subscribers are promised of the bytes of their peers |
| `ReadStream` | extends `BufferRing` with the contents of the buffers and the connections that share them; implements `ByteStream` |
| `EventLoop` | extends `SubmissionQueue`, orders its actions as `run` does, and instantiates `BufferRing` |
| `Network` | `Acceptor`, `Connector`, `Connection` and the descriptors they own, over an abstract event loop |
| `Threads` | the threads of the application and the loop, the mutexes of the queue and of the `EventHandler`s |
| `MCSubmissionQueue`, `MCBufferRing`, `MCReadStream`, `MCEventLoop`, `MCNetwork`, `MCThreads` | instances for TLC |
| `Selection` | `Filter`, the elements of a sequence that are in a set, for `SubmissionQueue`, `EventLoop` and `ReadStream` |
| `SubmissionQueueProofs`, `LifecycleProofs`, `BufferRingProofs`, `ReadStreamProofs`, `EventLoopProofs`, `NetworkProofs`, `ThreadsProofs` | theorems and proofs |
| `SelectionProofs` | lemmas about `Filter` and about sequences |

### SubmissionQueue

All calls come from one thread, as in the samples (`stop` excepted; `Threads` has
the others), so that the state of that thread is one variable `pc`. Its steps are cut where the kernel
can act: each `prepare`, each entry into the kernel, each completion.

- `pool` and `mem` are the pool: `pool` the allocated blocks, `mem` their
  contents, which stay in place when a block is deallocated.
- `pending` is `PendingRequests`: `for_each` visits the types in the order of
  the template's arguments (`Before`). The code clears the vectors after the
  visit; `Prepare` and `Retry` remove each request as it is visited. The mutex
  is held during the visit, so nobody can tell the difference.
- `sq` holds the SQEs prepared and not yet consumed, `sqFree` the vacant slots,
  with the `user_data` of their last use: `cancel` does not set it.
- `inflight` is the kernel's work, `cq` the completions in the order they are
  posted, the first `visible` of them in the ring, the others on the kernel's
  overflow list. `seen` is the count `processed` of `forEachCompletion`.
- The `req` of an SQE, operation or CQE is a ghost: what the kernel was asked
  to do. The code reads `mem[user]` instead, and the properties compare the two.

`Submit`, `Prepare`, `PrepareFull`, `Retry`, `Prepared`, `Consume`,
`FlushOverflow` and `EndEnter` are `submit()`; `Cancel` and `RetryCancel`
`cancel()`; `Reap`, `Take`, `Release`, `EndReap` and `Advance`
`forEachCompletion`. `Refuses` lets `io_uring_enter` stop before the ring is
empty, which it does when an SQE is rejected or memory is short. A multishot
operation stays armed only if its CQE has room in the ring.

History variables: `lost` (requests that got `QUEUE_FULL`) and `cancelled` (the
completion of a `cancel` has been released). The properties hold up to
that release: its `user_data` is null (the run `SQ_crash`) or that of the slot's
former request, whose block is then released a second time, so that a block
pending under one type can be written again with a request of another.

### BufferRing

`slots`, `khead` and `tail` are the shared ring; indices are taken modulo
`TailMod`, 2^16 in the code. `Get` and `ReleaseBuffer` are `get` and `release`,
whose test of `IORING_CQE_F_BUFFER` is always true. `Serve` and `Served` stand
for the event loop around them. `spurious` records that an end of file, which
carries no buffer, has been released. `BRInit` is the state after
`setupBuffers`, which may have failed (`registered` false).

### ReadStream and ByteStream

`ByteStream` has a queue of received chunks per peer (`unread`) and the chunk a
callback is looking at (`view`), which changes only between callbacks.
`ReadStream` adds to `BufferRing` the memory of the buffers and, for each waiting
completion, whose request it belongs to. The refinement mapping reads the chunks
*through the buffers*: `Unread(c)` is what the completions of `c` point to now and
`View` is what the callback sees now. A buffer the kernel filled too early, a
completion skipped or a buffer swapped therefore shows up as a step `ByteStream`
does not have. Any number of reads of a connection may be armed; a result is data
that fit one buffer, an end of file or an error.

### EventLoop

`at` is the place in `run`. `EventOf` is the lambda: its early returns and the
switch on the operation in the block. `event` is the callback in progress; while
it runs the application may call `add` and `cancel`. A multishot read's
completion obeys `BufferRing!Outcome`. Requests may be added without a subscriber,
as a `Connection` that was moved from would do: the loop reports them and returns
early, which for a read loses the buffer (`Unaddressed`). Payloads (bytes,
descriptors, error codes) are left out.

### Network

One `Acceptor`, one `Connector` and the `Connection`s they create. The code of
the application runs before `run()` and in callbacks; `running` tells the two
from the loop. Callbacks are registered before `listen` and `asyncConnect`.

- `open` is the process's table of descriptors; the kernel gives out the lowest
  free number. `socket[o]` is the `FileDescriptor` object `o` holds. `Assign` is
  its move assignment, which closes the old descriptor.
- `Valid` is `FileDescriptor::operator bool` and the test of its destructor, both
  `fd > 0`. The kernel gives out number 0 when stdin is closed; such a descriptor
  works, but a destructor neither cancels its requests nor closes it, and it stays
  open with no owner. `Fd` may contain 0 or not.
- `listening` and `connection` are the status of `Acceptor` and `Connector`. A
  connection that fails leaves `connection` at `PENDING`: only the callback of a
  success changes it.
- `req` holds the outstanding requests: `pending` in the queue, `armed` in the
  kernel, `detached` once their number has been closed (the operation goes on
  with the file), `cancelled`, `failed` (submitted with a closed number), `done`.
  `orphan` is a history variable: the subscriber has been freed.
- `cancels` holds the cancellations prepared by `Destroy` and not yet submitted.
  The kernel resolves their number when they are submitted, after the close.
  `Destroy` may itself submit the earlier ones, when they fill the ring.
- `subscriber[o]` is the `EventHandler` an object holds; `MoveTo` swaps the
  descriptors of two `Connection`s and hands the subscriber over, freeing the one
  replaced. A `Connection` that was moved from is only destroyed or assigned to.
- `Setup` is the sequence of socket calls of `listen` and `asyncConnect`, the first
  that fails (if any) being chosen. `errno` is never cleared, and
  `FileDescriptorStatus` looks at nothing else: a call that succeeds is taken for a
  failure when errno was set before. `blamed` records that `listen` returned an
  error, with an errno that was set before, though no call had failed.
- `calling` is the subscriber whose callback runs. `dangling` records the use of
  something freed: a subscriber called after its end or freed in its own callback,
  or the address a connection request points to, a member of the `Connector`.

The kernel takes all the requests it is offered; refusals, full rings and the
completions of cancellations belong to `SubmissionQueue` and `EventLoop`. What
follows a call of a destroyed subscriber is undefined and not followed.

### Threads

Each thread has a `pc`, and `owner` says who holds each mutex. `Push`, `Allocated`,
`LockPending` and `AppendPending` are `push`; `On`, `LockHandler` and `Assign` are
`on`, which all the `onError`, `onRead`, `onConnection` and the like end in;
`Submit`, `Visit`, `Visited`, `Clear` and `Entered` are `submit`; `Event`, `Handle`,
`HandleNothing`, `CallbackReturns` and `Released` the handling of a completion. A
callback (`handling`) may make any call the other threads make. The types of
requests and of vectors are merged into one.

The pool and the submission ring have no mutex. Two threads inside either set
`raced`, a data race after which the behaviour is undefined and not followed:
`push` allocates before it locks, so that every concurrent `push` can race, and
the properties speak of the executions that happen not to. A callback that sets a
callback of its own handler (`ReplacesItself`) deadlocks at once.

## What the runs check

Passing runs:

- `SQ_requests`: `PointersLive` (what user_data points to is allocated and still
  the request), `ExclusiveBlocks` (one request per block, one stage at a time),
  `NoLeak`, `NoOvertaking` (order within a type), `FollowsCycle` (the queue
  implements `RequestLifecycle`), `SQTypeOK`, with one `cancel`.
- `ST_reads`: `ReadsStream` (two connections that share four buffers implement
  `ByteStream`), `OneOwner`, `NoBufferLost`, `RingBeforeBuffers`, `BRTypeOK`.
- `EL_events`: `RightEvent` (the event is the one of the request the kernel has
  completed) and `UsesBufferRing` (the loop's steps are steps of `BufferRing`),
  with one `cancel`, `ELTypeOK`.
- `EL_live`: `StopReturns` (`forEachCompletion` acknowledges only at its end, so
  that a pass sees at most `CqEntries` completions: that is what makes it hold) and
  `NotifiedUnlessOverflow` (every write ends in a notification while multishot
  reads keep completing, for a kernel that takes every SQE it has room for, unless
  the completion ring overflows).
- `NET_owners`: `DescriptorOwned` (an open descriptor has one owner, an object or
  the completion that brings it, and no one holds a closed one), `RightFile` (a
  request works on the socket of the object that holds its subscriber, though the
  kernel looks its number up later and Connections are moved), `StatusKnows` (a
  request on its way is known to the status, so that its socket and address are not
  overwritten), `CancelFindsNothing` (the cancellation of a destructor arrives after
  the close: it stops neither the requests of the destroyed object nor those of a
  later owner of the number), `NetTypeOK`. Stdin is closed in this run, so that the first socket is number 0, which no
  destructor cancels or closes. `DescriptorOwned` exempts 0 from having an owner while
  it is open, and from nothing else: it has at most one, and no one holds it before the
  kernel has given it out. Without the exemption it fails: an `Acceptor` or `Connection`
  that gives up number 0 leaves it open for ever, although `FileDescriptor` is
  documented as a "Thin RAII wrapper around a file descriptor" (`sockets.hpp:34`).
- `TH_calls`: `NoCircularWait`, `NothingForgotten` (a request pushed while the
  pending ones are prepared is not cleared with them), `CallbackKept` (no callback
  is replaced while it runs), `ThreadsTypeOK`.

Runs that end in a violation, each a disagreement between the code and what it
says of itself (see `findings`):

- `SQ_counted`: a request without an SQE is counted as prepared, and dropped.
- `SQ_crash`: the completion of a `cancel` made in a fresh slot has a null
  `user_data`; the loop reports it, `release` dereferences it.
- `BR_eof`: the end of a stream gives back buffer 0, which is then offered twice.
- `EL_overflow`: `submit` returns early when nothing is pending, so that
  completions on the kernel's overflow list wait for another `add`, possibly for
  ever. SQEs the kernel has refused wait in the ring likewise, which this run leaves
  aside (`Refuses` is FALSE): the same early return is at fault.
- `NET_dangling`: a `Connection` is destroyed while one of its requests is
  outstanding; the completion calls its subscriber.
- `NET_errno`: with errno set by an earlier call, `listen` returns an error although
  all its calls succeed.

### Bounds

Two or three blocks and two kernel requests are enough for a batch larger than
the ring, for requests of two types and of the same type at once, and for the
reuse of a block. One SQE makes every second `prepare` flush; the completion ring
has twice as many entries as the submission ring, as `io_uring_queue_init` makes
it, and overflows (a multishot request fills it). `MaxCancels` bounds calls of
`cancel`; one or two suffice for an SQE in a fresh and in a used slot.
`UntilCancelled` stops the exploration where the properties of the run become
void. In `ST_reads` there are four buffers (`setupBuffers` wants a power of two)
and the tail wraps around at twice that number, the smallest modulus that tells a
full ring from an empty one; all buffers can be out at once, and `MaxCompletions`
exceeds their number so that errors and ends of file come between them.
`UntilSpurious` stops where its properties become void; two data values are enough
for a value in the wrong place to be seen, since each step is compared with
`ByteStream`. The runs of `EventLoop` have one buffer: which buffer comes when is
the question of `ST_reads`. In the runs of `Network` three numbers, 0 being one of
them, two connections, two subscribers, two requests and two waiting completions are enough for a number
and an address to be used again while a request on the former owner is
outstanding, for two completions to bring one descriptor each while the `Acceptor` has
its own, and for two connections to change places; once number 0 is left open, two
remain. `MCView` leaves `blamed` out of `NET_owners`, none of whose properties looks at it. In `TH_calls` two threads
beside the loop, two handlers with two callbacks each and three blocks are enough
for a circle of any two or three of the mutexes and for a `push` between any two
steps of the loop. Results are an error, zero, or positive: the loop tells nothing
else apart. Symmetry is used for blocks, requests, subscribers, connections,
threads and data in the runs of safety properties only.

### Fairness

`ELFairness` assumes that the loop's thread is scheduled and its callbacks return
(weak fairness of `LoopSteps`); that a connection or a write the kernel has
accepted ends, with an error at worst (weak fairness; nothing is assumed of reads
and accepts, whose peer may stay silent); and that the kernel does not refuse
SQEs for ever when it is offered them again and again (strong fairness of
`Consumes`). Nothing is assumed of the application: it need not call `add` again.

## What is proved

`SubmissionQueueProofs`, from `SQAssumption` alone (any number of blocks, kernel
requests and entries, any operations, any number of calls of `cancel`):

- `TypeCorrect`: `SQTypeOK`
- `PointersStayLive`: `PointersLive`
- `BlocksStayExclusive`: `ExclusiveBlocks`
- `NothingLeaks`: `NoLeak`

The inductive invariant is `SafeInv`. `TypeInv` adds to the types the
correspondence between `pc`, `caller` and `seen` (`Position`), needed because
`Current` is only defined while a completion is being handled. `Written` says
that whatever is not null points to a block that has been written. `Safe` is the
conjunction of the three properties: none is inductive alone. That a pushed block
is fresh needs `PointersLive` (nothing points outside the pool); that releasing a
block leaves no pointer to it needs `ExclusiveBlocks`; that the latter survives a
push needs the former. There is one lemma per action, and the theorems combine
them. Each lemma also says which requests the action moves from one stage to the
next (`PushMoves`, `PrepareMoves` and so on).

`LifecycleProofs`, from the same assumption:

- `QueueFollowsCycle`: `FollowsCycle`, the refinement of `RequestLifecycle`. `CycleInv`
  adds to `SafeInv` that a request which got no SQE is nowhere (`LostApart`), without
  which a lost block could come back; every step is then one of the movements above.
- `OrderIsKept`: `NoOvertaking`. A line of requests is the SQEs of a type, then the
  pending ones; each action appends to it, takes its head, moves the border between
  the two, or (without a vacant SQE) drops the first pending one. That an SQE is
  counted in the line of its own type is `PointersLive`, hence the guard `~cancelled`.

`BufferRingProofs`, from `BRAssumption` (any number of buffers that divides the
modulus of the indices): `BRTypeCorrect` (`BRTypeOK`); `NoBufferWithoutRing`
(`RingBeforeBuffers`); `BuffersHaveOneOwner` (`OneOwner`) and `BuffersComeBack`
(`NoBufferLost`). The last two are one induction (`OwnInv`): that the entry at the tail
is free when a buffer is given back needs that fewer than all the buffers are in the
ring, which follows from `OneOwner`, and that the tail is as many entries after the
head as there are buffers between them (`Aligned`), which needs that the number of
buffers divides the modulus. `NoBufferInErrors` says that an error, which gives
nothing back, carries no buffer. The lemmas on entries (`TakeEntry`, `AddEntry`,
`FullWindow`) are modular arithmetic.

`ReadStreamProofs`, from `BRAssumption` and `RSAssumption` (any connections and data):
`ConnectionsReadStreams` (`ReadsStream`, the refinement of `ByteStream`) and
`SharedBuffersAreSafe`, the theorems above for the specification the run `ST_reads`
checks. `StreamInv` adds to `OwnInv` that a completion with bytes has a buffer and that
it has been written (`Filled`). The heart is `SelectedIsFree`: the buffer the kernel is
about to fill is carried by no waiting completion, so that a read changes the last chunk
only.

`EventLoopProofs`, from `SQAssumption` and `ELAssumption` (what `BufferRing` assumes of
the number of buffers): `LoopTypeCorrect` (`ELTypeOK`), `EventsAreRight` (`RightEvent`),
`LoopKeepsBlocks` (the invariants of the queue hold in the loop, since its steps are
those of the queue and `NullRing`) and `LoopFollowsRing` (`UsesBufferRing`). The
inductive invariant `LoopInv` adds to `SafeInv` that there is an event exactly while a
callback runs (`EventPlace`) and that the buffer identifiers are in range
(`BuffersTyped`). `LoopFollowsRing` has the hypothesis `Bounded`: fewer than
`MaxCompletions` completions of reads wait. That bound keeps `BufferRing` finite for TLC
and is none of the code; the run has it above what its rings can hold.

`NetworkProofs`, from `NetAssumption` and `NoRequest` (any number of descriptors,
connections, subscribers, requests and waiting completions; null is none of them;
descriptor 0 may be among the numbers):
`NetTypeCorrect` (`NetTypeOK`), `DescriptorsAreOwned` (`DescriptorOwned`),
`RequestsHaveTheirFile` (`RightFile`), `StatusesKnow` (`StatusKnows`) and
`CancellationsFindNothing` (`CancelFindsNothing`). They are one induction, `NetInv`: that
a callback finds the object of its subscriber needs `Served`; that a descriptor is closed
by its owner only needs `Owned`, where number 0 alone may be open without an owner
(`CloseIs`); that a destructor's cancellation finds nothing needs
that the requests on its number have been detached by the close (`Uncancelled`); that
`onConnection` may overwrite the socket needs that no connection request is left
(`OneConnect`, `Connecting`); that a completed accept is the owner of its descriptor
needs `Results`.

`SelectionProofs`: what `Filter` does when a sequence grows at its end or shrinks at its
front. `SelectSeq` cannot be expanded by the prover; `Filter` is a recursive function,
and the induction over `Nat` is stated for a set (`NatInd`, from the well-foundedness of
`<`), which avoids the operator parameter of the library's theorem.

`ThreadsProofs`, from `ThreadsAssumption` (any number of threads, handlers, types of
events, callbacks and blocks): `ThreadsTypeCorrect`, `NoRequestForgotten`
(`NothingForgotten`), `CallbackStays` (`CallbackKept`) and `NoCircle`
(`NoCircularWait`). The inductive invariant `ThreadsInv` says who holds each mutex
in terms of where the threads are (`Holding`), what they keep there (`Positions`),
and that a block is with one thread, pending or with the kernel (`Blocks`): without
the last a block could be pushed twice. The absence of circles follows since a
thread other than the loop that holds a mutex waits for nothing (`HoldersRun`).

Only model-checked: liveness (`StopReturns`, `NotifiedUnlessOverflow`), which rests on
fairness and is out of the prover's reach. The runs that end in a violation need no proof.

## What is not modelled

- What follows a data race between threads, the use of something freed, or a block
  freed twice: undefined behaviour, at which the models stop.
- Addresses and error messages; logging. `resolve` never frees the list it gets
  (its deleter holds the pointer `getaddrinfo` had not yet set), and
  `as_sockaddr` gives an IPv6 address the length of an IPv4 one: facts about data
  no property of the models depends on.
- The length of a short write, and the order in which the kernel executes two
  writes in flight. The buffer of a write belongs to the application, which must
  leave it alone until the completion.
- The branch of `submit` without timeout, which the library never uses; a second
  call of `setupBuffers`, likewise; the destructors of the ring and of the queue,
  after which nothing runs.
- The use of a `Connection` that was moved from, except for its request without a
  subscriber; several acceptors or connectors at once (each has its own socket,
  subscriber and status; `Connection`s stand for several objects).
- The blocking `net::connect`, which nothing calls.
- Status strings, the conversion of durations and the type traits: no state.
- Samples, benchmarks and tests: clients of the library.

## Plan

1. Done: all the components with a state of their own.
2. Done: a theorem for every safety property and refinement a passing run checks.
3. Next: the links between the models as theorems. The requests `Network` adds are those
   `EventLoop` serves, and what `Threads` says of one vector of pending requests is what
   `SubmissionQueue` assumes of its visit; both are argued above in words only. The bound
   in `LoopFollowsRing` could be derived from the sizes of the rings and of the pool.
