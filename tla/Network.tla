------------------------------- MODULE Network -------------------------------
(***************************************************************************)
(* The network objects of ringnet (an Acceptor, a Connector and the        *)
(* Connections they create), the file descriptors they own and the         *)
(* requests they give to the event loop.                                   *)
(*                                                                         *)
(* The event loop appears as these objects see it: requests are submitted  *)
(* together, after the cancellations prepared before, and the kernel takes *)
(* all of them; completions come back in any order, one callback at a      *)
(* time.  SubmissionQueue and EventLoop model its insides, the completion  *)
(* of a cancellation included.                                             *)
(***************************************************************************)
EXTENDS Naturals, Sequences

CONSTANTS
  Fd,             \* numbers of file descriptors; 0 is one when stdin is closed
  Conn,           \* addresses of Connection objects
  Sub,            \* addresses of their subscribers
  Req,            \* requests given to the loop
  NULL,
  MaxCompletions  \* bound: completions waiting to be seen

ASSUME NetAssumption ==
  /\ Fd \subseteq Nat /\ NULL \notin Fd
  /\ {"acceptor", "connector"} \cap (Conn \cup Sub) = {}
  /\ NULL \notin Sub \cup {"acceptor", "connector"}
  /\ MaxCompletions \in Nat

Owner      == Conn \cup {"acceptor", "connector"}
Subscriber == Sub \cup {"acceptor", "connector"}
Op         == {"ACCEPT", "CONNECT", "READ_MULTISHOT", "WRITE"}

VARIABLES
  open,        \* numbers of the open descriptors
  alive,       \* objects that exist
  socket,      \* the FileDescriptor each of them holds
  subscriber,  \* its subscriber; NULL once a Connection has been moved from
  listening,   \* Acceptor::status
  connection,  \* Connector::connection_status
  req,         \* outstanding requests
  cancels,     \* descriptors of the cancellations prepared, not yet submitted
  completions,
  running,     \* the loop, or code of the application: a callback (that of
               \* onConnection set apart) or what precedes run()
  calling,     \* the subscriber whose callback is running
  errno,       \* errno is not 0
  dangling,    \* history: the freed object that has been used
  blamed       \* history: listen() has returned an error, no call having failed,
               \* with an errno that was set before

objVars    == <<open, alive, socket, subscriber>>
loopVars   == <<req, cancels, completions>>
statusVars == <<listening, connection>>
histVars   == <<dangling, blamed>>
netvars    == <<objVars, statusVars, loopVars, running, calling, errno, histVars>>

(* A request keeps the number of its descriptor; the kernel finds the      *)
(* socket when the request is submitted, and the operation goes on with it *)
(* when the number is closed (stage "detached") and given to another one.  *)
(* orphan is a history variable: the subscriber has been destroyed.        *)
Request    == [op : Op, fd : Fd, sub : Subscriber, orphan : BOOLEAN,
               stage : {"pending", "armed", "detached", "cancelled", "failed", "done"}]
Completion == [req : Req, ok : BOOLEAN, fd : Fd \cup {NULL}, more : BOOLEAN]

ASSUME NoRequest == NULL \notin Request

NetTypeOK ==
  /\ open \subseteq Fd
  /\ alive \subseteq Owner
  /\ socket \in [Owner -> Fd \cup {NULL}]
  /\ subscriber \in [Owner -> Subscriber \cup {NULL}]
  /\ listening \in BOOLEAN
  /\ connection \in {"DISCONNECTED", "PENDING", "CONNECTED"}
  /\ req \in [Req -> Request \cup {NULL}]
  /\ cancels \subseteq Fd
  /\ completions \in Seq(Completion)
  /\ \A i \in 1..Len(completions) : req[completions[i].req] # NULL
  /\ running \in {"loop", "user", "onConnection"}
  /\ calling \in Subscriber \cup {NULL}
  /\ errno \in BOOLEAN /\ blamed \in BOOLEAN
  /\ dangling \in Subscriber \cup {NULL, "address"}

NetInit ==
  /\ open = {}
  /\ alive = {"acceptor", "connector"}
  /\ socket = [o \in Owner |-> NULL]
  /\ subscriber = [o \in Owner |-> IF o \in Conn THEN NULL ELSE o]
  /\ listening = FALSE /\ connection = "DISCONNECTED"
  /\ req = [r \in Req |-> NULL]
  /\ cancels = {} /\ completions = <<>>
  /\ running = "user" /\ calling = NULL
  /\ errno = FALSE
  /\ dangling = NULL /\ blamed = FALSE

-----------------------------------------------------------------------------
(* Descriptors.                                                            *)

\* The kernel gives out the lowest free number.
NextFd == {n \in Fd \ open : \A m \in Fd \ open : n <= m}

\* The requests of q for which P holds change to what F makes of them.
Update(q, P(_), F(_)) ==
  [r \in Req |-> IF q[r] # NULL /\ P(q[r]) THEN F(q[r]) ELSE q[r]]

\* FileDescriptor::operator bool, and the test of its destructor.  Number 0 is
\* not taken for a descriptor, although the kernel may give it out.
Valid(n) == n # NULL /\ n > 0

\* ~FileDescriptor of number n: what stays open, and what becomes of the requests q.
Close(n) == IF Valid(n) THEN open \ {n} ELSE open

Closed(q, n) ==
  Update(q, LAMBDA x : x.stage = "armed" /\ x.fd = n /\ Valid(n),
            LAMBDA x : [x EXCEPT !.stage = "detached"])

\* socket = ::socket(...): the temporary takes the old descriptor by swap and
\* closes it.  n is NULL when ::socket has failed.
Assign(o, n) ==
  /\ open' = Close(socket[o]) \cup ({n} \ {NULL})
  /\ socket' = [socket EXCEPT ![o] = n]

\* EventLoop::add, to the requests q
Add(q, op, n, o) ==
  \E r \in Req :
    /\ q[r] = NULL
    /\ req' = [q EXCEPT ![r] = [op |-> op, fd |-> n, sub |-> subscriber[o],
                                orphan |-> FALSE, stage |-> "pending"]]

\* The application runs in callbacks and before run().
UserCode == running # "loop" /\ dangling = NULL

-----------------------------------------------------------------------------
(* Acceptor and Connector.                                                 *)

\* What a FileDescriptorStatus is made of: errno, whatever the call returned.
FileDescriptorStatus(e) == ~e

\* resolve() fails: nothing else is done.
Unresolved ==
  /\ errno' \in {errno, TRUE}
  /\ UNCHANGED <<open, socket, req, statusVars, blamed>>

\* The other calls, of which the first to fail is named, if any.  A socket that
\* is not obtained is noticed by set_option.  Calls that succeed leave errno
\* as it is or set it (getaddrinfo does), and never clear it.
Setup(o, op, calls, Succeeds) ==
  \E failing \in calls \cup {"none"} :
    /\ \E n \in IF failing = "socket" THEN {NULL} ELSE NextFd : Assign(o, n)
    /\ errno' \in {errno \/ failing # "none", TRUE}
    /\ IF FileDescriptorStatus(errno')
         THEN Add(Closed(req, socket[o]), op, socket'[o], o) /\ Succeeds /\ UNCHANGED blamed
         ELSE /\ req' = Closed(req, socket[o])
              /\ blamed' = (blamed \/ (op = "ACCEPT" /\ failing = "none" /\ errno))
              /\ UNCHANGED statusVars

Listen ==
  /\ UserCode /\ "acceptor" \in alive
  /\ ~listening
  /\ \/ Unresolved
     \/ Setup("acceptor", "ACCEPT", {"socket", "set_option", "bind", "listen"},
              listening' = TRUE /\ UNCHANGED connection)
  /\ UNCHANGED <<alive, subscriber, cancels, completions, running, calling, dangling>>

\* Mutant of AsyncConnect: a connection that is pending is not looked for.
AsyncConnectAgain ==
  /\ UserCode /\ "connector" \in alive
  /\ \/ Unresolved
     \/ Setup("connector", "CONNECT", {"socket", "set_option"},
              connection' = "PENDING" /\ UNCHANGED listening)
  /\ UNCHANGED <<alive, subscriber, cancels, completions, running, calling, dangling>>

AsyncConnect ==
  /\ UserCode /\ "connector" \in alive
  /\ connection # "PENDING"
  /\ \/ Unresolved
     \/ Setup("connector", "CONNECT", {"socket", "set_option"},
              connection' = "PENDING" /\ UNCHANGED listening)
  /\ UNCHANGED <<alive, subscriber, cancels, completions, running, calling, dangling>>

-----------------------------------------------------------------------------
(* Connection.                                                             *)

\* A Connection that has been moved from is not used.
Usable(c) == UserCode /\ c \in alive /\ subscriber[c] # NULL

AsyncRead(c) ==
  /\ Usable(c)
  /\ Add(req, "READ_MULTISHOT", socket[c], c)
  /\ UNCHANGED <<objVars, statusVars, cancels, completions, running, calling, errno, histVars>>

AsyncWrite(c) ==
  /\ Usable(c)
  /\ Add(req, "WRITE", socket[c], c)
  /\ UNCHANGED <<objVars, statusVars, cancels, completions, running, calling, errno, histVars>>

\* The kernel handles the cancellations: it looks for the socket the number
\* stands for now.
Cancelled(q) ==
  Update(q, LAMBDA x : x.stage = "armed" /\ x.fd \in cancels,
            LAMBDA x : [x EXCEPT !.stage = "cancelled"])

Orphaned(q, u) ==
  Update(q, LAMBDA x : x.sub = u, LAMBDA x : [x EXCEPT !.orphan = TRUE])

\* A subscriber is freed, perhaps in its own callback: its mutex is then locked.
Frees(u) == dangling' = IF u # NULL /\ u = calling THEN u ELSE dangling

\* Destructor of any of the three: a cancellation is prepared, for which the
\* earlier ones are submitted if they fill the submission queue; then the
\* subscriber is freed and the descriptor closed.
Destroy(o) ==
  /\ UserCode /\ o \in alive
  /\ alive' = alive \ {o}
  /\ \/ /\ ~Valid(socket[o])
        /\ req' = Orphaned(req, subscriber[o])
        /\ UNCHANGED cancels
     \/ /\ Valid(socket[o])
        /\ \/ /\ cancels' = cancels \cup {socket[o]}
              /\ req' = Closed(Orphaned(req, subscriber[o]), socket[o])
           \/ /\ cancels' = {socket[o]}
              /\ req' = Closed(Orphaned(Cancelled(req), subscriber[o]), socket[o])
  /\ open' = Close(socket[o])
  /\ socket' = [socket EXCEPT ![o] = NULL]
  /\ subscriber' = [subscriber EXCEPT ![o] = NULL]
  /\ Frees(subscriber[o])
  /\ UNCHANGED <<statusVars, completions, running, calling, errno, blamed>>

\* Mutant of MoveTo: the descriptors are not swapped.
MoveKeepingSocket(c, d) ==
  /\ Usable(c) /\ d \in alive \ {c}
  /\ UNCHANGED <<open, alive, socket, cancels>>
  /\ subscriber' = [subscriber EXCEPT ![d] = subscriber[c], ![c] = NULL]
  /\ req' = Orphaned(req, subscriber[d])
  /\ Frees(subscriber[d])
  /\ UNCHANGED <<statusVars, completions, running, calling, errno, blamed>>

\* d = std::move(c): the descriptors are swapped, the subscriber of d is freed.
\* (Moving to a new object changes nothing but its address.)
MoveTo(c, d) ==
  /\ Usable(c) /\ d \in alive \ {c}
  /\ socket' = [socket EXCEPT ![d] = socket[c], ![c] = socket[d]]
  /\ subscriber' = [subscriber EXCEPT ![d] = subscriber[c], ![c] = NULL]
  /\ req' = Orphaned(req, subscriber[d])
  /\ Frees(subscriber[d])
  /\ UNCHANGED <<open, alive, statusVars, cancels, completions, running, calling, errno, blamed>>

-----------------------------------------------------------------------------
(* The event loop.                                                         *)

LoopCode == running = "loop" /\ dangling = NULL

Pending(r) == req[r] # NULL /\ req[r].stage = "pending"

\* The pending requests reach the kernel.
Armed(q) ==
  Update(q, LAMBDA x : x.stage = "pending",
            LAMBDA x : [x EXCEPT !.stage = IF x.fd \in open THEN "armed" ELSE "failed"])

\* Mutant of Submit: the cancellations come after the pending requests.
SubmitCancelsLast ==
  /\ LoopCode /\ \E r \in Req : Pending(r)
  /\ req' = Cancelled(Armed(req))
  /\ cancels' = {}
  /\ UNCHANGED <<objVars, statusVars, completions, running, calling, errno, histVars>>

\* submit() with something pending.  The SQEs of cancellations are older than
\* those of the pending requests, prepared only now.  The address a connection
\* request points to is a member of the Connector.
Submit ==
  /\ LoopCode /\ \E r \in Req : Pending(r)
  /\ req' = Armed(Cancelled(req))
  /\ cancels' = {}
  /\ dangling' = IF \E r \in Req : Pending(r) /\ req[r].op = "CONNECT" /\ req[r].orphan
                   THEN "address" ELSE NULL
  /\ UNCHANGED <<objVars, statusVars, completions, running, calling, errno, blamed>>

\* submit() with nothing pending does not enter the kernel.
NotReady ==
  /\ LoopCode /\ \A r \in Req : ~Pending(r)
  /\ UNCHANGED netvars

\* The kernel completes request r; n is the descriptor of an accepted client.
Post(r, ok, n, more) ==
  /\ Len(completions) < MaxCompletions
  /\ completions' = Append(completions, [req |-> r, ok |-> ok, fd |-> n, more |-> more])
  /\ req' = IF more THEN req ELSE [req EXCEPT ![r].stage = "done"]
  /\ UNCHANGED <<alive, socket, subscriber, statusVars, cancels, running, calling, errno, histVars>>

Succeed(r) ==
  /\ dangling = NULL /\ req[r] # NULL /\ req[r].stage \in {"armed", "detached"}
  /\ \/ /\ req[r].op = "ACCEPT"
        /\ \E n \in NextFd, more \in BOOLEAN :
             Post(r, TRUE, n, more) /\ open' = open \cup {n}
     \/ /\ req[r].op # "ACCEPT"
        /\ \E more \in {FALSE, req[r].op = "READ_MULTISHOT"} : Post(r, TRUE, NULL, more)
        /\ UNCHANGED open

Fail(r) ==
  /\ dangling = NULL /\ req[r] # NULL /\ req[r].stage \in {"armed", "detached", "cancelled", "failed"}
  /\ Post(r, FALSE, NULL, FALSE)
  /\ UNCHANGED open

\* The completion forEachCompletion comes to, and its request.
Oldest == Head(completions)
Issuer == req[Oldest.req]

\* The subscriber of the request is called, the request released.
Handle(event) ==
  /\ LoopCode /\ completions # <<>> /\ ~Issuer.orphan
  /\ event = IF Oldest.ok THEN Issuer.op ELSE "ERROR"
  /\ running' = IF event = "CONNECT" THEN "onConnection" ELSE "user"
  /\ calling' = Issuer.sub
  /\ completions' = Tail(completions)
  /\ req' = IF Oldest.more THEN req ELSE [req EXCEPT ![Oldest.req] = NULL]
  /\ UNCHANGED <<open, statusVars, cancels, errno, histVars>>

\* A Connection is constructed with a new subscriber, from descriptor n.
Construct(c, n, others) ==
  /\ alive' = alive \cup {c}
  /\ socket' = [others EXCEPT ![c] = n]
  /\ \E u \in Sub \ {subscriber[o] : o \in Owner} :
       subscriber' = [subscriber EXCEPT ![c] = u]

\* Acceptor's callback creates the Connection of the client.
Accepted ==
  /\ Handle("ACCEPT")
  /\ \E c \in Conn \ alive : Construct(c, Oldest.fd, socket)

\* Mutant of Connected: the descriptor is copied.
ConnectedCopy ==
  /\ Handle("CONNECT")
  /\ \E c \in Conn \ alive : Construct(c, socket["connector"], socket)

\* Connector's callback moves its descriptor to a new Connection.
Connected ==
  /\ Handle("CONNECT")
  /\ \E c \in Conn \ alive :
       Construct(c, socket["connector"], [socket EXCEPT !["connector"] = NULL])

\* Mutant of Deliver: every completion releases its request.
DeliverReleasing ==
  /\ LoopCode /\ completions # <<>> /\ ~Issuer.orphan
  /\ running' = "user" /\ calling' = Issuer.sub
  /\ completions' = Tail(completions)
  /\ req' = [req EXCEPT ![Oldest.req] = NULL]
  /\ UNCHANGED <<objVars, statusVars, cancels, errno, histVars>>

Deliver ==
  /\ \E event \in {"READ_MULTISHOT", "WRITE", "ERROR"} : Handle(event)
  /\ UNCHANGED <<alive, socket, subscriber>>

\* A completion for a subscriber that is gone: undefined from here on.
Dangling ==
  /\ LoopCode /\ completions # <<>> /\ Issuer.orphan
  /\ dangling' = Issuer.sub
  /\ UNCHANGED <<objVars, statusVars, loopVars, running, calling, errno, blamed>>

\* The callback returns, or run() is called; onConnection sets the status last.
Return ==
  /\ UserCode
  /\ running' = "loop" /\ calling' = NULL
  /\ connection' = IF running = "onConnection" THEN "CONNECTED" ELSE connection
  /\ UNCHANGED <<objVars, listening, loopVars, errno, histVars>>

Undefined == dangling # NULL /\ UNCHANGED netvars

NetNext ==
  \/ Listen \/ AsyncConnect
  \/ \E c \in Conn : AsyncRead(c) \/ AsyncWrite(c)
  \/ \E c, d \in Conn : MoveTo(c, d)
  \/ \E o \in Owner : Destroy(o)
  \/ Submit \/ NotReady
  \/ \E r \in Req : Succeed(r) \/ Fail(r)
  \/ Accepted \/ Connected \/ Deliver \/ Dangling \/ Return
  \/ Undefined

NetSpec == NetInit /\ [][NetNext]_netvars

-----------------------------------------------------------------------------

\* What holds descriptor n: objects, and completions not yet handled.
Holders(n) == {o \in alive : socket[o] = n}
Carriers(n) == {i \in 1..Len(completions) : completions[i].fd = n}

(* A descriptor is closed once and by its owner: an open one belongs to one *)
(* object or to the one completion that brings it, and nothing holds the    *)
(* number of one that is closed (which the process might get again).        *)
(* Number 0, which nothing closes, may be open without an owner.            *)
DescriptorOwned ==
  \A n \in Fd :
    /\ \A o, p \in Holders(n) : o = p
    /\ \A i, j \in Carriers(n) : i = j
    /\ Holders(n) = {} \/ Carriers(n) = {}
    /\ Holders(n) # {} \/ Carriers(n) # {} => n \in open
    /\ n \in open /\ n # 0 => Holders(n) # {} \/ Carriers(n) # {}

(* A request whose subscriber exists operates on the socket of the object   *)
(* that holds the subscriber, although the kernel looks the number up only  *)
(* when the request is submitted and Connections are moved meanwhile.       *)
RightFile ==
  \A r \in Req :
    req[r] # NULL /\ ~req[r].orphan =>
      \E o \in alive :
        /\ subscriber[o] = req[r].sub
        /\ req[r].stage \in {"pending", "armed"} => req[r].fd = socket[o]
        /\ req[r].stage \notin {"detached", "failed"}

(* The status knows of the requests: a Connector with a connection request   *)
(* on its way is PENDING, so that asyncConnect overwrites neither the        *)
(* socket nor the address the kernel is about to read; an Acceptor with an   *)
(* accept request is LISTENING.                                              *)
StatusKnows ==
  \A r \in Req :
    req[r] # NULL /\ ~req[r].orphan =>
      /\ req[r].op = "CONNECT" => connection = "PENDING"
      /\ req[r].op = "ACCEPT" => listening

(* A cancellation is prepared by a destructor and submitted when its number *)
(* is closed, perhaps reused: it finds nothing, neither the requests of the *)
(* destroyed object, which go on, nor those of the new owner of the number, *)
(* whose SQEs are younger.                                                  *)
CancelFindsNothing ==
  \A r \in Req : req[r] # NULL => req[r].stage # "cancelled"

(* "A connection holds everything required to ensure requests submitted to  *)
(* the io_uring are not dangling": the subscriber of a destroyed Connection  *)
(* is not used again.                                                        *)
NoDangling == dangling \notin Sub

(* listen() returns "an error if setting up the multi-shot accept request    *)
(* failed. Success otherwise": not because errno was set before.             *)
ErrorMeansFailure == ~blamed
=============================================================================
