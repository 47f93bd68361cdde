---------------------------- MODULE NetworkProofs ----------------------------
(***************************************************************************)
(* Proofs about Network, for any number of descriptors, connections,       *)
(* subscribers, requests and waiting completions.                          *)
(***************************************************************************)
EXTENDS Network, TLAPS

-----------------------------------------------------------------------------
(* The inductive invariant.                                                *)

\* A request whose subscriber exists.
Live(r) == req[r] # NULL /\ ~req[r].orphan

\* What is dead holds nothing; an object that can be used has a socket; no two
\* objects share a subscriber.
Objects ==
  /\ \A o \in Owner \ alive : socket[o] = NULL /\ subscriber[o] = NULL
  /\ \A c \in Conn : subscriber[c] \in Sub \cup {NULL}
  /\ \A c \in Conn : subscriber[c] # NULL => socket[c] # NULL
  /\ \A o \in {"acceptor", "connector"} : subscriber[o] = IF o \in alive THEN o ELSE NULL
  /\ \A o, p \in Owner : subscriber[o] = subscriber[p] /\ subscriber[o] # NULL => o = p

\* DescriptorOwned, without the sets of holders: only number 0 is open and held
\* by no one.
Held(n)    == \E o \in alive : socket[o] = n
Carried(n) == \E i \in 1..Len(completions) : completions[i].fd = n

Owned ==
  /\ \A n \in Fd : /\ Held(n) \/ Carried(n) => n \in open
                   /\ n \in open /\ n # 0 => Held(n) \/ Carried(n)
  /\ \A o, p \in alive : socket[o] = socket[p] /\ socket[o] # NULL => o = p
  /\ \A i, j \in 1..Len(completions) :
       completions[i].fd = completions[j].fd /\ completions[i].fd # NULL => i = j
  /\ \A o \in alive, i \in 1..Len(completions) :
       socket[o] # NULL => socket[o] # completions[i].fd

\* The subscriber of a request tells its type.
Subscribed ==
  \A r \in Req : req[r] # NULL =>
    /\ req[r].op = "ACCEPT" <=> req[r].sub = "acceptor"
    /\ req[r].op = "CONNECT" <=> req[r].sub = "connector"

\* RightFile, for finished requests too.
Served ==
  \A r \in Req : Live(r) =>
    \E o \in alive :
      /\ subscriber[o] = req[r].sub /\ req[r].fd = socket[o]
      /\ req[r].stage \notin {"detached", "failed"}

\* The kernel knows no socket by the number of a prepared cancellation.
Uncancelled ==
  \A r \in Req : req[r] # NULL =>
    /\ req[r].stage # "cancelled"
    /\ req[r].stage = "armed" => req[r].fd \notin cancels

\* One connection request at a time, and none in onConnection.
OneConnect ==
  \A r, s \in Req :
    Live(r) /\ Live(s) /\ req[r].op = "CONNECT" /\ req[s].op = "CONNECT" => r = s

Connecting ==
  running = "onConnection" =>
    connection = "PENDING" /\ \A r \in Req : Live(r) => req[r].op # "CONNECT"

\* A request outlives its completions; a descriptor comes with an accept only.
Results ==
  /\ \A i \in 1..Len(completions) : LET c == completions[i] IN
       /\ c.fd # NULL <=> c.ok /\ req[c.req].op = "ACCEPT"
       /\ c.more => req[c.req].op # "CONNECT"
       /\ ~c.more => req[c.req].stage = "done"
  /\ \A i, j \in 1..Len(completions) :
       i < j /\ completions[i].req = completions[j].req => completions[i].more

NetInv ==
  /\ NetTypeOK /\ Owned /\ StatusKnows
  /\ Objects /\ Subscribed /\ Served /\ Uncancelled
  /\ OneConnect /\ Connecting /\ Results

LEMMA NetInitial == NetInit => NetInv
<1> SUFFICES ASSUME NetInit PROVE NetInv
  OBVIOUS
<1> USE NetAssumption DEF NetInit
<1>1. /\ \A r \in Req : req[r] = NULL
      /\ Len(completions) = 0 /\ 1..Len(completions) = {}
      /\ \A o \in Owner : socket[o] = NULL
  OBVIOUS
<1>2. NetTypeOK
  <2>1. /\ socket \in [Owner -> Fd \cup {NULL}]
        /\ req \in [Req -> Request \cup {NULL}]
    OBVIOUS
  <2>2. subscriber \in [Owner -> Subscriber \cup {NULL}] /\ alive \subseteq Owner
    BY DEF Owner, Subscriber
  <2>3. /\ open \subseteq Fd /\ cancels \subseteq Fd
        /\ listening \in BOOLEAN /\ errno \in BOOLEAN /\ blamed \in BOOLEAN
    OBVIOUS
  <2>4. /\ connection \in {"DISCONNECTED", "PENDING", "CONNECTED"}
        /\ running \in {"loop", "user", "onConnection"}
        /\ calling \in Subscriber \cup {NULL}
        /\ dangling \in Subscriber \cup {NULL, "address"}
        /\ completions \in Seq(Completion)
    OBVIOUS
  <2> QED
    BY <1>1, <2>1, <2>2, <2>3, <2>4 DEF NetTypeOK
<1>3. Owned
  BY <1>1 DEF Owned, Held, Carried, Owner
<1>4. Objects
  BY <1>1 DEF Objects, Owner
<1>5. StatusKnows /\ Subscribed /\ Served /\ Uncancelled /\ OneConnect /\ Connecting /\ Results
  BY <1>1 DEF StatusKnows, Subscribed, Served, Uncancelled, OneConnect, Connecting, Results, Live
<1> QED
  BY <1>2, <1>3, <1>4, <1>5 DEF NetInv

-----------------------------------------------------------------------------
(* What becomes of a request.                                              *)

\* Of the descriptors only number 0 is not valid.
LEMMA ValidIs ==
  /\ ~Valid(NULL)
  /\ \A n \in Fd : Valid(n) <=> n # 0
  BY NetAssumption DEF Valid

\* What is open when number m has been closed.
LEMMA CloseIs ==
  ASSUME NEW m \in Fd \cup {NULL}
  PROVE  \A n \in Fd : n \in Close(m) <=> n \in open /\ (n = m => n = 0)
<1>1. CASE m = NULL
  BY <1>1, ValidIs, NetAssumption DEF Close
<1>2. CASE m \in Fd
  BY <1>2, ValidIs DEF Close
<1> QED
  BY <1>1, <1>2

\* y is request x, later.
Aged(x, y) ==
  /\ y \in Request
  /\ y.op = x.op /\ y.fd = x.fd /\ y.sub = x.sub
  /\ x.orphan => y.orphan
  /\ x.stage = "done" => y.stage = "done"

LEMMA ClosedIs ==
  ASSUME NEW q \in [Req -> Request \cup {NULL}], NEW n
  PROVE  /\ Closed(q, n) \in [Req -> Request \cup {NULL}]
         /\ \A r \in Req :
              /\ q[r] = NULL => Closed(q, n)[r] = NULL
              /\ q[r] # NULL =>
                   /\ Aged(q[r], Closed(q, n)[r])
                   /\ Closed(q, n)[r].orphan = q[r].orphan
                   /\ Closed(q, n)[r].stage = IF q[r].stage = "armed" /\ q[r].fd = n /\ Valid(n)
                                                THEN "detached" ELSE q[r].stage
<1>1. \A r \in Req : Closed(q, n)[r] =
        IF q[r] # NULL /\ q[r].stage = "armed" /\ q[r].fd = n /\ Valid(n)
          THEN [q[r] EXCEPT !.stage = "detached"] ELSE q[r]
  BY DEF Closed, Update
<1>2. \A r \in Req : q[r] # NULL => q[r] \in Request /\ [q[r] EXCEPT !.stage = "detached"] \in Request
  BY DEF Request
<1>3. Closed(q, n) \in [Req -> Request \cup {NULL}]
  BY <1>2 DEF Closed, Update
<1> QED
  BY <1>1, <1>2, <1>3 DEF Aged, Request

LEMMA OrphanedIs ==
  ASSUME NEW q \in [Req -> Request \cup {NULL}], NEW u
  PROVE  /\ Orphaned(q, u) \in [Req -> Request \cup {NULL}]
         /\ \A r \in Req :
              /\ q[r] = NULL => Orphaned(q, u)[r] = NULL
              /\ q[r] # NULL =>
                   /\ Aged(q[r], Orphaned(q, u)[r])
                   /\ Orphaned(q, u)[r].orphan = (q[r].orphan \/ q[r].sub = u)
                   /\ Orphaned(q, u)[r].stage = q[r].stage
<1>1. \A r \in Req : Orphaned(q, u)[r] =
        IF q[r] # NULL /\ q[r].sub = u THEN [q[r] EXCEPT !.orphan = TRUE] ELSE q[r]
  BY DEF Orphaned, Update
<1>2. \A r \in Req : q[r] # NULL => q[r] \in Request /\ [q[r] EXCEPT !.orphan = TRUE] \in Request
  BY DEF Request
<1>3. Orphaned(q, u) \in [Req -> Request \cup {NULL}]
  BY <1>2 DEF Orphaned, Update
<1>4. ASSUME NEW r \in Req, q[r] # NULL
      PROVE  /\ Aged(q[r], Orphaned(q, u)[r])
             /\ Orphaned(q, u)[r].orphan = (q[r].orphan \/ q[r].sub = u)
             /\ Orphaned(q, u)[r].stage = q[r].stage
  <2>1. q[r] \in Request /\ q[r].orphan \in BOOLEAN
    BY <1>2, <1>4 DEF Request
  <2>2. CASE q[r].sub = u
    BY <1>1, <1>2, <1>4, <2>1, <2>2 DEF Aged, Request
  <2>3. CASE q[r].sub # u
    BY <1>1, <1>4, <2>1, <2>3 DEF Aged
  <2> QED
    BY <2>2, <2>3
<1> QED
  BY <1>1, <1>3, <1>4

LEMMA ArmedIs ==
  ASSUME NEW q \in [Req -> Request \cup {NULL}]
  PROVE  /\ Armed(q) \in [Req -> Request \cup {NULL}]
         /\ \A r \in Req :
              /\ q[r] = NULL => Armed(q)[r] = NULL
              /\ q[r] # NULL =>
                   /\ Aged(q[r], Armed(q)[r])
                   /\ Armed(q)[r].orphan = q[r].orphan
                   /\ Armed(q)[r].stage = IF q[r].stage # "pending" THEN q[r].stage
                                           ELSE IF q[r].fd \in open THEN "armed" ELSE "failed"
<1> DEFINE Stage(x) == IF x.fd \in open THEN "armed" ELSE "failed"
<1>1. \A r \in Req : Armed(q)[r] =
        IF q[r] # NULL /\ q[r].stage = "pending"
          THEN [q[r] EXCEPT !.stage = Stage(q[r])] ELSE q[r]
  BY DEF Armed, Update
<1>2. \A r \in Req : q[r] # NULL =>
        q[r] \in Request /\ [q[r] EXCEPT !.stage = Stage(q[r])] \in Request
  BY DEF Request
<1>3. Armed(q) \in [Req -> Request \cup {NULL}]
  BY <1>2 DEF Armed, Update
<1> QED
  BY <1>1, <1>2, <1>3 DEF Aged, Request

\* A cancellation finds no request.
LEMMA CancelledIs ==
  ASSUME NetInv
  PROVE  Cancelled(req) = req
<1>1. req \in [Req -> Request \cup {NULL}]
  BY DEF NetInv, NetTypeOK
<1> QED
  BY <1>1 DEF NetInv, Uncancelled, Cancelled, Update

-----------------------------------------------------------------------------
(* The parts of the invariant that look at requests and completions only.  *)

Listed == \A i \in 1..Len(completions) : req[completions[i].req] # NULL

ReqInv == StatusKnows /\ Subscribed /\ OneConnect /\ Connecting /\ Results /\ Listed

LEMMA Facts ==
  ASSUME NetInv
  PROVE  /\ req \in [Req -> Request \cup {NULL}]
         /\ \A r \in Req : req[r] # NULL =>
              /\ req[r] \in Request /\ req[r].op \in Op /\ req[r].fd \in Fd
              /\ req[r].sub \in Subscriber /\ req[r].sub # NULL /\ req[r].orphan \in BOOLEAN
         /\ completions \in Seq(Completion) /\ Len(completions) \in Nat
         /\ \A i \in 1..Len(completions) :
              completions[i].req \in Req /\ completions[i].fd \in Fd \cup {NULL}
         /\ \A o \in alive : o \in Owner
         /\ \A o \in Owner : socket[o] \in Fd \cup {NULL} /\ subscriber[o] \in Subscriber \cup {NULL}
<1>1. /\ req \in [Req -> Request \cup {NULL}] /\ completions \in Seq(Completion)
      /\ alive \subseteq Owner /\ socket \in [Owner -> Fd \cup {NULL}]
      /\ subscriber \in [Owner -> Subscriber \cup {NULL}]
  BY DEF NetInv, NetTypeOK
<1>2. \A x \in Request : x.op \in Op /\ x.fd \in Fd /\ x.sub \in Subscriber /\ x.orphan \in BOOLEAN
  BY DEF Request
<1>3. NULL \notin Subscriber
  BY NetAssumption DEF Subscriber
<1>4. \A c \in Completion : c.req \in Req /\ c.fd \in Fd \cup {NULL}
  BY DEF Completion
<1>5. \A i \in 1..Len(completions) : completions[i] \in Completion
  BY <1>1
<1> QED
  BY <1>1, <1>2, <1>3, <1>4, <1>5

\* The requests stay, none is added.
LEMMA AgingInv ==
  ASSUME NetInv, UNCHANGED <<completions, listening, connection, running>>,
         \A r \in Req : req[r] = NULL => req'[r] = NULL,
         \A r \in Req : req[r] # NULL => Aged(req[r], req'[r])
  PROVE  ReqInv'
<1>1. /\ \A r \in Req : Live(r)' => Live(r)
      /\ \A r \in Req : req[r] # NULL <=> req'[r] # NULL
  BY NoRequest DEF Live, Aged
<1>2. StatusKnows' /\ Connecting'
  BY <1>1 DEF NetInv, StatusKnows, Connecting, Live, Aged
<1>3. OneConnect'
  BY <1>1 DEF NetInv, OneConnect, Live, Aged
<1>4. Subscribed'
  BY <1>1 DEF NetInv, Subscribed, Aged
<1>5. Results' /\ Listed'
  BY <1>1, Facts DEF NetInv, NetTypeOK, Results, Listed, Aged
<1> QED
  BY <1>2, <1>3, <1>4, <1>5 DEF ReqInv

\* The requests stay, x is added.
LEMMA AddingInv ==
  ASSUME NetInv, NEW a \in Req, NEW x \in Request,
         UNCHANGED <<completions, running>>,
         req[a] = NULL, req'[a] = x,
         \A r \in Req : r # a /\ req[r] = NULL => req'[r] = NULL,
         \A r \in Req : req[r] # NULL => Aged(req[r], req'[r]),
         x.op = "ACCEPT" <=> x.sub = "acceptor",
         x.op = "CONNECT" <=> x.sub = "connector",
         x.op = "ACCEPT" => listening',
         x.op = "CONNECT" => connection # "PENDING" /\ connection' = "PENDING",
         x.op # "CONNECT" => connection' = connection,
         listening => listening'
  PROVE  ReqInv'
<1>1. /\ \A r \in Req : Live(r)' /\ r # a => Live(r)
      /\ \A r \in Req : req[r] # NULL => req'[r] # NULL
      /\ \A r \in Req : r # a /\ req'[r] # NULL => req[r] # NULL
  BY NoRequest DEF Live, Aged
<1>2. x.op = "CONNECT" => \A r \in Req : Live(r) => req[r].op # "CONNECT"
  BY DEF NetInv, StatusKnows, Live
<1>3. StatusKnows' /\ Connecting'
  BY <1>1, <1>2 DEF NetInv, StatusKnows, Connecting, Live, Aged
<1>4. OneConnect'
  BY <1>1, <1>2 DEF NetInv, OneConnect, Live, Aged
<1>5. Subscribed'
  BY <1>1 DEF NetInv, Subscribed, Aged
<1>6. Results' /\ Listed'
  BY <1>1, Facts DEF NetInv, NetTypeOK, Results, Listed, Aged
<1> QED
  BY <1>3, <1>4, <1>5, <1>6 DEF ReqInv

-----------------------------------------------------------------------------
(* The steps of the application.                                           *)

LEMMA AsyncInv ==
  ASSUME NetInv, NEW c \in Conn, AsyncRead(c) \/ AsyncWrite(c)
  PROVE  NetInv'
<1>1. PICK op \in {"READ_MULTISHOT", "WRITE"} : Usable(c) /\ Add(req, op, socket[c], c)
  BY DEF AsyncRead, AsyncWrite
<1> DEFINE x == [op |-> op, fd |-> socket[c], sub |-> subscriber[c],
                 orphan |-> FALSE, stage |-> "pending"]
<1>2. PICK a \in Req : req[a] = NULL /\ req' = [req EXCEPT ![a] = x]
  BY <1>1 DEF Add
<1>3. /\ UNCHANGED <<open, alive, socket, subscriber, listening, connection, cancels, completions,
                     running, calling, errno, dangling, blamed>>
  BY DEF AsyncRead, AsyncWrite, objVars, statusVars, histVars
<1>4. /\ c \in alive /\ c \in Owner /\ subscriber[c] \in Sub /\ socket[c] \in Fd
  BY <1>1, Facts DEF Usable, NetInv, Objects, Owner
<1>5. /\ x \in Request /\ x.op = op /\ x.fd = socket[c] /\ x.sub = subscriber[c]
      /\ x.orphan = FALSE /\ x.stage = "pending"
      /\ x.sub \notin {"acceptor", "connector"}
  BY <1>4, NetAssumption DEF Request, Op, Subscriber
<1> HIDE DEF x
<1>6. /\ req'[a] = x /\ \A r \in Req : r # a => req'[r] = req[r]
      /\ req' \in [Req -> Request \cup {NULL}]
  BY <1>2, <1>5, Facts
<1>7. ReqInv'
  <2>1. \A r \in Req : req[r] # NULL => Aged(req[r], req'[r])
    BY <1>2, <1>6, Facts DEF Aged
  <2> QED
    BY <1>2, <1>3, <1>5, <1>6, <2>1, AddingInv
<1>8. NetTypeOK'
  BY <1>3, <1>6, <1>7 DEF NetInv, NetTypeOK, ReqInv, Listed
<1>9. Owned' /\ Objects'
  BY <1>3 DEF NetInv, Owned, Held, Carried, Objects
<1>10. Served' /\ Uncancelled'
  BY <1>3, <1>4, <1>5, <1>6 DEF NetInv, Served, Uncancelled, Live
<1> QED
  BY <1>7, <1>8, <1>9, <1>10 DEF NetInv, ReqInv

LEMMA MoveInv ==
  ASSUME NetInv, NEW c \in Conn, NEW d \in Conn, MoveTo(c, d)
  PROVE  NetInv'
<1>1. /\ UNCHANGED <<open, alive, listening, connection, cancels, completions,
                     running, calling, errno, blamed>>
      /\ c \in alive /\ d \in alive /\ c # d /\ subscriber[c] # NULL
      /\ req' = Orphaned(req, subscriber[d])
  BY DEF MoveTo, Usable, statusVars
<1>2. /\ c \in Owner /\ d \in Owner /\ c \notin {"acceptor", "connector"}
      /\ d \notin {"acceptor", "connector"}
      /\ socket[c] \in Fd \cup {NULL} /\ socket[d] \in Fd \cup {NULL} /\ socket[c] # NULL
      /\ subscriber[c] \in Subscriber \cup {NULL} /\ subscriber[d] \in Subscriber \cup {NULL}
  BY <1>1, NetAssumption, Facts DEF Owner, NetInv, Objects
<1>3. /\ socket' \in [Owner -> Fd \cup {NULL}]
      /\ socket'[d] = socket[c] /\ socket'[c] = socket[d]
      /\ \A o \in Owner : o # c /\ o # d => socket'[o] = socket[o]
  <2>1. socket \in [Owner -> Fd \cup {NULL}]
    BY DEF NetInv, NetTypeOK
  <2> QED
    BY <1>1, <1>2, <2>1 DEF MoveTo
<1>4. /\ subscriber' \in [Owner -> Subscriber \cup {NULL}]
      /\ subscriber'[d] = subscriber[c] /\ subscriber'[c] = NULL
      /\ \A o \in Owner : o # c /\ o # d => subscriber'[o] = subscriber[o]
  <2>1. subscriber \in [Owner -> Subscriber \cup {NULL}]
    BY DEF NetInv, NetTypeOK
  <2> QED
    BY <1>1, <1>2, <2>1 DEF MoveTo
<1>5. /\ req' \in [Req -> Request \cup {NULL}]
      /\ \A r \in Req :
           /\ req[r] = NULL => req'[r] = NULL
           /\ req[r] # NULL =>
                /\ Aged(req[r], req'[r])
                /\ req'[r].orphan = (req[r].orphan \/ req[r].sub = subscriber[d])
                /\ req'[r].stage = req[r].stage
  BY <1>1, Facts, OrphanedIs
<1>6. ReqInv'
  BY <1>1, <1>5, AgingInv
<1>7. NetTypeOK'
  <2>1. dangling' \in Subscriber \cup {NULL, "address"}
    BY <1>2 DEF MoveTo, Frees, NetInv, NetTypeOK
  <2> QED
    BY <1>1, <1>3, <1>4, <1>5, <1>6, <2>1 DEF NetInv, NetTypeOK, ReqInv, Listed
<1>8. Owned'
  <2>1. \A n \in Fd : (Held(n)' <=> Held(n)) /\ (Carried(n)' <=> Carried(n))
    BY <1>1, <1>3, Facts DEF Held, Carried
  <2>2. \A o, p \in alive : socket'[o] = socket'[p] /\ socket'[o] # NULL => o = p
    BY <1>1, <1>3, Facts DEF NetInv, Owned
  <2>3. \A o \in alive, i \in 1..Len(completions) :
          socket'[o] # NULL => socket'[o] # completions[i].fd
    BY <1>1, <1>3, Facts DEF NetInv, Owned
  <2> QED
    BY <1>1, <2>1, <2>2, <2>3 DEF NetInv, Owned
<1>9. Objects'
  <2>1. \A o \in Owner \ alive : socket'[o] = NULL /\ subscriber'[o] = NULL
    BY <1>1, <1>3, <1>4 DEF NetInv, Objects
  <2>2. \A b \in Conn : subscriber'[b] \in Sub \cup {NULL}
    BY <1>2, <1>3, <1>4 DEF NetInv, Objects, Owner
  <2>3. \A b \in Conn : subscriber'[b] # NULL => socket'[b] # NULL
    BY <1>2, <1>3, <1>4 DEF NetInv, Objects, Owner
  <2>4. \A o \in {"acceptor", "connector"} : subscriber'[o] = IF o \in alive' THEN o ELSE NULL
    BY <1>1, <1>2, <1>4 DEF NetInv, Objects, Owner
  <2>5. \A o, p \in Owner : subscriber'[o] = subscriber'[p] /\ subscriber'[o] # NULL => o = p
    BY <1>2, <1>4 DEF NetInv, Objects
  <2> QED
    BY <1>1, <2>1, <2>2, <2>3, <2>4, <2>5 DEF Objects
<1>10. Served'
  <2>1. ASSUME NEW r \in Req, req'[r] # NULL, ~req'[r].orphan
        PROVE  \E o \in alive : /\ subscriber'[o] = req'[r].sub /\ req'[r].fd = socket'[o]
                                /\ req'[r].stage \notin {"detached", "failed"}
    <3>1. Live(r) /\ req[r].sub # subscriber[d]
      BY <1>5, <2>1 DEF Live
    <3>2. PICK o \in alive : /\ subscriber[o] = req[r].sub /\ req[r].fd = socket[o]
                             /\ req[r].stage \notin {"detached", "failed"}
      BY <3>1 DEF NetInv, Served
    <3>3. /\ req'[r].sub = req[r].sub /\ req'[r].fd = req[r].fd /\ req'[r].stage = req[r].stage
      BY <1>5, <3>1 DEF Aged, Live
    <3>4. CASE o = c
      BY <1>1, <1>3, <1>4, <3>2, <3>3, <3>4
    <3>5. CASE o # c
      BY <1>3, <1>4, <3>1, <3>2, <3>3, <3>5, Facts
    <3> QED
      BY <3>4, <3>5
  <2> QED
    BY <1>1, <2>1 DEF Served, Live
<1>11. Uncancelled'
  BY <1>1, <1>5 DEF NetInv, Uncancelled, Aged
<1> QED
  BY <1>6, <1>7, <1>8, <1>9, <1>10, <1>11 DEF NetInv, ReqInv

LEMMA DestroyInv ==
  ASSUME NetInv, NEW o \in Owner, Destroy(o)
  PROVE  NetInv'
<1>1. /\ UNCHANGED <<listening, connection, completions, running, calling, errno, blamed>>
      /\ o \in alive /\ alive' = alive \ {o}
      /\ socket' = [socket EXCEPT ![o] = NULL]
      /\ subscriber' = [subscriber EXCEPT ![o] = NULL]
  BY DEF Destroy, UserCode, statusVars
<1>2. /\ open' = Close(socket[o])
      /\ cancels' \subseteq Fd
      /\ \A m \in cancels' : m \in cancels \/ (m = socket[o] /\ Valid(m))
  <2>1. cancels \subseteq Fd
    BY DEF NetInv, NetTypeOK
  <2>2. CASE ~Valid(socket[o])
    BY <2>1, <2>2 DEF Destroy
  <2>3. CASE Valid(socket[o])
    BY <2>1, <2>3, Facts, ValidIs DEF Destroy
  <2> QED
    BY <2>2, <2>3
<1>3. /\ req' \in [Req -> Request \cup {NULL}]
      /\ \A r \in Req :
           /\ req[r] = NULL => req'[r] = NULL
           /\ req[r] # NULL =>
                /\ Aged(req[r], req'[r])
                /\ req'[r].orphan = (req[r].orphan \/ req[r].sub = subscriber[o])
                /\ req'[r].stage = IF /\ req[r].stage = "armed" /\ req[r].fd = socket[o]
                                      /\ Valid(socket[o])
                                     THEN "detached" ELSE req[r].stage
  <2> DEFINE q == Orphaned(req, subscriber[o])
  <2>1. /\ q \in [Req -> Request \cup {NULL}]
        /\ \A r \in Req :
              /\ req[r] = NULL => q[r] = NULL
              /\ req[r] # NULL =>
                   /\ Aged(req[r], q[r])
                   /\ q[r].orphan = (req[r].orphan \/ req[r].sub = subscriber[o])
                   /\ q[r].stage = req[r].stage
    BY Facts, OrphanedIs
  <2>2. (~Valid(socket[o]) /\ req' = q) \/ req' = Closed(q, socket[o])
    BY CancelledIs DEF Destroy
  <2> HIDE DEF q
  <2>3. CASE ~Valid(socket[o]) /\ req' = q
    BY <2>1, <2>3
  <2>4. CASE req' = Closed(q, socket[o])
    <3>1. /\ req' \in [Req -> Request \cup {NULL}]
          /\ \A r \in Req :
               /\ q[r] = NULL => req'[r] = NULL
               /\ q[r] # NULL =>
                   /\ Aged(q[r], req'[r])
                   /\ req'[r].orphan = q[r].orphan
                   /\ req'[r].stage = IF /\ q[r].stage = "armed" /\ q[r].fd = socket[o]
                                         /\ Valid(socket[o])
                                        THEN "detached" ELSE q[r].stage
      BY <2>1, <2>4, ClosedIs
    <3> QED
      BY <2>1, <3>1, NoRequest DEF Aged
  <2> QED
    BY <2>2, <2>3, <2>4
<1>4. ReqInv'
  BY <1>1, <1>3, AgingInv
<1>5. /\ socket' \in [Owner -> Fd \cup {NULL}] /\ socket'[o] = NULL
      /\ \A p \in Owner : p # o => socket'[p] = socket[p]
  BY <1>1 DEF NetInv, NetTypeOK
<1>6. /\ subscriber' \in [Owner -> Subscriber \cup {NULL}] /\ subscriber'[o] = NULL
      /\ \A p \in Owner : p # o => subscriber'[p] = subscriber[p]
  BY <1>1 DEF NetInv, NetTypeOK
<1>7. NetTypeOK'
  <2>1. dangling' \in Subscriber \cup {NULL, "address"}
    BY Facts DEF Destroy, Frees, NetInv, NetTypeOK
  <2>2. open' \subseteq Fd /\ alive' \subseteq Owner
    BY <1>1, <1>2 DEF NetInv, NetTypeOK, Close
  <2> QED
    BY <1>1, <1>2, <1>3, <1>4, <1>5, <1>6, <2>1, <2>2 DEF NetInv, NetTypeOK, ReqInv, Listed
<1>8. Owned'
  <2>1. ASSUME NEW n \in Fd
        PROVE  /\ Held(n)' \/ Carried(n)' => n \in open'
               /\ n \in open' /\ n # 0 => Held(n)' \/ Carried(n)'
    <3>1. Carried(n)' <=> Carried(n)
      BY <1>1 DEF Carried
    <3>2. Held(n)' <=> Held(n) /\ n # socket[o]
      BY <1>1, <1>5, Facts, NetAssumption DEF Held, NetInv, Owned
    <3>3. n = socket[o] => ~Carried(n)
      BY <1>1, NetAssumption DEF NetInv, Owned, Carried
    <3>4. n \in open' <=> n \in open /\ (n = socket[o] => n = 0)
      BY <1>2, CloseIs, Facts
    <3> QED
      BY <3>1, <3>2, <3>3, <3>4 DEF NetInv, Owned
  <2>2. \A p, q \in alive' : socket'[p] = socket'[q] /\ socket'[p] # NULL => p = q
    BY <1>1, <1>5, Facts DEF NetInv, Owned
  <2>3. \A p \in alive', i \in 1..Len(completions) :
          socket'[p] # NULL => socket'[p] # completions[i].fd
    BY <1>1, <1>5, Facts DEF NetInv, Owned
  <2> QED
    BY <1>1, <2>1, <2>2, <2>3 DEF NetInv, Owned
<1>9. Objects'
  <2>1. "acceptor" \in Owner /\ "connector" \in Owner /\ \A c \in Conn : c \in Owner
    BY DEF Owner
  <2> QED
    BY <1>1, <1>5, <1>6, <2>1 DEF NetInv, Objects
<1>10. Served'
  <2>1. ASSUME NEW r \in Req, req'[r] # NULL, ~req'[r].orphan
        PROVE  \E p \in alive' : /\ subscriber'[p] = req'[r].sub /\ req'[r].fd = socket'[p]
                                 /\ req'[r].stage \notin {"detached", "failed"}
    <3>1. Live(r) /\ req[r].sub # subscriber[o]
      BY <1>3, <2>1 DEF Live
    <3>2. PICK p \in alive : /\ subscriber[p] = req[r].sub /\ req[r].fd = socket[p]
                             /\ req[r].stage \notin {"detached", "failed"}
      BY <3>1 DEF NetInv, Served
    <3>3. p # o /\ p \in Owner /\ p \in alive' /\ req[r].fd # NULL
      BY <1>1, <3>1, <3>2, Facts, NetAssumption DEF Live
    <3>4. req[r].fd # socket[o]
      BY <1>1, <3>2, <3>3 DEF NetInv, Owned
    <3>5. /\ req'[r].sub = req[r].sub /\ req'[r].fd = req[r].fd /\ req'[r].stage = req[r].stage
      BY <1>3, <3>1, <3>4 DEF Aged, Live
    <3> QED
      BY <1>5, <1>6, <3>2, <3>3, <3>5
  <2> QED
    BY <2>1 DEF Served, Live
<1>11. Uncancelled'
  <2>1. ASSUME NEW r \in Req, req'[r] # NULL
        PROVE  /\ req'[r].stage # "cancelled"
               /\ req'[r].stage = "armed" => req'[r].fd \notin cancels'
    <3>1. req[r] # NULL /\ req'[r].fd = req[r].fd
      BY <1>3, <2>1 DEF Aged
    <3> QED
      BY <1>2, <1>3, <3>1 DEF NetInv, Uncancelled
  <2> QED
    BY <2>1 DEF Uncancelled
<1> QED
  BY <1>4, <1>7, <1>8, <1>9, <1>10, <1>11 DEF NetInv, ReqInv

\* What Setup comes to.  There is no request of o's subscriber: the status knows.
Renews(o, op, n) ==
  /\ n \in (Fd \ open) \cup {NULL} /\ Assign(o, n)
  /\ UNCHANGED <<alive, subscriber, cancels, completions, running, calling, dangling>>
  /\ errno' \in BOOLEAN /\ blamed' \in BOOLEAN
  /\ \/ /\ n # NULL /\ Add(Closed(req, socket[o]), op, n, o)
        /\ listening' = (listening \/ op = "ACCEPT")
        /\ connection' = IF op = "CONNECT" THEN "PENDING" ELSE connection
     \/ /\ req' = Closed(req, socket[o])
        /\ UNCHANGED <<listening, connection>>

LEMMA RenewsInv ==
  ASSUME NetInv, NEW o, NEW op, NEW n, Renews(o, op, n), o \in alive,
         \/ o = "acceptor" /\ op = "ACCEPT" /\ ~listening
         \/ o = "connector" /\ op = "CONNECT" /\ connection # "PENDING"
  PROVE  NetInv'
<1>1. /\ UNCHANGED <<alive, subscriber, cancels, completions, running, calling, dangling>>
      /\ n \in (Fd \ open) \cup {NULL}
      /\ open' = Close(socket[o]) \cup ({n} \ {NULL})
      /\ socket' = [socket EXCEPT ![o] = n]
      /\ errno' \in BOOLEAN /\ blamed' \in BOOLEAN
  BY DEF Renews, Assign
<1>2. o \in Owner /\ subscriber[o] = o /\ o \in Subscriber /\ o \notin Conn
  BY NetAssumption DEF NetInv, Objects, Owner, Subscriber
<1>3. \A r \in Req : Live(r) => req[r].sub # o
  BY DEF NetInv, StatusKnows, Subscribed, Live
<1>4. /\ socket' \in [Owner -> Fd \cup {NULL}] /\ socket'[o] = n
      /\ \A p \in Owner : p # o => socket'[p] = socket[p]
  BY <1>1, <1>2 DEF NetInv, NetTypeOK
<1> DEFINE q == Closed(req, socket[o])
<1>5. /\ q \in [Req -> Request \cup {NULL}]
      /\ \A r \in Req :
           /\ req[r] = NULL => q[r] = NULL
           /\ req[r] # NULL =>
                /\ Aged(req[r], q[r])
                /\ q[r].orphan = req[r].orphan
                /\ q[r].stage = IF /\ req[r].stage = "armed" /\ req[r].fd = socket[o]
                                   /\ Valid(socket[o])
                                  THEN "detached" ELSE req[r].stage
  BY Facts, ClosedIs
<1>6. \/ req' = q /\ UNCHANGED <<listening, connection>>
      \/ /\ n # NULL /\ Add(q, op, n, o)
         /\ listening' = (listening \/ op = "ACCEPT")
         /\ connection' = IF op = "CONNECT" THEN "PENDING" ELSE connection
  BY DEF Renews
<1> HIDE DEF q
\* Another object's requests are left alone.
<1>7. \A r \in Req : Live(r) =>
        \E p \in alive : /\ p # o /\ subscriber[p] = q[r].sub /\ q[r].fd = socket'[p]
                         /\ q[r].stage \notin {"detached", "failed"}
  <2> SUFFICES ASSUME NEW r \in Req, Live(r)
               PROVE  \E p \in alive : /\ p # o /\ subscriber[p] = q[r].sub /\ q[r].fd = socket'[p]
                                       /\ q[r].stage \notin {"detached", "failed"}
    OBVIOUS
  <2>1. PICK p \in alive : /\ subscriber[p] = req[r].sub /\ req[r].fd = socket[p]
                           /\ req[r].stage \notin {"detached", "failed"}
    BY DEF NetInv, Served
  <2>2. p # o /\ p \in Owner /\ req[r].fd # NULL
    BY <1>2, <1>3, <2>1, Facts, NetAssumption DEF Live
  <2>3. req[r].fd # socket[o]
    BY <2>1, <2>2 DEF NetInv, Owned
  <2>4. q[r].stage = req[r].stage /\ q[r].fd = req[r].fd /\ q[r].sub = req[r].sub
    BY <1>5, <2>3 DEF Aged, Live
  <2> QED
    BY <1>4, <2>1, <2>2, <2>4
<1>8. \A r \in Req : q[r] # NULL =>
        /\ q[r].stage # "cancelled"
        /\ q[r].stage = "armed" => q[r].fd \notin cancels
  BY <1>5, NoRequest DEF NetInv, Uncancelled, Aged
<1>9. Owned'
  <2>1. ASSUME NEW m \in Fd
        PROVE  /\ Held(m)' \/ Carried(m)' => m \in open'
               /\ m \in open' /\ m # 0 => Held(m)' \/ Carried(m)'
    <3>1. Carried(m)' <=> Carried(m)
      BY <1>1 DEF Carried
    <3>2. Held(m)' <=> m = n \/ (Held(m) /\ m # socket[o])
      <4>1. ASSUME Held(m)' PROVE m = n \/ (Held(m) /\ m # socket[o])
        BY <1>1, <1>4, <4>1, Facts, NetAssumption DEF Held, NetInv, Owned
      <4>2. ASSUME m = n PROVE Held(m)'
        BY <1>1, <1>4, <4>2 DEF Held
      <4>3. ASSUME Held(m), m # socket[o] PROVE Held(m)'
        BY <1>1, <1>4, <4>3, Facts DEF Held
      <4> QED
        BY <4>1, <4>2, <4>3
    <3>3. m = socket[o] => ~Carried(m)
      BY <1>1, NetAssumption DEF NetInv, Owned, Carried
    <3>4. m \in open' <=> m = n \/ (m \in open /\ (m = socket[o] => m = 0))
      BY <1>1, <1>2, CloseIs, Facts, NetAssumption
    <3> QED
      BY <3>1, <3>2, <3>3, <3>4 DEF NetInv, Owned
  <2>2. n # NULL => ~Held(n) /\ ~Carried(n)
    BY <1>1 DEF NetInv, Owned
  <2>3. \A p, s \in alive : socket'[p] = socket'[s] /\ socket'[p] # NULL => p = s
    BY <1>4, <2>2, Facts DEF NetInv, Owned, Held
  <2>4. \A p \in alive, i \in 1..Len(completions) :
          socket'[p] # NULL => socket'[p] # completions[i].fd
    BY <1>4, <2>2, Facts DEF NetInv, Owned, Carried
  <2> QED
    BY <1>1, <2>1, <2>3, <2>4 DEF NetInv, Owned
<1>10. Objects'
  <2>1. /\ \A p \in Owner \ alive : socket'[p] = NULL /\ subscriber'[p] = NULL
        /\ \A c \in Conn : socket'[c] = socket[c]
    BY <1>1, <1>2, <1>4 DEF NetInv, Objects, Owner
  <2> QED
    BY <1>1, <2>1 DEF NetInv, Objects
<1>11. open' \subseteq Fd
  BY <1>1 DEF NetInv, NetTypeOK, Close
<1>12. CASE req' = q /\ UNCHANGED <<listening, connection>>
  <2>1. ReqInv'
    BY <1>1, <1>5, <1>12, AgingInv
  <2>2. NetTypeOK'
    BY <1>1, <1>4, <1>5, <1>11, <1>12, <2>1 DEF NetInv, NetTypeOK, ReqInv, Listed
  <2>3. Served'
    <3>1. \A r \in Req : Live(r)' => Live(r)
      BY <1>5, <1>12 DEF Live
    <3> QED
      BY <1>1, <1>7, <1>12, <3>1 DEF Served
  <2>4. Uncancelled'
    BY <1>1, <1>8, <1>12 DEF Uncancelled
  <2> QED
    BY <1>9, <1>10, <2>1, <2>2, <2>3, <2>4 DEF NetInv, ReqInv
<1>13. CASE /\ n # NULL /\ Add(q, op, n, o)
            /\ listening' = (listening \/ op = "ACCEPT")
            /\ connection' = IF op = "CONNECT" THEN "PENDING" ELSE connection
  <2> DEFINE x == [op |-> op, fd |-> n, sub |-> subscriber[o],
                   orphan |-> FALSE, stage |-> "pending"]
  <2>1. PICK a \in Req : q[a] = NULL /\ req' = [q EXCEPT ![a] = x]
    BY <1>13 DEF Add
  <2>2. /\ x \in Request /\ x.op = op /\ x.fd = n /\ x.sub = o
        /\ x.orphan = FALSE /\ x.stage = "pending"
    BY <1>1, <1>2, <1>13 DEF Request, Op
  <2> HIDE DEF x
  <2>3. /\ req[a] = NULL /\ req'[a] = x /\ \A r \in Req : r # a => req'[r] = q[r]
        /\ req' \in [Req -> Request \cup {NULL}]
    BY <1>5, <2>1, <2>2, NoRequest DEF Aged
  <2>4. ReqInv'
    <3>1. \A r \in Req : req[r] # NULL => Aged(req[r], req'[r])
      BY <1>5, <2>3
    <3>2. \A r \in Req : r # a /\ req[r] = NULL => req'[r] = NULL
      BY <1>5, <2>3
    <3>3. /\ x.op = "ACCEPT" => listening'
          /\ x.op = "CONNECT" => connection # "PENDING" /\ connection' = "PENDING"
          /\ x.op # "CONNECT" => connection' = connection
          /\ listening => listening'
      BY <1>13, <2>2
    <3> QED
      BY <1>1, <2>2, <2>3, <3>1, <3>2, <3>3, AddingInv
  <2>5. NetTypeOK'
    BY <1>1, <1>4, <1>11, <1>13, <2>3, <2>4 DEF NetInv, NetTypeOK, ReqInv, Listed
  <2>6. Served'
    <3>1. \A r \in Req : r # a /\ Live(r)' => Live(r)
      BY <1>5, <2>3 DEF Live
    <3>2. ASSUME NEW r \in Req, Live(r)'
          PROVE  \E p \in alive : /\ subscriber[p] = req'[r].sub /\ req'[r].fd = socket'[p]
                                  /\ req'[r].stage \notin {"detached", "failed"}
      <4>1. CASE r = a
        BY <1>2, <1>4, <2>2, <2>3, <4>1
      <4>2. CASE r # a
        BY <1>7, <2>3, <3>1, <3>2, <4>2
      <4> QED
        BY <4>1, <4>2
    <3> QED
      BY <1>1, <3>2 DEF Served
  <2>7. Uncancelled'
    BY <1>1, <1>8, <2>2, <2>3 DEF Uncancelled
  <2> QED
    BY <1>9, <1>10, <2>4, <2>5, <2>6, <2>7 DEF NetInv, ReqInv
<1> QED
  BY <1>6, <1>12, <1>13

LEMMA SubmitInv ==
  ASSUME NetInv, Submit
  PROVE  NetInv'
<1>1. /\ UNCHANGED <<open, alive, socket, subscriber, listening, connection, completions,
                     running, calling, errno, blamed>>
      /\ req' = Armed(req) /\ cancels' = {} /\ dangling' \in {NULL, "address"}
  BY CancelledIs DEF Submit, objVars, statusVars
<1>2. /\ req' \in [Req -> Request \cup {NULL}]
      /\ \A r \in Req :
           /\ req[r] = NULL => req'[r] = NULL
           /\ req[r] # NULL =>
                /\ Aged(req[r], req'[r])
                /\ req'[r].orphan = req[r].orphan
                /\ req'[r].stage = IF req[r].stage # "pending" THEN req[r].stage
                                     ELSE IF req[r].fd \in open THEN "armed" ELSE "failed"
  BY <1>1, Facts, ArmedIs
<1>3. ReqInv'
  BY <1>1, <1>2, AgingInv
<1>4. NetTypeOK'
  BY <1>1, <1>2, <1>3 DEF NetInv, NetTypeOK, ReqInv, Listed
<1>5. Owned' /\ Objects'
  BY <1>1 DEF NetInv, Owned, Held, Carried, Objects
<1>6. Served'
  <2>1. ASSUME NEW r \in Req, Live(r)'
        PROVE  \E o \in alive : /\ subscriber[o] = req'[r].sub /\ req'[r].fd = socket[o]
                                /\ req'[r].stage \notin {"detached", "failed"}
    <3>1. Live(r)
      BY <1>2, <2>1 DEF Live
    <3>2. PICK o \in alive : /\ subscriber[o] = req[r].sub /\ req[r].fd = socket[o]
                             /\ req[r].stage \notin {"detached", "failed"}
      BY <3>1 DEF NetInv, Served
    <3>3. req[r].fd \in open
      BY <3>1, <3>2, Facts DEF Live, NetInv, Owned, Held
    <3> QED
      BY <1>2, <3>1, <3>2, <3>3 DEF Aged, Live
  <2> QED
    BY <1>1, <2>1 DEF Served
<1>7. Uncancelled'
  BY <1>1, <1>2 DEF NetInv, Uncancelled
<1> QED
  BY <1>3, <1>4, <1>5, <1>6, <1>7 DEF NetInv, ReqInv

\* The steps that touch neither the requests nor the objects.
LEMMA QuietInv ==
  ASSUME NetInv, UNCHANGED <<open, alive, socket, subscriber, req, cancels, completions>>,
         NetTypeOK', StatusKnows', Connecting'
  PROVE  NetInv'
<1>1. Owned' /\ Objects'
  BY DEF NetInv, Owned, Held, Carried, Objects
<1>2. Subscribed' /\ Served' /\ Uncancelled' /\ OneConnect'
  BY DEF NetInv, Subscribed, Served, Uncancelled, OneConnect, Live
<1>3. Results'
  BY DEF NetInv, Results
<1> QED
  BY <1>1, <1>2, <1>3 DEF NetInv

LEMMA SetupIs ==
  ASSUME NetInv, NEW o \in {"acceptor", "connector"}, NEW op, NEW calls,
         Setup(o, op, calls, /\ listening' = (listening \/ op = "ACCEPT")
                             /\ connection' = IF op = "CONNECT" THEN "PENDING" ELSE connection),
         UNCHANGED <<alive, subscriber, cancels, completions, running, calling, dangling>>
  PROVE  \E n : Renews(o, op, n)
<1>1. PICK failing \in calls \cup {"none"} :
        /\ \E n \in IF failing = "socket" THEN {NULL} ELSE NextFd : Assign(o, n)
        /\ errno' \in {errno \/ failing # "none", TRUE}
        /\ IF ~errno'
             THEN /\ Add(Closed(req, socket[o]), op, socket'[o], o)
                  /\ listening' = (listening \/ op = "ACCEPT")
                  /\ connection' = IF op = "CONNECT" THEN "PENDING" ELSE connection
                  /\ UNCHANGED blamed
             ELSE /\ req' = Closed(req, socket[o])
                  /\ blamed' = (blamed \/ (op = "ACCEPT" /\ failing = "none" /\ errno))
                  /\ UNCHANGED statusVars
  BY DEF Setup, FileDescriptorStatus
<1>2. PICK n \in IF failing = "socket" THEN {NULL} ELSE NextFd : Assign(o, n)
  BY <1>1
<1>3. /\ n \in (Fd \ open) \cup {NULL}
      /\ failing # "socket" => n # NULL
  BY <1>2, NetAssumption DEF NextFd
<1>4. socket'[o] = n
  BY <1>2 DEF Assign, NetInv, NetTypeOK, Owner
<1>5. errno \in BOOLEAN /\ blamed \in BOOLEAN
  BY DEF NetInv, NetTypeOK
<1>6. errno' \in BOOLEAN /\ blamed' \in BOOLEAN /\ (~errno' => failing = "none")
  BY <1>1, <1>5
<1>7. CASE ~errno'
  BY <1>1, <1>2, <1>3, <1>4, <1>6, <1>7 DEF Renews
<1>8. CASE errno'
  BY <1>1, <1>2, <1>3, <1>6, <1>8 DEF Renews, statusVars
<1> QED
  BY <1>7, <1>8

LEMMA OpeningInv ==
  ASSUME NetInv, Listen \/ AsyncConnect
  PROVE  NetInv'
<1>1. UNCHANGED <<alive, subscriber, cancels, completions, running, calling, dangling>>
  BY DEF Listen, AsyncConnect
<1>2. CASE Unresolved
  <2>1. UNCHANGED <<open, socket, req, listening, connection, blamed>> /\ errno' \in {errno, TRUE}
    BY <1>2 DEF Unresolved, statusVars
  <2>2. NetTypeOK' /\ StatusKnows' /\ Connecting'
    BY <1>1, <2>1 DEF NetInv, NetTypeOK, StatusKnows, Connecting, Live
  <2> QED
    BY <1>1, <2>1, <2>2, QuietInv
<1>3. CASE Listen /\ ~Unresolved
  <2>1. Setup("acceptor", "ACCEPT", {"socket", "set_option", "bind", "listen"},
              listening' = TRUE /\ UNCHANGED connection)
    BY <1>3 DEF Listen
  <2>2. Setup("acceptor", "ACCEPT", {"socket", "set_option", "bind", "listen"},
              /\ listening' = (listening \/ "ACCEPT" = "ACCEPT")
              /\ connection' = IF "ACCEPT" = "CONNECT" THEN "PENDING" ELSE connection)
    BY <2>1 DEF Setup
  <2>3. \E n : Renews("acceptor", "ACCEPT", n)
    BY <1>1, <2>2, SetupIs
  <2> QED
    BY <1>3, <2>3, RenewsInv DEF Listen
<1>4. CASE AsyncConnect /\ ~Unresolved
  <2>1. Setup("connector", "CONNECT", {"socket", "set_option"},
              connection' = "PENDING" /\ UNCHANGED listening)
    BY <1>4 DEF AsyncConnect
  <2>2. Setup("connector", "CONNECT", {"socket", "set_option"},
              /\ listening' = (listening \/ "CONNECT" = "ACCEPT")
              /\ connection' = IF "CONNECT" = "CONNECT" THEN "PENDING" ELSE connection)
    BY <2>1 DEF Setup, NetInv, NetTypeOK
  <2>3. \E n : Renews("connector", "CONNECT", n)
    BY <1>1, <2>2, SetupIs
  <2> QED
    BY <1>4, <2>3, RenewsInv DEF AsyncConnect
<1> QED
  BY <1>2, <1>3, <1>4

-----------------------------------------------------------------------------
(* The kernel.                                                             *)

LEMMA PostInv ==
  ASSUME NetInv, NEW r \in Req, NEW ok \in BOOLEAN, NEW n \in Fd \cup {NULL}, NEW more \in BOOLEAN,
         Post(r, ok, n, more), req[r] # NULL, req[r].stage # "done",
         n \notin open, open' = open \cup ({n} \ {NULL}),
         n # NULL <=> ok /\ req[r].op = "ACCEPT",
         more => req[r].op # "CONNECT"
  PROVE  NetInv'
<1> DEFINE c == [req |-> r, ok |-> ok, fd |-> n, more |-> more]
<1>1. /\ UNCHANGED <<alive, socket, subscriber, listening, connection, cancels, running, calling,
                     errno, dangling, blamed>>
      /\ completions' = Append(completions, c)
      /\ req' = IF more THEN req ELSE [req EXCEPT ![r].stage = "done"]
  BY DEF Post, statusVars, histVars
<1>2. c \in Completion /\ c.req = r /\ c.ok = ok /\ c.fd = n /\ c.more = more
  BY DEF Completion
<1> HIDE DEF c
<1>3. /\ completions' \in Seq(Completion)
      /\ Len(completions) \in Nat /\ Len(completions') = Len(completions) + 1
      /\ completions'[Len(completions) + 1] = c
      /\ \A i \in 1..Len(completions) : i \in 1..Len(completions') /\ completions'[i] = completions[i]
      /\ \A i \in 1..Len(completions') : i \in 1..Len(completions) \/ i = Len(completions) + 1
  BY <1>1, <1>2, Facts
<1>4. /\ req' \in [Req -> Request \cup {NULL}]
      /\ \A s \in Req : req[s] = NULL => req'[s] = NULL
      /\ \A s \in Req : req[s] # NULL =>
           /\ Aged(req[s], req'[s]) /\ req'[s].orphan = req[s].orphan
           /\ req'[s].stage \in {req[s].stage, "done"}
      /\ ~more => req'[r].stage = "done"
  <2>1. CASE more
    BY <1>1, <2>1, Facts DEF Aged
  <2>2. CASE ~more
    <3>1. req' = [req EXCEPT ![r] = [req[r] EXCEPT !.stage = "done"]]
      BY <1>1, <2>2
    <3>2. /\ [req[r] EXCEPT !.stage = "done"] \in Request
          /\ Aged(req[r], [req[r] EXCEPT !.stage = "done"])
          /\ [req[r] EXCEPT !.stage = "done"].orphan = req[r].orphan
          /\ [req[r] EXCEPT !.stage = "done"].stage = "done"
      BY Facts DEF Request, Aged
    <3>3. req'[r] = [req[r] EXCEPT !.stage = "done"] /\ \A s \in Req : s # r => req'[s] = req[s]
      BY <3>1, Facts
    <3>4. req' \in [Req -> Request \cup {NULL}]
      BY <3>1, <3>2, Facts
    <3> QED
      BY <2>2, <3>2, <3>3, <3>4, Facts DEF Aged
  <2> QED
    BY <2>1, <2>2
<1>5. /\ \A s \in Req : Live(s)' => Live(s)
      /\ \A s \in Req : req[s] # NULL <=> req'[s] # NULL
  BY <1>4, NoRequest DEF Live, Aged
<1>6. Listed'
  BY <1>2, <1>3, <1>5, Facts DEF NetInv, NetTypeOK, Listed
<1>7. Results'
  <2>1. ASSUME NEW i \in 1..Len(completions')
        PROVE  LET d == completions'[i] IN
                 /\ d.fd # NULL <=> d.ok /\ req'[d.req].op = "ACCEPT"
                 /\ d.more => req'[d.req].op # "CONNECT"
                 /\ ~d.more => req'[d.req].stage = "done"
    <3>1. CASE i \in 1..Len(completions)
      <4>1. completions'[i] = completions[i] /\ completions[i].req \in Req /\ req[completions[i].req] # NULL
        BY <1>3, <3>1, Facts DEF NetInv, NetTypeOK
      <4> QED
        BY <1>4, <3>1, <4>1 DEF NetInv, Results, Aged
    <3>2. CASE i = Len(completions) + 1
      BY <1>2, <1>3, <1>4, <3>2 DEF Aged
    <3> QED
      BY <1>3, <3>1, <3>2
  <2>2. ASSUME NEW i \in 1..Len(completions'), NEW j \in 1..Len(completions'),
               i < j, completions'[i].req = completions'[j].req
        PROVE  completions'[i].more
    <3>1. i \in 1..Len(completions) /\ completions'[i] = completions[i]
      BY <1>3, <2>2
    <3>2. CASE j \in 1..Len(completions)
      BY <1>3, <2>2, <3>1, <3>2 DEF NetInv, Results
    <3>3. CASE j = Len(completions) + 1
      <4>1. completions[i].req = r
        BY <1>2, <1>3, <2>2, <3>1, <3>3
      <4> QED
        BY <3>1, <4>1 DEF NetInv, Results
    <3> QED
      BY <1>3, <3>2, <3>3
  <2> QED
    BY <2>1, <2>2 DEF Results
<1>8. StatusKnows' /\ Connecting'
  BY <1>1, <1>4, <1>5 DEF NetInv, StatusKnows, Connecting, Live, Aged
<1>9. OneConnect'
  BY <1>4, <1>5 DEF NetInv, OneConnect, Live, Aged
<1>10. Subscribed' /\ Uncancelled'
  BY <1>1, <1>4, <1>5 DEF NetInv, Subscribed, Uncancelled, Aged
<1>11. Served'
  BY <1>1, <1>4, <1>5 DEF NetInv, Served, Live, Aged
<1>12. Objects'
  BY <1>1 DEF NetInv, Objects
<1>13. Owned'
  <2>1. ASSUME NEW m \in Fd
        PROVE  /\ Held(m)' \/ Carried(m)' => m \in open'
               /\ m \in open' /\ m # 0 => Held(m)' \/ Carried(m)'
    <3>1. Held(m)' <=> Held(m)
      BY <1>1 DEF Held
    <3>2. Carried(m)' <=> Carried(m) \/ m = n
      <4>1. Len(completions) + 1 \in 1..Len(completions')
        BY <1>3
      <4> QED
        BY <1>2, <1>3, <4>1 DEF Carried
    <3> QED
      BY <3>1, <3>2, NetAssumption DEF NetInv, Owned
  <2>2. n # NULL => ~Held(n) /\ ~Carried(n)
    BY DEF NetInv, Owned
  <2>3. \A i, j \in 1..Len(completions') :
          completions'[i].fd = completions'[j].fd /\ completions'[i].fd # NULL => i = j
    BY <1>2, <1>3, <2>2 DEF NetInv, Owned, Carried
  <2>4. \A o \in alive, i \in 1..Len(completions') :
          socket[o] # NULL => socket[o] # completions'[i].fd
    BY <1>2, <1>3, <2>2 DEF NetInv, Owned, Held
  <2> QED
    BY <1>1, <2>1, <2>3, <2>4 DEF NetInv, Owned
<1>14. NetTypeOK'
  <2>1. open' \subseteq Fd
    BY DEF NetInv, NetTypeOK
  <2> QED
    BY <1>1, <1>3, <1>4, <1>6, <2>1 DEF NetInv, NetTypeOK, Listed
<1> QED
  BY <1>7, <1>8, <1>9, <1>10, <1>11, <1>12, <1>13, <1>14 DEF NetInv

LEMMA KernelInv ==
  ASSUME NetInv, NEW r \in Req, Succeed(r) \/ Fail(r)
  PROVE  NetInv'
<1>1. NULL \notin open /\ open = open \cup ({NULL} \ {NULL}) /\ TRUE \in BOOLEAN /\ FALSE \in BOOLEAN
  BY NetAssumption DEF NetInv, NetTypeOK
<1>2. CASE Fail(r)
  BY <1>1, <1>2, PostInv DEF Fail
<1>3. CASE Succeed(r) /\ req[r].op = "ACCEPT"
  <2>1. PICK n \in NextFd, more \in BOOLEAN : Post(r, TRUE, n, more) /\ open' = open \cup {n}
    BY <1>3 DEF Succeed
  <2>2. n \in Fd /\ n \notin open /\ n # NULL /\ open' = open \cup ({n} \ {NULL})
    BY <2>1, NetAssumption DEF NextFd
  <2> QED
    BY <1>1, <1>3, <2>1, <2>2, PostInv DEF Succeed
<1>4. CASE Succeed(r) /\ req[r].op # "ACCEPT"
  <2>1. PICK more \in {FALSE, req[r].op = "READ_MULTISHOT"} : Post(r, TRUE, NULL, more)
    BY <1>4 DEF Succeed
  <2>2. more \in BOOLEAN /\ (more => req[r].op # "CONNECT")
    OBVIOUS
  <2> QED
    BY <1>1, <1>4, <2>1, <2>2, PostInv DEF Succeed
<1> QED
  BY <1>2, <1>3, <1>4

-----------------------------------------------------------------------------
(* The event loop.                                                         *)

\* The oldest completion, and what is left when it has been handled.
LEMMA OldestIs ==
  ASSUME NetInv, completions # <<>>
  PROVE  /\ 1 \in 1..Len(completions) /\ Oldest = completions[1] /\ Oldest \in Completion
         /\ Oldest.req \in Req /\ req[Oldest.req] # NULL
         /\ Oldest.fd # NULL <=> Oldest.ok /\ req[Oldest.req].op = "ACCEPT"
         /\ Oldest.more => req[Oldest.req].op # "CONNECT"
         /\ Tail(completions) \in Seq(Completion) /\ Len(Tail(completions)) \in Nat
         /\ \A i \in 1..Len(Tail(completions)) :
              i + 1 \in 1..Len(completions) /\ Tail(completions)[i] = completions[i + 1]
         /\ \A j \in 1..Len(completions) :
              \/ j = 1
              \/ j - 1 \in 1..Len(Tail(completions)) /\ Tail(completions)[j - 1] = completions[j]
<1>1. completions \in Seq(Completion)
  BY Facts
<1>2. /\ 1 \in 1..Len(completions) /\ Oldest = completions[1]
      /\ Tail(completions) \in Seq(Completion) /\ Len(Tail(completions)) \in Nat
  BY <1>1 DEF Oldest
<1>3. /\ \A i \in 1..Len(Tail(completions)) :
           i + 1 \in 1..Len(completions) /\ Tail(completions)[i] = completions[i + 1]
      /\ \A j \in 1..Len(completions) :
           \/ j = 1
           \/ j - 1 \in 1..Len(Tail(completions)) /\ Tail(completions)[j - 1] = completions[j]
  BY <1>1
<1>4. completions[1] \in Completion /\ completions[1].req \in Req /\ req[completions[1].req] # NULL
  BY <1>1, <1>2, Facts DEF NetInv, NetTypeOK
<1>5. /\ completions[1].fd # NULL <=> completions[1].ok /\ req[completions[1].req].op = "ACCEPT"
      /\ completions[1].more => req[completions[1].req].op # "CONNECT"
  BY <1>2 DEF NetInv, Results
<1> QED
  BY <1>2, <1>3, <1>4, <1>5

LEMMA HandleInv ==
  ASSUME NetInv, NEW event \in Op \cup {"ERROR"}, Handle(event)
  PROVE  /\ ReqInv' /\ Uncancelled'
         /\ \A r \in Req : Live(r)' => Live(r) /\ req'[r] = req[r]
         /\ event = "CONNECT" => \A r \in Req : Live(r)' => req[r].op # "CONNECT"
         /\ req' \in [Req -> Request \cup {NULL}] /\ completions' \in Seq(Completion)
         /\ running' \in {"loop", "user", "onConnection"} /\ calling' \in Subscriber \cup {NULL}
<1>1. PICK k : k = Oldest.req
  OBVIOUS
<1>2. /\ completions # <<>> /\ completions' = Tail(completions)
      /\ ~req[k].orphan /\ event = IF Oldest.ok THEN req[k].op ELSE "ERROR"
      /\ running' = IF event = "CONNECT" THEN "onConnection" ELSE "user"
      /\ calling' = req[k].sub
      /\ req' = IF Oldest.more THEN req ELSE [req EXCEPT ![k] = NULL]
      /\ UNCHANGED <<listening, connection, cancels>>
  BY <1>1 DEF Handle, Issuer, statusVars
<1>3. /\ 1 \in 1..Len(completions) /\ Oldest = completions[1]
      /\ k \in Req /\ req[k] # NULL /\ Live(k)
      /\ Oldest.more => req[k].op # "CONNECT"
      /\ completions' \in Seq(Completion)
      /\ \A i \in 1..Len(completions') :
           i + 1 \in 1..Len(completions) /\ completions'[i] = completions[i + 1]
  BY <1>1, <1>2, OldestIs DEF Live
<1>4. /\ req' \in [Req -> Request \cup {NULL}]
      /\ \A r \in Req : r # k => req'[r] = req[r]
      /\ Oldest.more => req' = req
      /\ ~Oldest.more => req'[k] = NULL
  BY <1>2, <1>3, Facts
<1>5. /\ \A r \in Req : req'[r] # NULL => req'[r] = req[r]
      /\ \A r \in Req : Live(r)' => Live(r) /\ req'[r] = req[r]
  BY <1>4 DEF Live
<1>6. ASSUME event = "CONNECT", NEW r \in Req, Live(r)' PROVE req[r].op # "CONNECT"
  <2>1. req[k].op = "CONNECT" /\ ~Oldest.more
    BY <1>2, <1>3, <1>6
  <2>2. r # k
    BY <1>4, <1>6, <2>1 DEF Live
  <2> QED
    BY <1>3, <1>5, <1>6, <2>1, <2>2 DEF NetInv, OneConnect
\* A completion that follows is of another request, or the request stays.
<1>7. ASSUME NEW i \in 1..Len(completions')
      PROVE  /\ completions'[i].req \in Req /\ req[completions'[i].req] # NULL
             /\ req'[completions'[i].req] = req[completions'[i].req]
  <2>1. /\ i + 1 \in 1..Len(completions) /\ completions'[i] = completions[i + 1]
        /\ completions'[i].req \in Req /\ req[completions'[i].req] # NULL
    BY <1>3, Facts DEF NetInv, NetTypeOK
  <2>2. CASE completions[i + 1].req = k
    <3>1. completions[1].req = completions[i + 1].req /\ 1 < i + 1
      BY <1>1, <1>3, <2>1, <2>2
    <3>2. Oldest.more
      BY <1>3, <2>1, <3>1 DEF NetInv, Results
    <3> QED
      BY <1>4, <2>1, <3>2
  <2>3. CASE completions[i + 1].req # k
    BY <1>4, <2>1, <2>3
  <2> QED
    BY <2>1, <2>2, <2>3
<1>8. Listed'
  BY <1>7 DEF Listed
<1>9. Results'
  <2>1. ASSUME NEW i \in 1..Len(completions')
        PROVE  LET d == completions'[i] IN
                 /\ d.fd # NULL <=> d.ok /\ req'[d.req].op = "ACCEPT"
                 /\ d.more => req'[d.req].op # "CONNECT"
                 /\ ~d.more => req'[d.req].stage = "done"
    BY <1>3, <1>7 DEF NetInv, Results
  <2>2. ASSUME NEW i \in 1..Len(completions'), NEW j \in 1..Len(completions'),
               i < j, completions'[i].req = completions'[j].req
        PROVE  completions'[i].more
    <3>1. i + 1 < j + 1 /\ completions[i + 1].req = completions[j + 1].req
      BY <1>3, <2>2
    <3> QED
      BY <1>3, <3>1 DEF NetInv, Results
  <2> QED
    BY <2>1, <2>2 DEF Results
<1>10. StatusKnows' /\ Uncancelled' /\ Subscribed'
  BY <1>2, <1>5 DEF NetInv, StatusKnows, Uncancelled, Subscribed
<1>11. OneConnect'
  BY <1>5 DEF NetInv, OneConnect
<1>12. Connecting'
  <2>1. CASE event = "CONNECT"
    <3>1. req[k].op = "CONNECT"
      BY <1>2, <2>1
    <3>2. connection' = "PENDING"
      BY <1>2, <1>3, <3>1 DEF NetInv, StatusKnows, Live
    <3>3. \A r \in Req : Live(r)' => req'[r].op # "CONNECT"
      BY <1>5, <1>6, <2>1
    <3> QED
      BY <3>2, <3>3 DEF Connecting
  <2>2. CASE event # "CONNECT"
    BY <1>2, <2>2 DEF Connecting
  <2> QED
    BY <2>1, <2>2
<1>13. running' \in {"loop", "user", "onConnection"} /\ calling' \in Subscriber \cup {NULL}
  BY <1>2, <1>3, Facts
<1> QED
  BY <1>3, <1>4, <1>5, <1>6, <1>8, <1>9, <1>10, <1>11, <1>12, <1>13 DEF ReqInv

\* The descriptors of the completions that are left.
LEMMA CarriedIs ==
  ASSUME NetInv, completions # <<>>, completions' = Tail(completions)
  PROVE  /\ \A n \in Fd : Carried(n) <=> Carried(n)' \/ n = Oldest.fd
         /\ \A n \in Fd : n = Oldest.fd => ~Carried(n)' /\ ~Held(n)
         /\ \A i, j \in 1..Len(completions') :
              completions'[i].fd = completions'[j].fd /\ completions'[i].fd # NULL => i = j
         /\ \A o \in alive, i \in 1..Len(completions') :
              socket[o] # NULL => socket[o] # completions'[i].fd
<1>1. /\ 1 \in 1..Len(completions) /\ Oldest = completions[1]
      /\ \A i \in 1..Len(completions') :
           i + 1 \in 1..Len(completions) /\ completions'[i] = completions[i + 1]
      /\ \A j \in 1..Len(completions) :
           j = 1 \/ (j - 1 \in 1..Len(completions') /\ completions'[j - 1] = completions[j])
  BY OldestIs
<1>2. \A i \in 1..Len(completions') : i \in Nat /\ i + 1 # 1
  BY <1>1, Facts
<1>3. \A n \in Fd : Carried(n) <=> Carried(n)' \/ n = Oldest.fd
  <2>1. ASSUME NEW n \in Fd, Carried(n) PROVE Carried(n)' \/ n = Oldest.fd
    BY <1>1, <2>1 DEF Carried
  <2>2. ASSUME NEW n \in Fd, Carried(n)' PROVE Carried(n)
    BY <1>1, <2>2 DEF Carried
  <2>3. Oldest.fd \in Fd => Carried(Oldest.fd)
    BY <1>1 DEF Carried
  <2> QED
    BY <2>1, <2>2, <2>3
<1>4. ASSUME NEW n \in Fd, n = Oldest.fd PROVE ~Carried(n)' /\ ~Held(n)
  <2>1. n = completions[1].fd /\ n # NULL
    BY <1>1, <1>4, NetAssumption
  <2> QED
    BY <1>1, <1>2, <2>1 DEF NetInv, Owned, Carried, Held
<1>5. \A i, j \in 1..Len(completions') :
        completions'[i].fd = completions'[j].fd /\ completions'[i].fd # NULL => i = j
  <2> SUFFICES ASSUME NEW i \in 1..Len(completions'), NEW j \in 1..Len(completions'),
                      completions'[i].fd = completions'[j].fd, completions'[i].fd # NULL
               PROVE  i = j
    OBVIOUS
  <2>1. i + 1 = j + 1
    BY <1>1 DEF NetInv, Owned
  <2> QED
    BY <1>2, <2>1
<1>6. \A o \in alive, i \in 1..Len(completions') :
        socket[o] # NULL => socket[o] # completions'[i].fd
  BY <1>1 DEF NetInv, Owned
<1> QED
  BY <1>3, <1>4, <1>5, <1>6

LEMMA DeliverInv ==
  ASSUME NetInv, Deliver
  PROVE  NetInv'
<1>1. PICK event \in {"READ_MULTISHOT", "WRITE", "ERROR"} : Handle(event)
  BY DEF Deliver
<1>2. event \in Op \cup {"ERROR"}
  BY DEF Op
<1>3. /\ UNCHANGED <<open, alive, socket, subscriber, listening, connection, cancels, errno,
                     dangling, blamed>>
      /\ completions # <<>> /\ completions' = Tail(completions)
      /\ event = IF Oldest.ok THEN req[Oldest.req].op ELSE "ERROR"
  BY <1>1 DEF Deliver, Handle, Issuer, statusVars, histVars
<1>4. Oldest.fd = NULL
  BY <1>3, OldestIs
<1>5. /\ ReqInv' /\ Uncancelled'
      /\ \A r \in Req : Live(r)' => Live(r) /\ req'[r] = req[r]
      /\ req' \in [Req -> Request \cup {NULL}] /\ completions' \in Seq(Completion)
      /\ running' \in {"loop", "user", "onConnection"} /\ calling' \in Subscriber \cup {NULL}
  BY <1>1, <1>2, HandleInv
<1>6. NetTypeOK'
  BY <1>3, <1>5 DEF NetInv, NetTypeOK, ReqInv, Listed
<1>7. Owned'
  <2>1. \A n \in Fd : (Held(n)' <=> Held(n)) /\ (Carried(n)' <=> Carried(n))
    BY <1>3, <1>4, CarriedIs, NetAssumption DEF Held
  <2> QED
    BY <1>3, <2>1, CarriedIs DEF NetInv, Owned
<1>8. Objects' /\ Served'
  BY <1>3, <1>5 DEF NetInv, Objects, Served
<1> QED
  BY <1>5, <1>6, <1>7, <1>8 DEF NetInv, ReqInv

\* Connection c is constructed with subscriber u and descriptor n, which the
\* completion or the Connector held.
Born(event, c, u, n) ==
  /\ c \in Conn \ alive /\ alive' = alive \cup {c}
  /\ u \in Sub \ {subscriber[o] : o \in Owner}
  /\ subscriber' = [subscriber EXCEPT ![c] = u]
  /\ \/ event = "ACCEPT" /\ n = Oldest.fd /\ socket' = [socket EXCEPT ![c] = n]
     \/ /\ event = "CONNECT" /\ n = socket["connector"]
        /\ socket' = [socket EXCEPT !["connector"] = NULL, ![c] = n]

LEMMA BornInv ==
  ASSUME NetInv, NEW event, NEW c, NEW u, NEW n, Handle(event), Born(event, c, u, n)
  PROVE  NetInv'
<1>1. /\ UNCHANGED <<open, listening, connection, cancels, errno, dangling, blamed>>
      /\ completions # <<>> /\ completions' = Tail(completions)
      /\ event = IF Oldest.ok THEN req[Oldest.req].op ELSE "ERROR"
      /\ ~req[Oldest.req].orphan
      /\ event \in Op \cup {"ERROR"} /\ event \in {"ACCEPT", "CONNECT"}
  BY DEF Handle, Issuer, statusVars, histVars, Born, Op
<1>2. /\ ReqInv' /\ Uncancelled'
      /\ \A r \in Req : Live(r)' => Live(r) /\ req'[r] = req[r]
      /\ event = "CONNECT" => \A r \in Req : Live(r)' => req[r].op # "CONNECT"
      /\ req' \in [Req -> Request \cup {NULL}] /\ completions' \in Seq(Completion)
      /\ running' \in {"loop", "user", "onConnection"} /\ calling' \in Subscriber \cup {NULL}
  BY <1>1, HandleInv
<1>3. /\ c \in Conn /\ c \in Owner /\ c \notin alive /\ c \notin {"acceptor", "connector"}
      /\ u \in Sub /\ u \in Subscriber /\ u # NULL /\ u \notin {"acceptor", "connector"}
      /\ "acceptor" \in Owner /\ "connector" \in Owner /\ alive' = alive \cup {c}
  BY NetAssumption DEF Born, Owner, Subscriber
<1>4. /\ subscriber' \in [Owner -> Subscriber \cup {NULL}] /\ subscriber'[c] = u
      /\ \A o \in Owner : o # c => subscriber'[o] = subscriber[o]
      /\ \A o \in Owner : subscriber[o] # u
  BY <1>3 DEF Born, NetInv, NetTypeOK
<1>5. event = "CONNECT" => "connector" \in alive /\ socket["connector"] \in Fd
  <2> SUFFICES ASSUME event = "CONNECT"
               PROVE  "connector" \in alive /\ socket["connector"] \in Fd
    OBVIOUS
  <2>1. PICK k \in Req : k = Oldest.req
    BY <1>1, OldestIs
  <2>2. Live(k) /\ req[k].op = "CONNECT" /\ req[k].sub = "connector" /\ req[k].fd \in Fd
    BY <1>1, <2>1, OldestIs, Facts DEF Live, NetInv, Subscribed
  <2>3. PICK o \in alive : subscriber[o] = "connector" /\ socket[o] = req[k].fd
    BY <2>2 DEF NetInv, Served
  <2>4. o = "connector"
    BY <2>3, NetAssumption, Facts DEF NetInv, Objects, Owner
  <2> QED
    BY <2>2, <2>3, <2>4
<1>6. n \in Fd /\ n # NULL
  <2>1. event = "ACCEPT" => Oldest.fd \in Fd
    <3>1. Oldest.fd \in Fd \cup {NULL}
      BY <1>1, OldestIs DEF Completion
    <3> QED
      BY <1>1, <3>1, OldestIs
  <2> QED
    BY <1>5, <2>1, NetAssumption DEF Born
<1>7. /\ socket' \in [Owner -> Fd \cup {NULL}] /\ socket'[c] = n
      /\ \A o \in Owner : o # c /\ o # "connector" => socket'[o] = socket[o]
      /\ event = "ACCEPT" => socket'["connector"] = socket["connector"]
      /\ event = "CONNECT" => socket'["connector"] = NULL
  BY <1>3, <1>6 DEF Born, NetInv, NetTypeOK
<1>8. NetTypeOK'
  <2>1. alive' \subseteq Owner
    BY <1>3 DEF NetInv, NetTypeOK
  <2> QED
    BY <1>1, <1>2, <1>4, <1>7, <2>1 DEF NetInv, NetTypeOK, ReqInv, Listed
<1>9. Objects'
  <2>1. \A o \in Owner \ alive' : socket'[o] = NULL /\ subscriber'[o] = NULL
    BY <1>1, <1>3, <1>4, <1>7 DEF NetInv, Objects
  <2>2. \A b \in Conn : subscriber'[b] \in Sub \cup {NULL}
    BY <1>3, <1>4 DEF NetInv, Objects, Owner
  <2>3. \A b \in Conn : subscriber'[b] # NULL => socket'[b] # NULL
    BY <1>3, <1>4, <1>6, <1>7, NetAssumption DEF NetInv, Objects, Owner
  <2>4. \A o \in {"acceptor", "connector"} : subscriber'[o] = IF o \in alive' THEN o ELSE NULL
    BY <1>3, <1>4 DEF NetInv, Objects
  <2>5. \A o, p \in Owner : subscriber'[o] = subscriber'[p] /\ subscriber'[o] # NULL => o = p
    BY <1>4 DEF NetInv, Objects
  <2> QED
    BY <2>1, <2>2, <2>3, <2>4, <2>5 DEF Objects
<1>10. Served'
  <2>1. ASSUME NEW r \in Req, Live(r)'
        PROVE  \E o \in alive' : /\ subscriber'[o] = req'[r].sub /\ req'[r].fd = socket'[o]
                                 /\ req'[r].stage \notin {"detached", "failed"}
    <3>1. Live(r) /\ req'[r] = req[r]
      BY <1>2, <2>1
    <3>2. PICK o \in alive : /\ subscriber[o] = req[r].sub /\ req[r].fd = socket[o]
                             /\ req[r].stage \notin {"detached", "failed"}
      BY <3>1 DEF NetInv, Served
    <3>3. o \in Owner /\ o # c /\ o \in alive'
      BY <1>3, Facts
    <3>4. event = "CONNECT" => o # "connector"
      BY <1>2, <2>1, <3>1, <3>2 DEF NetInv, Objects, Subscribed, Live
    <3>5. socket'[o] = socket[o] /\ subscriber'[o] = subscriber[o]
      BY <1>1, <1>4, <1>7, <3>3, <3>4
    <3> QED
      BY <3>1, <3>2, <3>3, <3>5
  <2> QED
    BY <2>1 DEF Served
<1>11. Owned'
  <2>1. /\ \A m \in Fd : Carried(m) <=> Carried(m)' \/ m = Oldest.fd
        /\ \A m \in Fd : m = Oldest.fd => ~Carried(m)' /\ ~Held(m)
        /\ \A i, j \in 1..Len(completions') :
             completions'[i].fd = completions'[j].fd /\ completions'[i].fd # NULL => i = j
        /\ \A o \in alive, i \in 1..Len(completions') :
             socket[o] # NULL => socket[o] # completions'[i].fd
    BY <1>1, CarriedIs
  <2>2. \A o \in alive : o \in Owner /\ o # c
    BY <1>3, Facts
  <2>3. /\ \A m \in Fd : /\ Held(m) \/ Carried(m) => m \in open
                         /\ m \in open /\ m # 0 => Held(m) \/ Carried(m)
        /\ \A o, p \in alive : socket[o] = socket[p] /\ socket[o] # NULL => o = p
    BY DEF NetInv, Owned
  <2>4. CASE event = "ACCEPT"
    <3>1. n = Oldest.fd /\ \A o \in alive : socket'[o] = socket[o]
      BY <1>7, <2>2, <2>4 DEF Born
    <3>2. \A m \in Fd : Held(m)' <=> Held(m) \/ m = n
      BY <1>3, <1>7, <3>1 DEF Held
    <3>3. \A m \in Fd : /\ Held(m)' \/ Carried(m)' => m \in open'
                        /\ m \in open' /\ m # 0 => Held(m)' \/ Carried(m)'
      BY <1>1, <2>1, <2>3, <3>1, <3>2
    <3>4. ~Carried(n)' /\ ~Held(n)
      BY <1>6, <2>1, <3>1
    <3>5. \A o, p \in alive' : socket'[o] = socket'[p] /\ socket'[o] # NULL => o = p
      BY <1>3, <1>7, <2>3, <3>1, <3>4 DEF Held
    <3>6. \A o \in alive', i \in 1..Len(completions') :
            socket'[o] # NULL => socket'[o] # completions'[i].fd
      BY <1>3, <1>7, <2>1, <3>1, <3>4 DEF Carried
    <3> QED
      BY <2>1, <3>3, <3>5, <3>6 DEF Owned
  <2>5. CASE event = "CONNECT"
    <3>1. /\ n = socket["connector"] /\ socket'["connector"] = NULL /\ "connector" \in alive
          /\ \A o \in alive : o # "connector" => socket'[o] = socket[o]
      BY <1>5, <1>7, <2>2, <2>5 DEF Born
    <3>2. \A m \in Fd : Held(m)' <=> Held(m)
      <4>1. ASSUME NEW m \in Fd, Held(m)' PROVE Held(m)
        BY <1>3, <1>7, <3>1, <4>1, NetAssumption DEF Held
      <4>2. ASSUME NEW m \in Fd, Held(m) PROVE Held(m)'
        BY <1>3, <1>7, <3>1, <4>2 DEF Held
      <4> QED
        BY <4>1, <4>2
    <3>3. Oldest.fd = NULL
      BY <1>1, <2>5, OldestIs
    <3>4. \A m \in Fd : /\ Held(m)' \/ Carried(m)' => m \in open'
                        /\ m \in open' /\ m # 0 => Held(m)' \/ Carried(m)'
      BY <1>1, <2>1, <2>3, <3>2, <3>3, NetAssumption
    <3>5. \A o, p \in alive' : socket'[o] = socket'[p] /\ socket'[o] # NULL => o = p
      BY <1>3, <1>6, <1>7, <2>3, <3>1
    <3>6. \A o \in alive', i \in 1..Len(completions') :
            socket'[o] # NULL => socket'[o] # completions'[i].fd
      BY <1>3, <1>6, <1>7, <2>1, <3>1
    <3> QED
      BY <2>1, <3>4, <3>5, <3>6 DEF Owned
  <2> QED
    BY <1>1, <2>4, <2>5
<1> QED
  BY <1>2, <1>8, <1>9, <1>10, <1>11 DEF NetInv, ReqInv

LEMMA ConstructInv ==
  ASSUME NetInv, Accepted \/ Connected
  PROVE  NetInv'
<1>1. CASE Accepted
  <2>1. PICK c \in Conn \ alive : Construct(c, Oldest.fd, socket)
    BY <1>1 DEF Accepted
  <2>2. PICK u \in Sub \ {subscriber[o] : o \in Owner} : subscriber' = [subscriber EXCEPT ![c] = u]
    BY <2>1 DEF Construct
  <2>3. Born("ACCEPT", c, u, Oldest.fd)
    BY <2>1, <2>2 DEF Construct, Born
  <2> QED
    BY <1>1, <2>3, BornInv DEF Accepted
<1>2. CASE Connected
  <2>1. PICK c \in Conn \ alive :
          Construct(c, socket["connector"], [socket EXCEPT !["connector"] = NULL])
    BY <1>2 DEF Connected
  <2>2. PICK u \in Sub \ {subscriber[o] : o \in Owner} : subscriber' = [subscriber EXCEPT ![c] = u]
    BY <2>1 DEF Construct
  <2>3. Born("CONNECT", c, u, socket["connector"])
    BY <2>1, <2>2 DEF Construct, Born
  <2> QED
    BY <1>2, <2>3, BornInv DEF Connected
<1> QED
  BY <1>1, <1>2

LEMMA OtherInv ==
  ASSUME NetInv, UNCHANGED netvars \/ Dangling \/ Return
  PROVE  NetInv'
<1>1. UNCHANGED <<open, alive, socket, subscriber, req, cancels, completions, listening, errno, blamed>>
  BY DEF netvars, Dangling, Return, objVars, loopVars, statusVars, histVars
<1>2. CASE UNCHANGED netvars
  <2>1. UNCHANGED <<connection, running, calling, dangling>>
    BY <1>2 DEF netvars, statusVars, histVars
  <2>2. NetTypeOK' /\ StatusKnows' /\ Connecting'
    BY <1>1, <2>1 DEF NetInv, NetTypeOK, StatusKnows, Connecting, Live
  <2> QED
    BY <1>1, <2>2, QuietInv
<1>3. CASE Dangling
  <2>1. UNCHANGED <<connection, running, calling>> /\ dangling' \in Subscriber
    BY <1>3, OldestIs, Facts DEF Dangling, Issuer, statusVars
  <2>2. NetTypeOK' /\ StatusKnows' /\ Connecting'
    BY <1>1, <2>1 DEF NetInv, NetTypeOK, StatusKnows, Connecting, Live
  <2> QED
    BY <1>1, <2>2, QuietInv
<1>4. CASE Return
  <2>1. /\ running' = "loop" /\ calling' = NULL /\ dangling' = dangling
        /\ connection' = IF running = "onConnection" THEN "CONNECTED" ELSE connection
    BY <1>4 DEF Return, histVars
  <2>2. NetTypeOK' /\ Connecting'
    BY <1>1, <2>1 DEF NetInv, NetTypeOK, Connecting
  <2>3. StatusKnows'
    BY <1>1, <2>1 DEF NetInv, StatusKnows, Connecting, Live
  <2> QED
    BY <1>1, <2>2, <2>3, QuietInv
<1> QED
  BY <1>2, <1>3, <1>4

LEMMA NetStep == NetInv /\ [NetNext]_netvars => NetInv'
<1> SUFFICES ASSUME NetInv, [NetNext]_netvars PROVE NetInv'
  OBVIOUS
<1>1. CASE UNCHANGED netvars \/ NotReady \/ Undefined \/ Dangling \/ Return
  BY <1>1, OtherInv DEF NotReady, Undefined
<1> QED
  BY <1>1, OpeningInv, AsyncInv, MoveInv, DestroyInv, SubmitInv, KernelInv, ConstructInv, DeliverInv
     DEF NetNext

LEMMA NetAlways == NetSpec => []NetInv
  BY NetInitial, NetStep, PTL DEF NetSpec

-----------------------------------------------------------------------------

(* Every variable keeps its type: in particular a completion is found to    *)
(* belong to a request that has not been released, and no request is made   *)
(* for an object without a socket.                                          *)
THEOREM NetTypeCorrect == NetSpec => []NetTypeOK
<1>1. NetInv => NetTypeOK
  BY DEF NetInv
<1> QED
  BY <1>1, NetAlways, PTL

(* An open descriptor has one owner, which closes it once, and no one holds *)
(* a closed one.  Number 0, which the code takes for no descriptor, is the  *)
(* only one that may stay open without an owner.                            *)
THEOREM DescriptorsAreOwned == NetSpec => []DescriptorOwned
<1>1. NetInv => DescriptorOwned
  <2> SUFFICES ASSUME NetInv, NEW n \in Fd
               PROVE  /\ \A o, p \in Holders(n) : o = p
                      /\ \A i, j \in Carriers(n) : i = j
                      /\ Holders(n) = {} \/ Carriers(n) = {}
                      /\ Holders(n) # {} \/ Carriers(n) # {} => n \in open
                      /\ n \in open /\ n # 0 => Holders(n) # {} \/ Carriers(n) # {}
    BY DEF DescriptorOwned
  <2>1. n # NULL
    BY NetAssumption
  <2>2. (Held(n) <=> Holders(n) # {}) /\ (Carried(n) <=> Carriers(n) # {})
    BY DEF Held, Holders, Carried, Carriers
  <2> QED
    BY <2>1, <2>2 DEF NetInv, Owned, Holders, Carriers
<1> QED
  BY <1>1, NetAlways, PTL

(* A request operates on the socket of the object it was made by, or of the *)
(* one that object has been moved to.                                       *)
THEOREM RequestsHaveTheirFile == NetSpec => []RightFile
<1>1. NetInv => RightFile
  BY DEF NetInv, Served, RightFile, Live
<1> QED
  BY <1>1, NetAlways, PTL

(* The statuses of the Acceptor and of the Connector account for every      *)
(* request of theirs.                                                       *)
THEOREM StatusesKnow == NetSpec => []StatusKnows
<1>1. NetInv => StatusKnows
  BY DEF NetInv
<1> QED
  BY <1>1, NetAlways, PTL

(* The cancellation a destructor prepares never reaches a request, however  *)
(* the numbers are closed and given out again before it is submitted.       *)
THEOREM CancellationsFindNothing == NetSpec => []CancelFindsNothing
<1>1. NetInv => CancelFindsNothing
  BY DEF NetInv, Uncancelled, CancelFindsNothing
<1> QED
  BY <1>1, NetAlways, PTL

=============================================================================
