--------------------------- MODULE ReadStreamProofs ---------------------------
(***************************************************************************)
(* ReadStream implements ByteStream, for any number of buffers,            *)
(* connections and completions: what the kernel writes goes to a buffer    *)
(* nobody is waiting to read.                                              *)
(***************************************************************************)
EXTENDS ReadStream, BufferRingProofs, SelectionProofs

\* ReadStream only adds to what BufferRing does.
LEMMA ReadsUseRing ==
  /\ RSInit => BRInit
  /\ [RSNext]_rsvars => [BRNext]_brvars
<1>1. ASSUME RSNext PROVE BRNext
  BY <1>1 DEF RSNext, BRNext, ReadMultishot, OnRead, OnReadReturns
<1> QED
  BY <1>1 DEF RSInit, rsvars

(* The theorems about BufferRing hold while connections read: no buffer is  *)
(* filled while a callback may still look at it, and none is lost.          *)
THEOREM SharedBuffersAreSafe ==
  RSSpec => [](BRTypeOK /\ OneOwner /\ NoBufferLost /\ RingBeforeBuffers)
<1>1. RSSpec => BRSpec
  BY ReadsUseRing, PTL DEF RSSpec, BRSpec
<1> QED
  BY <1>1, BRTypeCorrect, BuffersHaveOneOwner, BuffersComeBack, NoBufferWithoutRing, PTL

-----------------------------------------------------------------------------
(* The chunks.                                                             *)

Bytes  == Data \cup {NULL}
Chunks == [peer : Peer, data : Bytes]

\* A completion that brings bytes has the buffer they are in.
Filled ==
  /\ buffers \in [BufferId -> Bytes]
  /\ peers \in Seq(Peer) /\ Len(peers) = Len(completions)
  /\ \A i \in 1..Len(completions) :
       completions[i].res = 1 =>
         completions[i].flags.buffer /\ buffers[completions[i].flags.id] \in Data

ReadInv == OwnInv /\ NoBufferInErrors /\ Filled

All == [i \in 1..Len(completions) |-> Chunk(i)]

LEMMA AllTyped ==
  ASSUME ReadInv
  PROVE  /\ completions \in Seq(Completion) /\ peers \in Seq(Peer) /\ buffers \in [BufferId -> Bytes]
         /\ Len(peers) = Len(completions) /\ (serving => completions # <<>>) /\ serving \in BOOLEAN
         /\ All \in Seq(Chunks) /\ Len(All) = Len(completions)
         /\ \A i \in 1..Len(completions) : All[i] = Chunk(i) /\ Chunk(i) \in Chunks
         /\ Later \in Seq(Chunks)
         /\ Later = IF serving THEN Tail(All) ELSE All
<1>1. /\ completions \in Seq(Completion) /\ peers \in Seq(Peer) /\ buffers \in [BufferId -> Bytes]
      /\ Len(peers) = Len(completions) /\ (serving => completions # <<>>) /\ serving \in BOOLEAN
  BY DEF ReadInv, OwnInv, BRTypeOK, Filled
<1>2. ASSUME NEW i \in 1..Len(completions) PROVE Chunk(i) \in Chunks
  <2>1. peers[i] \in Peer /\ completions[i] \in Completion
    BY <1>1
  <2>2. completions[i].flags.id \in BufferId
    BY <2>1 DEF Completion, BufferFlags
  <2>3. BytesRead(i) \in Bytes
    BY <1>1, <2>2 DEF BytesRead, Bytes
  <2> QED
    BY <2>1, <2>3 DEF Chunk, Chunks
<1>3. All \in Seq(Chunks) /\ Len(All) = Len(completions) /\ \A i \in 1..Len(completions) : All[i] = Chunk(i)
  <2>1. All \in [1..Len(completions) -> Chunks] /\ Len(completions) \in Nat
    BY <1>1, <1>2 DEF All
  <2>2. \A i \in 1..Len(completions) : All[i] = Chunk(i)
    BY DEF All
  <2> QED
    BY <2>1, <2>2
<1>4. Later = IF serving THEN Tail(All) ELSE All
  BY DEF Later, All
<1>5. Later \in Seq(Chunks)
  <2>1. serving => All # <<>>
    BY <1>1, <1>3
  <2> QED
    BY <1>3, <1>4, <2>1
<1> QED
  BY <1>1, <1>2, <1>3, <1>4, <1>5

\* The bytes of a list of chunks that grows at its end or at its front.
LEMMA DataIs ==
  ASSUME NEW s \in Seq(Chunks), NEW e \in Chunks
  PROVE  /\ DataOf(s) \in Seq(Bytes)
         /\ DataOf(Append(s, e)) = Append(DataOf(s), e.data)
         /\ DataOf(<<e>> \o s) = <<e.data>> \o DataOf(s)
<1>1. \A x \in Chunks : x.data \in Bytes
  BY DEF Chunks
<1>2. DataOf(s) \in Seq(Bytes) /\ Len(DataOf(s)) = Len(s)
  BY <1>1 DEF DataOf
<1>3. DataOf(Append(s, e)) = Append(DataOf(s), e.data)
  BY <1>1, <1>2 DEF DataOf
<1>4. DataOf(<<e>> \o s) = <<e.data>> \o DataOf(s)
  BY <1>1, <1>2 DEF DataOf
<1> QED
  BY <1>2, <1>3, <1>4

\* Which chunks count as unread bytes of c.
LEMMA Counts ==
  ASSUME NEW e \in Chunks, NEW c \in Peer
  PROVE  e \in [peer : {c}, data : Data] <=> e.peer = c /\ e.data # NULL
  BY RSAssumption DEF Chunks, Bytes

\* One more completion.
LEMMA UnreadGrows ==
  ASSUME ReadInv, NEW e \in Chunks, Later' = Append(Later, e), NEW c \in Peer
  PROVE  Unread(c)' = IF e.peer = c /\ e.data # NULL THEN Append(Unread(c), e.data) ELSE Unread(c)
<1> DEFINE P == [peer : {c}, data : Data]
           s == Filter(Later, P)
<1>1. Later \in Seq(Chunks)
  BY AllTyped
<1>2. s \in Seq(Chunks)
  BY <1>1, FilterType
<1>3. Filter(Later', P) = IF e \in P THEN Append(s, e) ELSE s
  BY <1>1, FilterAppend
<1>4. DataOf(Append(s, e)) = Append(DataOf(s), e.data)
  BY <1>2, DataIs
<1>5. Unread(c)' = DataOf(Filter(Later', P)) /\ Unread(c) = DataOf(s)
  BY DEF Unread, DataOf
<1>6. e \in P <=> e.peer = c /\ e.data # NULL
  BY Counts
<1> HIDE DEF s, P
<1> QED
  BY <1>3, <1>4, <1>5, <1>6

\* One completion less.
LEMMA UnreadShrinks ==
  ASSUME ReadInv, Later # <<>>, Later' = Tail(Later), NEW c \in Peer
  PROVE  LET e == Head(Later) IN
           Unread(c) = IF e.peer = c /\ e.data # NULL THEN <<e.data>> \o Unread(c)' ELSE Unread(c)'
<1> DEFINE P == [peer : {c}, data : Data]
           s == Filter(Later', P)
<1>1. Later \in Seq(Chunks) /\ Later' \in Seq(Chunks)
  BY AllTyped
<1>2. PICK e \in Chunks : e = Head(Later)
  BY <1>1
<1>3. s \in Seq(Chunks)
  BY <1>1, FilterType
<1>4. Filter(Later, P) = IF e \in P THEN <<e>> \o s ELSE s
  BY <1>1, <1>2, FilterTail
<1>5. DataOf(<<e>> \o s) = <<e.data>> \o DataOf(s)
  BY <1>3, DataIs
<1>6. Unread(c) = DataOf(Filter(Later, P)) /\ Unread(c)' = DataOf(s)
  BY DEF Unread, DataOf
<1>7. e \in P <=> e.peer = c /\ e.data # NULL
  BY Counts
<1> HIDE DEF s, P
<1> QED
  BY <1>2, <1>4, <1>5, <1>6, <1>7

-----------------------------------------------------------------------------
(* The steps.                                                              *)

UnreadOf == [c \in Peer |-> Unread(c)]

\* The kernel selects a buffer no completion carries.
LEMMA SelectedIsFree ==
  ASSUME ReadInv, ~spurious, Available
  PROVE  \A i \in 1..Len(completions) :
           completions[i].res = 1 => completions[i].flags.id # Select
<1>1. khead \in Index /\ tail \in Index /\ registered /\ khead # tail
  BY DEF ReadInv, OwnInv, BRTypeOK, Available
<1>2. Ahead(tail, khead) \in 1 .. NBuffers
  <2>1. Ahead(tail, khead) <= NBuffers
    BY <1>1, WindowIs DEF ReadInv, OwnInv, OneOwner
  <2>2. Ahead(tail, khead) \in Nat /\ Ahead(tail, khead) # 0
    <3>1. PICK a, k, h : a = Ahead(tail, khead) /\ k = khead /\ h = tail
      OBVIOUS
    <3>2. a = IF h >= k THEN h - k ELSE h - k + TailMod
      BY <1>1, <3>1, AheadIs
    <3>3. h \in 0 .. TailMod - 1 /\ k \in 0 .. TailMod - 1 /\ h # k /\ TailMod \in Nat
      BY <1>1, <3>1, Constants
    <3>4. a \in Nat /\ a # 0
      BY <3>2, <3>3
    <3> QED
      BY <3>1, <3>4
  <2> QED
    BY <2>1, <2>2, Constants
<1>3. khead % NBuffers \in Window
  BY <1>1, <1>2, TakeEntry, WindowIs
<1>4. ASSUME NEW i \in 1..Len(completions), completions[i].res = 1
      PROVE  completions[i].flags.id # Select
  <2>1. i \in Carriers
    BY <1>4 DEF ReadInv, Filled, Carriers
  <2> QED
    BY <1>1, <1>3, <2>1 DEF ReadInv, OwnInv, OneOwner, Select
<1> QED
  BY <1>4

\* A completion is added: the earlier ones are unchanged.
LEMMA AllGrows ==
  ASSUME ReadInv, NEW k \in Completion, NEW c \in Peer,
         completions' = Append(completions, k), peers' = Append(peers, c), serving' = serving,
         \A i \in 1..Len(completions) :
           completions[i].res = 1 =>
             buffers'[completions[i].flags.id] = buffers[completions[i].flags.id]
  PROVE  /\ \A i \in 1..Len(completions) : Chunk(i)' = Chunk(i)
         /\ LET e == [peer |-> c, data |-> IF k.res = 1 THEN buffers'[k.flags.id] ELSE NULL] IN
              e \in Chunks => Later' = Append(Later, e)
<1> DEFINE e == [peer |-> c, data |-> IF k.res = 1 THEN buffers'[k.flags.id] ELSE NULL]
           n == Len(completions)
<1>1. /\ n \in Nat /\ Len(completions') = n + 1 /\ completions'[n + 1] = k /\ peers'[n + 1] = c
      /\ \A i \in 1..n : completions'[i] = completions[i] /\ peers'[i] = peers[i]
  BY AllTyped
<1>2. ASSUME NEW i \in 1..n PROVE Chunk(i)' = Chunk(i)
  BY <1>1, <1>2 DEF Chunk, BytesRead
<1>3. \A i \in 1..n + 1 : Chunk(i)' = IF i = n + 1 THEN e ELSE Chunk(i)
  <2>1. ASSUME NEW i, i = n + 1 PROVE Chunk(i)' = e
    BY <1>1, <2>1 DEF Chunk, BytesRead
  <2> HIDE DEF e
  <2> QED
    BY <1>1, <1>2, <2>1
<1> HIDE DEF e
<1>4. All' = [i \in 1..n + 1 |-> IF i = n + 1 THEN e ELSE Chunk(i)]
  BY <1>1, <1>3 DEF All
<1>5. /\ All \in Seq(Chunks) /\ Len(All) = n /\ \A i \in 1..n : All[i] = Chunk(i)
      /\ (serving => n # 0) /\ serving \in BOOLEAN
  BY AllTyped
<1>6. ASSUME e \in Chunks PROVE All' = Append(All, e)
  <2>1. \A i \in 1..n : Chunk(i) \in Chunks
    BY AllTyped
  <2>2. PICK a : a = [i \in 1..n + 1 |-> IF i = n + 1 THEN e ELSE Chunk(i)]
    OBVIOUS
  <2>3. a \in Seq(Chunks) /\ Len(a) = n + 1
    <3>1. a \in [1..n + 1 -> Chunks] /\ n + 1 \in Nat
      BY <1>1, <1>6, <2>1, <2>2
    <3> QED
      BY <3>1
  <2>4. a = Append(All, e)
    <3>1. PICK s \in Seq(Chunks) : s = All
      BY <1>5
    <3>2. Len(s) = n /\ \A i \in 1..n : a[i] = s[i]
      BY <1>1, <1>5, <2>2, <3>1
    <3>3. a[n + 1] = e
      BY <1>1, <2>2
    <3>4. a = Append(s, e)
      BY <1>1, <1>6, <2>3, <3>2, <3>3
    <3> QED
      BY <3>1, <3>4
  <2> QED
    BY <1>4, <2>2, <2>4
<1>7. Later' = (IF serving' THEN Tail(All') ELSE All') /\ Later = IF serving THEN Tail(All) ELSE All
  BY DEF Later, All
<1>8. ASSUME e \in Chunks PROVE Later' = Append(Later, e)
  <2>1. serving => Tail(Append(All, e)) = Append(Tail(All), e)
    BY <1>5, <1>8
  <2> QED
    BY <1>5, <1>6, <1>7, <1>8, <2>1
<1> QED
  BY <1>2, <1>8 DEF e

\* The kernel completes a read: the bytes of its peer, if any, are unread.
LEMMA ReadMultishotReads ==
  ASSUME ReadInv, ~spurious, NEW c \in Peer, NEW res \in {-1, 0, 1}, NEW flags \in BufferFlags,
         ReadMultishot(c, res, flags)
  PROVE  Filled' /\ (UNCHANGED <<UnreadOf, View>> \/ Stream!BSNext)
<1> DEFINE k == [res |-> res, flags |-> flags]
           e == [peer |-> c, data |-> IF res = 1 THEN buffers'[flags.id] ELSE NULL]
<1>1. /\ k \in Completion /\ k.res = res /\ k.flags = flags
      /\ completions' = Append(completions, k) /\ peers' = Append(peers, c)
      /\ serving' = serving /\ flags.id \in BufferId
  BY DEF ReadMultishot, Complete, Completion, BufferFlags
<1>2. /\ buffers' \in [BufferId -> Bytes]
      /\ res = 1 => flags.buffer /\ buffers'[flags.id] \in Data
      /\ \A i \in 1..Len(completions) :
           completions[i].res = 1 =>
             buffers'[completions[i].flags.id] = buffers[completions[i].flags.id]
  <2>1. CASE res = 1
    <3>1. Available /\ flags.id = Select /\ flags.buffer
      BY <2>1 DEF ReadMultishot, Complete, Outcome
    <3>2. PICK d \in Data : buffers' = [buffers EXCEPT ![Select] = d]
      BY <2>1 DEF ReadMultishot
    <3> QED
      BY <1>1, <2>1, <3>1, <3>2, AllTyped, SelectedIsFree DEF Bytes
  <2>2. CASE res # 1
    BY <2>2, AllTyped DEF ReadMultishot
  <2> QED
    BY <2>1, <2>2
<1>3. /\ \A i \in 1..Len(completions) : Chunk(i)' = Chunk(i)
      /\ e \in Chunks => Later' = Append(Later, e)
  BY <1>1, <1>2, AllGrows
<1>4. e \in Chunks /\ e.peer = c /\ (res # 1 => e.data = NULL) /\ (res = 1 => e.data \in Data)
  BY <1>2 DEF Chunks, Bytes
<1>5. Filled'
  <2> DEFINE n == Len(completions)
  <2>1. /\ n \in Nat /\ Len(completions') = n + 1 /\ completions'[n + 1] = k
        /\ peers' \in Seq(Peer) /\ Len(peers') = n + 1
        /\ \A i \in 1..n : completions'[i] = completions[i]
    BY <1>1, AllTyped
  <2>2. ASSUME NEW i \in 1..n + 1, completions'[i].res = 1
        PROVE  completions'[i].flags.buffer /\ buffers'[completions'[i].flags.id] \in Data
    <3>1. CASE i = n + 1
      BY <1>1, <1>2, <2>1, <2>2, <3>1
    <3>2. CASE i # n + 1
      <4>1. i \in 1..n
        BY <2>1, <3>2
      <4> QED
        BY <1>2, <2>1, <2>2, <4>1 DEF ReadInv, Filled
    <3> QED
      BY <3>1, <3>2
  <2> QED
    BY <1>2, <2>1, <2>2 DEF Filled
<1>6. View' = View
  <2>1. serving => 1 \in 1..Len(completions) /\ completions'[1] = completions[1]
    BY <1>1, AllTyped
  <2> QED
    BY <1>1, <1>3, <2>1 DEF View, Shown, Get, BufferId
<1> HIDE DEF e
<1>7. ASSUME NEW p \in Peer
      PROVE  Unread(p)' = IF p = c /\ res = 1 THEN Append(Unread(p), e.data) ELSE Unread(p)
  BY <1>3, <1>4, RSAssumption, UnreadGrows
<1>8. CASE res = 1
  <2>1. UnreadOf' = [UnreadOf EXCEPT ![c] = Append(@, e.data)]
    BY <1>7, <1>8 DEF UnreadOf
  <2>2. Stream!Received(c, e.data)
    BY <1>6, <2>1 DEF Stream!Received, UnreadOf
  <2> QED
    BY <1>4, <1>5, <1>8, <2>2 DEF Stream!BSNext
<1>9. CASE res # 1
  BY <1>5, <1>6, <1>7, <1>9 DEF UnreadOf
<1> QED
  BY <1>8, <1>9

\* A callback begins: what it is shown is no longer unread.
LEMMA OnReadReads ==
  ASSUME ReadInv, OnRead
  PROVE  Filled' /\ (UNCHANGED <<UnreadOf, View>> \/ Stream!BSNext)
<1>1. /\ completions # <<>> /\ serving = FALSE /\ serving' = TRUE /\ UNCHANGED <<completions, peers, buffers>>
  BY AllTyped DEF OnRead, Serve
<1>2. Filled'
  BY <1>1 DEF ReadInv, Filled
<1>3. \A i : Chunk(i)' = Chunk(i)
  BY <1>1 DEF Chunk, BytesRead
<1>4. All' = All
  BY <1>1, <1>3 DEF All
<1>5. /\ 1 \in 1..Len(completions) /\ All # <<>> /\ Head(All) = Chunk(1) /\ Chunk(1) \in Chunks
      /\ completions[1] \in Completion
  BY <1>1, AllTyped
<1>6. Later = All /\ Later' = Tail(Later)
  <2>1. Later' = IF serving' THEN Tail(All') ELSE All'
    BY DEF Later, All
  <2> QED
    BY <1>1, <1>4, <2>1, AllTyped
<1>7. PICK e \in Chunks : e = Chunk(1)
  BY <1>5
<1>8. ASSUME NEW p \in Peer
      PROVE  Unread(p) = IF e.peer = p /\ e.data # NULL THEN <<e.data>> \o Unread(p)' ELSE Unread(p)'
  BY <1>5, <1>6, <1>7, UnreadShrinks
<1>9. View = NULL /\ View' = IF e.data # NULL THEN e ELSE NULL
  <2>1. completions[1].res >= 0 /\ Get(completions[1].flags) <=> completions[1].res >= 0
    BY <1>5 DEF Get, Completion, BufferFlags
  <2>2. e.data # NULL <=> completions[1].res = 1
    BY <1>5, <1>7, RSAssumption DEF Chunk, BytesRead, ReadInv, Filled
  <2>3. View' = IF completions[1].res = 1 THEN e ELSE NULL
    BY <1>1, <1>3, <1>7, <2>1 DEF View, Shown, Get, BufferId
  <2> QED
    BY <1>1, <2>2, <2>3 DEF View
<1>10. CASE e.data = NULL
  BY <1>2, <1>8, <1>9, <1>10 DEF UnreadOf
<1>11. CASE e.data # NULL
  <2>1. PICK p \in Peer, d \in Data : p = e.peer /\ d = e.data /\ e = [peer |-> p, data |-> d]
    BY <1>11 DEF Chunks, Bytes
  <2>2. Unread(p)' \in Seq(Bytes)
    <3>1. Later' \in Seq(Chunks)
      BY <1>5, <1>6, AllTyped
    <3>2. Filter(Later', [peer : {p}, data : Data]) \in Seq(Chunks)
      BY <3>1, FilterType
    <3>3. DataOf(Filter(Later', [peer : {p}, data : Data])) \in Seq(Bytes)
      BY <3>2, DataIs
    <3> QED
      BY <3>3 DEF Unread, DataOf
  <2>3. Unread(p) = <<d>> \o Unread(p)'
    BY <1>8, <1>11, <2>1
  <2>4. PICK u \in Seq(Bytes) : u = Unread(p)'
    BY <2>2
  <2>5. Unread(p) # <<>> /\ Head(Unread(p)) = d /\ Unread(p)' = Tail(Unread(p))
    <3>1. d \in Bytes /\ <<d>> \o u # <<>> /\ Head(<<d>> \o u) = d /\ Tail(<<d>> \o u) = u
      BY <2>4 DEF Bytes
    <3> QED
      BY <2>3, <2>4, <3>1, Zenon
  <2>6. \A q \in Peer : q # p => Unread(q)' = Unread(q)
    BY <1>8, <2>1
  <2>7. UnreadOf' = [UnreadOf EXCEPT ![p] = Tail(@)]
    BY <2>5, <2>6 DEF UnreadOf
  <2>8. Stream!Show(p)
    BY <1>9, <1>11, <2>1, <2>5, <2>7 DEF Stream!Show, UnreadOf
  <2> QED
    BY <1>2, <2>8 DEF Stream!BSNext
<1> QED
  BY <1>10, <1>11

\* A callback returns: the completion goes, the unread ones stay.
LEMMA OnReadReturnsReads ==
  ASSUME ReadInv, OnReadReturns
  PROVE  Filled' /\ (UNCHANGED <<UnreadOf, View>> \/ Stream!BSNext)
<1>1. /\ serving = TRUE /\ serving' = FALSE /\ completions' = Tail(completions)
      /\ peers' = Tail(peers) /\ buffers' = buffers /\ completions # <<>>
  BY AllTyped DEF OnReadReturns, Served
<1> DEFINE n == Len(completions)
<1>2. /\ n \in Nat \ {0} /\ Len(completions') = n - 1 /\ Len(peers') = n - 1
      /\ peers' \in Seq(Peer)
      /\ \A i \in 1..n - 1 : completions'[i] = completions[i + 1] /\ peers'[i] = peers[i + 1]
      /\ \A i \in 1..n - 1 : i + 1 \in 1..n
  BY <1>1, AllTyped
<1>3. Filled'
  BY <1>1, <1>2 DEF ReadInv, Filled
<1>4. \A i \in 1..n - 1 : Chunk(i)' = Chunk(i + 1)
  BY <1>1, <1>2 DEF Chunk, BytesRead
<1>5. All' = [i \in 1..n - 1 |-> Chunk(i + 1)]
  BY <1>2, <1>4 DEF All
<1>6. PICK a : a = [i \in 1..n - 1 |-> Chunk(i + 1)]
  OBVIOUS
<1>7. PICK s \in Seq(Chunks) : s = All /\ Len(s) = n /\ \A i \in 1..n : s[i] = Chunk(i)
  BY AllTyped
<1>8. a \in Seq(Chunks) /\ Len(a) = n - 1
  <2>1. \A i \in 1..n - 1 : Chunk(i + 1) \in Chunks
    BY <1>2, AllTyped
  <2>2. a \in [1..n - 1 -> Chunks] /\ n - 1 \in Nat
    BY <1>2, <1>6, <2>1
  <2> QED
    BY <2>2
<1>9. a = Tail(s)
  <2>1. \A i \in 1..n - 1 : a[i] = s[i + 1]
    BY <1>2, <1>6, <1>7
  <2>2. Tail(s) \in Seq(Chunks) /\ Len(Tail(s)) = n - 1 /\ \A i \in 1..n - 1 : Tail(s)[i] = s[i + 1]
    BY <1>2, <1>7
  <2> QED
    BY <1>2, <1>8, <2>1, <2>2
<1>10. Later' = Later
  <2>1. Later' = IF serving' THEN Tail(All') ELSE All'
    BY DEF Later, All
  <2> QED
    BY <1>1, <1>5, <1>6, <1>7, <1>9, <2>1, AllTyped
<1>11. UnreadOf' = UnreadOf
  BY <1>10 DEF UnreadOf, Unread, DataOf
<1>12. View' = NULL
  BY <1>1 DEF View
<1>13. CASE View = NULL
  BY <1>3, <1>11, <1>12, <1>13
<1>14. CASE View # NULL
  BY <1>3, <1>11, <1>12, <1>14 DEF Stream!BSNext, Stream!Taken, UnreadOf
<1> QED
  BY <1>13, <1>14

\* Filled holds until an end of file has been released.
StreamInv == OwnInv /\ NoBufferInErrors /\ (~spurious => Filled)

LEMMA StreamStep ==
  ASSUME StreamInv, [RSNext]_rsvars
  PROVE  /\ StreamInv'
         /\ ~spurious' => UNCHANGED <<UnreadOf, View>> \/ Stream!BSNext
<1>1. OwnInv' /\ NoBufferInErrors' /\ BRTypeOK
  BY ReadsUseRing, OwnStep, ErrorsStep DEF StreamInv, OwnInv
<1> SUFFICES ASSUME ~spurious'
             PROVE  Filled' /\ (UNCHANGED <<UnreadOf, View>> \/ Stream!BSNext)
  BY <1>1 DEF StreamInv
<1>2. ~spurious
  BY <1>1, ReadsUseRing DEF BRNext, brvars, Complete, Serve, Served, BRTypeOK
<1>3. ReadInv
  BY <1>2 DEF StreamInv, ReadInv
<1>4. CASE UNCHANGED rsvars
  <2>1. UNCHANGED <<completions, peers, buffers, serving>>
    BY <1>4 DEF rsvars, brvars
  <2>2. Filled'
    BY <1>3, <2>1 DEF ReadInv, Filled
  <2>3. \A i : Chunk(i)' = Chunk(i)
    BY <2>1 DEF Chunk, BytesRead
  <2>4. Later' = Later
    BY <2>1, <2>3 DEF Later
  <2>5. UnreadOf' = UnreadOf
    BY <2>4 DEF UnreadOf, Unread, DataOf
  <2>6. View' = View
    BY <2>1, <2>3 DEF View, Shown, Get, BufferId
  <2> QED
    BY <2>2, <2>5, <2>6
<1> QED
  BY <1>2, <1>3, <1>4, ReadMultishotReads, OnReadReads, OnReadReturnsReads DEF RSNext

(* Connections that share the ring read as if each had a stream of its own: *)
(* in order, without loss or mixture, and what onRead looks at stays, until *)
(* an end of file has been released.                                        *)
THEOREM ConnectionsReadStreams == RSSpec => ReadsStream
<1>1. RSInit => StreamInv /\ Stream!BSInit
  <2> SUFFICES ASSUME RSInit PROVE StreamInv /\ Stream!BSInit
    OBVIOUS
  <2>1. /\ BRInit /\ completions = <<>> /\ peers = <<>> /\ serving = FALSE
        /\ buffers = [id \in BufferId |-> NULL]
    BY DEF RSInit, BRInit
  <2>2. StreamInv
    BY <2>1, OwnInit DEF StreamInv, NoBufferInErrors, Filled, Bytes
  <2>3. Later = <<>>
    BY <2>1 DEF Later
  <2>4. \A c \in Peer : Unread(c) = <<>>
    BY <2>3, FilterEmpty DEF Unread, DataOf
  <2>5. View = NULL
    BY <2>1 DEF View
  <2> QED
    BY <2>2, <2>4, <2>5 DEF Stream!BSInit
<1>2. StreamInv /\ [RSNext]_rsvars =>
        /\ StreamInv'
        /\ [~spurious' => UNCHANGED <<[c \in Peer |-> Unread(c)], View>> \/ Stream!BSNext]_rsvars
  BY StreamStep DEF UnreadOf
<1> QED
  BY <1>1, <1>2, PTL DEF RSSpec, ReadsStream
=============================================================================
