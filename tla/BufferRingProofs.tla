--------------------------- MODULE BufferRingProofs ---------------------------
(***************************************************************************)
(* Proofs about BufferRing, for any number of buffers, any width of the    *)
(* head and the tail, and any number of waiting completions.               *)
(***************************************************************************)
EXTENDS BufferRing, FiniteSetTheorems, TLAPS

LEMMA DivMod ==
  ASSUME NEW x \in Nat, NEW n \in Nat \ {0}
  PROVE  /\ x \div n \in Nat /\ x % n \in 0 .. n-1
         /\ x = n * (x \div n) + (x % n)
  BY SMT

LEMMA ModUnique ==
  ASSUME NEW q \in Int, NEW n \in Nat \ {0}, NEW r \in 0 .. n-1,
         NEW p \in Int, NEW s \in 0..n-1, n * q + r = n * p + s
  PROVE  r = s
  <1>1. CASE q = p BY <1>1, SMT
  <1>2. CASE q < p 
    <2>1. n * (p - q) >= n BY <1>2, SMT
    <2>2. n * (p - q) = n * p - n * q BY SMT
    <2> QED BY <2>1, <2>2, SMT
  <1>3. CASE q > p
    <2>1. n * (q - p) >= n BY <1>3, SMT
    <2>2. n * (q - p) = n * q - n * p BY SMT
    <2> QED BY <2>1, <2>2, SMT
  <1> QED BY <1>1, <1>2, <1>3, SMT

LEMMA ModIs ==
  ASSUME NEW x \in Int, NEW n \in Nat \ {0}, NEW q \in Int, NEW r \in 0..n-1, x = n * q + r
  PROVE  x % n = r
  <1>1. x \div n \in Int /\ x % n \in 0 .. n-1 /\ x = n * (x \div n) + (x % n)
    BY SMT
  <1> QED BY <1>1, ModUnique

LEMMA ModSum ==
  ASSUME NEW x \in Nat, NEW n \in Nat \ {0}, NEW i \in 0 .. n
  PROVE  (x + i) % n = IF (x % n) + i < n THEN (x % n) + i ELSE (x % n) + i - n
<1>1. PICK q \in Nat, r \in 0 .. n - 1 : x = n * q + r /\ x % n = r
  BY DivMod
<1>2. CASE r + i < n
  <2>1. x + i = n * q + (r + i)
    BY <1>1
  <2>2. r + i \in 0 .. n - 1 /\ x + i \in Int /\ q \in Int
    BY <1>2
  <2>3. (x + i) % n = r + i
    BY <2>1, <2>2, ModIs
  <2> QED
    BY <1>1, <1>2, <2>3
<1>3. CASE ~(r + i < n)
  <2>1. n * (q + 1) = n * q + n
    OBVIOUS
  <2>2. r + i - n \in 0 .. n - 1 /\ x + i \in Int /\ q + 1 \in Int /\ n * q \in Int
    BY <1>3
  <2>3. x + i = n * (q + 1) + (r + i - n)
    BY <1>1, <2>1, <2>2
  <2>4. (x + i) % n = r + i - n
    BY <2>2, <2>3, ModIs
  <2> QED
    BY <1>1, <1>3, <2>4
<1> QED
  BY <1>2, <1>3
LEMMA ModRange ==
  ASSUME NEW x \in Nat, NEW n \in Nat \ {0}
  PROVE  x % n \in 0 .. n - 1
  BY SMT

LEMMA BRTypeInit == BRInit => BRTypeOK
  BY BRAssumption DEF BRInit, BRTypeOK, BufferId, Index

LEMMA BRTypeStep == BRTypeOK /\ [BRNext]_brvars => BRTypeOK'
<1> SUFFICES ASSUME BRTypeOK, [BRNext]_brvars PROVE BRTypeOK'
  OBVIOUS
<1>1. /\ NBuffers \in Nat \ {0} /\ TailMod \in Nat \ {0}
      /\ (khead + 1) % TailMod \in Index /\ (tail + 1) % TailMod \in Index
      /\ tail % NBuffers \in BufferId
  <2>1. NBuffers \in Nat \ {0} /\ TailMod \in Nat \ {0} /\ khead \in Nat /\ tail \in Nat
    BY BRAssumption DEF BRTypeOK, Index
  <2> QED
    BY <2>1, ModRange DEF Index, BufferId
<1>2. ASSUME NEW res \in {-1, 0, 1}, NEW flags \in BufferFlags, Complete(res, flags)
      PROVE  BRTypeOK'
  <2>1. [res |-> res, flags |-> flags] \in Completion
    BY DEF Completion
  <2>2. completions' \in Seq(Completion) /\ completions' # <<>>
    BY <1>2, <2>1 DEF Complete, BRTypeOK
  <2>3. /\ registered' \in BOOLEAN /\ slots' \in [BufferId -> BufferId]
        /\ khead' \in Index /\ tail' \in Index
    BY <1>1, <1>2 DEF Complete, Selected, BRTypeOK
  <2> QED
    BY <1>2, <2>2, <2>3 DEF Complete, BRTypeOK
<1>3. CASE Serve
  BY <1>3 DEF Serve, BRTypeOK
<1>4. CASE Served
  <2>1. Head(completions) \in Completion /\ Tail(completions) \in Seq(Completion)
    BY <1>4 DEF Served, BRTypeOK
  <2>2. Head(completions).flags.id \in BufferId /\ Head(completions).flags.buffer \in BOOLEAN
    BY <2>1 DEF Completion, BufferFlags
  <2>3. CASE Shown(Head(completions))
    <3>1. /\ ReleaseBuffer(Head(completions).flags)
          /\ spurious' = (spurious \/ ~Head(completions).flags.buffer)
          /\ completions' = Tail(completions) /\ serving' = FALSE
      BY <1>4, <2>3 DEF Served
    <3>2. slots' \in [BufferId -> BufferId] /\ tail' \in Index
      BY <1>1, <2>2, <3>1 DEF ReleaseBuffer, BRTypeOK
    <3>3. spurious' \in BOOLEAN
      BY <3>1
    <3> QED
      BY <2>1, <3>1, <3>2, <3>3 DEF ReleaseBuffer, BRTypeOK
  <2>4. CASE ~Shown(Head(completions))
    BY <1>4, <2>1, <2>4 DEF Served, BRTypeOK
  <2> QED
    BY <2>3, <2>4
<1>5. CASE UNCHANGED brvars
  BY <1>5 DEF brvars, BRTypeOK
<1> QED
  BY <1>2, <1>3, <1>4, <1>5 DEF BRNext

(* Every variable keeps its type; in particular head and tail wrap around   *)
(* within their width and release() writes inside the ring.                 *)
THEOREM BRTypeCorrect == BRSpec => []BRTypeOK
  BY BRTypeInit, BRTypeStep, PTL DEF BRSpec

-----------------------------------------------------------------------------

LEMMA RingStep ==
  BRTypeOK /\ RingBeforeBuffers /\ [BRNext]_brvars => RingBeforeBuffers'
<1> SUFFICES ASSUME BRTypeOK, RingBeforeBuffers, [BRNext]_brvars, ~registered'
             PROVE  \A i \in 1..Len(completions') : ~Shown(completions'[i])
  BY DEF RingBeforeBuffers, Shown, Get
<1>1. ~registered /\ \A i \in 1..Len(completions) : ~Shown(completions[i])
  <2>1. registered' = registered
    BY DEF BRNext, brvars, Complete, Selected, Serve, Served, ReleaseBuffer
  <2> QED
    BY <2>1 DEF RingBeforeBuffers
<1>2. completions \in Seq(Completion)
  BY DEF BRTypeOK
<1>3. ASSUME NEW res \in {-1, 0, 1}, NEW flags \in BufferFlags, Complete(res, flags)
      PROVE  \A i \in 1..Len(completions') : ~Shown(completions'[i])
  <2> DEFINE c == [res |-> res, flags |-> flags]
  <2>1. c \in Completion
    BY DEF Completion
  <2>2. ~Shown(c)
    BY <1>1, <1>3 DEF Complete, Outcome, Available, Shown
  <2>3. completions' = Append(completions, c)
    BY <1>3 DEF Complete
  <2> HIDE DEF c
  <2> QED
    BY <1>1, <1>2, <2>1, <2>2, <2>3
<1>4. CASE Serve
  BY <1>1, <1>4 DEF Serve
<1>5. CASE Served
  <2>1. completions' = Tail(completions) /\ completions # <<>>
    BY <1>5 DEF Served, BRTypeOK
  <2> QED
    BY <1>1, <1>2, <2>1
<1>6. CASE UNCHANGED brvars
  BY <1>1, <1>6 DEF brvars
<1> QED
  BY <1>3, <1>4, <1>5, <1>6 DEF BRNext

(* When io_uring_setup_buf_ring has failed, no subscriber is ever shown a   *)
(* buffer and release(), which would dereference the missing ring, is never *)
(* called.                                                                  *)
THEOREM NoBufferWithoutRing == BRSpec => []RingBeforeBuffers
<1>1. BRInit => RingBeforeBuffers
  BY DEF BRInit, RingBeforeBuffers
<1> QED
  BY <1>1, BRTypeInit, BRTypeStep, RingStep, PTL DEF BRSpec
-----------------------------------------------------------------------------
(* The entries of the ring.                                                *)

\* The entry i places after the index k.
Entry(k, i) == (k + i) % NBuffers

\* The index after k.
After(k) == (k + 1) % TailMod

LEMMA Constants ==
  /\ NBuffers \in Nat \ {0} /\ TailMod \in Nat \ {0} /\ NBuffers < TailMod
  /\ Index \subseteq Nat /\ Index = 0 .. TailMod - 1 /\ BufferId = 0 .. NBuffers - 1
  BY BRAssumption DEF Index, BufferId

\* An index of an entry, brought back into the ring.
Wrap(x) == IF x < NBuffers THEN x ELSE x - NBuffers

LEMMA EntryIs ==
  ASSUME NEW k \in Nat
  PROVE  \E r \in BufferId :
           r = k % NBuffers /\ \A i \in 0 .. NBuffers : Entry(k, i) = Wrap(r + i)
<1>1. PICK r \in BufferId : r = k % NBuffers
  BY Constants, DivMod
<1>2. ASSUME NEW i \in 0 .. NBuffers
      PROVE  Entry(k, i) = Wrap(r + i)
  <2>1. (k + i) % NBuffers = IF r + i < NBuffers THEN r + i ELSE r + i - NBuffers
    BY <1>1, Constants, ModSum
  <2> QED
    BY <2>1, Constants DEF Entry, Wrap
<1> QED
  BY <1>1, <1>2

LEMMA SuccessorIs ==
  ASSUME NEW k \in Index
  PROVE  /\ After(k) \in Index
         /\ After(k) = IF k + 1 = TailMod THEN 0 ELSE k + 1
         /\ After(k) % NBuffers = Entry(k, 1)
<1>1. CASE k + 1 = TailMod
  <2>1. k + 1 = TailMod * 1 + 0 /\ 0 = NBuffers * 0 + 0
    BY <1>1, Constants
  <2>2. (k + 1) % TailMod = 0
    BY <2>1, Constants, ModIs
  <2>3. 0 % NBuffers = 0
    BY <2>1, Constants, ModIs
  <2> QED
    BY <1>1, <2>2, <2>3, Constants, BRAssumption DEF After, Entry
<1>2. CASE k + 1 # TailMod
  <2>1. k + 1 = TailMod * 0 + (k + 1) /\ k + 1 \in 0 .. TailMod - 1
    BY <1>2, Constants
  <2>2. (k + 1) % TailMod = k + 1
    BY <2>1, Constants, ModIs
  <2> QED
    BY <1>2, <2>1, <2>2, Constants DEF After, Entry
<1> QED
  BY <1>1, <1>2

LEMMA EntryAfter ==
  ASSUME NEW k \in Index, NEW i \in 0 .. NBuffers - 1
  PROVE  Entry(After(k), i) = Entry(k, i + 1)
<1>1. After(k) \in Nat /\ k \in Nat /\ NBuffers \in Nat \ {0}
  BY SuccessorIs, Constants
<1>2. After(k) % NBuffers = Entry(k, 1)
  BY SuccessorIs
<1>3. PICK r \in BufferId : \A j \in 0 .. NBuffers : Entry(k, j) = Wrap(r + j)
  BY <1>1, EntryIs
<1>4. PICK s \in BufferId :
        s = Entry(k, 1) /\ \A j \in 0 .. NBuffers : Entry(After(k), j) = Wrap(s + j)
  BY <1>1, <1>2, EntryIs
<1>5. Entry(k, 1) = Wrap(r + 1) /\ Entry(k, i + 1) = Wrap(r + (i + 1))
  BY <1>1, <1>3
<1>6. Entry(After(k), i) = Wrap(s + i)
  BY <1>1, <1>4
<1> QED
  BY <1>1, <1>4, <1>5, <1>6 DEF Wrap, BufferId

LEMMA EntryInjective ==
  ASSUME NEW k \in Nat, NEW i \in 0 .. NBuffers - 1, NEW j \in 0 .. NBuffers - 1
  PROVE  Entry(k, i) \in BufferId /\ (Entry(k, i) = Entry(k, j) => i = j)
<1>1. PICK r \in BufferId : \A l \in 0 .. NBuffers : Entry(k, l) = Wrap(r + l)
  BY EntryIs
<1>2. Entry(k, i) = Wrap(r + i) /\ Entry(k, j) = Wrap(r + j)
  BY <1>1, Constants
<1> QED
  BY <1>2, Constants DEF Wrap

\* How far the index t is ahead of k.
Ahead(t, k) == (t - k) % TailMod

LEMMA AheadIs ==
  ASSUME NEW t \in Index, NEW k \in Index
  PROVE  /\ Ahead(t, k) = IF t >= k THEN t - k ELSE t - k + TailMod
         /\ Ahead(t, k) \in Index
<1>1. t \in Int /\ k \in Int /\ t - k \in Int /\ TailMod \in Nat \ {0} /\ -1 \in Int /\ 0 \in Int
  BY Constants
<1>2. CASE t >= k
  <2>1. t - k = TailMod * 0 + (t - k) /\ t - k \in 0 .. TailMod - 1
    BY <1>2, <1>1, Constants
  <2>2. (t - k) % TailMod = t - k
    BY <1>1, <2>1, ModIs
  <2> QED
    BY <1>2, <2>1, <2>2, Constants DEF Ahead
<1>3. CASE ~(t >= k)
  <2>1. t - k = TailMod * (-1) + (t - k + TailMod) /\ t - k + TailMod \in 0 .. TailMod - 1
    BY <1>3, <1>1, Constants
  <2>2. (t - k) % TailMod = t - k + TailMod
    BY <1>1, <2>1, ModIs
  <2> QED
    BY <1>3, <2>1, <2>2, Constants DEF Ahead
<1> QED
  BY <1>2, <1>3


\* The entries the kernel sees when its head is k and the tail t.
WindowOf(k, t) == {Entry(k, i) : i \in 0 .. Ahead(t, k) - 1}

\* The kernel takes the entry at its head.
LEMMA TakeEntry ==
  ASSUME NEW k \in Index, NEW t \in Index, Ahead(t, k) \in 1 .. NBuffers
  PROVE  /\ Ahead(t, After(k)) = Ahead(t, k) - 1
         /\ Entry(After(k), Ahead(t, k) - 1) = Entry(k, Ahead(t, k))
         /\ k % NBuffers \in BufferId /\ k % NBuffers \notin WindowOf(After(k), t)
         /\ WindowOf(k, t) = WindowOf(After(k), t) \cup {k % NBuffers}
<1> DEFINE d == Ahead(t, k)
<1>1. After(k) \in Index /\ After(k) \in Nat /\ k \in Nat /\ d \in 1 .. NBuffers /\ NBuffers \in Nat
  BY SuccessorIs, Constants
<1>2. Ahead(t, After(k)) = d - 1
  <2>1. After(k) = IF k + 1 = TailMod THEN 0 ELSE k + 1
    BY SuccessorIs
  <2>2. d = IF t >= k THEN t - k ELSE t - k + TailMod
    BY AheadIs
  <2>3. Ahead(t, After(k)) = IF t >= After(k) THEN t - After(k) ELSE t - After(k) + TailMod
    BY <1>1, AheadIs
  <2> HIDE DEF d
  <2> QED
    BY <1>1, <2>1, <2>2, <2>3, Constants
<1>3. k % NBuffers = Entry(k, 0)
  BY <1>1 DEF Entry
<1>4. \A i \in 0 .. d - 1 : Entry(After(k), i) = Entry(k, i + 1)
  BY <1>1, EntryAfter
<1>5. \A i, j \in 0 .. NBuffers - 1 :
        Entry(k, i) \in BufferId /\ (Entry(k, i) = Entry(k, j) => i = j)
  BY <1>1, EntryInjective
<1> HIDE DEF d
<1>6. WindowOf(After(k), t) = {Entry(k, i + 1) : i \in 0 .. d - 2}
  <2>1. WindowOf(After(k), t) = {Entry(After(k), i) : i \in 0 .. (d - 1) - 1}
    BY <1>2 DEF WindowOf
  <2> QED
    BY <1>1, <1>4, <2>1
<1>7. WindowOf(k, t) = {Entry(k, i) : i \in 0 .. d - 1}
  BY DEF WindowOf, d
<1>8. \A i \in 0 .. d - 1 : i = 0 \/ (i - 1 \in 0 .. d - 2 /\ i = (i - 1) + 1)
  BY <1>1
<1>9. \A i \in 0 .. d - 2 : i + 1 \in 0 .. d - 1
  BY <1>1
<1>10. 0 \in 0 .. d - 1
  BY <1>1
<1>11. Entry(k, 0) \notin WindowOf(After(k), t)
  BY <1>1, <1>5, <1>6
<1>12. WindowOf(k, t) = WindowOf(After(k), t) \cup {Entry(k, 0)}
  BY <1>6, <1>7, <1>8, <1>9, <1>10
<1> QED
  BY <1>1, <1>2, <1>3, <1>4, <1>5, <1>11, <1>12 DEF d

\* The application adds an entry at the tail.
LEMMA AddEntry ==
  ASSUME NEW k \in Index, NEW t \in Index, Ahead(t, k) \in 0 .. NBuffers - 1,
         t % NBuffers = Entry(k, Ahead(t, k))
  PROVE  /\ Ahead(After(t), k) = Ahead(t, k) + 1
         /\ After(t) % NBuffers = Entry(k, Ahead(t, k) + 1)
         /\ t % NBuffers \in BufferId /\ t % NBuffers \notin WindowOf(k, t)
         /\ WindowOf(k, After(t)) = WindowOf(k, t) \cup {t % NBuffers}
<1> DEFINE d == Ahead(t, k)
<1>1. k \in Nat /\ t \in Nat /\ d \in 0 .. NBuffers - 1 /\ NBuffers \in Nat \ {0}
  BY Constants
<1>2. Ahead(After(t), k) = d + 1
  <2>1. After(t) \in Index /\ After(t) = IF t + 1 = TailMod THEN 0 ELSE t + 1
    BY SuccessorIs
  <2>2. d = IF t >= k THEN t - k ELSE t - k + TailMod
    BY AheadIs
  <2>3. Ahead(After(t), k) = IF After(t) >= k THEN After(t) - k ELSE After(t) - k + TailMod
    BY <2>1, AheadIs
  <2> HIDE DEF d
  <2> QED
    BY <1>1, <2>1, <2>2, <2>3, Constants
<1>3. \A i, j \in 0 .. NBuffers - 1 :
        Entry(k, i) \in BufferId /\ (Entry(k, i) = Entry(k, j) => i = j)
  BY <1>1, EntryInjective
<1>4. After(t) % NBuffers = Entry(k, d + 1)
  <2>1. After(t) % NBuffers = Entry(t, 1)
    BY SuccessorIs
  <2>2. PICK r \in BufferId : \A j \in 0 .. NBuffers : Entry(k, j) = Wrap(r + j)
    BY <1>1, EntryIs
  <2>3. PICK s \in BufferId :
          s = t % NBuffers /\ \A j \in 0 .. NBuffers : Entry(t, j) = Wrap(s + j)
    BY <1>1, EntryIs
  <2>4. s = Wrap(r + d) /\ Entry(k, d + 1) = Wrap(r + (d + 1)) /\ Entry(t, 1) = Wrap(s + 1)
    BY <1>1, <2>2, <2>3
  <2> HIDE DEF d
  <2> QED
    BY <1>1, <2>1, <2>4 DEF Wrap, BufferId
<1> HIDE DEF d
<1>5. WindowOf(k, t) = {Entry(k, i) : i \in 0 .. d - 1}
  BY DEF WindowOf, d
<1>6. WindowOf(k, After(t)) = {Entry(k, i) : i \in 0 .. d}
  <2>1. WindowOf(k, After(t)) = {Entry(k, i) : i \in 0 .. (d + 1) - 1}
    BY <1>2 DEF WindowOf
  <2> QED
    BY <1>1, <2>1
<1>7. t % NBuffers = Entry(k, d)
  BY DEF d
<1>8. Entry(k, d) \notin WindowOf(k, t)
  BY <1>1, <1>3, <1>5
<1>9. 0 .. d = 0 .. d - 1 \cup {d}
  BY <1>1
<1>10. WindowOf(k, After(t)) = WindowOf(k, t) \cup {Entry(k, d)}
  BY <1>5, <1>6, <1>9
<1> QED
  BY <1>1, <1>2, <1>3, <1>4, <1>7, <1>8, <1>10 DEF d

\* When the ring is full every entry is in the window.
LEMMA FullWindow ==
  ASSUME NEW k \in Index, NEW t \in Index, Ahead(t, k) = NBuffers
  PROVE  WindowOf(k, t) = BufferId
<1>1. k \in Nat /\ NBuffers \in Nat \ {0}
  BY Constants
<1>2. PICK r \in BufferId : \A j \in 0 .. NBuffers : Entry(k, j) = Wrap(r + j)
  BY <1>1, EntryIs
<1>3. ASSUME NEW b \in BufferId
      PROVE  \E i \in 0 .. NBuffers - 1 : Entry(k, i) = b
  <2>1. CASE b >= r
    <3>1. b - r \in 0 .. NBuffers - 1 /\ b - r \in 0 .. NBuffers /\ Wrap(r + (b - r)) = b
      BY <1>1, <2>1 DEF Wrap, BufferId
    <3> QED
      BY <1>2, <3>1
  <2>2. CASE ~(b >= r)
    <3>1. /\ b - r + NBuffers \in 0 .. NBuffers - 1 /\ b - r + NBuffers \in 0 .. NBuffers
          /\ Wrap(r + (b - r + NBuffers)) = b
      BY <1>1, <2>2 DEF Wrap, BufferId
    <3> QED
      BY <1>2, <3>1
  <2> QED
    BY <2>1, <2>2
<1>4. \A i \in 0 .. NBuffers - 1 : Entry(k, i) \in BufferId
  BY <1>1, EntryInjective
<1> QED
  BY <1>3, <1>4 DEF WindowOf
-----------------------------------------------------------------------------
(* OneOwner and NoBufferLost.                                              *)

\* The kernel's head and the tail designate the two ends of the window.
Aligned == ~spurious /\ registered => tail % NBuffers = Entry(khead, Ahead(tail, khead))

OwnInv == BRTypeOK /\ OneOwner /\ NoBufferLost /\ Aligned

LEMMA WindowIs == Depth = Ahead(tail, khead) /\ Window = WindowOf(khead, tail)
  BY DEF Depth, Window, Ahead, WindowOf, Entry

LEMMA OwnInit == BRInit => OwnInv
<1> SUFFICES ASSUME BRInit, registered PROVE OwnInv
  BY BRTypeInit DEF OwnInv, OneOwner, NoBufferLost, Aligned
<1>1. khead = 0 /\ tail = NBuffers /\ completions = <<>> /\ slots = [i \in BufferId |-> i]
  BY DEF BRInit
<1>2. khead \in Index /\ tail \in Index
  BY BRTypeInit DEF BRTypeOK
<1>3. Ahead(tail, khead) = NBuffers
  BY <1>1, <1>2, AheadIs, Constants
<1>4. Window = BufferId /\ Depth = NBuffers
  BY <1>2, <1>3, FullWindow, WindowIs
<1>5. Carriers = {}
  BY <1>1 DEF Carriers
<1>6. tail % NBuffers = Entry(khead, Ahead(tail, khead))
  BY <1>1, <1>3, Constants DEF Entry
<1> QED
  BY <1>1, <1>4, <1>5, <1>6, BRTypeInit, Constants DEF OwnInv, OneOwner, NoBufferLost, Aligned

\* The kernel uses up the buffer at the head: it goes to a completion.
LEMMA OwnFill ==
  ASSUME OwnInv, ~spurious, registered, BRTypeOK', NEW c \in Completion,
         Available, c.flags.buffer, c.flags.id = Select, Selected,
         completions' = Append(completions, c), UNCHANGED spurious
  PROVE  OwnInv'
<1>1. /\ khead \in Index /\ tail \in Index /\ slots \in [BufferId -> BufferId]
      /\ completions \in Seq(Completion)
  BY DEF OwnInv, BRTypeOK
<1>2. khead' = After(khead) /\ tail' = tail /\ slots' = slots /\ registered'
  BY DEF Selected, After
<1> DEFINE d == Ahead(tail, khead)
           h == khead % NBuffers
<1>3. d \in 1 .. NBuffers
  <2>1. d \in Index /\ d = IF tail >= khead THEN tail - khead ELSE tail - khead + TailMod
    BY <1>1, AheadIs
  <2>2. d <= NBuffers
    BY WindowIs DEF OwnInv, OneOwner
  <2>3. khead # tail
    BY DEF Available
  <2> HIDE DEF d
  <2> QED
    BY <1>1, <2>1, <2>2, <2>3, Constants
<1>4. /\ Depth' = d - 1 /\ Depth' <= NBuffers
      /\ Entry(khead', Ahead(tail', khead')) = Entry(khead, d)
      /\ h \in BufferId /\ h \notin Window' /\ Window = Window' \cup {h}
  <2>1. /\ Ahead(tail, After(khead)) = d - 1
        /\ Entry(After(khead), d - 1) = Entry(khead, d)
        /\ h \in BufferId /\ h \notin WindowOf(After(khead), tail)
        /\ WindowOf(khead, tail) = WindowOf(After(khead), tail) \cup {h}
    BY <1>1, <1>3, TakeEntry
  <2>2. Depth' = Ahead(tail', khead') /\ Window' = WindowOf(khead', tail')
    BY DEF Depth, Window, Ahead, WindowOf, Entry
  <2>3. d - 1 <= NBuffers
    BY <1>3, Constants
  <2> QED
    BY <1>2, <2>1, <2>2, <2>3, WindowIs
<1> HIDE DEF d
<1>5. c.flags.id = slots[h]
  BY DEF Select
<1> HIDE DEF h
<1> DEFINE n == Len(completions) + 1
<1>6. /\ Carriers' = Carriers \cup {n} /\ n \notin Carriers
      /\ \A i \in Carriers : completions'[i] = completions[i]
      /\ completions'[n] = c
  BY <1>1 DEF Carriers
<1> HIDE DEF n
<1>7. /\ \A i, j \in Window : slots[i] = slots[j] => i = j
      /\ \A i, j \in Carriers :
           completions[i].flags.id = completions[j].flags.id => i = j
      /\ \A i \in Window, j \in Carriers : slots[i] # completions[j].flags.id
      /\ \A id \in BufferId : \/ \E i \in Window : slots[i] = id
                              \/ \E j \in Carriers : completions[j].flags.id = id
      /\ tail % NBuffers = Entry(khead, d)
  BY DEF OwnInv, OneOwner, NoBufferLost, Aligned, d
<1>8. OneOwner'
  <2>1. \A i, j \in Window' : slots'[i] = slots'[j] => i = j
    BY <1>2, <1>4, <1>7
  <2>2. \A i, j \in Carriers' : completions'[i].flags.id = completions'[j].flags.id => i = j
    <3>1. \A i \in Carriers : completions[i].flags.id # completions'[n].flags.id
      BY <1>4, <1>5, <1>6, <1>7
    <3> SUFFICES ASSUME NEW i \in Carriers', NEW j \in Carriers',
                        completions'[i].flags.id = completions'[j].flags.id
                 PROVE  i = j
      OBVIOUS
    <3>2. CASE i \in Carriers /\ j \in Carriers
      <4>1. completions[i].flags.id = completions[j].flags.id
        BY <1>6, <3>2
      <4> QED
        BY <1>7, <3>2, <4>1
    <3>3. CASE i = n \/ j = n
      BY <1>6, <3>1, <3>3
    <3> QED
      BY <1>6, <3>2, <3>3
  <2>3. \A i \in Window', j \in Carriers' : slots'[i] # completions'[j].flags.id
    <3>1. \A i \in Window' : i \in Window /\ slots[i] # completions'[n].flags.id
      BY <1>4, <1>5, <1>6, <1>7
    <3>2. \A i \in Window', j \in Carriers : slots[i] # completions'[j].flags.id
      <4> SUFFICES ASSUME NEW i \in Window', NEW j \in Carriers
                   PROVE  slots[i] # completions[j].flags.id
        BY <1>6
      <4> QED
        BY <1>7, <3>1
    <3> QED
      BY <1>2, <1>6, <3>1, <3>2
  <2> QED
    BY <1>4, <2>1, <2>2, <2>3 DEF OneOwner
<1>9. NoBufferLost'
  <2> SUFFICES ASSUME NEW id \in BufferId
               PROVE  \/ \E i \in Window' : slots'[i] = id
                      \/ \E j \in Carriers' : completions'[j].flags.id = id
    BY DEF NoBufferLost
  <2>1. CASE \E i \in Window : slots[i] = id
    BY <1>2, <1>4, <1>5, <1>6, <2>1
  <2>2. CASE \E j \in Carriers : completions[j].flags.id = id
    BY <1>6, <2>2
  <2> QED
    BY <1>7, <2>1, <2>2
<1>10. Aligned'
  BY <1>2, <1>4, <1>7 DEF Aligned
<1> QED
  BY <1>8, <1>9, <1>10 DEF OwnInv

\* release() gives back the buffer of the oldest completion.
LEMMA OwnRelease ==
  ASSUME OwnInv, ~spurious, registered, BRTypeOK', completions # <<>>,
         Head(completions).flags.buffer, ReleaseBuffer(Head(completions).flags),
         completions' = Tail(completions), UNCHANGED spurious
  PROVE  OwnInv'
<1>1. /\ khead \in Index /\ tail \in Index /\ slots \in [BufferId -> BufferId]
      /\ completions \in Seq(Completion)
  BY DEF OwnInv, BRTypeOK
<1> DEFINE id0 == completions[1].flags.id
           d == Ahead(tail, khead)
           t == tail % NBuffers
<1>2. /\ khead' = khead /\ tail' = After(tail) /\ registered'
      /\ slots' = [slots EXCEPT ![t] = id0]
  <2>1. Head(completions) = completions[1]
    BY <1>1
  <2> QED
    BY <2>1 DEF ReleaseBuffer, After
<1>3. /\ \A i, j \in Window : slots[i] = slots[j] => i = j
      /\ \A i, j \in Carriers :
           completions[i].flags.id = completions[j].flags.id => i = j
      /\ \A i \in Window, j \in Carriers : slots[i] # completions[j].flags.id
      /\ \A id \in BufferId : \/ \E i \in Window : slots[i] = id
                              \/ \E j \in Carriers : completions[j].flags.id = id
      /\ t = Entry(khead, d) /\ Depth <= NBuffers
  BY DEF OwnInv, OneOwner, NoBufferLost, Aligned
<1>4. 1 \in Carriers /\ id0 \in BufferId
  <2>1. 1 \in 1 .. Len(completions) /\ Head(completions) = completions[1] /\ completions[1] \in Completion
    BY <1>1
  <2> QED
    BY <2>1 DEF Carriers, Completion, BufferFlags
<1>5. d \in 0 .. NBuffers - 1
  <2>1. d \in Index /\ d <= NBuffers
    BY <1>1, <1>3, AheadIs, WindowIs
  <2>2. ASSUME d = NBuffers PROVE FALSE
    <3>1. Window = BufferId
      BY <1>1, <2>2, FullWindow, WindowIs
    <3>2. slots \in Injection(BufferId, BufferId)
      BY <1>1, <1>3, <3>1 DEF Injection, IsInjective
    <3>3. IsFiniteSet(BufferId)
      BY FS_Interval, Constants
    <3>4. slots \in Surjection(BufferId, BufferId)
      BY <3>2, <3>3, FS_Injection
    <3> QED
      BY <1>3, <1>4, <3>1, <3>4 DEF Surjection
  <2> HIDE DEF d
  <2> QED
    BY <2>1, <2>2, Constants
<1>6. /\ Depth' = d + 1 /\ Depth' <= NBuffers
      /\ tail' % NBuffers = Entry(khead', Ahead(tail', khead'))
      /\ t \in BufferId /\ t \notin Window /\ Window' = Window \cup {t}
  <2>1. /\ Ahead(After(tail), khead) = d + 1
        /\ After(tail) % NBuffers = Entry(khead, d + 1)
        /\ t \in BufferId /\ t \notin WindowOf(khead, tail)
        /\ WindowOf(khead, After(tail)) = WindowOf(khead, tail) \cup {t}
    BY <1>1, <1>3, <1>5, AddEntry
  <2>2. Depth' = Ahead(tail', khead') /\ Window' = WindowOf(khead', tail')
    BY DEF Depth, Window, Ahead, WindowOf, Entry
  <2>3. d + 1 <= NBuffers
    BY <1>5, Constants
  <2> QED
    BY <1>2, <2>1, <2>2, <2>3, WindowIs
<1>7. /\ \A i \in Carriers' : i \in Nat /\ i + 1 \in Carriers /\ i + 1 # 1 /\ completions'[i] = completions[i + 1]
      /\ \A i \in Carriers : i \in Nat /\ (i # 1 => i - 1 \in Carriers' /\ completions'[i - 1] = completions[i])
  BY <1>1 DEF Carriers
<1>8. slots'[t] = id0 /\ \A i \in Window : slots'[i] = slots[i]
  <2>1. Window \subseteq BufferId
    <3>1. khead \in Nat /\ \A i \in 0 .. d - 1 : i \in 0 .. NBuffers - 1
      BY <1>1, <1>5, Constants
    <3>2. \A i \in 0 .. d - 1 : Entry(khead, i) \in BufferId
      BY <3>1, EntryInjective
    <3> QED
      BY <3>2, WindowIs DEF WindowOf
  <2> QED
    BY <1>1, <1>2, <1>6, <2>1
<1> HIDE DEF d, t, id0
<1>9. OneOwner'
  <2>1. \A i, j \in Window' : slots'[i] = slots'[j] => i = j
    <3>1. \A i \in Window : slots[i] # id0
      BY <1>3, <1>4 DEF id0
    <3> QED
      BY <1>3, <1>6, <1>8, <3>1
  <2>2. \A i, j \in Carriers' : completions'[i].flags.id = completions'[j].flags.id => i = j
    <3> SUFFICES ASSUME NEW i \in Carriers', NEW j \in Carriers',
                        completions'[i].flags.id = completions'[j].flags.id
                 PROVE  i = j
      OBVIOUS
    <3>1. completions[i + 1].flags.id = completions[j + 1].flags.id
      BY <1>7
    <3>2. i + 1 = j + 1
      BY <1>3, <1>7, <3>1
    <3> QED
      BY <1>7, <3>2
  <2>3. \A i \in Window', j \in Carriers' : slots'[i] # completions'[j].flags.id
    <3> SUFFICES ASSUME NEW i \in Window', NEW j \in Carriers'
                 PROVE  slots'[i] # completions'[j].flags.id
      OBVIOUS
    <3>1. j + 1 \in Carriers /\ j + 1 # 1 /\ completions'[j].flags.id = completions[j + 1].flags.id
      BY <1>7
    <3>2. completions[j + 1].flags.id # id0
      BY <1>3, <1>4, <3>1 DEF id0
    <3>3. i \in Window => slots[i] # completions[j + 1].flags.id
      BY <1>3, <3>1
    <3> QED
      BY <1>6, <1>8, <3>1, <3>2, <3>3
  <2> QED
    BY <1>6, <2>1, <2>2, <2>3 DEF OneOwner
<1>10. NoBufferLost'
  <2> SUFFICES ASSUME NEW id \in BufferId
               PROVE  \/ \E i \in Window' : slots'[i] = id
                      \/ \E j \in Carriers' : completions'[j].flags.id = id
    BY DEF NoBufferLost
  <2>1. CASE \E i \in Window : slots[i] = id
    BY <1>6, <1>8, <2>1
  <2>2. ASSUME NEW j \in Carriers, completions[j].flags.id = id
        PROVE  \/ \E i \in Window' : slots'[i] = id
               \/ \E i \in Carriers' : completions'[i].flags.id = id
    <3>1. CASE j = 1
      BY <1>6, <1>8, <2>2, <3>1 DEF id0
    <3>2. CASE j # 1
      BY <1>7, <2>2, <3>2
    <3> QED
      BY <3>1, <3>2
  <2> QED
    BY <1>3, <2>1, <2>2
<1>11. Aligned'
  BY <1>6 DEF Aligned
<1> QED
  BY <1>9, <1>10, <1>11 DEF OwnInv

\* What does not touch the ring, nor a completion that carries a buffer.
LEMMA OwnFrame ==
  ASSUME OwnInv, BRTypeOK', UNCHANGED <<registered, slots, khead, tail, spurious>>,
         completions \in Seq(Completion),
         \/ completions' = completions
         \/ \E c \in Completion : ~c.flags.buffer /\ completions' = Append(completions, c)
         \/ /\ completions # <<>> /\ ~Head(completions).flags.buffer
            /\ completions' = Tail(completions)
  PROVE  OwnInv'
<1>1. Depth' = Depth /\ Window' = Window /\ Aligned'
  BY DEF Depth, Window, OwnInv, Aligned, Ahead, Entry
<1>2. CASE \/ completions' = completions
           \/ \E c \in Completion : ~c.flags.buffer /\ completions' = Append(completions, c)
  <2>1. Carriers' = Carriers /\ \A i \in Carriers : completions'[i] = completions[i]
    BY <1>2 DEF Carriers
  <2> QED
    BY <1>1, <2>1 DEF OwnInv, OneOwner, NoBufferLost
<1>3. CASE /\ completions # <<>> /\ ~Head(completions).flags.buffer
           /\ completions' = Tail(completions)
  <2>1. /\ \A i \in Carriers' : i \in Nat /\ i + 1 \in Carriers /\ completions'[i] = completions[i + 1]
        /\ \A i \in Carriers : i \in Nat /\ i - 1 \in Carriers' /\ completions'[i - 1] = completions[i]
    <3>1. /\ Len(completions') = Len(completions) - 1 /\ Len(completions) \in Nat
          /\ \A i \in 1 .. Len(completions') : completions'[i] = completions[i + 1]
          /\ ~completions[1].flags.buffer
      BY <1>3
    <3> QED
      BY <3>1 DEF Carriers
  <2>2. ASSUME ~spurious, registered PROVE OneOwner'
    <3> SUFFICES ASSUME NEW j \in Carriers'
                 PROVE  /\ \A i \in Window : slots[i] # completions'[j].flags.id
                        /\ \A i \in Carriers' :
                             completions'[i].flags.id = completions'[j].flags.id => i = j
      BY <1>1, <2>2 DEF OwnInv, OneOwner
    <3>1. j \in Nat /\ j + 1 \in Carriers /\ completions'[j] = completions[j + 1]
      BY <2>1
    <3>2. \A i \in Window : slots[i] # completions'[j].flags.id
      BY <2>2, <3>1 DEF OwnInv, OneOwner
    <3>3. ASSUME NEW i \in Carriers', completions'[i].flags.id = completions'[j].flags.id
          PROVE  i = j
      <4>1. i \in Nat /\ i + 1 \in Carriers /\ completions'[i] = completions[i + 1]
        BY <2>1
      <4>2. i + 1 = j + 1
        BY <2>2, <3>1, <3>3, <4>1 DEF OwnInv, OneOwner
      <4> QED
        BY <3>1, <4>1, <4>2
    <3> QED
      BY <3>2, <3>3
  <2>3. NoBufferLost'
    <3> SUFFICES ASSUME ~spurious, registered, NEW id \in BufferId,
                        ~ \E i \in Window : slots[i] = id
                 PROVE  \E j \in Carriers' : completions'[j].flags.id = id
      BY <1>1 DEF NoBufferLost
    <3>1. PICK j \in Carriers : completions[j].flags.id = id
      BY DEF OwnInv, NoBufferLost
    <3> QED
      BY <2>1, <3>1
  <2> QED
    BY <1>1, <2>2, <2>3 DEF OwnInv, OneOwner
<1> QED
  BY <1>2, <1>3

\* The completions that are not shown to a subscriber carry no buffer.
NoBufferInErrors ==
  \A i \in 1..Len(completions) : ~(completions[i].res >= 0) => ~completions[i].flags.buffer

LEMMA ErrorsStep ==
  BRTypeOK /\ NoBufferInErrors /\ [BRNext]_brvars => NoBufferInErrors'
<1> SUFFICES ASSUME BRTypeOK, NoBufferInErrors, [BRNext]_brvars PROVE NoBufferInErrors'
  OBVIOUS
<1>1. completions \in Seq(Completion)
  BY DEF BRTypeOK
<1>2. ASSUME NEW res \in {-1, 0, 1}, NEW flags \in BufferFlags, Complete(res, flags)
      PROVE  NoBufferInErrors'
  <2> DEFINE c == [res |-> res, flags |-> flags]
  <2>1. c \in Completion /\ (~(c.res >= 0) => ~c.flags.buffer)
    BY <1>2 DEF Completion, Complete, Outcome, NoBuffer
  <2>2. completions' = Append(completions, c)
    BY <1>2 DEF Complete
  <2> HIDE DEF c
  <2> QED
    BY <1>1, <2>1, <2>2 DEF NoBufferInErrors
<1>3. CASE Served
  <2>1. completions' = Tail(completions) /\ completions # <<>>
    BY <1>3 DEF Served, BRTypeOK
  <2> QED
    BY <1>1, <2>1 DEF NoBufferInErrors
<1>4. CASE Serve \/ UNCHANGED brvars
  BY <1>4 DEF Serve, brvars, NoBufferInErrors
<1> QED
  BY <1>2, <1>3, <1>4 DEF BRNext

LEMMA OwnStep == OwnInv /\ NoBufferInErrors /\ [BRNext]_brvars => OwnInv'
<1> SUFFICES ASSUME OwnInv, NoBufferInErrors, [BRNext]_brvars PROVE OwnInv'
  OBVIOUS
<1>1. BRTypeOK /\ BRTypeOK' /\ completions \in Seq(Completion)
  BY BRTypeStep DEF OwnInv, BRTypeOK
<1>2. registered' = registered /\ (~spurious' => ~spurious)
  BY <1>1 DEF BRNext, brvars, Complete, Selected, Serve, Served, ReleaseBuffer, BRTypeOK
<1>3. CASE spurious' \/ ~registered
  BY <1>1, <1>2, <1>3 DEF OwnInv, OneOwner, NoBufferLost, Aligned
<1>4. ASSUME ~spurious', registered,
             NEW res \in {-1, 0, 1}, NEW flags \in BufferFlags, Complete(res, flags)
      PROVE  OwnInv'
  <2> DEFINE c == [res |-> res, flags |-> flags]
  <2>1. c \in Completion /\ c.flags = flags /\ c.res = res
    BY DEF Completion
  <2>2. completions' = Append(completions, c) /\ UNCHANGED spurious
    BY <1>4 DEF Complete
  <2> HIDE DEF c
  <2>3. CASE flags.buffer
    <3>1. Available /\ flags.id = Select /\ Selected
      BY <1>4, <2>3 DEF Complete, Outcome, NoBuffer
    <3> QED
      BY <1>1, <1>2, <1>4, <2>1, <2>2, <2>3, <3>1, OwnFill
  <2>4. CASE ~flags.buffer
    <3>1. UNCHANGED <<registered, slots, khead, tail>>
      BY <1>4, <2>4 DEF Complete
    <3> QED
      BY <1>1, <2>1, <2>2, <2>4, <3>1, OwnFrame
  <2> QED
    BY <2>3, <2>4
<1>5. CASE Serve \/ UNCHANGED brvars
  BY <1>1, <1>5, OwnFrame DEF Serve, brvars
<1>6. ASSUME ~spurious', registered, Served
      PROVE  OwnInv'
  <2>1. completions # <<>> /\ completions' = Tail(completions) /\ Head(completions) \in Completion
    BY <1>1, <1>6 DEF Served, BRTypeOK
  <2>2. CASE Shown(Head(completions))
    <3>1. /\ ReleaseBuffer(Head(completions).flags)
          /\ spurious' = (spurious \/ ~Head(completions).flags.buffer)
      BY <1>6, <2>2 DEF Served
    <3>2. Head(completions).flags.buffer /\ UNCHANGED spurious
      BY <1>1, <1>6, <3>1, <2>1 DEF BRTypeOK, Completion, BufferFlags
    <3> QED
      BY <1>1, <1>2, <1>6, <2>1, <3>1, <3>2, OwnRelease
  <2>3. CASE ~Shown(Head(completions))
    <3>1. UNCHANGED <<registered, slots, khead, tail, spurious>>
      BY <1>6, <2>3 DEF Served
    <3>2. ~(Head(completions).res >= 0)
      BY <2>1, <2>3 DEF Shown, Get, Completion, BufferFlags
    <3>3. ~Head(completions).flags.buffer
      BY <1>1, <2>1, <3>2 DEF NoBufferInErrors
    <3> QED
      BY <1>1, <2>1, <3>1, <3>3, OwnFrame
  <2> QED
    BY <2>2, <2>3
<1> QED
  BY <1>2, <1>3, <1>4, <1>5, <1>6 DEF BRNext

LEMMA OwnAlways == BRSpec => [](OwnInv /\ NoBufferInErrors)
<1>1. BRInit => NoBufferInErrors
  BY DEF BRInit, NoBufferInErrors
<1>2. OwnInv /\ NoBufferInErrors /\ [BRNext]_brvars => NoBufferInErrors'
  BY ErrorsStep DEF OwnInv
<1> QED
  BY <1>1, <1>2, OwnInit, OwnStep, PTL DEF BRSpec

(* The kernel never fills a buffer that a subscriber reads or is about to   *)
(* read, nor offers one twice, until the first end of file is released: for *)
(* any number of buffers and any width of the indices that setupBuffers     *)
(* accepts.                                                                 *)
THEOREM BuffersHaveOneOwner == BRSpec => []OneOwner
<1>1. OwnInv => OneOwner
  BY DEF OwnInv
<1> QED
  BY <1>1, OwnAlways, PTL

(* No buffer is lost, under the same conditions: release() gives each one   *)
(* back.                                                                    *)
THEOREM BuffersComeBack == BRSpec => []NoBufferLost
<1>1. OwnInv => NoBufferLost
  BY DEF OwnInv
<1> QED
  BY <1>1, OwnAlways, PTL
=============================================================================
