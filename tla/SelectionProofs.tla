--------------------------- MODULE SelectionProofs ---------------------------
(***************************************************************************)
(* What Filter does to a sequence that grows at its end or shrinks at its  *)
(* front, and the facts about sequences that the proofs on queues share.   *)
(* Filter is a recursive function; the lemmas follow from an induction     *)
(* over Nat that is stated for a set, not for a predicate.                 *)
(***************************************************************************)
EXTENDS Selection, WellFoundedInduction, TLAPS

(***************************************************************************)
(* Sequences.                                                              *)
(***************************************************************************)

\* An element appended to the second of two sequences is appended to both.
LEMMA AppendConcat ==
  ASSUME NEW S, NEW s \in Seq(S), NEW t \in Seq(S), NEW e \in S
  PROVE  Append(s \o t, e) = s \o Append(t, e)
  OBVIOUS

\* The head of the second sequence may as well end the first.
LEMMA MoveHead ==
  ASSUME NEW S, NEW s \in Seq(S), NEW t \in Seq(S), t # <<>>
  PROVE  Append(s, Head(t)) \o Tail(t) = s \o t
  OBVIOUS

\* The tail of a concatenation whose first element is known.
LEMMA TailConcat ==
  ASSUME NEW S, NEW s \in Seq(S), NEW t \in Seq(S), NEW e \in S
  PROVE  Tail((<<e>> \o s) \o t) = s \o t
  OBVIOUS

\* Taking the first element of t out of s \o t leaves s and the tail of t.
LEMMA DropSecond ==
  ASSUME NEW S, NEW s \in Seq(S), NEW t \in Seq(S), t # <<>>
  PROVE  /\ Len(s) + 1 \in 1..Len(s \o t)
         /\ SubSeq(s \o t, 1, Len(s)) \o SubSeq(s \o t, Len(s) + 2, Len(s \o t)) = s \o Tail(t)
<1> DEFINE u == s \o t
<1>1. /\ u \in Seq(S) /\ Len(u) = Len(s) + Len(t) /\ Len(s) \in Nat /\ Len(t) \in Nat \ {0}
      /\ \A i \in 1..Len(s) : u[i] = s[i]
      /\ \A i \in 1..Len(t) : u[Len(s) + i] = t[i]
  OBVIOUS
<1> HIDE DEF u
<1>2. SubSeq(u, 1, Len(s)) = s
  BY <1>1
<1>3. /\ Tail(t) \in Seq(S) /\ Len(Tail(t)) = Len(t) - 1
      /\ \A i \in 1..Len(t) - 1 : Tail(t)[i] = t[i + 1]
  OBVIOUS
<1>4. /\ SubSeq(u, Len(s) + 2, Len(u)) \in Seq(S)
      /\ Len(SubSeq(u, Len(s) + 2, Len(u))) = Len(t) - 1
      /\ \A i \in 1..Len(t) - 1 : SubSeq(u, Len(s) + 2, Len(u))[i] = u[Len(s) + (i + 1)]
  <2>1. PICK a, b : a = Len(s) + 2 /\ b = Len(u)
    OBVIOUS
  <2>2. a \in Nat /\ b \in Nat /\ a \in 1..b + 1 /\ b <= Len(u) /\ b - a + 1 = Len(t) - 1
    BY <1>1, <2>1
  <2>3. /\ SubSeq(u, a, b) \in Seq(S) /\ Len(SubSeq(u, a, b)) = b - a + 1
        /\ \A i \in 1..b - a + 1 : SubSeq(u, a, b)[i] = u[a + i - 1]
    BY <1>1, <2>2
  <2>4. \A i \in 1..Len(t) - 1 : a + i - 1 = Len(s) + (i + 1)
    BY <1>1, <2>1
  <2> QED
    BY <2>1, <2>2, <2>3, <2>4
<1>5. \A i \in 1..Len(t) - 1 : SubSeq(u, Len(s) + 2, Len(u))[i] = Tail(t)[i]
  BY <1>1, <1>3, <1>4
<1>6. SubSeq(u, Len(s) + 2, Len(u)) = Tail(t)
  BY <1>1, <1>3, <1>4, <1>5
<1>7. Len(s) + 1 \in 1..Len(u)
  BY <1>1
<1> QED
  BY <1>2, <1>6, <1>7 DEF u

(***************************************************************************)
(* Induction over the natural numbers, for a set.                          *)
(***************************************************************************)

\* A non-empty set of natural numbers has a least element.
LEMMA LeastNat ==
  ASSUME NEW T \in SUBSET Nat, T # {}
  PROVE  \E n \in T : \A m \in T : n <= m
<1> DEFINE R == OpToRel(<, Nat)
<1>1. IsWellFoundedOn(R, Nat)
  BY NatLessThanWellFounded
<1>2. \A m, n \in Nat : m < n => <<m, n>> \in R
  BY SMT DEF OpToRel
<1> HIDE DEF R
<1>3. PICK n \in T : \A m \in T : <<m, n>> \notin R
  BY <1>1, WFMin
<1>4. ASSUME NEW m \in T, ~(n <= m) PROVE FALSE
  <2>1. m \in Nat /\ n \in Nat /\ m < n
    BY <1>4
  <2>2. <<m, n>> \in R
    BY <1>2, <2>1
  <2> QED
    BY <1>3, <2>2
<1> QED
  BY <1>4

\* A set that has 0 and the successor of what it has, has every number.
LEMMA NatInd ==
  ASSUME NEW S, 0 \in S, \A n \in Nat : n \in S => n + 1 \in S
  PROVE  Nat \subseteq S
<1> SUFFICES ASSUME Nat \ S # {} PROVE FALSE
  BY Zenon
<1>1. PICK n \in Nat \ S : \A m \in Nat \ S : n <= m
  BY LeastNat
<1>2. n # 0 /\ n - 1 \in Nat
  BY <1>1
<1>3. n - 1 \in S
  BY <1>1, <1>2
<1> QED
  BY <1>1, <1>2, <1>3

(***************************************************************************)
(* Filter.                                                                 *)
(***************************************************************************)

\* The body of the recursive function of Filter, for the domain 0..d.
Body(s, P, g, d) ==
  [n \in 0..d |-> IF n = 0 THEN <<>>
                  ELSE IF s[n] \in P THEN Append(g[n - 1], s[n]) ELSE g[n - 1]]

\* The recursive function is a choice of a fixed point of Body ...
LEMMA FilterUnfold ==
  ASSUME NEW s, NEW P
  PROVE  \E f : f = (CHOOSE g : g = Body(s, P, g, Len(s))) /\ Filter(s, P) = f[Len(s)]
  BY DEF Filter, Body

\* ... and there is one, for every length.
LEMMA BodyExists ==
  ASSUME NEW s, NEW P
  PROVE  \A d \in Nat : \E g : g = Body(s, P, g, d)
<1> DEFINE Good == {d \in Nat : \E g : g = Body(s, P, g, d)}
<1>1. 0 \in Good
  <2>1. [n \in 0..0 |-> <<>>] = Body(s, P, [n \in 0..0 |-> <<>>], 0)
    BY DEF Body
  <2> QED
    BY <2>1
<1>2. ASSUME NEW d \in Nat, d \in Good PROVE d + 1 \in Good
  <2>1. PICK g : g = Body(s, P, g, d)
    BY <1>2
  <2> DEFINE x == IF s[d + 1] \in P THEN Append(g[d], s[d + 1]) ELSE g[d]
             h == [n \in 0..d + 1 |-> IF n = d + 1 THEN x ELSE g[n]]
  <2>2. \A n \in 0..d : h[n] = g[n]
    OBVIOUS
  <2>3. \A n \in 0..d : g[n] = IF n = 0 THEN <<>>
                  ELSE IF s[n] \in P THEN Append(g[n - 1], s[n]) ELSE g[n - 1]
    BY <2>1 DEF Body
  <2>4. \A n \in 0..d + 1 : h[n] = IF n = 0 THEN <<>>
                  ELSE IF s[n] \in P THEN Append(h[n - 1], s[n]) ELSE h[n - 1]
    <3> TAKE n \in 0..d + 1
    <3>1. CASE n = d + 1
      <4>1. n # 0 /\ n - 1 = d /\ d \in 0..d /\ h[n] = x /\ h[n - 1] = g[d]
        BY <3>1
      <4> QED
        BY <3>1, <4>1
    <3>2. CASE n # d + 1
      <4>1. n \in 0..d /\ h[n] = g[n]
        BY <3>2
      <4>2. n # 0 => n - 1 \in 0..d /\ h[n - 1] = g[n - 1]
        BY <3>2
      <4> HIDE DEF h
      <4> QED
        BY <2>3, <4>1, <4>2
    <3> QED
      BY <3>1, <3>2
  <2>5. h = [n \in 0..d + 1 |-> h[n]]
    OBVIOUS
  <2> HIDE DEF h
  <2>6. h = Body(s, P, h, d + 1)
    BY <2>4, <2>5 DEF Body
  <2> QED
    BY <2>6
<1> HIDE DEF Good
<1>3. Nat \subseteq Good
  BY <1>1, <1>2, NatInd
<1> QED
  BY <1>3 DEF Good

\* f lists what Filter keeps of the prefixes of s, the last of which is s.
Prefixes(S, s, P, f) ==
  /\ f \in [0..Len(s) -> Seq(S)] /\ f[0] = <<>>
  /\ \A n \in 1..Len(s) : f[n] = IF s[n] \in P THEN Append(f[n - 1], s[n]) ELSE f[n - 1]
  /\ Filter(s, P) = f[Len(s)]

\* The equations of the recursive function hold.
LEMMA FilterIs ==
  ASSUME NEW S, NEW s \in Seq(S), NEW P
  PROVE  \E f : Prefixes(S, s, P, f)
<1>1. PICK f : f = (CHOOSE g : g = Body(s, P, g, Len(s))) /\ Filter(s, P) = f[Len(s)]
  BY FilterUnfold
<1>2. \E g : g = Body(s, P, g, Len(s))
  <2>1. Len(s) \in Nat
    OBVIOUS
  <2> QED
    BY <2>1, BodyExists, Zenon
<1>3. f = Body(s, P, f, Len(s))
  BY <1>1, <1>2, Zenon
<1>4. /\ f = [n \in 0..Len(s) |-> f[n]]
      /\ f[0] = <<>>
      /\ \A n \in 1..Len(s) :
           f[n] = IF s[n] \in P THEN Append(f[n - 1], s[n]) ELSE f[n - 1]
  <2>1. \A n \in 0..Len(s) : f[n] = IF n = 0 THEN <<>>
          ELSE IF s[n] \in P THEN Append(f[n - 1], s[n]) ELSE f[n - 1]
    BY <1>3 DEF Body
  <2>2. f = [n \in 0..Len(s) |-> f[n]]
    BY <1>3 DEF Body
  <2> QED
    BY <2>1, <2>2
<1>5. \A n \in 0..Len(s) : f[n] \in Seq(S)
  <2> DEFINE Good == {n \in Nat : n <= Len(s) => f[n] \in Seq(S)}
  <2>1. 0 \in Good
    BY <1>4
  <2>2. ASSUME NEW n \in Nat, n \in Good PROVE n + 1 \in Good
    <3> SUFFICES ASSUME n + 1 <= Len(s) PROVE f[n + 1] \in Seq(S)
      OBVIOUS
    <3>1. n + 1 \in 1..Len(s) /\ s[n + 1] \in S /\ f[n] \in Seq(S) /\ n + 1 - 1 = n
      BY <2>2
    <3>2. f[n + 1] = IF s[n + 1] \in P THEN Append(f[n], s[n + 1]) ELSE f[n]
      BY <1>4, <3>1
    <3> QED
      BY <3>1, <3>2
  <2> HIDE DEF Good
  <2>3. Nat \subseteq Good
    BY <2>1, <2>2, NatInd
  <2> QED
    BY <2>3 DEF Good
<1>6. f \in [0..Len(s) -> Seq(S)]
  BY <1>4, <1>5
<1>7. Prefixes(S, s, P, f)
  BY <1>1, <1>4, <1>6 DEF Prefixes
<1> QED
  BY <1>7

\* Nothing is kept of nothing.
LEMMA FilterEmpty ==
  ASSUME NEW P
  PROVE  Filter(<<>>, P) = <<>>
<1>1. <<>> \in Seq({}) /\ Len(<<>>) = 0
  OBVIOUS
<1>2. PICK f : Prefixes({}, <<>>, P, f)
  BY <1>1, FilterIs, Zenon
<1> QED
  BY <1>1, <1>2 DEF Prefixes

\* A last element is kept after the others, or dropped.
LEMMA FilterAppend ==
  ASSUME NEW S, NEW s \in Seq(S), NEW e \in S, NEW P
  PROVE  Filter(Append(s, e), P) = IF e \in P THEN Append(Filter(s, P), e) ELSE Filter(s, P)
<1> DEFINE t == Append(s, e)
<1>1. /\ t \in Seq(S) /\ Len(s) \in Nat /\ Len(t) = Len(s) + 1 /\ t[Len(s) + 1] = e
      /\ \A i \in 1..Len(s) : t[i] = s[i]
  OBVIOUS
<1> HIDE DEF t
<1>2. PICK f : Prefixes(S, s, P, f)
  BY FilterIs, Zenon
<1>3. PICK g : Prefixes(S, t, P, g)
  BY <1>1, FilterIs, Zenon
<1> DEFINE Good == {n \in Nat : n <= Len(s) => g[n] = f[n]}
<1>4. 0 \in Good
  BY <1>2, <1>3 DEF Prefixes
<1>5. ASSUME NEW n \in Nat, n \in Good PROVE n + 1 \in Good
  <2> SUFFICES ASSUME n + 1 <= Len(s) PROVE g[n + 1] = f[n + 1]
    OBVIOUS
  <2>1. /\ n + 1 \in 1..Len(s) /\ n + 1 \in 1..Len(t) /\ t[n + 1] = s[n + 1]
        /\ g[n] = f[n] /\ n + 1 - 1 = n
    BY <1>1, <1>5
  <2>2. /\ f[n + 1] = IF s[n + 1] \in P THEN Append(f[n], s[n + 1]) ELSE f[n]
        /\ g[n + 1] = IF t[n + 1] \in P THEN Append(g[n], t[n + 1]) ELSE g[n]
    BY <1>2, <1>3, <2>1 DEF Prefixes
  <2> QED
    BY <2>1, <2>2
<1> HIDE DEF Good
<1>6. Nat \subseteq Good
  BY <1>4, <1>5, NatInd
<1>7. g[Len(s)] = f[Len(s)]
  BY <1>1, <1>6 DEF Good
<1>8. Len(s) + 1 \in 1..Len(t) /\ Len(s) + 1 - 1 = Len(s)
  BY <1>1
<1>9. g[Len(s) + 1] = IF e \in P THEN Append(g[Len(s)], e) ELSE g[Len(s)]
  BY <1>1, <1>3, <1>8 DEF Prefixes
<1>10. Filter(t, P) = IF e \in P THEN Append(Filter(s, P), e) ELSE Filter(s, P)
  BY <1>1, <1>2, <1>3, <1>7, <1>9 DEF Prefixes
<1> QED
  BY <1>10 DEF t

\* A first element is kept before the others, or dropped.
LEMMA FilterTail ==
  ASSUME NEW S, NEW s \in Seq(S), s # <<>>, NEW P
  PROVE  Filter(s, P) = IF Head(s) \in P THEN <<Head(s)>> \o Filter(Tail(s), P)
                                          ELSE Filter(Tail(s), P)
<1> DEFINE t == Tail(s)
           first == IF Head(s) \in P THEN <<Head(s)>> ELSE <<>>
<1>1. /\ t \in Seq(S) /\ Len(t) \in Nat /\ Len(s) = Len(t) + 1 /\ Head(s) = s[1] /\ s[1] \in S
      /\ \A i \in 1..Len(t) : t[i] = s[i + 1] /\ s[i + 1] \in S
  OBVIOUS
<1>2. first \in Seq(S)
  BY <1>1
<1>3. /\ \A x \in Seq(S), e \in S : Append(first \o x, e) = first \o Append(x, e)
      /\ first \o <<>> = first
      /\ first = IF s[1] \in P THEN Append(<<>>, s[1]) ELSE <<>>
  <2>1. \A x \in Seq(S), e \in S : Append(first \o x, e) = first \o Append(x, e)
    BY <1>2, AppendConcat
  <2>2. first \o <<>> = first
    BY <1>2
  <2>3. Append(<<>>, s[1]) = <<s[1]>>
    OBVIOUS
  <2> QED
    BY <1>1, <2>1, <2>2, <2>3
<1> HIDE DEF t, first
<1>4. PICK f : Prefixes(S, t, P, f)
  BY <1>1, FilterIs, Zenon
<1>5. PICK g : Prefixes(S, s, P, g)
  BY FilterIs, Zenon
<1> DEFINE Good == {n \in Nat : n <= Len(t) => g[n + 1] = first \o f[n]}
<1>6. 0 \in Good
  <2>1. 1 \in 1..Len(s) /\ 1 - 1 = 0
    BY <1>1
  <2>2. g[1] = IF s[1] \in P THEN Append(<<>>, s[1]) ELSE <<>>
    BY <1>5, <2>1 DEF Prefixes
  <2>3. f[0] = <<>>
    BY <1>4 DEF Prefixes
  <2> QED
    BY <1>1, <1>3, <2>2, <2>3, 0 + 1 = 1
<1>7. ASSUME NEW n \in Nat, n \in Good PROVE n + 1 \in Good
  <2> SUFFICES ASSUME n + 1 <= Len(t) PROVE g[n + 1 + 1] = first \o f[n + 1]
    OBVIOUS
  <2>1. /\ n + 1 \in 1..Len(t) /\ n + 1 - 1 = n /\ n \in 0..Len(t)
        /\ n + 1 + 1 \in 1..Len(s) /\ n + 1 + 1 - 1 = n + 1
        /\ g[n + 1] = first \o f[n]
    BY <1>1, <1>7
  <2>2. f[n + 1] = IF t[n + 1] \in P THEN Append(f[n], t[n + 1]) ELSE f[n]
    BY <1>4, <2>1 DEF Prefixes
  <2>3. g[n + 1 + 1] = IF s[n + 1 + 1] \in P THEN Append(g[n + 1], s[n + 1 + 1]) ELSE g[n + 1]
    <3>1. \A m \in 1..Len(s) : g[m] = IF s[m] \in P THEN Append(g[m - 1], s[m]) ELSE g[m - 1]
      BY <1>5 DEF Prefixes
    <3>2. PICK m \in 1..Len(s) : m = n + 1 + 1
      BY <2>1
    <3>3. m - 1 = n + 1
      BY <3>2
    <3>4. g[m] = IF s[m] \in P THEN Append(g[m - 1], s[m]) ELSE g[m - 1]
      BY <3>1
    <3> QED
      BY <3>2, <3>3, <3>4
  <2>4. t[n + 1] = s[n + 1 + 1] /\ t[n + 1] \in S /\ f[n] \in Seq(S)
    BY <1>1, <1>4, <2>1 DEF Prefixes
  <2> QED
    BY <1>3, <2>1, <2>2, <2>3, <2>4
<1> HIDE DEF Good
<1>8. Nat \subseteq Good
  BY <1>6, <1>7, NatInd
<1>9. g[Len(s)] = first \o f[Len(t)]
  BY <1>1, <1>8 DEF Good
<1>10. Filter(s, P) = first \o Filter(t, P) /\ Filter(t, P) \in Seq(S)
  BY <1>1, <1>4, <1>5, <1>9 DEF Prefixes
<1> QED
  BY <1>10 DEF t, first

\* What is kept is of the type of what there was.
LEMMA FilterType ==
  ASSUME NEW S, NEW s \in Seq(S), NEW P
  PROVE  Filter(s, P) \in Seq(S)
<1>1. PICK f : Prefixes(S, s, P, f)
  BY FilterIs, Zenon
<1> QED
  BY <1>1 DEF Prefixes
=============================================================================
