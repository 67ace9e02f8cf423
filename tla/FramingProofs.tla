--------------------------- MODULE FramingProofs ----------------------------
(***************************************************************************)
(* However a stream is cut into reads, for any frames, any sizes and any   *)
(* envelope: WireDecoder over FramedRead implements FrameQueue.  The bytes *)
(* split off are always a whole number of frames, and a cached header is   *)
(* the header of the frame that comes next.                                *)
(***************************************************************************)
EXTENDS Framing, NaturalsInduction, SequenceTheorems, WellFoundedInduction, TLAPS

-----------------------------------------------------------------------------
(* Induction on the natural numbers, for sets *)

\* A set of natural numbers has a least element.
LEMMA Least ==
  ASSUME NEW T, T \subseteq Nat, T # {}
  PROVE  \E x \in T : \A y \in T : x <= y
<1> DEFINE R == {p \in Nat \X Nat : p[1] < p[2]}
<1>1. IsWellFoundedOn(R, Nat)
  BY NatLessThanWellFounded DEF OpToRel
<1>2. PICK x \in T : \A y \in T : ~ (<<y, x>> \in R)
  <2> HIDE DEF R
  <2> QED BY <1>1, WFMin, Zenon
<1>3. ASSUME NEW y \in T
      PROVE  x <= y
  <2>1. <<y, x>> \in Nat \X Nat
    OBVIOUS
  <2>2. ~ (y < x)
    BY <1>2, <2>1
  <2> QED BY <2>2
<1> QED BY <1>3

\* What holds of 0 and is passed on to the next number holds of all.
LEMMA Induction ==
  ASSUME NEW T, 0 \in T, \A n \in Nat : n \in T => n + 1 \in T
  PROVE  Nat \subseteq T
<1> SUFFICES ASSUME Nat \ T # {} PROVE FALSE
  OBVIOUS
<1>1. PICK x \in Nat \ T : \A y \in Nat \ T : x <= y
  BY Least
<1>2. x # 0 /\ x - 1 \in Nat
  BY <1>1
<1>3. x - 1 \in T
  BY <1>1, <1>2
<1> QED BY <1>1, <1>2, <1>3

-----------------------------------------------------------------------------
(* Sequences of sequences *)

\* flat is what FlattenSeq folds up over the first n of the sequences s.
Flattens(s, n, flat) ==
  flat = [i \in 1 .. n |-> IF i = 1 THEN s[i] ELSE flat[i - 1] \o s[i]]

\* One step of the fold.
LEMMA FlattensAt ==
  ASSUME NEW s, NEW n \in Nat, NEW flat, Flattens(s, n, flat), NEW i \in 1 .. n
  PROVE  flat[i] = IF i = 1 THEN s[i] ELSE flat[i - 1] \o s[i]
<1> DEFINE fold == [j \in 1 .. n |-> IF j = 1 THEN s[j] ELSE flat[j - 1] \o s[j]]
<1>1. flat = fold
  BY Zenon DEF Flattens
<1>2. fold[i] = IF i = 1 THEN s[i] ELSE flat[i - 1] \o s[i]
  OBVIOUS
<1> HIDE DEF fold
<1> QED BY <1>1, <1>2, Zenon

\* The fold can be carried on by one sequence, and so over all of them.
LEMMA FlattensExtend ==
  ASSUME NEW S, NEW s \in Seq(Seq(S)), NEW n \in Nat, n + 1 <= Len(s),
         NEW flat \in [1 .. n -> Seq(S)], Flattens(s, n, flat)
  PROVE  \E more \in [1 .. n + 1 -> Seq(S)] : Flattens(s, n + 1, more)
<1> DEFINE last == IF n = 0 THEN s[1] ELSE flat[n] \o s[n + 1]
           more == [i \in 1 .. n + 1 |-> IF i = n + 1 THEN last ELSE flat[i]]
<1>1. last \in Seq(S)
  OBVIOUS
<1>2. more \in [1 .. n + 1 -> Seq(S)]
  BY <1>1
<1>3. ASSUME NEW i \in 1 .. n + 1
      PROVE  more[i] = IF i = 1 THEN s[i] ELSE more[i - 1] \o s[i]
  <2>1. CASE i = n + 1
    BY <2>1
  <2>2. CASE i # n + 1
    <3>1. i \in 1 .. n /\ more[i] = flat[i] /\ (i # 1 => more[i - 1] = flat[i - 1])
      BY <2>2
    <3> QED BY <3>1 DEF Flattens
  <2> QED BY <2>1, <2>2
<1>4. Flattens(s, n + 1, more)
  <2> HIDE DEF last
  <2>1. more = [i \in 1 .. n + 1 |-> more[i]]
    OBVIOUS
  <2> HIDE DEF more
  <2> QED BY <2>1, <1>3 DEF Flattens
<1> HIDE DEF more
<1> QED BY <1>2, <1>4

\* Every sequence of sequences has such a function.
LEMMA FlattensExists ==
  ASSUME NEW S, NEW s \in Seq(Seq(S)), NEW n \in 0 .. Len(s)
  PROVE  \E flat \in [1 .. n -> Seq(S)] : Flattens(s, n, flat)
<1> DEFINE T == {k \in Nat : k <= Len(s) => \E flat \in [1 .. k -> Seq(S)] : Flattens(s, k, flat)}
<1>1. 0 \in T
  <2>1. <<>> \in [1 .. 0 -> Seq(S)] /\ Flattens(s, 0, <<>>)
    BY DEF Flattens
  <2> QED BY <2>1
<1>2. ASSUME NEW k \in Nat, k \in T
      PROVE  k + 1 \in T
  <2>1. SUFFICES ASSUME k + 1 <= Len(s)
                 PROVE  \E flat \in [1 .. k + 1 -> Seq(S)] : Flattens(s, k + 1, flat)
    OBVIOUS
  <2>2. PICK flat \in [1 .. k -> Seq(S)] : Flattens(s, k, flat)
    BY <1>2, <2>1
  <2> QED BY <2>1, <2>2, FlattensExtend
<1> HIDE DEF T
<1>3. Nat \subseteq T
  BY <1>1, <1>2, Induction
<1>4. n \in T
  BY <1>3
<1> QED BY <1>4 DEF T

Agree(s, t, n) == \A i \in 1 .. n : s[i] = t[i]

\* Two such folds agree as far as both go.
LEMMA FlattensAgree ==
  ASSUME NEW s, NEW t, NEW m \in Nat, NEW n \in Nat, NEW f, NEW g,
         Flattens(s, m, f), Flattens(t, n, g), m <= n,
         Agree(s, t, m)
  PROVE  Agree(f, g, m)
<1> DEFINE T == {k \in Nat : k \in 1 .. m => f[k] = g[k]}
<1>1. 0 \in T
  OBVIOUS
<1>2. ASSUME NEW k \in Nat, k \in T
      PROVE  k + 1 \in T
  <2>1. SUFFICES ASSUME k + 1 \in 1 .. m
                 PROVE  f[k + 1] = g[k + 1]
    OBVIOUS
  <2>2. /\ f[k + 1] = IF k + 1 = 1 THEN s[k + 1] ELSE f[k + 1 - 1] \o s[k + 1]
        /\ g[k + 1] = IF k + 1 = 1 THEN t[k + 1] ELSE g[k + 1 - 1] \o t[k + 1]
    BY <2>1, FlattensAt
  <2>3. k + 1 - 1 = k /\ s[k + 1] = t[k + 1] /\ (k # 0 => f[k] = g[k])
    BY <1>2, <2>1 DEF Agree
  <2> QED BY <2>2, <2>3
<1> HIDE DEF T
<1>3. Nat \subseteq T
  BY <1>1, <1>2, Induction
<1> QED BY <1>3 DEF T, Agree

\* A sequence of sequences ends with the last of them.
LEMMA FlattenAppend ==
  ASSUME NEW S, NEW s \in Seq(Seq(S)), NEW f \in Seq(S)
  PROVE  /\ FlattenSeq(s) \in Seq(S)
         /\ FlattenSeq(Append(s, f)) = FlattenSeq(s) \o f
<1> DEFINE t == Append(s, f)
           n == Len(s)
<1>0. t \in Seq(Seq(S)) /\ n \in Nat /\ Len(t) = n + 1 /\ t[n + 1] = f
      /\ \A i \in 1 .. n : t[i] = s[i]
  OBVIOUS
<1>1. ASSUME NEW u \in Seq(Seq(S)), Len(u) # 0
      PROVE  \E flat \in [1 .. Len(u) -> Seq(S)] :
               Flattens(u, Len(u), flat) /\ FlattenSeq(u) = flat[Len(u)]
  <2> DEFINE chosen == CHOOSE g : Flattens(u, Len(u), g)
  <2>1. PICK flat \in [1 .. Len(u) -> Seq(S)] : Flattens(u, Len(u), flat)
    BY FlattensExists
  <2>2. Flattens(u, Len(u), chosen)
    BY <2>1
  <2>3. FlattenSeq(u) = chosen[Len(u)]
    BY <1>1, Zenon DEF FlattenSeq, Flattens
  <2>4. \A i \in 1 .. Len(u) : chosen[i] = flat[i]
    <3> HIDE DEF chosen
    <3>1. Len(u) \in Nat /\ Len(u) <= Len(u) /\ Agree(u, u, Len(u))
      BY DEF Agree
    <3>2. Agree(chosen, flat, Len(u))
      BY <2>1, <2>2, <3>1, FlattensAgree, Zenon
    <3> QED BY <3>2 DEF Agree
  <2>5. FlattenSeq(u) = flat[Len(u)]
    <3> HIDE DEF chosen
    <3> QED BY <1>1, <2>3, <2>4
  <2> QED BY <2>1, <2>5
<1> HIDE DEF t
<1>2. PICK g \in [1 .. n + 1 -> Seq(S)] : Flattens(t, n + 1, g) /\ FlattenSeq(t) = g[n + 1]
  BY <1>0, <1>1
<1>3. g[n + 1] = IF n + 1 = 1 THEN t[n + 1] ELSE g[n + 1 - 1] \o t[n + 1]
  BY <1>0, <1>2, FlattensAt
<1>4. CASE n = 0
  <2>1. s = <<>> /\ FlattenSeq(s) = <<>>
    BY <1>4 DEF FlattenSeq
  <2>2. FlattenSeq(t) = f
    BY <1>0, <1>2, <1>3, <1>4
  <2>3. <<>> \in Seq(S) /\ <<>> \o f = f
    OBVIOUS
  <2> QED BY <2>1, <2>2, <2>3, Zenon DEF t
<1>5. CASE n # 0
  <2>1. PICK h \in [1 .. n -> Seq(S)] : Flattens(s, n, h) /\ FlattenSeq(s) = h[n]
    BY <1>1, <1>5
  <2>2. h[n] = g[n]
    <3>1. n \in Nat /\ n <= n + 1 /\ n + 1 \in Nat /\ Agree(s, t, n)
      BY <1>0 DEF Agree
    <3>2. Flattens(s, n, h) /\ Flattens(t, n + 1, g)
      BY <1>2, <2>1
    <3> HIDE DEF n
    <3>3. Agree(h, g, n)
      BY <3>1, <3>2, FlattensAgree, Zenon
    <3> QED BY <1>5, <3>1, <3>3 DEF Agree
  <2>3. FlattenSeq(s) \in Seq(S)
    <3>1. n \in 1 .. n
      BY <1>0, <1>5
    <3>2. h[n] \in Seq(S)
      BY <3>1
    <3> QED BY <2>1, <3>2, Zenon
  <2>4. n + 1 - 1 = n /\ n + 1 # 1
    BY <1>5
  <2>5. FlattenSeq(t) = FlattenSeq(s) \o f
    BY <1>0, <1>2, <1>3, <2>1, <2>2, <2>4, Zenon
  <2> QED BY <2>3, <2>5 DEF t
<1> QED BY <1>4, <1>5

\* The first k of the sequences, one after the other.
Prefix(s, k) == FlattenSeq(SubSeq(s, 1, k))

\* The next prefix has one sequence more; the last one is all of them.
LEMMA PrefixStep ==
  ASSUME NEW S, NEW s \in Seq(Seq(S)), NEW k \in 0 .. Len(s)
  PROVE  /\ Prefix(s, k) \in Seq(S)
         /\ Prefix(s, 0) = <<>>
         /\ Prefix(s, Len(s)) = FlattenSeq(s)
         /\ k < Len(s) => Prefix(s, k + 1) = Prefix(s, k) \o s[k + 1]
<1>1. SubSeq(s, 1, k) \in Seq(Seq(S))
  OBVIOUS
<1>2. Prefix(s, k) \in Seq(S)
  <2>1. <<>> \in Seq(S)
    OBVIOUS
  <2> QED BY <1>1, <2>1, FlattenAppend, Zenon DEF Prefix
<1>3. Prefix(s, 0) = <<>>
  <2>1. SubSeq(s, 1, 0) = <<>>
    OBVIOUS
  <2> QED BY <2>1 DEF Prefix, FlattenSeq
<1>4. Prefix(s, Len(s)) = FlattenSeq(s)
  <2>1. SubSeq(s, 1, Len(s)) = s
    OBVIOUS
  <2> QED BY <2>1, Zenon DEF Prefix
<1>5. ASSUME k < Len(s)
      PROVE  Prefix(s, k + 1) = Prefix(s, k) \o s[k + 1]
  <2>1. SubSeq(s, 1, k + 1) = Append(SubSeq(s, 1, k), s[k + 1]) /\ s[k + 1] \in Seq(S)
    BY <1>5
  <2> QED BY <1>1, <2>1, FlattenAppend, Zenon DEF Prefix
<1> QED BY <1>2, <1>3, <1>4, <1>5

\* Later prefixes extend earlier ones.
Extends(long, short) == Len(short) <= Len(long) /\ Agree(short, long, Len(short))

\* A concatenation extends its first part.
LEMMA ExtendsConcat ==
  ASSUME NEW S, NEW long \in Seq(S), NEW short \in Seq(S), NEW t \in Seq(S), Extends(long, short)
  PROVE  Extends(long \o t, short)
BY DEF Extends, Agree

\* A longer prefix extends a shorter one.
LEMMA PrefixExtends ==
  ASSUME NEW S, NEW s \in Seq(Seq(S)), NEW j \in 0 .. Len(s), NEW k \in j .. Len(s)
  PROVE  Extends(Prefix(s, k), Prefix(s, j))
<1> DEFINE T == {d \in Nat : j + d <= Len(s) => Extends(Prefix(s, j + d), Prefix(s, j))}
<1>1. 0 \in T
  <2>1. Prefix(s, j) \in Seq(S) /\ j + 0 = j
    BY PrefixStep
  <2> QED BY <2>1 DEF Extends, Agree
<1>2. ASSUME NEW d \in Nat, d \in T
      PROVE  d + 1 \in T
  <2>1. SUFFICES ASSUME j + d + 1 <= Len(s)
                 PROVE  Extends(Prefix(s, j + d + 1), Prefix(s, j))
    OBVIOUS
  <2>2. Extends(Prefix(s, j + d), Prefix(s, j))
    BY <1>2, <2>1
  <2>3. /\ j + d \in 0 .. Len(s) /\ j + d < Len(s) /\ s[j + d + 1] \in Seq(S)
    BY <2>1
  <2>4. /\ Prefix(s, j + d + 1) = Prefix(s, j + d) \o s[j + d + 1]
        /\ Prefix(s, j + d) \in Seq(S) /\ Prefix(s, j) \in Seq(S)
    BY <2>3, PrefixStep
  <2> QED BY <2>2, <2>3, <2>4, ExtendsConcat
<1> HIDE DEF T
<1>3. Nat \subseteq T
  BY <1>1, <1>2, Induction
<1>4. k - j \in T /\ j + (k - j) = k
  BY <1>3
<1> QED BY <1>4 DEF T

\* Where a sequence of the sequences stands among all their elements.
LEMMA FlattenAt ==
  ASSUME NEW S, NEW s \in Seq(Seq(S)), NEW k \in 0 .. Len(s) - 1, NEW i \in 1 .. Len(s[k + 1])
  PROVE  /\ Len(Prefix(s, k)) + i \in 1 .. Len(FlattenSeq(s))
         /\ FlattenSeq(s)[Len(Prefix(s, k)) + i] = s[k + 1][i]
<1>1. /\ k \in 0 .. Len(s) /\ k + 1 \in 0 .. Len(s) /\ Len(s) \in k + 1 .. Len(s) /\ k < Len(s)
      /\ Len(s) \in 0 .. Len(s) /\ s[k + 1] \in Seq(S)
  OBVIOUS
<1>2. /\ Prefix(s, k) \in Seq(S) /\ Prefix(s, k + 1) = Prefix(s, k) \o s[k + 1]
      /\ Prefix(s, Len(s)) = FlattenSeq(s) /\ Prefix(s, Len(s)) \in Seq(S)
  BY <1>1, PrefixStep
<1>3. Extends(FlattenSeq(s), Prefix(s, k + 1))
  BY <1>1, <1>2, PrefixExtends
<1>4. PICK p \in Seq(S) : p = Prefix(s, k)
  BY <1>2
<1>5. PICK all \in Seq(S) : all = FlattenSeq(s)
  BY <1>2
<1>6. Len(p \o s[k + 1]) <= Len(all) /\ \A x \in 1 .. Len(p \o s[k + 1]) : (p \o s[k + 1])[x] = all[x]
  BY <1>2, <1>3, <1>4, <1>5 DEF Extends, Agree
<1>7. Len(p) + i \in 1 .. Len(p \o s[k + 1]) /\ (p \o s[k + 1])[Len(p) + i] = s[k + 1][i]
  BY <1>1, <1>4
<1>8. Len(p) + i \in 1 .. Len(all) /\ all[Len(p) + i] = s[k + 1][i]
  BY <1>6, <1>7
<1> QED BY <1>4, <1>5, <1>8

-----------------------------------------------------------------------------
(* Frames in the stream *)

\* The frames of a stream are sequences of cells, and long enough for a header.
LEMMA FrameFacts ==
  ASSUME NEW s \in Streams
  PROVE  /\ s \in Seq(Seq(Cells))
         /\ \A k \in 1 .. Len(s) :
              /\ s[k] \in AllFrames /\ s[k] \in Seq(Cells) /\ Len(s[k]) >= HeaderSize
              /\ LET parsed == MessageHeaderFromBytes(s[k])
                 IN  IsErr(parsed) \/ parsed.ok.message_length = Len(s[k])
<1>1. s \in Seq(Seq(Cells))
  BY FramesAssumption
<1>2. ASSUME NEW k \in 1 .. Len(s)
      PROVE  s[k] \in ToSet(s) /\ s[k] \in Seq(Cells) /\ s[k] \in AllFrames
  <2>1. s[k] \in ToSet(s) /\ s[k] \in Seq(Cells)
    BY <1>1 DEF ToSet
  <2> QED BY <2>1 DEF AllFrames
<1> QED BY <1>1, <1>2, FramesAssumption

\* The prefixes of a stream are strictly longer and longer.
LEMMA PrefixGrows ==
  ASSUME NEW s \in Streams, NEW j \in 0 .. Len(s), NEW k \in 0 .. Len(s)
  PROVE  /\ Len(Prefix(s, k)) \in Nat
         /\ Len(Prefix(s, k)) <= Len(FlattenSeq(s))
         /\ j < k => Len(Prefix(s, j)) < Len(Prefix(s, k))
<1>0. /\ s \in Seq(Seq(Cells)) /\ Len(s) \in Nat /\ Len(s) \in k .. Len(s)
      /\ Len(s) \in 0 .. Len(s)
  BY FrameFacts
<1>1. Prefix(s, k) \in Seq(Cells) /\ Prefix(s, j) \in Seq(Cells) /\ Prefix(s, Len(s)) = FlattenSeq(s)
  BY <1>0, PrefixStep
<1>2. Extends(Prefix(s, Len(s)), Prefix(s, k))
  BY <1>0, PrefixExtends
<1>3. ASSUME j < k
      PROVE  Len(Prefix(s, j)) < Len(Prefix(s, k))
  <2>1. /\ j < Len(s) /\ j + 1 \in 0 .. Len(s) /\ k \in j + 1 .. Len(s)
        /\ s[j + 1] \in Seq(Cells) /\ Len(s[j + 1]) >= 16
    BY <1>0, <1>3, FrameFacts DEF HeaderSize
  <2>2. Prefix(s, j + 1) = Prefix(s, j) \o s[j + 1]
    BY <1>0, <2>1, PrefixStep
  <2>3. Len(Prefix(s, j + 1)) = Len(Prefix(s, j)) + Len(s[j + 1])
    BY <1>1, <2>1, <2>2
  <2>4. Len(Prefix(s, j + 1)) <= Len(Prefix(s, k))
    BY <1>0, <2>1, PrefixExtends DEF Extends
  <2>5. Len(Prefix(s, j)) \in Nat /\ Len(Prefix(s, k)) \in Nat /\ Len(s[j + 1]) \in Nat
    BY <1>1, <2>1
  <2> QED BY <2>1, <2>3, <2>4, <2>5
<1> QED BY <1>1, <1>2, <1>3 DEF Extends

\* The number of whole frames in the first n bytes of a stream.
TakenOf(s, n) ==
  LET whole == {k \in 0 .. Len(s) : Len(Prefix(s, k)) <= n}
  IN  CHOOSE k \in whole : \A j \in whole : j <= k

\* When exactly the bytes of k frames are gone, k frames are.
LEMMA TakenOfPrefix ==
  ASSUME NEW s \in Streams, NEW k \in 0 .. Len(s)
  PROVE  TakenOf(s, Len(Prefix(s, k))) = k
<1> DEFINE n == Len(Prefix(s, k))
           whole == {j \in 0 .. Len(s) : Len(Prefix(s, j)) <= n}
<1>1. k \in whole
  BY PrefixGrows
<1>2. ASSUME NEW j \in whole
      PROVE  j <= k
  <2>1. SUFFICES ASSUME k < j
                 PROVE  FALSE
    BY FrameFacts
  <2>2. Len(Prefix(s, k)) < Len(Prefix(s, j)) /\ Len(Prefix(s, k)) \in Nat /\ Len(Prefix(s, j)) \in Nat
    BY <2>1, PrefixGrows
  <2> QED BY <2>2
<1>3. ASSUME NEW i \in whole, \A j \in whole : j <= i
      PROVE  i = k
  BY <1>1, <1>2, <1>3
<1>4. (CHOOSE i \in whole : \A j \in whole : j <= i) = k
  <2> HIDE DEF whole
  <2> QED BY <1>1, <1>2, <1>3
<1> QED BY <1>4 DEF TakenOf

\* The elements of a slice.
LEMMA Slice ==
  ASSUME NEW S, NEW all \in Seq(S), NEW base \in Nat, NEW n \in base .. Len(all)
  PROVE  /\ SubSeq(all, base + 1, n) \in Seq(S)
         /\ Len(SubSeq(all, base + 1, n)) = n - base
         /\ \A i \in 1 .. n - base : SubSeq(all, base + 1, n)[i] = all[base + i]
OBVIOUS

\* What the buffer holds when k frames have been split off and n bytes have been
\* read: the next frame, or the beginning of it, comes first.
Holds(s, k, n, buf) ==
  /\ buf \in Seq(Cells)
  /\ Len(buf) = n - Len(Prefix(s, k))
  /\ k = Len(s) => buf = <<>>
  /\ k < Len(s) => \A i \in 1 .. Len(buf) : i <= Len(s[k + 1]) => buf[i] = s[k + 1][i]

\* The bytes between the k frames and the n bytes are such a buffer.
LEMMA BufferStarts ==
  ASSUME NEW s \in Streams, NEW k \in 0 .. Len(s),
         NEW n \in Len(Prefix(s, k)) .. Len(FlattenSeq(s)),
         NEW buf, buf = SubSeq(FlattenSeq(s), Len(Prefix(s, k)) + 1, n)
  PROVE  Holds(s, k, n, buf)
<1>0. s \in Seq(Seq(Cells)) /\ Len(s) \in Nat /\ Len(s) \in 0 .. Len(s)
  BY FrameFacts
<1>1. PICK all \in Seq(Cells) : all = FlattenSeq(s)
  BY <1>0, PrefixStep
<1>2. PICK base \in Nat : base = Len(Prefix(s, k)) /\ base <= Len(all)
  BY <1>1, PrefixGrows
<1>3. buf = SubSeq(all, base + 1, n) /\ n \in base .. Len(all)
  BY <1>1, <1>2
<1>4. buf \in Seq(Cells) /\ Len(buf) = n - base /\ \A i \in 1 .. Len(buf) : buf[i] = all[base + i]
  <2>1. /\ SubSeq(all, base + 1, n) \in Seq(Cells)
        /\ Len(SubSeq(all, base + 1, n)) = n - base
        /\ \A i \in 1 .. n - base : SubSeq(all, base + 1, n)[i] = all[base + i]
    BY <1>3, Slice, Zenon
  <2> QED BY <1>3, <2>1, Zenon
<1>5. ASSUME k = Len(s)
      PROVE  buf = <<>>
  <2>1. base = Len(all)
    BY <1>0, <1>1, <1>2, <1>5, PrefixStep
  <2> QED BY <1>3, <1>4, <2>1
<1>6. ASSUME k < Len(s), NEW i \in 1 .. Len(buf), i <= Len(s[k + 1])
      PROVE  buf[i] = s[k + 1][i]
  <2>1. k \in 0 .. Len(s) - 1 /\ i \in 1 .. Len(s[k + 1])
    BY <1>0, <1>4, <1>6, FrameFacts
  <2>2. all[base + i] = s[k + 1][i]
    BY <1>0, <1>1, <1>2, <2>1, FlattenAt
  <2> QED BY <1>4, <2>2
<1> QED BY <1>2, <1>4, <1>5, <1>6 DEF Holds

\* A header is read from the first bytes of a frame, whatever follows them.
LEMMA HeaderLocal ==
  ASSUME NEW f \in Seq(Cells), NEW buf \in Seq(Cells), Len(f) >= HeaderSize, Len(buf) >= HeaderSize,
         \A i \in 1 .. Len(buf) : i <= Len(f) => buf[i] = f[i]
  PROVE  MessageHeaderFromBytes(buf) = MessageHeaderFromBytes(f)
<1> DEFINE read(short, length, id, to, code) ==
      IF short THEN Err("TooFewBytes")
      ELSE IF ~MessageLengthOk(length) THEN Err("InvalidMessageLength")
      ELSE IF \A o \in DOMAIN OPCode : OPCode[o] # code THEN Err("InvalidOPCode")
      ELSE Ok(MessageHeader(length, id, ResponseTo(to),
                            CHOOSE o \in DOMAIN OPCode : OPCode[o] = code))
<1>1. buf[1] = f[1] /\ buf[5] = f[5] /\ buf[9] = f[9] /\ buf[13] = f[13]
  BY DEF HeaderSize
<1>2. /\ IntAt(buf, 1) = IntAt(f, 1) /\ IntAt(buf, 5) = IntAt(f, 5)
      /\ IntAt(buf, 9) = IntAt(f, 9) /\ IntAt(buf, 13) = IntAt(f, 13)
  BY <1>1 DEF IntAt
<1>3. (Len(buf) < HeaderSize) = (Len(f) < HeaderSize)
  BY DEF HeaderSize
<1>4. ASSUME NEW b
      PROVE  MessageHeaderFromBytes(b)
               = read(Len(b) < HeaderSize, IntAt(b, 1), IntAt(b, 5), IntAt(b, 9), IntAt(b, 13))
  BY Zenon DEF MessageHeaderFromBytes
<1>5. MessageHeaderFromBytes(buf)
        = read(Len(buf) < HeaderSize, IntAt(buf, 1), IntAt(buf, 5), IntAt(buf, 9), IntAt(buf, 13))
  BY <1>4, Zenon
<1>6. MessageHeaderFromBytes(f)
        = read(Len(f) < HeaderSize, IntAt(f, 1), IntAt(f, 5), IntAt(f, 9), IntAt(f, 13))
  BY <1>4, Zenon
<1> HIDE DEF read
<1> QED BY <1>2, <1>3, <1>5, <1>6, Zenon

\* A header that is refused is refused for its length or its opcode.
LEMMA HeaderErrors ==
  ASSUME NEW f \in Seq(Cells), Len(f) >= HeaderSize
  PROVE  MessageHeaderFromBytes(f).err # "TooFewBytes"
BY DEF MessageHeaderFromBytes, HeaderSize, Err, Ok

\* A slice too short for a header is not refused yet.
LEMMA HeaderShort ==
  ASSUME NEW buf \in Seq(Cells), Len(buf) < HeaderSize
  PROVE  MessageHeaderFromBytes(buf).err = "TooFewBytes"
BY DEF MessageHeaderFromBytes, Err

\* Message::from_bytes is the header and then the body.
LEMMA FromBytes ==
  ASSUME NEW f
  PROVE  LET parsed == MessageHeaderFromBytes(f)
         IN  MessageFromBytes(f) = IF IsErr(parsed) THEN parsed
                                   ELSE MessageFromHeadersAndBytes(parsed.ok, f)
<1> DEFINE parsed == MessageHeaderFromBytes(f)
           answer(x) == IF IsErr(x) THEN x ELSE MessageFromHeadersAndBytes(x.ok, f)
<1>1. MessageFromBytes(f) = Sole({answer(x) : x \in {parsed}})
  BY Zenon DEF MessageFromBytes, Then
<1>2. {answer(x) : x \in {parsed}} = {answer(parsed)}
  BY Zenon
<1>3. Sole({answer(parsed)}) = answer(parsed)
  BY Zenon DEF Sole
<1> QED BY <1>1, <1>2, <1>3, Zenon

\* What the decoder answers when the buffer starts with the frame f, and the
\* cached header, if any, is f's: it waits, or refuses the header, or takes f.
Waits(f, buf, d) ==
  /\ d.used = 0 /\ d.err = "" /\ d.item = {}
  /\ d.header # {} => /\ Len(buf) >= HeaderSize
                      /\ ~IsErr(MessageHeaderFromBytes(f))
                      /\ d.header = {MessageHeaderFromBytes(f).ok}
Refuses(f, d) ==
  /\ IsErr(MessageHeaderFromBytes(f))
  /\ d = Answer({}, 0, MessageHeaderFromBytes(f).err, {})
Takes(f, d) ==
  /\ ~IsErr(MessageHeaderFromBytes(f))
  /\ LET m == MessageFromHeadersAndBytes(MessageHeaderFromBytes(f).ok, f)
     IN  d = Answer({}, Len(f), m.err, IF IsErr(m) THEN {} ELSE {m.ok})

\* The answer without a message.
LEMMA AnswerNothing ==
  ASSUME NEW hdr, NEW d, d = Answer(hdr, 0, "", {})
  PROVE  d.header = hdr /\ d.used = 0 /\ d.err = "" /\ d.item = {}
<1>1. ASSUME NEW item, NEW a, a = Answer(hdr, 0, "", item)
      PROVE  a.header = hdr /\ a.used = 0 /\ a.err = "" /\ a.item = item
  BY <1>1 DEF Answer
<1> QED BY <1>1, Zenon

\* The frame whose header is h, split off the buffer.
LEMMA DecodesFrame ==
  ASSUME NEW f \in Seq(Cells), NEW buf \in Seq(Cells), Len(f) >= HeaderSize,
         \A i \in 1 .. Len(buf) : i <= Len(f) => buf[i] = f[i],
         Len(buf) >= HeaderSize, NEW h, ~IsErr(MessageHeaderFromBytes(f)),
         h = MessageHeaderFromBytes(f).ok, h.message_length = Len(f)
  PROVE  \/ Len(buf) < Len(f) /\ Waits(f, buf, DecodeFrame(h, buf))
         \/ Len(buf) >= Len(f) /\ Takes(f, DecodeFrame(h, buf))
<1>1. CASE Len(buf) < Len(f)
  <2>1. DecodeFrame(h, buf) = Answer({h}, 0, "", {})
    BY <1>1 DEF DecodeFrame
  <2>2. Waits(f, buf, DecodeFrame(h, buf))
    <3> DEFINE d == DecodeFrame(h, buf)
    <3>1. d.header = {h} /\ d.used = 0 /\ d.err = "" /\ d.item = {}
      BY <2>1, AnswerNothing, Zenon
    <3> HIDE DEF d
    <3>2. Waits(f, buf, d)
      BY <3>1, Zenon DEF Waits
    <3> QED BY <3>2 DEF d
  <2> QED BY <1>1, <2>2
<1>2. CASE Len(buf) >= Len(f)
  <2>1. SubSeq(buf, 1, Len(f)) = f
    BY <1>2
  <2>2. DecodeFrame(h, buf) = Split({}, h, buf)
    <3>1. ~(Len(buf) < h.message_length)
      BY <1>2
    <3> QED BY <3>1, Zenon DEF DecodeFrame
  <2> DEFINE whole(m) == Answer({}, Len(f), m.err, IF IsErr(m) THEN {} ELSE {m.ok})
  <2>3. Split({}, h, buf) = Sole({whole(m) : m \in {MessageFromHeadersAndBytes(h, f)}})
    BY <2>1, Zenon DEF Split
  <2>4. Sole({whole(m) : m \in {MessageFromHeadersAndBytes(h, f)}})
          = whole(MessageFromHeadersAndBytes(h, f))
    BY Zenon DEF Sole
  <2>5. Takes(f, DecodeFrame(h, buf))
    BY <2>2, <2>3, <2>4, Zenon DEF Takes
  <2> QED BY <1>2, <2>5
<1> QED BY <1>1, <1>2

\* WireDecoder::decode on a buffer that starts with the frame f, with or without
\* f's header in the cache.
LEMMA Decodes ==
  ASSUME NEW f \in Seq(Cells), NEW buf \in Seq(Cells), Len(f) >= HeaderSize,
         IsErr(MessageHeaderFromBytes(f)) \/ MessageHeaderFromBytes(f).ok.message_length = Len(f),
         \A i \in 1 .. Len(buf) : i <= Len(f) => buf[i] = f[i],
         NEW cached,
         cached # {} => /\ Len(buf) >= HeaderSize
                        /\ ~IsErr(MessageHeaderFromBytes(f))
                        /\ cached = {MessageHeaderFromBytes(f).ok}
  PROVE  \/ Len(buf) < Len(f) /\ Waits(f, buf, WireDecode(cached, buf))
         \/ Len(buf) >= HeaderSize /\ Refuses(f, WireDecode(cached, buf))
         \/ Len(buf) >= Len(f) /\ Takes(f, WireDecode(cached, buf))
<1> DEFINE parsed == MessageHeaderFromBytes(f)
<1>1. CASE cached # {}
  <2>1. Sole(cached) = parsed.ok
    BY <1>1, Zenon DEF Sole
  <2>2. WireDecode(cached, buf) = DecodeFrame(parsed.ok, buf)
    BY <1>1, <2>1, Zenon DEF WireDecode
  <2> QED BY <1>1, <2>2, DecodesFrame
<1>2. CASE cached = {} /\ Len(buf) < HeaderSize
  <2>1. MessageHeaderFromBytes(buf).err = "TooFewBytes"
    BY <1>2, HeaderShort
  <2>2. WireDecode(cached, buf) = Answer({}, 0, "", {})
    BY <1>2, <2>1 DEF WireDecode
  <2>3. Waits(f, buf, WireDecode(cached, buf))
    <3> DEFINE d == WireDecode(cached, buf)
    <3>1. d.header = {} /\ d.used = 0 /\ d.err = "" /\ d.item = {}
      BY <2>2, AnswerNothing, Zenon
    <3> HIDE DEF d
    <3>2. Waits(f, buf, d)
      BY <3>1, Zenon DEF Waits
    <3> QED BY <3>2 DEF d
  <2>4. Len(buf) < Len(f)
    BY <1>2 DEF HeaderSize
  <2> QED BY <2>3, <2>4
<1>3. CASE cached = {} /\ Len(buf) >= HeaderSize
  <2>1. MessageHeaderFromBytes(buf) = parsed /\ parsed.err # "TooFewBytes"
    BY <1>3, HeaderLocal, HeaderErrors
  <2>2. CASE IsErr(parsed)
    BY <1>3, <2>1, <2>2 DEF WireDecode, Refuses
  <2>3. CASE ~IsErr(parsed)
    <3>1. WireDecode(cached, buf) = DecodeFrame(parsed.ok, buf)
      BY <1>3, <2>1, <2>3 DEF WireDecode
    <3> QED BY <1>3, <2>3, <3>1, DecodesFrame
  <2> QED BY <2>2, <2>3
<1> QED BY <1>1, <1>2, <1>3 DEF HeaderSize

-----------------------------------------------------------------------------
(* The inductive invariant *)

\* The bytes split off are the first frames, and a cached header is the next
\* frame's and came out of bytes that are in the buffer.
FrameInv ==
  /\ sent \in Streams
  /\ arrived \in Nat /\ taken <= arrived /\ arrived <= PrefixLen(Len(sent))
  /\ Taken \in 0 .. Len(sent) /\ taken = PrefixLen(Taken)
  /\ header # {} => /\ Taken < Len(sent)
                    /\ arrived - taken >= HeaderSize
                    /\ ~IsErr(MessageHeaderFromBytes(sent[Taken + 1]))
                    /\ header = {MessageHeaderFromBytes(sent[Taken + 1]).ok}
  /\ errored => told.is \in {"failed", "broken"}

\* The variables in the terms of the lemmas above.
LEMMA Terms ==
  /\ Taken = TakenOf(sent, taken)
  /\ \A k : PrefixLen(k) = Len(Prefix(sent, k))
<1>1. \A k : PrefixLen(k) = Len(Prefix(sent, k))
  BY Zenon DEF PrefixLen, Prefix
<1> QED BY <1>1, Zenon DEF Taken, TakenOf, PrefixLen, Prefix

\* Before the first read the invariant holds.
LEMMA InitFrame == Init => FrameInv
<1> SUFFICES ASSUME Init
             PROVE  FrameInv
  OBVIOUS
<1>0. sent \in Streams /\ arrived = 0 /\ taken = 0 /\ header = {} /\ errored = FALSE
  BY DEF Init
<1>1. sent \in Seq(Seq(Cells)) /\ 0 \in 0 .. Len(sent) /\ Len(sent) \in 0 .. Len(sent)
  BY <1>0, FrameFacts
<1>2. Len(Prefix(sent, 0)) = 0
  <2>1. Prefix(sent, 0) = <<>>
    BY <1>1, PrefixStep
  <2> QED BY <2>1
<1>3. Taken = 0
  <2>1. TakenOf(sent, Len(Prefix(sent, 0))) = 0
    BY <1>0, <1>1, TakenOfPrefix
  <2> QED BY <1>0, <1>2, <2>1, Terms
<1>4. Len(Prefix(sent, Len(sent))) \in Nat
  BY <1>0, <1>1, PrefixGrows
<1>5. taken = PrefixLen(Taken) /\ arrived <= PrefixLen(Len(sent))
  BY <1>0, <1>2, <1>3, <1>4, Terms
<1> QED BY <1>0, <1>1, <1>3, <1>5 DEF FrameInv

\* The buffer and the numbers that go with it.
LEMMA BufferFacts ==
  ASSUME FrameInv
  PROVE  /\ sent \in Seq(Seq(Cells)) /\ Len(sent) \in Nat /\ Taken \in 0 .. Len(sent)
         /\ taken \in Nat /\ arrived \in Nat /\ taken <= arrived
         /\ Buffer \in Seq(Cells) /\ Len(Buffer) = arrived - taken
         /\ Taken = Len(sent) => Buffer = <<>> /\ arrived = taken
         /\ Taken < Len(sent) =>
              \A i \in 1 .. Len(Buffer) : i <= Len(sent[Taken + 1]) => Buffer[i] = sent[Taken + 1][i]
<1>1. /\ sent \in Streams /\ Taken \in 0 .. Len(sent)
      /\ arrived \in Nat /\ taken <= arrived
  BY DEF FrameInv
<1>2. sent \in Seq(Seq(Cells)) /\ Len(sent) \in Nat /\ Len(sent) \in 0 .. Len(sent)
  BY <1>1, FrameFacts
<1>3. taken = Len(Prefix(sent, Taken)) /\ taken \in Nat
  BY <1>1, PrefixGrows, Terms DEF FrameInv
<1>4. Prefix(sent, Len(sent)) = FlattenSeq(sent)
  BY <1>2, PrefixStep
<1>5. arrived <= Len(FlattenSeq(sent)) /\ Len(FlattenSeq(sent)) \in Nat
  BY <1>1, <1>2, <1>4, PrefixGrows, Terms DEF FrameInv
<1>6. arrived \in Len(Prefix(sent, Taken)) .. Len(FlattenSeq(sent))
  BY <1>1, <1>3, <1>5
<1>7. Buffer = SubSeq(FlattenSeq(sent), Len(Prefix(sent, Taken)) + 1, arrived)
  BY <1>3, Zenon DEF Buffer
<1>8. Holds(sent, Taken, arrived, Buffer)
  BY <1>1, <1>6, <1>7, BufferStarts
<1>9. ASSUME Taken = Len(sent)
      PROVE  arrived = taken
  BY <1>1, <1>3, <1>4, <1>5, <1>9
<1> QED BY <1>1, <1>2, <1>3, <1>8, <1>9 DEF Holds

-----------------------------------------------------------------------------
(* What a poll makes of the buffer *)

\* The frame at the head of the queue.
HeadFrame == sent[Taken + 1]

\* The decoder asks for more bytes, and may have cached the header of the frame.
Quiet(d) ==
  /\ d.used = 0 /\ d.err = "" /\ d.item = {}
  /\ d.header # {} => /\ Taken < Len(sent) /\ arrived - taken >= HeaderSize
                      /\ ~IsErr(MessageHeaderFromBytes(HeadFrame))
                      /\ d.header = {MessageHeaderFromBytes(HeadFrame).ok}
\* It refuses the header and leaves the frame where it is.
HeaderRefused(d) ==
  /\ Taken < Len(sent) /\ arrived > taken
  /\ IsErr(MessageHeaderFromBytes(HeadFrame))
  /\ d.used = 0 /\ d.err # "" /\ d.item = {} /\ d.header = {}
\* It splits the frame off, with a message or an error.
FrameTaken(d) ==
  /\ Taken < Len(sent) /\ arrived - taken >= Len(HeadFrame)
  /\ ~IsErr(MessageHeaderFromBytes(HeadFrame))
  /\ d.used = Len(HeadFrame) /\ d.header = {}
  /\ d.err = MessageFromBytes(HeadFrame).err
  /\ d.item = IF IsErr(MessageFromBytes(HeadFrame)) THEN {} ELSE {MessageFromBytes(HeadFrame).ok}

\* The fields of an answer.
LEMMA AnswerFields ==
  ASSUME NEW hdr, NEW used, NEW err, NEW item, NEW d, d = Answer(hdr, used, err, item)
  PROVE  d.header = hdr /\ d.used = used /\ d.err = err /\ d.item = item
BY DEF Answer

\* Between two frames the decoder has nothing to read.
LEMMA DecodesNothing ==
  ASSUME NEW d, d = WireDecode({}, <<>>)
  PROVE  d.used = 0 /\ d.err = "" /\ d.item = {} /\ d.header = {}
<1>1. <<>> \in Seq(Cells) /\ Len(<<>>) < HeaderSize
  BY DEF HeaderSize
<1>2. MessageHeaderFromBytes(<<>>).err = "TooFewBytes"
  BY <1>1, HeaderShort
<1>3. d = Answer({}, 0, "", {})
  BY <1>2, Zenon DEF WireDecode
<1> QED BY <1>3, AnswerNothing, Zenon

\* Whatever the peer's bytes and however they were cut, the decoder's answer is
\* about the head of the queue: no answer yet, its header refused, or the frame
\* taken whole (WireDecoder::decode).
LEMMA DecodeAnswers ==
  ASSUME FrameInv, NEW d, d = WireDecode(header, Buffer)
  PROVE  Quiet(d) \/ HeaderRefused(d) \/ FrameTaken(d)
<1>1. CASE Taken = Len(sent)
  <2>1. Buffer = <<>> /\ Taken \in Nat
    BY <1>1, BufferFacts
  <2>2. header = {}
    BY <1>1, <2>1 DEF FrameInv
  <2>3. d.used = 0 /\ d.err = "" /\ d.item = {} /\ d.header = {}
    BY <2>1, <2>2, DecodesNothing, Zenon
  <2> QED BY <2>3, Zenon DEF Quiet
<1>2. CASE Taken < Len(sent)
  <2>1. PICK f : f = HeadFrame
    OBVIOUS
  <2>2. PICK buf \in Seq(Cells) : buf = Buffer
    BY BufferFacts
  <2>3. /\ f \in Seq(Cells) /\ Len(f) >= HeaderSize
        /\ IsErr(MessageHeaderFromBytes(f)) \/ MessageHeaderFromBytes(f).ok.message_length = Len(f)
    <3>1. sent \in Streams /\ Taken + 1 \in 1 .. Len(sent)
      BY <1>2, BufferFacts DEF FrameInv
    <3> QED BY <2>1, <3>1, FrameFacts DEF HeadFrame
  <2>4. Len(buf) = arrived - taken /\ \A i \in 1 .. Len(buf) : i <= Len(f) => buf[i] = f[i]
    BY <1>2, <2>1, <2>2, BufferFacts DEF HeadFrame
  <2>5. header # {} => /\ Len(buf) >= HeaderSize
                       /\ ~IsErr(MessageHeaderFromBytes(f))
                       /\ header = {MessageHeaderFromBytes(f).ok}
    BY <2>1, <2>4 DEF FrameInv, HeadFrame
  <2>6. \/ Len(buf) < Len(f) /\ Waits(f, buf, d)
        \/ Len(buf) >= HeaderSize /\ Refuses(f, d)
        \/ Len(buf) >= Len(f) /\ Takes(f, d)
    BY <2>2, <2>3, <2>4, <2>5, Decodes
  <2>7. CASE Waits(f, buf, d)
    <3>1. d.header # {} => arrived - taken >= HeaderSize
      BY <2>4, <2>7 DEF Waits
    <3> QED BY <1>2, <2>1, <2>7, <3>1, Zenon DEF Waits, Quiet
  <2>8. CASE Len(buf) >= HeaderSize /\ Refuses(f, d)
    <3>1. arrived > taken
      BY <2>4, <2>8, BufferFacts DEF HeaderSize
    <3>2. /\ d.header = {} /\ d.used = 0 /\ d.item = {}
          /\ d.err = MessageHeaderFromBytes(f).err
      BY <2>8, AnswerFields DEF Refuses
    <3> QED BY <1>2, <2>1, <2>8, <3>1, <3>2, Zenon DEF Refuses, HeaderRefused, IsErr
  <2>9. CASE Len(buf) >= Len(f) /\ Takes(f, d)
    <3>1. MessageFromBytes(f) = MessageFromHeadersAndBytes(MessageHeaderFromBytes(f).ok, f)
      BY <2>9, FromBytes, Zenon DEF Takes
    <3>2. /\ d.header = {} /\ d.used = Len(f) /\ d.err = MessageFromBytes(f).err
          /\ d.item = IF IsErr(MessageFromBytes(f)) THEN {} ELSE {MessageFromBytes(f).ok}
      BY <2>9, <3>1, AnswerFields DEF Takes
    <3>3. arrived - taken >= Len(f)
      BY <2>4, <2>9
    <3> QED BY <1>2, <2>1, <2>9, <3>2, <3>3, Zenon DEF Takes, FrameTaken
  <2> QED BY <2>6, <2>7, <2>8, <2>9
<1> QED BY <1>1, <1>2, BufferFacts

-----------------------------------------------------------------------------
(* The steps *)

\* The variables after a step in the terms of the lemmas above.
LEMMA TermsNext ==
  /\ Taken' = TakenOf(sent', taken')
  /\ PrefixLen(Taken)' = Len(Prefix(sent', Taken'))
  /\ PrefixLen(Len(sent))' = Len(Prefix(sent', Len(sent')))
<1>1. \A k : PrefixLen(k)' = Len(Prefix(sent', k))
  BY Zenon DEF PrefixLen, Prefix
<1>2. /\ PrefixLen(Taken)' = Len(Prefix(sent', Taken'))
      /\ PrefixLen(Len(sent))' = Len(Prefix(sent', Len(sent')))
  BY Zenon DEF PrefixLen, Prefix
<1> QED BY <1>1, <1>2, Zenon DEF Taken, TakenOf, PrefixLen, Prefix

\* Nothing split off: the head of the queue stays where it is.
LEMMA StaysAtHead ==
  ASSUME sent' = sent, taken' = taken
  PROVE  /\ Taken' = Taken
         /\ PrefixLen(Taken)' = PrefixLen(Taken) /\ PrefixLen(Len(sent))' = PrefixLen(Len(sent))
BY Terms, TermsNext, Zenon

\* A frame split off: the next one is the head.
LEMMA MovesToNext ==
  ASSUME FrameInv, Taken < Len(sent), sent' = sent, taken' = taken + Len(HeadFrame)
  PROVE  /\ Taken' = Taken + 1 /\ taken' = PrefixLen(Taken)'
         /\ PrefixLen(Len(sent))' = PrefixLen(Len(sent))
<1>1. sent \in Streams /\ sent \in Seq(Seq(Cells)) /\ Len(sent) \in Nat /\ Taken \in 0 .. Len(sent)
      /\ Taken + 1 \in 0 .. Len(sent) /\ Taken + 1 \in 1 .. Len(sent)
  BY BufferFacts DEF FrameInv
<1>2. PICK k \in 0 .. Len(sent) : k = Taken
  BY <1>1
<1>3. Prefix(sent, k + 1) = Prefix(sent, k) \o sent[k + 1] /\ Prefix(sent, k) \in Seq(Cells)
  BY <1>1, <1>2, PrefixStep
<1>4. sent[k + 1] \in Seq(Cells)
  BY <1>1, <1>2, FrameFacts
<1>5. Len(Prefix(sent, k + 1)) = Len(Prefix(sent, k)) + Len(sent[k + 1])
  BY <1>3, <1>4
<1>6. taken = Len(Prefix(sent, k))
  BY <1>2, Terms DEF FrameInv
<1>7. taken' = Len(Prefix(sent, k + 1))
  BY <1>2, <1>5, <1>6 DEF HeadFrame
<1>8. TakenOf(sent, Len(Prefix(sent, k + 1))) = k + 1
  BY <1>1, <1>2, TakenOfPrefix
<1>9. Taken' = k + 1
  BY <1>7, <1>8, TermsNext
<1>10. taken' = PrefixLen(Taken)'
  BY <1>7, <1>9, TermsNext
<1> QED BY <1>2, <1>9, <1>10, Terms, TermsNext

\* What FramedRead reports.
LEMMA Reports ==
  /\ \A what : Telling(what).is = what
  /\ \A error : Failing(error).is = "failed"
<1>1. ASSUME NEW what, NEW errors
      PROVE  [is |-> what, errors |-> errors].is = what
  OBVIOUS
<1> QED BY <1>1, Zenon DEF Telling, Failing

\* The decoder's step, one answer at a time.
LEMMA DecodeStep ==
  ASSUME FrameInv, Decode
  PROVE  \E d : /\ Quiet(d) \/ HeaderRefused(d) \/ FrameTaken(d)
                /\ header' = d.header /\ taken' = taken + d.used
                /\ PollOutcome(d)
                /\ ~errored
                /\ UNCHANGED <<sent, arrived, eof>>
<1>1. PICK d \in {WireDecode(header, Buffer)} :
        header' = d.header /\ taken' = taken + d.used /\ PollOutcome(d)
  BY DEF Decode
<1>2. Quiet(d) \/ HeaderRefused(d) \/ FrameTaken(d)
  BY <1>1, DecodeAnswers
<1> QED BY <1>1, <1>2 DEF Decode, Polling

\* A poll that fails says so.
LEMMA PollReports ==
  ASSUME NEW d, PollOutcome(d)
  PROVE  errored' => told'.is \in {"failed", "broken"}
BY Reports, Zenon DEF PollOutcome

\* Every step of the relay keeps the reader's invariant.
LEMMA NextFrame == FrameInv /\ [Next]_vars => FrameInv'
<1> SUFFICES ASSUME FrameInv, [Next]_vars
             PROVE  FrameInv'
  OBVIOUS
<1>0. /\ sent \in Streams /\ Taken \in 0 .. Len(sent) /\ taken = PrefixLen(Taken)
      /\ arrived \in Nat /\ taken <= arrived /\ arrived <= PrefixLen(Len(sent))
      /\ taken \in Nat /\ Len(sent) \in Nat
  BY BufferFacts DEF FrameInv
<1>1. CASE UNCHANGED <<sent, taken, header>> /\ arrived' = arrived
           /\ (errored' => told'.is \in {"failed", "broken"})
  BY <1>1, StaysAtHead DEF FrameInv
<1>2. CASE Read
  <2>1. /\ UNCHANGED <<sent, taken, header>> /\ (errored' => told'.is \in {"failed", "broken"})
        /\ \E n \in (arrived + 1) .. PrefixLen(Len(sent)) : arrived' = n
    BY <1>2 DEF Read, FrameInv
  <2>2. PrefixLen(Len(sent)) \in Nat
    BY <1>0, PrefixGrows, Terms
  <2>3. arrived' \in Nat /\ arrived' > arrived /\ arrived' <= PrefixLen(Len(sent))
    BY <1>0, <2>1, <2>2
  <2>4. header' # {} => arrived' - taken' >= HeaderSize
    BY <1>0, <2>1, <2>3 DEF FrameInv, HeaderSize
  <2> QED BY <1>0, <2>1, <2>3, <2>4, StaysAtHead DEF FrameInv
<1>3. CASE ReadEof
  BY <1>1, <1>3 DEF ReadEof, FrameInv
<1>8. CASE ReadFails
  <2>1. told'.is = "broken" /\ UNCHANGED <<sent, arrived, taken, header>>
    BY <1>8 DEF ReadFails
  <2> QED BY <1>1, <2>1
<1>4. CASE PollAfterError
  BY <1>1, <1>4 DEF PollAfterError
<1>5. CASE Forward
  BY <1>1, <1>5 DEF Forward, FrameInv
<1>6. CASE Decode
  <2>1. PICK d : /\ Quiet(d) \/ HeaderRefused(d) \/ FrameTaken(d)
                 /\ header' = d.header /\ taken' = taken + d.used
                 /\ PollOutcome(d)
                 /\ UNCHANGED <<sent, arrived>>
    BY <1>6, DecodeStep
  <2>2. errored' => told'.is \in {"failed", "broken"}
    BY <2>1, PollReports
  <2>3. CASE Quiet(d)
    <3>0. d.used = 0
      BY <2>3, Zenon DEF Quiet
    <3>1. taken' = taken
      BY <1>0, <2>1, <3>0
    <3>2. Taken' = Taken
      BY <2>1, <3>1, StaysAtHead
    <3>3. header' # {} => /\ Taken < Len(sent) /\ arrived - taken >= HeaderSize
                          /\ ~IsErr(MessageHeaderFromBytes(sent[Taken + 1]))
                          /\ header' = {MessageHeaderFromBytes(sent[Taken + 1]).ok}
      BY <2>1, <2>3, Zenon DEF Quiet, HeadFrame
    <3> QED BY <1>0, <2>1, <2>2, <3>1, <3>2, <3>3, StaysAtHead DEF FrameInv
  <2>4. CASE HeaderRefused(d)
    <3>0. d.used = 0 /\ header' = {}
      BY <2>1, <2>4, Zenon DEF HeaderRefused
    <3>1. taken' = taken
      BY <1>0, <2>1, <3>0
    <3> QED BY <1>0, <2>1, <2>2, <3>0, <3>1, StaysAtHead DEF FrameInv
  <2>5. CASE FrameTaken(d)
    <3>1. header' = {} /\ taken' = taken + Len(HeadFrame) /\ Taken < Len(sent) /\ arrived - taken >= Len(HeadFrame)
      BY <2>1, <2>5, Zenon DEF FrameTaken
    <3>2. Len(HeadFrame) \in Nat
      BY <1>0, <3>1, FrameFacts DEF HeadFrame
    <3>3. Taken' = Taken + 1 /\ taken' = PrefixLen(Taken)' /\ PrefixLen(Len(sent))' = PrefixLen(Len(sent))
      BY <2>1, <3>1, MovesToNext
    <3>4. taken' <= arrived' /\ Taken' \in 0 .. Len(sent') /\ arrived' <= PrefixLen(Len(sent))'
      BY <1>0, <2>1, <3>1, <3>2, <3>3
    <3> QED BY <1>0, <2>1, <2>2, <3>1, <3>3, <3>4, Zenon DEF FrameInv
  <2> QED BY <2>1, <2>3, <2>4, <2>5
<1>7. CASE UNCHANGED vars
  BY <1>1, <1>7 DEF vars, FrameInv
<1> QED BY <1>2, <1>3, <1>4, <1>5, <1>6, <1>7, <1>8 DEF Next

\* The reader's invariant holds throughout.
THEOREM FramesWhole == Spec => []FrameInv
BY InitFrame, NextFrame, PTL DEF Spec

-----------------------------------------------------------------------------
(* The refinement of FrameQueue *)

\* What the queue shows of the buffer is a truth value.
LEMMA HeldIsBoolean ==
  /\ (arrived > taken) \in BOOLEAN
  /\ (arrived' > taken') \in BOOLEAN
OBVIOUS

\* Bytes that arrive change nothing but what is held.
LEMMA ReadReceives ==
  ASSUME FrameInv, Read
  PROVE  Queue!Receive
<1>1. arrived' > taken' /\ UNCHANGED <<sent, taken, eof, delivered, told>>
  <2>1. /\ UNCHANGED <<sent, taken, eof, delivered, told>>
        /\ \E n \in (arrived + 1) .. PrefixLen(Len(sent)) : arrived' = n
    BY DEF Read
  <2>2. PrefixLen(Len(sent)) \in Nat
    <3>1. sent \in Streams /\ Len(sent) \in 0 .. Len(sent)
      BY BufferFacts DEF FrameInv
    <3> QED BY <3>1, PrefixGrows, Terms
  <2> QED BY <2>1, <2>2, BufferFacts
<1>2. (arrived' > taken') = TRUE
  BY <1>1
<1>3. Taken' = Taken
  BY <1>1, StaysAtHead
<1> QED BY <1>1, <1>2, <1>3, Zenon DEF Queue!Receive

\* The end of file is seen.
LEMMA EofReceives ==
  ASSUME ReadEof
  PROVE  Queue!Receive
<1>1. eof' = TRUE /\ UNCHANGED <<sent, arrived, taken, delivered, told>>
  BY DEF ReadEof
<1>2. Taken' = Taken
  BY <1>1, StaysAtHead
<1> QED BY <1>1, <1>2, Zenon DEF Queue!Receive

\* A read that fails changes nothing but what the owner is told.
LEMMA FailureBreaks ==
  ASSUME ReadFails
  PROVE  Queue!Break
<1>1. told'.is = "broken" /\ ~eof /\ UNCHANGED <<sent, arrived, taken, eof, delivered>>
  BY DEF ReadFails, Reading
<1>2. Taken' = Taken
  BY <1>1, StaysAtHead
<1> QED BY <1>1, <1>2, Zenon DEF Queue!Break

\* The poll after an error ends the stream.
LEMMA ErrorEnds ==
  ASSUME FrameInv, PollAfterError
  PROVE  Queue!End
<1>1. /\ told.is \in {"failed", "broken"} /\ told' = Telling("ended")
      /\ UNCHANGED <<sent, arrived, taken, eof, delivered>>
  BY DEF PollAfterError, FrameInv
<1>2. told'.is = "ended"
  BY <1>1, Reports
<1>3. Taken' = Taken
  BY <1>1, StaysAtHead
<1> QED BY <1>1, <1>2, <1>3, Zenon DEF Queue!End

\* A poll without a frame: the reader waits, or the stream is over, quietly
\* between two frames and with an error inside one.
LEMMA QuietSimulates ==
  ASSUME FrameInv, NEW d, Quiet(d), PollOutcome(d),
         taken' = taken, UNCHANGED <<sent, arrived, eof>>
  PROVE  Queue!Truncated \/ Queue!End \/ UNCHANGED Queue!queueVars
<1>1. d.err = "" /\ d.item = {}
  BY Zenon DEF Quiet
<1>2. Taken' = Taken /\ delivered' = delivered
  <2>1. Taken' = Taken
    BY StaysAtHead
  <2> QED BY <1>1, <2>1, Zenon DEF PollOutcome
<1>3. Buffer # <<>> <=> arrived > taken
  BY BufferFacts
<1>4. CASE eof /\ Buffer # <<>>
  <2>1. told'.is = "failed"
    BY <1>1, <1>4, Reports, Zenon DEF PollOutcome
  <2> QED BY <1>2, <1>3, <1>4, <2>1, Zenon DEF Queue!Truncated
<1>5. CASE eof /\ Buffer = <<>>
  <2>1. told'.is = "ended"
    BY <1>1, <1>5, Reports, Zenon DEF PollOutcome
  <2> QED BY <1>2, <1>3, <1>5, <2>1, Zenon DEF Queue!End
<1>6. CASE ~eof
  <2>1. told' = told
    BY <1>1, <1>6, Zenon DEF PollOutcome
  <2> QED BY <1>2, <2>1, Zenon DEF Queue!queueVars
<1> QED BY <1>4, <1>5, <1>6

\* The head of the queue by what Message::from_bytes makes of it.
LEMMA HeadKinds ==
  ASSUME FrameInv, Taken < Len(sent)
  PROVE  /\ HeadFrame \in AllFrames /\ Len(HeadFrame) \in Nat /\ Len(HeadFrame) >= HeaderSize
         /\ HeadFrame \in GoodFrames <=> ~IsErr(MessageFromBytes(HeadFrame))
         /\ HeadFrame \in BadBodies <=> /\ IsErr(MessageFromBytes(HeadFrame))
                                        /\ ~IsErr(MessageHeaderFromBytes(HeadFrame))
         /\ IsErr(MessageHeaderFromBytes(HeadFrame)) => IsErr(MessageFromBytes(HeadFrame))
<1>1. sent \in Streams /\ Taken + 1 \in 1 .. Len(sent)
  BY BufferFacts DEF FrameInv
<1>2. HeadFrame \in AllFrames /\ Len(HeadFrame) \in Nat /\ Len(HeadFrame) >= HeaderSize
  BY <1>1, FrameFacts DEF HeadFrame
<1>3. HeadFrame \in GoodFrames <=> ~IsErr(MessageFromBytes(HeadFrame))
  BY <1>2, Zenon DEF GoodFrames
<1>4. HeadFrame \in BadBodies <=> /\ IsErr(MessageFromBytes(HeadFrame))
                                  /\ ~IsErr(MessageHeaderFromBytes(HeadFrame))
  BY <1>2, <1>3, Zenon DEF BadBodies
<1>5. IsErr(MessageHeaderFromBytes(HeadFrame)) => IsErr(MessageFromBytes(HeadFrame))
  BY FromBytes, Zenon
<1> QED BY <1>2, <1>3, <1>4, <1>5, Zenon

\* The position of the head of the queue.
LEMMA HeadPosition ==
  ASSUME FrameInv, Taken < Len(sent)
  PROVE  Taken + 1 <= Len(sent)
BY BufferFacts

\* A header that is refused is reported, and the frame stays.
LEMMA RefusalSimulates ==
  ASSUME FrameInv, NEW d, HeaderRefused(d), PollOutcome(d),
         taken' = taken, UNCHANGED <<sent, arrived, eof>>
  PROVE  Queue!Reject
<1>1. /\ d.err # "" /\ d.item = {} /\ Taken < Len(sent) /\ arrived > taken
      /\ IsErr(MessageHeaderFromBytes(HeadFrame))
  BY Zenon DEF HeaderRefused
<1>2. told'.is = "failed" /\ delivered' = delivered
  BY <1>1, Reports, Zenon DEF PollOutcome
<1>3. Taken' = Taken
  BY StaysAtHead
<1>4. sent[Taken + 1] \notin GoodFrames /\ sent[Taken + 1] \notin BadBodies
  BY <1>1, HeadKinds, Zenon DEF HeadFrame
<1>5. (Taken + 1)' = IF sent[Taken + 1] \in BadBodies THEN (Taken + 1) + 1 ELSE Taken + 1
  BY <1>3, <1>4, Zenon
<1> QED BY <1>1, <1>2, <1>4, <1>5, HeadPosition, HeldIsBoolean, Zenon DEF Queue!Reject

\* A frame that is taken becomes its message, or is reported and dropped.
LEMMA TakingSimulates ==
  ASSUME FrameInv, NEW d, FrameTaken(d), PollOutcome(d),
         taken' = taken + d.used, UNCHANGED <<sent, arrived, eof>>
  PROVE  Queue!Deliver \/ Queue!Reject
<1>1. /\ Taken < Len(sent) /\ arrived - taken >= Len(HeadFrame) /\ d.used = Len(HeadFrame)
      /\ ~IsErr(MessageHeaderFromBytes(HeadFrame)) /\ d.err = MessageFromBytes(HeadFrame).err
      /\ d.item = IF IsErr(MessageFromBytes(HeadFrame)) THEN {} ELSE {MessageFromBytes(HeadFrame).ok}
  BY Zenon DEF FrameTaken
<1>2. Taken' = Taken + 1
  BY <1>1, MovesToNext
<1>3. arrived > taken
  BY <1>1, HeadKinds, BufferFacts DEF HeaderSize
<1>4. CASE IsErr(MessageFromBytes(HeadFrame))
  <2>1. d.err # "" /\ d.item = {}
    BY <1>1, <1>4, Zenon DEF IsErr
  <2>2. told'.is = "failed" /\ delivered' = delivered
    BY <2>1, Reports, Zenon DEF PollOutcome
  <2>3. sent[Taken + 1] \notin GoodFrames /\ sent[Taken + 1] \in BadBodies
    BY <1>1, <1>4, HeadKinds, Zenon DEF HeadFrame
  <2>4. (Taken + 1)' = IF sent[Taken + 1] \in BadBodies THEN (Taken + 1) + 1 ELSE Taken + 1
    BY <1>2, <2>3, Zenon
  <2> QED BY <1>1, <1>3, <2>2, <2>3, <2>4, HeadPosition, HeldIsBoolean, Zenon DEF Queue!Reject
<1>5. CASE ~IsErr(MessageFromBytes(HeadFrame))
  <2>1. d.err = "" /\ d.item = {MessageFromBytes(HeadFrame).ok}
    BY <1>1, <1>5, Zenon DEF IsErr
  <2>2. d.item # {} /\ Sole(d.item) = MessageFromBytes(HeadFrame).ok
    BY <2>1, Zenon DEF Sole
  <2>3. told'.is = "open" /\ delivered' = Append(delivered, MessageFromBytes(HeadFrame).ok)
    BY <2>1, <2>2, Reports, Zenon DEF PollOutcome
  <2>4. HeadFrame \in GoodFrames
    BY <1>1, <1>5, HeadKinds, Zenon
  <2>5. MessageOf[HeadFrame] = MessageFromBytes(HeadFrame).ok
    BY <2>4, Zenon DEF MessageOf
  <2>6. /\ sent[Taken + 1] \in GoodFrames
        /\ delivered' = Append(delivered, MessageOf[sent[Taken + 1]])
    BY <2>3, <2>4, <2>5, Zenon DEF HeadFrame
  <2>7. (Taken + 1)' = (Taken + 1) + 1
    BY <1>2, Zenon
  <2> QED BY <1>1, <1>3, <2>3, <2>6, <2>7, HeadPosition, HeldIsBoolean, Zenon DEF Queue!Deliver
<1> QED BY <1>4, <1>5

\* Every step of the relay is a step of the queue or does not show in it.
LEMMA SimulatesQueue == FrameInv /\ [Next]_vars => [Queue!QueueNext]_(Queue!queueVars)
<1> SUFFICES ASSUME FrameInv, [Next]_vars
             PROVE  Queue!QueueNext \/ UNCHANGED Queue!queueVars
  OBVIOUS
<1>1. CASE Read \/ ReadEof
  BY <1>1, ReadReceives, EofReceives DEF Queue!QueueNext
<1>2. CASE PollAfterError
  BY <1>2, ErrorEnds DEF Queue!QueueNext
<1>7. CASE ReadFails
  BY <1>7, FailureBreaks DEF Queue!QueueNext
<1>3. CASE UNCHANGED <<sent, arrived, taken, eof, delivered, told>>
  BY <1>3, StaysAtHead, Zenon DEF Queue!queueVars
<1>4. CASE Forward
  BY <1>3, <1>4 DEF Forward
<1>5. CASE Decode
  <2>1. PICK d : /\ Quiet(d) \/ HeaderRefused(d) \/ FrameTaken(d)
                 /\ taken' = taken + d.used /\ PollOutcome(d)
                 /\ UNCHANGED <<sent, arrived, eof>>
    BY <1>5, DecodeStep
  <2>2. ASSUME Quiet(d) \/ HeaderRefused(d)
        PROVE  taken' = taken
    <3>1. d.used = 0
      BY <2>2, Zenon DEF Quiet, HeaderRefused
    <3> QED BY <2>1, <3>1, BufferFacts
  <2>3. CASE Quiet(d)
    BY <2>1, <2>2, <2>3, QuietSimulates DEF Queue!QueueNext
  <2>4. CASE HeaderRefused(d)
    BY <2>1, <2>2, <2>4, RefusalSimulates DEF Queue!QueueNext
  <2>5. CASE FrameTaken(d)
    BY <2>1, <2>5, TakingSimulates DEF Queue!QueueNext
  <2> QED BY <2>1, <2>3, <2>4, <2>5
<1>6. CASE UNCHANGED vars
  BY <1>3, <1>6 DEF vars
<1> QED BY <1>1, <1>2, <1>4, <1>5, <1>6, <1>7 DEF Next

\* At the start no frame has been taken.
LEMMA InitTaken == Init => Taken = 0
<1> SUFFICES ASSUME Init
             PROVE  Taken = 0
  OBVIOUS
<1>1. sent \in Streams /\ taken = 0 /\ sent \in Seq(Seq(Cells)) /\ 0 \in 0 .. Len(sent)
  BY FrameFacts DEF Init
<1>2. Prefix(sent, 0) = <<>>
  BY <1>1, PrefixStep
<1>3. Len(Prefix(sent, 0)) = 0
  BY <1>2
<1> QED BY <1>1, <1>3, TakenOfPrefix, Terms

\* The framed reader keeps FrameQueue's promise for streams of any number of
\* frames of any size, however the bytes are cut into reads: WireDecoder with its
\* cached header over FramedRead takes whole frames in the order sent, delivers
\* each as the message it is or reports it, drops no frame but a bad one even when
\* reads fail, and never ends quietly inside a frame.
THEOREM ReaderIsFrameQueue == Spec => ImplementsQueue
<1>1. Init => Queue!QueueInit
  <2> SUFFICES ASSUME Init
               PROVE  Queue!QueueInit
    OBVIOUS
  <2>1. Taken = 0
    BY InitTaken
  <2>2. /\ (arrived > taken) = FALSE /\ eof = FALSE /\ delivered = <<>> /\ told = Telling("open")
    BY DEF Init
  <2>3. Taken + 1 = 1 /\ told.is = "open"
    BY <2>1, <2>2, Reports
  <2> QED BY <2>2, <2>3, Zenon DEF Queue!QueueInit
<1>2. FrameInv /\ [Next]_vars => [Queue!QueueNext]_(Queue!queueVars)
  BY SimulatesQueue
<1> QED BY <1>1, <1>2, FramesWhole, PTL DEF Spec, ImplementsQueue, Queue!QueueSpec

-----------------------------------------------------------------------------
(* What the queue comes to *)

\* The messages d are those of the good frames among the first n of s: at[i] is
\* the frame that the i-th message was.
Deliveries(s, n, d) ==
  \E at \in [1 .. Len(d) -> 1 .. n] :
    /\ \A i, j \in 1 .. Len(d) : i < j => at[i] < at[j]
    /\ \A i \in 1 .. Len(d) : s[at[i]] \in GoodFrames /\ d[i] = MessageOf[s[at[i]]]
    /\ \A k \in 1 .. n : s[k] \in GoodFrames => \E i \in 1 .. Len(d) : at[i] = k

\* A message for every good frame that was taken, in the order of the frames,
\* and no other.
DeliveredOnce ==
  /\ delivered \in Seq({MessageOf[f] : f \in GoodFrames})
  /\ Deliveries(sent, Taken, delivered)

\* What appending a message leaves.
LEMMA AppendFacts ==
  ASSUME NEW M, NEW d \in Seq(M), NEW m \in M
  PROVE  /\ Append(d, m) \in Seq(M) /\ Len(d) \in Nat /\ Len(Append(d, m)) = Len(d) + 1
         /\ Append(d, m)[Len(d) + 1] = m
         /\ \A i \in 1 .. Len(d) : Append(d, m)[i] = d[i]
  OBVIOUS

\* One good frame more is one message more.
LEMMA DeliveriesGrow ==
  ASSUME NEW s, NEW n \in Nat, NEW M, NEW d \in Seq(M), Deliveries(s, n, d),
         s[n + 1] \in GoodFrames, MessageOf[s[n + 1]] \in M
  PROVE  Deliveries(s, n + 1, Append(d, MessageOf[s[n + 1]]))
<1>1. PICK m \in M : m = MessageOf[s[n + 1]]
  OBVIOUS
<1>2. PICK e : e = Append(d, m)
  BY Zenon
<1>12. /\ Len(d) \in Nat /\ Len(Append(d, m)) = Len(d) + 1
      /\ Append(d, m)[Len(d) + 1] = m
      /\ \A i \in 1 .. Len(d) : Append(d, m)[i] = d[i]
  BY AppendFacts
<1>3. PICK l \in Nat : l = Len(d)
  BY <1>12, Zenon
<1>4. Len(e) = l + 1 /\ e[l + 1] = m /\ \A i \in 1 .. l : e[i] = d[i]
  BY <1>2, <1>3, <1>12, Zenon
<1>5. PICK at \in [1 .. l -> 1 .. n] :
        /\ \A i, j \in 1 .. l : i < j => at[i] < at[j]
        /\ \A i \in 1 .. l : s[at[i]] \in GoodFrames /\ d[i] = MessageOf[s[at[i]]]
        /\ \A k \in 1 .. n : s[k] \in GoodFrames => \E i \in 1 .. l : at[i] = k
  BY <1>3, Zenon DEF Deliveries
<1> DEFINE more == [i \in 1 .. l + 1 |-> IF i = l + 1 THEN n + 1 ELSE at[i]]
<1>6. /\ more \in [1 .. l + 1 -> 1 .. n + 1] /\ more[l + 1] = n + 1
      /\ \A i \in 1 .. l : more[i] = at[i] /\ at[i] \in 1 .. n
  BY <1>5
<1>7. \A i \in 1 .. l + 1 : i \in 1 .. l \/ i = l + 1
  OBVIOUS
<1> HIDE DEF more
<1>8. ASSUME NEW i \in 1 .. l + 1, NEW j \in 1 .. l + 1, i < j
      PROVE  more[i] < more[j]
  <2>1. i \in 1 .. l
    BY <1>8
  <2>2. more[i] = at[i] /\ at[i] \in 1 .. n
    BY <1>6, <2>1, Zenon
  <2>3. CASE j = l + 1
    <3>1. more[j] = n + 1
      BY <1>6, <2>3, Zenon
    <3> QED BY <2>2, <3>1
  <2>4. CASE j \in 1 .. l
    <3>1. more[j] = at[j] /\ at[i] < at[j]
      BY <1>5, <1>6, <1>8, <2>1, <2>4, Zenon
    <3> QED BY <2>2, <3>1, Zenon
  <2> QED BY <1>7, <2>3, <2>4, Zenon
<1>9. \A i \in 1 .. l + 1 : s[more[i]] \in GoodFrames /\ e[i] = MessageOf[s[more[i]]]
  BY <1>1, <1>4, <1>5, <1>6, <1>7, Zenon
<1>10. ASSUME NEW k \in 1 .. n + 1, s[k] \in GoodFrames
       PROVE  \E i \in 1 .. l + 1 : more[i] = k
  <2>1. CASE k = n + 1
    BY <1>6, <2>1
  <2>2. CASE k \in 1 .. n
    <3>1. PICK i \in 1 .. l : at[i] = k
      BY <1>5, <1>10, <2>2
    <3> QED BY <1>6, <3>1
  <2> QED BY <2>1, <2>2
<1>11. Deliveries(s, n + 1, e)
  <2>1. more \in [1 .. Len(e) -> 1 .. n + 1]
    BY <1>4, <1>6, Zenon
  <2>2. \A i, j \in 1 .. Len(e) : i < j => more[i] < more[j]
    BY <1>4, <1>8, Zenon
  <2>3. \A i \in 1 .. Len(e) : s[more[i]] \in GoodFrames /\ e[i] = MessageOf[s[more[i]]]
    BY <1>4, <1>9, Zenon
  <2>4. \A k \in 1 .. n + 1 : s[k] \in GoodFrames => \E i \in 1 .. Len(e) : more[i] = k
    BY <1>4, <1>10, Zenon
  <2> QED BY <2>1, <2>2, <2>3, <2>4, Zenon DEF Deliveries
<1> QED BY <1>1, <1>2, <1>11, Zenon

\* A bad frame more changes nothing.
LEMMA DeliveriesSkip ==
  ASSUME NEW s, NEW n \in Nat, NEW M, NEW d \in Seq(M), Deliveries(s, n, d), s[n + 1] \notin GoodFrames
  PROVE  Deliveries(s, n + 1, d)
<1>1. PICK at \in [1 .. Len(d) -> 1 .. n] :
        /\ \A i, j \in 1 .. Len(d) : i < j => at[i] < at[j]
        /\ \A i \in 1 .. Len(d) : s[at[i]] \in GoodFrames /\ d[i] = MessageOf[s[at[i]]]
        /\ \A k \in 1 .. n : s[k] \in GoodFrames => \E i \in 1 .. Len(d) : at[i] = k
  BY Zenon DEF Deliveries
<1>2. at \in [1 .. Len(d) -> 1 .. n + 1]
  BY <1>1
<1>3. \A k \in 1 .. n + 1 : k \in 1 .. n \/ k = n + 1
  OBVIOUS
<1>4. \A k \in 1 .. n + 1 : s[k] \in GoodFrames => \E i \in 1 .. Len(d) : at[i] = k
  BY <1>1, <1>3, Zenon
<1> QED BY <1>1, <1>2, <1>4, Zenon DEF Deliveries

\* What a step of the queue does to the frames taken and the messages delivered.
LEMMA QueueMoves ==
  ASSUME FrameInv, FrameInv', Queue!QueueNext \/ UNCHANGED Queue!queueVars
  PROVE  /\ sent' = sent
         /\ \/ Taken' = Taken /\ delivered' = delivered
            \/ /\ Taken' = Taken + 1 /\ sent[Taken + 1] \in GoodFrames
               /\ delivered' = Append(delivered, MessageOf[sent[Taken + 1]])
            \/ /\ Taken' = Taken + 1 /\ sent[Taken + 1] \notin GoodFrames
               /\ delivered' = delivered
<1>1. Taken \in Nat /\ Taken' \in Nat
  <2>1. /\ sent \in Streams /\ Taken \in 0 .. Len(sent)
        /\ sent' \in Streams /\ Taken' \in 0 .. Len(sent')
    BY DEF FrameInv
  <2> QED BY <2>1
<1>2. /\ (Taken + 1)' = Taken + 1 => Taken' = Taken
      /\ (Taken + 1)' = (Taken + 1) + 1 => Taken' = Taken + 1
  <2>1. (Taken + 1)' = Taken' + 1
    BY Zenon
  <2>2. \A a, b \in Nat : (b + 1 = a + 1 => b = a) /\ (b + 1 = (a + 1) + 1 => b = a + 1)
    OBVIOUS
  <2> QED BY <1>1, <2>1, <2>2, Zenon
<1>3. CASE UNCHANGED Queue!queueVars
  <2>1. sent' = sent /\ (Taken + 1)' = Taken + 1 /\ delivered' = delivered
    BY <1>3, Zenon DEF Queue!queueVars
  <2> QED BY <1>2, <2>1, Zenon
<1>4. CASE Queue!Receive \/ Queue!Truncated \/ Queue!Break \/ Queue!End
  <2>1. sent' = sent /\ (Taken + 1)' = Taken + 1 /\ delivered' = delivered
    BY <1>4, Zenon DEF Queue!Receive, Queue!Truncated, Queue!Break, Queue!End
  <2> QED BY <1>2, <2>1, Zenon
<1>5. CASE Queue!Deliver
  <2>1. /\ sent' = sent /\ (Taken + 1)' = (Taken + 1) + 1 /\ sent[Taken + 1] \in GoodFrames
        /\ delivered' = Append(delivered, MessageOf[sent[Taken + 1]])
    BY <1>5, Zenon DEF Queue!Deliver
  <2>2. Taken' = Taken + 1
    BY <1>2, <2>1, Zenon
  <2> QED BY <2>1, <2>2, Zenon
<1>6. CASE Queue!Reject
  <2>1. /\ sent' = sent /\ sent[Taken + 1] \notin GoodFrames /\ delivered' = delivered
        /\ (Taken + 1)' = (Taken + 1) + 1 \/ (Taken + 1)' = Taken + 1
    BY <1>6, Zenon DEF Queue!Reject
  <2>2. Taken' = Taken + 1 \/ Taken' = Taken
    BY <1>2, <2>1, Zenon
  <2> QED BY <2>1, <2>2, Zenon
<1> QED BY <1>3, <1>4, <1>5, <1>6, Zenon DEF Queue!QueueNext

\* At any moment the owner of the connection has been given the message of every
\* well-formed frame taken off the stream, once and in the order sent, and
\* nothing else: FramedRead neither loses, repeats nor reorders a frame, and
\* makes none up, whatever bad frames come between and however the reads fall or
\* fail.
THEOREM MessagesDeliveredOnce == Spec => []DeliveredOnce
<1> DEFINE M == {MessageOf[f] : f \in GoodFrames}
<1>1. Init => DeliveredOnce
  <2> SUFFICES ASSUME Init
               PROVE  DeliveredOnce
    OBVIOUS
  <2>1. delivered = <<>>
    BY DEF Init
  <2>2. Taken = 0
    BY InitTaken
  <2>3. Len(delivered) = 0 /\ delivered \in Seq(M)
    BY <2>1
  <2>4. <<>> \in [1 .. 0 -> 1 .. 0] /\ \A k \in 1 .. 0 : FALSE
    OBVIOUS
  <2>5. Deliveries(sent, 0, delivered)
    BY <2>3, <2>4, Zenon DEF Deliveries
  <2> QED BY <2>2, <2>3, <2>5, Zenon DEF DeliveredOnce
<1>2. DeliveredOnce /\ FrameInv /\ FrameInv' /\ [Next]_vars => DeliveredOnce'
  <2> SUFFICES ASSUME DeliveredOnce, FrameInv, FrameInv', [Next]_vars
               PROVE  DeliveredOnce'
    OBVIOUS
  <2>1. Queue!QueueNext \/ UNCHANGED Queue!queueVars
    BY SimulatesQueue
  <2>2. PICK n \in Nat : n = Taken
    <3>1. sent \in Streams /\ Taken \in 0 .. Len(sent)
      BY DEF FrameInv
    <3> QED BY <3>1
  <2>3. delivered \in Seq(M) /\ Deliveries(sent, n, delivered)
    BY <2>2, Zenon DEF DeliveredOnce
  <2>4. delivered' \in Seq(M) /\ Deliveries(sent, Taken', delivered')
    <3>1. CASE Taken' = n /\ delivered' = delivered
      BY <2>3, <3>1, Zenon
    <3>2. CASE /\ Taken' = n + 1 /\ sent[n + 1] \in GoodFrames
               /\ delivered' = Append(delivered, MessageOf[sent[n + 1]])
      <4>1. MessageOf[sent[n + 1]] \in M
        BY <3>2, Zenon
      <4> HIDE DEF M
      <4>2. delivered' \in Seq(M)
        BY <2>3, <3>2, <4>1, AppendFacts, Zenon
      <4>3. Deliveries(sent, n + 1, Append(delivered, MessageOf[sent[n + 1]]))
        BY <2>3, <3>2, <4>1, DeliveriesGrow, Zenon
      <4> QED BY <3>2, <4>2, <4>3, Zenon
    <3>3. CASE Taken' = n + 1 /\ sent[n + 1] \notin GoodFrames /\ delivered' = delivered
      <4> HIDE DEF M
      <4>1. Deliveries(sent, n + 1, delivered)
        BY <2>3, <3>3, DeliveriesSkip, Zenon
      <4> QED BY <2>3, <3>3, <4>1, Zenon
    <3> QED BY <2>1, <2>2, <3>1, <3>2, <3>3, QueueMoves, Zenon
  <2>5. sent' = sent
    BY <2>1, QueueMoves, Zenon
  <2> QED BY <2>4, <2>5, Zenon DEF DeliveredOnce
<1> QED BY <1>1, <1>2, FramesWhole, PTL DEF Spec
=============================================================================
